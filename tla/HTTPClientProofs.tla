--------------------------- MODULE HTTPClientProofs ---------------------------
(***************************************************************************)
(* The pipeline of an HTTPClient whose application repeats no request that *)
(* is still in it gives every request its own response, whatever closes,   *)
(* dies or is late in between.  The invariant divides the pipeline: a      *)
(* prefix is complete, the next element is the current one, and the rest   *)
(* is untouched; and it says what the server has answered on the present   *)
(* connection, how much of the first of these answers was read, and that   *)
(* the pieces under way are the rest of them.                              *)
(***************************************************************************)
EXTENDS HTTPClient, SequenceTheorems, FiniteSetTheorems, WellFoundedInduction, TLAPS

Piece == [of : Requests, kind : Kinds, part : {"head", "body"}]

Element ==
  [req : Requests, got : Seq(Piece), header : BOOLEAN, body : BOOLEAN, spoiled : BOOLEAN]

Parsers == {"start", "message", "eof", "failed", "crashed"}

HeadOf(r, kind) == [of |-> r, kind |-> kind, part |-> "head"]
BodyOf(r, kind) == [of |-> r, kind |-> kind, part |-> "body"]

Spoils(p) == \E i \in 1..Len(p) : p[i].spoiled

Distinct(p) == \A i, j \in 1..Len(p) : p[i].req = p[j].req => i = j

\* The first k responses are complete, of which those that did not begin anew
\* are whole, and nothing is known of those behind the next one.
Divided(p, k) ==
  /\ p \in Seq(Element) /\ k \in 0..Len(p) /\ Distinct(p)
  /\ \A i \in 1..k : IsComplete(p[i]) /\ (p[i].spoiled \/ Whole(p[i]))
  /\ k < Len(p) => ~p[k + 1].body
  /\ \A i \in k + 2..Len(p) : p[i] = Fresh(p[i].req)

\* Whose turn it is; after a stranded request was added, nobody's.
Turn(p, k, cur, str) ==
  /\ cur = IF k = Len(p) \/ str THEN None ELSE p[k + 1].req
  /\ str => k < Len(p)

\* The server has yet to answer all but m of the outstanding requests.
Waiting(p, k, ask, m) ==
  /\ ask \in Seq(Requests) /\ Len(p) = k + m + Len(ask)
  /\ \A j \in 1..Len(ask) : ask[j] = p[k + m + j].req

\* Of the first of the server's answers, ans[1], off pieces were read.
Stage(ps, off, ans) ==
  /\ off = 0 <=> ps \in {"start", "crashed"}
  /\ off > 0 => ans # <<>> /\ ps = IF ans[1] = "eof" THEN "eof" ELSE "message"
  /\ off = 2 => ans[1] = "eof"

Begun(e, off, ans) ==
  /\ off > 0 => e.header
  /\ ~e.spoiled =>
       /\ Len(e.got) = off
       /\ off > 0 => e.got[1] = HeadOf(e.req, ans[1])
       /\ off = 2 => e.got[2] = BodyOf(e.req, ans[1])

\* The rest of the answers is in the pieces u, but for what was cut off.
Complete(off, ans, u) == off + Len(u) = 2 * Len(ans)

Stream(p, k, off, ans, u) ==
  /\ u \in Seq(Piece) /\ off + Len(u) <= 2 * Len(ans)
  /\ \A a \in 1..Len(ans), j \in 1..Len(u) :
       /\ off + j = 2 * a - 1 => u[j] = HeadOf(p[k + a].req, ans[a])
       /\ off + j = 2 * a => u[j] = BodyOf(p[k + a].req, ans[a])

\* How the server left: only its last answer closes, and one that ends with
\* the stream is not cut off by a FIN.
Leaving(off, ans, u, sv) ==
  /\ sv \in {"up", "last"} => Complete(off, ans, u)
  /\ \A a \in 1..Len(ans) :
       ans[a] # "keep" =>
         a = Len(ans) /\ sv # "up" /\ (sv = "fin" /\ ans[a] = "eof" => Complete(off, ans, u))

Connected(p, k, ps, off, ans, u, sv) ==
  /\ Stage(ps, off, ans)
  /\ k < Len(p) => Begun(p[k + 1], off, ans)
  /\ Stream(p, k, off, ans, u)
  /\ Leaving(off, ans, u, sv)

Holds(p, cur, ps, ask, u, sv, str) ==
  /\ ps = "crashed" => Spoils(p)
  /\ u \in Seq(Piece)
  /\ \E k \in Nat, off \in 0..2, ans \in Seq(Kinds) :
       /\ Divided(p, k) /\ Turn(p, k, cur, str) /\ Waiting(p, k, ask, Len(ans))
       /\ ~str => Connected(p, k, ps, off, ans, u, sv)

Inv ==
  /\ stranded \in BOOLEAN /\ parser \in Parsers
  /\ Holds(pipeline, current, parser, asked, incoming, server, stranded)

-----------------------------------------------------------------------------
(* Elements, and the pieces of a response.                                 *)

LEMMA FreshElement ==
  ASSUME NEW r \in Requests
  PROVE  /\ Fresh(r) \in Element /\ Fresh(r).req = r /\ Fresh(r).got = <<>>
         /\ ~Fresh(r).header /\ ~Fresh(r).body /\ ~Fresh(r).spoiled
BY EmptySeq DEF Fresh, Element

LEMMA PieceKinds ==
  ASSUME NEW r \in Requests, NEW kind \in Kinds
  PROVE  /\ HeadOf(r, kind) \in Piece /\ BodyOf(r, kind) \in Piece
         /\ HeadOf(r, kind).of = r /\ HeadOf(r, kind).kind = kind
         /\ HeadOf(r, kind).part = "head" /\ BodyOf(r, kind).of = r
         /\ BodyOf(r, kind).kind = kind /\ BodyOf(r, kind).part = "body"
BY DEF HeadOf, BodyOf, Piece

LEMMA ResponseFacts ==
  ASSUME NEW r \in Requests, NEW kind \in Kinds
  PROVE  /\ Response(r, kind) \in Seq(Piece) /\ Len(Response(r, kind)) = 2
         /\ Response(r, kind)[1] = HeadOf(r, kind) /\ Response(r, kind)[2] = BodyOf(r, kind)
<1> DEFINE e(i) == [of |-> r, kind |-> kind, part |-> <<"head", "body">>[i]]
<1>1. \A i \in 1..2 : e(i) \in Piece
  <2>1. \A i \in 1..2 : i = 1 \/ i = 2  OBVIOUS
  <2>2. <<"head", "body">>[1] = "head" /\ <<"head", "body">>[2] = "body"  OBVIOUS
  <2>3. e(1) = HeadOf(r, kind) /\ e(2) = BodyOf(r, kind)  BY <2>2 DEF HeadOf, BodyOf
  <2> HIDE DEF e
  <2>4. QED  BY <2>1, <2>3, PieceKinds
<1>2. e(1) = HeadOf(r, kind) /\ e(2) = BodyOf(r, kind)
  <2>1. <<"head", "body">>[1] = "head" /\ <<"head", "body">>[2] = "body"  OBVIOUS
  <2>2. QED  BY <2>1 DEF HeadOf, BodyOf
<1> HIDE DEF e
<1>3. PICK t : t = [i \in 1..2 |-> e(i)]  OBVIOUS
<1>4. 2 \in Nat  OBVIOUS
<1>5. t \in Seq(Piece)  BY <1>1, <1>3, <1>4, IsASeq
<1>6. DOMAIN t = 1..2 /\ t[1] = e(1) /\ t[2] = e(2)  BY <1>3
<1>7. Len(t) = 2  BY <1>5, <1>6, LenProperties
<1>8. Response(r, kind) = t  BY <1>3 DEF Response, e
<1>9. QED  BY <1>2, <1>5, <1>6, <1>7, <1>8

\* Both pieces of a response, and nothing else, are the whole of it.
LEMMA WholeResponse ==
  ASSUME NEW e \in Element, NEW kind \in Kinds, Len(e.got) = 2,
         e.got[1] = HeadOf(e.req, kind), e.got[2] = BodyOf(e.req, kind)
  PROVE  Whole(e)
<1>1. e.req \in Requests /\ e.got \in Seq(Piece)  BY DEF Element
<1>2. PICK t : t = Response(e.req, kind)  OBVIOUS
<1>3. t \in Seq(Piece) /\ Len(t) = 2 /\ t[1] = e.got[1] /\ t[2] = e.got[2]
  BY <1>1, <1>2, ResponseFacts
<1>4. PICK g : g = e.got  OBVIOUS
<1>5. g \in Seq(Piece) /\ Len(g) = 2 /\ t[1] = g[1] /\ t[2] = g[2]  BY <1>1, <1>3, <1>4
<1>6. \A i \in 1..Len(t) : t[i] = g[i]
  <2>1. \A i \in 1..Len(t) : i = 1 \/ i = 2  BY <1>3
  <2>2. QED  BY <1>5, <2>1
<1>7. t = g  BY <1>3, <1>5, <1>6, SeqEqual
<1>8. QED  BY <1>2, <1>4, <1>7 DEF Whole

\* A response without a "close" head does not say so.
LEMMA NotClosing ==
  ASSUME NEW e, \A j \in DOMAIN e.got : e.got[j].kind # "close"
  PROVE  ~SaysClose(e)
<1>1. {j \in DOMAIN e.got : e.got[j].kind = "close" /\ e.got[j].part = "head"} = {}
  OBVIOUS
<1>2. Cardinality({}) # 1  BY FS_EmptySet
<1>3. QED  BY <1>1, <1>2 DEF SaysClose

-----------------------------------------------------------------------------
(* Where a request is in the pipeline, and which are outstanding.          *)

LEMMA PositionIs ==
  ASSUME NEW p, Len(p) \in Nat, Distinct(p), NEW i \in 1..Len(p)
  PROVE  Position(p, p[i].req) = i
<1> DEFINE I == {j \in 1..Len(p) : p[j].req = p[i].req}
<1>1. I = {i}  BY DEF Distinct
<1>2. I # {}  BY <1>1
<1>3. i \in Int  OBVIOUS
<1>4. Min({i}) = i
  <2>1. \A x \in {i} : (\A y \in {i} : x =< y) <=> x = i  BY <1>3
  <2>2. (CHOOSE x \in {i} : \A y \in {i} : x =< y) \in {i}  BY <2>1
  <2>3. QED  BY <2>2 DEF Min
<1>5. Position(p, p[i].req) = IF I # {} THEN Min(I) ELSE 0
  BY DEF Position, SelectInSeq
<1> HIDE DEF I
<1>6. QED  BY <1>1, <1>2, <1>4, <1>5

LEMMA PositionNone ==
  ASSUME NEW p, NEW r, \A i \in 1..Len(p) : p[i].req # r
  PROVE  Position(p, r) = 0
<1>1. {i \in 1..Len(p) : p[i].req = r} = {}  OBVIOUS
<1>2. QED  BY <1>1 DEF Position, SelectInSeq

\* The position is that of a request in the pipeline, unless it is 0.
LEMMA PositionFacts ==
  ASSUME NEW p, Len(p) \in Nat, Distinct(p), NEW r
  PROVE  \/ Position(p, r) = 0 /\ \A i \in 1..Len(p) : p[i].req # r
         \/ Position(p, r) \in 1..Len(p) /\ p[Position(p, r)].req = r
<1>1. CASE \A i \in 1..Len(p) : p[i].req # r  BY <1>1, PositionNone
<1>2. CASE \E i \in 1..Len(p) : p[i].req = r
  <2>1. PICK i \in 1..Len(p) : p[i].req = r  BY <1>2
  <2>2. Position(p, p[i].req) = i  BY PositionIs
  <2>3. QED  BY <2>1, <2>2
<1>3. QED  BY <1>1, <1>2

LEMMA DividedFacts ==
  ASSUME NEW p, NEW k, Divided(p, k)
  PROVE  /\ Len(p) \in Nat /\ k \in Nat /\ k <= Len(p)
         /\ \A i \in 1..Len(p) : p[i] \in Element /\ p[i].req \in Requests
         /\ \A i \in 1..Len(p) : IsComplete(p[i]) <=> i <= k
<1>1. p \in Seq(Element) /\ k \in 0..Len(p)  BY DEF Divided
<1>2. Len(p) \in Nat /\ k \in Nat /\ k <= Len(p)  BY <1>1, LenProperties
<1>3. ASSUME NEW i \in 1..Len(p) PROVE p[i] \in Element /\ p[i].req \in Requests
  <2>1. PICK e : e = p[i]  OBVIOUS
  <2>2. e \in Element  BY <1>1, <2>1, ElementOfSeq
  <2>3. e.req \in Requests  BY <2>2 DEF Element
  <2>4. QED  BY <2>1, <2>2, <2>3
<1>4. ASSUME NEW i \in 1..Len(p) PROVE IsComplete(p[i]) <=> i <= k
  <2>1. CASE i <= k
    <3>1. i \in 1..k  BY <1>2, <2>1
    <3>2. QED  BY <2>1, <3>1 DEF Divided
  <2>2. CASE i = k + 1
    <3>1. k < Len(p) /\ ~(i <= k)  BY <1>2, <2>2
    <3>2. ~p[i].body  BY <2>2, <3>1 DEF Divided
    <3>3. QED  BY <3>1, <3>2 DEF IsComplete
  <2>3. CASE i > k + 1
    <3>1. i \in k + 2..Len(p) /\ ~(i <= k)  BY <1>2, <2>3
    <3>2. p[i] = Fresh(p[i].req)  BY <3>1 DEF Divided
    <3>3. ~p[i].body  BY <1>3, <3>2, FreshElement
    <3>4. QED  BY <3>1, <3>3 DEF IsComplete
  <2>4. QED  BY <1>2, <2>1, <2>2, <2>3
<1>5. QED  BY <1>2, <1>3, <1>4

\* Induction over the natural numbers, from the well-foundedness of <.
LEMMA Induction ==
  ASSUME NEW S \in SUBSET Nat, 0 \in S, \A n \in S : n + 1 \in S
  PROVE  \A n \in Nat : n \in S
<1> SUFFICES ASSUME Nat \ S # {} PROVE FALSE
  OBVIOUS
<1>1. PICK x \in Nat \ S : \A y \in Nat \ S : ~ (<<y, x>> \in OpToRel(<, Nat))
  BY WFMin, NatLessThanWellFounded
<1>2. x # 0 /\ x - 1 \in Nat
  BY SMT
<1>3. <<x - 1, x>> \in OpToRel(<, Nat)
  <2>1. x - 1 < x /\ x \in Nat  BY <1>2
  <2>2. QED  BY <1>2, <2>1 DEF OpToRel
<1>4. x - 1 \in S  BY <1>1, <1>2, <1>3
<1>5. (x - 1) + 1 \in S  BY <1>4
<1>6. QED  BY <1>5, <1>2

\* u[k]: the outstanding requests before element k, which are those before the
\* last of these and its own.
Gathers(u, p) ==
  /\ u[1] = <<>>
  /\ \A k \in 1..Len(p) :
       u[k + 1] = IF IsComplete(p[k]) THEN u[k] ELSE Append(u[k], p[k].req)

LEMMA OutstandingFollows ==
  ASSUME NEW p, Len(p) \in Nat
  PROVE  \E u : Gathers(u, p) /\ Outstanding(p) = u[Len(p) + 1]
<1> DEFINE body(f, k) ==
             IF k = 1 THEN <<>>
             ELSE IF IsComplete(p[k - 1]) THEN f[k - 1] ELSE Append(f[k - 1], p[k - 1].req)
           S == {n \in Nat : \E f : f = [k \in 1..n + 1 |-> body(f, k)]}
<1>1. 0 \in S
  <2> DEFINE f == [k \in 1..0 + 1 |-> <<>>]
  <2>1. \A k \in 1..0 + 1 : k = 1  BY SMT
  <2>2. f = [k \in 1..0 + 1 |-> body(f, k)]  BY <2>1
  <2> HIDE DEF f
  <2>3. QED  BY <2>2
<1>2. ASSUME NEW n \in S PROVE n + 1 \in S
  <2>1. PICK f : f = [k \in 1..n + 1 |-> body(f, k)]  OBVIOUS
  <2> DEFINE g == [k \in 1..(n + 1) + 1 |-> body(f, k)]
  <2>2. ASSUME NEW k \in 1..n + 1 PROVE g[k] = f[k]
    <3>1. f[k] = body(f, k)  BY <2>1
    <3>2. k \in 1..(n + 1) + 1  BY SMT
    <3> HIDE DEF body
    <3>3. QED  BY <3>1, <3>2
  <2>3. ASSUME NEW k \in 1..(n + 1) + 1 PROVE body(g, k) = body(f, k)
    <3> HIDE DEF g
    <3>1. CASE k = 1  BY <3>1
    <3>2. CASE k # 1
      <4>1. k - 1 \in 1..n + 1  BY <3>2, SMT
      <4>2. g[k - 1] = f[k - 1]  BY <2>2, <4>1
      <4>3. QED  BY <4>2
    <3>3. QED  BY <3>1, <3>2
  <2> HIDE DEF body
  <2>4. g = [k \in 1..(n + 1) + 1 |-> body(g, k)]  BY <2>3, Zenon
  <2> HIDE DEF g
  <2>5. n + 1 \in Nat  BY SMT
  <2>6. QED  BY <2>4, <2>5, Zenon
<1> HIDE DEF S
<1>3. S \in SUBSET Nat  BY DEF S
<1>4. \A n \in Nat : n \in S  BY <1>1, <1>2, <1>3, Induction
<1>5. \E f : f = [k \in 1..Len(p) + 1 |-> body(f, k)]  BY <1>4 DEF S
<1>6. PICK u : u = CHOOSE f : f = [k \in 1..Len(p) + 1 |-> body(f, k)]  OBVIOUS
<1>7. Outstanding(p) = u[Len(p) + 1]
  BY <1>6, Zenon DEF Outstanding
<1>8. u = [k \in 1..Len(p) + 1 |-> body(u, k)]
  <2> HIDE DEF body
  <2>1. QED  BY <1>5, <1>6, Zenon
<1>9. u[1] = <<>>
  <2>1. 1 \in 1..Len(p) + 1  BY SMT
  <2>2. QED  BY <1>8, <2>1, Zenon
<1>10. ASSUME NEW k \in 1..Len(p)
       PROVE u[k + 1] = IF IsComplete(p[k]) THEN u[k] ELSE Append(u[k], p[k].req)
  <2>1. k + 1 \in 1..Len(p) + 1 /\ k + 1 # 1 /\ (k + 1) - 1 = k  BY SMT
  <2>2. u[k + 1] = body(u, k + 1)
    <3> HIDE DEF body
    <3>1. QED  BY <1>8, <2>1, Zenon
  <2>3. QED  BY <2>1, <2>2, Zenon
<1>11. QED  BY <1>7, <1>9, <1>10 DEF Gathers

\* The sequence w holds the requests of the elements of p after the first k, up
\* to element n.
Lists(w, p, k, n) ==
  /\ w \in Seq(Requests) /\ Len(w) = n - k
  /\ \A j \in 1..n - k : w[j] = p[k + j].req

\* What is outstanding in a divided pipeline is all behind the complete ones.
LEMMA OutstandingIs ==
  ASSUME NEW p, NEW k, Divided(p, k)
  PROVE  Lists(Outstanding(p), p, k, Len(p))
<1>1. /\ Len(p) \in Nat /\ k \in Nat /\ k <= Len(p)
      /\ \A i \in 1..Len(p) : p[i].req \in Requests
      /\ \A i \in 1..Len(p) : IsComplete(p[i]) <=> i <= k
  BY DividedFacts
<1>2. PICK u : Gathers(u, p) /\ Outstanding(p) = u[Len(p) + 1]
  BY <1>1, OutstandingFollows
<1> DEFINE P(n) == IF n <= k THEN u[n + 1] = <<>> ELSE Lists(u[n + 1], p, k, n)
           S == {n \in Nat : n <= Len(p) => P(n)}
<1>3. 0 \in S  BY <1>1, <1>2 DEF Gathers
<1>4. ASSUME NEW n \in S PROVE n + 1 \in S
  <2>1. SUFFICES ASSUME n + 1 <= Len(p) PROVE P(n + 1)
    OBVIOUS
  <2>2. n \in Nat /\ n + 1 \in 1..Len(p) /\ n <= Len(p)  BY <1>1, <2>1
  <2>3. P(n)  BY <2>2
  <2>4. u[(n + 1) + 1] = IF IsComplete(p[n + 1]) THEN u[n + 1]
                         ELSE Append(u[n + 1], p[n + 1].req)
    BY <1>2, <2>2 DEF Gathers
  <2>5. IsComplete(p[n + 1]) <=> n + 1 <= k  BY <1>1, <2>2
  <2>6. CASE n + 1 <= k
    <3>1. n <= k  BY <1>1, <2>2, <2>6
    <3>2. QED  BY <2>3, <2>4, <2>5, <2>6, <3>1
  <2>7. CASE ~(n + 1 <= k)
    <3>1. PICK v : v = u[n + 1]  OBVIOUS
    <3>2. PICK r : r = p[n + 1].req  OBVIOUS
    <3>3. r \in Requests  BY <1>1, <2>2, <3>2
    <3>4. Lists(v, p, k, n)
      <4>1. CASE n <= k
        <5>1. v = <<>> /\ n - k = 0  BY <1>1, <2>2, <2>3, <2>7, <3>1, <4>1
        <5>2. QED  BY <5>1, EmptySeq DEF Lists
      <4>2. CASE ~(n <= k)  BY <2>3, <3>1, <4>2
      <4>3. QED  BY <4>1, <4>2
    <3>5. PICK w : w = Append(v, r)  OBVIOUS
    <3>6. v \in Seq(Requests) /\ Len(v) = n - k  BY <3>4 DEF Lists
    <3>7. /\ w \in Seq(Requests) /\ Len(w) = Len(v) + 1
          /\ \A j \in 1..Len(v) : w[j] = v[j]
          /\ w[Len(v) + 1] = r
      BY <3>3, <3>5, <3>6, AppendProperties
    <3>8. Len(w) = (n + 1) - k  BY <1>1, <2>2, <3>6, <3>7
    <3>9. ASSUME NEW j \in 1..(n + 1) - k PROVE w[j] = p[k + j].req
      <4>1. CASE j \in 1..n - k  BY <3>4, <3>6, <3>7, <4>1 DEF Lists
      <4>2. CASE j \notin 1..n - k
        <5>1. j = Len(v) + 1 /\ k + j = n + 1  BY <1>1, <2>2, <3>6, <4>2
        <5>2. QED  BY <3>2, <3>7, <5>1
      <4>3. QED  BY <4>1, <4>2
    <3>10. Lists(w, p, k, n + 1)  BY <3>7, <3>8, <3>9 DEF Lists
    <3>11. u[(n + 1) + 1] = w  BY <2>4, <2>5, <2>7, <3>1, <3>2, <3>5
    <3>12. QED  BY <2>7, <3>10, <3>11
  <2>8. QED  BY <2>6, <2>7
<1> HIDE DEF P
<1> HIDE DEF S
<1>5. S \in SUBSET Nat  BY DEF S
<1>6. Len(p) \in S  BY <1>1, <1>3, <1>4, <1>5, Induction
<1>7. P(Len(p))  BY <1>1, <1>6 DEF S
<1>8. CASE k < Len(p)  BY <1>1, <1>2, <1>7, <1>8 DEF P
<1>9. CASE ~(k < Len(p))
  <2>1. Outstanding(p) = <<>> /\ Len(p) - k = 0  BY <1>1, <1>2, <1>7, <1>9 DEF P
  <2>2. QED  BY <2>1, EmptySeq DEF Lists
<1>10. QED  BY <1>8, <1>9

LEMMA OutstandingFacts ==
  ASSUME NEW p, NEW k, Divided(p, k)
  PROVE  /\ Outstanding(p) = <<>> <=> k = Len(p)
         /\ k < Len(p) => Head(Outstanding(p)) = p[k + 1].req
<1>1. Len(p) \in Nat /\ k \in Nat /\ k <= Len(p)  BY DividedFacts
<1>2. PICK w : w = Outstanding(p)  OBVIOUS
<1>3. Lists(w, p, k, Len(p))  BY <1>2, OutstandingIs
<1>4. w \in Seq(Requests) /\ Len(w) = Len(p) - k  BY <1>3 DEF Lists
<1>5. w = <<>> <=> Len(w) = 0  BY <1>4, EmptySeq
<1>6. w = <<>> <=> k = Len(p)  BY <1>1, <1>4, <1>5
<1>7. ASSUME k < Len(p) PROVE Head(w) = p[k + 1].req
  <2>1. 1 \in 1..Len(p) - k /\ w # <<>>  BY <1>1, <1>6, <1>7
  <2>2. Head(w) = w[1]  BY <1>4, <2>1, HeadTailProperties
  <2>3. w[1] = p[k + 1].req  BY <1>3, <2>1 DEF Lists
  <2>4. QED  BY <2>2, <2>3
<1>8. QED  BY <1>2, <1>6, <1>7

-----------------------------------------------------------------------------
(* What becomes of a divided pipeline.                                     *)

\* q is p with e in the place of element i.
Replaces(q, p, i, e) ==
  /\ Len(q) = Len(p) /\ q[i] = e
  /\ \A j \in 1..Len(p) : j # i => q[j] = p[j]

LEMMA Replaced ==
  ASSUME NEW p \in Seq(Element), NEW i \in 1..Len(p), NEW e \in Element, NEW q,
         q = [p EXCEPT ![i] = e]
  PROVE  q \in Seq(Element) /\ Replaces(q, p, i, e)
<1>1. /\ q \in Seq(Element) /\ Len(q) = Len(p)
      /\ \A j \in 1..Len(p) : q[j] = IF j = i THEN e ELSE p[j]
  BY ExceptSeq
<1>2. QED  BY <1>1 DEF Replaces

LEMMA StillDistinct ==
  ASSUME NEW p, NEW q, Len(q) = Len(p), Distinct(p),
         \A i \in 1..Len(p) : q[i].req = p[i].req
  PROVE  Distinct(q)
BY DEF Distinct

\* The current element may change as long as it is not complete.
LEMMA ElementChanged ==
  ASSUME NEW p, NEW k, Divided(p, k), k < Len(p),
         NEW e \in Element, e.req = p[k + 1].req, ~e.body,
         NEW q, q = [p EXCEPT ![k + 1] = e]
  PROVE  Divided(q, k) /\ Replaces(q, p, k + 1, e)
<1>1. Len(p) \in Nat /\ k \in Nat /\ p \in Seq(Element)
  BY DividedFacts DEF Divided
<1>2. k + 1 \in 1..Len(p)  BY <1>1
<1>3. PICK n : n = k + 1  OBVIOUS
<1>4. n \in 1..Len(p) /\ q = [p EXCEPT ![n] = e]  BY <1>2, <1>3
<1>5. q \in Seq(Element) /\ Replaces(q, p, n, e)  BY <1>1, <1>4, Replaced
<1>6. /\ Len(q) = Len(p) /\ q[k + 1] = e
      /\ \A j \in 1..Len(p) : j # k + 1 => q[j] = p[j]
  BY <1>3, <1>5 DEF Replaces
<1>7. Distinct(q)
  <2>1. \A i \in 1..Len(p) : q[i].req = p[i].req  BY <1>6
  <2>2. Distinct(p)  BY DEF Divided
  <2>3. QED  BY <1>6, <2>1, <2>2, StillDistinct
<1>8. \A i \in 1..k : i \in 1..Len(p) /\ i # k + 1  BY <1>1
<1>9. \A i \in k + 2..Len(p) : i \in 1..Len(p) /\ i # k + 1  BY <1>1
<1>10. \A i \in 1..k : IsComplete(q[i]) /\ (q[i].spoiled \/ Whole(q[i]))
  BY <1>6, <1>8 DEF Divided
<1>11. \A i \in k + 2..Len(q) : q[i] = Fresh(q[i].req)
  BY <1>6, <1>9 DEF Divided
<1>12. k \in 0..Len(q)  BY <1>1, <1>6
<1>13. QED  BY <1>3, <1>5, <1>6, <1>7, <1>10, <1>11, <1>12 DEF Divided

\* When it is complete, it is the next one's turn.
LEMMA ElementCompleted ==
  ASSUME NEW p, NEW k, Divided(p, k), k < Len(p),
         NEW e \in Element, e.req = p[k + 1].req, IsComplete(e),
         e.spoiled \/ Whole(e),
         NEW q, q = [p EXCEPT ![k + 1] = e]
  PROVE  Divided(q, k + 1) /\ Replaces(q, p, k + 1, e)
<1>1. Len(p) \in Nat /\ k \in Nat /\ p \in Seq(Element)
  BY DividedFacts DEF Divided
<1>2. k + 1 \in 1..Len(p)  BY <1>1
<1>3. PICK n : n = k + 1  OBVIOUS
<1>4. n \in 1..Len(p) /\ q = [p EXCEPT ![n] = e]  BY <1>2, <1>3
<1>5. q \in Seq(Element) /\ Replaces(q, p, n, e)  BY <1>1, <1>4, Replaced
<1>6. /\ Len(q) = Len(p) /\ q[k + 1] = e
      /\ \A j \in 1..Len(p) : j # k + 1 => q[j] = p[j]
  BY <1>3, <1>5 DEF Replaces
<1>7. Distinct(q)
  <2>1. \A i \in 1..Len(p) : q[i].req = p[i].req  BY <1>6
  <2>2. Distinct(p)  BY DEF Divided
  <2>3. QED  BY <1>6, <2>1, <2>2, StillDistinct
<1>8. \A i \in 1..k + 1 : i = k + 1 \/ (i \in 1..k /\ i \in 1..Len(p) /\ i # k + 1)
  BY <1>1
<1>9. \A i \in k + 2..Len(p) : i \in 1..Len(p) /\ i # k + 1  BY <1>1
<1>10. \A i \in 1..k + 1 : IsComplete(q[i]) /\ (q[i].spoiled \/ Whole(q[i]))
  BY <1>6, <1>8 DEF Divided
<1>11. \A i \in k + 2..Len(q) : q[i] = Fresh(q[i].req) /\ ~q[i].body
  <2>1. \A i \in k + 2..Len(q) : q[i] = Fresh(q[i].req)  BY <1>6, <1>9 DEF Divided
  <2>2. \A i \in k + 2..Len(q) : q[i].req \in Requests
    BY <1>6, <1>9, DividedFacts
  <2>3. QED  BY <2>1, <2>2, FreshElement
<1>12. k + 1 \in 0..Len(q)  BY <1>1, <1>6
<1>13. k + 1 < Len(q) => ~q[(k + 1) + 1].body
  <2>1. k + 1 < Len(q) => (k + 1) + 1 \in k + 2..Len(q)  BY <1>1, <1>6
  <2>2. QED  BY <1>11, <2>1
<1>14. \A i \in (k + 1) + 2..Len(q) : q[i] = Fresh(q[i].req)
  <2>1. \A i \in (k + 1) + 2..Len(q) : i \in k + 2..Len(q)  BY <1>1, <1>6
  <2>2. QED  BY <1>11, <2>1
<1>15. QED  BY <1>3, <1>5, <1>7, <1>10, <1>12, <1>13, <1>14 DEF Divided

\* What Reconnect() makes of one element.
LEMMA KeptFacts ==
  ASSUME NEW e \in Element
  PROVE  /\ Kept(e) \in Element /\ Kept(e).req = e.req /\ Kept(e).got = e.got
         /\ Kept(e).header = e.header /\ Kept(e).body = e.body
         /\ Kept(e).spoiled <=> e.spoiled \/ (~IsComplete(e) /\ e.got # <<>>)
<1>1. PICK b : b = (e.spoiled \/ (~IsComplete(e) /\ e.got # <<>>))  OBVIOUS
<1>2. b \in BOOLEAN  BY <1>1
<1>3. Kept(e) = [e EXCEPT !.spoiled = b]  BY <1>1 DEF Kept
<1>4. PICK x : x = [e EXCEPT !.spoiled = b]  OBVIOUS
<1>5. /\ x \in Element /\ x.req = e.req /\ x.got = e.got /\ x.header = e.header
      /\ x.body = e.body /\ x.spoiled = b
  BY <1>2, <1>4 DEF Element
<1>6. QED  BY <1>1, <1>3, <1>4, <1>5, Zenon

\* And of the whole pipeline.
Keeps(q, p) ==
  Len(q) = Len(p) /\ \A i \in 1..Len(p) : q[i] = Kept(p[i])

LEMMA AllKept ==
  ASSUME NEW p, NEW k, Divided(p, k), NEW q, q = [i \in DOMAIN p |-> Kept(p[i])]
  PROVE  Keeps(q, p) /\ q \in Seq(Element)
<1>1. Len(p) \in Nat /\ p \in Seq(Element) /\ \A i \in 1..Len(p) : p[i] \in Element
  BY DividedFacts DEF Divided
<1>2. DOMAIN p = 1..Len(p)  BY <1>1, LenProperties
<1> DEFINE e(i) == Kept(p[i])
<1>3. \A i \in 1..Len(p) : e(i) \in Element  BY <1>1, KeptFacts
<1>4. q = [i \in 1..Len(p) |-> e(i)]  BY <1>2
<1> HIDE DEF e
<1>5. q \in Seq(Element)  BY <1>1, <1>3, <1>4, IsASeq
<1>6. DOMAIN q = 1..Len(p) /\ \A i \in 1..Len(p) : q[i] = e(i)  BY <1>4
<1>7. DOMAIN q = 1..Len(q) /\ Len(q) \in Nat  BY <1>5, LenProperties
<1>8. Len(q) = Len(p)  BY <1>1, <1>6, <1>7
<1>9. QED  BY <1>5, <1>6, <1>8 DEF Keeps, e

LEMMA KeptDivided ==
  ASSUME NEW p, NEW k, Divided(p, k), NEW q \in Seq(Element), Keeps(q, p)
  PROVE  /\ Divided(q, k)
         /\ k < Len(q) => (q[k + 1].spoiled \/ q[k + 1].got = <<>>)
         /\ Spoils(p) => Spoils(q)
         /\ \A i \in 1..Len(p) : q[i].req = p[i].req
<1>1. /\ Len(p) \in Nat /\ k \in Nat /\ k <= Len(p)
      /\ \A i \in 1..Len(p) : p[i] \in Element /\ p[i].req \in Requests
      /\ \A i \in 1..Len(p) : IsComplete(p[i]) <=> i <= k
  BY DividedFacts
<1>2. Len(q) = Len(p) /\ \A i \in 1..Len(p) : q[i] = Kept(p[i])  BY DEF Keeps
<1>3. ASSUME NEW i \in 1..Len(p)
      PROVE  /\ q[i].req = p[i].req /\ q[i].got = p[i].got
             /\ q[i].header = p[i].header /\ q[i].body = p[i].body
             /\ q[i].spoiled <=> p[i].spoiled \/ (~IsComplete(p[i]) /\ p[i].got # <<>>)
  BY <1>1, <1>2, KeptFacts
<1>4. \A i \in 1..Len(p) : q[i].req = p[i].req  BY <1>3
<1>5. Distinct(q)
  <2>1. Distinct(p)  BY DEF Divided
  <2>2. QED  BY <1>2, <1>4, <2>1, StillDistinct
<1>6. ASSUME NEW i \in 1..k
      PROVE  IsComplete(q[i]) /\ (q[i].spoiled \/ Whole(q[i]))
  <2>1. i \in 1..Len(p)  BY <1>1
  <2>2. IsComplete(p[i]) /\ (p[i].spoiled \/ Whole(p[i]))  BY DEF Divided
  <2>3. IsComplete(q[i])  BY <1>3, <2>1, <2>2 DEF IsComplete
  <2>4. CASE p[i].spoiled  BY <1>3, <2>1, <2>3, <2>4
  <2>5. CASE Whole(p[i])  BY <1>3, <2>1, <2>3, <2>5 DEF Whole
  <2>6. QED  BY <2>2, <2>4, <2>5
<1>7. ASSUME k < Len(q)
      PROVE  ~q[k + 1].body /\ (q[k + 1].spoiled \/ q[k + 1].got = <<>>)
  <2>1. k + 1 \in 1..Len(p) /\ ~(k + 1 <= k)  BY <1>1, <1>2, <1>7
  <2>2. ~IsComplete(p[k + 1])  BY <1>1, <2>1
  <2>3. ~p[k + 1].body  BY <1>2, <1>7 DEF Divided
  <2>4. QED  BY <1>3, <2>1, <2>2, <2>3
<1>8. ASSUME NEW i \in k + 2..Len(q) PROVE q[i] = Fresh(q[i].req)
  <2>1. i \in 1..Len(p) /\ i \in k + 2..Len(p)  BY <1>1, <1>2
  <2>2. p[i] = Fresh(p[i].req)  BY <2>1 DEF Divided
  <2>3. PICK e : e = p[i]  OBVIOUS
  <2>4. e \in Element /\ e.got = <<>> /\ ~e.spoiled
    BY <1>1, <2>1, <2>2, <2>3, FreshElement
  <2>5. Kept(e) = [e EXCEPT !.spoiled = FALSE]
    <3>1. (e.spoiled \/ (~IsComplete(e) /\ e.got # <<>>)) = FALSE  BY <2>4, Zenon
    <3>2. QED  BY <3>1, Zenon DEF Kept
  <2>6. e.spoiled = FALSE  BY <2>4 DEF Element
  <2>7. [e EXCEPT !.spoiled = FALSE] = e  BY <2>4, <2>6 DEF Element
  <2>8. q[i] = e  BY <1>2, <2>1, <2>3, <2>5, <2>7
  <2>9. QED  BY <2>2, <2>3, <2>8
<1>9. Spoils(p) => Spoils(q)
  BY <1>2, <1>3 DEF Spoils
<1>10. k \in 0..Len(q)  BY <1>1, <1>2
<1>11. QED  BY <1>4, <1>5, <1>6, <1>7, <1>8, <1>9, <1>10 DEF Divided

-----------------------------------------------------------------------------
(* Reconnect().                                                            *)

Client ==
  [pipeline : Seq(Element), current : Requests \cup {None}, parser : Parsers,
   asked : Seq(Requests), renewed : BOOLEAN]

LEMMA ReconnectFacts ==
  ASSUME NEW s \in Client, NEW k, Divided(s.pipeline, k), NEW x, x = Reconnect(s)
  PROVE  /\ x \in Client /\ x.renewed /\ x.parser = "start"
         /\ Keeps(x.pipeline, s.pipeline)
         /\ x.current = IF k = Len(s.pipeline) THEN s.current ELSE s.pipeline[k + 1].req
         /\ Lists(x.asked, s.pipeline, k, Len(s.pipeline))
<1>1. PICK p : p = s.pipeline  OBVIOUS
<1>2. PICK q : q = [i \in DOMAIN p |-> Kept(p[i])]  OBVIOUS
<1>3. PICK w : w = Outstanding(p)  OBVIOUS
<1>4. PICK c : c = FirstOutstanding(p, s.current)  OBVIOUS
<1>5. Divided(p, k)  BY <1>1
<1>6. Keeps(q, p) /\ q \in Seq(Element)  BY <1>2, <1>5, AllKept
<1>7. Lists(w, p, k, Len(p)) /\ w \in Seq(Requests)
  BY <1>3, <1>5, OutstandingIs DEF Lists
<1>8. /\ Len(p) \in Nat /\ k \in Nat /\ k <= Len(p)
      /\ \A i \in 1..Len(p) : p[i].req \in Requests
  BY <1>5, DividedFacts
<1>9. c = IF k = Len(p) THEN s.current ELSE p[k + 1].req
  BY <1>4, <1>5, <1>8, OutstandingFacts DEF FirstOutstanding
<1>10. c \in Requests \cup {None}
  <2>1. CASE k = Len(p)  BY <1>9, <2>1 DEF Client
  <2>2. CASE k # Len(p)
    <3>1. k + 1 \in 1..Len(p)  BY <1>8, <2>2
    <3>2. QED  BY <1>8, <1>9, <2>2, <3>1
  <2>3. QED  BY <2>1, <2>2
<1>11. x = [pipeline |-> q, current |-> c, parser |-> "start", asked |-> w, renewed |-> TRUE]
  BY <1>1, <1>2, <1>3, <1>4, Zenon DEF Reconnect
<1>12. /\ x.pipeline = q /\ x.current = c /\ x.parser = "start" /\ x.asked = w
       /\ x.renewed = TRUE
  BY <1>11
<1>13. x \in Client
  BY <1>6, <1>7, <1>10, <1>11 DEF Client, Parsers
<1>14. QED  BY <1>1, <1>6, <1>7, <1>9, <1>12, <1>13

\* A new connection on which all that is outstanding was asked.
LEMMA NewConnection ==
  ASSUME NEW p, NEW k, Divided(p, k), NEW q \in Seq(Element), Keeps(q, p),
         NEW ask, Lists(ask, p, k, Len(p)),
         NEW cur, cur = IF k = Len(p) THEN None ELSE p[k + 1].req
  PROVE  Holds(q, cur, "start", ask, <<>>, "up", FALSE)
<1>1. /\ Divided(q, k)
      /\ k < Len(q) => (q[k + 1].spoiled \/ q[k + 1].got = <<>>)
      /\ \A i \in 1..Len(p) : q[i].req = p[i].req
  BY KeptDivided
<1>2. Len(p) \in Nat /\ k \in Nat /\ k <= Len(p) /\ Len(q) = Len(p)
  BY DividedFacts DEF Keeps
<1>3. Turn(q, k, cur, FALSE)
  <2>1. k # Len(p) => k + 1 \in 1..Len(p)  BY <1>2
  <2>2. QED  BY <1>1, <1>2, <2>1 DEF Turn
<1>4. <<>> \in Seq(Kinds) /\ Len(<<>>) = 0 /\ <<>> \in Seq(Piece)  BY EmptySeq
<1>5. Waiting(q, k, ask, Len(<<>>))
  <2>1. ask \in Seq(Requests) /\ Len(ask) = Len(p) - k  BY DEF Lists
  <2>2. \A j \in 1..Len(ask) : ask[j] = q[k + 0 + j].req
    <3>1. ASSUME NEW j \in 1..Len(ask) PROVE ask[j] = q[k + 0 + j].req
      <4>1. j \in 1..Len(p) - k /\ k + j \in 1..Len(p) /\ k + 0 + j = k + j
        BY <1>2, <2>1
      <4>2. ask[j] = p[k + j].req  BY <4>1 DEF Lists
      <4>3. QED  BY <1>1, <4>1, <4>2
    <3>2. QED  BY <3>1
  <2>3. Len(q) = k + 0 + Len(ask)  BY <1>2, <2>1
  <2>4. QED  BY <1>4, <2>1, <2>2, <2>3 DEF Waiting
<1>6. Stage("start", 0, <<>>)  BY DEF Stage
<1>7. k < Len(q) => Begun(q[k + 1], 0, <<>>)
  BY <1>1, <1>4 DEF Begun
<1>8. Stream(q, k, 0, <<>>, <<>>) /\ Leaving(0, <<>>, <<>>, "up")
  BY <1>4 DEF Stream, Leaving, Complete
<1>9. Connected(q, k, "start", 0, <<>>, <<>>, "up")
  BY <1>6, <1>7, <1>8 DEF Connected
<1>10. "start" # "crashed"  OBVIOUS
<1>11. 0 \in 0..2  OBVIOUS
<1>12. QED
  BY <1>1, <1>2, <1>3, <1>4, <1>5, <1>9, <1>10, <1>11, Zenon DEF Holds

\* The parser has begun no response.
Idle(ps) == ps \in {"start", "crashed"}

\* The parser's state does not matter when nothing was read.
LEMMA CrashHolds ==
  ASSUME NEW p, NEW cur, NEW ps, NEW ask, NEW u, NEW sv,
         Idle(ps), Holds(p, cur, ps, ask, u, sv, FALSE), Spoils(p)
  PROVE  Holds(p, cur, "crashed", ask, u, sv, FALSE)
<1>1. PICK k \in Nat, off \in 0..2, ans \in Seq(Kinds) :
        /\ Divided(p, k) /\ Turn(p, k, cur, FALSE) /\ Waiting(p, k, ask, Len(ans))
        /\ Connected(p, k, ps, off, ans, u, sv)
  BY Zenon DEF Holds
<1>2. Stage("crashed", off, ans)
  BY <1>1 DEF Connected, Stage, Idle
<1>3. Connected(p, k, "crashed", off, ans, u, sv)
  BY <1>1, <1>2 DEF Connected
<1>4. u \in Seq(Piece)  BY DEF Holds
<1>5. QED  BY <1>1, <1>3, <1>4, Zenon DEF Holds

-----------------------------------------------------------------------------
(* The end of a response.                                                  *)

WithBody(e) == [e EXCEPT !.body = TRUE]

SetsBody(d, s, i) == d = [s EXCEPT !.pipeline[i].body = TRUE, !.parser = "start"]

Passes(x, s, i) == x = [s EXCEPT !.current = NextRequest(s.pipeline, i)]

LEMMA BodySet ==
  ASSUME NEW e \in Element, NEW x, x = WithBody(e)
  PROVE  /\ x \in Element /\ x.req = e.req /\ x.got = e.got /\ x.header = e.header
         /\ x.body /\ x.spoiled = e.spoiled
BY DEF Element, WithBody

\* The state in which OnMessageComplete() looks for the header field.
LEMMA BodyDone ==
  ASSUME NEW s \in Client, NEW i \in 1..Len(s.pipeline),
         NEW e, e = WithBody(s.pipeline[i]),
         NEW q, q = [s.pipeline EXCEPT ![i] = e],
         NEW d, SetsBody(d, s, i)
  PROVE  /\ d \in Client /\ d.pipeline = q /\ d.current = s.current
         /\ d.parser = "start" /\ d.asked = s.asked /\ d.renewed = s.renewed
<1>1. s.pipeline \in Seq(Element)  BY DEF Client
<1>2. PICK p : p = s.pipeline  OBVIOUS
<1>3. PICK f : f = p[i]  OBVIOUS
<1>4. f \in Element /\ e = WithBody(f)
  BY <1>1, <1>2, <1>3, ElementOfSeq
<1>5. e \in Element  BY <1>4, BodySet
<1>6. q \in Seq(Element)  BY <1>1, <1>5, Replaced
<1>7. d = [s EXCEPT !.pipeline = q, !.parser = "start"]
  BY DEF SetsBody, WithBody
<1>8. QED  BY <1>6, <1>7 DEF Client, Parsers

LEMMA TurnPasses ==
  ASSUME NEW s \in Client, NEW i \in 1..Len(s.pipeline), NEW r,
         r = IF i = Len(s.pipeline) THEN None ELSE s.pipeline[i + 1].req,
         NEW x, Passes(x, s, i)
  PROVE  /\ x \in Client /\ x.current = r /\ x.pipeline = s.pipeline
         /\ x.parser = s.parser /\ x.asked = s.asked /\ x.renewed = s.renewed
<1>1. PICK p : p = s.pipeline  OBVIOUS
<1>2. p \in Seq(Element) /\ Len(p) \in Nat  BY <1>1, LenProperties DEF Client
<1>3. r = NextRequest(p, i)  BY <1>1 DEF NextRequest
<1>4. r \in Requests \cup {None}
  <2>1. CASE i = Len(p)  BY <1>1, <2>1
  <2>2. CASE i # Len(p)
    <3>1. i + 1 \in 1..Len(p)  BY <1>1, <1>2, <2>2
    <3>2. PICK e : e = p[i + 1]  OBVIOUS
    <3>3. e \in Element  BY <1>2, <3>1, <3>2, ElementOfSeq
    <3>4. e.req \in Requests  BY <3>3 DEF Element
    <3>5. QED  BY <1>1, <2>2, <3>2, <3>4
  <2>3. QED  BY <2>1, <2>2
<1>5. x = [s EXCEPT !.current = r]  BY <1>1, <1>3 DEF Passes
<1>6. QED  BY <1>4, <1>5 DEF Client

\* Whose turn it is after element i.
After(q, i) == IF i = Len(q) THEN None ELSE q[i + 1].req

\* A response is complete: what OnMessageComplete() leaves.
LEMMA MessageCompletes ==
  ASSUME NEW s \in Client, NEW k, Divided(s.pipeline, k), k < Len(s.pipeline),
         s.pipeline[k + 1].header,
         NEW e, e = WithBody(s.pipeline[k + 1]), e.spoiled \/ Whole(e),
         NEW q, q = [s.pipeline EXCEPT ![k + 1] = e],
         NEW x, x = OnMessageComplete(s, k + 1)
  PROVE  /\ x \in Client /\ x.parser = "start" /\ x.current = After(q, k + 1)
         /\ Divided(q, k + 1) /\ Replaces(q, s.pipeline, k + 1, e) /\ e \in Element
         /\ IF SaysClose(e)
            THEN x.renewed /\ Keeps(x.pipeline, q) /\ Lists(x.asked, q, k + 1, Len(q))
            ELSE x.pipeline = q /\ x.asked = s.asked /\ x.renewed = s.renewed
<1>1. PICK p : p = s.pipeline  OBVIOUS
<1>2. PICK i : i = k + 1  OBVIOUS
<1>3. PICK f : f = p[i]  OBVIOUS
<1>4. /\ Divided(p, k) /\ k < Len(p) /\ Len(p) \in Nat /\ k \in Nat
      /\ i \in 1..Len(p) /\ f \in Element
  <2>1. Divided(p, k) /\ k < Len(p)  BY <1>1
  <2>2. Len(p) \in Nat /\ k \in Nat  BY <2>1, DividedFacts
  <2>3. i \in 1..Len(p)  BY <1>2, <2>1, <2>2
  <2>4. QED  BY <1>3, <2>1, <2>2, <2>3, DividedFacts
<1>5. e = WithBody(f)  BY <1>1, <1>2, <1>3
<1>6. /\ e \in Element /\ e.req = f.req /\ e.header = f.header /\ e.body
  BY <1>4, <1>5, BodySet
<1>7. IsComplete(e)  BY <1>1, <1>2, <1>3, <1>6 DEF IsComplete
<1>8. e.req = p[k + 1].req  BY <1>2, <1>3, <1>6
<1>9. q = [p EXCEPT ![k + 1] = e]  BY <1>1
<1>10. Divided(q, k + 1) /\ Replaces(q, p, k + 1, e)
  BY <1>4, <1>6, <1>7, <1>8, <1>9, ElementCompleted
<1>11. q[i] = e /\ Len(q) = Len(p)  BY <1>2, <1>10 DEF Replaces
<1>12. PICK d : SetsBody(d, s, i)  BY DEF SetsBody
<1>13. i \in 1..Len(s.pipeline) /\ e = WithBody(s.pipeline[i])
       /\ q = [s.pipeline EXCEPT ![i] = e]
  BY <1>1, <1>2, <1>4
<1>14. /\ d \in Client /\ d.pipeline = q /\ d.current = s.current
       /\ d.parser = "start" /\ d.asked = s.asked /\ d.renewed = s.renewed
  BY <1>12, <1>13, BodyDone
<1>15. PICK y : y = IF SaysClose(d.pipeline[i]) THEN Reconnect(d) ELSE d  OBVIOUS
<1>16. Passes(x, y, i)
  BY <1>2, <1>12, <1>15, Zenon DEF OnMessageComplete, SetsBody, Passes
<1>17. d.pipeline[i] = e  BY <1>11, <1>14
<1>18. Divided(d.pipeline, i)  BY <1>2, <1>10, <1>14
<1>19. CASE SaysClose(e)
  <2>1. y = Reconnect(d)  BY <1>15, <1>17, <1>19
  <2>2. /\ y \in Client /\ y.renewed /\ y.parser = "start"
        /\ Keeps(y.pipeline, d.pipeline)
        /\ Lists(y.asked, d.pipeline, i, Len(d.pipeline))
    BY <1>14, <1>18, <2>1, ReconnectFacts
  <2>3. Keeps(y.pipeline, q) /\ Lists(y.asked, q, i, Len(q))  BY <1>14, <2>2
  <2>4. Len(y.pipeline) = Len(q)  BY <2>3 DEF Keeps
  <2>5. i \in 1..Len(y.pipeline)  BY <1>4, <1>11, <2>4
  <2>6. PICK r : r = IF i = Len(y.pipeline) THEN None ELSE y.pipeline[i + 1].req  OBVIOUS
  <2>7. /\ x \in Client /\ x.current = r /\ x.pipeline = y.pipeline
        /\ x.parser = y.parser /\ x.asked = y.asked /\ x.renewed = y.renewed
    <3>1. y \in Client  BY <2>2
    <3>2. QED  BY <1>16, <2>5, <2>6, <3>1, TurnPasses
  <2>8. r = After(q, i)
    <3>1. CASE i = Len(q)  BY <2>4, <2>6, <3>1 DEF After
    <3>2. CASE i # Len(q)
      <4>1. i + 1 \in 1..Len(q)  BY <1>4, <1>11, <3>2
      <4>2. q[i + 1] \in Element
        <5>1. Divided(q, i)  BY <1>2, <1>10
        <5>2. QED  BY <4>1, <5>1, DividedFacts
      <4>3. y.pipeline[i + 1] = Kept(q[i + 1])  BY <2>3, <4>1 DEF Keeps
      <4>4. y.pipeline[i + 1].req = q[i + 1].req  BY <4>2, <4>3, KeptFacts
      <4>5. QED  BY <2>4, <2>6, <3>2, <4>4 DEF After
    <3>3. QED  BY <3>1, <3>2
  <2>9. QED  BY <1>1, <1>2, <1>6, <1>10, <1>19, <2>2, <2>3, <2>7, <2>8
<1>20. CASE ~SaysClose(e)
  <2>1. y = d  BY <1>15, <1>17, <1>20
  <2>2. i \in 1..Len(y.pipeline)  BY <1>4, <1>11, <1>14, <2>1
  <2>3. PICK r : r = IF i = Len(y.pipeline) THEN None ELSE y.pipeline[i + 1].req  OBVIOUS
  <2>4. /\ x \in Client /\ x.current = r /\ x.pipeline = y.pipeline
        /\ x.parser = y.parser /\ x.asked = y.asked /\ x.renewed = y.renewed
    BY <1>14, <1>16, <2>1, <2>2, <2>3, TurnPasses
  <2>5. r = After(q, i)  BY <1>14, <2>1, <2>3 DEF After
  <2>6. QED  BY <1>1, <1>2, <1>6, <1>10, <1>14, <1>20, <2>1, <2>4, <2>5
<1>21. QED  BY <1>19, <1>20

-----------------------------------------------------------------------------
(* One piece.                                                              *)

\* t is what follows the first piece of u.
Loses(t, u) ==
  /\ t \in Seq(Piece) /\ Len(t) = Len(u) - 1
  /\ \A j \in 1..Len(t) : t[j] = u[j + 1]

LEMMA GivenFacts ==
  ASSUME NEW e \in Element, NEW piece \in Piece, NEW x, x = Given(e, piece)
  PROVE  /\ x \in Element /\ x.req = e.req /\ x.got = Append(e.got, piece)
         /\ x.header <=> (e.header \/ piece.part = "head")
         /\ x.body = e.body /\ x.spoiled = e.spoiled
<1>1. PICK b : b = (e.header \/ piece.part = "head")  OBVIOUS
<1>2. b \in BOOLEAN  BY <1>1
<1>3. PICK g : g = Append(e.got, piece)  OBVIOUS
<1>4. g \in Seq(Piece)
  <2>1. e.got \in Seq(Piece)  BY DEF Element
  <2>2. QED  BY <1>3, <2>1, AppendProperties
<1>5. x = [e EXCEPT !.got = g, !.header = b]  BY <1>1, <1>3, Zenon DEF Given
<1>6. /\ x \in Element /\ x.req = e.req /\ x.got = g /\ x.header = b
      /\ x.body = e.body /\ x.spoiled = e.spoiled
  BY <1>2, <1>4, <1>5 DEF Element
<1>7. QED  BY <1>1, <1>3, <1>6, Zenon

Puts(x, s, i, piece) ==
  x = [s EXCEPT !.pipeline[i] = Given(@, piece),
                !.parser = IF piece.kind = "eof" THEN "eof" ELSE "message"]

LEMMA PutFacts ==
  ASSUME NEW s \in Client, NEW i \in 1..Len(s.pipeline), NEW piece \in Piece,
         NEW e, e = Given(s.pipeline[i], piece),
         NEW q, q = [s.pipeline EXCEPT ![i] = e],
         NEW x, Puts(x, s, i, piece)
  PROVE  /\ x \in Client /\ x.pipeline = q /\ x.current = s.current
         /\ x.parser = IF piece.kind = "eof" THEN "eof" ELSE "message"
         /\ x.asked = s.asked /\ x.renewed = s.renewed
<1>1. s.pipeline \in Seq(Element)  BY DEF Client
<1>2. PICK p : p = s.pipeline  OBVIOUS
<1>3. PICK f : f = p[i]  OBVIOUS
<1>4. f \in Element /\ e = Given(f, piece)  BY <1>1, <1>2, <1>3, ElementOfSeq
<1>5. e \in Element  BY <1>4, GivenFacts
<1>6. q \in Seq(Element)  BY <1>1, <1>5, Replaced
<1>7. PICK n : n = IF piece.kind = "eof" THEN "eof" ELSE "message"  OBVIOUS
<1>8. n \in Parsers  BY <1>7 DEF Parsers
<1>9. x = [s EXCEPT !.pipeline = q, !.parser = n]
  BY <1>7 DEF Puts
<1>10. QED  BY <1>6, <1>7, <1>8, <1>9 DEF Client

\* The next piece is of the first answer.
LEMMA PieceIs ==
  ASSUME NEW p, NEW k, NEW ps, NEW ask, NEW off \in 0..2, NEW ans \in Seq(Kinds), NEW u, NEW sv,
         Divided(p, k), Waiting(p, k, ask, Len(ans)),
         Connected(p, k, ps, off, ans, u, sv), u # <<>>
  PROVE  /\ 1 \in 1..Len(ans) /\ ans[1] \in Kinds /\ k < Len(p) /\ off \in {0, 1}
         /\ u[1] = IF off = 0 THEN HeadOf(p[k + 1].req, ans[1]) ELSE BodyOf(p[k + 1].req, ans[1])
         /\ Len(u) \in Nat /\ Len(u) >= 1 /\ Len(ans) \in Nat /\ Len(ans) >= 1
<1>1. /\ u \in Seq(Piece) /\ off + Len(u) <= 2 * Len(ans)
      /\ \A a \in 1..Len(ans), j \in 1..Len(u) :
           /\ off + j = 2 * a - 1 => u[j] = HeadOf(p[k + a].req, ans[a])
           /\ off + j = 2 * a => u[j] = BodyOf(p[k + a].req, ans[a])
  BY DEF Connected, Stream
<1>2. Len(u) \in Nat /\ Len(u) >= 1 /\ Len(ans) \in Nat
  BY <1>1, EmptySeq, LenProperties
<1>3. Len(ans) >= 1 /\ 1 \in 1..Len(ans) /\ 1 \in 1..Len(u)  BY <1>1, <1>2
<1>4. ans[1] \in Kinds  BY <1>3, ElementOfSeq
<1>5. k < Len(p)
  <2>1. Len(p) = k + Len(ans) + Len(ask) /\ Len(ask) \in Nat
    BY LenProperties DEF Waiting
  <2>2. k \in Nat  BY DividedFacts
  <2>3. QED  BY <1>2, <1>3, <2>1, <2>2
<1>6. off \in {0, 1}
  <2>1. SUFFICES ASSUME off = 2 PROVE FALSE  OBVIOUS
  <2>2. ans[1] = "eof"  BY <2>1 DEF Connected, Stage
  <2>3. 1 = Len(ans)  BY <1>3, <2>2 DEF Connected, Leaving
  <2>4. off + Len(u) <= 2 * Len(ans)  BY <1>1
  <2>5. QED  BY <1>2, <2>1, <2>3, <2>4
<1>7. u[1] = IF off = 0 THEN HeadOf(p[k + 1].req, ans[1]) ELSE BodyOf(p[k + 1].req, ans[1])
  <2>1. CASE off = 0
    <3>1. off + 1 = 2 * 1 - 1  BY <2>1
    <3>2. QED  BY <1>1, <1>3, <2>1, <3>1
  <2>2. CASE off = 1
    <3>1. off + 1 = 2 * 1 /\ off # 0  BY <2>2
    <3>2. QED  BY <1>1, <1>3, <3>1
  <2>3. QED  BY <1>6, <2>1, <2>2
<1>8. QED  BY <1>2, <1>3, <1>4, <1>5, <1>6, <1>7

\* Once it is read, the rest follows.
LEMMA PieceRead ==
  ASSUME NEW p, NEW q, NEW k, NEW off \in 0..2, NEW ans \in Seq(Kinds), NEW u, NEW t, NEW sv,
         Len(q) = Len(p), \A i \in 1..Len(p) : q[i].req = p[i].req,
         k \in Nat, Len(p) \in Nat, k + Len(ans) <= Len(p),
         Stream(p, k, off, ans, u), Leaving(off, ans, u, sv), Loses(t, u)
  PROVE  Stream(q, k, off + 1, ans, t) /\ Leaving(off + 1, ans, t, sv)
<1>1. /\ u \in Seq(Piece) /\ off + Len(u) <= 2 * Len(ans)
      /\ \A a \in 1..Len(ans), j \in 1..Len(u) :
           /\ off + j = 2 * a - 1 => u[j] = HeadOf(p[k + a].req, ans[a])
           /\ off + j = 2 * a => u[j] = BodyOf(p[k + a].req, ans[a])
  BY DEF Stream
<1>2. /\ t \in Seq(Piece) /\ Len(t) = Len(u) - 1
      /\ \A j \in 1..Len(t) : t[j] = u[j + 1]
  BY DEF Loses
<1>3. Len(t) \in Nat /\ Len(u) \in Nat /\ Len(ans) \in Nat  BY <1>1, <1>2, LenProperties
<1>4. ASSUME NEW a \in 1..Len(ans), NEW j \in 1..Len(t)
      PROVE  /\ (off + 1) + j = 2 * a - 1 => t[j] = HeadOf(q[k + a].req, ans[a])
             /\ (off + 1) + j = 2 * a => t[j] = BodyOf(q[k + a].req, ans[a])
  <2>1. k + a \in 1..Len(p) /\ j + 1 \in 1..Len(u)  BY <1>2, <1>3
  <2>2. q[k + a].req = p[k + a].req /\ t[j] = u[j + 1]  BY <1>2, <2>1
  <2>3. (off + 1) + j = off + (j + 1)  OBVIOUS
  <2>4. QED  BY <1>1, <2>1, <2>2, <2>3
<1>5. (off + 1) + Len(t) = off + Len(u)  BY <1>2, <1>3
<1>6. Stream(q, k, off + 1, ans, t)
  BY <1>1, <1>2, <1>4, <1>5 DEF Stream
<1>7. Complete(off + 1, ans, t) <=> Complete(off, ans, u)  BY <1>5 DEF Complete
<1>8. Leaving(off + 1, ans, t, sv)
  BY <1>7, Zenon DEF Leaving
<1>9. QED  BY <1>6, <1>8

\* After both pieces of the first answer comes the second.
LEMMA AnswerRead ==
  ASSUME NEW q, NEW k \in Nat, NEW ans \in Seq(Kinds), ans # <<>>, NEW t, NEW sv,
         Stream(q, k, 2, ans, t), Leaving(2, ans, t, sv), NEW rest, rest = Tail(ans)
  PROVE  /\ Stream(q, k + 1, 0, rest, t) /\ Leaving(0, rest, t, sv)
         /\ rest \in Seq(Kinds) /\ Len(rest) = Len(ans) - 1
<1>1. /\ t \in Seq(Piece) /\ 2 + Len(t) <= 2 * Len(ans)
      /\ \A a \in 1..Len(ans), j \in 1..Len(t) :
           /\ 2 + j = 2 * a - 1 => t[j] = HeadOf(q[k + a].req, ans[a])
           /\ 2 + j = 2 * a => t[j] = BodyOf(q[k + a].req, ans[a])
  BY DEF Stream
<1>2. /\ rest \in Seq(Kinds) /\ Len(rest) = Len(ans) - 1
      /\ \A a \in 1..Len(rest) : rest[a] = ans[a + 1]
  BY HeadTailProperties
<1>3. Len(t) \in Nat /\ Len(rest) \in Nat /\ Len(ans) \in Nat  BY <1>1, <1>2, LenProperties
<1>4. ASSUME NEW a \in 1..Len(rest), NEW j \in 1..Len(t)
      PROVE  /\ 0 + j = 2 * a - 1 => t[j] = HeadOf(q[(k + 1) + a].req, rest[a])
             /\ 0 + j = 2 * a => t[j] = BodyOf(q[(k + 1) + a].req, rest[a])
  <2>1. PICK b \in Nat : b = a + 1  BY <1>3
  <2>2. b \in 1..Len(ans) /\ (k + 1) + a = k + b /\ rest[a] = ans[b]
    BY <1>2, <1>3, <2>1
  <2>3. /\ 0 + j = 2 * a - 1 => 2 + j = 2 * b - 1
        /\ 0 + j = 2 * a => 2 + j = 2 * b
    BY <1>3, <2>1
  <2>4. QED  BY <1>1, <2>2, <2>3
<1>5. 0 + Len(t) <= 2 * Len(rest)  BY <1>1, <1>2, <1>3
<1>6. Stream(q, k + 1, 0, rest, t)  BY <1>1, <1>4, <1>5 DEF Stream
<1>7. Complete(0, rest, t) <=> Complete(2, ans, t)  BY <1>2, <1>3 DEF Complete
<1>8. sv \in {"up", "last"} => Complete(0, rest, t)  BY <1>7 DEF Leaving
<1>9. ASSUME NEW a \in 1..Len(rest), rest[a] # "keep"
      PROVE  /\ a = Len(rest) /\ sv # "up"
             /\ sv = "fin" /\ rest[a] = "eof" => Complete(0, rest, t)
  <2>1. PICK b \in Nat : b = a + 1  BY <1>3
  <2>2. b \in 1..Len(ans) /\ rest[a] = ans[b]  BY <1>2, <1>3, <2>1
  <2>3. /\ b = Len(ans) /\ sv # "up"
        /\ sv = "fin" /\ ans[b] = "eof" => Complete(2, ans, t)
    BY <1>9, <2>2 DEF Leaving
  <2>4. a = Len(rest)
    <3>1. b = Len(ans)  BY <2>3
    <3>2. Len(rest) = Len(ans) - 1  BY <1>2
    <3>3. QED  BY <1>3, <2>1, <3>1, <3>2
  <2>5. QED  BY <1>7, <2>2, <2>3, <2>4
<1>10. QED  BY <1>2, <1>6, <1>8, <1>9 DEF Leaving

-----------------------------------------------------------------------------
(* A piece through the parser.                                             *)

\* A state of Update(), between two pieces, with the pieces u unread.
Reads(s, u, sv, str) ==
  /\ s \in Client
  /\ IF s.renewed
     THEN /\ Holds(s.pipeline, s.current, s.parser, s.asked, <<>>, "up", FALSE)
          /\ s.parser \in {"start", "crashed"} /\ (u # <<>> => Spoils(s.pipeline))
     ELSE Holds(s.pipeline, s.current, s.parser, s.asked, u, sv, str)

ParserTo(x, s, ps) == x = [s EXCEPT !.parser = ps]

LEMMA ParserSet ==
  ASSUME NEW s \in Client, NEW ps \in Parsers, NEW x, ParserTo(x, s, ps)
  PROVE  /\ x \in Client /\ x.pipeline = s.pipeline /\ x.current = s.current
         /\ x.parser = ps /\ x.asked = s.asked /\ x.renewed = s.renewed
BY DEF Client, ParserTo

\* Nothing is read on an old connection.
LEMMA ReadsOn ==
  ASSUME NEW s, NEW u, NEW sv, NEW str, NEW x, NEW t, Reads(s, u, sv, str),
         s.renewed, u # <<>>, x = Parsed(s, u[1])
  PROVE  Reads(x, t, sv, str)
<1>1. s \in Client  BY DEF Reads
<1>2. /\ Holds(s.pipeline, s.current, s.parser, s.asked, <<>>, "up", FALSE)
      /\ s.parser \in {"start", "crashed"} /\ Spoils(s.pipeline)
  BY DEF Reads
<1>3. PICK ps : ps = "crashed"  OBVIOUS
<1>4. ParserTo(x, s, ps)  BY <1>2, <1>3 DEF Parsed, ParserTo
<1>5. ps \in Parsers  BY <1>3 DEF Parsers
<1>6. /\ x \in Client /\ x.pipeline = s.pipeline /\ x.current = s.current
      /\ x.parser = ps /\ x.asked = s.asked /\ x.renewed = s.renewed
  BY ONLY <1>1, <1>4, <1>5, ParserSet
<1>7. PICK p, cur, ask, old :
        p = s.pipeline /\ cur = s.current /\ ask = s.asked /\ old = s.parser
  OBVIOUS
<1>8. Holds(p, cur, "crashed", ask, <<>>, "up", FALSE)
  <2>1. PICK none, sv0 : none = <<>> /\ sv0 = "up"  OBVIOUS
  <2>2. Holds(p, cur, old, ask, none, sv0, FALSE) /\ Idle(old) /\ Spoils(p)
    BY <1>2, <1>7, <2>1 DEF Idle
  <2>3. Holds(p, cur, "crashed", ask, none, sv0, FALSE)
    BY ONLY <2>2, CrashHolds, Zenon
  <2>4. QED  BY <2>1, <2>3
<1>9. x.renewed  BY <1>6
<1>10. QED  BY <1>2, <1>3, <1>6, <1>7, <1>8, <1>9, Zenon DEF Reads

\* Nor is anything taken of what comes when it is nobody's turn.
LEMMA StrandedPosition ==
  ASSUME NEW p, NEW cur, NEW ps, NEW ask, NEW u, NEW sv,
         Holds(p, cur, ps, ask, u, sv, TRUE)
  PROVE  Position(p, cur) = 0
<1>1. PICK k \in Nat : Divided(p, k) /\ Turn(p, k, cur, TRUE)  BY Zenon DEF Holds
<1>2. cur = None  BY <1>1 DEF Turn
<1>3. \A i \in 1..Len(p) : p[i].req # cur
  BY <1>1, <1>2, DividedFacts, HTTPAssumption
<1>4. QED  BY <1>3, PositionNone

LEMMA StrandedHolds ==
  ASSUME NEW p, NEW cur, NEW ps, NEW ask, NEW u, NEW sv,
         Holds(p, cur, ps, ask, u, sv, TRUE),
         NEW ps2, ps2 = "crashed" => Spoils(p), NEW t \in Seq(Piece), NEW sv2
  PROVE  Holds(p, cur, ps2, ask, t, sv2, TRUE)
BY Zenon DEF Holds

LEMMA ReadsStranded ==
  ASSUME NEW s, NEW u, NEW sv, NEW x, NEW t, Reads(s, u, sv, TRUE),
         ~s.renewed, Loses(t, u), x = Parsed(s, u[1])
  PROVE  Reads(x, t, sv, TRUE)
<1>1. s \in Client /\ Holds(s.pipeline, s.current, s.parser, s.asked, u, sv, TRUE)
  BY DEF Reads
<1>2. t \in Seq(Piece)  BY DEF Loses
<1>3. Position(s.pipeline, s.current) = 0  BY <1>1, StrandedPosition
<1>4. CASE s.parser = "failed"
  <2>1. x = s  BY <1>4 DEF Parsed
  <2>2. s.parser = "crashed" => Spoils(s.pipeline)  BY <1>4
  <2>3. Holds(s.pipeline, s.current, s.parser, s.asked, t, sv, TRUE)
    BY <1>1, <1>2, <2>2, StrandedHolds
  <2>4. QED  BY <1>1, <2>1, <2>3 DEF Reads
<1>5. CASE s.parser # "failed"
  <2>1. ParserTo(x, s, "failed")
    BY <1>3, <1>5, Zenon DEF Parsed, ParserTo
  <2>2. "failed" \in Parsers  BY DEF Parsers
  <2>3. /\ x \in Client /\ x.pipeline = s.pipeline /\ x.current = s.current
        /\ x.parser = "failed" /\ x.asked = s.asked /\ x.renewed = s.renewed
    BY <1>1, <2>1, <2>2, ParserSet
  <2>4. "failed" = "crashed" => Spoils(s.pipeline)  OBVIOUS
  <2>5. Holds(s.pipeline, s.current, "failed", s.asked, t, sv, TRUE)
    BY <1>1, <1>2, <2>4, StrandedHolds
  <2>6. QED  BY <2>3, <2>5 DEF Reads
<1>6. QED  BY <1>4, <1>5

\* The same requests wait in a pipeline in which only responses changed.
SameRequests(q, p) == Len(q) = Len(p) /\ \A i \in 1..Len(p) : q[i].req = p[i].req

LEMMA ReplacedSame ==
  ASSUME NEW p, NEW q, NEW i, NEW e, Replaces(q, p, i, e), e.req = p[i].req
  PROVE  SameRequests(q, p)
BY DEF Replaces, SameRequests

LEMMA StillWaiting ==
  ASSUME NEW p, NEW q, NEW k \in Nat, NEW ask, NEW m \in Nat,
         Waiting(p, k, ask, m), SameRequests(q, p)
  PROVE  Waiting(q, k, ask, m)
<1>1. /\ ask \in Seq(Requests) /\ Len(p) = k + m + Len(ask)
      /\ \A j \in 1..Len(ask) : ask[j] = p[k + m + j].req
  BY DEF Waiting
<1>2. Len(q) = Len(p) /\ \A i \in 1..Len(p) : q[i].req = p[i].req  BY DEF SameRequests
<1>3. Len(ask) \in Nat  BY <1>1, LenProperties
<1>4. \A j \in 1..Len(ask) : k + m + j \in 1..Len(p)  BY <1>1, <1>3
<1>5. QED  BY <1>1, <1>2, <1>4 DEF Waiting

LEMMA StillTurn ==
  ASSUME NEW p, NEW q, NEW k, Divided(p, k), NEW cur, NEW str,
         Turn(p, k, cur, str), SameRequests(q, p)
  PROVE  Turn(q, k, cur, str)
<1>1. Len(q) = Len(p) /\ \A i \in 1..Len(p) : q[i].req = p[i].req  BY DEF SameRequests
<1>2. k \in Nat /\ Len(p) \in Nat /\ k <= Len(p)  BY DividedFacts
<1>3. k # Len(p) => k + 1 \in 1..Len(p)  BY <1>2
<1>4. QED  BY <1>1, <1>3 DEF Turn

\* A piece of the first answer continues what was received of it.
LEMMA BegunOn ==
  ASSUME NEW f \in Element, NEW off \in {0, 1}, NEW ans \in Seq(Kinds), ans[1] \in Kinds,
         Begun(f, off, ans), NEW piece \in Piece,
         piece = IF off = 0 THEN HeadOf(f.req, ans[1]) ELSE BodyOf(f.req, ans[1]),
         NEW e, e = Given(f, piece)
  PROVE  e.header /\ Begun(e, off + 1, ans)
<1>1. /\ e \in Element /\ e.req = f.req /\ e.got = Append(f.got, piece)
      /\ e.header <=> (f.header \/ piece.part = "head")
      /\ e.spoiled = f.spoiled
  BY GivenFacts
<1>2. f.req \in Requests /\ f.got \in Seq(Piece)  BY DEF Element
<1>3. off = 0 => piece.part = "head"  BY <1>2, PieceKinds
<1>4. off # 0 => f.header  BY DEF Begun
<1>5. e.header  BY <1>1, <1>3, <1>4
<1>6. ASSUME ~e.spoiled
      PROVE  /\ Len(e.got) = off + 1
             /\ e.got[1] = HeadOf(e.req, ans[1])
             /\ off + 1 = 2 => e.got[2] = BodyOf(e.req, ans[1])
  <2>1. /\ Len(f.got) = off
        /\ off > 0 => f.got[1] = HeadOf(f.req, ans[1])
    BY <1>1, <1>6 DEF Begun
  <2>2. PICK g, h : g = f.got /\ h = Append(g, piece)  OBVIOUS
  <2>3. g \in Seq(Piece) /\ Len(g) = off  BY <1>2, <2>1, <2>2
  <2>4. /\ Len(h) = Len(g) + 1 /\ \A i \in 1..Len(g) : h[i] = g[i]
        /\ h[Len(g) + 1] = piece
    BY <2>2, <2>3, AppendProperties
  <2>5. Len(h) = off + 1 /\ h[off + 1] = piece  BY <2>3, <2>4
  <2>6. CASE off = 0
    <3>1. h[1] = HeadOf(f.req, ans[1]) /\ off + 1 # 2  BY <2>5, <2>6
    <3>2. QED  BY <1>1, <2>2, <2>5, <3>1
  <2>7. CASE off = 1
    <3>1. h[1] = g[1]  BY <2>3, <2>4, <2>7
    <3>2. g[1] = HeadOf(f.req, ans[1])  BY <2>1, <2>2, <2>7
    <3>3. h[2] = BodyOf(f.req, ans[1])  BY <2>5, <2>7
    <3>4. QED  BY <1>1, <2>2, <2>5, <2>7, <3>1, <3>2, <3>3
  <2>8. QED  BY <2>6, <2>7
<1>7. QED  BY <1>5, <1>6 DEF Begun

\* The element behind the current one was not begun.
LEMMA NextFresh ==
  ASSUME NEW p, NEW k, Divided(p, k), NEW q, NEW e, Replaces(q, p, k + 1, e),
         k + 1 < Len(q), NEW ans
  PROVE  Begun(q[(k + 1) + 1], 0, ans)
<1>1. /\ Len(p) \in Nat /\ k \in Nat
      /\ \A i \in 1..Len(p) : p[i].req \in Requests
  BY DividedFacts
<1>2. Len(q) = Len(p) /\ \A j \in 1..Len(p) : j # k + 1 => q[j] = p[j]  BY DEF Replaces
<1>3. k + 2 \in k + 2..Len(p) /\ k + 2 \in 1..Len(p) /\ k + 2 # k + 1 /\ (k + 1) + 1 = k + 2
  BY <1>1, <1>2
<1>4. p[k + 2] = Fresh(p[k + 2].req)  BY <1>3 DEF Divided
<1>5. PICK d : d = p[k + 2]  OBVIOUS
<1>6. d.got = <<>> /\ ~d.spoiled  BY <1>1, <1>3, <1>4, <1>5, FreshElement
<1>7. q[(k + 1) + 1] = d  BY <1>2, <1>3, <1>5
<1>8. Len(<<>>) = 0  BY EmptySeq
<1>9. Begun(d, 0, ans)  BY <1>6, <1>8 DEF Begun
<1>10. QED  BY <1>7, <1>9

\* The pieces of a response that ends without a close head do not have one.
LEMMA KeptAlive ==
  ASSUME NEW e \in Element, NEW ans \in Seq(Kinds), ans[1] = "keep",
         Begun(e, 2, ans), ~e.spoiled
  PROVE  ~SaysClose(e)
<1>1. /\ Len(e.got) = 2 /\ e.got[1] = HeadOf(e.req, ans[1])
      /\ e.got[2] = BodyOf(e.req, ans[1])
  BY DEF Begun
<1>2. e.got \in Seq(Piece)  BY DEF Element
<1>3. DOMAIN e.got = 1..2  BY <1>1, <1>2, LenProperties
<1>4. e.got[1].kind = "keep" /\ e.got[2].kind = "keep"
  BY <1>1 DEF HeadOf, BodyOf
<1>5. \A j \in DOMAIN e.got : j = 1 \/ j = 2  BY <1>3
<1>6. \A j \in DOMAIN e.got : e.got[j].kind # "close"  BY <1>4, <1>5
<1>7. QED  BY <1>6, NotClosing

\* The last piece of a response: what is left when it is complete.
LEMMA ReadsLast ==
  ASSUME NEW z \in Client, NEW k \in Nat, Divided(z.pipeline, k), k < Len(z.pipeline), ~z.renewed,
         NEW ans \in Seq(Kinds), ans # <<>>, Len(ans) \in Nat,
         NEW t \in Seq(Piece), NEW sv,
         z.pipeline[k + 1].header, Begun(z.pipeline[k + 1], 2, ans),
         Waiting(z.pipeline, k, z.asked, Len(ans)), k + Len(ans) <= Len(z.pipeline),
         Stream(z.pipeline, k, 2, ans, t), Leaving(2, ans, t, sv),
         NEW x, x = OnMessageComplete(z, k + 1)
  PROVE  Reads(x, t, sv, FALSE)
<1>1. PICK p, ask : p = z.pipeline /\ ask = z.asked  OBVIOUS
<1>2. PICK f : f = p[k + 1]  OBVIOUS
<1>3. /\ Divided(p, k) /\ k < Len(p) /\ Len(p) \in Nat /\ k + 1 \in 1..Len(p)
      /\ f \in Element /\ f.header /\ Begun(f, 2, ans)
      /\ Waiting(p, k, ask, Len(ans)) /\ Stream(p, k, 2, ans, t)
  <2>1. /\ Divided(p, k) /\ k < Len(p) /\ f.header /\ Begun(f, 2, ans)
        /\ Waiting(p, k, ask, Len(ans)) /\ Stream(p, k, 2, ans, t)
    BY <1>1, <1>2
  <2>2. Len(p) \in Nat  BY <2>1, DividedFacts
  <2>3. k + 1 \in 1..Len(p)  BY <2>1, <2>2
  <2>4. f \in Element  BY <1>2, <2>1, <2>3, DividedFacts
  <2>5. QED  BY <2>1, <2>2, <2>3, <2>4
<1>4. PICK e : e = WithBody(f)  OBVIOUS
<1>5. /\ e \in Element /\ e.req = f.req /\ e.got = f.got /\ e.header = f.header
      /\ e.spoiled = f.spoiled
  BY <1>3, <1>4, BodySet
<1>6. Begun(e, 2, ans)  BY <1>3, <1>5 DEF Begun
<1>7. 1 \in 1..Len(ans) /\ ans[1] \in Kinds
  <2>1. Len(ans) >= 1  BY EmptySeq
  <2>2. 1 \in 1..Len(ans)  BY <2>1
  <2>3. QED  BY <2>2, ElementOfSeq
<1>8. e.spoiled \/ Whole(e)
  <2>1. SUFFICES ASSUME ~e.spoiled PROVE Whole(e)  OBVIOUS
  <2>2. /\ Len(e.got) = 2 /\ e.got[1] = HeadOf(e.req, ans[1])
        /\ e.got[2] = BodyOf(e.req, ans[1])
    BY <1>6, <2>1 DEF Begun
  <2>3. QED  BY <1>5, <1>7, <2>2, WholeResponse
<1>9. PICK q : q = [p EXCEPT ![k + 1] = e]  OBVIOUS
<1>10. /\ x \in Client /\ x.parser = "start" /\ x.current = After(q, k + 1)
       /\ Divided(q, k + 1) /\ Replaces(q, p, k + 1, e)
       /\ IF SaysClose(e)
          THEN x.renewed /\ Keeps(x.pipeline, q) /\ Lists(x.asked, q, k + 1, Len(q))
          ELSE x.pipeline = q /\ x.asked = ask /\ x.renewed = z.renewed
  <2>1. /\ Divided(z.pipeline, k) /\ k < Len(z.pipeline) /\ z.pipeline[k + 1].header
        /\ e = WithBody(z.pipeline[k + 1]) /\ q = [z.pipeline EXCEPT ![k + 1] = e]
    BY <1>1, <1>2, <1>4, <1>9
  <2>2. /\ x \in Client /\ x.parser = "start" /\ x.current = After(q, k + 1)
        /\ Divided(q, k + 1) /\ Replaces(q, z.pipeline, k + 1, e) /\ e \in Element
        /\ IF SaysClose(e)
           THEN x.renewed /\ Keeps(x.pipeline, q) /\ Lists(x.asked, q, k + 1, Len(q))
           ELSE x.pipeline = q /\ x.asked = z.asked /\ x.renewed = z.renewed
    BY ONLY z \in Client, x = OnMessageComplete(z, k + 1), <1>8, <2>1, MessageCompletes
  <2>3. QED  BY <1>1, <2>2
<1>11. SameRequests(q, p)
  BY <1>2, <1>5, <1>10, ReplacedSame
<1>12. PICK rest : rest = Tail(ans)  OBVIOUS
<1>13. Stream(q, k, 2, ans, t)
  <2>1. /\ t \in Seq(Piece) /\ 2 + Len(t) <= 2 * Len(ans)
        /\ \A a \in 1..Len(ans), j \in 1..Len(t) :
             /\ 2 + j = 2 * a - 1 => t[j] = HeadOf(p[k + a].req, ans[a])
             /\ 2 + j = 2 * a => t[j] = BodyOf(p[k + a].req, ans[a])
    BY <1>3 DEF Stream
  <2>2. \A a \in 1..Len(ans) : k + a \in 1..Len(p)  BY <1>1, <1>3
  <2>3. \A a \in 1..Len(ans) : q[k + a].req = p[k + a].req
    BY <1>11, <2>2 DEF SameRequests
  <2>4. QED  BY <2>1, <2>3 DEF Stream
<1>14. /\ Stream(q, k + 1, 0, rest, t) /\ Leaving(0, rest, t, sv)
       /\ rest \in Seq(Kinds) /\ Len(rest) = Len(ans) - 1
  BY <1>12, <1>13, AnswerRead
<1>15. Len(q) = Len(p) /\ Len(q) \in Nat  BY <1>3, <1>10 DEF Replaces
<1>16. CASE SaysClose(e)
  <2>1. x.renewed /\ Keeps(x.pipeline, q) /\ Lists(x.asked, q, k + 1, Len(q))
    BY <1>10, <1>16
  <2>2. PICK y, w, c : y = x.pipeline /\ w = x.asked /\ c = x.current  OBVIOUS
  <2>3. y \in Seq(Element) /\ Keeps(y, q) /\ Lists(w, q, k + 1, Len(q))
    BY <1>10, <2>1, <2>2 DEF Client
  <2>4. c = IF k + 1 = Len(q) THEN None ELSE q[(k + 1) + 1].req
    BY <1>10, <2>2 DEF After
  <2>5. Divided(q, k + 1)  BY <1>10
  <2>6. Holds(y, c, "start", w, <<>>, "up", FALSE)
    BY <2>3, <2>4, <2>5, NewConnection
  <2>7. t # <<>> => Spoils(y)
    <3>1. SUFFICES ASSUME t # <<>> PROVE Spoils(y)  OBVIOUS
    <3>2. Len(t) \in Nat /\ Len(t) >= 1  BY <3>1, EmptySeq
    <3>3. 2 + Len(t) <= 2 * Len(ans)  BY <1>13 DEF Stream
    <3>4. 1 # Len(ans)
      <4>1. PICK a, b : a = Len(t) /\ b = Len(ans)  OBVIOUS
      <4>2. a \in Nat /\ a >= 1 /\ 2 + a <= 2 * b  BY <3>2, <3>3, <4>1
      <4>3. 1 # b  BY ONLY <4>2
      <4>4. QED  BY <4>1, <4>3
    <3>5. ans[1] = "keep"  BY <1>7, <3>4 DEF Leaving
    <3>6. e.spoiled  BY <1>5, <1>6, <1>16, <3>5, KeptAlive
    <3>7. Spoils(q)
      <4>1. q[k + 1] = e /\ k + 1 \in 1..Len(q)  BY <1>3, <1>10, <1>15 DEF Replaces
      <4>2. QED  BY <3>6, <4>1 DEF Spoils
    <3>8. QED  BY <2>3, <2>5, <3>7, KeptDivided
  <2>8. QED  BY <1>10, <2>1, <2>2, <2>6, <2>7 DEF Reads
<1>17. CASE ~SaysClose(e)
  <2>1. x.pipeline = q /\ x.asked = ask /\ ~x.renewed  BY <1>10, <1>17
  <2>2. Turn(q, k + 1, x.current, FALSE)  BY <1>10 DEF Turn, After
  <2>3. Waiting(q, k + 1, ask, Len(rest))
    <3>1. Waiting(q, k, ask, Len(ans))  BY <1>3, <1>11, StillWaiting
    <3>2. (k + 1) + Len(rest) = k + Len(ans)  BY <1>14
    <3>3. QED  BY <3>1, <3>2 DEF Waiting
  <2>4. Stage("start", 0, rest)  BY DEF Stage
  <2>5. k + 1 < Len(q) => Begun(q[(k + 1) + 1], 0, rest)
    <3>1. Divided(p, k) /\ Replaces(q, p, k + 1, e)  BY <1>3, <1>10
    <3>2. QED  BY <3>1, NextFresh
  <2>6. Connected(q, k + 1, "start", 0, rest, t, sv)
    BY <1>14, <2>4, <2>5 DEF Connected
  <2>7. k + 1 \in Nat /\ 0 \in 0..2 /\ "start" # "crashed"  OBVIOUS
  <2>8. Holds(q, x.current, "start", ask, t, sv, FALSE)
    BY <1>10, <1>14, <2>2, <2>3, <2>6, <2>7, Zenon DEF Holds
  <2>9. QED  BY <1>10, <2>1, <2>8 DEF Reads
<1>18. QED  BY <1>16, <1>17

\* A piece of the current response.
LEMMA ReadsTaken ==
  ASSUME NEW s, NEW u, NEW sv, NEW x, NEW t, Reads(s, u, sv, FALSE),
         ~s.renewed, u # <<>>, Loses(t, u), x = Parsed(s, u[1])
  PROVE  Reads(x, t, sv, FALSE)
<1>1. s \in Client /\ Holds(s.pipeline, s.current, s.parser, s.asked, u, sv, FALSE)
  BY DEF Reads
<1>2. PICK p, cur, ps, ask :
        p = s.pipeline /\ cur = s.current /\ ps = s.parser /\ ask = s.asked
  OBVIOUS
<1>3. PICK k \in Nat, off \in 0..2, ans \in Seq(Kinds) :
        /\ Divided(p, k) /\ Turn(p, k, cur, FALSE) /\ Waiting(p, k, ask, Len(ans))
        /\ Connected(p, k, ps, off, ans, u, sv)
  <2>1. Holds(p, cur, ps, ask, u, sv, FALSE)  BY <1>1, <1>2
  <2>2. QED  BY <2>1, Zenon DEF Holds
<1>4. /\ 1 \in 1..Len(ans) /\ ans[1] \in Kinds /\ k < Len(p) /\ off \in {0, 1}
      /\ u[1] = IF off = 0 THEN HeadOf(p[k + 1].req, ans[1]) ELSE BodyOf(p[k + 1].req, ans[1])
      /\ Len(u) \in Nat /\ Len(u) >= 1 /\ Len(ans) \in Nat /\ Len(ans) >= 1
  BY <1>3, PieceIs
<1>5. /\ Stage(ps, off, ans) /\ Begun(p[k + 1], off, ans)
      /\ Stream(p, k, off, ans, u) /\ Leaving(off, ans, u, sv)
  BY <1>3, <1>4 DEF Connected
<1>6. PICK piece : piece = u[1]  OBVIOUS
<1>7. PICK f : f = p[k + 1]  OBVIOUS
<1>8. /\ Len(p) \in Nat /\ k + 1 \in 1..Len(p) /\ f \in Element /\ f.req \in Requests
      /\ ~f.body
  <2>1. Len(p) \in Nat  BY <1>3, DividedFacts
  <2>2. k + 1 \in 1..Len(p)  BY <1>4, <2>1
  <2>3. f \in Element /\ f.req \in Requests  BY <1>3, <1>7, <2>2, DividedFacts
  <2>4. ~f.body  BY <1>3, <1>4, <1>7 DEF Divided
  <2>5. QED  BY <2>1, <2>2, <2>3, <2>4
<1>9. piece = IF off = 0 THEN HeadOf(f.req, ans[1]) ELSE BodyOf(f.req, ans[1])
  BY <1>4, <1>6, <1>7
<1>10. /\ piece \in Piece /\ piece.kind = ans[1]
       /\ piece.part = IF off = 0 THEN "head" ELSE "body"
  BY <1>4, <1>8, <1>9, PieceKinds
<1>11. PICK e : e = Given(f, piece)  OBVIOUS
<1>12. e.header /\ Begun(e, off + 1, ans)
  <2>1. Begun(f, off, ans)  BY <1>5, <1>7
  <2>2. f \in Element /\ off \in {0, 1} /\ ans[1] \in Kinds /\ piece \in Piece
    BY <1>4, <1>8, <1>10
  <2>3. QED  BY <1>9, <1>11, <2>1, <2>2, BegunOn
<1>13. e \in Element /\ e.req = f.req /\ ~e.body
  <2>1. f \in Element /\ piece \in Piece /\ ~f.body  BY <1>8, <1>10
  <2>2. e \in Element /\ e.req = f.req /\ e.body = f.body
    BY <1>11, <2>1, GivenFacts
  <2>3. QED  BY <2>1, <2>2
<1>14. PICK q : q = [p EXCEPT ![k + 1] = e]  OBVIOUS
<1>15. Divided(q, k) /\ Replaces(q, p, k + 1, e)
  <2>1. e.req = p[k + 1].req  BY <1>7, <1>13
  <2>2. Divided(p, k) /\ k < Len(p) /\ e \in Element /\ ~e.body  BY <1>3, <1>4, <1>13
  <2>3. QED  BY <1>14, <2>1, <2>2, ElementChanged
<1>16. SameRequests(q, p)  BY <1>7, <1>13, <1>15, ReplacedSame
<1>17. k + Len(ans) <= Len(p)
  <2>1. Len(p) = k + Len(ans) + Len(ask) /\ Len(ask) \in Nat
    BY <1>3, LenProperties DEF Waiting
  <2>2. QED  BY <1>4, <2>1
<1>18. Stream(q, k, off + 1, ans, t) /\ Leaving(off + 1, ans, t, sv)
  <2>1. Len(q) = Len(p) /\ \A i \in 1..Len(p) : q[i].req = p[i].req
    BY <1>16 DEF SameRequests
  <2>2. Len(p) \in Nat  BY <1>8
  <2>3. Stream(p, k, off, ans, u) /\ Leaving(off, ans, u, sv)  BY <1>5
  <2>4. QED  BY <1>17, <2>1, <2>2, <2>3, PieceRead
<1>19. Turn(q, k, cur, FALSE) /\ Waiting(q, k, ask, Len(ans))
  <2>1. Turn(q, k, cur, FALSE)  BY <1>3, <1>16, StillTurn
  <2>2. Len(ans) \in Nat /\ Waiting(p, k, ask, Len(ans))  BY <1>3, <1>4
  <2>3. QED  BY <1>16, <2>1, <2>2, StillWaiting
<1>20. PICK z : Puts(z, s, k + 1, piece)  BY DEF Puts
<1>21. /\ z \in Client /\ z.pipeline = q /\ z.current = cur
       /\ z.parser = IF piece.kind = "eof" THEN "eof" ELSE "message"
       /\ z.asked = ask /\ z.renewed = s.renewed
  <2>1. /\ k + 1 \in 1..Len(s.pipeline) /\ piece \in Piece
        /\ e = Given(s.pipeline[k + 1], piece) /\ q = [s.pipeline EXCEPT ![k + 1] = e]
    BY <1>2, <1>7, <1>8, <1>10, <1>11, <1>14
  <2>2. s \in Client  BY <1>1
  <2>3. /\ z \in Client /\ z.pipeline = q /\ z.current = s.current
        /\ z.parser = IF piece.kind = "eof" THEN "eof" ELSE "message"
        /\ z.asked = s.asked /\ z.renewed = s.renewed
    BY ONLY <1>20, <2>1, <2>2, PutFacts
  <2>4. QED  BY <1>2, <2>3
<1>22. x = IF piece.part = "body" /\ piece.kind # "eof" THEN OnMessageComplete(z, k + 1) ELSE z
  <2>1. s.parser # "failed"
    <3>1. ps # "failed"  BY <1>4, <1>5 DEF Stage
    <3>2. QED  BY <1>2, <3>1
  <2>2. Position(s.pipeline, s.current) = k + 1
    <3>1. cur = p[k + 1].req  BY <1>3, <1>4, <1>8 DEF Turn
    <3>2. Distinct(p)  BY <1>3 DEF Divided
    <3>3. Position(p, p[k + 1].req) = k + 1  BY <1>8, <3>2, PositionIs
    <3>4. QED  BY <1>2, <3>1, <3>3
  <2>3. k + 1 # 0  OBVIOUS
  <2>4. QED  BY <1>6, <1>20, <2>1, <2>2, <2>3, Zenon DEF Parsed, Puts
<1>23. CASE ~(piece.part = "body" /\ piece.kind # "eof")
  <2>1. x = z  BY <1>22, <1>23
  <2>2. PICK ps2 : ps2 = z.parser  OBVIOUS
  <2>3. ps2 = IF ans[1] = "eof" THEN "eof" ELSE "message"  BY <1>10, <1>21, <2>2
  <2>4. off + 1 \in 0..2 /\ off + 1 # 0 /\ (off + 1 = 2 => ans[1] = "eof")
    <3>1. off = 1 => ans[1] = "eof"  BY <1>10, <1>23
    <3>2. QED  BY <1>4, <3>1
  <2>5. ans # <<>>  BY <1>4, EmptySeq
  <2>6. Stage(ps2, off + 1, ans)  BY <2>3, <2>4, <2>5 DEF Stage
  <2>7. Begun(q[k + 1], off + 1, ans)  BY <1>12, <1>15 DEF Replaces
  <2>8. Connected(q, k, ps2, off + 1, ans, t, sv)
    BY <1>18, <2>6, <2>7 DEF Connected
  <2>9. ps2 # "crashed"  BY <2>3
  <2>10. t \in Seq(Piece)  BY DEF Loses
  <2>11. Holds(q, cur, ps2, ask, t, sv, FALSE)
    BY <1>15, <1>19, <2>4, <2>8, <2>9, <2>10, Zenon DEF Holds
  <2>12. QED  BY <1>21, <2>1, <2>2, <2>11 DEF Reads
<1>24. CASE piece.part = "body" /\ piece.kind # "eof"
  <2>1. x = OnMessageComplete(z, k + 1)  BY <1>22, <1>24
  <2>2. off = 1 /\ off + 1 = 2
    <3>1. off # 0  BY <1>10, <1>24
    <3>2. QED  BY <1>4, <3>1
  <2>3. q[k + 1] = e /\ Len(q) = Len(p)  BY <1>15 DEF Replaces
  <2>4. /\ z \in Client /\ Divided(z.pipeline, k) /\ k < Len(z.pipeline) /\ ~z.renewed
        /\ z.pipeline[k + 1].header /\ Begun(z.pipeline[k + 1], 2, ans)
        /\ Waiting(z.pipeline, k, z.asked, Len(ans)) /\ k + Len(ans) <= Len(z.pipeline)
        /\ Stream(z.pipeline, k, 2, ans, t) /\ Leaving(2, ans, t, sv)
    BY <1>4, <1>12, <1>15, <1>17, <1>18, <1>19, <1>21, <2>2, <2>3
  <2>5. ans # <<>> /\ Len(ans) \in Nat /\ t \in Seq(Piece)
    BY <1>4, EmptySeq DEF Loses
  <2>6. QED  BY ONLY k \in Nat, ans \in Seq(Kinds), <2>1, <2>4, <2>5, ReadsLast
<1>25. QED  BY <1>23, <1>24

\* One piece, in any state of Update().
LEMMA PieceParsed ==
  ASSUME NEW s, NEW u, NEW sv, NEW str \in BOOLEAN, NEW x, NEW t, Reads(s, u, sv, str),
         u # <<>>, Loses(t, u), x = Parsed(s, u[1])
  PROVE  Reads(x, t, sv, str)
<1>1. CASE s.renewed  BY <1>1, ReadsOn
<1>2. CASE ~s.renewed /\ str = TRUE
  <2>1. Reads(s, u, sv, TRUE)  BY <1>2
  <2>2. Reads(x, t, sv, TRUE)  BY <1>2, <2>1, ReadsStranded
  <2>3. QED  BY <1>2, <2>2
<1>3. CASE ~s.renewed /\ str = FALSE
  <2>1. Reads(s, u, sv, FALSE)  BY <1>3
  <2>2. Reads(x, t, sv, FALSE)  BY <1>3, <2>1, ReadsTaken
  <2>3. QED  BY <1>3, <2>2
<1>4. QED  BY <1>1, <1>2, <1>3

-----------------------------------------------------------------------------
(* The pieces that Update() reads.                                         *)

\* v[k]: the state before piece k.
Steps(v, n) == v[1] = State /\ \A k \in 1..n : v[k + 1] = Parsed(v[k], incoming[k])

LEMMA ReadFollows ==
  ASSUME NEW m \in Nat
  PROVE  \E v : Steps(v, m) /\ Read(m) = v[m + 1]
<1> DEFINE body(f, k) == IF k = 1 THEN State ELSE Parsed(f[k - 1], incoming[k - 1])
           S == {n \in Nat : \E f : f = [k \in 1..n + 1 |-> body(f, k)]}
<1>1. 0 \in S
  <2> DEFINE f == [k \in 1..0 + 1 |-> State]
  <2>1. \A k \in 1..0 + 1 : k = 1  BY SMT
  <2>2. f = [k \in 1..0 + 1 |-> body(f, k)]  BY <2>1
  <2> HIDE DEF f
  <2>3. QED  BY <2>2
<1>2. ASSUME NEW n \in S PROVE n + 1 \in S
  <2>1. PICK f : f = [k \in 1..n + 1 |-> body(f, k)]  OBVIOUS
  <2> DEFINE g == [k \in 1..(n + 1) + 1 |-> body(f, k)]
  <2>2. ASSUME NEW k \in 1..n + 1 PROVE g[k] = f[k]
    <3>1. f[k] = body(f, k)  BY <2>1
    <3>2. k \in 1..(n + 1) + 1  BY SMT
    <3> HIDE DEF body
    <3>3. QED  BY <3>1, <3>2
  <2>3. ASSUME NEW k \in 1..(n + 1) + 1 PROVE body(g, k) = body(f, k)
    <3> HIDE DEF g
    <3>1. CASE k = 1  BY <3>1
    <3>2. CASE k # 1
      <4>1. k - 1 \in 1..n + 1  BY <3>2, SMT
      <4>2. g[k - 1] = f[k - 1]  BY <2>2, <4>1
      <4>3. QED  BY <4>2
    <3>3. QED  BY <3>1, <3>2
  <2> HIDE DEF body
  <2>4. g = [k \in 1..(n + 1) + 1 |-> body(g, k)]  BY <2>3, Zenon
  <2> HIDE DEF g
  <2>5. n + 1 \in Nat  BY SMT
  <2>6. QED  BY <2>4, <2>5, Zenon
<1> HIDE DEF S
<1>3. S \in SUBSET Nat  BY DEF S
<1>4. \A n \in Nat : n \in S  BY <1>1, <1>2, <1>3, Induction
<1>5. \E f : f = [k \in 1..m + 1 |-> body(f, k)]  BY <1>4 DEF S
<1>6. PICK v : v = CHOOSE f : f = [k \in 1..m + 1 |-> body(f, k)]  OBVIOUS
<1>7. Read(m) = v[m + 1]
  BY <1>6, Zenon DEF Read
<1>8. v = [k \in 1..m + 1 |-> body(v, k)]
  <2> HIDE DEF body
  <2>1. QED  BY <1>5, <1>6, Zenon
<1>9. v[1] = State
  <2>1. 1 \in 1..m + 1  BY SMT
  <2>2. QED  BY <1>8, <2>1, Zenon
<1>10. ASSUME NEW k \in 1..m PROVE v[k + 1] = Parsed(v[k], incoming[k])
  <2>1. k + 1 \in 1..m + 1 /\ k + 1 # 1 /\ (k + 1) - 1 = k  BY SMT
  <2>2. v[k + 1] = body(v, k + 1)
    <3> HIDE DEF body
    <3>1. QED  BY <1>8, <2>1, Zenon
  <2>3. QED  BY <2>1, <2>2, Zenon
<1>11. QED  BY <1>7, <1>9, <1>10 DEF Steps

\* What is left of u after n pieces.
Rest(u, n) == SubSeq(u, n + 1, Len(u))

LEMMA RestFacts ==
  ASSUME NEW u \in Seq(Piece), NEW n \in 0..Len(u)
  PROVE  /\ Rest(u, n) \in Seq(Piece) /\ Len(Rest(u, n)) = Len(u) - n
         /\ \A j \in 1..Len(u) - n : Rest(u, n)[j] = u[n + j]
<1>1. Len(u) \in Nat /\ n \in Nat /\ n <= Len(u)  BY LenProperties
<1>2. PICK m, l : m = n + 1 /\ l = Len(u)  OBVIOUS
<1>3. m \in Int /\ l \in Int /\ \A i \in m..l : i \in 1..Len(u)  BY <1>1, <1>2
<1>4. \A i \in m..l : u[i] \in Piece  BY <1>3, ElementOfSeq
<1>5. PICK t : t = SubSeq(u, m, l)  OBVIOUS
<1>6. /\ t \in Seq(Piece) /\ Len(t) = IF m <= l THEN l - m + 1 ELSE 0
      /\ \A i \in 1..l - m + 1 : t[i] = u[m + i - 1]
  BY <1>3, <1>4, <1>5, SubSeqProperties
<1>7. Len(t) = Len(u) - n  BY <1>1, <1>2, <1>6
<1>8. ASSUME NEW j \in 1..Len(u) - n PROVE t[j] = u[n + j]
  <2>1. j \in 1..l - m + 1 /\ m + j - 1 = n + j  BY <1>1, <1>2
  <2>2. QED  BY <1>6, <2>1
<1>9. Rest(u, n) = t  BY <1>2, <1>5 DEF Rest
<1>10. QED  BY <1>6, <1>7, <1>8, <1>9

LEMMA RestAll ==
  ASSUME NEW u \in Seq(Piece)
  PROVE  Rest(u, 0) = u
<1>1. Len(u) \in Nat  BY LenProperties
<1>2. PICK t : t = Rest(u, 0)  OBVIOUS
<1>3. 0 \in 0..Len(u)  BY <1>1
<1>4. /\ t \in Seq(Piece) /\ Len(t) = Len(u) - 0
      /\ \A j \in 1..Len(u) - 0 : t[j] = u[0 + j]
  BY <1>2, <1>3, RestFacts
<1>5. Len(t) = Len(u)  BY <1>1, <1>4
<1>6. \A j \in 1..Len(t) : t[j] = u[j]
  <2>1. \A j \in 1..Len(t) : j \in 1..Len(u) - 0 /\ 0 + j = j  BY <1>1, <1>5
  <2>2. QED  BY <1>4, <2>1
<1>7. t = u  BY <1>4, <1>5, <1>6, SeqEqual
<1>8. QED  BY <1>2, <1>7

LEMMA RestLoses ==
  ASSUME NEW u \in Seq(Piece), NEW n \in Nat, n + 1 <= Len(u)
  PROVE  /\ Loses(Rest(u, n + 1), Rest(u, n)) /\ Rest(u, n) # <<>>
         /\ Rest(u, n)[1] = u[n + 1]
<1>1. Len(u) \in Nat  BY LenProperties
<1>2. PICK a, b, m : a = Rest(u, n) /\ b = Rest(u, m) /\ m = n + 1  OBVIOUS
<1>3. n \in 0..Len(u) /\ m \in 0..Len(u)  BY <1>1, <1>2
<1>4. /\ a \in Seq(Piece) /\ Len(a) = Len(u) - n
      /\ \A j \in 1..Len(u) - n : a[j] = u[n + j]
  BY <1>2, <1>3, RestFacts
<1>5. /\ b \in Seq(Piece) /\ Len(b) = Len(u) - m
      /\ \A j \in 1..Len(u) - m : b[j] = u[m + j]
  BY <1>2, <1>3, RestFacts
<1>6. Len(b) = Len(a) - 1  BY <1>1, <1>2, <1>4, <1>5
<1>7. ASSUME NEW j \in 1..Len(b) PROVE b[j] = a[j + 1]
  <2>1. j \in 1..Len(u) - m /\ j + 1 \in 1..Len(u) - n /\ m + j = n + (j + 1)
    BY <1>1, <1>2, <1>5
  <2>2. QED  BY <1>4, <1>5, <2>1
<1>8. a # <<>>
  <2>1. Len(a) # 0  BY <1>1, <1>4
  <2>2. QED  BY <2>1, EmptySeq
<1>9. a[1] = u[n + 1]
  <2>1. 1 \in 1..Len(u) - n  BY <1>1
  <2>2. QED  BY <1>4, <2>1
<1>10. QED  BY <1>2, <1>5, <1>6, <1>7, <1>8, <1>9 DEF Loses

\* Update() starts from the state of the client.
LEMMA StartsReading ==
  ASSUME Inv
  PROVE  Reads(State, incoming, server, stranded) /\ incoming \in Seq(Piece)
<1>1. PICK k \in Nat, ans \in Seq(Kinds) :
                     /\ Divided(pipeline, k) /\ Turn(pipeline, k, current, stranded)
                     /\ Waiting(pipeline, k, asked, Len(ans))
  BY Zenon DEF Inv, Holds
<1>2. pipeline \in Seq(Element) /\ asked \in Seq(Requests)
  BY <1>1 DEF Divided, Waiting
<1>3. current \in Requests \cup {None}
  <2>1. CASE k = Len(pipeline) \/ stranded  BY <1>1, <2>1 DEF Turn
  <2>2. CASE ~(k = Len(pipeline) \/ stranded)
    <3>1. /\ k \in Nat /\ Len(pipeline) \in Nat /\ k <= Len(pipeline)
          /\ \A i \in 1..Len(pipeline) : pipeline[i].req \in Requests
      BY <1>1, DividedFacts
    <3>2. k + 1 \in 1..Len(pipeline)  BY <2>2, <3>1
    <3>3. QED  BY <1>1, <2>2, <3>1, <3>2 DEF Turn
  <2>3. QED  BY <2>1, <2>2
<1>4. State \in Client /\ State.renewed = FALSE
  BY <1>2, <1>3 DEF State, Client, Inv
<1>5. /\ State.pipeline = pipeline /\ State.current = current
      /\ State.parser = parser /\ State.asked = asked
  BY DEF State
<1>6. incoming \in Seq(Piece)
  BY Zenon DEF Inv, Holds
<1>7. QED  BY <1>4, <1>5, <1>6, Zenon DEF Reads, Inv

LEMMA PiecesRead ==
  ASSUME Inv, NEW n \in 0..Len(incoming), NEW x, x = Read(n)
  PROVE  Reads(x, Rest(incoming, n), server, stranded)
<1>1. incoming \in Seq(Piece) /\ Reads(State, incoming, server, stranded) /\ stranded \in BOOLEAN
  BY StartsReading DEF Inv
<1>2. Len(incoming) \in Nat /\ n \in Nat /\ n <= Len(incoming)  BY <1>1, LenProperties
<1>3. PICK v : Steps(v, n) /\ Read(n) = v[n + 1]  BY <1>2, ReadFollows
<1> DEFINE P(k) == Reads(v[k + 1], Rest(incoming, k), server, stranded)
           S == {k \in Nat : k <= n => P(k)}
<1>4. 0 \in S
  <2>1. Rest(incoming, 0) = incoming  BY <1>1, RestAll
  <2>2. v[0 + 1] = State  BY <1>3 DEF Steps
  <2>3. QED  BY <1>1, <2>1, <2>2
<1>5. ASSUME NEW k \in S PROVE k + 1 \in S
  <2>1. SUFFICES ASSUME k + 1 <= n PROVE P(k + 1)  OBVIOUS
  <2>2. k \in Nat /\ k + 1 \in 1..n /\ k + 1 <= Len(incoming) /\ P(k)
    BY <1>2, <2>1
  <2>3. PICK a, b, s : a = Rest(incoming, k) /\ b = Rest(incoming, k + 1) /\ s = v[k + 1]
    OBVIOUS
  <2>4. Loses(b, a) /\ a # <<>> /\ a[1] = incoming[k + 1]
    BY <1>1, <2>2, <2>3, RestLoses
  <2>5. PICK y : y = v[(k + 1) + 1]  OBVIOUS
  <2>6. y = Parsed(s, a[1])  BY <1>3, <2>2, <2>3, <2>4, <2>5 DEF Steps
  <2>7. Reads(s, a, server, stranded)  BY <2>2, <2>3
  <2>8. Reads(y, b, server, stranded)
    BY ONLY <1>1, <2>4, <2>6, <2>7, PieceParsed
  <2>9. QED  BY <2>3, <2>5, <2>8
<1> HIDE DEF P
<1> HIDE DEF S
<1>6. S \in SUBSET Nat  BY DEF S
<1>7. n \in S  BY <1>2, <1>4, <1>5, <1>6, Induction
<1>8. P(n)  BY <1>2, <1>7 DEF S
<1>9. QED  BY <1>3, <1>8 DEF P

-----------------------------------------------------------------------------
(* The end of the stream.                                                  *)

MarksEarly(y, s, i, early) == y = [s EXCEPT !.pipeline[i].spoiled = @ \/ early]

Marked(e, early) == [e EXCEPT !.spoiled = @ \/ early]

LEMMA MarkedFacts ==
  ASSUME NEW e \in Element, NEW early \in BOOLEAN, NEW x, x = Marked(e, early)
  PROVE  /\ x \in Element /\ x.req = e.req /\ x.got = e.got /\ x.header = e.header
         /\ x.body = e.body
         /\ x.spoiled <=> e.spoiled \/ early
<1>1. PICK b : b = (e.spoiled \/ early)  OBVIOUS
<1>2. b \in BOOLEAN  BY <1>1
<1>3. x = [e EXCEPT !.spoiled = b]  BY <1>1, Zenon DEF Marked
<1>4. /\ x \in Element /\ x.req = e.req /\ x.got = e.got /\ x.header = e.header
      /\ x.body = e.body /\ x.spoiled = b
  BY <1>2, <1>3 DEF Element
<1>5. QED  BY <1>1, <1>4, Zenon

LEMMA EarlyMarked ==
  ASSUME NEW s \in Client, NEW i \in 1..Len(s.pipeline), NEW early \in BOOLEAN,
         NEW e, e = Marked(s.pipeline[i], early),
         NEW q, q = [s.pipeline EXCEPT ![i] = e],
         NEW y, MarksEarly(y, s, i, early)
  PROVE  /\ y \in Client /\ y.pipeline = q /\ y.current = s.current
<1>1. s.pipeline \in Seq(Element)  BY DEF Client
<1>2. PICK p : p = s.pipeline  OBVIOUS
<1>3. PICK f : f = p[i]  OBVIOUS
<1>4. f \in Element /\ e = Marked(f, early)  BY <1>1, <1>2, <1>3, ElementOfSeq
<1>5. e \in Element  BY <1>4, MarkedFacts
<1>6. q \in Seq(Element)  BY <1>1, <1>5, Replaced
<1>7. y = [s EXCEPT !.pipeline = q]
  BY Zenon DEF MarksEarly, Marked
<1>8. QED  BY <1>6, <1>7 DEF Client

\* A state to which Reconnect() may be applied.
Restartable(y) ==
  /\ y \in Client
  /\ \E k \in Nat : Divided(y.pipeline, k) /\ (k = Len(y.pipeline) => y.current = None)

LEMMA ReconnectReads ==
  ASSUME NEW y, Restartable(y), NEW x, x = Reconnect(y), NEW sv, NEW str
  PROVE  Reads(x, <<>>, sv, str) /\ x.renewed
<1>1. PICK k \in Nat : Divided(y.pipeline, k) /\ (k = Len(y.pipeline) => y.current = None)
  BY DEF Restartable
<1>2. y \in Client  BY DEF Restartable
<1>3. /\ x \in Client /\ x.renewed /\ x.parser = "start"
      /\ Keeps(x.pipeline, y.pipeline)
      /\ x.current = IF k = Len(y.pipeline) THEN y.current ELSE y.pipeline[k + 1].req
      /\ Lists(x.asked, y.pipeline, k, Len(y.pipeline))
  BY <1>1, <1>2, ReconnectFacts
<1>4. PICK p, q, c, w : p = y.pipeline /\ q = x.pipeline /\ c = x.current /\ w = x.asked
  OBVIOUS
<1>5. /\ Divided(p, k) /\ Keeps(q, p) /\ Lists(w, p, k, Len(p)) /\ q \in Seq(Element)
      /\ c = IF k = Len(p) THEN None ELSE p[k + 1].req
  BY <1>1, <1>3, <1>4 DEF Client
<1>6. Holds(q, c, "start", w, <<>>, "up", FALSE)  BY <1>5, NewConnection
<1>7. QED  BY <1>3, <1>4, <1>6 DEF Reads

\* The response that ends with the stream is whole, unless its end was missed.
LEMMA EndParsed ==
  ASSUME NEW s, NEW u, NEW str \in BOOLEAN, Reads(s, u, "fin", str), ~s.renewed,
         NEW early \in BOOLEAN, early \/ u = <<>>, NEW y, y = ParsedEnd(s, early)
  PROVE  Restartable(y)
<1>1. s \in Client /\ Holds(s.pipeline, s.current, s.parser, s.asked, u, "fin", str)
  BY DEF Reads
<1>2. PICK p, cur, ps, ask :
        p = s.pipeline /\ cur = s.current /\ ps = s.parser /\ ask = s.asked
  OBVIOUS
<1>3. PICK k \in Nat, off \in 0..2, ans \in Seq(Kinds) :
        /\ Divided(p, k) /\ Turn(p, k, cur, str) /\ Waiting(p, k, ask, Len(ans))
        /\ ~str => Connected(p, k, ps, off, ans, u, "fin")
  <2>1. Holds(p, cur, ps, ask, u, "fin", str)  BY <1>1, <1>2
  <2>2. QED  BY <2>1, Zenon DEF Holds
<1>4. /\ Len(p) \in Nat /\ k <= Len(p) /\ Distinct(p)
      /\ \A i \in 1..Len(p) : p[i] \in Element /\ p[i].req \in Requests
  BY <1>3, DividedFacts DEF Divided
<1>5. CASE str \/ k = Len(p)
  <2>1. cur = None  BY <1>3, <1>5 DEF Turn
  <2>2. \A i \in 1..Len(p) : p[i].req # cur  BY <1>4, <2>1, HTTPAssumption
  <2>3. Position(p, cur) = 0  BY <2>2, PositionNone
  <2>4. y = s  BY <1>2, <2>3, Zenon DEF ParsedEnd
  <2>5. QED  BY <1>1, <1>2, <1>3, <2>1, <2>4 DEF Restartable
<1>6. CASE ~str /\ k # Len(p)
  <2>1. k < Len(p) /\ k + 1 \in 1..Len(p)  BY <1>4, <1>6
  <2>2. cur = p[k + 1].req  BY <1>3, <1>6 DEF Turn
  <2>3. Position(p, cur) = k + 1  BY <1>4, <2>1, <2>2, PositionIs
  <2>4. CASE ps # "eof"
    <3>1. y = s  BY <1>2, <2>4, Zenon DEF ParsedEnd
    <3>2. QED  BY <1>1, <1>2, <1>3, <1>6, <3>1 DEF Restartable
  <2>5. CASE ps = "eof"
    <3>1. /\ Stage(ps, off, ans) /\ Begun(p[k + 1], off, ans) /\ Leaving(off, ans, u, "fin")
      BY <1>3, <1>6, <2>1 DEF Connected
    <3>2. off > 0 /\ ans # <<>> /\ ans[1] = "eof"
      <4>1. off # 0  BY <2>5, <3>1 DEF Stage
      <4>2. off > 0  BY <4>1
      <4>3. ans # <<>> /\ ps = IF ans[1] = "eof" THEN "eof" ELSE "message"
        BY <3>1, <4>2 DEF Stage
      <4>4. ans[1] = "eof"  BY <2>5, <4>3
      <4>5. QED  BY <4>2, <4>3, <4>4
    <3>3. /\ Len(ans) \in Nat /\ 1 \in 1..Len(ans) /\ ans[1] \in Kinds
      <4>1. Len(ans) \in Nat /\ Len(ans) >= 1  BY <3>2, EmptySeq
      <4>2. 1 \in 1..Len(ans)  BY <4>1
      <4>3. QED  BY <4>1, <4>2, ElementOfSeq
    <3>4. 1 = Len(ans) /\ Complete(off, ans, u)
      BY <3>1, <3>2, <3>3 DEF Leaving
    <3>5. early \/ off = 2
      <4>1. SUFFICES ASSUME u = <<>> PROVE off = 2  OBVIOUS
      <4>2. Len(u) = 0  BY <4>1, EmptySeq
      <4>3. PICK n, m : n = Len(u) /\ m = Len(ans)  OBVIOUS
      <4>4. off + n = 2 * m /\ n = 0 /\ m = 1
        BY <3>4, <4>2, <4>3 DEF Complete
      <4>5. QED  BY ONLY off \in 0..2, <4>4
    <3>6. PICK f : f = p[k + 1]  OBVIOUS
    <3>7. f \in Element /\ f.req \in Requests /\ f.header /\ ~f.body /\ Begun(f, off, ans)
      <4>1. f \in Element /\ f.req \in Requests /\ Begun(f, off, ans)
        BY <1>4, <2>1, <3>1, <3>6
      <4>2. f.header  BY <3>2, <4>1 DEF Begun
      <4>3. ~f.body  BY <1>3, <2>1, <3>6 DEF Divided
      <4>4. QED  BY <4>1, <4>2, <4>3
    <3>8. PICK e : e = Marked(f, early)  OBVIOUS
    <3>9. /\ e \in Element /\ e.req = f.req /\ e.got = f.got /\ e.header = f.header
          /\ e.body = f.body
          /\ e.spoiled <=> f.spoiled \/ early
      BY <3>7, <3>8, MarkedFacts
    <3>10. e.spoiled \/ Whole(e)
      <4>1. SUFFICES ASSUME ~e.spoiled PROVE Whole(e)  OBVIOUS
      <4>2. off = 2 /\ ~f.spoiled  BY <3>5, <3>9, <4>1
      <4>3. /\ Len(e.got) = 2 /\ e.got[1] = HeadOf(e.req, ans[1])
            /\ e.got[2] = BodyOf(e.req, ans[1])
        BY <3>7, <3>9, <4>2 DEF Begun
      <4>4. e \in Element  BY <3>9
      <4>5. QED  BY <3>3, <4>3, <4>4, WholeResponse
    <3>11. PICK q : q = [p EXCEPT ![k + 1] = e]  OBVIOUS
    <3>12. Divided(q, k) /\ Replaces(q, p, k + 1, e)
      <4>1. /\ Divided(p, k) /\ k < Len(p) /\ e \in Element /\ e.req = p[k + 1].req
            /\ ~e.body
        <5>1. ~e.body  BY <3>7, <3>9, Zenon
        <5>2. e.req = p[k + 1].req  BY <3>6, <3>9, Zenon
        <5>3. QED  BY <1>3, <2>1, <3>9, <5>1, <5>2, Zenon
      <4>2. QED  BY <3>11, <4>1, ElementChanged
    <3>13. PICK z : MarksEarly(z, s, k + 1, early)  BY DEF MarksEarly
    <3>14. z \in Client /\ z.pipeline = q
      <4>1. /\ k + 1 \in 1..Len(s.pipeline) /\ e = Marked(s.pipeline[k + 1], early)
            /\ q = [s.pipeline EXCEPT ![k + 1] = e] /\ s \in Client
        BY <1>1, <1>2, <2>1, <3>6, <3>8, <3>11
      <4>2. QED  BY ONLY early \in BOOLEAN, <3>13, <4>1, EarlyMarked
    <3>15. y = OnMessageComplete(z, k + 1)
      <4>1. s.parser = "eof" /\ Position(s.pipeline, s.current) = k + 1 /\ k + 1 # 0
        BY <1>2, <2>3, <2>5
      <4>2. QED  BY <3>13, <4>1, Zenon DEF ParsedEnd, MarksEarly
    <3>16. PICK g : g = WithBody(e)  OBVIOUS
    <3>17. g \in Element /\ g.req = e.req /\ g.got = e.got /\ g.spoiled = e.spoiled
      BY <3>9, <3>16, BodySet
    <3>18. g.spoiled \/ Whole(g)
      BY <3>10, <3>17 DEF Whole
    <3>19. PICK r : r = [q EXCEPT ![k + 1] = g]  OBVIOUS
    <3>20. q[k + 1] = e /\ Len(q) = Len(p)  BY <3>12 DEF Replaces
    <3>21. /\ Divided(z.pipeline, k) /\ k < Len(z.pipeline) /\ z.pipeline[k + 1].header
           /\ g = WithBody(z.pipeline[k + 1]) /\ r = [z.pipeline EXCEPT ![k + 1] = g]
           /\ z \in Client
      BY <2>1, <3>7, <3>9, <3>12, <3>14, <3>16, <3>19, <3>20
    <3>22. /\ y \in Client /\ y.parser = "start" /\ y.current = After(r, k + 1)
           /\ Divided(r, k + 1) /\ Replaces(r, z.pipeline, k + 1, g) /\ g \in Element
           /\ IF SaysClose(g)
              THEN y.renewed /\ Keeps(y.pipeline, r) /\ Lists(y.asked, r, k + 1, Len(r))
              ELSE y.pipeline = r /\ y.asked = z.asked /\ y.renewed = z.renewed
      BY ONLY <3>15, <3>18, <3>21, MessageCompletes
    <3>23. Divided(y.pipeline, k + 1) /\ Len(y.pipeline) = Len(r)
      <4>1. CASE SaysClose(g)
        <5>1. PICK w : w = y.pipeline  OBVIOUS
        <5>2. w \in Seq(Element) /\ Keeps(w, r) /\ Divided(r, k + 1)
          BY <3>22, <4>1, <5>1 DEF Client
        <5>3. Divided(w, k + 1)  BY <5>2, KeptDivided
        <5>4. QED  BY <5>1, <5>2, <5>3 DEF Keeps
      <4>2. CASE ~SaysClose(g)  BY <3>22, <4>2
      <4>3. QED  BY <4>1, <4>2
    <3>24. k + 1 = Len(y.pipeline) => y.current = None
      BY <3>22, <3>23 DEF After
    <3>25. k + 1 \in Nat  OBVIOUS
    <3>26. y \in Client  BY <3>22
    <3>27. QED  BY <3>23, <3>24, <3>25, <3>26 DEF Restartable
  <2>6. QED  BY <2>4, <2>5
<1>7. QED  BY <1>5, <1>6


-----------------------------------------------------------------------------
(* The actions.                                                            *)

\* What a call leaves.
LEMMA CallLeaves ==
  ASSUME NEW s, NEW u, stranded \in BOOLEAN, Reads(s, u, server, stranded), Leaves(s, u)
  PROVE  Inv'
<1>1. /\ pipeline' = s.pipeline /\ current' = s.current /\ parser' = s.parser
      /\ asked' = s.asked
  BY DEF Leaves
<1>2. s.parser \in Parsers /\ s.renewed \in BOOLEAN  BY DEF Reads, Client
<1>3. CASE s.renewed
  <2>1. incoming' = <<>> /\ server' = "up" /\ stranded' = FALSE
    BY <1>3 DEF Leaves
  <2>2. Holds(s.pipeline, s.current, s.parser, s.asked, <<>>, "up", FALSE)
    BY <1>3 DEF Reads
  <2>3. Holds(pipeline, current, parser, asked, incoming, server, stranded)'
    BY <1>1, <2>1, <2>2
  <2>4. (stranded \in BOOLEAN)' /\ (parser \in Parsers)'  BY <1>1, <1>2, <2>1
  <2>5. QED  BY <2>3, <2>4 DEF Inv
<1>4. CASE ~s.renewed
  <2>1. incoming' = u /\ server' = server /\ stranded' = stranded
    BY <1>4 DEF Leaves
  <2>2. Holds(s.pipeline, s.current, s.parser, s.asked, u, server, stranded)
    BY <1>4 DEF Reads
  <2>3. Holds(pipeline, current, parser, asked, incoming, server, stranded)'
    BY <1>1, <2>1, <2>2
  <2>4. (stranded \in BOOLEAN)' /\ (parser \in Parsers)'  BY <1>1, <1>2, <2>1
  <2>5. QED  BY <2>3, <2>4 DEF Inv
<1>5. QED  BY <1>3, <1>4

\* The state of a pipeline that was just made.
LEMMA EmptyHolds ==
  Holds(<<>>, None, "start", <<>>, <<>>, "up", FALSE)
<1>1. PICK e, z : e = <<>> /\ z = 0  OBVIOUS
<1>2. e \in Seq(Element) /\ e \in Seq(Requests) /\ Len(e) = 0  BY <1>1, EmptySeq
<1>3. Distinct(e)  BY <1>2 DEF Distinct
<1>4. Divided(e, z)  BY <1>1, <1>2, <1>3 DEF Divided
<1>5. Keeps(e, e)  BY <1>2 DEF Keeps
<1>6. Lists(e, e, z, Len(e))  BY <1>1, <1>2 DEF Lists
<1>7. None = IF z = Len(e) THEN None ELSE e[z + 1].req  BY <1>1, <1>2
<1>8. Holds(e, None, "start", e, <<>>, "up", FALSE)
  BY <1>2, <1>4, <1>5, <1>6, <1>7, NewConnection
<1>9. QED  BY <1>1, <1>8

LEMMA InitInv ==
  ASSUME Init
  PROVE  Inv
<1>1. /\ pipeline = <<>> /\ current = None /\ parser = "start" /\ asked = <<>>
      /\ incoming = <<>> /\ server = "up" /\ stranded = FALSE
  BY DEF Init
<1>2. QED  BY <1>1, EmptyHolds DEF Inv, Parsers

LEMMA ExpireInv ==
  ASSUME Expire
  PROVE  Inv'
<1>1. /\ pipeline' = <<>> /\ current' = None /\ parser' = "start" /\ asked' = <<>>
      /\ incoming' = <<>> /\ server' = "up" /\ stranded' = FALSE
  BY DEF Expire
<1>2. QED  BY <1>1, EmptyHolds DEF Inv, Parsers

LEMMA RetryInv ==
  ASSUME Inv, Retry
  PROVE  Inv'
<1>1. PICK x : x = Reconnect(State) /\ Leaves(x, <<>>)  BY DEF Retry
<1>2. PICK y : y = State  OBVIOUS
<1>3. PICK k \in Nat : Divided(pipeline, k) /\ Turn(pipeline, k, current, stranded)
  BY Zenon DEF Inv, Holds
<1>4. k = Len(pipeline) => current = None  BY <1>3 DEF Turn
<1>5. State \in Client  BY StartsReading DEF Reads
<1>6. y.pipeline = pipeline /\ y.current = current  BY <1>2 DEF State
<1>7. Restartable(y)  BY <1>2, <1>3, <1>4, <1>5, <1>6 DEF Restartable
<1>8. Reads(x, <<>>, server, stranded)  BY <1>1, <1>2, <1>7, ReconnectReads
<1>9. stranded \in BOOLEAN  BY DEF Inv
<1>10. QED  BY <1>1, <1>8, <1>9, CallLeaves

LEMMA UpdateReadsInv ==
  ASSUME Inv, NEW n \in 0..Len(incoming), UpdateReads(n)
  PROVE  Inv'
<1>1. PICK s : s = Read(n) /\ Leaves(s, SubSeq(incoming, n + 1, Len(incoming)))
  BY DEF UpdateReads
<1>2. PICK u : u = SubSeq(incoming, n + 1, Len(incoming))  OBVIOUS
<1>3. Reads(s, Rest(incoming, n), server, stranded)  BY <1>1, PiecesRead
<1>4. Reads(s, u, server, stranded)  BY <1>2, <1>3 DEF Rest
<1>5. stranded \in BOOLEAN  BY DEF Inv
<1>6. Leaves(s, u)  BY <1>1, <1>2
<1>7. QED  BY <1>4, <1>5, <1>6, CallLeaves

LEMMA UpdateSeesEndInv ==
  ASSUME Inv, NEW n \in 0..Len(incoming), UpdateSeesEnd(n)
  PROVE  Inv'
<1>1. PICK s : s = Read(n) /\ ~s.renewed
               /\ \E t \in {Reconnect(ParsedEnd(s, n < Len(incoming)))} : Leaves(t, <<>>)
  BY DEF UpdateSeesEnd
<1>2. server = "fin"  BY DEF UpdateSeesEnd
<1>3. PICK early : early = (n < Len(incoming))  OBVIOUS
<1>4. PICK y : y = ParsedEnd(s, early)  OBVIOUS
<1>5. PICK t : t = Reconnect(y) /\ Leaves(t, <<>>)  BY <1>1, <1>3, <1>4
<1>6. PICK u : u = Rest(incoming, n)  OBVIOUS
<1>7. stranded \in BOOLEAN /\ early \in BOOLEAN  BY <1>3 DEF Inv
<1>8. Reads(s, u, "fin", stranded)  BY <1>1, <1>2, <1>6, PiecesRead
<1>9. early \/ u = <<>>
  <2>1. incoming \in Seq(Piece)  BY StartsReading
  <2>2. Len(incoming) \in Nat /\ u \in Seq(Piece) /\ Len(u) = Len(incoming) - n
    BY <1>6, <2>1, RestFacts, LenProperties
  <2>3. ~(n < Len(incoming)) => Len(u) = 0  BY <2>2
  <2>4. QED  BY <1>3, <2>2, <2>3, EmptySeq
<1>10. Restartable(y)
  BY ONLY <1>1, <1>4, <1>7, <1>8, <1>9, EndParsed
<1>11. Reads(t, <<>>, server, stranded)  BY <1>5, <1>10, ReconnectReads
<1>12. QED  BY <1>5, <1>7, <1>11, CallLeaves

\* What the connection does not change.
LEMMA UnchangedInv ==
  ASSUME Inv, UNCHANGED <<pipeline, current, parser, conn, stranded>>
  PROVE  Inv'
<1>1. /\ pipeline' = pipeline /\ current' = current /\ parser' = parser
      /\ asked' = asked /\ incoming' = incoming /\ server' = server
      /\ stranded' = stranded
  BY DEF conn
<1>2. QED  BY <1>1 DEF Inv


\* What Inv says, with its witnesses.
InvWith(k, off, ans) ==
  /\ k \in Nat /\ off \in 0..2 /\ ans \in Seq(Kinds)
  /\ Divided(pipeline, k) /\ Turn(pipeline, k, current, stranded)
  /\ Waiting(pipeline, k, asked, Len(ans))
  /\ ~stranded => Connected(pipeline, k, parser, off, ans, incoming, server)

LEMMA InvWitnesses ==
  ASSUME Inv
  PROVE  /\ stranded \in BOOLEAN /\ parser \in Parsers /\ incoming \in Seq(Piece)
         /\ parser = "crashed" => Spoils(pipeline)
         /\ \E k, off, ans : InvWith(k, off, ans)
BY Zenon DEF Inv, Holds, InvWith

LEMMA ServerClosesInv ==
  ASSUME Inv, ServerCloses
  PROVE  Inv'
<1>1. /\ server = "last" /\ server' = "fin" /\ pipeline' = pipeline /\ current' = current
      /\ parser' = parser /\ asked' = asked /\ incoming' = incoming /\ stranded' = stranded
  BY DEF ServerCloses, client
<1>2. PICK k, off, ans : InvWith(k, off, ans)  BY InvWitnesses
<1>3. ASSUME ~stranded
      PROVE  Connected(pipeline, k, parser, off, ans, incoming, "fin")
  <2>1. Connected(pipeline, k, parser, off, ans, incoming, "last")
    BY <1>1, <1>2, <1>3 DEF InvWith
  <2>2. Complete(off, ans, incoming)  BY <2>1 DEF Connected, Leaving
  <2>3. Leaving(off, ans, incoming, "fin")
    BY <2>1, <2>2 DEF Connected, Leaving
  <2>4. QED  BY <2>1, <2>3 DEF Connected
<1>4. InvWith(k, off, ans)'
  BY <1>1, <1>2, <1>3 DEF InvWith
<1>5. /\ stranded \in BOOLEAN /\ parser \in Parsers /\ incoming \in Seq(Piece)
      /\ parser = "crashed" => Spoils(pipeline)
  BY InvWitnesses
<1>6. /\ stranded' \in BOOLEAN /\ parser' \in Parsers /\ incoming' \in Seq(Piece)
      /\ parser' = "crashed" => Spoils(pipeline')
  BY <1>1, <1>5
<1>7. Holds(pipeline', current', parser', asked', incoming', server', stranded')
  BY <1>4, <1>6, Zenon DEF InvWith, Holds
<1>8. QED  BY <1>6, <1>7 DEF Inv

\* The first n of the pieces.
First(u, n) == SubSeq(u, 1, n)

LEMMA FirstFacts ==
  ASSUME NEW u \in Seq(Piece), NEW n \in 0..Len(u), NEW t, t = First(u, n)
  PROVE  /\ t \in Seq(Piece) /\ Len(t) = n
         /\ \A j \in 1..n : t[j] = u[j]
<1>1. Len(u) \in Nat /\ n \in Nat /\ n <= Len(u)  BY LenProperties
<1>2. PICK m : m = 1  OBVIOUS
<1>3. m \in Int /\ n \in Int /\ \A i \in m..n : i \in 1..Len(u)  BY <1>1, <1>2
<1>4. \A i \in m..n : u[i] \in Piece  BY <1>3, ElementOfSeq
<1>5. /\ t \in Seq(Piece) /\ Len(t) = IF m <= n THEN n - m + 1 ELSE 0
      /\ \A i \in 1..n - m + 1 : t[i] = u[m + i - 1]
  <2>1. t = SubSeq(u, m, n)  BY <1>2 DEF First
  <2>2. QED  BY <1>3, <1>4, <2>1, SubSeqProperties
<1>6. Len(t) = n  BY <1>1, <1>2, <1>5
<1>7. ASSUME NEW j \in 1..n PROVE t[j] = u[j]
  <2>1. j \in 1..n - m + 1 /\ m + j - 1 = j  BY <1>1, <1>2
  <2>2. QED  BY <1>5, <2>1
<1>8. QED  BY <1>5, <1>6, <1>7

\* A connection that ends early.
LEMMA StreamCut ==
  ASSUME NEW p, NEW k, NEW off \in 0..2, NEW ans \in Seq(Kinds), NEW u, NEW sv, NEW how,
         Stream(p, k, off, ans, u), Leaving(off, ans, u, sv), sv \in {"up", "last"},
         how \in {"fin", "dead"}, NEW n \in 0..Len(u),
         how = "fin" => \A i \in n + 1..Len(u) : u[i].kind # "eof",
         NEW t, t = First(u, n)
  PROVE  Stream(p, k, off, ans, t) /\ Leaving(off, ans, t, how)
<1>1. /\ u \in Seq(Piece) /\ off + Len(u) <= 2 * Len(ans)
      /\ \A a \in 1..Len(ans), j \in 1..Len(u) :
           /\ off + j = 2 * a - 1 => u[j] = HeadOf(p[k + a].req, ans[a])
           /\ off + j = 2 * a => u[j] = BodyOf(p[k + a].req, ans[a])
  BY DEF Stream
<1>2. t \in Seq(Piece) /\ Len(t) = n /\ \A j \in 1..n : t[j] = u[j]
  BY <1>1, FirstFacts
<1>3. /\ Len(u) \in Nat /\ Len(ans) \in Nat /\ n \in Nat /\ n <= Len(u)
      /\ \A j \in 1..n : j \in 1..Len(u)
  BY <1>1, LenProperties
<1>4. Stream(p, k, off, ans, t)
  <2>1. off + Len(t) <= 2 * Len(ans)  BY <1>1, <1>2, <1>3
  <2>2. QED  BY <1>1, <1>2, <1>3, <2>1 DEF Stream
<1>5. Complete(off, ans, u)  BY DEF Leaving
<1>6. ASSUME NEW a \in 1..Len(ans), ans[a] # "keep"
      PROVE  /\ a = Len(ans) /\ how # "up"
             /\ how = "fin" /\ ans[a] = "eof" => Complete(off, ans, t)
  <2>1. a = Len(ans)  BY <1>6 DEF Leaving
  <2>2. how # "up"  OBVIOUS
  <2>3. ASSUME how = "fin", ans[a] = "eof" PROVE Complete(off, ans, t)
    <3>1. CASE n = Len(u)  BY <1>2, <1>5, <3>1 DEF Complete
    <3>2. CASE n # Len(u)
      <4>1. PICK l : l = Len(u)  OBVIOUS
      <4>2. l \in n + 1..Len(u) /\ l \in 1..Len(u)  BY <1>3, <3>2, <4>1
      <4>3. off + l = 2 * a  BY <1>5, <2>1, <4>1 DEF Complete
      <4>4. u[l] = BodyOf(p[k + a].req, ans[a])  BY <1>1, <4>2, <4>3
      <4>5. u[l].kind = "eof"  BY <2>3, <4>4 DEF BodyOf
      <4>6. QED  BY <2>3, <4>2, <4>5
    <3>3. QED  BY <3>1, <3>2
  <2>4. QED  BY <2>1, <2>2, <2>3
<1>7. how \notin {"up", "last"}  OBVIOUS
<1>8. QED  BY <1>4, <1>6, <1>7 DEF Leaving

LEMMA ServerDropsInv ==
  ASSUME Inv, NEW n \in 0..Len(incoming), NEW how \in {"fin", "dead"}, ServerDrops(n, how)
  PROVE  Inv'
<1>1. /\ server \in {"up", "last"} /\ server' = how /\ pipeline' = pipeline
      /\ current' = current /\ parser' = parser /\ asked' = asked /\ stranded' = stranded
      /\ incoming' = First(incoming, n)
      /\ how = "fin" => \A i \in n + 1..Len(incoming) : incoming[i].kind # "eof"
  BY DEF ServerDrops, client, First
<1>2. PICK k, off, ans : InvWith(k, off, ans)  BY InvWitnesses
<1>3. /\ stranded \in BOOLEAN /\ parser \in Parsers /\ incoming \in Seq(Piece)
      /\ parser = "crashed" => Spoils(pipeline)
  BY InvWitnesses
<1>4. PICK t : t = First(incoming, n)  OBVIOUS
<1>5. t \in Seq(Piece)  BY <1>3, <1>4, FirstFacts
<1>6. off \in 0..2 /\ ans \in Seq(Kinds)  BY <1>2 DEF InvWith
<1>7. ASSUME ~stranded
      PROVE  Connected(pipeline, k, parser, off, ans, t, how)
  <2>1. Connected(pipeline, k, parser, off, ans, incoming, server)
    BY <1>2, <1>7 DEF InvWith
  <2>2. PICK p, u, sv : p = pipeline /\ u = incoming /\ sv = server  OBVIOUS
  <2>3. /\ Stream(p, k, off, ans, u) /\ Leaving(off, ans, u, sv) /\ sv \in {"up", "last"}
        /\ n \in 0..Len(u)
        /\ how = "fin" => \A i \in n + 1..Len(u) : u[i].kind # "eof"
        /\ t = First(u, n)
    BY <1>1, <1>4, <2>1, <2>2 DEF Connected
  <2>4. Stream(p, k, off, ans, t) /\ Leaving(off, ans, t, how)
    BY ONLY <1>6, <2>3, how \in {"fin", "dead"}, StreamCut
  <2>5. QED  BY <2>1, <2>2, <2>4 DEF Connected
<1>8. InvWith(k, off, ans)'
  BY <1>1, <1>2, <1>4, <1>7 DEF InvWith
<1>9. /\ stranded' \in BOOLEAN /\ parser' \in Parsers /\ incoming' \in Seq(Piece)
      /\ parser' = "crashed" => Spoils(pipeline')
  BY <1>1, <1>3, <1>4, <1>5
<1>10. Holds(pipeline', current', parser', asked', incoming', server', stranded')
  BY <1>8, <1>9, Zenon DEF InvWith, Holds
<1>11. QED  BY <1>9, <1>10 DEF Inv


\* One more answer, of two pieces.
LEMMA StreamAnswer ==
  ASSUME NEW p, NEW k \in Nat, NEW off \in 0..2, NEW ans \in Seq(Kinds), NEW u,
         Stream(p, k, off, ans, u), Leaving(off, ans, u, "up"),
         NEW r \in Requests, NEW kind \in Kinds, r = p[k + Len(ans) + 1].req,
         NEW more, more = Append(ans, kind), NEW t, t = u \o Response(r, kind),
         NEW sv, sv = IF kind = "keep" THEN "up" ELSE "last"
  PROVE  Stream(p, k, off, more, t) /\ Leaving(off, more, t, sv)
<1>1. /\ u \in Seq(Piece) /\ off + Len(u) <= 2 * Len(ans)
      /\ \A a \in 1..Len(ans), j \in 1..Len(u) :
           /\ off + j = 2 * a - 1 => u[j] = HeadOf(p[k + a].req, ans[a])
           /\ off + j = 2 * a => u[j] = BodyOf(p[k + a].req, ans[a])
  BY DEF Stream
<1>2. PICK m : m = Len(ans)  OBVIOUS
<1>3. PICK l : l = Len(u)  OBVIOUS
<1>4. m \in Nat /\ l \in Nat  BY <1>1, <1>2, <1>3, LenProperties
<1>5. off + l = 2 * m
  <2>1. Complete(off, ans, u)  BY DEF Leaving
  <2>2. QED  BY <1>2, <1>3, <2>1 DEF Complete
<1>6. /\ more \in Seq(Kinds) /\ Len(more) = m + 1 /\ more[m + 1] = kind
      /\ \A a \in 1..m : more[a] = ans[a]
  BY <1>2, AppendProperties
<1>7. PICK w : w = Response(r, kind)  OBVIOUS
<1>8. /\ w \in Seq(Piece) /\ Len(w) = 2 /\ w[1] = HeadOf(r, kind) /\ w[2] = BodyOf(r, kind)
  BY <1>7, ResponseFacts
<1>9. /\ t \in Seq(Piece) /\ Len(t) = Len(u) + Len(w)
      /\ \A j \in 1..Len(u) + Len(w) : t[j] = IF j <= Len(u) THEN u[j] ELSE w[j - Len(u)]
  <2>1. t = u \o w  BY <1>7
  <2>2. u \in Seq(Piece) /\ w \in Seq(Piece)  BY <1>1, <1>8
  <2>3. PICK v : v = u \o w  OBVIOUS
  <2>4. /\ v \in Seq(Piece) /\ Len(v) = Len(u) + Len(w)
        /\ \A j \in 1..Len(u) + Len(w) : v[j] = IF j <= Len(u) THEN u[j] ELSE w[j - Len(u)]
    BY ONLY <2>2, <2>3, ConcatProperties
  <2>5. QED  BY <2>1, <2>3, <2>4
<1>10. /\ Len(t) = l + 2 /\ \A j \in 1..l : t[j] = u[j]
       /\ t[l + 1] = HeadOf(r, kind) /\ t[l + 2] = BodyOf(r, kind)
  <2>1. Len(t) = l + 2  BY <1>3, <1>8, <1>9
  <2>2. \A j \in 1..l + 2 : t[j] = IF j <= l THEN u[j] ELSE w[j - l]
    BY <1>3, <1>8, <1>9
  <2>3. \A j \in 1..l : t[j] = u[j]
    <3>1. \A j \in 1..l : j \in 1..l + 2 /\ j <= l  BY <1>4
    <3>2. QED  BY <2>2, <3>1
  <2>4. l + 1 \in 1..l + 2 /\ l + 2 \in 1..l + 2 /\ ~(l + 1 <= l) /\ ~(l + 2 <= l)
        /\ (l + 1) - l = 1 /\ (l + 2) - l = 2
    BY <1>4
  <2>5. t[l + 1] = w[1] /\ t[l + 2] = w[2]  BY <2>2, <2>4
  <2>6. QED  BY <1>8, <2>1, <2>3, <2>5
<1>11. \A a : a = m + 1 => more[a] = kind /\ p[k + a].req = r
  <2>1. k + (m + 1) = k + Len(ans) + 1  BY <1>2, <1>4
  <2>2. p[k + (m + 1)].req = r  BY <2>1
  <2>3. QED  BY <1>6, <2>2
<1>12. ASSUME NEW a \in 1..Len(more), NEW j \in 1..Len(t)
       PROVE  /\ off + j = 2 * a - 1 => t[j] = HeadOf(p[k + a].req, more[a])
              /\ off + j = 2 * a => t[j] = BodyOf(p[k + a].req, more[a])
  <2>1. a \in 1..m + 1 /\ j \in 1..l + 2  BY <1>6, <1>10
  <2>2. CASE j <= l
    <3>1. j \in 1..l /\ j \in 1..Len(u)  BY <1>3, <2>1, <2>2
    <3>2. CASE a <= m
      <4>1. a \in 1..m /\ a \in 1..Len(ans)  BY <1>2, <2>1, <3>2
      <4>2. QED  BY <1>1, <1>6, <1>10, <3>1, <4>1
    <3>3. CASE ~(a <= m)
      <4>1. a = m + 1  BY <1>4, <2>1, <3>3
      <4>2. off + j # 2 * a - 1 /\ off + j # 2 * a
        BY <1>4, <1>5, <2>2, <4>1
      <4>3. QED  BY <4>2
    <3>4. QED  BY <3>2, <3>3
  <2>3. CASE j = l + 1
    <3>1. off + j # 2 * a /\ (off + j = 2 * a - 1 => a = m + 1)
      BY ONLY <1>4, <1>5, <2>1, <2>3, off \in 0..2
    <3>2. t[j] = HeadOf(r, kind)  BY <1>10, <2>3
    <3>3. QED  BY <1>11, <3>1, <3>2
  <2>4. CASE j = l + 2
    <3>1. off + j # 2 * a - 1 /\ (off + j = 2 * a => a = m + 1)
      BY ONLY <1>4, <1>5, <2>1, <2>4, off \in 0..2
    <3>2. t[j] = BodyOf(r, kind)  BY <1>10, <2>4
    <3>3. QED  BY <1>11, <3>1, <3>2
  <2>5. QED  BY <1>4, <2>1, <2>2, <2>3, <2>4
<1>13. off + Len(t) = 2 * Len(more)  BY <1>4, <1>5, <1>6, <1>10
<1>14. Stream(p, k, off, more, t)
  <2>1. off + Len(t) <= 2 * Len(more)  BY <1>4, <1>6, <1>13
  <2>2. QED  BY <1>9, <1>12, <2>1 DEF Stream
<1>15. Complete(off, more, t)  BY <1>13 DEF Complete
<1>16. ASSUME NEW a \in 1..Len(more), more[a] # "keep"
       PROVE  a = Len(more) /\ sv # "up"
  <2>1. \A b \in 1..m : ans[b] = "keep"  BY <1>2 DEF Leaving
  <2>2. a \notin 1..m  BY <1>6, <1>16, <2>1
  <2>3. a = m + 1  BY <1>4, <1>6, <2>2
  <2>4. QED  BY <1>6, <1>16, <2>3
<1>17. QED  BY <1>14, <1>15, <1>16 DEF Leaving

LEMMA WaitingTail ==
  ASSUME NEW p, NEW k \in Nat, NEW ask, NEW m \in Nat, Waiting(p, k, ask, m), ask # <<>>,
         NEW rest, rest = Tail(ask)
  PROVE  /\ Waiting(p, k, rest, m + 1) /\ Head(ask) = p[k + m + 1].req
         /\ Head(ask) \in Requests
<1>1. /\ ask \in Seq(Requests) /\ Len(p) = k + m + Len(ask)
      /\ \A j \in 1..Len(ask) : ask[j] = p[k + m + j].req
  BY DEF Waiting
<1>2. Len(ask) \in Nat /\ Len(ask) # 0  BY <1>1, EmptySeq, LenProperties
<1>3. /\ rest \in Seq(Requests) /\ Len(rest) = Len(ask) - 1
      /\ \A j \in 1..Len(rest) : rest[j] = ask[j + 1]
      /\ Head(ask) \in Requests /\ Head(ask) = ask[1]
  BY <1>1, HeadTailProperties
<1>4. Len(p) = k + (m + 1) + Len(rest)  BY <1>1, <1>2, <1>3
<1>5. ASSUME NEW j \in 1..Len(rest) PROVE rest[j] = p[k + (m + 1) + j].req
  <2>1. j + 1 \in 1..Len(ask) /\ k + m + (j + 1) = k + (m + 1) + j  BY <1>2, <1>3
  <2>2. QED  BY <1>1, <1>3, <2>1
<1>6. 1 \in 1..Len(ask)  BY <1>2
<1>7. Head(ask) = p[k + m + 1].req  BY <1>1, <1>3, <1>6
<1>8. QED  BY <1>3, <1>4, <1>5, <1>7 DEF Waiting

LEMMA ServerAnswersInv ==
  ASSUME Inv, NEW kind \in Kinds, ServerAnswers(kind)
  PROVE  Inv'
<1>1. /\ server = "up" /\ asked # <<>> /\ asked' = Tail(asked)
      /\ incoming' = incoming \o Response(Head(asked), kind)
      /\ server' = IF kind = "keep" THEN "up" ELSE "last"
      /\ pipeline' = pipeline /\ current' = current /\ parser' = parser
      /\ stranded' = stranded
  BY DEF ServerAnswers, client
<1>2. PICK k, off, ans : InvWith(k, off, ans)  BY InvWitnesses
<1>3. /\ stranded \in BOOLEAN /\ parser \in Parsers /\ incoming \in Seq(Piece)
      /\ parser = "crashed" => Spoils(pipeline)
  BY InvWitnesses
<1>4. /\ k \in Nat /\ off \in 0..2 /\ ans \in Seq(Kinds) /\ Divided(pipeline, k)
      /\ Waiting(pipeline, k, asked, Len(ans)) /\ Len(ans) \in Nat
  BY <1>2, LenProperties DEF InvWith
<1>5. PICK rest, r : rest = Tail(asked) /\ r = Head(asked)  OBVIOUS
<1>6. /\ Waiting(pipeline, k, rest, Len(ans) + 1) /\ r = pipeline[k + Len(ans) + 1].req
      /\ r \in Requests
  BY <1>1, <1>4, <1>5, WaitingTail
<1>7. PICK more : more = Append(ans, kind)  OBVIOUS
<1>8. /\ more \in Seq(Kinds) /\ Len(more) = Len(ans) + 1
      /\ \A a \in 1..Len(ans) : more[a] = ans[a]
  BY <1>4, <1>7, AppendProperties
<1>9. PICK t : t = incoming \o Response(r, kind)  OBVIOUS
<1>10. t \in Seq(Piece)  BY <1>3, <1>6, <1>9, ResponseFacts, ConcatProperties
<1>11. PICK sv : sv = IF kind = "keep" THEN "up" ELSE "last"  OBVIOUS
<1>12. ASSUME ~stranded
       PROVE  Connected(pipeline, k, parser, off, more, t, sv)
  <2>1. Connected(pipeline, k, parser, off, ans, incoming, "up")
    BY <1>1, <1>2, <1>12 DEF InvWith
  <2>2. Stream(pipeline, k, off, more, t) /\ Leaving(off, more, t, sv)
    <3>1. Stream(pipeline, k, off, ans, incoming) /\ Leaving(off, ans, incoming, "up")
      BY <2>1 DEF Connected
    <3>2. PICK p, u : p = pipeline /\ u = incoming  OBVIOUS
    <3>3. /\ Stream(p, k, off, ans, u) /\ Leaving(off, ans, u, "up")
          /\ r = p[k + Len(ans) + 1].req /\ t = u \o Response(r, kind)
      BY <1>6, <1>9, <3>1, <3>2
    <3>4. Stream(p, k, off, more, t) /\ Leaving(off, more, t, sv)
      <4>1. k \in Nat /\ off \in 0..2 /\ ans \in Seq(Kinds) /\ r \in Requests
        BY <1>4, <1>6
      <4>2. QED  BY ONLY <1>7, <1>11, <3>3, <4>1, kind \in Kinds, StreamAnswer
    <3>5. QED  BY <3>2, <3>4
  <2>3. off > 0 => more[1] = ans[1] /\ ans # <<>> /\ more # <<>>
    <3>1. SUFFICES ASSUME off > 0 PROVE more[1] = ans[1] /\ ans # <<>> /\ more # <<>>
      OBVIOUS
    <3>2. ans # <<>>  BY <2>1, <3>1 DEF Connected, Stage
    <3>3. Len(ans) # 0  BY <1>4, <3>2, EmptySeq
    <3>4. 1 \in 1..Len(ans) /\ Len(more) # 0  BY <1>4, <1>8, <3>3
    <3>5. more # <<>>  BY <1>8, <3>4, EmptySeq
    <3>6. QED  BY <1>8, <3>2, <3>4, <3>5
  <2>4. off = 2 => off > 0  OBVIOUS
  <2>5. Stage(parser, off, more)  BY <2>1, <2>3, <2>4 DEF Connected, Stage
  <2>6. k < Len(pipeline) => Begun(pipeline[k + 1], off, more)
    BY <2>1, <2>3, <2>4 DEF Connected, Begun
  <2>7. QED  BY <2>2, <2>5, <2>6 DEF Connected
<1>13. InvWith(k, off, more)'
  BY <1>1, <1>2, <1>5, <1>6, <1>8, <1>9, <1>11, <1>12 DEF InvWith
<1>14. /\ stranded' \in BOOLEAN /\ parser' \in Parsers /\ incoming' \in Seq(Piece)
       /\ parser' = "crashed" => Spoils(pipeline')
  BY <1>1, <1>3, <1>5, <1>9, <1>10
<1>15. Holds(pipeline', current', parser', asked', incoming', server', stranded')
  BY <1>13, <1>14, Zenon DEF InvWith, Holds
<1>16. QED  BY <1>14, <1>15 DEF Inv


\* Another request behind the pipeline.
Extends(q, p, e) ==
  /\ q \in Seq(Element) /\ Len(q) = Len(p) + 1 /\ q[Len(p) + 1] = e
  /\ \A i \in 1..Len(p) : q[i] = p[i]

LEMMA ElementAdded ==
  ASSUME NEW p \in Seq(Element), NEW e \in Element, NEW q, q = Append(p, e)
  PROVE  Extends(q, p, e)
BY AppendProperties DEF Extends

LEMMA ExtendedDivided ==
  ASSUME NEW p, NEW k, Divided(p, k), NEW r \in Requests,
         \A i \in 1..Len(p) : p[i].req # r, NEW q, Extends(q, p, Fresh(r))
  PROVE  Divided(q, k)
<1>1. Len(p) \in Nat /\ k \in Nat /\ k <= Len(p) /\ Distinct(p)
  BY DividedFacts DEF Divided
<1>2. PICK n : n = Len(p) + 1  OBVIOUS
<1>3. /\ q \in Seq(Element) /\ Len(q) = n /\ q[n] = Fresh(r)
      /\ \A i \in 1..Len(p) : q[i] = p[i]
  BY <1>2 DEF Extends
<1>4. q[n].req = r /\ ~q[n].body  BY <1>3, FreshElement
<1>5. \A i \in 1..Len(q) : i = n \/ i \in 1..Len(p)  BY <1>1, <1>2, <1>3
<1>6. Distinct(q)
  <2>1. SUFFICES ASSUME NEW i \in 1..Len(q), NEW j \in 1..Len(q), q[i].req = q[j].req
                 PROVE  i = j
    BY DEF Distinct
  <2>2. CASE i = n /\ j = n  BY <2>2
  <2>3. CASE i = n /\ j \in 1..Len(p)  BY <1>3, <1>4, <2>1, <2>3
  <2>4. CASE i \in 1..Len(p) /\ j = n  BY <1>3, <1>4, <2>1, <2>4
  <2>5. CASE i \in 1..Len(p) /\ j \in 1..Len(p)
    <3>1. p[i].req = p[j].req  BY <1>3, <2>1, <2>5
    <3>2. QED  BY <1>1, <2>5, <3>1 DEF Distinct
  <2>6. QED  BY <1>5, <2>2, <2>3, <2>4, <2>5
<1>7. \A i \in 1..k : IsComplete(q[i]) /\ (q[i].spoiled \/ Whole(q[i]))
  <2>1. \A i \in 1..k : i \in 1..Len(p)  BY <1>1
  <2>2. QED  BY <1>3, <2>1 DEF Divided
<1>8. ~q[k + 1].body
  <2>1. CASE k = Len(p)  BY <1>2, <1>4, <2>1
  <2>2. CASE k < Len(p)
    <3>1. k + 1 \in 1..Len(p)  BY <1>1, <2>2
    <3>2. QED  BY <1>3, <2>2, <3>1 DEF Divided
  <2>3. QED  BY <1>1, <2>1, <2>2
<1>9. ASSUME NEW i \in k + 2..Len(q) PROVE q[i] = Fresh(q[i].req)
  <2>1. CASE i = n  BY <1>3, <1>4, <2>1
  <2>2. CASE i # n
    <3>1. i \in 1..Len(p) /\ i \in k + 2..Len(p)  BY <1>1, <1>2, <1>3, <2>2
    <3>2. QED  BY <1>3, <3>1 DEF Divided
  <2>3. QED  BY <2>1, <2>2
<1>10. k \in 0..Len(q)  BY <1>1, <1>2, <1>3
<1>11. QED  BY <1>3, <1>6, <1>7, <1>8, <1>9, <1>10 DEF Divided

LEMMA ExtendedWaiting ==
  ASSUME NEW p, NEW k \in Nat, NEW ask, NEW m \in Nat, Waiting(p, k, ask, m),
         NEW r \in Requests, NEW q, Extends(q, p, Fresh(r)), NEW more, more = Append(ask, r)
  PROVE  Waiting(q, k, more, m)
<1>1. /\ ask \in Seq(Requests) /\ Len(p) = k + m + Len(ask)
      /\ \A j \in 1..Len(ask) : ask[j] = p[k + m + j].req
  BY DEF Waiting
<1>2. PICK l : l = Len(ask)  OBVIOUS
<1>3. /\ more \in Seq(Requests) /\ Len(more) = l + 1 /\ more[l + 1] = r
      /\ \A j \in 1..l : more[j] = ask[j]
  BY <1>1, <1>2, AppendProperties
<1>4. l \in Nat /\ Len(p) = k + m + l  BY <1>1, <1>2, LenProperties
<1>5. /\ Len(q) = Len(p) + 1 /\ q[Len(p) + 1].req = r
      /\ \A i \in 1..Len(p) : q[i] = p[i]
  BY FreshElement DEF Extends
<1>6. ASSUME NEW j \in 1..Len(more) PROVE more[j] = q[k + m + j].req
  <2>1. CASE j = l + 1
    <3>1. k + m + j = Len(p) + 1  BY <1>4, <2>1
    <3>2. QED  BY <1>3, <1>5, <2>1, <3>1
  <2>2. CASE j # l + 1
    <3>1. j \in 1..l /\ j \in 1..Len(ask) /\ k + m + j \in 1..Len(p)
      BY <1>2, <1>3, <1>4, <2>2
    <3>2. QED  BY <1>1, <1>3, <1>5, <3>1
  <2>3. QED  BY <2>1, <2>2
<1>7. Len(q) = k + m + Len(more)  BY <1>3, <1>4, <1>5
<1>8. QED  BY <1>3, <1>6, <1>7 DEF Waiting

\* Whose turn it is when a request was added.
LEMMA ExtendedTurn ==
  ASSUME NEW p, NEW k, Divided(p, k), NEW cur, NEW str \in BOOLEAN, Turn(p, k, cur, str),
         NEW r \in Requests, NEW q, Extends(q, p, Fresh(r)),
         NEW next, next = IF p = <<>> THEN r ELSE cur,
         NEW nstr, nstr = (str \/ (p # <<>> /\ Outstanding(p) = <<>>))
  PROVE  /\ Turn(q, k, next, nstr)
         /\ ~nstr => ~str /\ (k = Len(p) => p = <<>>)
<1>1. Len(p) \in Nat /\ k \in Nat /\ k <= Len(p) /\ p \in Seq(Element)
  BY DividedFacts DEF Divided
<1>2. /\ Len(q) = Len(p) + 1 /\ q[Len(p) + 1].req = r
      /\ \A i \in 1..Len(p) : q[i] = p[i]
  BY FreshElement DEF Extends
<1>3. Outstanding(p) = <<>> <=> k = Len(p)  BY OutstandingFacts
<1>4. k < Len(q)  BY <1>1, <1>2
<1>5. p = <<>> <=> Len(p) = 0  BY <1>1, EmptySeq
<1>6. CASE p = <<>>
  <2>1. Len(p) = 0 /\ k = Len(p)  BY <1>1, <1>5, <1>6
  <2>2. ~str  BY <2>1 DEF Turn
  <2>3. nstr = FALSE /\ next = r  BY <1>6, <2>2
  <2>4. next = q[k + 1].req  BY <1>2, <2>1, <2>3
  <2>5. k # Len(q)  BY <1>1, <1>4
  <2>6. QED  BY <1>6, <2>2, <2>3, <2>4, <2>5 DEF Turn
<1>7. CASE p # <<>> /\ k = Len(p)
  <2>1. nstr = TRUE /\ next = cur  BY <1>3, <1>7
  <2>2. cur = None  BY <1>7 DEF Turn
  <2>3. QED  BY <1>4, <2>1, <2>2 DEF Turn
<1>8. CASE p # <<>> /\ k # Len(p)
  <2>1. nstr = str /\ next = cur  BY <1>3, <1>8
  <2>2. k + 1 \in 1..Len(p) /\ k # Len(q)  BY <1>1, <1>2, <1>8
  <2>3. q[k + 1] = p[k + 1]  BY <1>2, <2>2
  <2>4. QED  BY <1>4, <1>8, <2>1, <2>2, <2>3 DEF Turn
<1>9. QED  BY <1>6, <1>7, <1>8

LEMMA ExtendedConnected ==
  ASSUME NEW p, NEW k, Divided(p, k), NEW ask, NEW off \in 0..2, NEW ans \in Seq(Kinds),
         Waiting(p, k, ask, Len(ans)), NEW ps, NEW u, NEW sv,
         Connected(p, k, ps, off, ans, u, sv),
         NEW r \in Requests, NEW q, Extends(q, p, Fresh(r))
  PROVE  Connected(q, k, ps, off, ans, u, sv)
<1>1. Len(p) \in Nat /\ k \in Nat /\ k <= Len(p)  BY DividedFacts
<1>2. /\ Len(q) = Len(p) + 1 /\ q[Len(p) + 1] = Fresh(r)
      /\ \A i \in 1..Len(p) : q[i] = p[i]
  BY DEF Extends
<1>3. PICK m, l : m = Len(ans) /\ l = Len(ask)  OBVIOUS
<1>4. m \in Nat /\ l \in Nat /\ Len(p) = k + m + l
  BY <1>3, LenProperties DEF Waiting
<1>5. /\ Stage(ps, off, ans)
      /\ k < Len(p) => Begun(p[k + 1], off, ans)
      /\ Stream(p, k, off, ans, u) /\ Leaving(off, ans, u, sv)
  BY DEF Connected
<1>6. Begun(q[k + 1], off, ans)
  <2>1. CASE k < Len(p)
    <3>1. k + 1 \in 1..Len(p)  BY <1>1, <2>1
    <3>2. QED  BY <1>2, <1>5, <2>1, <3>1
  <2>2. CASE k = Len(p)
    <3>1. m = 0  BY <1>1, <1>4, <2>2
    <3>2. ans = <<>>  BY <1>3, <3>1, EmptySeq
    <3>3. ~(off > 0)  BY <1>5, <3>2 DEF Stage
    <3>4. off = 0  BY <3>3
    <3>5. PICK e : e = Fresh(r)  OBVIOUS
    <3>6. e.got = <<>> /\ Len(<<>>) = 0  BY <3>5, FreshElement, EmptySeq
    <3>7. Begun(e, 0, ans)  BY <3>6 DEF Begun
    <3>8. QED  BY <1>2, <2>2, <3>4, <3>5, <3>7
  <2>3. QED  BY <1>1, <2>1, <2>2
<1>7. Stream(q, k, off, ans, u)
  <2>1. \A a \in 1..Len(ans) : k + a \in 1..Len(p)  BY <1>1, <1>3, <1>4
  <2>2. \A a \in 1..Len(ans) : q[k + a] = p[k + a]  BY <1>2, <2>1
  <2>3. QED  BY <1>5, <2>2 DEF Stream
<1>8. QED  BY <1>5, <1>6, <1>7 DEF Connected

LEMMA SendRequestInv ==
  ASSUME Inv, NEW r \in Requests, SendRequest(r), "repeat" \notin Faults
  PROVE  Inv'
<1>1. /\ parser # "crashed" /\ Position(pipeline, r) = 0
      /\ current' = IF pipeline = <<>> THEN r ELSE current
      /\ pipeline' = Append(pipeline, Fresh(r)) /\ asked' = Append(asked, r)
      /\ stranded' = (stranded \/ (pipeline # <<>> /\ Outstanding(pipeline) = <<>>))
      /\ parser' = parser /\ incoming' = incoming /\ server' = server
  BY DEF SendRequest, Running
<1>2. PICK k, off, ans : InvWith(k, off, ans)  BY InvWitnesses
<1>3. stranded \in BOOLEAN /\ parser \in Parsers /\ incoming \in Seq(Piece)
  BY InvWitnesses
<1>4. /\ k \in Nat /\ off \in 0..2 /\ ans \in Seq(Kinds) /\ Divided(pipeline, k)
      /\ Turn(pipeline, k, current, stranded)
      /\ Waiting(pipeline, k, asked, Len(ans)) /\ Len(ans) \in Nat
  BY <1>2, LenProperties DEF InvWith
<1>5. \A i \in 1..Len(pipeline) : pipeline[i].req # r
  <2>1. PICK p : p = pipeline  OBVIOUS
  <2>2. Len(p) \in Nat /\ Distinct(p) /\ Position(p, r) = 0
    BY <1>1, <1>4, <2>1, DividedFacts DEF Divided
  <2>3. ~(Position(p, r) \in 1..Len(p))  BY <2>2
  <2>4. \A i \in 1..Len(p) : p[i].req # r
    BY <2>2, <2>3, PositionFacts
  <2>5. QED  BY <2>1, <2>4
<1>6. PICK q, more, next, nstr :
        /\ q = Append(pipeline, Fresh(r)) /\ more = Append(asked, r)
        /\ next = IF pipeline = <<>> THEN r ELSE current
        /\ nstr = (stranded \/ (pipeline # <<>> /\ Outstanding(pipeline) = <<>>))
  OBVIOUS
<1>7. Extends(q, pipeline, Fresh(r))
  BY <1>4, <1>6, FreshElement, ElementAdded DEF Divided
<1>8. Divided(q, k)  BY <1>4, <1>5, <1>7, ExtendedDivided
<1>9. Waiting(q, k, more, Len(ans))  BY <1>4, <1>6, <1>7, ExtendedWaiting
<1>10. Turn(q, k, next, nstr) /\ (~nstr => ~stranded)
  BY <1>3, <1>4, <1>6, <1>7, ExtendedTurn
<1>11. ASSUME ~nstr PROVE Connected(q, k, parser, off, ans, incoming, server)
  <2>1. Connected(pipeline, k, parser, off, ans, incoming, server)
    BY <1>2, <1>10, <1>11 DEF InvWith
  <2>2. QED  BY <1>4, <1>7, <2>1, ExtendedConnected
<1>12. Holds(q, next, parser, more, incoming, server, nstr)
  BY <1>1, <1>3, <1>4, <1>8, <1>9, <1>10, <1>11, Zenon DEF Holds
<1>13. nstr \in BOOLEAN  BY <1>3, <1>6
<1>14. QED  BY <1>1, <1>3, <1>6, <1>12, <1>13 DEF Inv


\* GetResponse() takes out element i.
Without(q, p, i) ==
  /\ q \in Seq(Element) /\ Len(q) = Len(p) - 1
  /\ \A j \in 1..i - 1 : q[j] = p[j]
  /\ \A j \in i..Len(p) - 1 : q[j] = p[j + 1]

LEMMA ElementRemoved ==
  ASSUME NEW p \in Seq(Element), NEW i \in 1..Len(p), NEW q, q = RemoveAt(p, i)
  PROVE  Without(q, p, i)
<1>1. Len(p) \in Nat /\ i \in Nat /\ 1 <= i /\ i <= Len(p)  BY LenProperties
<1>2. PICK l, b, c, z : l = Len(p) /\ b = i - 1 /\ c = i + 1 /\ z = 1  OBVIOUS
<1>3. l \in Int /\ b \in Int /\ c \in Int /\ z \in Int  BY <1>1, <1>2
<1>4. /\ \A j \in z..b : j \in 1..Len(p)
      /\ \A j \in c..l : j \in 1..Len(p)
  BY <1>1, <1>2
<1>5. /\ \A j \in z..b : p[j] \in Element
      /\ \A j \in c..l : p[j] \in Element
  BY <1>4, ElementOfSeq
<1>6. PICK u, v : u = SubSeq(p, z, b) /\ v = SubSeq(p, c, l)  OBVIOUS
<1>7. /\ u \in Seq(Element) /\ Len(u) = IF z <= b THEN b - z + 1 ELSE 0
      /\ \A j \in 1..b - z + 1 : u[j] = p[z + j - 1]
  BY <1>3, <1>5, <1>6, SubSeqProperties
<1>8. /\ v \in Seq(Element) /\ Len(v) = IF c <= l THEN l - c + 1 ELSE 0
      /\ \A j \in 1..l - c + 1 : v[j] = p[c + j - 1]
  BY <1>3, <1>5, <1>6, SubSeqProperties
<1>9. q = u \o v  BY <1>2, <1>6 DEF RemoveAt
<1>10. /\ q \in Seq(Element) /\ Len(q) = Len(u) + Len(v)
       /\ \A j \in 1..Len(u) + Len(v) : q[j] = IF j <= Len(u) THEN u[j] ELSE v[j - Len(u)]
  <2>1. u \in Seq(Element) /\ v \in Seq(Element)  BY <1>7, <1>8
  <2>2. QED  BY ONLY <1>9, <2>1, ConcatProperties
<1>11. Len(u) = i - 1 /\ Len(v) = Len(p) - i
  BY <1>1, <1>2, <1>7, <1>8
<1>12. Len(q) = Len(p) - 1  BY <1>1, <1>10, <1>11
<1>13. ASSUME NEW j \in 1..i - 1 PROVE q[j] = p[j]
  <2>1. /\ j \in 1..Len(u) + Len(v) /\ j <= Len(u) /\ j \in 1..b - z + 1
        /\ z + j - 1 = j
    BY <1>1, <1>2, <1>11
  <2>2. q[j] = u[j]  BY <1>10, <2>1
  <2>3. u[j] = p[j]  BY <1>7, <2>1
  <2>4. QED  BY <2>2, <2>3
<1>14. ASSUME NEW j \in i..Len(p) - 1 PROVE q[j] = p[j + 1]
  <2>1. PICK d : d = j - Len(u)  OBVIOUS
  <2>2. /\ j \in 1..Len(u) + Len(v) /\ ~(j <= Len(u)) /\ d \in 1..l - c + 1
        /\ c + d - 1 = j + 1
    BY <1>1, <1>2, <1>11, <2>1
  <2>3. q[j] = v[d]  BY <1>10, <2>1, <2>2
  <2>4. v[d] = p[j + 1]  BY <1>8, <2>2
  <2>5. QED  BY <2>3, <2>4
<1>15. QED  BY <1>10, <1>12, <1>13, <1>14 DEF Without

LEMMA RemovedDivided ==
  ASSUME NEW p, NEW k, Divided(p, k), NEW i \in 1..k, NEW q, Without(q, p, i),
         NEW b, b = k - 1
  PROVE  /\ Divided(q, b) /\ b \in Nat
         /\ \A j \in k..Len(p) - 1 : q[j] = p[j + 1]
<1>1. Len(p) \in Nat /\ k \in Nat /\ k <= Len(p) /\ Distinct(p) /\ b \in Nat /\ i \in Nat
      /\ 1 <= i /\ i <= k
  BY DividedFacts DEF Divided
<1>2. /\ q \in Seq(Element) /\ Len(q) = Len(p) - 1
      /\ \A j \in 1..i - 1 : q[j] = p[j]
      /\ \A j \in i..Len(p) - 1 : q[j] = p[j + 1]
  BY DEF Without
<1>3. ASSUME NEW j \in 1..Len(q)
      PROVE  \E n \in 1..Len(p) :
               /\ q[j] = p[n] /\ n = IF j < i THEN j ELSE j + 1
  <2>1. CASE j < i
    <3>1. j \in 1..i - 1 /\ j \in 1..Len(p)  BY <1>1, <1>2, <2>1
    <3>2. QED  BY <1>2, <2>1, <3>1
  <2>2. CASE ~(j < i)
    <3>1. j \in i..Len(p) - 1 /\ j + 1 \in 1..Len(p)  BY <1>1, <1>2, <2>2
    <3>2. QED  BY <1>2, <2>2, <3>1
  <2>3. QED  BY <2>1, <2>2
<1>4. Distinct(q)
  <2>1. SUFFICES ASSUME NEW j \in 1..Len(q), NEW l \in 1..Len(q), q[j].req = q[l].req
                 PROVE  j = l
    BY DEF Distinct
  <2>2. PICK n \in 1..Len(p) : q[j] = p[n] /\ n = IF j < i THEN j ELSE j + 1  BY <1>3
  <2>3. PICK m \in 1..Len(p) : q[l] = p[m] /\ m = IF l < i THEN l ELSE l + 1  BY <1>3
  <2>4. p[n].req = p[m].req  BY <2>1, <2>2, <2>3
  <2>5. n = m  BY <1>1, <2>4 DEF Distinct
  <2>6. j \in Nat /\ l \in Nat  BY <1>1, <1>2
  <2>7. QED  BY ONLY <1>1, <2>2, <2>3, <2>5, <2>6
<1>5. ASSUME NEW j \in 1..b PROVE IsComplete(q[j]) /\ (q[j].spoiled \/ Whole(q[j]))
  <2>1. j \in 1..Len(q)  BY <1>1, <1>2
  <2>2. PICK n \in 1..Len(p) : q[j] = p[n] /\ n = IF j < i THEN j ELSE j + 1
    BY <1>3, <2>1
  <2>3. n \in 1..k  BY <1>1, <2>2
  <2>4. IsComplete(p[n]) /\ (p[n].spoiled \/ Whole(p[n]))  BY <2>3 DEF Divided
  <2>5. QED  BY <2>2, <2>4
<1>6. \A j \in k..Len(p) - 1 : q[j] = p[j + 1]
  <2>1. \A j \in k..Len(p) - 1 : j \in i..Len(p) - 1  BY <1>1
  <2>2. QED  BY <1>2, <2>1
<1>7. ASSUME b < Len(q) PROVE ~q[b + 1].body
  <2>1. b + 1 = k /\ k \in k..Len(p) - 1 /\ k < Len(p)  BY <1>1, <1>2, <1>7
  <2>2. q[k] = p[k + 1] /\ ~p[k + 1].body  BY <1>6, <2>1 DEF Divided
  <2>3. QED  BY <2>1, <2>2
<1>8. ASSUME NEW j \in b + 2..Len(q) PROVE q[j] = Fresh(q[j].req)
  <2>1. j \in k..Len(p) - 1 /\ j + 1 \in k + 2..Len(p)  BY <1>1, <1>2
  <2>2. q[j] = p[j + 1] /\ p[j + 1] = Fresh(p[j + 1].req)
    BY <1>6, <2>1 DEF Divided
  <2>3. QED  BY <2>2
<1>9. b \in 0..Len(q)  BY <1>1, <1>2
<1>10. QED  BY <1>1, <1>2, <1>4, <1>5, <1>6, <1>7, <1>8, <1>9 DEF Divided

\* The elements behind the complete ones move up by one.
LEMMA RemovedConnected ==
  ASSUME NEW p, NEW k \in Nat, NEW q, NEW b \in Nat, b + 1 = k, Len(p) \in Nat, k <= Len(p),
         Len(q) = Len(p) - 1, \A j \in k..Len(p) - 1 : q[j] = p[j + 1],
         NEW ask, NEW off \in 0..2, NEW ans \in Seq(Kinds), Waiting(p, k, ask, Len(ans)),
         NEW ps, NEW u, NEW sv, NEW cur, NEW str
  PROVE  /\ Waiting(q, b, ask, Len(ans))
         /\ Turn(p, k, cur, str) => Turn(q, b, cur, str)
         /\ Connected(p, k, ps, off, ans, u, sv) => Connected(q, b, ps, off, ans, u, sv)
<1>1. PICK m, l : m = Len(ans) /\ l = Len(ask)  OBVIOUS
<1>2. m \in Nat /\ l \in Nat /\ Len(p) = k + m + l
  BY <1>1, LenProperties DEF Waiting
<1>3. ASSUME NEW d \in Nat, d # 0, k + d <= Len(p) PROVE q[b + d] = p[k + d]
  <2>1. b + d \in k..Len(p) - 1 /\ (b + d) + 1 = k + d  BY <1>3
  <2>2. QED  BY <2>1
<1>4. Waiting(q, b, ask, Len(ans))
  <2>1. /\ ask \in Seq(Requests) /\ \A j \in 1..l : ask[j] = p[k + m + j].req
    BY <1>1 DEF Waiting
  <2>2. Len(q) = b + m + l  BY <1>2
  <2>3. ASSUME NEW j \in 1..l PROVE ask[j] = q[b + m + j].req
    <3>1. PICK d \in Nat : d = m + j  BY <1>2
    <3>2. d # 0 /\ k + d <= Len(p) /\ b + m + j = b + d /\ k + m + j = k + d
      BY <1>2, <3>1
    <3>3. q[b + d] = p[k + d]  BY <1>3, <3>2
    <3>4. QED  BY <2>1, <3>2, <3>3
  <2>4. QED  BY <1>1, <2>1, <2>2, <2>3 DEF Waiting
<1>5. b < Len(q) <=> k < Len(p)  OBVIOUS
<1>6. b = Len(q) <=> k = Len(p)  OBVIOUS
<1>7. k < Len(p) => q[b + 1] = p[k + 1]
  <2>1. 1 \in Nat /\ 1 # 0  OBVIOUS
  <2>2. k < Len(p) => k + 1 <= Len(p)  OBVIOUS
  <2>3. QED  BY <1>3, <2>1, <2>2
<1>8. ASSUME Turn(p, k, cur, str) PROVE Turn(q, b, cur, str)
  <2>1. k # Len(p) => k < Len(p)  OBVIOUS
  <2>2. QED  BY <1>5, <1>6, <1>7, <1>8, <2>1 DEF Turn
<1>9. ASSUME Connected(p, k, ps, off, ans, u, sv)
      PROVE  Connected(q, b, ps, off, ans, u, sv)
  <2>1. b < Len(q) => Begun(q[b + 1], off, ans)  BY <1>5, <1>7, <1>9 DEF Connected
  <2>2. Stream(q, b, off, ans, u)
    <3>1. \A a \in 1..Len(ans) : q[b + a] = p[k + a]
      <4>1. \A a \in 1..Len(ans) : a \in Nat /\ a # 0 /\ k + a <= Len(p)  BY <1>1, <1>2
      <4>2. QED  BY <1>3, <4>1
    <3>2. QED  BY <1>9, <3>1 DEF Connected, Stream
  <2>3. QED  BY <1>9, <2>1, <2>2 DEF Connected
<1>10. QED  BY <1>4, <1>8, <1>9


LEMMA GetResponseInv ==
  ASSUME Inv, NEW r, GetResponse(r)
  PROVE  Inv'
<1>1. PICK i : i = Position(pipeline, r)  OBVIOUS
<1>2. /\ parser # "crashed" /\ i # 0 /\ IsComplete(pipeline[i])
      /\ pipeline' = RemoveAt(pipeline, i)
      /\ current' = current /\ parser' = parser /\ asked' = asked
      /\ incoming' = incoming /\ server' = server /\ stranded' = stranded
  BY <1>1 DEF GetResponse, Running, conn
<1>3. PICK k, off, ans : InvWith(k, off, ans)  BY InvWitnesses
<1>4. stranded \in BOOLEAN /\ parser \in Parsers /\ incoming \in Seq(Piece)
  BY InvWitnesses
<1>5. /\ k \in Nat /\ off \in 0..2 /\ ans \in Seq(Kinds) /\ Divided(pipeline, k)
      /\ Turn(pipeline, k, current, stranded) /\ Waiting(pipeline, k, asked, Len(ans))
  BY <1>3 DEF InvWith
<1>6. PICK p : p = pipeline  OBVIOUS
<1>7. /\ Len(p) \in Nat /\ k <= Len(p) /\ Distinct(p) /\ p \in Seq(Element)
      /\ \A j \in 1..Len(p) : IsComplete(p[j]) <=> j <= k
  BY <1>5, <1>6, DividedFacts DEF Divided
<1>8. i \in 1..Len(p)
  <2>1. i = Position(p, r) /\ i # 0  BY <1>1, <1>2, <1>6
  <2>2. QED  BY ONLY <1>7, <2>1, PositionFacts
<1>9. i \in 1..k
  <2>1. i <= k  BY <1>2, <1>6, <1>7, <1>8
  <2>2. QED  BY <1>5, <1>8, <2>1
<1>10. PICK q : q = RemoveAt(p, i)  OBVIOUS
<1>11. Without(q, p, i)  BY <1>7, <1>8, <1>10, ElementRemoved
<1>12. PICK b : b = k - 1  OBVIOUS
<1>13. /\ Divided(q, b) /\ b \in Nat /\ \A j \in k..Len(p) - 1 : q[j] = p[j + 1]
  <2>1. Divided(p, k)  BY <1>5, <1>6
  <2>2. QED  BY <1>9, <1>11, <1>12, <2>1, RemovedDivided
<1>14. b + 1 = k /\ Len(q) = Len(p) - 1
  BY <1>5, <1>11, <1>12 DEF Without
<1>15. PICK cur, ps, ask, u, sv, str :
         /\ cur = current /\ ps = parser /\ ask = asked /\ u = incoming /\ sv = server
         /\ str = stranded
  OBVIOUS
<1>16. /\ Waiting(p, k, ask, Len(ans)) /\ Turn(p, k, cur, str)
       /\ ~str => Connected(p, k, ps, off, ans, u, sv)
  BY <1>3, <1>6, <1>15 DEF InvWith
<1>17. /\ k \in Nat /\ b \in Nat /\ b + 1 = k /\ Len(p) \in Nat /\ k <= Len(p)
       /\ Len(q) = Len(p) - 1 /\ off \in 0..2 /\ ans \in Seq(Kinds)
       /\ \A j \in k..Len(p) - 1 : q[j] = p[j + 1]
  BY <1>5, <1>7, <1>13, <1>14
<1>18. /\ Waiting(q, b, ask, Len(ans)) /\ Turn(q, b, cur, str)
       /\ ~str => Connected(q, b, ps, off, ans, u, sv)
  <2>1. /\ Waiting(q, b, ask, Len(ans))
        /\ Turn(p, k, cur, str) => Turn(q, b, cur, str)
        /\ Connected(p, k, ps, off, ans, u, sv) => Connected(q, b, ps, off, ans, u, sv)
    BY ONLY <1>16, <1>17, RemovedConnected
  <2>2. QED  BY <1>16, <2>1
<1>19. Holds(q, cur, ps, ask, u, sv, str)
  <2>1. u \in Seq(Piece) /\ ps # "crashed"  BY <1>2, <1>4, <1>15
  <2>2. QED  BY <1>5, <1>13, <1>18, <2>1, Zenon DEF Holds
<1>20. Holds(pipeline', current', parser', asked', incoming', server', stranded')
  BY <1>2, <1>6, <1>10, <1>15, <1>19
<1>21. QED  BY <1>2, <1>4, <1>20 DEF Inv

-----------------------------------------------------------------------------
(* The theorems.                                                           *)

LEMMA NextInv ==
  ASSUME Inv, [Next]_vars, "repeat" \notin Faults
  PROVE  Inv'
<1>1. ASSUME NEW r \in Requests, SendRequest(r) PROVE Inv'  BY <1>1, SendRequestInv
<1>2. ASSUME NEW r \in Requests, GetResponse(r) PROVE Inv'  BY <1>2, GetResponseInv
<1>3. ASSUME NEW n \in 0..Len(incoming), UpdateReads(n) PROVE Inv'
  BY <1>3, UpdateReadsInv
<1>4. ASSUME NEW n \in 0..Len(incoming), UpdateSeesEnd(n) PROVE Inv'
  BY <1>4, UpdateSeesEndInv
<1>5. CASE Retry  BY <1>5, RetryInv
<1>6. CASE Expire  BY <1>6, ExpireInv
<1>7. ASSUME NEW kind \in Kinds, ServerAnswers(kind) PROVE Inv'
  BY <1>7, ServerAnswersInv
<1>8. CASE ServerCloses  BY <1>8, ServerClosesInv
<1>9. ASSUME NEW n \in 0..Len(incoming), NEW how \in {"fin", "dead"}, ServerDrops(n, how)
      PROVE  Inv'
  BY <1>9, ServerDropsInv
<1>10. CASE UNCHANGED vars  BY <1>10, UnchangedInv DEF vars, client, conn
<1>11. QED
  BY <1>1, <1>2, <1>3, <1>4, <1>5, <1>6, <1>7, <1>8, <1>9, <1>10 DEF Next, Update

\* The pipeline is divided into what is complete, the current response and what
\* was not begun; the server has yet to answer the last of its requests, in
\* order; and unless a request was stranded, the pieces under way are the rest
\* of the answers on this connection (HTTPClient.cpp:198-240, 284-399).
THEOREM PipelineInvariant ==
  ASSUME "repeat" \notin Faults
  PROVE  Spec => []Inv
<1>1. Init => Inv  BY InitInv
<1>2. Inv /\ [Next]_vars => Inv'  BY NextInv
<1>3. QED  BY <1>1, <1>2, PTL DEF Spec

LEMMA InvIntegrity ==
  ASSUME Inv
  PROVE  ResponseIntegrity
<1>1. PICK k, off, ans : InvWith(k, off, ans)  BY InvWitnesses
<1>2. Divided(pipeline, k)  BY <1>1 DEF InvWith
<1>3. SUFFICES ASSUME NEW i \in DOMAIN pipeline, IsComplete(pipeline[i]), ~pipeline[i].spoiled
               PROVE  Whole(pipeline[i])
  BY DEF ResponseIntegrity
<1>4. pipeline \in Seq(Element)  BY <1>2 DEF Divided
<1>5. i \in 1..Len(pipeline)  BY <1>4, LenProperties
<1>6. i <= k /\ k \in Nat  BY <1>2, <1>3, <1>5, DividedFacts
<1>7. i \in 1..k  BY <1>5, <1>6
<1>8. QED  BY <1>2, <1>3, <1>7 DEF Divided

LEMMA InvSynchronized ==
  ASSUME Inv
  PROVE  Synchronized
<1>1. PICK k, off, ans : InvWith(k, off, ans)  BY InvWitnesses
<1>2. /\ stranded \in BOOLEAN /\ incoming \in Seq(Piece)
      /\ parser = "crashed" => Spoils(pipeline)
  BY InvWitnesses
<1>3. Divided(pipeline, k) /\ Waiting(pipeline, k, asked, Len(ans)) /\ off \in 0..2
      /\ ans \in Seq(Kinds)
  BY <1>1 DEF InvWith
<1>4. ASSUME ~stranded PROVE parser # "failed"
  <2>1. Stage(parser, off, ans)  BY <1>1, <1>4 DEF InvWith, Connected
  <2>2. CASE off = 0  BY <2>1, <2>2 DEF Stage
  <2>3. CASE off # 0
    <3>1. off > 0  BY <1>3, <2>3
    <3>2. parser = IF ans[1] = "eof" THEN "eof" ELSE "message"  BY <2>1, <3>1 DEF Stage
    <3>3. QED  BY <3>2
  <2>4. QED  BY <2>2, <2>3
<1>5. ASSUME ~stranded, incoming # <<>> PROVE Head(incoming).of = current
  <2>1. PICK p, ps, ask, u, sv :
          /\ p = pipeline /\ ps = parser /\ ask = asked /\ u = incoming /\ sv = server
    OBVIOUS
  <2>2. Connected(p, k, ps, off, ans, u, sv)
    BY <1>1, <1>5, <2>1 DEF InvWith
  <2>3. /\ Divided(p, k) /\ Waiting(p, k, ask, Len(ans)) /\ u # <<>> /\ u \in Seq(Piece)
    BY <1>2, <1>3, <1>5, <2>1
  <2>4. /\ 1 \in 1..Len(ans) /\ ans[1] \in Kinds /\ k < Len(p) /\ off \in {0, 1}
        /\ u[1] = IF off = 0 THEN HeadOf(p[k + 1].req, ans[1]) ELSE BodyOf(p[k + 1].req, ans[1])
        /\ Len(u) \in Nat /\ Len(u) >= 1 /\ Len(ans) \in Nat /\ Len(ans) >= 1
    <3>1. off \in 0..2 /\ ans \in Seq(Kinds)  BY <1>3
    <3>2. QED  BY ONLY <2>2, <2>3, <3>1, PieceIs
  <2>5. u[1].of = p[k + 1].req
    BY <2>4 DEF HeadOf, BodyOf
  <2>6. current = p[k + 1].req
    <3>1. Turn(p, k, current, stranded)  BY <1>1, <2>1 DEF InvWith
    <3>2. QED  BY <1>5, <2>4, <3>1 DEF Turn
  <2>7. Head(u) = u[1]  BY <2>3, HeadTailProperties
  <2>8. QED  BY <2>1, <2>5, <2>6, <2>7
<1>6. ASSUME ~Running PROVE \E i \in DOMAIN pipeline : pipeline[i].spoiled
  <2>1. PICK i \in 1..Len(pipeline) : pipeline[i].spoiled
    BY <1>2, <1>6 DEF Running, Spoils
  <2>2. pipeline \in Seq(Element)  BY <1>3 DEF Divided
  <2>3. i \in DOMAIN pipeline  BY <2>2, LenProperties
  <2>4. QED  BY <2>1, <2>3
<1>7. QED  BY <1>4, <1>5, <1>6 DEF Synchronized

\* A sequence is a suffix of another if it ends like it.
LEMMA EndsLike ==
  ASSUME NEW S, NEW s \in Seq(S), NEW t \in Seq(S), NEW m \in Nat, Len(t) = m + Len(s),
         \A j \in 1..Len(s) : s[j] = t[m + j]
  PROVE  IsSuffix(s, t)
<1>1. PICK l, n : l = Len(s) /\ n = Len(t)  OBVIOUS
<1>2. l \in Nat /\ n \in Nat /\ n = m + l  BY <1>1, LenProperties
<1>3. PICK x, y : x = Reverse(s) /\ y = Reverse(t)  OBVIOUS
<1>4. /\ x = [i \in 1..l |-> s[(l - i) + 1]] /\ y = [i \in 1..n |-> t[(n - i) + 1]]
  BY <1>1, <1>3 DEF Reverse
<1>5. x \in Seq(S) /\ Len(x) = l
  <2>1. \A i \in 1..l : s[(l - i) + 1] \in S
    <3>1. SUFFICES ASSUME NEW i \in 1..l PROVE s[(l - i) + 1] \in S  OBVIOUS
    <3>2. PICK j : j = (l - i) + 1  OBVIOUS
    <3>3. j \in 1..Len(s)  BY <1>1, <1>2, <3>2
    <3>4. s[j] \in S  BY <3>3, ElementOfSeq
    <3>5. QED  BY <3>2, <3>4
  <2> DEFINE e(i) == s[(l - i) + 1]
  <2>2. x \in Seq(S)
    <3>1. \A i \in 1..l : e(i) \in S  BY <2>1
    <3>2. x = [i \in 1..l |-> e(i)]  BY <1>4
    <3> HIDE DEF e
    <3>3. QED  BY <1>2, <3>1, <3>2, IsASeq
  <2>3. DOMAIN x = 1..l  BY <1>4
  <2>4. QED  BY <1>2, <2>2, <2>3, LenProperties
<1>6. y \in Seq(S) /\ Len(y) = n
  <2>1. \A i \in 1..n : t[(n - i) + 1] \in S
    <3>1. SUFFICES ASSUME NEW i \in 1..n PROVE t[(n - i) + 1] \in S  OBVIOUS
    <3>2. PICK j : j = (n - i) + 1  OBVIOUS
    <3>3. j \in 1..Len(t)  BY <1>1, <1>2, <3>2
    <3>4. t[j] \in S  BY <3>3, ElementOfSeq
    <3>5. QED  BY <3>2, <3>4
  <2> DEFINE e(i) == t[(n - i) + 1]
  <2>2. y \in Seq(S)
    <3>1. \A i \in 1..n : e(i) \in S  BY <2>1
    <3>2. y = [i \in 1..n |-> e(i)]  BY <1>4
    <3> HIDE DEF e
    <3>3. QED  BY <1>2, <3>1, <3>2, IsASeq
  <2>3. DOMAIN y = 1..n  BY <1>4
  <2>4. QED  BY <1>2, <2>2, <2>3, LenProperties
<1>7. ASSUME NEW i \in 1..l PROVE x[i] = y[i]
  <2>1. PICK j : j = (l - i) + 1  OBVIOUS
  <2>2. i \in 1..n /\ j \in 1..Len(s) /\ (n - i) + 1 = m + j  BY <1>1, <1>2, <2>1
  <2>3. x[i] = s[j] /\ y[i] = t[m + j]  BY <1>4, <2>1, <2>2
  <2>4. QED  BY <2>2, <2>3
<1>8. IsPrefix(x, y)
  <2>1. PICK z, o : z = SubSeq(y, o, l) /\ o = 1  OBVIOUS
  <2>2. \A i \in o..l : y[i] \in S
    <3>1. \A i \in o..l : i \in 1..Len(y)  BY <1>2, <1>6, <2>1
    <3>2. QED  BY <1>6, <3>1, ElementOfSeq
  <2>3. /\ z \in Seq(S) /\ Len(z) = IF o <= l THEN l - o + 1 ELSE 0
        /\ \A i \in 1..l - o + 1 : z[i] = y[o + i - 1]
    <3>1. o \in Int /\ l \in Int /\ z = SubSeq(y, o, l)  BY <1>2, <2>1
    <3>2. QED  BY <2>2, <3>1, SubSeqProperties
  <2>4. Len(z) = l  BY <1>2, <2>1, <2>3
  <2>5. \A i \in 1..l : z[i] = y[i]
    <3>1. \A i \in 1..l : i \in 1..l - o + 1 /\ o + i - 1 = i  BY <1>2, <2>1
    <3>2. QED  BY <2>3, <3>1
  <2>6. z = x
    <3>1. \A i \in 1..Len(z) : z[i] = x[i]  BY <1>7, <2>4, <2>5
    <3>2. QED  BY <1>5, <2>3, <2>4, <3>1, SeqEqual
  <2>7. Len(x) <= Len(y)  BY <1>2, <1>5, <1>6
  <2>8. SubSeq(x, 1, Len(x)) = SubSeq(y, 1, Len(x))
    <3>1. SubSeq(y, 1, Len(x)) = x  BY <1>5, <2>1, <2>6
    <3>2. QED  BY <1>5, <3>1
  <2>9. QED  BY <2>7, <2>8 DEF IsPrefix
<1>9. QED  BY <1>3, <1>8 DEF IsSuffix

LEMMA InvAsked ==
  ASSUME Inv
  PROVE  AskedIsOutstanding
<1>1. PICK k, off, ans : InvWith(k, off, ans)  BY InvWitnesses
<1>2. /\ Divided(pipeline, k) /\ Waiting(pipeline, k, asked, Len(ans)) /\ ans \in Seq(Kinds)
  BY <1>1 DEF InvWith
<1>3. PICK p, s, t, m : p = pipeline /\ s = asked /\ t = Outstanding(p) /\ m = Len(ans)
  OBVIOUS
<1>4. /\ s \in Seq(Requests) /\ Len(p) = k + m + Len(s)
      /\ \A j \in 1..Len(s) : s[j] = p[k + m + j].req
  BY <1>2, <1>3 DEF Waiting
<1>5. /\ t \in Seq(Requests) /\ Len(t) = Len(p) - k
      /\ \A j \in 1..Len(p) - k : t[j] = p[k + j].req
  <2>1. Divided(p, k)  BY <1>2, <1>3
  <2>2. QED  BY <1>3, <2>1, OutstandingIs DEF Lists
<1>6. m \in Nat /\ k \in Nat /\ Len(p) \in Nat /\ Len(s) \in Nat
  BY <1>2, <1>3, <1>4, DividedFacts, LenProperties
<1>7. Len(t) = m + Len(s)  BY <1>4, <1>5, <1>6
<1>8. ASSUME NEW j \in 1..Len(s) PROVE s[j] = t[m + j]
  <2>1. PICK n : n = m + j  OBVIOUS
  <2>2. n \in 1..Len(p) - k /\ k + n = k + m + j  BY <1>4, <1>6, <2>1
  <2>3. t[n] = p[k + n].req  BY <1>5, <2>2
  <2>4. QED  BY <1>4, <2>1, <2>2, <2>3
<1>9. IsSuffix(s, t)  BY <1>4, <1>5, <1>6, <1>7, <1>8, EndsLike
<1>10. QED  BY <1>3, <1>9 DEF AskedIsOutstanding

\* A response that is complete is the one response of its request, unless it
\* began anew (HTTPClient.hpp:46).
THEOREM ResponsesWhole ==
  ASSUME "repeat" \notin Faults
  PROVE  Spec => []ResponseIntegrity
<1>1. Spec => []Inv  BY PipelineInvariant
<1>2. Inv => ResponseIntegrity  BY InvIntegrity
<1>3. QED  BY <1>1, <1>2, PTL

\* The next piece is of the current request, and the parser refuses none, until
\* a request is stranded (HTTPClient.cpp:284-399).
THEOREM ParserSynchronized ==
  ASSUME "repeat" \notin Faults
  PROVE  Spec => []Synchronized
<1>1. Spec => []Inv  BY PipelineInvariant
<1>2. Inv => Synchronized  BY InvSynchronized
<1>3. QED  BY <1>1, <1>2, PTL

\* The server is asked what is outstanding, in order, and nothing twice on one
\* connection (HTTPClient.cpp:198-240).
THEOREM AskedInOrder ==
  ASSUME "repeat" \notin Faults
  PROVE  Spec => []AskedIsOutstanding
<1>1. Spec => []Inv  BY PipelineInvariant
<1>2. Inv => AskedIsOutstanding  BY InvAsked
<1>3. QED  BY <1>1, <1>2, PTL
=============================================================================
