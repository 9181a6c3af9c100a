------------------------- MODULE SynchronizerProofs -------------------------
(***************************************************************************)
(* The safety of object replication, for all numbers of clients and        *)
(* objects, values, capacities of the Links, and whether or not the        *)
(* application moves objects that clients know of.                         *)
(***************************************************************************)
EXTENDS Synchronizer, FiniteSetTheorems, WellFoundedInduction, TLAPS

-----------------------------------------------------------------------------
(* The inductive invariant.                                                *)

Objects == [stat : Ids \union {0}, dyn : Values]
Failures ==
  [type : {"none", "create", "update", "destroy"}, id : Ids \union {0}]

\* An id is given out once, and the server's Links hold what they can.
FreshIds ==
  /\ objects \subseteq 1..lastId
  /\ \A id \in Ids : id > lastId => updates[id] = "none"

Bounded == \A c \in Clients : Len(channel[c]) <= LinkCapacity

\* The message m takes the replica of object id from r to s: it is of another
\* object, or the client may process it.
Takes(m, id, r, s) ==
  IF m.id = id
  THEN /\ (m.type = "create") <=> (r = Absent)
       /\ s = CASE m.type = "create"  -> [stat |-> m.stat, dyn |-> m.dyn]
                [] m.type = "update"  -> [r EXCEPT !.dyn = m.dyn]
                [] m.type = "destroy" -> Absent
  ELSE s = r

\* t lists what becomes of the replica r of object id while its client works
\* through the messages q, none of which fails an assertion for its sake.
Course(t, r, q, id) ==
  /\ t \in [1..Len(q) + 1 -> Objects]
  /\ t[1] = r
  /\ \A k \in 1..Len(q) : Takes(q[k], id, t[k], t[k + 1])

\* The messages q take the replica of object id from r to s.
Leads(q, id, r, s) ==
  \E t \in [1..Len(q) + 1 -> Objects] : Course(t, r, q, id) /\ t[Len(q) + 1] = s

\* What the server's pending update of object id assumes that clients hold.
Assumed(id, r) ==
  /\ updates[id] = "create" => r = Absent
  /\ updates[id] = "destroy" => r # Absent
  /\ updates[id] = "update" => r # Absent /\ r.stat = id
  /\ updates[id] = "none" /\ id \notin objects => r = Absent
  /\ updates[id] = "none" /\ id \in objects =>
       /\ r # Absent /\ r.stat = id
       /\ id \notin moved => r.dyn = dyn[id]

\* The client can process every message of the object, and then holds what a
\* server that it is subscribed to assumes.
OnCourse(c, id) ==
  \E s \in Objects :
    /\ Leads(channel[c], id, replica[c][id], s)
    /\ Subscribed(c) => Assumed(id, s)

Consistent ==
  \A c \in Clients : Running(c) => \A id \in Ids \ tainted[c] : OnCourse(c, id)

Replication ==
  /\ TypeOK /\ UpdatesResolve /\ ModifiedPending
  /\ FreshIds /\ Bounded
  /\ Consistent /\ OnlyTaintedFail

-----------------------------------------------------------------------------
(* Receive().                                                              *)

LEMMA Induction ==
  ASSUME NEW S \in SUBSET Nat, 0 \in S, \A n \in S : n + 1 \in S
  PROVE  \A n \in Nat : n \in S
<1> SUFFICES ASSUME Nat \ S # {} PROVE FALSE
  OBVIOUS
<1>1. PICK x \in Nat \ S : \A y \in Nat \ S : ~ (<<y, x>> \in OpToRel(<, Nat))
  BY WFMin, NatLessThanWellFounded
<1>2. x # 0 /\ x - 1 \in Nat
  BY SMT
<1>3. <<x - 1, x>> \in OpToRel(<, Nat)
  <2>1. x - 1 < x /\ x \in Nat
    BY <1>2
  <2> QED
    BY <1>2, <2>1 DEF OpToRel
<1>4. x - 1 \in S
  BY <1>1, <1>2, <1>3
<1>5. (x - 1) + 1 \in S
  BY <1>4
<1> QED
  BY <1>5, <1>2

\* What Receive() has come to before a message follows from one message fewer.
LEMMA ResultsAre ==
  ASSUME NEW objs, NEW q, Len(q) \in Nat, NEW ids, NEW u, u = Results(objs, q, ids)
  PROVE  /\ u[1] = [objs |-> objs, failed |-> NoFailure]
         /\ \A k \in 1..Len(q) : u[k + 1] = Step(u[k], q[k], ids)
<1> DEFINE first == [objs |-> objs, failed |-> NoFailure]
           body(f, k) == IF k = 1 THEN first ELSE Step(f[k - 1], q[k - 1], ids)
           S == {n \in Nat : \E f : f = [k \in 1..n + 1 |-> body(f, k)]}
<1>1. 0 \in S
  <2> DEFINE f == [k \in 1..0 + 1 |-> first]
  <2>1. \A k \in 1..0 + 1 : k = 1
    BY SMT
  <2>2. f = [k \in 1..0 + 1 |-> body(f, k)]
    BY <2>1
  <2> HIDE DEF f, first
  <2> QED
    BY <2>2
<1>2. ASSUME NEW n \in S PROVE n + 1 \in S
  <2>1. PICK f : f = [k \in 1..n + 1 |-> body(f, k)]
    OBVIOUS
  <2> DEFINE g == [k \in 1..(n + 1) + 1 |-> body(f, k)]
  <2>2. ASSUME NEW k \in 1..n + 1 PROVE g[k] = f[k]
    <3>1. f[k] = body(f, k)
      BY <2>1
    <3>2. k \in 1..(n + 1) + 1
      BY SMT
    <3> HIDE DEF body
    <3> QED
      BY <3>1, <3>2
  <2>3. ASSUME NEW k \in 1..(n + 1) + 1 PROVE body(g, k) = body(f, k)
    <3> HIDE DEF g
    <3>1. CASE k = 1
      BY <3>1
    <3>2. CASE k # 1
      <4>1. k - 1 \in 1..n + 1
        BY <3>2, SMT
      <4>2. g[k - 1] = f[k - 1]
        BY <2>2, <4>1
      <4> QED
        BY <4>2
    <3> QED
      BY <3>1, <3>2
  <2> HIDE DEF body
  <2>4. g = [k \in 1..(n + 1) + 1 |-> body(g, k)]
    BY <2>3, Zenon
  <2> HIDE DEF g
  <2>5. n + 1 \in Nat
    BY SMT
  <2> QED
    BY <2>4, <2>5, Zenon
<1> HIDE DEF S
<1>3. S \in SUBSET Nat
  BY DEF S
<1>4. \A n \in Nat : n \in S
  BY <1>1, <1>2, <1>3, Induction
<1>5. \E f : f = [k \in 1..Len(q) + 1 |-> body(f, k)]
  BY <1>4 DEF S
<1>6. u = CHOOSE f : f = [k \in 1..Len(q) + 1 |-> body(f, k)]
  BY DEF Results
<1>7. u = [k \in 1..Len(q) + 1 |-> body(u, k)]
  <2> HIDE DEF body
  <2> QED
    BY <1>5, <1>6, Zenon
<1>8. u[1] = first
  <2>1. 1 \in 1..Len(q) + 1
    BY SMT
  <2> QED
    BY <1>7, <2>1, Zenon
<1>9. ASSUME NEW k \in 1..Len(q) PROVE u[k + 1] = Step(u[k], q[k], ids)
  <2>1. k + 1 \in 1..Len(q) + 1 /\ k + 1 # 1 /\ (k + 1) - 1 = k
    BY SMT
  <2>2. u[k + 1] = body(u, k + 1)
    <3> HIDE DEF body
    <3> QED
      BY <1>7, <2>1, Zenon
  <2> QED
    BY <2>1, <2>2, Zenon
<1> QED
  BY <1>8, <1>9

Outcomes == [objs : [Ids -> Objects], failed : Failures]

LEMMA ValuesTypes ==
  /\ 0 \in Values /\ Absent \in Objects /\ NoFailure \in Failures
  /\ NoFailure.id = 0
  /\ \A id \in Ids : id \in Nat /\ id # 0
BY ReplicationAssumption DEF Absent, Objects, NoFailure, Failures, Ids

LEMMA ProcessedObject ==
  ASSUME NEW objs \in [Ids -> Objects], NEW m \in Messages
  PROVE  /\ Processed(objs, m) \in [Ids -> Objects]
         /\ \A id \in Ids : id # m.id => Processed(objs, m)[id] = objs[id]
         /\ Legal(objs, m) => Takes(m, m.id, objs[m.id], Processed(objs, m)[m.id])
<1>1. m.id \in Ids /\ m.type \in {"create", "update", "destroy"}
      /\ m.stat \in Ids \union {0} /\ m.dyn \in Values
  BY DEF Messages
<1> DEFINE new == CASE m.type = "create"  -> [stat |-> m.stat, dyn |-> m.dyn]
                    [] m.type = "update"  -> [objs[m.id] EXCEPT !.dyn = m.dyn]
                    [] m.type = "destroy" -> Absent
<1>2. Processed(objs, m) = [objs EXCEPT ![m.id] = new]
  BY DEF Processed
<1>3. new \in Objects
  <2>1. objs[m.id] \in Objects
    BY <1>1
  <2>2. CASE m.type = "create"
    BY <2>2, <1>1 DEF Objects
  <2>3. CASE m.type = "update"
    BY <2>3, <2>1, <1>1 DEF Objects
  <2>4. CASE m.type = "destroy"
    BY <2>4, ValuesTypes
  <2> QED
    BY <1>1, <2>2, <2>3, <2>4
<1>4. Legal(objs, m) => Takes(m, m.id, objs[m.id], new)
  BY DEF Legal, Takes
<1> HIDE DEF new
<1>5. Processed(objs, m)[m.id] = new
  BY <1>1, <1>2
<1> QED
  BY <1>1, <1>2, <1>3, <1>4, <1>5

LEMMA StepOutcome ==
  ASSUME NEW r \in Outcomes, NEW m \in Messages, NEW ids
  PROVE  Step(r, m, ids) \in Outcomes
<1>1. m.id \in Ids /\ m.type \in {"create", "update", "destroy"}
  BY DEF Messages
<1>2. r.objs \in [Ids -> Objects] /\ r.failed \in Failures
  BY DEF Outcomes
<1>3. Processed(r.objs, m) \in [Ids -> Objects]
  BY <1>2, ProcessedObject
<1>4. [type |-> m.type, id |-> m.id] \in Failures
  BY <1>1 DEF Failures
<1>5. [r EXCEPT !.objs = Processed(@, m)] \in Outcomes
  BY <1>2, <1>3 DEF Outcomes
<1>6. [r EXCEPT !.failed = [type |-> m.type, id |-> m.id]] \in Outcomes
  BY <1>2, <1>4 DEF Outcomes
<1> QED
  BY <1>5, <1>6 DEF Step

\* Receive() keeps to the courses of the objects: what it makes of an object is
\* what the course says, and it does not fail for the sake of an object that
\* has one.
LEMMA ResultsFollow ==
  ASSUME NEW objs \in [Ids -> Objects], NEW q \in Seq(Messages),
         NEW ids \in SUBSET Ids
  PROVE  LET u == Results(objs, q, ids)
         IN  \A k \in 1..Len(q) + 1 :
               /\ u[k] \in Outcomes
               /\ u[k].failed # NoFailure => u[k].failed.id \in ids
               /\ \A id \in Ids, t \in [1..Len(q) + 1 -> Objects] :
                    Course(t, objs[id], q, id) =>
                      /\ u[k].failed.id # id
                      /\ u[k].failed = NoFailure /\ id \in ids =>
                           u[k].objs[id] = t[k]
<1>u. PICK u : u = Results(objs, q, ids)
  OBVIOUS
<1>1. Len(q) \in Nat
  OBVIOUS
<1>0. /\ u[1] = [objs |-> objs, failed |-> NoFailure]
      /\ \A k \in 1..Len(q) : u[k + 1] = Step(u[k], q[k], ids)
  BY <1>1, <1>u, ResultsAre
<1>2. u[1] = [objs |-> objs, failed |-> NoFailure]
  BY <1>0
<1>3. \A k \in 1..Len(q) : u[k + 1] = Step(u[k], q[k], ids)
  BY <1>0
<1> DEFINE Fails(k) == u[k].failed # NoFailure => u[k].failed.id \in ids
           Keeps(k, id, t) == /\ u[k].failed.id # id
                              /\ u[k].failed = NoFailure /\ id \in ids =>
                                   u[k].objs[id] = t[k]
           Follows(k) ==
             /\ u[k] \in Outcomes
             /\ Fails(k)
             /\ \A id \in Ids, t \in [1..Len(q) + 1 -> Objects] :
                    Course(t, objs[id], q, id) => Keeps(k, id, t)
           S == {n \in Nat : n <= Len(q) => Follows(n + 1)}
<1>4. Follows(1)
  <2>1. u[1] \in Outcomes
    BY <1>2, ValuesTypes DEF Outcomes
  <2>2. u[1].failed = NoFailure /\ u[1].objs = objs
    BY <1>2
  <2>3. ASSUME NEW id \in Ids, NEW t \in [1..Len(q) + 1 -> Objects],
               Course(t, objs[id], q, id)
        PROVE  Keeps(1, id, t)
    BY <2>2, <2>3, ValuesTypes DEF Course
  <2> QED
    BY <2>1, <2>2, <2>3
<1>5. ASSUME NEW n \in 1..Len(q), Follows(n)
      PROVE  Follows(n + 1)
  <2> DEFINE m == q[n]
    <2>2. m \in Messages
    OBVIOUS
  <2>3. u[n + 1] = Step(u[n], m, ids)
    BY <1>3
  <2>4. u[n] \in Outcomes /\ Fails(n)
    BY <1>5
  <2>5. /\ u[n].objs \in [Ids -> Objects] /\ u[n].failed \in Failures
        /\ m.id \in Ids /\ m.type \in {"create", "update", "destroy"}
    BY <2>2, <2>4 DEF Outcomes, Messages
  <2> DEFINE failure == [type |-> m.type, id |-> m.id]
  <2>6. failure # NoFailure /\ failure.id = m.id
    BY <2>5 DEF NoFailure
  <2>7. u[n + 1] \in Outcomes
    BY <2>2, <2>3, <2>4, StepOutcome
  <2> HIDE DEF m
  <2>8. \/ u[n + 1] = u[n] /\ (u[n].failed # NoFailure \/ m.id \notin ids)
        \/ /\ u[n].failed = NoFailure /\ m.id \in ids /\ Legal(u[n].objs, m)
           /\ u[n + 1] = [u[n] EXCEPT !.objs = Processed(@, m)]
        \/ /\ u[n].failed = NoFailure /\ m.id \in ids /\ ~ Legal(u[n].objs, m)
           /\ u[n + 1] = [u[n] EXCEPT !.failed = failure]
    BY <2>3 DEF Step
  <2>9. ASSUME NEW id \in Ids, NEW t \in [1..Len(q) + 1 -> Objects],
               Course(t, objs[id], q, id)
        PROVE  Takes(m, id, t[n], t[n + 1]) /\ Keeps(n, id, t)
    BY <1>5, <2>9 DEF Course, m
  <2>10. CASE u[n + 1] = u[n] /\ (u[n].failed # NoFailure \/ m.id \notin ids)
    <3>1. ASSUME NEW id \in Ids, NEW t \in [1..Len(q) + 1 -> Objects],
                 Course(t, objs[id], q, id)
          PROVE  Keeps(n + 1, id, t)
      <4>1. Takes(m, id, t[n], t[n + 1]) /\ Keeps(n, id, t)
        BY <2>9, <3>1
      <4>2. u[n].failed = NoFailure /\ id \in ids => t[n + 1] = t[n]
        <5> SUFFICES ASSUME u[n].failed = NoFailure, id \in ids PROVE t[n + 1] = t[n]
          OBVIOUS
        <5>1. m.id # id
          BY <2>10
        <5> QED
          BY <4>1, <5>1 DEF Takes
      <4> QED
        BY <4>1, <4>2, <2>10
    <3> QED
      BY <2>4, <2>7, <2>10, <3>1
  <2>11. CASE /\ u[n].failed = NoFailure /\ m.id \in ids /\ Legal(u[n].objs, m)
              /\ u[n + 1] = [u[n] EXCEPT !.objs = Processed(@, m)]
    <3>1. u[n + 1].failed = NoFailure /\ u[n + 1].objs = Processed(u[n].objs, m)
      BY <2>11, <2>4 DEF Outcomes
    <3>2. ASSUME NEW id \in Ids, NEW t \in [1..Len(q) + 1 -> Objects],
                 Course(t, objs[id], q, id)
          PROVE  Keeps(n + 1, id, t)
      <4>1. Takes(m, id, t[n], t[n + 1]) /\ (id \in ids => u[n].objs[id] = t[n])
        BY <2>9, <3>2, <2>11
      <4>2. CASE id # m.id
        <5>1. t[n + 1] = t[n]
          BY <4>1, <4>2 DEF Takes
        <5>2. Processed(u[n].objs, m)[id] = u[n].objs[id]
          BY <2>2, <2>5, <4>2, ProcessedObject DEF m
        <5> QED
          BY <3>1, <4>1, <5>1, <5>2, ValuesTypes
      <4>3. CASE id = m.id
        <5>1. Takes(m, id, t[n], Processed(u[n].objs, m)[id])
          BY <2>2, <2>5, <2>11, <4>1, <4>3, ProcessedObject DEF m
        <5>2. t[n + 1] = Processed(u[n].objs, m)[id]
          BY <4>1, <4>3, <5>1 DEF Takes
        <5> QED
          BY <3>1, <5>2, ValuesTypes
      <4> QED
        BY <4>2, <4>3
    <3> QED
      BY <2>7, <3>1, <3>2
  <2>12. CASE /\ u[n].failed = NoFailure /\ m.id \in ids /\ ~ Legal(u[n].objs, m)
              /\ u[n + 1] = [u[n] EXCEPT !.failed = failure]
    <3>1. u[n + 1].failed = failure
      BY <2>12, <2>4 DEF Outcomes
    <3>2. ASSUME NEW id \in Ids, NEW t \in [1..Len(q) + 1 -> Objects],
                 Course(t, objs[id], q, id)
          PROVE  Keeps(n + 1, id, t)
      <4>1. Takes(m, id, t[n], t[n + 1]) /\ (id \in ids => u[n].objs[id] = t[n])
        BY <2>9, <3>2, <2>12
      <4>2. id # m.id
        BY <4>1, <2>12 DEF Takes, Legal
      <4> QED
        BY <2>6, <3>1, <4>2
    <3>3. Fails(n + 1)
      BY <2>6, <2>12, <3>1
    <3> HIDE DEF Fails, Keeps
    <3> QED
      BY <2>7, <3>2, <3>3
  <2> QED
    BY <2>8, <2>10, <2>11, <2>12
<1> HIDE DEF Follows
<1>6. 0 \in S
  <2>1. 0 + 1 = 1
    BY SMT
  <2> QED
    BY <1>4, <2>1
<1>7. ASSUME NEW n \in S PROVE n + 1 \in S
  <2>1. n \in Nat /\ n + 1 \in Nat
    BY SMT
  <2>2. ASSUME n + 1 <= Len(q) PROVE Follows((n + 1) + 1)
    <3>1. n <= Len(q) /\ n + 1 \in 1..Len(q)
      BY <1>1, <2>1, <2>2, SMT
    <3>2. Follows(n + 1)
      BY <3>1
    <3> QED
      BY <1>5, <3>1, <3>2
  <2> QED
    BY <2>1, <2>2
<1>8. \A n \in Nat : n \in S
  <2> HIDE DEF S
  <2>1. S \in SUBSET Nat
    BY DEF S
  <2> QED
    BY <1>6, <1>7, <2>1, Induction
<1>9. ASSUME NEW k \in 1..Len(q) + 1 PROVE Follows(k)
  <2>1. k - 1 \in Nat /\ k - 1 <= Len(q) /\ (k - 1) + 1 = k
    BY <1>1, SMT
  <2> QED
    BY <1>8, <2>1
<1> QED
  BY <1>u, <1>9 DEF Follows

-----------------------------------------------------------------------------
(* Courses.                                                                *)

\* Of the messages p, only the i-th is of object id, or none if i is 0, and they
\* take its replica from r to s.
TakesOnce(p, i, id, r, s) ==
  /\ \A k \in 1..Len(p) : k # i => p[k].id # id
  /\ i = 0 => s = r
  /\ i # 0 => Takes(p[i], id, r, s)

\* all is q and further messages that take the replica from r to s.
Extends(q, all, id, r, s) ==
  \E p \in Seq(Messages) : \E i \in 0..Len(p) :
    all = q \o p /\ TakesOnce(p, i, id, r, s)

\* Messages of which one, or none, is of the object lengthen its course.
LEMMA CourseGoesOn ==
  ASSUME NEW q \in Seq(Messages), NEW p \in Seq(Messages), NEW id \in Ids,
         NEW t \in [1..Len(q) + 1 -> Objects], NEW r, Course(t, r, q, id),
         NEW i \in 0..Len(p), NEW s \in Objects,
         TakesOnce(p, i, id, t[Len(q) + 1], s)
  PROVE  Leads(q \o p, id, r, s)
<1> DEFINE L == Len(q)
           N == Len(p)
           all == q \o p
           last == t[L + 1]
           x == [k \in 1..L + N + 1 |-> IF k <= L THEN t[k]
                                        ELSE IF k - L <= i THEN last ELSE s]
<1>0. /\ \A k \in 1..N : k # i => p[k].id # id
      /\ i = 0 => s = last
      /\ i # 0 => Takes(p[i], id, last, s)
  BY DEF TakesOnce
<1>1. L \in Nat /\ N \in Nat /\ Len(all) = L + N /\ i \in Nat /\ i <= N
  OBVIOUS
<1>2. /\ \A k \in 1..L : all[k] = q[k]
      /\ \A k \in 1..N : all[L + k] = p[k]
  OBVIOUS
<1>3. /\ \A k \in 1..L + 1 : t[k] \in Objects
      /\ \A k \in 1..L : Takes(q[k], id, t[k], t[k + 1])
      /\ t[1] = r
  BY DEF Course
<1> HIDE DEF all, L, N
<1>4. last \in Objects
  BY <1>1, <1>3
<1> HIDE DEF last
<1>5. x \in [1..L + N + 1 -> Objects]
  <2>1. \A k \in 1..L + N + 1 : k <= L => k \in 1..L + 1
    BY <1>1, SMT
  <2> QED
    BY <1>3, <1>4, <2>1
<1>6. \A k \in 1..L : x[k] = t[k]
  BY <1>1
<1>7. x[L + 1] = last
  <2>1. L + 1 \in 1..L + N + 1 /\ ~ (L + 1 <= L) /\ (L + 1) - L = 1
    BY <1>1, SMT
  <2>2. x[L + 1] = IF 1 <= i THEN last ELSE s
    BY <2>1
  <2>3. 1 <= i \/ i = 0
    BY <1>1, SMT
  <2> QED
    BY <1>0, <2>2, <2>3
<1>8. \A j \in 1..N : x[L + j + 1] = IF j + 1 <= i THEN last ELSE s
  <2> TAKE j \in 1..N
  <2>1. /\ L + j + 1 \in 1..L + N + 1 /\ ~ (L + j + 1 <= L)
        /\ (L + j + 1) - L = j + 1
    BY <1>1, SMT
  <2> QED
    BY <2>1
<1>9. x[1] = r
  <2>1. CASE L = 0
    BY <1>3, <1>7, <2>1 DEF last
  <2>2. CASE L # 0
    <3>1. 1 \in 1..L
      BY <1>1, <2>2, SMT
    <3> QED
      BY <1>3, <1>6, <3>1
  <2> QED
    BY <2>1, <2>2
<1>10. ASSUME NEW k \in 1..L PROVE Takes(all[k], id, x[k], x[k + 1])
  <2>1. x[k + 1] = t[k + 1]
    <3>1. CASE k = L
      BY <1>7, <3>1 DEF last
    <3>2. CASE k # L
      <4>1. k + 1 \in 1..L
        BY <1>1, <3>2, SMT
      <4> QED
        BY <1>6, <4>1
    <3> QED
      BY <3>1, <3>2
  <2>2. all[k] = q[k] /\ x[k] = t[k]
    BY <1>2, <1>6
  <2> HIDE DEF x
  <2> QED
    BY <1>3, <2>1, <2>2
<1>11. ASSUME NEW j \in 1..N PROVE Takes(all[L + j], id, x[L + j], x[L + j + 1])
  <2>1. x[L + j] = IF j <= i \/ (i = 0 /\ j = 1) THEN last ELSE s
    <3>1. CASE j = 1
      <4>1. 1 <= i \/ i = 0
        BY <1>1, SMT
      <4> QED
        BY <1>7, <3>1, <4>1
    <3>2. CASE j # 1
      <4>1. j - 1 \in 1..N /\ L + (j - 1) + 1 = L + j /\ (j - 1) + 1 = j
        BY <1>1, <3>2, SMT
      <4> HIDE DEF x
      <4> QED
        BY <1>8, <3>2, <4>1
    <3> QED
      BY <3>1, <3>2
  <2>2. all[L + j] = p[j] /\ x[L + j + 1] = IF j + 1 <= i THEN last ELSE s
    BY <1>2, <1>8
  <2> HIDE DEF x
  <2>3. CASE j = i
    <3>1. i # 0 /\ j <= i /\ ~ (j + 1 <= i)
      BY <1>1, <2>3, SMT
    <3> QED
      BY <1>0, <2>1, <2>2, <2>3, <3>1
  <2>4. CASE j # i
    <3>1. p[j].id # id
      BY <1>0, <2>4
    <3>2. (j + 1 <= i) <=> (j <= i)
      BY <1>1, <2>4, SMT
    <3>3. x[L + j + 1] = x[L + j]
      BY <1>0, <2>1, <2>2, <3>2
    <3> QED
      BY <2>2, <3>1, <3>3 DEF Takes
  <2> QED
    BY <2>3, <2>4
<1>12. x[L + N + 1] = s
  <2>1. CASE N = 0
    <3>1. i = 0 /\ L + N + 1 = L + 1
      BY <1>1, <2>1, SMT
    <3> QED
      BY <1>0, <1>7, <3>1
  <2>2. CASE N # 0
    <3>1. N \in 1..N /\ ~ (N + 1 <= i)
      BY <1>1, <2>2, SMT
    <3> HIDE DEF x
    <3> QED
      BY <1>8, <3>1
  <2> QED
    BY <2>1, <2>2
<1> HIDE DEF x
<1>13. \A k \in 1..L + N : Takes(all[k], id, x[k], x[k + 1])
  <2> TAKE k \in 1..L + N
  <2>1. CASE k <= L
    <3>1. k \in 1..L
      BY <1>1, <2>1, SMT
    <3> QED
      BY <1>10, <3>1
  <2>2. CASE ~ (k <= L)
    <3>1. k - L \in 1..N /\ L + (k - L) = k
      BY <1>1, <2>2, SMT
    <3> QED
      BY <1>11, <3>1
  <2> QED
    BY <2>1, <2>2
<1>14. Course(x, r, all, id)
  BY <1>1, <1>5, <1>9, <1>13 DEF Course
<1> QED
  BY <1>1, <1>5, <1>12, <1>14 DEF all, Leads

LEMMA LeadsOn ==
  ASSUME NEW q \in Seq(Messages), NEW all, NEW id \in Ids, NEW r, NEW last,
         Leads(q, id, r, last),
         NEW s \in Objects, Extends(q, all, id, last, s)
  PROVE  Leads(all, id, r, s)
<1>1. PICK p \in Seq(Messages) : \E i \in 0..Len(p) :
        all = q \o p /\ TakesOnce(p, i, id, last, s)
  BY DEF Extends
<1>2. PICK i \in 0..Len(p) : all = q \o p /\ TakesOnce(p, i, id, last, s)
  BY <1>1
<1>3. PICK t \in [1..Len(q) + 1 -> Objects] :
        Course(t, r, q, id) /\ t[Len(q) + 1] = last
  BY DEF Leads
<1>4. Course(t, r, q, id) /\ TakesOnce(p, i, id, t[Len(q) + 1], s)
  BY <1>2, <1>3
<1>5. Leads(q \o p, id, r, s)
  BY <1>4, CourseGoesOn
<1> QED
  BY <1>2, <1>5

\* p is the first n messages of q, and rest the others.
Parts(q, n, p, rest) ==
  n \in 0..Len(q) /\ p = SubSeq(q, 1, n) /\ rest = SubSeq(q, n + 1, Len(q))

\* What is left of a course after the first n messages.
LEMMA CourseAfter ==
  ASSUME NEW q \in Seq(Messages), NEW id \in Ids, NEW r,
         NEW t \in [1..Len(q) + 1 -> Objects], Course(t, r, q, id),
         NEW n, NEW p, NEW rest, Parts(q, n, p, rest),
         NEW s, s = t[n + 1]
  PROVE  \E x \in [1..Len(rest) + 1 -> Objects] :
           Course(x, s, rest, id) /\ x[Len(rest) + 1] = t[Len(q) + 1]
<1> DEFINE L == Len(q)
           x == [k \in 1..L - n + 1 |-> t[n + k]]
<1>1. L \in Nat /\ n \in Nat /\ n <= L /\ L - n \in Nat
  BY DEF Parts
<1>2. Len(rest) = L - n /\ \A k \in 1..L - n : rest[k] = q[n + k]
  BY <1>1 DEF Parts
<1>3. \A k \in 1..L - n + 1 : n + k \in 1..L + 1
  BY <1>1, SMT
<1>4. x \in [1..L - n + 1 -> Objects]
  BY <1>3
<1>5. x[1] = t[n + 1] /\ x[L - n + 1] = t[L + 1]
  <2>1. /\ 1 \in 1..L - n + 1 /\ L - n + 1 \in 1..L - n + 1
        /\ n + (L - n + 1) = L + 1
    BY <1>1, SMT
  <2> QED
    BY <2>1, Zenon
<1>6. ASSUME NEW k \in 1..L - n PROVE Takes(rest[k], id, x[k], x[k + 1])
  <2>1. /\ k \in 1..L - n + 1 /\ k + 1 \in 1..L - n + 1
        /\ n + k \in 1..L /\ n + (k + 1) = (n + k) + 1
    BY <1>1, SMT
  <2>2. x[k] = t[n + k] /\ x[k + 1] = t[(n + k) + 1]
    BY <2>1
  <2>3. Takes(q[n + k], id, t[n + k], t[(n + k) + 1])
    BY <2>1 DEF Course
  <2> QED
    BY <1>2, <2>2, <2>3
<1> HIDE DEF x
<1>7. Course(x, s, rest, id)
  BY <1>2, <1>4, <1>5, <1>6 DEF Course
<1> QED
  BY <1>2, <1>4, <1>5, <1>7

-----------------------------------------------------------------------------
(* Sending.                                                                *)

LEMMA EachOnce ==
  ASSUME NEW S \in SUBSET Ids, NEW order \in SetToSeqs(S)
  PROVE  /\ order \in Seq(S)
         /\ \A i, j \in 1..Len(order) : i # j => order[i] # order[j]
         /\ \A id \in S : \E i \in 1..Len(order) : order[i] = id
<1> DEFINE D == 1..Cardinality(S)
<1>1. IsFiniteSet(S) /\ Cardinality(S) \in Nat
  <2>1. IsFiniteSet(Ids)
    BY FS_Interval, ReplicationAssumption DEF Ids
  <2>2. IsFiniteSet(S)
    BY <2>1, FS_Subset
  <2> QED
    BY <2>2, FS_CardinalityType
<1>2. order \in [D -> S] /\ \A i, j \in D : i # j => order[i] # order[j]
  BY DEF SetToSeqs
<1>3. order \in Injection(D, S)
  BY <1>2 DEF Injection, IsInjective
<1>4. IsFiniteSet(D) /\ Cardinality(D) = Cardinality(S)
  <2>1. IsFiniteSet(D) /\ Cardinality(D) = IF 1 > Cardinality(S) THEN 0
                                           ELSE Cardinality(S) - 1 + 1
    BY <1>1, FS_Interval
  <2> HIDE DEF D
  <2> QED
    BY <2>1, <1>1
<1>5. order \in Surjection(D, S)
  BY <1>1, <1>3, <1>4, FS_Injection
<1>6. \A id \in S : \E i \in D : order[i] = id
  BY <1>5 DEF Surjection
<1>7. order \in Seq(S) /\ Len(order) = Cardinality(S)
  BY <1>1, <1>2
<1> QED
  BY <1>2, <1>6, <1>7

LEMMA Prefix ==
  ASSUME NEW q \in Seq(Messages), NEW n \in 0..Len(q)
  PROVE  LET p == SubSeq(q, 1, n)
         IN  p \in Seq(Messages) /\ Len(p) = n /\ \A k \in 1..n : p[k] = q[k]
<1>1. SubSeq(q, 1, n) \in Seq(Messages) /\ Len(SubSeq(q, 1, n)) = n
  OBVIOUS
<1>2. \A k \in 1..n : SubSeq(q, 1, n)[k] = q[k]
  OBVIOUS
<1> QED
  BY <1>1, <1>2

\* An open Link takes the messages up to one that does not fit.
LEMMA SentPrefix ==
  ASSUME NEW c, link[c] = "open", channel[c] \in Seq(Messages),
         Len(channel[c]) <= LinkCapacity, NEW messages \in Seq(Messages)
  PROVE  \E n \in 0..Len(messages) :
           /\ Sent(c, messages) = channel[c] \o SubSeq(messages, 1, n)
           /\ Len(channel[c]) + n <= LinkCapacity
           /\ Refused(c, messages) = {messages[i].id : i \in n + 1..Len(messages)}
<1> DEFINE q == channel[c]
           L == Len(channel[c])
           N == Len(messages)
           m == Min({L + N, LinkCapacity})
           n == m - L
<1>1. L \in Nat /\ N \in Nat /\ LinkCapacity \in Nat
  BY ReplicationAssumption
<1>2. m \in {L + N, LinkCapacity} /\ m <= L + N /\ m <= LinkCapacity
  <2>1. \E y \in {L + N, LinkCapacity} :
          \A z \in {L + N, LinkCapacity} : y <= z
    BY <1>1, SMT
  <2> QED
    BY <2>1 DEF Min
<1> HIDE DEF m
<1>3. n \in 0..N /\ L + n = m /\ m \in Nat
  BY <1>1, <1>2, SMT
<1>4. Sent(c, messages) = SubSeq(q \o messages, 1, m)
  <2>1. Len(q \o messages) = L + N
    OBVIOUS
  <2> QED
    BY <2>1, Zenon DEF Sent, m
<1> HIDE DEF n
<1>5. SubSeq(q \o messages, 1, m) = q \o SubSeq(messages, 1, n)
  <2> DEFINE a == SubSeq(q \o messages, 1, m)
             b == q \o SubSeq(messages, 1, n)
  <2>1. Len(q \o messages) = L + N /\ q \o messages \in Seq(Messages)
    OBVIOUS
  <2>2. a \in Seq(Messages) /\ Len(a) = m
    BY <2>1, <1>1, <1>2, <1>3
  <2>3. SubSeq(messages, 1, n) \in Seq(Messages) /\ Len(SubSeq(messages, 1, n)) = n
    BY <1>1, <1>3
  <2>4. b \in Seq(Messages) /\ Len(b) = m
    BY <2>3, <1>3
  <2>5. ASSUME NEW k \in 1..m PROVE a[k] = b[k]
    <3>1. a[k] = (q \o messages)[k]
      BY <2>1, <1>1, <1>2, <1>3
    <3>2. CASE k <= L
      <4>1. k \in 1..L
        BY <3>2, <1>1, SMT
      <4>2. (q \o messages)[k] = q[k]
        BY <4>1, <1>1
      <4>3. b[k] = q[k]
        BY <4>1, <2>3, <1>1
      <4> QED
        BY <3>1, <4>2, <4>3
    <3>3. CASE k > L
      <4>1. k - L \in 1..n /\ k - L \in 1..N /\ k = L + (k - L)
        BY <3>3, <1>1, <1>2, <1>3, SMT
      <4>2. (q \o messages)[k] = messages[k - L]
        BY <4>1, <3>3, <1>1
      <4>3. b[k] = SubSeq(messages, 1, n)[k - L]
        BY <4>1, <2>3, <3>3, <1>1
      <4>4. SubSeq(messages, 1, n)[k - L] = messages[k - L]
        BY <4>1, <1>3
      <4> QED
        BY <3>1, <4>2, <4>3, <4>4
    <3>4. k <= L \/ k > L
      BY <1>1, <1>3, SMT
    <3> QED
      BY <3>2, <3>3, <3>4
  <2> HIDE DEF a, b
  <2>6. a = b
    BY <2>2, <2>4, <2>5
  <2> QED
    BY <2>6 DEF a, b
<1>6. Len(Sent(c, messages)) - L = n
  <2>1. Len(SubSeq(messages, 1, n)) = n
    BY <1>1, <1>3
  <2>2. Len(Sent(c, messages)) = L + n
    BY <1>3, <1>4, <1>5, <2>1
  <2> QED
    BY <2>2, <1>1, <1>3, SMT
<1> QED
  BY <1>2, <1>3, <1>4, <1>5, <1>6 DEF Refused

LEMMA SentType ==
  ASSUME NEW c, channel[c] \in Seq(Messages), Len(channel[c]) <= LinkCapacity,
         NEW messages \in Seq(Messages)
  PROVE  Sent(c, messages) \in Seq(Messages) /\ Len(Sent(c, messages)) <= LinkCapacity
<1>1. CASE link[c] = "open"
  <2>1. PICK n \in 0..Len(messages) :
          /\ Sent(c, messages) = channel[c] \o SubSeq(messages, 1, n)
          /\ Len(channel[c]) + n <= LinkCapacity
    BY <1>1, SentPrefix
  <2>2. SubSeq(messages, 1, n) \in Seq(Messages) /\ Len(SubSeq(messages, 1, n)) = n
    OBVIOUS
  <2>3. /\ channel[c] \o SubSeq(messages, 1, n) \in Seq(Messages)
        /\ Len(channel[c] \o SubSeq(messages, 1, n)) = Len(channel[c]) + n
    <3>1. \A a, b \in Seq(Messages) :
            a \o b \in Seq(Messages) /\ Len(a \o b) = Len(a) + Len(b)
      OBVIOUS
    <3> QED
      BY <2>2, <3>1, Zenon
  <2> QED
    BY <2>1, <2>3
<1>2. CASE link[c] # "open"
  BY <1>2 DEF Sent
<1> QED
  BY <1>1, <1>2

\* Of the messages of the objects S, in any order, the Link takes the one of an
\* object of which none was refused.
LEMMA SentOnce ==
  ASSUME NEW c, link[c] = "open", channel[c] \in Seq(Messages),
         Len(channel[c]) <= LinkCapacity,
         NEW S \in SUBSET Ids, NEW order \in SetToSeqs(S),
         NEW messages \in Seq(Messages), Len(messages) = Len(order),
         \A i \in 1..Len(order) : messages[i].id = order[i],
         NEW id \in Ids, id \notin Refused(c, messages),
         NEW last, NEW s,
         id \notin S => s = last,
         \A i \in 1..Len(order) :
           order[i] = id => Takes(messages[i], id, last, s)
  PROVE  Extends(channel[c], Sent(c, messages), id, last, s)
<1> DEFINE N == Len(messages)
<1>1. PICK n \in 0..N :
        /\ Sent(c, messages) = channel[c] \o SubSeq(messages, 1, n)
        /\ Refused(c, messages) = {messages[i].id : i \in n + 1..N}
  BY SentPrefix
<1>p. PICK p : p = SubSeq(messages, 1, n)
  OBVIOUS
<1>2. N \in Nat /\ n \in Nat /\ n <= N
  OBVIOUS
<1>3. p \in Seq(Messages) /\ Len(p) = n /\ \A k \in 1..n : p[k] = messages[k]
  BY <1>p, Prefix
<1>4. /\ order \in Seq(S)
      /\ \A i, j \in 1..N : i # j => order[i] # order[j]
      /\ \A e \in S : \E i \in 1..N : order[i] = e
  <2>1. N = Len(order)
    OBVIOUS
  <2> HIDE DEF N
  <2> QED
    BY <2>1, EachOnce
<1>5. \A k \in 1..n : k \in 1..N
  BY <1>2, SMT
<1>6. \A k \in 1..n : p[k].id = order[k]
  BY <1>3, <1>5
<1>9. p \in Seq(Messages)
  BY <1>3
<1>7. CASE id \notin S
  <2>1. \A k \in 1..N : order[k] # id
    BY <1>4, <1>7
  <2>2. \A k \in 1..Len(p) : p[k].id # id
    BY <2>1, <1>3, <1>5, <1>6
  <2>3. 0 \in 0..Len(p)
    BY <1>2, <1>3
  <2>4. TakesOnce(p, 0, id, last, s)
    BY <1>7, <2>2 DEF TakesOnce
  <2> QED
    BY <1>1, <1>9, <1>p, <2>3, <2>4 DEF Extends
<1>8. CASE id \in S
  <2>1. PICK i \in 1..N : order[i] = id
    BY <1>4, <1>8
  <2>2. i \in 1..n
    <3>1. i \notin n + 1..N
      BY <1>1, <2>1
    <3> QED
      BY <3>1, <1>2, SMT
  <2>3. \A k \in 1..Len(p) : k # i => p[k].id # id
    BY <2>1, <1>3, <1>4, <1>5, <1>6
  <2>4. i \in 0..Len(p) /\ i # 0
    BY <2>2, <1>2, <1>3, SMT
  <2>5. Takes(p[i], id, last, s)
    <3>1. p[i] = messages[i]
      BY <1>3, <2>2
    <3>2. Takes(messages[i], id, last, s)
      BY <2>1
    <3> QED
      BY <3>1, <3>2
  <2>6. TakesOnce(p, i, id, last, s)
    BY <2>3, <2>4, <2>5 DEF TakesOnce
  <2> QED
    BY <1>1, <1>9, <1>p, <2>4, <2>6 DEF Extends
<1> QED
  BY <1>7, <1>8

\* What Send() writes for an object, and what it does to a replica that the
\* server knows about.
LEMMA MessageTakes ==
  ASSUME TypeOK, NEW pending \in [Ids -> {"none", "create", "update", "destroy"}],
         NEW id \in Ids, pending[id] # "none",
         NEW r \in Objects
  PROVE  /\ Message(pending, id) \in Messages /\ Message(pending, id).id = id
         /\ (pending[id] = "create" <=> r = Absent)
            /\ (pending[id] = "update" => r.stat = id) =>
              Takes(Message(pending, id), id, r,
                    IF pending[id] = "destroy" THEN Absent
                                               ELSE [stat |-> id, dyn |-> dyn[id]])
<1>1. dyn[id] \in Values /\ 0 \in Values
  BY ValuesTypes DEF TypeOK
<1>2. pending[id] \in {"create", "update", "destroy"}
  OBVIOUS
<1>3. CASE pending[id] = "create"
  BY <1>1, <1>3 DEF Message, Create, Messages, Takes
<1>4. CASE pending[id] = "update"
  <2>1. Message(pending, id) = Change(id)
    BY <1>4 DEF Message
  <2>2. Change(id) \in Messages /\ Change(id).id = id /\ Change(id).type = "update"
        /\ Change(id).dyn = dyn[id]
    BY <1>1 DEF Change, Messages
  <2>3. r.stat = id => [r EXCEPT !.dyn = dyn[id]] = [stat |-> id, dyn |-> dyn[id]]
    BY DEF Objects
  <2> QED
    BY <1>4, <2>1, <2>2, <2>3 DEF Takes
<1>5. CASE pending[id] = "destroy"
  BY <1>1, <1>5 DEF Message, Destroy, Messages, Takes
<1> QED
  BY <1>2, <1>3, <1>4, <1>5

-----------------------------------------------------------------------------
(* The invariant holds initially.                                          *)

LEMMA EmptyCourse ==
  ASSUME NEW r \in Objects, NEW id \in Ids
  PROVE  Leads(<<>>, id, r, r)
<1> DEFINE t == [k \in 1..1 |-> r]
<1>1. t \in [1..1 -> Objects] /\ t[1] = r
  OBVIOUS
<1>2. Len(<<>>) = 0 /\ 1..0 = {} /\ 0 + 1 = 1
  OBVIOUS
<1> HIDE DEF t
<1> QED
  BY <1>1, <1>2 DEF Course, Leads

LEMMA Opening == Init => Replication
<1> SUFFICES ASSUME Init PROVE Replication
  OBVIOUS
<1> USE DEF Init
<1>1. TypeOK
  <2>1. lastId \in 0..MaxObjects
    BY ReplicationAssumption
  <2>2. dyn \in [Ids -> Values] /\ NoFailure \in Failures /\ Absent \in Objects
    BY ValuesTypes
  <2>3. replica \in [Clients -> [Ids -> Objects]] /\ failed \in [Clients -> Failures]
    BY <2>2
  <2>4. channel \in [Clients -> Seq(Messages)]
    OBVIOUS
  <2> QED
    BY <2>1, <2>2, <2>3, <2>4 DEF TypeOK, Objects, Failures
<1>2. UpdatesResolve /\ ModifiedPending /\ FreshIds
  BY DEF UpdatesResolve, ModifiedPending, FreshIds
<1>3. Bounded
  BY ReplicationAssumption DEF Bounded
<1>4. Consistent
  <2>1. ASSUME NEW c \in Clients, NEW id \in Ids
        PROVE  Absent \in Objects /\ Leads(channel[c], id, replica[c][id], Absent)
    <3>1. channel[c] = <<>> /\ replica[c][id] = Absent
      OBVIOUS
    <3> QED
      BY <3>1, EmptyCourse, ValuesTypes
  <2> QED
    BY <2>1 DEF Consistent, OnCourse, Subscribed
<1>5. OnlyTaintedFail
  BY DEF OnlyTaintedFail, Running
<1> QED
  BY <1>1, <1>2, <1>3, <1>4, <1>5 DEF Replication

-----------------------------------------------------------------------------
(* Calls that neither send nor receive.                                    *)

LEMMA StaysOnCourse ==
  ASSUME NEW c, NEW id, NEW q, q = channel'[c], NEW r, r = replica'[c][id],
         NEW s \in Objects, Leads(q, id, r, s),
         Subscribed(c)' => Assumed(id, s)'
  PROVE  OnCourse(c, id)'
BY DEF OnCourse

\* So it is for a client to which nothing is sent and that receives nothing.
LEMMA NothingSent ==
  ASSUME NEW c, NEW id, OnCourse(c, id),
         channel'[c] = channel[c], replica'[c] = replica[c],
         Subscribed(c)' => Subscribed(c),
         \A r \in Objects : Subscribed(c)' /\ Assumed(id, r) => Assumed(id, r)'
  PROVE  OnCourse(c, id)'
<1>1. PICK s \in Objects :
        /\ Leads(channel[c], id, replica[c][id], s)
        /\ Subscribed(c) => Assumed(id, s)
  BY DEF OnCourse
<1>2. Subscribed(c)' => Assumed(id, s)'
  BY <1>1
<1>3. PICK q : q = channel[c]
  OBVIOUS
<1>4. PICK r : r = replica[c][id]
  OBVIOUS
<1>5. q = channel'[c] /\ r = replica'[c][id] /\ Leads(q, id, r, s)
  BY <1>1, <1>3, <1>4
<1> QED
  BY <1>2, <1>5, StaysOnCourse

LEMMA Undisturbed ==
  ASSUME Bounded, Consistent, OnlyTaintedFail,
         UNCHANGED <<channel, replica, failed, tainted>>,
         \A c \in Clients : Subscribed(c)' => Subscribed(c),
         \A id \in Ids, r \in Objects : Assumed(id, r) => Assumed(id, r)'
  PROVE  Bounded' /\ Consistent' /\ OnlyTaintedFail'
<1>1. Bounded' /\ OnlyTaintedFail'
  BY DEF Bounded, OnlyTaintedFail, Running
<1>2. ASSUME NEW c \in Clients, Running(c)', NEW id \in Ids \ tainted[c]
      PROVE  OnCourse(c, id)'
  <2>1. Running(c)
    BY <1>2 DEF Running
  <2>2. OnCourse(c, id)
    BY <1>2, <2>1 DEF Consistent
  <2> QED
    BY <1>2, <2>2, NothingSent
<1> QED
  BY <1>1, <1>2 DEF Consistent
LEMMA CreateObjectKeeps ==
  ASSUME Replication, CreateObject PROVE Replication'
<1> USE DEF Replication
<1> DEFINE new == lastId + 1
<1>1. new \in Ids /\ new \notin objects /\ updates[new] = "none" /\ lastId' = new
  <2>1. lastId \in Nat /\ lastId < MaxObjects /\ lastId' = new
    BY ReplicationAssumption DEF TypeOK, CreateObject
  <2>2. new \in Ids /\ new > lastId /\ new \notin 1..lastId
    BY <2>1, ReplicationAssumption DEF Ids
  <2> QED
    BY <2>1, <2>2 DEF FreshIds
<1>2. /\ objects' = objects \union {new}
      /\ modified' = [modified EXCEPT ![new] = TRUE]
      /\ updates' = [updates EXCEPT ![new] = "create"]
      /\ UNCHANGED <<dyn, clients, link, channel, client, history>>
  BY <1>1 DEF CreateObject
<1>3. TypeOK'
  <2>1. lastId' \in 0..MaxObjects
    BY <1>1, ReplicationAssumption DEF Ids
  <2> HIDE DEF new
  <2> QED
    BY <1>1, <1>2, <2>1 DEF TypeOK, client, history
<1>4. FreshIds'
  <2>1. objects' \subseteq 1..lastId'
    BY <1>1, <1>2, ReplicationAssumption DEF TypeOK, FreshIds
  <2>2. ASSUME NEW id \in Ids, id > lastId' PROVE updates'[id] = "none"
    <3>1. id > lastId /\ id # new
      BY <1>1, <2>2, ReplicationAssumption DEF TypeOK, Ids
    <3> HIDE DEF new
    <3> QED
      BY <1>2, <3>1 DEF FreshIds, TypeOK
  <2> QED
    BY <2>1, <2>2 DEF FreshIds
<1> HIDE DEF new
<1>5. UpdatesResolve' /\ ModifiedPending'
  BY <1>1, <1>2 DEF UpdatesResolve, ModifiedPending, TypeOK, history
<1>6. Bounded' /\ Consistent' /\ OnlyTaintedFail'
  <2>1. ASSUME NEW id \in Ids, NEW r \in Objects, Assumed(id, r)
        PROVE  Assumed(id, r)'
    BY <1>1, <1>2, <2>1 DEF Assumed, TypeOK, history
  <2>2. \A c \in Clients : Subscribed(c)' => Subscribed(c)
    BY <1>2 DEF Subscribed, Running, client
  <2>3. UNCHANGED <<channel, replica, failed, tainted>>
    BY <1>2 DEF client, history
  <2> QED
    BY <2>1, <2>2, <2>3, Undisturbed
<1> QED
  BY <1>3, <1>4, <1>5, <1>6

LEMMA SetValueKeeps ==
  ASSUME Replication, NEW id \in Ids, NEW value \in Values, SetValue(id, value)
  PROVE  Replication'
<1> USE DEF Replication
<1>1. /\ id \in objects
      /\ dyn' = [dyn EXCEPT ![id] = value]
      /\ modified' = [modified EXCEPT ![id] = TRUE]
      /\ UNCHANGED <<lastId, objects, clients, link, channel, client, history>>
  BY DEF SetValue
<1>2. /\ updates' \in [Ids -> {"none", "create", "update", "destroy"}]
      /\ \A i \in Ids : i # id => updates'[i] = updates[i]
      /\ updates'[id] = IF modified[id] \/ updates[id] = "create" THEN updates[id]
                                                                  ELSE "update"
  <2>1. CASE modified[id]
    BY <2>1 DEF SetValue, TypeOK
  <2>2. CASE ~ modified[id]
    <3>1. updates' = Updated(updates, {id})
      BY <2>2 DEF SetValue
    <3> QED
      BY <2>2, <3>1 DEF Updated, TypeOK
  <2> QED
    BY <2>1, <2>2
<1>3. TypeOK'
  BY <1>1, <1>2 DEF TypeOK, client, history
<1>4. FreshIds'
  <2>1. id \in 1..lastId /\ lastId \in Nat
    BY <1>1, ReplicationAssumption DEF FreshIds, TypeOK
  <2>2. \A i \in Ids : i > lastId => i # id
    BY <2>1 DEF Ids
  <2> QED
    BY <1>1, <1>2, <2>2 DEF FreshIds
<1>5. UpdatesResolve' /\ ModifiedPending'
  BY <1>1, <1>2 DEF UpdatesResolve, ModifiedPending, TypeOK, history
<1>6. Bounded' /\ Consistent' /\ OnlyTaintedFail'
  <2>1. ASSUME NEW i \in Ids, NEW r \in Objects, Assumed(i, r)
        PROVE  Assumed(i, r)'
    <3>1. CASE i # id
      BY <1>1, <1>2, <2>1, <3>1 DEF Assumed, TypeOK, history
    <3>2. CASE i = id
      BY <1>1, <1>2, <2>1, <3>2 DEF Assumed, TypeOK, history, ModifiedPending,
                                     UpdatesResolve
    <3> QED
      BY <3>1, <3>2
  <2>2. \A c \in Clients : Subscribed(c)' => Subscribed(c)
    BY <1>1 DEF Subscribed, Running, client
  <2>3. UNCHANGED <<channel, replica, failed, tainted>>
    BY <1>1 DEF client, history
  <2> QED
    BY <2>1, <2>2, <2>3, Undisturbed
<1> QED
  BY <1>3, <1>4, <1>5, <1>6

LEMMA MoveObjectKeeps ==
  ASSUME Replication, NEW id \in Ids, MoveObject(id) PROVE Replication'
<1> USE DEF Replication
<1>1. /\ id \in objects
      /\ modified' = [modified EXCEPT ![id] = TRUE]
      /\ moved' = IF updates[id] = "none" THEN moved \union {id} ELSE moved
      /\ UNCHANGED <<lastId, objects, dyn, updates, clients, link, channel, client,
                     tainted>>
  BY DEF MoveObject
<1>2. TypeOK' /\ FreshIds' /\ UpdatesResolve' /\ ModifiedPending'
  BY <1>1 DEF TypeOK, FreshIds, UpdatesResolve, ModifiedPending, client
<1>3. Bounded' /\ Consistent' /\ OnlyTaintedFail'
  <2>1. ASSUME NEW i \in Ids, NEW r \in Objects, Assumed(i, r)
        PROVE  Assumed(i, r)'
    BY <1>1, <2>1 DEF Assumed
  <2>2. \A c \in Clients : Subscribed(c)' => Subscribed(c)
    BY <1>1 DEF Subscribed, Running, client
  <2>3. UNCHANGED <<channel, replica, failed, tainted>>
    BY <1>1 DEF client
  <2> QED
    BY <2>1, <2>2, <2>3, Undisturbed
<1> QED
  BY <1>2, <1>3

LEMMA RemoveObjectKeeps ==
  ASSUME Replication, NEW id \in Ids, RemoveObject(id) PROVE Replication'
<1> USE DEF Replication
<1>1. /\ id \in objects /\ objects' = objects \ {id}
      /\ updates' = [updates EXCEPT ![id] = IF updates[id] = "create" THEN "none"
                                                                     ELSE "destroy"]
      /\ dyn' = [dyn EXCEPT ![id] = 0] /\ modified' = [modified EXCEPT ![id] = FALSE]
      /\ moved' = moved \ {id}
      /\ UNCHANGED <<lastId, clients, link, channel, client, tainted>>
  BY DEF RemoveObject, Removed
<1>2. TypeOK'
  <2>1. dyn' \in [Ids -> Values]
    BY <1>1, ValuesTypes DEF TypeOK
  <2> QED
    BY <1>1, <2>1 DEF TypeOK, client
<1>3. FreshIds'
  <2>1. id \in 1..lastId /\ lastId \in Nat
    BY <1>1, ReplicationAssumption DEF FreshIds, TypeOK
  <2>2. \A i \in Ids : i > lastId => i # id
    BY <2>1 DEF Ids
  <2> QED
    BY <1>1, <2>2 DEF FreshIds, TypeOK
<1>4. UpdatesResolve' /\ ModifiedPending'
  BY <1>1 DEF UpdatesResolve, ModifiedPending, TypeOK
<1>5. Bounded' /\ Consistent' /\ OnlyTaintedFail'
  <2>1. ASSUME NEW i \in Ids, NEW r \in Objects, Assumed(i, r)
        PROVE  Assumed(i, r)'
    <3>1. CASE i # id
      BY <1>1, <2>1, <3>1 DEF Assumed, TypeOK
    <3>2. CASE i = id
      BY <1>1, <2>1, <3>2 DEF Assumed, TypeOK, UpdatesResolve
    <3> QED
      BY <3>1, <3>2
  <2>2. \A c \in Clients : Subscribed(c)' => Subscribed(c)
    BY <1>1 DEF Subscribed, Running, client
  <2>3. UNCHANGED <<channel, replica, failed, tainted>>
    BY <1>1 DEF client
  <2> QED
    BY <2>1, <2>2, <2>3, Undisturbed
<1> QED
  BY <1>2, <1>3, <1>4, <1>5

\* What a process does with its Links, short of sending and receiving.
LEMMA LinksKeep ==
  ASSUME Replication, NEW c \in Clients,
         \/ RemoveClient(c) \/ AddServer(c) \/ RemoveServer(c)
         \/ ClientDropsLink(c) \/ Disconnect(c)
  PROVE  Replication'
<1> USE DEF Replication
<1>1. UNCHANGED <<lastId, objects, dyn, modified, updates, channel, replica, failed,
                  tainted, moved>>
  BY DEF RemoveClient, AddServer, RemoveServer, ClientDropsLink, Disconnect,
         server, client, history
<1>2. \/ link' = link
      \/ link' = [link EXCEPT ![c] = "shut"]
  BY DEF RemoveClient, AddServer, RemoveServer, ClientDropsLink, Disconnect
<1>3. clients' \subseteq clients /\ attached' \subseteq Clients
  BY DEF RemoveClient, AddServer, RemoveServer, ClientDropsLink, Disconnect,
         server, client, TypeOK
<1>4. TypeOK' /\ FreshIds' /\ UpdatesResolve' /\ ModifiedPending'
  BY <1>1, <1>2, <1>3 DEF TypeOK, FreshIds, UpdatesResolve, ModifiedPending
<1>5. Bounded' /\ Consistent' /\ OnlyTaintedFail'
  <2>1. \A i \in Ids, r \in Objects : Assumed(i, r) => Assumed(i, r)'
    BY <1>1 DEF Assumed
  <2>2. ASSUME NEW d \in Clients, Subscribed(d)' PROVE Subscribed(d)
    <3>1. link'[d] = "open" => link[d] = "open"
      BY <1>2 DEF TypeOK
    <3> QED
      BY <1>1, <1>3, <2>2, <3>1 DEF Subscribed, Running
  <2> QED
    BY <1>1, <2>1, <2>2, Undisturbed
<1> QED
  BY <1>4, <1>5
\* A Link replaces one that was shut: nothing is on its way.
LEMMA ConnectKeeps ==
  ASSUME Replication, NEW c \in Clients, Connect(c) PROVE Replication'
<1> USE DEF Replication
<1>1. /\ Running(c) /\ c \notin clients
      /\ link' = [link EXCEPT ![c] = "open"]
      /\ channel' = [channel EXCEPT ![c] = <<>>]
      /\ tainted' = [tainted EXCEPT ![c] = {}]
      /\ UNCHANGED <<lastId, objects, dyn, modified, updates, clients, attached,
                     replica, failed, moved>>
  BY DEF Connect, server, client
<1>2. TypeOK' /\ FreshIds' /\ UpdatesResolve' /\ ModifiedPending'
  <2>1. channel' \in [Clients -> Seq(Messages)]
    BY <1>1 DEF TypeOK
  <2> QED
    BY <1>1, <2>1 DEF TypeOK, FreshIds, UpdatesResolve, ModifiedPending
<1>3. Bounded'
  <2>1. Len(<<>>) <= LinkCapacity
    BY ReplicationAssumption
  <2> QED
    BY <1>1, <2>1 DEF Bounded, TypeOK
<1>4. OnlyTaintedFail'
  BY <1>1 DEF OnlyTaintedFail, Running, TypeOK
<1>5. ASSUME NEW d \in Clients, Running(d)', NEW id \in Ids \ tainted'[d]
      PROVE  OnCourse(d, id)'
  <2>1. CASE d = c
    <3>1. channel'[d] = <<>> /\ ~ Subscribed(d)' /\ replica' = replica
      BY <1>1, <2>1 DEF TypeOK, Subscribed
    <3>2. replica[d][id] \in Objects
      BY <1>5 DEF TypeOK, Objects
    <3>3. PICK r : r = replica[d][id]
      OBVIOUS
    <3>4. r \in Objects /\ Leads(<<>>, id, r, r)
      BY <1>5, <3>2, <3>3, EmptyCourse
    <3> QED
      BY <3>1, <3>3, <3>4, StaysOnCourse
  <2>2. CASE d # c
    <3>1. /\ channel'[d] = channel[d] /\ tainted'[d] = tainted[d] /\ replica' = replica
          /\ link'[d] = link[d] /\ clients' = clients /\ failed' = failed
      BY <1>1, <2>2 DEF TypeOK
    <3>2. Running(d) /\ (Subscribed(d)' => Subscribed(d))
      BY <1>5, <3>1 DEF Running, Subscribed
    <3>3. \A r : Assumed(id, r) => Assumed(id, r)'
      BY <1>1 DEF Assumed
    <3>4. OnCourse(d, id)
      BY <1>5, <3>1, <3>2 DEF Consistent
    <3> QED
      BY <3>1, <3>2, <3>3, <3>4, NothingSent
  <2> QED
    BY <2>1, <2>2
<1>6. Consistent'
  BY <1>5 DEF Consistent
<1> QED
  BY <1>2, <1>3, <1>4, <1>6

-----------------------------------------------------------------------------
(* The server's synchronizer sends.                                        *)

LEMMA RefusedType ==
  ASSUME NEW c, channel[c] \in Seq(Messages), Len(channel[c]) <= LinkCapacity,
         NEW messages \in Seq(Messages)
  PROVE  Refused(c, messages) \in SUBSET Ids
<1>1. \A i \in 1..Len(messages) : messages[i].id \in Ids
  <2>1. \A i \in 1..Len(messages) : messages[i] \in Messages
    OBVIOUS
  <2> QED
    BY <2>1 DEF Messages
<1>2. CASE link[c] = "open"
  <2>1. PICK n \in 0..Len(messages) :
          Refused(c, messages) = {messages[i].id : i \in n + 1..Len(messages)}
    BY <1>2, SentPrefix
  <2>2. \A i \in n + 1..Len(messages) : i \in 1..Len(messages)
    BY SMT
  <2> QED
    BY <1>1, <2>1, <2>2
<1>3. CASE link[c] # "open"
  <2>1. Sent(c, messages) = channel[c] /\ Len(channel[c]) \in Nat
    BY <1>3 DEF Sent
  <2>2. \A i \in Len(channel[c]) - Len(channel[c]) + 1..Len(messages) :
          i \in 1..Len(messages)
    BY <2>1, SMT
  <2> QED
    BY <1>1, <2>1, <2>2 DEF Refused
<1> QED
  BY <1>2, <1>3

\* One message for each object of S, in some order, is sent on an open Link.
Sending(c, S, order, messages) ==
  /\ link[c] = "open"
  /\ channel[c] \in Seq(Messages) /\ Len(channel[c]) <= LinkCapacity
  /\ S \in SUBSET Ids /\ order \in SetToSeqs(S)
  /\ messages \in Seq(Messages) /\ Len(messages) = Len(order)
  /\ \A i \in 1..Len(order) : messages[i].id = order[i]

\* The message of object id, if it has one, takes its replica from r to s.
TakesAny(S, order, messages, id, r, s) ==
  /\ id \notin S => s = r
  /\ \A i \in 1..Len(order) : order[i] = id => Takes(messages[i], id, r, s)

\* The messages of a Send() lead on.
LEMMA SendGoesOn ==
  ASSUME NEW c, NEW S, NEW order, NEW messages, Sending(c, S, order, messages),
         NEW id \in Ids, id \notin Refused(c, messages),
         NEW r, NEW last, Leads(channel[c], id, r, last),
         NEW s \in Objects, TakesAny(S, order, messages, id, last, s)
  PROVE  Leads(Sent(c, messages), id, r, s)
<1>1. Extends(channel[c], Sent(c, messages), id, last, s)
  BY SentOnce DEF Sending, TakesAny
<1>2. PICK q : q = channel[c]
  OBVIOUS
<1>3. PICK all : all = Sent(c, messages)
  OBVIOUS
<1>4. q \in Seq(Messages) /\ Leads(q, id, r, last) /\ Extends(q, all, id, last, s)
  BY <1>1, <1>2, <1>3 DEF Sending
<1>5. Leads(all, id, r, s)
  BY <1>4, LeadsOn
<1> QED
  BY <1>3, <1>5

LEMMA ServerUpdateKeeps ==
  ASSUME Replication, ServerUpdate PROVE Replication'
<1> USE DEF Replication
<1>1. PICK due \in SUBSET objects :
        LET pending == Updated(updates, due)
            ids  == {id \in Ids : pending[id] # "none"}
            live == IF ids = {} THEN clients ELSE {c \in clients : link[c] = "open"}
        IN  /\ \E order \in SetToSeqs(ids) :
                 LET messages == [i \in DOMAIN order |-> Message(pending, order[i])]
                 IN  /\ channel' = [c \in Clients |->
                          IF c \in live THEN Sent(c, messages) ELSE channel[c]]
                     /\ tainted' = [c \in Clients |->
                          IF c \in live THEN tainted[c] \union Refused(c, messages)
                                        ELSE tainted[c]]
            /\ clients' = live
            /\ modified' = Serialized(ids) /\ moved' = moved \ ids
  BY DEF ServerUpdate
<1> DEFINE pending == Updated(updates, due)
           ids  == {id \in Ids : pending[id] # "none"}
           live == IF ids = {} THEN clients ELSE {c \in clients : link[c] = "open"}
<1>4. PICK order \in SetToSeqs(ids) :
        LET messages == [i \in DOMAIN order |-> Message(pending, order[i])]
        IN  /\ channel' = [c \in Clients |->
                 IF c \in live THEN Sent(c, messages) ELSE channel[c]]
            /\ tainted' = [c \in Clients |->
                 IF c \in live THEN tainted[c] \union Refused(c, messages)
                               ELSE tainted[c]]
  BY <1>1
<1>5. PICK messages : messages = [i \in DOMAIN order |-> Message(pending, order[i])]
  OBVIOUS
<1>6. /\ channel' = [c \in Clients |->
           IF c \in live THEN Sent(c, messages) ELSE channel[c]]
      /\ tainted' = [c \in Clients |->
           IF c \in live THEN tainted[c] \union Refused(c, messages)
                         ELSE tainted[c]]
  BY <1>4, <1>5
<1>7. /\ clients' = live /\ moved' = moved \ ids
      /\ modified' = Serialized(ids)
      /\ updates' = [id \in Ids |-> "none"]
      /\ UNCHANGED <<lastId, objects, dyn, link, attached, replica, failed>>
  BY <1>1 DEF ServerUpdate, client
<1>8. /\ pending \in [Ids -> {"none", "create", "update", "destroy"}]
      /\ \A id \in Ids : pending[id] = IF id \in due /\ updates[id] # "create"
                                         THEN "update" ELSE updates[id]
  BY DEF Updated, TypeOK
<1> HIDE DEF pending
<1>9. ids \in SUBSET Ids /\ \A id \in Ids : id \in ids <=> pending[id] # "none"
  OBVIOUS
<1>10. live \subseteq clients /\ \A c \in clients : link[c] = "open" => c \in live
  OBVIOUS
<1> HIDE DEF ids, live
<1>11. /\ order \in Seq(ids) /\ Len(order) \in Nat /\ DOMAIN order = 1..Len(order)
       /\ \A i \in 1..Len(order) : order[i] \in ids
  <2>1. order \in Seq(ids)
    BY <1>9, EachOnce
  <2> QED
    BY <2>1
<1>12. /\ \A id \in ids : Message(pending, id) \in Messages /\ Message(pending, id).id = id
  BY <1>8, <1>9, MessageTakes, ValuesTypes
<1>13. /\ messages \in Seq(Messages) /\ Len(messages) = Len(order)
       /\ \A i \in 1..Len(order) : messages[i] = Message(pending, order[i])
       /\ \A i \in 1..Len(order) : messages[i].id = order[i]
  <2>1. messages \in [1..Len(order) -> Messages]
    BY <1>5, <1>11, <1>12
  <2>2. messages \in Seq(Messages) /\ Len(messages) = Len(order)
    BY <1>11, <2>1
  <2>3. \A i \in 1..Len(order) : messages[i] = Message(pending, order[i])
    BY <1>5, <1>11
  <2> QED
    BY <1>11, <1>12, <2>2, <2>3
<1>14. ASSUME NEW c \in Clients
       PROVE  /\ channel[c] \in Seq(Messages) /\ Len(channel[c]) <= LinkCapacity
              /\ channel'[c] \in Seq(Messages) /\ Len(channel'[c]) <= LinkCapacity
              /\ tainted'[c] \in SUBSET Ids /\ tainted[c] \subseteq tainted'[c]
  <2>1. channel[c] \in Seq(Messages) /\ Len(channel[c]) <= LinkCapacity
    BY DEF TypeOK, Bounded
  <2>2. /\ Sent(c, messages) \in Seq(Messages)
        /\ Len(Sent(c, messages)) <= LinkCapacity
        /\ Refused(c, messages) \in SUBSET Ids
    BY <1>13, <2>1, SentType, RefusedType
  <2> QED
    BY <1>6, <2>1, <2>2 DEF TypeOK
<1>15. TypeOK'
  <2>1. channel' \in [Clients -> Seq(Messages)] /\ tainted' \in [Clients -> SUBSET Ids]
    BY <1>6, <1>14
  <2>2. modified' \in [Ids -> BOOLEAN]
    BY <1>7 DEF Serialized
  <2> QED
    BY <1>7, <1>10, <2>1, <2>2 DEF TypeOK
<1>16. FreshIds' /\ UpdatesResolve' /\ Bounded'
  BY <1>7, <1>14 DEF FreshIds, UpdatesResolve, Bounded
<1>17. ModifiedPending'
  <2>1. ASSUME NEW id \in objects' \ moved', modified'[id] PROVE FALSE
    <3>1. id \in objects \ moved /\ id \in Ids /\ modified[id] /\ id \notin ids
      BY <1>7, <2>1 DEF Serialized, TypeOK
    <3>2. updates[id] # "none"
      BY <3>1 DEF ModifiedPending
    <3> QED
      BY <1>8, <1>9, <3>1, <3>2
  <2> QED
    BY <2>1 DEF ModifiedPending
<1>18. OnlyTaintedFail'
  BY <1>7, <1>14 DEF OnlyTaintedFail, Running
<1>19. ASSUME NEW c \in Clients, Running(c)', NEW id \in Ids \ tainted'[c]
       PROVE  OnCourse(c, id)'
  <2>1. Running(c) /\ id \in Ids /\ id \notin tainted[c]
    BY <1>7, <1>14, <1>19 DEF Running
  <2>2. OnCourse(c, id)
    BY <2>1 DEF Consistent
  <2>3. CASE c \notin live \/ link[c] # "open"
    <3>1. channel'[c] = channel[c]
      BY <1>6, <2>3 DEF Sent
    <3>2. ~ Subscribed(c)'
      BY <1>7, <2>3 DEF Subscribed
    <3> QED
      BY <1>7, <2>1, <2>2, <3>1, <3>2, NothingSent
  <2>4. CASE c \in live /\ link[c] = "open"
    <3>1. Subscribed(c)
      BY <1>10, <2>1, <2>4 DEF Subscribed
    <3>2. PICK r : r = replica[c][id]
      OBVIOUS
    <3>3. PICK last \in Objects : Leads(channel[c], id, r, last) /\ Assumed(id, last)
      BY <2>2, <3>1, <3>2 DEF OnCourse
    <3>4. last \in Objects /\ Assumed(id, last)
      BY <3>3
    <3>5. PICK s : s = IF id \notin ids THEN last
                       ELSE IF pending[id] = "destroy" THEN Absent
                       ELSE [stat |-> id, dyn |-> dyn[id]]
      OBVIOUS
    <3>6. s \in Objects
      BY <2>1, <3>4, <3>5, ValuesTypes DEF Objects, TypeOK
    <3>7. id \in ids => Takes(Message(pending, id), id, last, s)
      <4> SUFFICES ASSUME id \in ids PROVE Takes(Message(pending, id), id, last, s)
        OBVIOUS
      <4>1. pending[id] # "none"
        BY <1>9, <2>1
      <4>2. pending[id] = "create" <=> last = Absent
        BY <1>8, <2>1, <3>4, <4>1 DEF Assumed, UpdatesResolve, TypeOK
      <4>3. pending[id] = "update" => last.stat = id
        BY <1>8, <2>1, <3>4, <4>1 DEF Assumed, UpdatesResolve, TypeOK
      <4>4. s = IF pending[id] = "destroy" THEN Absent ELSE [stat |-> id, dyn |-> dyn[id]]
        BY <3>5
      <4> QED
        BY <1>8, <2>1, <3>4, <4>1, <4>2, <4>3, <4>4, MessageTakes
    <3>8. Assumed(id, s)'
      <4>1. CASE id \in ids
        <5>1. pending[id] # "none" /\ (pending[id] = "destroy" <=> id \notin objects)
          BY <1>8, <1>9, <2>1, <4>1 DEF UpdatesResolve, TypeOK
        <5>2. id # 0
          BY <2>1, ValuesTypes
        <5> QED
          BY <1>7, <2>1, <3>5, <4>1, <5>1, <5>2 DEF Assumed, Absent
      <4>2. CASE id \notin ids
        <5>1. updates[id] = "none"
          BY <1>8, <1>9, <2>1, <4>2
        <5> QED
          BY <1>7, <2>1, <3>4, <3>5, <4>2, <5>1 DEF Assumed
      <4> QED
        BY <4>1, <4>2
    <3>9. id \notin Refused(c, messages) /\ channel'[c] = Sent(c, messages)
      BY <1>6, <1>19, <2>4
    <3>10. \A i \in 1..Len(order) : order[i] = id => Takes(messages[i], id, last, s)
      BY <1>11, <1>13, <3>7
    <3>11. Leads(Sent(c, messages), id, r, s)
      <4>1. PICK S : S = ids
        OBVIOUS
      <4>2. Sending(c, S, order, messages)
        BY <1>9, <1>13, <1>14, <2>4, <4>1 DEF Sending
      <4>3. TakesAny(S, order, messages, id, last, s)
        BY <3>5, <3>10, <4>1 DEF TakesAny
      <4> QED
        BY <2>1, <3>3, <3>6, <3>9, <4>2, <4>3, SendGoesOn
    <3>12. PICK all : all = Sent(c, messages)
      OBVIOUS
    <3>13. all = channel'[c] /\ r = replica'[c][id] /\ Leads(all, id, r, s)
      BY <1>7, <3>2, <3>9, <3>11, <3>12
    <3> QED
      BY <3>6, <3>8, <3>13, StaysOnCourse
  <2> QED
    BY <2>3, <2>4
<1>20. Consistent'
  BY <1>19 DEF Consistent
<1> QED
  BY <1>15, <1>16, <1>17, <1>18, <1>20
\* A client that holds nothing of an object, and for which no message of it is
\* on its way, will hold nothing of it.
LEMMA IdleCourse ==
  ASSUME NEW q, Len(q) \in Nat, NEW id, NEW r, NEW s, Leads(q, id, r, s),
         \A k \in 1..Len(q) : q[k].id # id
  PROVE  s = r
<1>0. PICK t : Course(t, r, q, id) /\ t[Len(q) + 1] = s
  BY DEF Leads
<1> DEFINE S == {n \in Nat : n <= Len(q) => t[n + 1] = r}
<1>1. t[1] = r /\ \A k \in 1..Len(q) : t[k + 1] = t[k]
  BY <1>0 DEF Course, Takes
<1>2. 0 \in S
  <2>1. 0 \in Nat /\ 0 + 1 = 1
    BY SMT
  <2> QED
    BY <1>1, <2>1
<1>3. ASSUME NEW n \in S PROVE n + 1 \in S
  <2>1. n \in Nat /\ n + 1 \in Nat
    BY SMT
  <2>2. ASSUME n + 1 <= Len(q) PROVE t[(n + 1) + 1] = r
    <3>1. n <= Len(q) /\ n + 1 \in 1..Len(q)
      BY <2>1, <2>2, SMT
    <3>2. t[n + 1] = r
      BY <3>1
    <3> QED
      BY <1>1, <3>1, <3>2
  <2> QED
    BY <2>1, <2>2
<1>4. \A n \in Nat : n \in S
  <2> HIDE DEF S
  <2>1. S \in SUBSET Nat
    BY DEF S
  <2> QED
    BY <1>2, <1>3, <2>1, Induction
<1> QED
  BY <1>0, <1>4

LEMMA AddClientKeeps ==
  ASSUME Replication, NEW c \in Clients, AddClient(c) PROVE Replication'
<1> USE DEF Replication
<1>1. PICK order \in SetToSeqs(objects) :
        LET messages == [i \in DOMAIN order |-> Create(order[i])]
        IN  /\ channel' = [channel EXCEPT ![c] = Sent(c, messages)]
            /\ tainted' = [tainted EXCEPT ![c] =
                 tainted[c] \union Held(c) \union Refused(c, messages)
                   \union {id \in Ids : updates[id] \in {"create", "destroy"}}]
  BY DEF AddClient
<1>2. PICK messages : messages = [i \in DOMAIN order |-> Create(order[i])]
  OBVIOUS
<1>3. /\ channel' = [channel EXCEPT ![c] = Sent(c, messages)]
      /\ tainted' = [tainted EXCEPT ![c] =
           tainted[c] \union Held(c) \union Refused(c, messages)
             \union {id \in Ids : updates[id] \in {"create", "destroy"}}]
  BY <1>1, <1>2
<1>4. /\ link[c] = "open" /\ c \notin clients /\ clients' = clients \union {c}
      /\ modified' = Serialized(objects)
      /\ UNCHANGED <<lastId, objects, dyn, updates, link, attached, replica, failed,
                     moved>>
  BY DEF AddClient, client
<1>5. objects \in SUBSET Ids
  BY DEF TypeOK
<1>6. /\ order \in Seq(objects) /\ Len(order) \in Nat /\ DOMAIN order = 1..Len(order)
      /\ \A i \in 1..Len(order) : order[i] \in objects
  <2>1. order \in Seq(objects)
    BY <1>5, EachOnce
  <2> QED
    BY <2>1
<1>7. \A id \in objects : Create(id) \in Messages /\ Create(id).id = id
  BY <1>5 DEF Create, Messages, TypeOK
<1>8. /\ messages \in Seq(Messages) /\ Len(messages) = Len(order)
      /\ \A i \in 1..Len(order) : messages[i] = Create(order[i])
      /\ \A i \in 1..Len(order) : messages[i].id = order[i]
  <2>1. messages \in [1..Len(order) -> Messages]
    BY <1>2, <1>6, <1>7
  <2>2. messages \in Seq(Messages) /\ Len(messages) = Len(order)
    BY <1>6, <2>1
  <2>3. \A i \in 1..Len(order) : messages[i] = Create(order[i])
    BY <1>2, <1>6
  <2> QED
    BY <1>6, <1>7, <2>2, <2>3
<1>9. /\ channel[c] \in Seq(Messages) /\ Len(channel[c]) <= LinkCapacity
      /\ Sent(c, messages) \in Seq(Messages)
      /\ Len(Sent(c, messages)) <= LinkCapacity
      /\ Refused(c, messages) \in SUBSET Ids /\ Held(c) \in SUBSET Ids
  <2>1. channel[c] \in Seq(Messages) /\ Len(channel[c]) <= LinkCapacity
    BY DEF TypeOK, Bounded
  <2>2. Held(c) \in SUBSET Ids
    BY DEF Held
  <2> QED
    BY <1>8, <2>1, <2>2, SentType, RefusedType
<1>10. /\ \A d \in Clients : tainted[d] \subseteq tainted'[d]
       /\ \A d \in Clients : d # c => channel'[d] = channel[d]
       /\ channel'[c] = Sent(c, messages)
       /\ tainted'[c] = tainted[c] \union Held(c) \union Refused(c, messages)
                          \union {id \in Ids : updates[id] \in {"create", "destroy"}}
  BY <1>3 DEF TypeOK
<1>11. TypeOK'
  <2>1. channel' \in [Clients -> Seq(Messages)]
    BY <1>3, <1>9 DEF TypeOK
  <2>2. tainted' \in [Clients -> SUBSET Ids]
    BY <1>3, <1>9 DEF TypeOK
  <2>3. modified' \in [Ids -> BOOLEAN]
    BY <1>4 DEF Serialized
  <2> QED
    BY <1>4, <2>1, <2>2, <2>3 DEF TypeOK
<1>12. FreshIds' /\ UpdatesResolve' /\ OnlyTaintedFail'
  BY <1>4, <1>10 DEF FreshIds, UpdatesResolve, OnlyTaintedFail, Running
<1>13. Bounded'
  <2>1. ASSUME NEW d \in Clients PROVE Len(channel'[d]) <= LinkCapacity
    BY <1>9, <1>10 DEF Bounded
  <2> QED
    BY <2>1 DEF Bounded
<1>14. ModifiedPending'
  BY <1>4, <1>5 DEF ModifiedPending, Serialized
<1>15. ASSUME NEW d \in Clients, Running(d)', NEW id \in Ids \ tainted'[d]
       PROVE  OnCourse(d, id)'
  <2>1. Running(d) /\ id \in Ids /\ id \notin tainted[d]
    BY <1>4, <1>10, <1>15 DEF Running
  <2>2. OnCourse(d, id)
    BY <2>1 DEF Consistent
  <2>3. \A r : Assumed(id, r) => Assumed(id, r)'
    BY <1>4 DEF Assumed
  <2>4. CASE d # c
    <3>1. channel'[d] = channel[d] /\ replica' = replica
      BY <1>4, <1>10, <2>4
    <3>2. Subscribed(d)' => Subscribed(d)
      BY <1>4, <2>4 DEF Subscribed, Running
    <3> QED
      BY <2>1, <2>2, <2>3, <3>1, <3>2, NothingSent
  <2>5. CASE d = c
    <3>1. /\ id \notin Held(c) /\ id \notin Refused(c, messages)
          /\ updates[id] \in {"none", "update"}
      BY <1>10, <1>15, <2>1, <2>5 DEF TypeOK
    <3>2. PICK r : r = replica[c][id]
      OBVIOUS
    <3>3. PICK last \in Objects : Leads(channel[c], id, r, last)
      BY <2>2, <2>5, <3>2 DEF OnCourse
    <3>4. r = Absent /\ \A k \in 1..Len(channel[c]) : channel[c][k].id # id
      <4>1. Range(channel[c]) = {channel[c][k] : k \in 1..Len(channel[c])}
        BY <1>9 DEF Range
      <4> QED
        BY <2>1, <3>1, <3>2, <4>1 DEF Held
    <3>5. last = Absent
      <4>1. Len(channel[c]) \in Nat
        BY <1>9
      <4>2. last = r
        BY <3>3, <3>4, <4>1, IdleCourse
      <4> QED
        BY <3>4, <4>2
    <3>6. PICK s : s = IF id \in objects THEN [stat |-> id, dyn |-> dyn[id]] ELSE Absent
      OBVIOUS
    <3>7. s \in Objects
      BY <2>1, <3>6, ValuesTypes DEF Objects, TypeOK
    <3>8. Assumed(id, s)'
      <4>1. id # 0
        BY <2>1, ValuesTypes
      <4> QED
        BY <1>4, <2>1, <3>1, <3>6, <4>1 DEF Assumed, Absent, UpdatesResolve
    <3>9. ASSUME NEW i \in 1..Len(order), order[i] = id
          PROVE  Takes(messages[i], id, last, s)
      <4>1. messages[i] = Create(id) /\ id \in objects
        BY <1>6, <1>8, <3>9
      <4>2. last = Absent /\ s = [stat |-> id, dyn |-> dyn[id]]
        BY <3>5, <3>6, <4>1
      <4>3. Takes(Create(id), id, last, s)
        BY <4>2 DEF Takes, Create
      <4> QED
        BY <4>1, <4>3
    <3>10. Leads(Sent(c, messages), id, r, s)
      <4>1. PICK S : S = objects
        OBVIOUS
      <4>2. Sending(c, S, order, messages)
        BY <1>4, <1>5, <1>8, <1>9, <4>1 DEF Sending
      <4>3. TakesAny(S, order, messages, id, last, s)
        BY <3>5, <3>6, <3>9, <4>1 DEF TakesAny
      <4> QED
        BY <2>1, <3>1, <3>3, <3>7, <4>2, <4>3, SendGoesOn
    <3>11. PICK all : all = Sent(c, messages)
      OBVIOUS
    <3>12. all = channel'[c] /\ r = replica'[c][id] /\ Leads(all, id, r, s)
      BY <1>4, <1>10, <3>2, <3>10, <3>11
    <3> QED
      BY <2>5, <3>7, <3>8, <3>12, StaysOnCourse
  <2> QED
    BY <2>4, <2>5
<1>16. Consistent'
  BY <1>15 DEF Consistent
<1> QED
  BY <1>11, <1>12, <1>13, <1>14, <1>16
-----------------------------------------------------------------------------
(* A client receives.                                                      *)

\* What a course says of the first n messages.
LEMMA CourseBefore ==
  ASSUME NEW q \in Seq(Messages), NEW id \in Ids, NEW r,
         NEW t \in [1..Len(q) + 1 -> Objects], Course(t, r, q, id),
         NEW n, NEW p, NEW rest, Parts(q, n, p, rest)
  PROVE  \E x \in [1..Len(p) + 1 -> Objects] :
           Course(x, r, p, id) /\ x[Len(p) + 1] = t[n + 1]
<1> DEFINE x == [k \in 1..n + 1 |-> t[k]]
<1>1. Len(p) = n /\ \A k \in 1..n : p[k] = q[k]
  BY Prefix DEF Parts
<1>2. Len(q) \in Nat /\ n \in Nat /\ n <= Len(q)
  BY DEF Parts
<1>3. \A k \in 1..n + 1 : k \in 1..Len(q) + 1
  BY <1>2, SMT
<1>4. x \in [1..n + 1 -> Objects] /\ \A k \in 1..n + 1 : x[k] = t[k]
  BY <1>3
<1> HIDE DEF x
<1>5. 1 \in 1..n + 1 /\ n + 1 \in 1..n + 1
  BY <1>2, SMT
<1>6. ASSUME NEW k \in 1..n PROVE Takes(p[k], id, x[k], x[k + 1])
  <2>1. k \in 1..Len(q) /\ k \in 1..n + 1 /\ k + 1 \in 1..n + 1
    BY <1>2, SMT
  <2>2. Takes(q[k], id, t[k], t[k + 1])
    BY <2>1 DEF Course
  <2> QED
    BY <1>1, <1>4, <2>1, <2>2
<1>7. x[1] = r
  BY <1>4, <1>5 DEF Course
<1>8. Course(x, r, p, id)
  BY <1>1, <1>4, <1>6, <1>7 DEF Course
<1> QED
  BY <1>1, <1>4, <1>5, <1>8

LEMMA Halves ==
  ASSUME NEW q \in Seq(Messages), NEW id \in Ids, NEW r, NEW s, Leads(q, id, r, s),
         NEW n, NEW p, NEW rest, Parts(q, n, p, rest)
  PROVE  \E v \in Objects : Leads(p, id, r, v) /\ Leads(rest, id, v, s)
<1>1. PICK t \in [1..Len(q) + 1 -> Objects] :
        Course(t, r, q, id) /\ t[Len(q) + 1] = s
  BY DEF Leads
<1>2. PICK v : v = t[n + 1]
  OBVIOUS
<1>3. v \in Objects
  BY <1>2 DEF Parts
<1>4. \E x \in [1..Len(p) + 1 -> Objects] :
        Course(x, r, p, id) /\ x[Len(p) + 1] = t[n + 1]
  BY <1>1, CourseBefore
<1>5. \E x \in [1..Len(rest) + 1 -> Objects] :
        Course(x, v, rest, id) /\ x[Len(rest) + 1] = t[Len(q) + 1]
  BY <1>1, <1>2, CourseAfter
<1> QED
  BY <1>1, <1>2, <1>3, <1>4, <1>5 DEF Leads

\* The result of Receive() is what the messages lead to.
Follows(result, objs, q, ids) ==
  /\ result \in Outcomes
  /\ result.failed # NoFailure => result.failed.id \in ids
  /\ \A id \in Ids, s \in Objects : Leads(q, id, objs[id], s) =>
       /\ result.failed.id # id
       /\ result.failed = NoFailure /\ id \in ids => result.objs[id] = s

LEMMA ReceivedFollows ==
  ASSUME NEW objs \in [Ids -> Objects], NEW q \in Seq(Messages),
         NEW ids \in SUBSET Ids, NEW result, result = Received(objs, q, ids)
  PROVE  Follows(result, objs, q, ids)
<1>1. PICK u : u = Results(objs, q, ids)
  OBVIOUS
<1>2. Len(q) + 1 \in 1..Len(q) + 1
  OBVIOUS
<1>3. result = u[Len(q) + 1]
  BY <1>1 DEF Received
<1>4. \A k \in 1..Len(q) + 1 :
        /\ u[k] \in Outcomes
        /\ u[k].failed # NoFailure => u[k].failed.id \in ids
        /\ \A id \in Ids, t \in [1..Len(q) + 1 -> Objects] :
             Course(t, objs[id], q, id) =>
               /\ u[k].failed.id # id
               /\ u[k].failed = NoFailure /\ id \in ids => u[k].objs[id] = t[k]
  BY <1>1, ResultsFollow
<1>5. ASSUME NEW id \in Ids, NEW s \in Objects, Leads(q, id, objs[id], s)
      PROVE  /\ result.failed.id # id
             /\ result.failed = NoFailure /\ id \in ids => result.objs[id] = s
  <2>1. PICK t \in [1..Len(q) + 1 -> Objects] :
          Course(t, objs[id], q, id) /\ t[Len(q) + 1] = s
    BY <1>5 DEF Leads
  <2> QED
    BY <1>2, <1>3, <1>4, <2>1
<1> QED
  BY <1>2, <1>3, <1>4, <1>5 DEF Follows

LEMMA ClientUpdateKeeps ==
  ASSUME Replication, NEW c \in Clients, ClientUpdate(c) PROVE Replication'
<1> USE DEF Replication
<1>1. PICK n \in 1..Len(channel[c]) :
        LET result == Received(replica[c], SubSeq(channel[c], 1, n), Ids)
        IN  /\ replica' = [replica EXCEPT ![c] = result.objs]
            /\ failed' = [failed EXCEPT ![c] = result.failed]
            /\ channel' = [channel EXCEPT ![c] = SubSeq(channel[c], n + 1, Len(channel[c]))]
  BY DEF ClientUpdate
<1>2. PICK q : q = channel[c]
  OBVIOUS
<1>3. PICK p : p = SubSeq(q, 1, n)
  OBVIOUS
<1>4. PICK rest : rest = SubSeq(q, n + 1, Len(q))
  OBVIOUS
<1>5. PICK objs : objs = replica[c]
  OBVIOUS
<1>6. PICK result : result = Received(objs, p, Ids)
  OBVIOUS
<1>7. /\ replica' = [replica EXCEPT ![c] = result.objs]
      /\ failed' = [failed EXCEPT ![c] = result.failed]
      /\ channel' = [channel EXCEPT ![c] = rest]
  BY <1>1, <1>2, <1>3, <1>4, <1>5, <1>6
<1>8. /\ Running(c)
      /\ UNCHANGED <<lastId, objects, dyn, modified, updates, clients, link, attached,
                     tainted, moved>>
  BY DEF ClientUpdate, server, history
<1>9. q \in Seq(Messages) /\ Len(q) <= LinkCapacity /\ n \in 0..Len(q)
  <2>1. q \in Seq(Messages) /\ Len(q) <= LinkCapacity
    BY <1>2 DEF TypeOK, Bounded
  <2>2. n \in 1..Len(q)
    BY <1>2
  <2> QED
    BY <2>1, <2>2
<1>10. p \in Seq(Messages) /\ Len(p) = n
  BY <1>3, <1>9, Prefix
<1>11. rest \in Seq(Messages) /\ Len(rest) <= LinkCapacity
  <2>1. \A a \in Seq(Messages) : \A k \in 0..Len(a) :
          /\ SubSeq(a, k + 1, Len(a)) \in Seq(Messages)
          /\ Len(SubSeq(a, k + 1, Len(a))) = Len(a) - k
    OBVIOUS
  <2>2. rest \in Seq(Messages) /\ Len(rest) = Len(q) - n
    BY <1>4, <1>9, <2>1, Zenon
  <2> QED
    BY <1>9, <2>2, ReplicationAssumption
<1>12. objs \in [Ids -> Objects]
  BY <1>5 DEF TypeOK, Objects
<1>13. Follows(result, objs, p, Ids)
  BY <1>6, <1>10, <1>12, ReceivedFollows
<1>14. result.objs \in [Ids -> Objects] /\ result.failed \in Failures
  BY <1>13 DEF Outcomes, Follows
<1>15. TypeOK'
  <2>1. replica' \in [Clients -> [Ids -> Objects]] /\ failed' \in [Clients -> Failures]
    BY <1>7, <1>14 DEF TypeOK, Objects, Failures
  <2>2. channel' \in [Clients -> Seq(Messages)]
    BY <1>7, <1>11 DEF TypeOK
  <2> QED
    BY <1>8, <2>1, <2>2 DEF TypeOK, Objects, Failures
<1>16. FreshIds' /\ UpdatesResolve' /\ ModifiedPending'
  BY <1>8 DEF FreshIds, UpdatesResolve, ModifiedPending
<1>17. /\ replica'[c] = result.objs /\ failed'[c] = result.failed /\ channel'[c] = rest
       /\ \A d \in Clients : d # c => /\ replica'[d] = replica[d]
                                      /\ failed'[d] = failed[d]
                                      /\ channel'[d] = channel[d]
  BY <1>7 DEF TypeOK
<1>18. Bounded'
  <2>1. ASSUME NEW d \in Clients PROVE Len(channel'[d]) <= LinkCapacity
    BY <1>11, <1>17 DEF Bounded
  <2> QED
    BY <2>1 DEF Bounded
<1>19. ASSUME NEW id \in Ids \ tainted[c]
       PROVE  /\ result.failed.id # id
              /\ result.failed = NoFailure => OnCourse(c, id)'
  <2>1. PICK r : r = objs[id]
    OBVIOUS
  <2>2. PICK s \in Objects : Leads(q, id, r, s) /\ (Subscribed(c) => Assumed(id, s))
    <3>1. OnCourse(c, id)
      BY <1>8, <1>19 DEF Consistent
    <3> QED
      BY <1>2, <1>5, <2>1, <3>1 DEF OnCourse
  <2>3. Parts(q, n, p, rest)
    BY <1>3, <1>4, <1>9 DEF Parts
  <2>4. PICK v \in Objects : Leads(p, id, r, v) /\ Leads(rest, id, v, s)
    BY <1>9, <2>2, <2>3, Halves
  <2>5. /\ result.failed.id # id
        /\ result.failed = NoFailure => result.objs[id] = v
    BY <1>13, <2>1, <2>4 DEF Follows
  <2>6. ASSUME result.failed = NoFailure PROVE OnCourse(c, id)'
    <3>1. Subscribed(c)' => Assumed(id, s)'
      <4>1. Subscribed(c)' => Subscribed(c)
        BY <1>8 DEF Subscribed
      <4>2. Assumed(id, s) => Assumed(id, s)'
        BY <1>8 DEF Assumed
      <4> QED
        BY <2>2, <4>1, <4>2
    <3>2. rest = channel'[c] /\ v = replica'[c][id]
      BY <1>17, <2>5, <2>6
    <3> QED
      BY <2>2, <2>4, <3>1, <3>2, StaysOnCourse
  <2> QED
    BY <2>5, <2>6
<1>20. OnlyTaintedFail'
  <2>1. ASSUME NEW d \in Clients, ~ Running(d)' PROVE failed'[d].id \in tainted[d]
    <3>1. CASE d = c
      <4>1. result.failed # NoFailure
        BY <1>17, <2>1, <3>1 DEF Running
      <4> QED
        BY <1>13, <1>17, <1>19, <3>1, <4>1 DEF Follows
    <3>2. CASE d # c
      BY <1>17, <2>1, <3>2 DEF Running, OnlyTaintedFail
    <3> QED
      BY <3>1, <3>2
  <2> QED
    BY <1>8, <2>1 DEF OnlyTaintedFail
<1>21. ASSUME NEW d \in Clients, Running(d)', NEW id \in Ids \ tainted'[d]
       PROVE  OnCourse(d, id)'
  <2>1. id \in Ids \ tainted[d]
    BY <1>8
  <2>2. CASE d = c
    <3>1. result.failed = NoFailure
      BY <1>17, <1>21, <2>2 DEF Running
    <3> QED
      BY <1>19, <2>1, <2>2, <3>1
  <2>3. CASE d # c
    <3>1. Running(d) /\ (Subscribed(d)' => Subscribed(d))
      BY <1>8, <1>17, <1>21, <2>3 DEF Running, Subscribed
    <3>2. \A r : Assumed(id, r) => Assumed(id, r)'
      BY <1>8 DEF Assumed
    <3>3. OnCourse(d, id)
      BY <2>1, <3>1 DEF Consistent
    <3> QED
      BY <1>17, <2>1, <2>3, <3>1, <3>2, <3>3, NothingSent
  <2> QED
    BY <2>2, <2>3
<1>22. Consistent'
  BY <1>21 DEF Consistent
<1> QED
  BY <1>15, <1>16, <1>18, <1>20, <1>22
-----------------------------------------------------------------------------
(* The theorems.                                                           *)

LEMMA Preservation ==
  ASSUME Replication, [Next]_vars PROVE Replication'
<1>1. CASE CreateObject
  BY <1>1, CreateObjectKeeps
<1>2. CASE \E id \in Ids : \/ MoveObject(id) \/ RemoveObject(id)
                           \/ \E value \in Values : SetValue(id, value)
  <2>1. PICK id \in Ids : \/ MoveObject(id) \/ RemoveObject(id)
                          \/ \E value \in Values : SetValue(id, value)
    BY <1>2
  <2>2. CASE MoveObject(id)
    BY <2>2, MoveObjectKeeps
  <2>3. CASE RemoveObject(id)
    BY <2>3, RemoveObjectKeeps
  <2>4. CASE \E value \in Values : SetValue(id, value)
    BY <2>4, SetValueKeeps
  <2> QED
    BY <2>1, <2>2, <2>3, <2>4
<1>3. CASE ServerUpdate
  BY <1>3, ServerUpdateKeeps
<1>4. CASE \E c \in Clients :
             \/ AddClient(c) \/ RemoveClient(c) \/ AddServer(c) \/ RemoveServer(c)
             \/ ClientUpdate(c) \/ ClientDropsLink(c) \/ Connect(c) \/ Disconnect(c)
  <2>1. PICK c \in Clients :
             \/ AddClient(c) \/ RemoveClient(c) \/ AddServer(c) \/ RemoveServer(c)
             \/ ClientUpdate(c) \/ ClientDropsLink(c) \/ Connect(c) \/ Disconnect(c)
    BY <1>4
  <2>2. CASE AddClient(c)
    BY <2>2, AddClientKeeps
  <2>3. CASE ClientUpdate(c)
    BY <2>3, ClientUpdateKeeps
  <2>4. CASE Connect(c)
    BY <2>4, ConnectKeeps
  <2>5. CASE \/ RemoveClient(c) \/ AddServer(c) \/ RemoveServer(c)
             \/ ClientDropsLink(c) \/ Disconnect(c)
    BY <2>5, LinksKeep
  <2> QED
    BY <2>1, <2>2, <2>3, <2>4, <2>5
<1>5. CASE UNCHANGED vars
  <2>1. UNCHANGED <<lastId, objects, dyn, modified, updates, clients, link, channel,
                    attached, replica, failed, tainted, moved>>
    BY <1>5 DEF vars, server, client, history
  <2>2. Bounded' /\ Consistent' /\ OnlyTaintedFail'
    <3>1. \A i \in Ids, r \in Objects : Assumed(i, r) => Assumed(i, r)'
      BY <2>1 DEF Assumed
    <3>2. \A c \in Clients : Subscribed(c)' => Subscribed(c)
      BY <2>1 DEF Subscribed, Running
    <3> QED
      BY <2>1, <3>1, <3>2, Undisturbed DEF Replication
  <2>3. TypeOK' /\ UpdatesResolve' /\ ModifiedPending' /\ FreshIds'
    BY <2>1 DEF Replication, TypeOK, UpdatesResolve, ModifiedPending, FreshIds
  <2> QED
    BY <2>2, <2>3 DEF Replication
<1> QED
  BY <1>1, <1>2, <1>3, <1>4, <1>5 DEF Next

\* The server's objects and pending updates, the messages on their way and the
\* clients' replicas stay in step, whatever the calls and their order.
THEOREM ReplicationInvariance == Spec => []Replication
<1>1. Init => Replication
  BY Opening
<1>2. Replication /\ [Next]_vars => Replication'
  BY Preservation
<1> QED
  BY <1>1, <1>2, PTL DEF Spec

\* The type invariant of the replication (SynchronizerServer, SynchronizerClient).
THEOREM ReplicationTypes == Spec => []TypeOK
<1>1. Replication => TypeOK
  BY DEF Replication
<1> QED
  BY <1>1, ReplicationInvariance, PTL

\* Send() finds every object that an update is pending for, and a destruction is
\* pending only for an object that is gone (Synchronizer.cpp:32).
THEOREM UpdatesFound == Spec => []UpdatesResolve
<1>1. Replication => UpdatesResolve
  BY DEF Replication
<1> QED
  BY <1>1, ReplicationInvariance, PTL

\* No change goes unnotified: a member that is marked m_modified belongs to an
\* object whose update is pending, unless it was moved (SyncedType.inl:50).
THEOREM NoLostUpdate == Spec => []ModifiedPending
<1>1. Replication => ModifiedPending
  BY DEF Replication
<1> QED
  BY <1>1, ReplicationInvariance, PTL

\* The assertions of SynchronizerClient::Receive() hold for every object that the
\* server announced to the client in full.
THEOREM AnnouncedObjectsNeverFail == Spec => []OnlyTaintedFail
<1>1. Replication => OnlyTaintedFail
  BY DEF Replication
<1> QED
  BY <1>1, ReplicationInvariance, PTL

\* What a subscribed client holds, once it has everything on its way and the update
\* that is pending, is the server's object.
LEMMA ReplicationFollows == Replication => ReplicaFollows
<1> SUFFICES ASSUME Replication, NEW c \in Clients, Subscribed(c),
                    NEW id \in Ids \ (tainted[c] \union moved)
             PROVE  /\ Foreseen(c, id).failed = NoFailure
                    /\ Foreseen(c, id).objs[id] =
                         IF id \in objects THEN [stat |-> id, dyn |-> dyn[id]] ELSE Absent
  BY DEF ReplicaFollows
<1> USE DEF Replication
<1>1. id \in Ids /\ id \notin tainted[c] /\ id \notin moved /\ id # 0
  BY ValuesTypes
<1>2. OnCourse(c, id)
  BY <1>1 DEF Consistent, Subscribed
<1>3. PICK q : q = channel[c]
  OBVIOUS
<1>4. PICK objs : objs = replica[c]
  OBVIOUS
<1>5. q \in Seq(Messages) /\ Len(q) \in Nat /\ objs \in [Ids -> Objects]
  BY <1>3, <1>4 DEF TypeOK, Objects
<1>6. PICK r : r = objs[id]
  OBVIOUS
<1>7. PICK last \in Objects : Leads(q, id, r, last) /\ Assumed(id, last)
  BY <1>2, <1>3, <1>4, <1>6 DEF OnCourse
<1>8. last \in Objects /\ Assumed(id, last)
  BY <1>7
<1>9. PICK s : s = IF id \in objects THEN [stat |-> id, dyn |-> dyn[id]] ELSE Absent
  OBVIOUS
<1>10. s \in Objects
  BY <1>1, <1>9, ValuesTypes DEF Objects, TypeOK
<1>11. Pending(id) \in Seq(Messages) /\ Extends(q, q \o Pending(id), id, last, s)
  <2>1. CASE updates[id] = "none"
    <3>1. Pending(id) = <<>>
      BY <2>1 DEF Pending
    <3>2. s = last
      <4>1. CASE id \in objects
        <5>1. last.stat = id /\ last.dyn = dyn[id]
          BY <1>1, <1>8, <2>1, <4>1 DEF Assumed
        <5>2. last = [stat |-> last.stat, dyn |-> last.dyn]
          BY <1>8 DEF Objects
        <5> QED
          BY <1>9, <4>1, <5>1, <5>2
      <4>2. CASE id \notin objects
        BY <1>8, <1>9, <2>1, <4>2 DEF Assumed
      <4> QED
        BY <4>1, <4>2
    <3>3. TakesOnce(<<>>, 0, id, last, s)
      BY <3>2 DEF TakesOnce
    <3>4. <<>> \in Seq(Messages) /\ 0 \in 0..Len(<<>>)
      OBVIOUS
    <3> QED
      BY <3>1, <3>3, <3>4 DEF Extends
  <2>2. CASE updates[id] # "none"
    <3>1. PICK m : m = Message(updates, id)
      OBVIOUS
    <3>2. Pending(id) = <<m>>
      BY <2>2, <3>1 DEF Pending
    <3>3. /\ updates[id] = "create" <=> last = Absent
          /\ updates[id] = "update" => last.stat = id
          /\ updates[id] = "destroy" <=> id \notin objects
      BY <1>1, <1>8, <2>2 DEF Assumed, UpdatesResolve, TypeOK
    <3>4. s = IF updates[id] = "destroy" THEN Absent ELSE [stat |-> id, dyn |-> dyn[id]]
      BY <1>9, <3>3
    <3>5. m \in Messages /\ m.id = id /\ Takes(m, id, last, s)
      <4>1. updates \in [Ids -> {"none", "create", "update", "destroy"}]
        BY DEF TypeOK
      <4> QED
        BY <1>1, <1>8, <2>2, <3>1, <3>3, <3>4, <4>1, MessageTakes
    <3>6. /\ <<m>> \in Seq(Messages) /\ 1 \in 0..Len(<<m>>)
          /\ Len(<<m>>) = 1 /\ <<m>>[1] = m
      BY <3>5
    <3>7. TakesOnce(<<m>>, 1, id, last, s)
      BY <3>5, <3>6 DEF TakesOnce
    <3> QED
      BY <3>2, <3>6, <3>7 DEF Extends
  <2> QED
    BY <2>1, <2>2
<1>12. PICK all : all = q \o Pending(id)
  OBVIOUS
<1>13. all \in Seq(Messages) /\ Extends(q, all, id, last, s)
  BY <1>5, <1>11, <1>12
<1>14. Leads(all, id, r, s)
  BY <1>1, <1>5, <1>7, <1>10, <1>13, LeadsOn
<1>15. PICK ids : ids = {id}
  OBVIOUS
<1>16. PICK result : result = Received(objs, all, ids)
  OBVIOUS
<1>17. Foreseen(c, id) = result
  BY <1>3, <1>4, <1>12, <1>15, <1>16 DEF Foreseen
<1>18. Follows(result, objs, all, ids)
  <2>1. ids \in SUBSET Ids
    BY <1>1, <1>15
  <2> QED
    BY <1>5, <1>13, <1>16, <2>1, ReceivedFollows
<1>19. /\ result.failed # NoFailure => result.failed.id \in ids
       /\ result.failed.id # id
       /\ result.failed = NoFailure /\ id \in ids => result.objs[id] = s
  BY <1>1, <1>6, <1>10, <1>14, <1>18 DEF Follows
<1> QED
  BY <1>9, <1>15, <1>17, <1>19

\* Replicas follow their objects through every order of creations, changes, moves,
\* removals, updates and joins, as far as ReplicaFollows says.
THEOREM ReplicasFollow == Spec => []ReplicaFollows
<1>1. Replication => ReplicaFollows
  BY ReplicationFollows
<1> QED
  BY <1>1, ReplicationInvariance, PTL
=============================================================================
