-------------------------- MODULE PersonalSyncProofs --------------------------
(***************************************************************************)
(* What PersonalSync promises, for any computers, entries and listings.    *)
(*                                                                         *)
(* The invariant is Safe, of the replicas of all devices and the records   *)
(* in the storage; it is a predicate of the two, so that a step can be     *)
(* taken apart into a queue and a receive, as Join is.  A queue preserves  *)
(* it whatever changed (QueuedIsSafe), so does one record put into the     *)
(* storage (PutIsSafe).  A receive is a chain of records taken up in an    *)
(* order the listing decides: ReceiveEnds makes of a set of working copies *)
(* that no record leads out of a set its result is in, and ReceiveKeeps    *)
(* names that set, which holds what the replica keeps (Moved) and what the *)
(* user is owed for what is replaced, cleared or revived (Owed).           *)
(***************************************************************************)
EXTENDS PersonalSync, FiniteSetTheorems, WellFoundedInduction, TLAPS

(***************************************************************************)
(* The records of a listing, one after the other                           *)
(***************************************************************************)
(* Every non-empty set of numbers has a least one.                         *)
LEMMA LeastNumber ==
    ASSUME NEW T, T \subseteq Nat, T # {}
    PROVE  \E n \in T : \A m \in T : n <= m
<1>1. \E R : IsWellFoundedOn(R, Nat) /\ \A m, n \in Nat : <<m, n>> \in R <=> m < n
  <2>1. \A m, n \in Nat : <<m, n>> \in OpToRel(<, Nat) <=> m < n
    BY DEF OpToRel
  <2> QED BY <2>1, NatLessThanWellFounded
<1>2. PICK R : IsWellFoundedOn(R, Nat) /\ \A m, n \in Nat : <<m, n>> \in R <=> m < n
  BY <1>1
<1>3. IsWellFoundedOn(R, Nat)
  BY <1>2
<1>4. \E n \in T : \A m \in T : ~(<<m, n>> \in R)
  BY ONLY <1>3, WFMin, T \subseteq Nat, T # {}
<1>5. PICK n \in T : \A m \in T : ~(<<m, n>> \in R)
  BY <1>4
<1>6. ASSUME NEW m \in T PROVE n <= m
  <2>1. m \in Nat /\ n \in Nat
    OBVIOUS
  <2>2. ~(m < n)
    BY <1>2, <1>5, <2>1
  <2> QED BY <2>1, <2>2
<1> QED BY <1>6

(* The working copies after 0, 1, ... n records of a listing.              *)
Chain(f, n, d, state, objects, records) ==
    /\ f[0] = Working(state, objects)
    /\ \A i \in Nat : i < n => f[i + 1] = TakeNext(f[i], d, records)

(* There is one: the least n without it would be one after an n with it.   *)
LEMMA ChainExists ==
    ASSUME NEW d, NEW state, NEW objects, NEW records, NEW n \in Nat
    PROVE  \E f : Chain(f, n, d, state, objects, records)
<1> DEFINE Without == {m \in Nat : ~ \E f : Chain(f, m, d, state, objects, records)}
<1>1. CASE Without = {}
  BY <1>1
<1>2. CASE Without # {}
  <2>1. PICK m \in Without : \A k \in Without : m <= k
    BY <1>2, LeastNumber
  <2>2. CASE m = 0
    <3> DEFINE f == [i \in {0} |-> Working(state, objects)]
    <3>1. Chain(f, m, d, state, objects, records)
      BY <2>2 DEF Chain
    <3> QED BY <3>1, <2>1
  <2>3. CASE m # 0
    <3>1. m - 1 \in Nat /\ m - 1 \notin Without
      BY <2>1, <2>3
    <3>2. PICK f : Chain(f, m - 1, d, state, objects, records)
      BY <3>1
    <3> DEFINE g == [i \in 0..m |-> IF i = m THEN TakeNext(f[m - 1], d, records) ELSE f[i]]
    <3>3. g[0] = f[0]
      BY <2>1, <2>3
    <3>4. ASSUME NEW i \in Nat, i < m PROVE g[i + 1] = TakeNext(g[i], d, records)
      <4>1. g[i] = f[i]
        BY <3>4, <2>1
      <4>2. CASE i = m - 1
        <5>1. g[i + 1] = TakeNext(f[m - 1], d, records)
          BY <4>2, <2>1
        <5> QED BY <5>1, <4>1, <4>2
      <4>3. CASE i # m - 1
        <5>1. i + 1 \in 0..m /\ i + 1 # m /\ i < m - 1
          BY <4>3, <3>4, <2>1
        <5>2. g[i + 1] = f[i + 1]
          BY <5>1
        <5>3. f[i + 1] = TakeNext(f[i], d, records)
          BY <3>2, <5>1 DEF Chain
        <5> QED BY <5>2, <5>3, <4>1
      <4> QED BY <4>2, <4>3
    <3> HIDE DEF g
    <3>5. Chain(g, m, d, state, objects, records)
      BY <3>2, <3>3, <3>4 DEF Chain
    <3> QED BY <3>5, <2>1
  <2> QED BY <2>2, <2>3
<1> QED BY <1>1, <1>2

(* Any two agree as far as both go.                                        *)
LEMMA ChainUnique ==
    ASSUME NEW d, NEW state, NEW objects, NEW records, NEW n \in Nat, NEW m \in Nat, NEW f, NEW g,
           Chain(f, n, d, state, objects, records), Chain(g, m, d, state, objects, records),
           NEW i \in Nat, i <= n, i <= m
    PROVE  f[i] = g[i]
<1> DEFINE Apart == {k \in Nat : k <= n /\ k <= m /\ f[k] # g[k]}
<1>1. CASE Apart = {}
  BY <1>1
<1>2. CASE Apart # {}
  <2>1. PICK k \in Apart : \A l \in Apart : k <= l
    BY <1>2, LeastNumber
  <2>2. k # 0
    BY <2>1 DEF Chain
  <2>3. k - 1 \in Nat /\ k - 1 \notin Apart /\ k - 1 < n /\ k - 1 < m /\ (k - 1) + 1 = k
    BY <2>1, <2>2
  <2>4. f[k - 1] = g[k - 1]
    BY <2>3
  <2>5. f[(k - 1) + 1] = TakeNext(f[k - 1], d, records) /\ g[(k - 1) + 1] = TakeNext(g[k - 1], d, records)
    BY <2>3 DEF Chain
  <2> QED BY <2>1, <2>3, <2>4, <2>5
<1> QED BY <1>1, <1>2

(* Hence `taken` of receive is the function that its definition says.      *)
LEMMA Stages ==
    ASSUME NEW d, NEW state, NEW objects, NEW records
    PROVE  \E f : f = [n \in Nat |-> IF n = 0 THEN Working(state, objects)
                                     ELSE TakeNext(f[n - 1], d, records)]
<1> DEFINE part == [n \in Nat |-> CHOOSE f : Chain(f, n, d, state, objects, records)]
           f == [n \in Nat |-> part[n][n]]
<1>1. ASSUME NEW n \in Nat PROVE Chain(part[n], n, d, state, objects, records)
  BY ChainExists
<1>2. ASSUME NEW n \in Nat, n # 0 PROVE f[n] = TakeNext(f[n - 1], d, records)
  <2>1. n - 1 \in Nat /\ n - 1 < n /\ (n - 1) + 1 = n /\ n - 1 <= n /\ n - 1 <= n - 1
    BY <1>2
  <2>2. part[n][(n - 1) + 1] = TakeNext(part[n][n - 1], d, records)
    BY <1>1, <2>1 DEF Chain
  <2>3. part[n][n - 1] = part[n - 1][n - 1]
    <3>1. Chain(part[n], n, d, state, objects, records)
      BY <1>1
    <3>2. Chain(part[n - 1], n - 1, d, state, objects, records)
      BY <1>1, <2>1
    <3>3. PICK p, q : p = part[n] /\ q = part[n - 1]
      OBVIOUS
    <3>4. Chain(p, n, d, state, objects, records) /\ Chain(q, n - 1, d, state, objects, records)
      BY ONLY <3>1, <3>2, <3>3
    <3>5. p[n - 1] = q[n - 1]
      BY ONLY <3>4, <2>1, n \in Nat, ChainUnique
    <3> QED BY ONLY <3>3, <3>5
  <2> QED BY <2>1, <2>2, <2>3
<1>3. f[0] = Working(state, objects)
  BY <1>1 DEF Chain
<1>4. ASSUME NEW n \in Nat
      PROVE  part[n][n] = IF n = 0 THEN Working(state, objects) ELSE TakeNext(f[n - 1], d, records)
  <2>1. f[n] = part[n][n]
    OBVIOUS
  <2> HIDE DEF f
  <2> QED BY <1>2, <1>3, <2>1
<1>5. [n \in Nat |-> part[n][n]]
      = [n \in Nat |-> IF n = 0 THEN Working(state, objects) ELSE TakeNext(f[n - 1], d, records)]
  <2> HIDE DEF f, part
  <2> QED BY <1>4
<1>6. f = [n \in Nat |-> IF n = 0 THEN Working(state, objects) ELSE TakeNext(f[n - 1], d, records)]
  BY <1>5
<1> QED BY <1>6

(* What holds of the working copy at first, and after every record when it *)
(* held before, holds of what receive returns.                             *)
LEMMA ReceiveEnds ==
    ASSUME NEW d, NEW state, NEW objects, NEW records, IsFiniteSet(records),
           NEW Good, Working(state, objects) \in Good, \A s \in Good : TakeNext(s, d, records) \in Good
    PROVE  \E s \in Good : receive(d, state, objects, records) =
               [rep |-> [s.rep EXCEPT !.baseline = s.view], view |-> s.view, error |-> s.error]
<1> DEFINE f == CHOOSE f : f = [n \in Nat |-> IF n = 0 THEN Working(state, objects)
                                             ELSE TakeNext(f[n - 1], d, records)]
           Bad == {n \in Nat : f[n] \notin Good}
<1>1. f = [n \in Nat |-> IF n = 0 THEN Working(state, objects) ELSE TakeNext(f[n - 1], d, records)]
  BY Stages
<1>2. Bad = {}
  <2>1. SUFFICES ASSUME Bad # {} PROVE FALSE
    OBVIOUS
  <2>2. PICK n \in Bad : \A m \in Bad : n <= m
    BY <2>1, LeastNumber
  <2> HIDE DEF f
  <2>3. n # 0
    BY <1>1, <2>2
  <2>4. n - 1 \in Nat /\ f[n - 1] \in Good
    BY <2>2, <2>3
  <2>5. f[n] = TakeNext(f[n - 1], d, records)
    BY <1>1, <2>2, <2>3
  <2> QED BY <2>2, <2>4, <2>5
<1>3. Cardinality(records) \in Nat
  BY FS_CardinalityType
<1>4. f[Cardinality(records)] \in Good
  BY <1>2, <1>3
<1>5. receive(d, state, objects, records) =
        [rep |-> [f[Cardinality(records)].rep EXCEPT !.baseline = f[Cardinality(records)].view],
         view |-> f[Cardinality(records)].view, error |-> f[Cardinality(records)].error]
  BY DEF receive
<1> HIDE DEF f
<1> QED BY <1>4, <1>5

(***************************************************************************)
(* queue numbers its records without a gap                                 *)
(***************************************************************************)
(* How many of the changes are numbered before that of o.                  *)
Below(o, changed) == Cardinality({p \in changed : p < o})

LEMMA BelowIsNumber ==
    ASSUME NEW changed, IsFiniteSet(changed), NEW o
    PROVE  Below(o, changed) \in Nat
<1>1. IsFiniteSet({p \in changed : p < o})
  BY FS_Subset
<1> QED BY <1>1, FS_CardinalityType DEF Below

LEMMA BelowGrows ==
    ASSUME NEW changed, IsFiniteSet(changed), changed \subseteq Nat, NEW o \in changed, NEW q \in Nat, o < q
    PROVE  Below(o, changed) < Below(q, changed)
<1> DEFINE A == {p \in changed : p < o}
           B == {p \in changed : p < q}
<1>1. IsFiniteSet(B)
  BY FS_Subset
<1>0. A \in SUBSET B
  <2> SUFFICES ASSUME NEW p \in changed, p < o PROVE p < q
    OBVIOUS
  <2>1. p \in Nat /\ o \in Nat
    OBVIOUS
  <2> QED BY <2>1
<1>2. o \in B /\ o \notin A
  OBVIOUS
<1>3. Cardinality(A) <= Cardinality(B) /\ Cardinality(A) # Cardinality(B)
  <2> HIDE DEF A, B
  <2> QED BY <1>0, <1>1, <1>2, FS_Subset
<1> QED BY <1>3, BelowIsNumber DEF Below

(* The changes get numbers below their count ...                           *)
LEMMA BelowIsSmaller ==
    ASSUME NEW changed, IsFiniteSet(changed), changed \subseteq Nat, NEW o \in changed
    PROVE  Below(o, changed) < Cardinality(changed)
<1> DEFINE A == {p \in changed : p < o}
<1>1. A \in SUBSET changed /\ o \notin A
  OBVIOUS
<1>2. Cardinality(A) <= Cardinality(changed) /\ Cardinality(A) # Cardinality(changed)
  <2> HIDE DEF A
  <2> QED BY <1>1, FS_Subset
<1> QED BY <1>2, BelowIsNumber, FS_CardinalityType DEF Below

(* ... and every one of those.                                             *)
LEMMA BelowIsOnto ==
    ASSUME NEW changed, IsFiniteSet(changed), changed \subseteq Nat, NEW k \in Nat, k < Cardinality(changed)
    PROVE  \E o \in changed : Below(o, changed) = k
<1> DEFINE n == Cardinality(changed)
           f == [o \in changed |-> Below(o, changed)]
<1>1. n \in Nat
  BY FS_CardinalityType
<1>2. IsFiniteSet(0..n - 1) /\ Cardinality(0..n - 1) = n
  <2>1. 0 \in Int /\ n - 1 \in Int /\ (n - 1) - 0 + 1 = n /\ (0 > n - 1 => n = 0)
    BY <1>1
  <2> HIDE DEF n
  <2> QED BY <2>1, FS_Interval
<1>3. f \in Injection(changed, 0..n - 1)
  <2>1. \A o \in changed : f[o] \in 0..n - 1
    <3> SUFFICES ASSUME NEW o \in changed PROVE Below(o, changed) \in 0..n - 1
      OBVIOUS
    <3>1. Below(o, changed) \in Nat /\ Below(o, changed) < n
      BY BelowIsNumber, BelowIsSmaller
    <3> HIDE DEF n
    <3> QED BY <1>1, <3>1
  <2>2. ASSUME NEW o \in changed, NEW q \in changed, f[o] = f[q] PROVE o = q
    <3>1. Below(o, changed) = Below(q, changed)
      BY <2>2
    <3>2. ~(o < q) /\ ~(q < o)
      <4>1. o \in Nat /\ q \in Nat /\ Below(o, changed) \in Nat
        BY BelowIsNumber
      <4>2. o < q => Below(o, changed) < Below(q, changed)
        BY <4>1, BelowGrows
      <4>3. q < o => Below(q, changed) < Below(o, changed)
        BY <4>1, BelowGrows
      <4> QED BY <3>1, <4>1, <4>2, <4>3
    <3>3. o \in Nat /\ q \in Nat
      OBVIOUS
    <3> QED BY <3>2, <3>3
  <2>3. f \in [changed -> 0..n - 1]
    BY <2>1
  <2> HIDE DEF f
  <2> QED BY <2>2, <2>3 DEF Injection, IsInjective
<1>4. f \in Surjection(changed, 0..n - 1)
  <2> HIDE DEF f
  <2> QED BY <1>2, <1>3, FS_Injection
<1>5. \E o \in changed : f[o] = k
  <2>1. k \in 0..n - 1
    BY <1>1
  <2> HIDE DEF f
  <2> QED BY <1>4, <2>1 DEF Surjection
<1> QED BY <1>5

(* The records that queue adds to the outbox.                              *)
Added(r, d, objects, resolved) == Announcement(r, d) \cup Changes(r, d, objects, resolved)

LEMMA ChangedIsFinite ==
    ASSUME NEW r, NEW objects, NEW resolved \in SUBSET O
    PROVE  /\ IsFiniteSet(Changed(r, objects, resolved))
           /\ Changed(r, objects, resolved) \subseteq O /\ Changed(r, objects, resolved) \subseteq Nat
<1>1. Changed(r, objects, resolved) \subseteq O
  BY DEF Changed
<1> QED BY <1>1, ConstantsAssumption, FS_Subset

LEMMA FirstIsNumber ==
    ASSUME NEW r \in Replica, NEW d
    PROVE  /\ r.next \in Nat /\ r.next >= 1
           /\ FirstChange(r, d) \in Nat /\ FirstChange(r, d) >= r.next /\ FirstChange(r, d) <= r.next + 1
           /\ FirstChange(r, d) > 1
<1>1. r.next \in Nat \ {0}
  BY DEF Replica
<1>2. r.next = 1 => FirstChange(r, d) = r.next + 1
  BY DEF FirstChange, Announces
<1> QED BY <1>1, <1>2 DEF FirstChange

(* The number of a change is one the replica has not used, and not the     *)
(* first.                                                                  *)
LEMMA NumberIsNew ==
    ASSUME NEW r \in Replica, NEW d, NEW objects, NEW resolved \in SUBSET O,
           NEW o \in Changed(r, objects, resolved)
    PROVE  LET n == Number(r, d, Changed(r, objects, resolved), o)
           IN /\ n \in Nat /\ n >= FirstChange(r, d) /\ n >= r.next /\ n > 1
              /\ n < FirstChange(r, d) + Cardinality(Changed(r, objects, resolved))
<1> DEFINE changed == Changed(r, objects, resolved)
<1>1. IsFiniteSet(changed) /\ changed \subseteq Nat
  BY ChangedIsFinite
<1>2. Below(o, changed) \in Nat /\ Below(o, changed) < Cardinality(changed) /\ Cardinality(changed) \in Nat
  <2> HIDE DEF changed
  <2>1. o \in changed
    BY DEF changed
  <2> QED BY <1>1, <2>1, BelowIsNumber, BelowIsSmaller, FS_CardinalityType
<1>3. Number(r, d, changed, o) = FirstChange(r, d) + Below(o, changed)
  BY DEF Number, Below
<1> HIDE DEF changed
<1>4. /\ Number(r, d, changed, o) \in Nat /\ Number(r, d, changed, o) >= FirstChange(r, d)
      /\ Number(r, d, changed, o) >= r.next /\ Number(r, d, changed, o) > 1
      /\ Number(r, d, changed, o) < FirstChange(r, d) + Cardinality(changed)
  BY <1>2, <1>3, FirstIsNumber
<1> QED BY <1>4 DEF changed

(* next goes up by the number of records.                                  *)
LEMMA QueueNext ==
    ASSUME NEW r \in Replica, NEW d, NEW objects, NEW resolved \in SUBSET O
    PROVE  LET q == queue(r, d, objects, resolved)
           IN /\ q.next = FirstChange(r, d) + Cardinality(Changed(r, objects, resolved))
              /\ q.next \in Nat /\ q.next >= FirstChange(r, d) /\ q.next >= r.next /\ q.next >= 1
<1> DEFINE q == queue(r, d, objects, resolved)
<1>1. q.next = FirstChange(r, d) + Cardinality(Changed(r, objects, resolved))
  BY DEF queue
<1>2. Cardinality(Changed(r, objects, resolved)) \in Nat
  BY ChangedIsFinite, FS_CardinalityType
<1> QED BY <1>1, <1>2, FirstIsNumber

(* What a new record says of itself, and what the replica notes of it.     *)
LEMMA QueueAdds ==
    ASSUME NEW r \in Replica, NEW d \in D, NEW objects \in Entries, NEW resolved \in SUBSET O,
           NEW x \in Added(r, d, objects, resolved)
    PROVE  LET q == queue(r, d, objects, resolved)
           IN /\ x \in Record /\ x.device = d
              /\ x.sequence >= r.next /\ x.sequence < q.next
              /\ x.context = [r.seen EXCEPT ![d] = x.sequence - 1]
              /\ x.sequence = 1 => x.object = None
              /\ x.object # None => x.object \in O /\ x.sequence <= q.versions[x.object][d]
<1> DEFINE q == queue(r, d, objects, resolved)
           changed == Changed(r, objects, resolved)
<1>1. r.seen \in Vector /\ r.baseline \in Entries /\ r.versions \in [O -> Vector]
  BY DEF Replica
<1>2. CASE x \in Announcement(r, d)
  <2>1. PICK n \in r.next..FirstChange(r, d) - 1 : x = Emitted(r, d, n, None, None, None, FALSE)
    BY <1>2 DEF Announcement
  <2>2. n \in Nat /\ n >= r.next /\ n >= 1 /\ n < FirstChange(r, d) /\ n - 1 \in Nat
    BY <2>1, FirstIsNumber
  <2>3. n < q.next
    BY <2>2, QueueNext, FirstIsNumber
  <2>4. [r.seen EXCEPT ![d] = n - 1] \in Vector
    BY <1>1, <2>2 DEF Vector
  <2>5. x \in Record
    BY <2>1, <2>2, <2>4 DEF Emitted, Record
  <2> QED BY <2>1, <2>2, <2>3, <2>5 DEF Emitted
<1>3. CASE x \in Changes(r, d, objects, resolved)
  <2>1. PICK o \in changed :
           x = Emitted(r, d, Number(r, d, changed, o), o, r.baseline[o], objects[o], o \in resolved)
    BY <1>3 DEF Changes
  <2>2. PICK n : n = Number(r, d, changed, o)
    OBVIOUS
  <2>3. n \in Nat /\ n >= r.next /\ n > 1 /\ n - 1 \in Nat /\ n < q.next
    BY <2>2, NumberIsNew, QueueNext
  <2>4. [r.seen EXCEPT ![d] = n - 1] \in Vector
    BY <1>1, <2>3 DEF Vector
  <2>5. o \in O
    BY ChangedIsFinite
  <2>6. r.baseline[o] \in Value \cup {None} /\ objects[o] \in Value \cup {None}
    BY <1>1, <2>5 DEF Entries
  <2>7. (o \in resolved) \in BOOLEAN
    OBVIOUS
  <2>8. x \in Record
    BY <2>1, <2>2, <2>3, <2>4, <2>5, <2>6, <2>7 DEF Emitted, Record
  <2>9. q.versions[o] = [r.versions[o] EXCEPT ![d] = n]
    BY <2>2, <2>5 DEF queue
  <2>10. q.versions[o][d] = n
    BY <1>1, <2>5, <2>9 DEF Vector
  <2>11. /\ x.device = d /\ x.sequence = n /\ x.object = o
         /\ x.context = [r.seen EXCEPT ![d] = n - 1]
    BY <2>1, <2>2 DEF Emitted
  <2> QED BY <2>3, <2>5, <2>8, <2>10, <2>11
<1> QED BY <1>2, <1>3 DEF Added

(* No number is given twice.                                               *)
LEMMA QueueDistinct ==
    ASSUME NEW r \in Replica, NEW d \in D, NEW objects \in Entries, NEW resolved \in SUBSET O,
           NEW x \in Added(r, d, objects, resolved), NEW y \in Added(r, d, objects, resolved),
           x.sequence = y.sequence
    PROVE  x = y
<1> DEFINE changed == Changed(r, objects, resolved)
<1>1. ASSUME NEW z \in Announcement(r, d)
      PROVE  /\ z.sequence \in Nat /\ z.sequence < FirstChange(r, d)
             /\ z = Emitted(r, d, z.sequence, None, None, None, FALSE)
  <2>1. PICK n \in r.next..FirstChange(r, d) - 1 : z = Emitted(r, d, n, None, None, None, FALSE)
    BY DEF Announcement
  <2>2. n \in Nat /\ n < FirstChange(r, d)
    BY <2>1, FirstIsNumber
  <2>3. z.sequence = n
    BY <2>1 DEF Emitted
  <2> QED BY <2>1, <2>2, <2>3
<1>2. ASSUME NEW z \in Changes(r, d, objects, resolved)
      PROVE  \E o \in changed :
                /\ z = Emitted(r, d, Number(r, d, changed, o), o, r.baseline[o], objects[o], o \in resolved)
                /\ z.sequence = Number(r, d, changed, o) /\ z.sequence \in Nat
                /\ z.sequence >= FirstChange(r, d)
                /\ o \in Nat /\ z.sequence = FirstChange(r, d) + Below(o, changed)
  <2>1. PICK o \in changed :
           z = Emitted(r, d, Number(r, d, changed, o), o, r.baseline[o], objects[o], o \in resolved)
    BY DEF Changes
  <2>2. z.sequence = Number(r, d, changed, o)
    BY <2>1 DEF Emitted
  <2>3. Number(r, d, changed, o) \in Nat /\ Number(r, d, changed, o) >= FirstChange(r, d)
    BY NumberIsNew
  <2>4. o \in Nat
    BY ChangedIsFinite
  <2>5. Number(r, d, changed, o) = FirstChange(r, d) + Below(o, changed)
    BY DEF Number, Below
  <2> QED BY <2>1, <2>2, <2>3, <2>4, <2>5
<1>3. CASE x \in Announcement(r, d) /\ y \in Announcement(r, d)
  BY <1>1, <1>3
<1>4. CASE x \in Announcement(r, d) /\ y \in Changes(r, d, objects, resolved)
  <2>1. x.sequence \in Nat /\ x.sequence < FirstChange(r, d)
    BY <1>1, <1>4
  <2>2. y.sequence \in Nat /\ y.sequence >= FirstChange(r, d)
    BY <1>2, <1>4
  <2> QED BY <2>1, <2>2, FirstIsNumber
<1>5. CASE x \in Changes(r, d, objects, resolved) /\ y \in Announcement(r, d)
  <2>1. y.sequence \in Nat /\ y.sequence < FirstChange(r, d)
    BY <1>1, <1>5
  <2>2. x.sequence \in Nat /\ x.sequence >= FirstChange(r, d)
    BY <1>2, <1>5
  <2> QED BY <2>1, <2>2, FirstIsNumber
<1>6. CASE x \in Changes(r, d, objects, resolved) /\ y \in Changes(r, d, objects, resolved)
  <2>1. PICK o \in changed :
                /\ x = Emitted(r, d, Number(r, d, changed, o), o, r.baseline[o], objects[o], o \in resolved)
                /\ o \in Nat /\ x.sequence = FirstChange(r, d) + Below(o, changed)
    BY <1>2, <1>6
  <2>2. PICK p \in changed :
                /\ y = Emitted(r, d, Number(r, d, changed, p), p, r.baseline[p], objects[p], p \in resolved)
                /\ p \in Nat /\ y.sequence = FirstChange(r, d) + Below(p, changed)
    BY <1>2, <1>6
  <2>3. IsFiniteSet(changed) /\ changed \subseteq Nat
    BY ChangedIsFinite
  <2>4. /\ Below(o, changed) \in Nat /\ Below(p, changed) \in Nat
        /\ o < p => Below(o, changed) < Below(p, changed)
        /\ p < o => Below(p, changed) < Below(o, changed)
    <3> HIDE DEF changed
    <3>1. o \in Nat /\ p \in Nat
      BY <2>1, <2>2
    <3> QED BY <2>3, <3>1, BelowIsNumber, BelowGrows
  <2>5. Below(o, changed) = Below(p, changed)
    BY <2>1, <2>2, <2>4, FirstIsNumber
  <2>6. o = p
    BY <2>1, <2>2, <2>4, <2>5
  <2> QED BY <2>1, <2>2, <2>6
<1> QED BY <1>3, <1>4, <1>5, <1>6 DEF Added

(* No number up to next is left out.                                       *)
LEMMA QueueHasNoGap ==
    ASSUME NEW r \in Replica, NEW d \in D, NEW objects \in Entries, NEW resolved \in SUBSET O,
           NEW n \in Nat, n >= r.next, n < queue(r, d, objects, resolved).next
    PROVE  \E x \in Added(r, d, objects, resolved) : x.sequence = n
<1> DEFINE changed == Changed(r, objects, resolved)
<1>1. CASE n < FirstChange(r, d)
  <2>1. n \in r.next..FirstChange(r, d) - 1
    BY <1>1, FirstIsNumber
  <2>2. Emitted(r, d, n, None, None, None, FALSE) \in Announcement(r, d)
    BY <2>1 DEF Announcement
  <2>3. Emitted(r, d, n, None, None, None, FALSE).sequence = n
    BY DEF Emitted
  <2> QED BY <2>2, <2>3 DEF Added
<1>2. CASE n >= FirstChange(r, d)
  <2>1. n - FirstChange(r, d) \in Nat /\ n - FirstChange(r, d) < Cardinality(changed)
    <3>1. Cardinality(changed) \in Nat
      BY ChangedIsFinite, FS_CardinalityType
    <3> HIDE DEF changed
    <3>2. n < FirstChange(r, d) + Cardinality(changed)
      BY QueueNext DEF changed
    <3> QED BY <1>2, <3>1, <3>2, FirstIsNumber
  <2>2. PICK o \in changed : Below(o, changed) = n - FirstChange(r, d)
    <3>1. IsFiniteSet(changed) /\ changed \subseteq Nat
      BY ChangedIsFinite
    <3> HIDE DEF changed
    <3> QED BY <2>1, <3>1, BelowIsOnto
  <2>3. Number(r, d, changed, o) = n
    <3>1. Number(r, d, changed, o) = FirstChange(r, d) + Below(o, changed)
      BY DEF Number, Below
    <3> HIDE DEF changed
    <3> QED BY <2>2, <3>1, FirstIsNumber
  <2> DEFINE x == Emitted(r, d, Number(r, d, changed, o), o, r.baseline[o], objects[o], o \in resolved)
  <2>4. x \in Changes(r, d, objects, resolved)
    BY DEF Changes
  <2>5. x.sequence = Number(r, d, changed, o)
    BY DEF Emitted
  <2> QED BY <2>3, <2>4, <2>5 DEF Added
<1> QED BY <1>1, <1>2, FirstIsNumber

(* A queue leaves alone what was received.                                 *)
LEMMA QueueKeeps ==
    ASSUME NEW r \in Replica, NEW d \in D, NEW objects \in Entries, NEW resolved \in SUBSET O
    PROVE  LET q == queue(r, d, objects, resolved)
           IN /\ q.seen = r.seen /\ q.conflicts = r.conflicts /\ q.tombstones = r.tombstones
              /\ q.members = r.members /\ q.baseline = objects
              /\ q.outbox = r.outbox \cup Added(r, d, objects, resolved)
              /\ \A o \in O, e \in D : e # d => q.versions[o][e] = r.versions[o][e]
              /\ \A o \in O : q.versions[o][d] = r.versions[o][d] \/ q.versions[o][d] >= r.next
<1> DEFINE q == queue(r, d, objects, resolved)
           changed == Changed(r, objects, resolved)
<1>1. /\ q.seen = r.seen /\ q.conflicts = r.conflicts /\ q.tombstones = r.tombstones
      /\ q.members = r.members /\ q.baseline = objects
      /\ q.outbox = r.outbox \cup Added(r, d, objects, resolved)
  BY DEF queue, Unsent, Added
<1>2. ASSUME NEW o \in O
      PROVE  /\ \A e \in D : e # d => q.versions[o][e] = r.versions[o][e]
             /\ q.versions[o][d] = r.versions[o][d] \/ q.versions[o][d] >= r.next
  <2>1. r.versions[o] \in Vector
    BY DEF Replica
  <2>2. CASE o \notin changed
    <3>1. q.versions[o] = r.versions[o]
      BY <2>2 DEF queue
    <3> QED BY <3>1
  <2>3. CASE o \in changed
    <3>1. q.versions[o] = [r.versions[o] EXCEPT ![d] = Number(r, d, changed, o)]
      BY <2>3 DEF queue
    <3>2. Number(r, d, changed, o) >= r.next
      BY <2>3, NumberIsNew
    <3> QED BY <2>1, <3>1, <3>2 DEF Vector
  <2> QED BY <2>2, <2>3
<1> QED BY <1>1, <1>2

LEMMA QueueType ==
    ASSUME NEW r \in Replica, NEW d \in D, NEW objects \in Entries, NEW resolved \in SUBSET O
    PROVE  queue(r, d, objects, resolved) \in Replica
<1> DEFINE q == queue(r, d, objects, resolved)
           changed == Changed(r, objects, resolved)
<1>1. /\ r.seen \in Vector /\ r.outbox \subseteq Record /\ r.announced \in Vector
      /\ r.versions \in [O -> Vector] /\ r.conflicts \subseteq Conflict
      /\ r.tombstones \subseteq O /\ r.members \in [D -> Vector \cup {None}]
  BY DEF Replica
<1>2. q.next \in Nat \ {0}
  BY QueueNext
<1>3. q.outbox \subseteq Record
  <2>1. Added(r, d, objects, resolved) \subseteq Record
    BY QueueAdds
  <2>2. q.outbox = r.outbox \cup Added(r, d, objects, resolved)
    BY QueueKeeps
  <2> QED BY <1>1, <2>1, <2>2
<1>4. q.versions \in [O -> Vector]
  <2>1. ASSUME NEW o \in O
        PROVE  (IF o \notin changed THEN r.versions[o]
                ELSE [r.versions[o] EXCEPT ![d] = Number(r, d, changed, o)]) \in Vector
    <3>1. CASE o \notin changed
      BY <1>1, <3>1
    <3>2. CASE o \in changed
      <4>1. Number(r, d, changed, o) \in Nat
        BY <3>2, NumberIsNew
      <4> QED BY <1>1, <3>2, <4>1 DEF Vector
    <3> QED BY <3>1, <3>2
  <2>2. q.versions = [o \in O |-> IF o \notin changed THEN r.versions[o]
                                  ELSE [r.versions[o] EXCEPT ![d] = Number(r, d, changed, o)]]
    BY DEF queue
  <2> QED BY <2>1, <2>2
<1>5. q.announced \in Vector
  <2>1. Remote(r, d) \in Vector
    BY <1>1 DEF Remote, Vector
  <2> QED BY <1>1, <2>1 DEF queue
<1>6. q = [next |-> q.next, seen |-> q.seen, versions |-> q.versions, baseline |-> q.baseline,
           outbox |-> q.outbox, conflicts |-> q.conflicts, tombstones |-> q.tombstones,
           members |-> q.members, announced |-> q.announced]
  BY DEF queue
<1>7. q.seen = r.seen /\ q.conflicts = r.conflicts /\ q.tombstones = r.tombstones
      /\ q.members = r.members /\ q.baseline = objects
  BY QueueKeeps
<1>8. /\ q.next \in Nat \ {0} /\ q.seen \in Vector /\ q.versions \in [O -> Vector]
      /\ q.baseline \in Entries /\ q.outbox \in SUBSET Record /\ q.conflicts \in SUBSET Conflict
      /\ q.tombstones \in SUBSET O /\ q.members \in [D -> Vector \cup {None}]
      /\ q.announced \in Vector
  <2> HIDE DEF q
  <2> QED BY <1>1, <1>2, <1>3, <1>4, <1>5, <1>7
<1> HIDE DEF q
<1>9. q \in Replica
  BY ONLY <1>6, <1>8 DEF Replica
<1> QED BY <1>9 DEF q

(***************************************************************************)
(* receive takes up one record that is ready after the other               *)
(***************************************************************************)
(* No two records have one name.                                           *)
Named1(records) == \A x, y \in records : x.device = y.device /\ x.sequence = y.sequence => x = y

(* Of distinct names one comes first.                                      *)
LEMMA FirstIsOne ==
    ASSUME NEW records, records \subseteq Record, records # {}, Named1(records)
    PROVE  First(records) \in records
<1> DEFINE devices == {x.device : x \in records}
<1>1. \A x \in records : x.device \in Nat /\ x.sequence \in Nat
  BY ConstantsAssumption DEF Record
<1>2. devices \subseteq Nat /\ devices # {}
  BY <1>1
<1>3. PICK e \in devices : \A c \in devices : e <= c
  <2> HIDE DEF devices
  <2> QED BY <1>2, LeastNumber
<1> DEFINE numbers == {x.sequence : x \in {y \in records : y.device = e}}
<1>4. numbers \subseteq Nat /\ numbers # {}
  BY <1>1, <1>3
<1>5. PICK n \in numbers : \A m \in numbers : n <= m
  <2> HIDE DEF numbers
  <2> QED BY <1>4, LeastNumber
<1>6. PICK x \in records : x.device = e /\ x.sequence = n
  BY <1>5
<1>7. ASSUME NEW y \in records PROVE x = y \/ Named(x, y)
  <2>1. y.device \in Nat /\ e \in Nat /\ e <= y.device
    BY <1>1, <1>2, <1>3
  <2>2. y.device = e => n \in Nat /\ y.sequence \in Nat /\ n <= y.sequence
    BY <1>1, <1>4, <1>5
  <2>3. y.device = e /\ y.sequence = n => x = y
    BY <1>6 DEF Named1
  <2> QED BY <1>6, <2>1, <2>2, <2>3 DEF Named
<1>8. \E z \in records : \A y \in records : z = y \/ Named(z, y)
  BY <1>7
<1> QED BY <1>8 DEF First

(* A step of receive takes up one record that is ready, or none is left.   *)
LEMMA TakesOne ==
    ASSUME NEW s, NEW d, NEW records, records \subseteq Record, Named1(records)
    PROVE  \/ TakeNext(s, d, records) = s
           \/ \E x \in records : Ready(s.rep, x) /\ TakeNext(s, d, records) = Applied(s, d, x)
<1> DEFINE ready == {x \in records : Ready(s.rep, x)}
           later == {x \in ready : \A y \in s.last : Named(y, x)}
           group == IF later = {} THEN ready ELSE later
<1>1. CASE s.error \/ ready = {}
  BY <1>1 DEF TakeNext
<1>2. CASE ~(s.error \/ ready = {})
  <2>1. group # {} /\ group \subseteq ready
    BY <1>2
  <2>2. group \subseteq Record /\ Named1(group)
    BY <2>1 DEF Named1
  <2>3. First(group) \in group
    <3> HIDE DEF group
    <3> QED BY <2>1, <2>2, FirstIsOne
  <2>4. Following(s, ready) = First(group)
    BY DEF Following
  <2>5. TakeNext(s, d, records) = Applied(s, d, Following(s, ready))
    BY <1>2 DEF TakeNext
  <2> QED BY <2>1, <2>3, <2>4, <2>5
<1> QED BY <1>1, <1>2

(***************************************************************************)
(* What becomes of an entry                                                *)
(***************************************************************************)
Option == Value \cup {None}

LEMMA OptionValue ==
    ASSUME NEW value \in Option, value # None
    PROVE  /\ value \in Value /\ value.fields \in [F -> V] /\ value.state \in States
           /\ value.state # "deleted"
BY DEF Option, Value

(* A merge of entries is an entry, and its paths are paths of it.          *)
LEMMA ReconcileType ==
    ASSUME NEW before \in Option, NEW current \in Option, NEW incoming \in Option
    PROVE  LET result == reconcile(before, current, incoming)
           IN /\ result.value \in Option /\ result.paths \subseteq F \cup {None}
              /\ \A p \in result.paths : p # None => incoming # None
<1> DEFINE result == reconcile(before, current, incoming)
<1>1. CASE current = incoming \/ incoming = before
  <2>1. result = [value |-> current, paths |-> {}]
    BY <1>1 DEF reconcile
  <2> QED BY <2>1
<1>2. CASE ~(current = incoming \/ incoming = before) /\ Untouched(before, current)
  <2>1. result = [value |-> incoming, paths |-> {}]
    BY <1>2 DEF reconcile
  <2> QED BY <2>1
<1>3. CASE /\ ~(current = incoming \/ incoming = before) /\ ~Untouched(before, current)
           /\ Deletion(current, incoming)
  <2>1. result = [value |-> current, paths |-> {None}]
    BY <1>3 DEF reconcile
  <2> QED BY <2>1
<1>4. CASE /\ ~(current = incoming \/ incoming = before) /\ ~Untouched(before, current)
           /\ ~Deletion(current, incoming)
  <2> DEFINE merged == [f \in F |-> Merged(FieldOf(before, f), current.fields[f], incoming.fields[f])]
             open == {f \in F : Conflicting(FieldOf(before, f), current.fields[f], incoming.fields[f])}
  <2>1. result = [value |-> [current EXCEPT !.fields = merged], paths |-> open]
    BY <1>4 DEF reconcile
  <2>2. current # None /\ incoming # None
    BY <1>4 DEF Deletion
  <2>3. current \in Value /\ current.fields \in [F -> V] /\ incoming.fields \in [F -> V]
    BY <2>2, OptionValue
  <2>4. merged \in [F -> V]
    BY <2>3 DEF Merged
  <2>5. [current EXCEPT !.fields = merged] \in Value
    <3> HIDE DEF merged
    <3> QED BY <2>3, <2>4 DEF Value
  <2> QED BY <2>1, <2>2, <2>5 DEF Option
<1> QED BY <1>1, <1>2, <1>3, <1>4

(* An aspect that a merge changes is one that the other device had found   *)
(* as it is here.                                                          *)
LEMMA ReconcileAspect ==
    ASSUME NEW before \in Option, NEW current \in Option, NEW incoming \in Option,
           NEW a \in F \cup {"state"}, current # None,
           Aspect(reconcile(before, current, incoming).value, a) # Aspect(current, a)
    PROVE  Aspect(before, a) = Aspect(current, a)
<1> DEFINE result == reconcile(before, current, incoming)
<1>1. CASE current = incoming \/ incoming = before
  <2>1. result = [value |-> current, paths |-> {}]
    BY <1>1 DEF reconcile
  <2> QED BY <2>1
<1>2. CASE ~(current = incoming \/ incoming = before) /\ Untouched(before, current)
  BY <1>2 DEF Untouched
<1>3. CASE /\ ~(current = incoming \/ incoming = before) /\ ~Untouched(before, current)
           /\ Deletion(current, incoming)
  <2>1. result = [value |-> current, paths |-> {None}]
    BY <1>3 DEF reconcile
  <2> QED BY <2>1
<1>4. CASE /\ ~(current = incoming \/ incoming = before) /\ ~Untouched(before, current)
           /\ ~Deletion(current, incoming)
  <2> DEFINE merged == [f \in F |-> Merged(FieldOf(before, f), current.fields[f], incoming.fields[f])]
             open == {f \in F : Conflicting(FieldOf(before, f), current.fields[f], incoming.fields[f])}
             value == [current EXCEPT !.fields = merged]
  <2>1. result = [value |-> value, paths |-> open]
    BY <1>4 DEF reconcile
  <2>2. current \in Value /\ current.fields \in [F -> V] /\ incoming \in Value
    BY <1>4, OptionValue DEF Deletion
  <2>3. value \in Value /\ value.fields = merged /\ value.state = current.state
    <3>1. merged \in [F -> V]
      BY <2>2, OptionValue DEF Merged, Value
    <3> HIDE DEF merged
    <3> QED BY <2>2, <3>1 DEF Value
  <2>4. value # None
    BY <2>3, ConstantsAssumption DEF Value
  <2>5. Aspect(value, a) # Aspect(current, a) => Aspect(before, a) = Aspect(current, a)
    <3>1. CASE a = "state"
      <4>1. Aspect(value, a) = value.state /\ Aspect(current, a) = current.state
        BY <2>4, <3>1 DEF Aspect, StateOf
      <4> QED BY <2>1, <2>3, <4>1
    <3>2. CASE a # "state"
      <4>1. a \in F
        BY <3>2
      <4>2. Aspect(value, a) = value.fields[a] /\ Aspect(current, a) = current.fields[a]
            /\ Aspect(before, a) = FieldOf(before, a)
        BY <2>4, <3>2 DEF Aspect, FieldOf
      <4>3. value.fields[a] = Merged(FieldOf(before, a), current.fields[a], incoming.fields[a])
        BY <2>3, <4>1
      <4> QED BY <2>1, <4>2, <4>3 DEF Merged
    <3> QED BY <3>1, <3>2
  <2> QED BY <2>1, <2>5
<1> QED BY <1>1, <1>2, <1>3, <1>4

LEMMA IncomingType ==
    ASSUME NEW r \in Replica, NEW x \in Record, x.object \in O, NEW current \in Option
    PROVE  LET result == Incoming(r, x, current)
           IN /\ result.value \in Option /\ result.paths \subseteq F \cup {None}
              /\ \A p \in result.paths : p # None => x.after # None
<1>1. x.before \in Option /\ x.after \in Option
  BY DEF Record, Option
<1>2. None \in Option
  BY DEF Option
<1> QED BY <1>1, <1>2, ReconcileType DEF Incoming

LEMMA IncomingAspect ==
    ASSUME NEW r \in Replica, NEW x \in Record, NEW current \in Option, current # None,
           NEW a \in F \cup {"state"}, Aspect(Incoming(r, x, current).value, a) # Aspect(current, a)
    PROVE  \/ Aspect(x.before, a) = Aspect(current, a)
           \/ covers(x.context, r.versions[x.object])
<1>1. x.before \in Option /\ x.after \in Option
  BY DEF Record, Option
<1>2. ~Revives(r, x, current)
  BY DEF Revives
<1> QED BY <1>1, <1>2, ReconcileAspect DEF Incoming

(* A purged entry comes back only by a change that knew all its versions,  *)
(* or that of an entry with no deletion on record.                         *)
LEMMA IncomingRevives ==
    ASSUME NEW r \in Replica, NEW x \in Record, Incoming(r, x, None).value # None
    PROVE  /\ x.after # None
           /\ covers(x.context, r.versions[x.object]) \/ x.object \notin r.tombstones
<1>1. CASE x.after = None
  <2>1. reconcile(x.before, None, x.after) = [value |-> None, paths |-> {}]
    BY <1>1 DEF reconcile
  <2> QED BY <1>1, <2>1 DEF Incoming
<1>2. CASE x.after # None
  BY <1>2 DEF Incoming, Revives
<1> QED BY <1>1, <1>2

LEMMA RecordFields ==
    ASSUME NEW x \in Record
    PROVE  /\ x.device \in D /\ x.sequence \in Nat /\ x.context \in Vector /\ x.object \in O \cup {None}
           /\ x.before \in Option /\ x.after \in Option /\ x.resolution \in BOOLEAN
BY DEF Record, Option

LEMMA FoundType ==
    ASSUME NEW x \in Record, x.object \in O, NEW paths \in SUBSET (F \cup {None}),
           \A p \in paths : p # None => x.after # None
    PROVE  Found(x, paths) \subseteq Conflict
<1>1. SUFFICES ASSUME NEW p \in paths
               PROVE  [object |-> x.object, device |-> x.device, sequence |-> x.sequence, path |-> p,
                       remote |-> IF p = None THEN x.after ELSE x.after.fields[p]] \in Conflict
  BY DEF Found
<1>2. (IF p = None THEN x.after ELSE x.after.fields[p]) \in Value \cup V \cup {None}
  <2>1. CASE p = None
    BY <2>1, RecordFields DEF Option
  <2>2. CASE p # None
    <3>1. x.after.fields \in [F -> V] /\ p \in F
      BY <2>2, RecordFields, OptionValue
    <3> QED BY <2>2, <3>1
  <2> QED BY <2>1, <2>2
<1> QED BY <1>2, RecordFields DEF Conflict

(* The replica after a record: what it counts, keeps and has open ...      *)
LEMMA TookFields ==
    ASSUME NEW r \in Replica, NEW x \in Record, NEW paths
    PROVE  LET t == Took(r, x, paths)
           IN /\ t.next = r.next /\ t.outbox = r.outbox \ {x}
              /\ t.conflicts = Cleared(r, x) \cup Found(x, paths)
              /\ t.seen \in Vector /\ t.seen[x.device] = x.sequence
              /\ \A e \in D : e # x.device => t.seen[e] = r.seen[e]
              /\ t.members \in [D -> Vector \cup {None}]
              /\ t.members[x.device] = [x.context EXCEPT ![x.device] = x.sequence]
              /\ \A e \in D : e # x.device => t.members[e] = r.members[e]
<1>1. r.seen \in Vector /\ r.members \in [D -> Vector \cup {None}]
  BY DEF Replica
<1>2. x.device \in D /\ x.sequence \in Nat /\ x.context \in Vector
  BY RecordFields
<1>3. [x.context EXCEPT ![x.device] = x.sequence] \in Vector
  BY <1>2 DEF Vector
<1> DEFINE t == Took(r, x, paths)
<1>4. /\ t.next = r.next /\ t.outbox = r.outbox \ {x} /\ t.conflicts = Cleared(r, x) \cup Found(x, paths)
      /\ t.seen = [r.seen EXCEPT ![x.device] = x.sequence]
      /\ t.members = [r.members EXCEPT ![x.device] = [x.context EXCEPT ![x.device] = x.sequence]]
  BY DEF Took, Ack
<1>5. t.seen \in Vector /\ t.seen[x.device] = x.sequence /\ \A e \in D : e # x.device => t.seen[e] = r.seen[e]
  <2> HIDE DEF t
  <2> QED BY <1>1, <1>2, <1>4 DEF Vector
<1>6. /\ t.members \in [D -> Vector \cup {None}]
      /\ t.members[x.device] = [x.context EXCEPT ![x.device] = x.sequence]
      /\ \A e \in D : e # x.device => t.members[e] = r.members[e]
  <2> HIDE DEF t
  <2> QED BY <1>1, <1>2, <1>3, <1>4
<1> HIDE DEF t
<1>7. t.next = r.next /\ t.outbox = r.outbox \ {x} /\ t.conflicts = Cleared(r, x) \cup Found(x, paths)
  BY <1>4
<1> QED BY <1>5, <1>6, <1>7 DEF t

(* ... and what it knows of the entry's versions and deletions.            *)
LEMMA TookVersions ==
    ASSUME NEW r \in Replica, NEW x \in Record, NEW paths
    PROVE  LET t == Took(r, x, paths)
           IN /\ t.versions \in [O -> Vector]
              /\ \A o \in O, e \in D : t.versions[o][e] >= r.versions[o][e]
              /\ x.object # None => t.versions[x.object][x.device] >= x.sequence
              /\ t.tombstones \subseteq O /\ r.tombstones \subseteq t.tombstones
              /\ x.object # None /\ x.after = None => x.object \in t.tombstones
<1>1. r.versions \in [O -> Vector] /\ r.tombstones \subseteq O
  BY DEF Replica
<1>2. x.device \in D /\ x.sequence \in Nat /\ x.object \in O \cup {None}
  BY RecordFields
<1> DEFINE t == Took(r, x, paths)
           e == x.device
           o == x.object
<1>3. t.tombstones = IF o # None /\ x.after = None THEN r.tombstones \cup {o} ELSE r.tombstones
  BY DEF Took
<1>4. \A v \in Vector, c \in D : v[c] \in Nat
  BY DEF Vector
<1>5. CASE o = None
  <2>1. t.versions = r.versions
    BY <1>5 DEF Took
  <2>2. \A p \in O, c \in D : t.versions[p][c] >= r.versions[p][c]
    BY <1>1, <1>4, <2>1
  <2> QED BY <1>1, <1>3, <1>5, <2>1, <2>2
<1>6. CASE o # None
  <2>1. o \in O
    BY <1>2, <1>6
  <2> DEFINE later == [r.versions[o] EXCEPT ![e] = IF @ > x.sequence THEN @ ELSE x.sequence]
  <2>2. t.versions = [r.versions EXCEPT ![o] = later]
    BY <1>6 DEF Took
  <2>3. r.versions[o] \in Vector
    BY <1>1, <2>1
  <2>4. later \in Vector /\ later[e] >= x.sequence /\ \A c \in D : later[c] >= r.versions[o][c]
    BY <1>2, <2>3, <1>4 DEF Vector
  <2> HIDE DEF later, t
  <2>5. t.versions \in [O -> Vector] /\ t.versions[o] = later /\ \A p \in O : p # o => t.versions[p] = r.versions[p]
    BY <1>1, <2>1, <2>2, <2>4
  <2>6. \A p \in O, c \in D : t.versions[p][c] >= r.versions[p][c]
    BY <1>1, <1>4, <2>4, <2>5
  <2> QED BY <1>1, <1>3, <2>1, <2>4, <2>5, <2>6 DEF t
<1> QED BY <1>5, <1>6

LEMMA TookType ==
    ASSUME NEW r \in Replica, NEW x \in Record, NEW paths \in SUBSET (F \cup {None}),
           x.object = None => paths = {}, \A p \in paths : p # None => x.after # None
    PROVE  Took(r, x, paths) \in Replica
<1> DEFINE t == Took(r, x, paths)
<1>1. /\ r.next \in Nat \ {0} /\ r.baseline \in Entries /\ r.announced \in Vector
      /\ r.outbox \in SUBSET Record /\ r.conflicts \in SUBSET Conflict
  BY DEF Replica
<1>2. Found(x, paths) \subseteq Conflict
  <2>1. CASE paths = {}
    BY <2>1 DEF Found
  <2>2. CASE paths # {}
    BY <2>2, FoundType, RecordFields
  <2> QED BY <2>1, <2>2
<1>3. t.conflicts \in SUBSET Conflict
  <2>1. Cleared(r, x) \subseteq r.conflicts
    BY DEF Cleared
  <2>2. t.conflicts = Cleared(r, x) \cup Found(x, paths)
    BY DEF Took
  <2> HIDE DEF t
  <2> QED BY <1>1, <1>2, <2>1, <2>2
<1>4. /\ t.next \in Nat \ {0} /\ t.baseline \in Entries /\ t.announced \in Vector
      /\ t.outbox \in SUBSET Record /\ t.tombstones \in SUBSET O
      /\ t.seen \in Vector /\ t.versions \in [O -> Vector] /\ t.members \in [D -> Vector \cup {None}]
  <2>1. t.next = r.next /\ t.baseline = r.baseline /\ t.announced = r.announced /\ t.outbox = r.outbox \ {x}
    BY DEF Took
  <2>2. t.seen \in Vector /\ t.members \in [D -> Vector \cup {None}]
    BY TookFields
  <2>3. t.versions \in [O -> Vector] /\ t.tombstones \subseteq O
    BY TookVersions
  <2> HIDE DEF t
  <2> QED BY <1>1, <2>1, <2>2, <2>3
<1>5. t = [next |-> t.next, seen |-> t.seen, versions |-> t.versions, baseline |-> t.baseline,
           outbox |-> t.outbox, conflicts |-> t.conflicts, tombstones |-> t.tombstones,
           members |-> t.members, announced |-> t.announced]
  BY DEF Took
<1> HIDE DEF t
<1>6. t \in Replica
  BY ONLY <1>3, <1>4, <1>5 DEF Replica
<1> QED BY <1>6 DEF t

(***************************************************************************)
(* The working copy of a receive                                           *)
(***************************************************************************)
Copy == [rep : Replica, view : Entries, last : SUBSET Record, error : BOOLEAN]

(* A record that is not refused changes the replica as Took does, and no   *)
(* entry but its own.                                                      *)
LEMMA AppliedShape ==
    ASSUME NEW s \in Copy, NEW d \in D, NEW x \in Record, ~Refused(s.rep, d, x)
    PROVE  LET t == Applied(s, d, x)
           IN /\ t \in Copy /\ t.error = FALSE
              /\ \E paths : /\ t.rep = Took(s.rep, x, paths)
              /\ \A o \in O : o # x.object \/ x.device = d => t.view[o] = s.view[o]
              /\ x.object # None /\ x.device # d =>
                    t.view[x.object] = Incoming(s.rep, x, s.view[x.object]).value
<1> DEFINE t == Applied(s, d, x)
           o == x.object
           merged == Incoming(s.rep, x, s.view[o])
<1>1. s.rep \in Replica /\ s.view \in Entries /\ o \in O \cup {None}
  BY RecordFields DEF Copy
<1>2. CASE o = None \/ x.device = d
  <2>1. t = [rep |-> Took(s.rep, x, {}), view |-> s.view, last |-> {x}, error |-> FALSE]
    BY <1>2 DEF Applied
  <2>2. Took(s.rep, x, {}) \in Replica
    BY <1>1, TookType
  <2>3. t \in Copy
    BY <1>1, <2>1, <2>2 DEF Copy
  <2>4. o \in O => o # None
    BY ConstantsAssumption
  <2> HIDE DEF t
  <2> QED BY <1>1, <1>2, <2>1, <2>3, <2>4 DEF t
<1>3. CASE ~(o = None \/ x.device = d)
  <2>1. t = [rep |-> Took(s.rep, x, merged.paths), view |-> [s.view EXCEPT ![o] = merged.value],
             last |-> {x}, error |-> FALSE]
    BY <1>3 DEF Applied
  <2>2. o \in O
    BY <1>1, <1>3
  <2>3. s.view[o] \in Option
    BY <1>1, <2>2 DEF Entries, Option
  <2>4. /\ merged.value \in Option /\ merged.paths \subseteq F \cup {None}
        /\ \A p \in merged.paths : p # None => x.after # None
    BY <1>1, <2>2, <2>3, IncomingType
  <2> HIDE DEF merged
  <2>5. Took(s.rep, x, merged.paths) \in Replica
    BY <1>1, <1>3, <2>4, TookType
  <2>6. [s.view EXCEPT ![o] = merged.value] \in Entries
    BY <1>1, <2>2, <2>4 DEF Entries, Option
  <2>7. t \in Copy
    BY <2>1, <2>5, <2>6 DEF Copy
  <2>8. t.view[o] = merged.value /\ \A p \in O : p # o => t.view[p] = s.view[p]
    BY <1>1, <2>1, <2>2 DEF Entries
  <2> HIDE DEF t
  <2> QED BY <1>3, <2>1, <2>7, <2>8 DEF t, merged
<1> QED BY <1>2, <1>3

(* What a replica counts is numbers.                                       *)
LEMMA SeenIsNumber ==
    ASSUME NEW r \in Replica
    PROVE  /\ \A e \in D : r.seen[e] \in Nat
           /\ \A o \in O, e \in D : r.versions[o][e] \in Nat
BY DEF Replica, Vector

(* What taking up the record x makes of the replica r.                     *)
Seeing(r, q, x) ==
    /\ x.sequence = r.seen[x.device] + 1 /\ covers(r.seen, x.context)
    /\ q.seen[x.device] = x.sequence /\ \A e \in D : e # x.device => q.seen[e] = r.seen[e]
Acknowledging(r, q, x) ==
    /\ q.members[x.device] = [x.context EXCEPT ![x.device] = x.sequence]
    /\ \A e \in D : e # x.device => q.members[e] = r.members[e]
Remembering(r, q, x) ==
    /\ \A o \in O, e \in D : q.versions[o][e] >= r.versions[o][e]
    /\ x.object # None => q.versions[x.object][x.device] >= x.sequence
    /\ r.tombstones \subseteq q.tombstones
    /\ x.object # None /\ x.after = None => x.object \in q.tombstones
Deciding(r, q, x) ==
    \A c \in r.conflicts \ q.conflicts :
        x.resolution /\ c.object = x.object /\ x.context[c.device] >= c.sequence
TakenUp(r, q, x) ==
    /\ q.next = r.next /\ q.outbox = r.outbox \ {x}
    /\ Seeing(r, q, x) /\ Acknowledging(r, q, x) /\ Remembering(r, q, x) /\ Deciding(r, q, x)

(* So a record that is ready is taken up in the sense of TakenUp.          *)
LEMMA TookTakesUp ==
    ASSUME NEW r \in Replica, NEW x \in Record, NEW paths, Ready(r, x)
    PROVE  TakenUp(r, Took(r, x, paths), x)
<1> DEFINE q == Took(r, x, paths)
<1>1. /\ q.next = r.next /\ q.outbox = r.outbox \ {x} /\ q.conflicts = Cleared(r, x) \cup Found(x, paths)
      /\ q.seen[x.device] = x.sequence /\ \A e \in D : e # x.device => q.seen[e] = r.seen[e]
      /\ q.members[x.device] = [x.context EXCEPT ![x.device] = x.sequence]
      /\ \A e \in D : e # x.device => q.members[e] = r.members[e]
  BY TookFields
<1>2. /\ \A o \in O, e \in D : q.versions[o][e] >= r.versions[o][e]
      /\ x.object # None => q.versions[x.object][x.device] >= x.sequence
      /\ r.tombstones \subseteq q.tombstones
      /\ x.object # None /\ x.after = None => x.object \in q.tombstones
  BY TookVersions
<1> HIDE DEF q
<1>3. Seeing(r, q, x)
  BY <1>1 DEF Ready, Seeing
<1>4. Acknowledging(r, q, x)
  BY <1>1 DEF Acknowledging
<1>5. Remembering(r, q, x)
  BY <1>2 DEF Remembering
<1>6. Deciding(r, q, x)
  <2>1. SUFFICES ASSUME NEW c \in r.conflicts, c \notin q.conflicts
                 PROVE  x.resolution /\ c.object = x.object /\ x.context[c.device] >= c.sequence
    BY DEF Deciding
  <2>2. c \notin Cleared(r, x)
    BY <1>1, <2>1
  <2>3. c \in Conflict
    BY DEF Replica
  <2>4. c.device \in D /\ c.sequence \in Nat
    BY <2>3 DEF Conflict
  <2>5. x.context[c.device] \in Nat
    BY <2>4, RecordFields DEF Vector
  <2> QED BY <2>2, <2>4, <2>5 DEF Cleared
<1>7. TakenUp(r, q, x)
  BY <1>1, <1>3, <1>4, <1>5, <1>6 DEF TakenUp
<1> QED BY <1>7 DEF q

LEMMA AppliedTakesUp ==
    ASSUME NEW s \in Copy, NEW d \in D, NEW x \in Record, ~Refused(s.rep, d, x), Ready(s.rep, x)
    PROVE  LET t == Applied(s, d, x)
           IN /\ t \in Copy /\ t.error = FALSE /\ TakenUp(s.rep, t.rep, x)
              /\ \A o \in O : \/ t.view[o] = s.view[o]
                              \/ o = x.object /\ t.view[o] = Incoming(s.rep, x, s.view[o]).value
<1> DEFINE t == Applied(s, d, x)
<1>1. /\ t \in Copy /\ t.error = FALSE /\ \E paths : t.rep = Took(s.rep, x, paths)
      /\ \A o \in O : o # x.object \/ x.device = d => t.view[o] = s.view[o]
      /\ x.object # None /\ x.device # d =>
            t.view[x.object] = Incoming(s.rep, x, s.view[x.object]).value
  BY AppliedShape
<1> HIDE DEF t
<1>2. s.rep \in Replica
  BY DEF Copy
<1>3. TakenUp(s.rep, t.rep, x)
  BY <1>1, <1>2, TookTakesUp
<1>4. ASSUME NEW o \in O
      PROVE  \/ t.view[o] = s.view[o]
             \/ o = x.object /\ t.view[o] = Incoming(s.rep, x, s.view[o]).value
  <2>1. o # None
    BY ConstantsAssumption
  <2> QED BY <1>1, <2>1
<1> QED BY <1>1, <1>3, <1>4 DEF t

(***************************************************************************)
(* What taking up a record preserves                                       *)
(***************************************************************************)
(* Counts only go up, and deletions are not forgotten.                     *)
Grown(q, state) ==
    /\ q.next = state.next /\ q.outbox \subseteq state.outbox
    /\ state.tombstones \subseteq q.tombstones
    /\ \A e \in D : q.seen[e] >= state.seen[e]
    /\ \A o \in O, e \in D : q.versions[o][e] >= state.versions[o][e]

(* Nothing leaves the outbox but for the storage.                          *)
Delivered(q, state, stored) == \A x \in state.outbox : x \in q.outbox \/ x \in stored

(* What is seen, and acknowledged, is what records of the storage say.     *)
Vouched(q, state, stored) ==
    \A e \in D :
        /\ q.seen[e] # state.seen[e] => \E x \in stored : x.device = e /\ x.sequence = q.seen[e]
        /\ q.members[e] # state.members[e] =>
              \E x \in stored : x.device = e /\ q.members[e] = [x.context EXCEPT ![e] = x.sequence]

(* Everything taken up was understood, and everybody who wrote is known.   *)
Understood(q, stored) ==
    \A x \in stored : x.sequence <= q.seen[x.device] =>
        /\ covers(q.seen, x.context)
        /\ x.object # None => x.sequence <= q.versions[x.object][x.device]
        /\ x.object # None /\ x.after = None => x.object \in q.tombstones
(* Whoever has a record taken up has announced itself.                     *)
Introduced(q) == \A e \in D : q.seen[e] > 0 => q.members[e] # None

(* A record of the device that it has not taken up is in its outbox.       *)
Awaited(q, d, stored) == \A x \in stored : x.device = d /\ x.sequence > q.seen[d] => x \in q.outbox

(* What was taken up is in the storage, of the records there are.          *)
Published(q, all, stored) == \A x \in all : x.sequence <= q.seen[x.device] => x \in stored

(* What was seen before a record is seen after it.                         *)
LEMMA SeenGrows ==
    ASSUME NEW r \in Replica, NEW q \in Replica, NEW x \in Record, TakenUp(r, q, x), NEW e \in D
    PROVE  /\ q.seen[e] \in Nat /\ r.seen[e] \in Nat /\ q.seen[e] >= r.seen[e] /\ x.sequence \in Nat
           /\ e # x.device => q.seen[e] = r.seen[e]
           /\ e = x.device => q.seen[e] = x.sequence /\ x.sequence = r.seen[e] + 1
<1>1. q.seen[e] \in Nat /\ r.seen[e] \in Nat /\ x.sequence \in Nat /\ x.device \in D
  BY SeenIsNumber, RecordFields
<1> QED BY <1>1 DEF TakenUp, Seeing

LEMMA GrownStep ==
    ASSUME NEW r \in Replica, NEW q \in Replica, NEW x \in Record, TakenUp(r, q, x),
           NEW state \in Replica, Grown(r, state)
    PROVE  Grown(q, state)
<1>1. ASSUME NEW e \in D PROVE q.seen[e] >= state.seen[e]
  <2>1. q.seen[e] \in Nat /\ r.seen[e] \in Nat /\ state.seen[e] \in Nat /\ q.seen[e] >= r.seen[e]
    BY SeenGrows, SeenIsNumber
  <2> QED BY <2>1 DEF Grown
<1>2. ASSUME NEW o \in O, NEW e \in D PROVE q.versions[o][e] >= state.versions[o][e]
  <2>1. q.versions[o][e] \in Nat /\ r.versions[o][e] \in Nat /\ state.versions[o][e] \in Nat
    BY SeenIsNumber
  <2> QED BY <2>1 DEF Grown, TakenUp, Remembering
<1>3. q.next = state.next /\ q.outbox \subseteq state.outbox /\ state.tombstones \subseteq q.tombstones
  BY DEF Grown, TakenUp, Remembering
<1> QED BY <1>1, <1>2, <1>3 DEF Grown

LEMMA DeliveredStep ==
    ASSUME NEW r, NEW q, NEW stored, NEW x \in stored, TakenUp(r, q, x), NEW state,
           Delivered(r, state, stored)
    PROVE  Delivered(q, state, stored)
BY DEF TakenUp, Delivered

LEMMA VouchedStep ==
    ASSUME NEW r, NEW q, NEW stored, NEW x \in stored, TakenUp(r, q, x), NEW state,
           Vouched(r, state, stored)
    PROVE  Vouched(q, state, stored)
<1>1. SUFFICES ASSUME NEW e \in D
               PROVE  /\ q.seen[e] # state.seen[e] => \E y \in stored : y.device = e /\ y.sequence = q.seen[e]
                      /\ q.members[e] # state.members[e] =>
                            \E y \in stored : /\ y.device = e
                                              /\ q.members[e] = [y.context EXCEPT ![e] = y.sequence]
  BY DEF Vouched
<1>2. CASE e = x.device
  <2>1. q.seen[e] = x.sequence /\ q.members[e] = [x.context EXCEPT ![e] = x.sequence]
    BY <1>2 DEF TakenUp, Seeing, Acknowledging
  <2> QED BY <1>2, <2>1
<1>3. CASE e # x.device
  <2>1. q.seen[e] = r.seen[e] /\ q.members[e] = r.members[e]
    BY <1>3 DEF TakenUp, Seeing, Acknowledging
  <2>2. q.seen[e] # state.seen[e] => \E y \in stored : y.device = e /\ y.sequence = q.seen[e]
    BY <2>1 DEF Vouched
  <2>3. q.members[e] # state.members[e] =>
            \E y \in stored : y.device = e /\ q.members[e] = [y.context EXCEPT ![e] = y.sequence]
    <3>1. SUFFICES ASSUME r.members[e] # state.members[e]
                   PROVE  \E y \in stored : y.device = e /\ r.members[e] = [y.context EXCEPT ![e] = y.sequence]
      BY <2>1
    <3> QED BY <3>1 DEF Vouched
  <2> QED BY <2>2, <2>3
<1> QED BY <1>2, <1>3

LEMMA UnderstoodStep ==
    ASSUME NEW r \in Replica, NEW q \in Replica, NEW stored \in SUBSET Record, Named1(stored),
           NEW x \in stored, TakenUp(r, q, x), Understood(r, stored)
    PROVE  Understood(q, stored)
<1>1. SUFFICES ASSUME NEW y \in stored, y.sequence <= q.seen[y.device]
               PROVE  /\ covers(q.seen, y.context)
                      /\ y.object # None => y.sequence <= q.versions[y.object][y.device]
                      /\ y.object # None /\ y.after = None => y.object \in q.tombstones
  BY DEF Understood
<1>2. /\ y \in Record /\ y.device \in D /\ y.sequence \in Nat /\ y.object \in O \cup {None}
      /\ \A e \in D : y.context[e] \in Nat
  BY RecordFields DEF Vector
<1>3. x \in Record /\ x.device \in D /\ x.sequence \in Nat
  BY RecordFields
<1>4. ASSUME NEW v, covers(r.seen, v), \A e \in D : v[e] \in Nat PROVE covers(q.seen, v)
  <2>1. SUFFICES ASSUME NEW e \in D PROVE q.seen[e] >= v[e]
    BY DEF covers
  <2>2. q.seen[e] \in Nat /\ r.seen[e] \in Nat /\ q.seen[e] >= r.seen[e]
    BY <1>3, SeenGrows
  <2> QED BY <1>4, <2>2 DEF covers
<1>5. CASE y.sequence <= r.seen[y.device]
  <2>1. covers(r.seen, y.context)
    BY <1>5 DEF Understood
  <2>2. covers(q.seen, y.context)
    BY <1>2, <1>4, <2>1
  <2>3. ASSUME y.object # None PROVE y.sequence <= q.versions[y.object][y.device]
    <3>1. y.sequence <= r.versions[y.object][y.device]
      BY <1>5, <2>3 DEF Understood
    <3>2. y.object \in O
      BY <1>2, <2>3
    <3>3. q.versions[y.object][y.device] \in Nat /\ r.versions[y.object][y.device] \in Nat
      BY <1>2, <3>2, SeenIsNumber
    <3>4. q.versions[y.object][y.device] >= r.versions[y.object][y.device]
      BY <1>2, <3>2 DEF TakenUp, Remembering
    <3> QED BY <1>2, <3>1, <3>3, <3>4
  <2>4. y.object # None /\ y.after = None => y.object \in q.tombstones
    BY <1>5 DEF Understood, TakenUp, Remembering
  <2> QED BY <2>2, <2>3, <2>4
<1>6. CASE ~(y.sequence <= r.seen[y.device])
  <2>1. y.device = x.device /\ y.sequence = x.sequence
    <3>1. /\ q.seen[y.device] \in Nat /\ r.seen[y.device] \in Nat
          /\ y.device # x.device => q.seen[y.device] = r.seen[y.device]
          /\ y.device = x.device => q.seen[y.device] = x.sequence /\ x.sequence = r.seen[y.device] + 1
      BY <1>2, <1>3, SeenGrows
    <3> QED BY <1>1, <1>2, <1>3, <1>6, <3>1
  <2>2. y = x
    BY <2>1 DEF Named1
  <2>3. covers(q.seen, y.context)
    BY <1>2, <1>4, <2>2 DEF TakenUp, Seeing
  <2>4. y.object # None => y.sequence <= q.versions[y.object][y.device]
    <3>1. y.object # None => y.object \in O /\ q.versions[y.object][y.device] \in Nat
      BY <1>2, SeenIsNumber
    <3> QED BY <1>2, <2>2, <3>1 DEF TakenUp, Remembering
  <2>5. y.object # None /\ y.after = None => y.object \in q.tombstones
    BY <2>2 DEF TakenUp, Remembering
  <2> QED BY <2>3, <2>4, <2>5
<1> QED BY <1>5, <1>6

LEMMA IntroducedStep ==
    ASSUME NEW r \in Replica, NEW q \in Replica, NEW x \in Record, TakenUp(r, q, x), Introduced(r)
    PROVE  Introduced(q)
<1>1. SUFFICES ASSUME NEW e \in D, q.seen[e] > 0 PROVE q.members[e] # None
  BY DEF Introduced
<1>2. CASE e = x.device
  <2>1. x.context \in Vector /\ x.sequence \in Nat
    BY RecordFields
  <2>2. [x.context EXCEPT ![e] = x.sequence] \in Vector
    BY <2>1 DEF Vector
  <2>3. None \notin Vector
    BY ConstantsAssumption DEF Vector
  <2> QED BY <1>2, <2>2, <2>3 DEF TakenUp, Acknowledging
<1>3. CASE e # x.device
  <2>1. q.seen[e] = r.seen[e] /\ q.members[e] = r.members[e]
    BY <1>3 DEF TakenUp, Seeing, Acknowledging
  <2> QED BY <1>1, <2>1 DEF Introduced
<1> QED BY <1>2, <1>3

LEMMA AwaitedStep ==
    ASSUME NEW r \in Replica, NEW q \in Replica, NEW stored \in SUBSET Record, NEW d \in D,
           NEW x \in stored, TakenUp(r, q, x), Awaited(r, d, stored)
    PROVE  Awaited(q, d, stored)
<1>1. SUFFICES ASSUME NEW y \in stored, y.device = d, y.sequence > q.seen[d] PROVE y \in q.outbox
  BY DEF Awaited
<1>2. x \in Record /\ y \in Record /\ y.sequence \in Nat
  BY RecordFields
<1>3. /\ q.seen[d] \in Nat /\ r.seen[d] \in Nat /\ q.seen[d] >= r.seen[d]
      /\ d = x.device => q.seen[d] = x.sequence
  BY <1>2, SeenGrows
<1>4. y.sequence > r.seen[d] /\ y # x
  BY <1>1, <1>2, <1>3
<1>5. y \in r.outbox
  BY <1>1, <1>4 DEF Awaited
<1> QED BY <1>4, <1>5 DEF TakenUp

LEMMA PublishedStep ==
    ASSUME NEW r \in Replica, NEW q \in Replica, NEW all \in SUBSET Record, Named1(all),
           NEW stored \in SUBSET all, NEW x \in stored, TakenUp(r, q, x), Published(r, all, stored)
    PROVE  Published(q, all, stored)
<1>1. SUFFICES ASSUME NEW y \in all, y.sequence <= q.seen[y.device] PROVE y \in stored
  BY DEF Published
<1>2. x \in Record /\ y \in Record /\ y.sequence \in Nat /\ y.device \in D
  BY RecordFields
<1>3. /\ q.seen[y.device] \in Nat /\ r.seen[y.device] \in Nat
      /\ y.device # x.device => q.seen[y.device] = r.seen[y.device]
      /\ y.device = x.device => q.seen[y.device] = x.sequence /\ x.sequence = r.seen[y.device] + 1
  BY <1>2, SeenGrows
<1>4. CASE y.sequence <= r.seen[y.device]
  BY <1>4 DEF Published
<1>5. CASE ~(y.sequence <= r.seen[y.device])
  <2>1. y.device = x.device /\ y.sequence = x.sequence
    BY <1>1, <1>2, <1>3, <1>5
  <2> QED BY <2>1 DEF Named1
<1> QED BY <1>4, <1>5

(***************************************************************************)
(* What the user is owed                                                   *)
(***************************************************************************)
(* A record that was taken up since `state`.                               *)
New(q, state, x) == state.seen[x.device] < x.sequence /\ x.sequence <= q.seen[x.device]

(* An aspect of an entry is replaced by a record that found it so, or      *)
(* whose author had seen every change of the device.                       *)
Replaced(q, value, state, objects, d, all, stored) ==
    \A o \in O, a \in F \cup {"state"} :
        objects[o] # None /\ Aspect(value[o], a) # Aspect(objects[o], a) =>
            \E x \in stored :
                /\ New(q, state, x) /\ x.object = o
                /\ \/ Aspect(x.before, a) = Aspect(objects[o], a)
                   \/ \A w \in all : w.device = d /\ w.object = o => x.context[d] >= w.sequence

(* A conflict goes by a resolution whose author had seen its change.       *)
Settled(q, state, stored) ==
    \A c \in state.conflicts \ q.conflicts :
        \E x \in stored : /\ New(q, state, x) /\ x.object = c.object /\ x.resolution
                          /\ x.context[c.device] >= c.sequence

(* A deleted entry comes back by a record whose author had seen the        *)
(* deletion.                                                               *)
Revived(q, value, state, objects, stored) ==
    \A o \in O : objects[o] = None /\ value[o] # None =>
        \A gone \in stored :
            gone.object = o /\ gone.after = None /\ gone.sequence <= state.seen[gone.device] =>
                \E x \in stored : /\ New(q, state, x) /\ x.object = o /\ x.after # None
                                  /\ x.context[gone.device] >= gone.sequence

LEMMA NewStays ==
    ASSUME NEW r \in Replica, NEW q \in Replica, NEW x \in Record, TakenUp(r, q, x),
           NEW state, NEW y \in Record, New(r, state, y)
    PROVE  New(q, state, y)
<1>1. y.device \in D /\ y.sequence \in Nat
  BY RecordFields
<1>2. q.seen[y.device] \in Nat /\ r.seen[y.device] \in Nat /\ q.seen[y.device] >= r.seen[y.device]
  BY <1>1, SeenGrows
<1> QED BY <1>1, <1>2 DEF New

LEMMA TakenIsNew ==
    ASSUME NEW r \in Replica, NEW q \in Replica, NEW x \in Record, TakenUp(r, q, x),
           NEW state \in Replica, Grown(r, state)
    PROVE  New(q, state, x)
<1>1. x.device \in D /\ x.sequence \in Nat
  BY RecordFields
<1>2. /\ r.seen[x.device] \in Nat /\ q.seen[x.device] = x.sequence /\ x.sequence = r.seen[x.device] + 1
      /\ state.seen[x.device] \in Nat /\ r.seen[x.device] >= state.seen[x.device]
  BY <1>1, SeenGrows, SeenIsNumber DEF Grown
<1> QED BY <1>1, <1>2 DEF New

LEMMA SettledStep ==
    ASSUME NEW r \in Replica, NEW q \in Replica, NEW stored \in SUBSET Record, NEW x \in stored,
           TakenUp(r, q, x), NEW state \in Replica, Grown(r, state), Settled(r, state, stored)
    PROVE  Settled(q, state, stored)
<1>1. SUFFICES ASSUME NEW c \in state.conflicts, c \notin q.conflicts
               PROVE  \E y \in stored : /\ New(q, state, y) /\ y.object = c.object /\ y.resolution
                                        /\ y.context[c.device] >= c.sequence
  BY DEF Settled
<1>2. CASE c \in r.conflicts
  <2>1. x.resolution /\ c.object = x.object /\ x.context[c.device] >= c.sequence
    BY <1>1, <1>2 DEF TakenUp, Deciding
  <2>2. New(q, state, x)
    BY TakenIsNew
  <2> QED BY <2>1, <2>2
<1>3. CASE c \notin r.conflicts
  <2>1. PICK y \in stored : /\ New(r, state, y) /\ y.object = c.object /\ y.resolution
                            /\ y.context[c.device] >= c.sequence
    BY <1>1, <1>3 DEF Settled
  <2>2. New(q, state, y)
    BY <2>1, NewStays
  <2> QED BY <2>1, <2>2
<1> QED BY <1>2, <1>3

(* How the entries change with a record.                                   *)
Merging(r, x, value, later) ==
    \A o \in O : \/ later[o] = value[o]
                 \/ o = x.object /\ later[o] = Incoming(r, x, value[o]).value

(* An entry that shows the same as one that is there is there.             *)
LEMMA AspectOfNone ==
    ASSUME NEW value \in Option, NEW other \in Option, NEW a \in F \cup {"state"},
           value # None, Aspect(other, a) = Aspect(value, a)
    PROVE  other # None
<1>1. value.fields \in [F -> V] /\ value.state # "deleted"
  BY OptionValue
<1>2. CASE a = "state"
  BY <1>1, <1>2 DEF Aspect, StateOf
<1>3. CASE a # "state"
  <2>1. a \in F /\ Aspect(value, a) = value.fields[a]
    BY <1>3 DEF Aspect, FieldOf
  <2>2. value.fields[a] # None
    BY <1>1, <2>1, ConstantsAssumption
  <2> QED BY <1>3, <2>1, <2>2 DEF Aspect, FieldOf
<1> QED BY <1>2, <1>3

(* One record more keeps each of the three.                                *)
LEMMA ReplacedStep ==
    ASSUME NEW r \in Replica, NEW q \in Replica, NEW stored \in SUBSET Record, NEW x \in stored,
           TakenUp(r, q, x), NEW state \in Replica, Grown(r, state), NEW d \in D,
           NEW all \in SUBSET Record,
           \A w \in all : w.device = d /\ w.object # None => w.sequence <= state.versions[w.object][d],
           NEW objects \in Entries, NEW value \in Entries, NEW later \in Entries,
           Merging(r, x, value, later), Replaced(r, value, state, objects, d, all, stored)
    PROVE  Replaced(q, later, state, objects, d, all, stored)
<1>1. SUFFICES ASSUME NEW o \in O, NEW a \in F \cup {"state"}, objects[o] # None,
                      Aspect(later[o], a) # Aspect(objects[o], a)
               PROVE  \E y \in stored :
                         /\ New(q, state, y) /\ y.object = o
                         /\ \/ Aspect(y.before, a) = Aspect(objects[o], a)
                            \/ \A w \in all : w.device = d /\ w.object = o => y.context[d] >= w.sequence
  BY DEF Replaced
<1>2. CASE Aspect(value[o], a) # Aspect(objects[o], a)
  <2>1. PICK y \in stored :
           /\ New(r, state, y) /\ y.object = o
           /\ \/ Aspect(y.before, a) = Aspect(objects[o], a)
              \/ \A w \in all : w.device = d /\ w.object = o => y.context[d] >= w.sequence
    BY <1>1, <1>2 DEF Replaced
  <2>2. New(q, state, y)
    BY <2>1, NewStays
  <2> QED BY <2>1, <2>2
<1>3. CASE Aspect(value[o], a) = Aspect(objects[o], a)
  <2>1. objects[o] \in Option /\ value[o] \in Option
    BY DEF Entries, Option
  <2>2. value[o] # None
    BY <1>1, <1>3, <2>1, AspectOfNone
  <2>3. o = x.object /\ later[o] = Incoming(r, x, value[o]).value
    BY <1>1, <1>3 DEF Merging
  <2>4. Aspect(Incoming(r, x, value[o]).value, a) # Aspect(value[o], a)
    BY <1>1, <1>3, <2>3
  <2>5. x \in Record
    OBVIOUS
  <2>6. Aspect(x.before, a) = Aspect(value[o], a) \/ covers(x.context, r.versions[x.object])
    BY <2>1, <2>2, <2>4, <2>5, IncomingAspect
  <2>7. ASSUME covers(x.context, r.versions[x.object]), NEW w \in all, w.device = d, w.object = o
        PROVE  x.context[d] >= w.sequence
    <3>1. o # None
      BY ConstantsAssumption
    <3>2. w.sequence <= state.versions[o][d]
      BY <2>7, <3>1
    <3>3. state.versions[o][d] \in Nat /\ r.versions[o][d] \in Nat
      BY SeenIsNumber
    <3>4. r.versions[o][d] >= state.versions[o][d]
      BY DEF Grown
    <3>5. x.context[d] \in Nat /\ w.sequence \in Nat
      BY <2>5, RecordFields DEF Vector
    <3>6. x.context[d] >= r.versions[o][d]
      BY <2>3, <2>7 DEF covers
    <3> QED BY <3>2, <3>3, <3>4, <3>5, <3>6
  <2>8. New(q, state, x)
    BY <2>5, TakenIsNew
  <2> QED BY <1>3, <2>3, <2>6, <2>7, <2>8
<1> QED BY <1>2, <1>3

LEMMA RevivedStep ==
    ASSUME NEW r \in Replica, NEW q \in Replica, NEW stored \in SUBSET Record, NEW x \in stored,
           TakenUp(r, q, x), NEW state \in Replica, Grown(r, state), Understood(state, stored),
           NEW objects \in Entries, NEW value \in Entries, NEW later \in Entries,
           Merging(r, x, value, later), Revived(r, value, state, objects, stored)
    PROVE  Revived(q, later, state, objects, stored)
<1>1. SUFFICES ASSUME NEW o \in O, objects[o] = None, later[o] # None, NEW gone \in stored,
                      gone.object = o, gone.after = None, gone.sequence <= state.seen[gone.device]
               PROVE  \E y \in stored : /\ New(q, state, y) /\ y.object = o /\ y.after # None
                                        /\ y.context[gone.device] >= gone.sequence
  BY DEF Revived
<1>2. CASE value[o] # None
  <2>1. PICK y \in stored : /\ New(r, state, y) /\ y.object = o /\ y.after # None
                            /\ y.context[gone.device] >= gone.sequence
    BY <1>1, <1>2 DEF Revived
  <2>2. New(q, state, y)
    BY <2>1, NewStays
  <2> QED BY <2>1, <2>2
<1>3. CASE value[o] = None
  <2>1. o = x.object /\ Incoming(r, x, None).value # None
    BY <1>1, <1>3 DEF Merging
  <2>2. x \in Record /\ gone \in Record
    OBVIOUS
  <2>3. x.after # None /\ (covers(x.context, r.versions[x.object]) \/ x.object \notin r.tombstones)
    BY <2>1, <2>2, IncomingRevives
  <2>4. o # None
    BY ConstantsAssumption
  <2>5. gone.sequence <= state.versions[o][gone.device] /\ o \in state.tombstones
    BY <1>1, <2>4 DEF Understood
  <2>6. o \in r.tombstones
    BY <2>5 DEF Grown
  <2>7. covers(x.context, r.versions[o])
    BY <2>1, <2>3, <2>6
  <2>8. gone.device \in D /\ gone.sequence \in Nat
    BY <2>2, RecordFields
  <2>9. x.context[gone.device] \in Nat
    BY <2>2, <2>8, RecordFields DEF Vector
  <2>10. state.versions[o][gone.device] \in Nat /\ r.versions[o][gone.device] \in Nat
    BY <2>8, SeenIsNumber
  <2>11. r.versions[o][gone.device] >= state.versions[o][gone.device]
    BY <2>8 DEF Grown
  <2>12. x.context[gone.device] >= r.versions[o][gone.device]
    BY <2>7, <2>8 DEF covers
  <2>13. x.context[gone.device] >= gone.sequence
    BY <2>5, <2>8, <2>9, <2>10, <2>11, <2>12
  <2>14. New(q, state, x)
    BY <2>2, TakenIsNew
  <2> QED BY <2>1, <2>3, <2>13, <2>14
<1> QED BY <1>2, <1>3

(***************************************************************************)
(* A whole receive                                                         *)
(***************************************************************************)
(* What it finds: the replica of the device, all the records there are,    *)
(* and those of them that are in the storage.                              *)
Informed(q, d, all, stored) ==
    Understood(q, stored) /\ Introduced(q) /\ Awaited(q, d, stored) /\ Published(q, all, stored)
Lawful(state, d, all, stored) ==
    /\ \A x \in stored : x.sequence = 1 => x.object = None
    /\ \A x \in all : x.device = d /\ x.object # None => x.sequence <= state.versions[x.object][d]

(* What it leaves.                                                         *)
Moved(q, state, d, all, stored) ==
    /\ Grown(q, state) /\ Delivered(q, state, stored) /\ Vouched(q, state, stored)
    /\ Informed(q, d, all, stored)
Owed(q, value, state, objects, d, all, stored) ==
    /\ Replaced(q, value, state, objects, d, all, stored) /\ Settled(q, state, stored)
    /\ Revived(q, value, state, objects, stored)

(* receive refuses no record that is ready, given these.                   *)
LEMMA NotRefused ==
    ASSUME NEW r \in Replica, NEW d \in D, NEW stored \in SUBSET Record, NEW x \in stored, Ready(r, x),
           Introduced(r), Awaited(r, d, stored), x.sequence = 1 => x.object = None
    PROVE  ~Refused(r, d, x)
<1>1. x.device \in D /\ x.sequence \in Nat /\ r.seen[x.device] \in Nat /\ x.sequence = r.seen[x.device] + 1
  BY RecordFields, SeenIsNumber DEF Ready
<1>2. x.device = d => x \in r.outbox
  BY <1>1 DEF Awaited
<1>3. x.sequence # 1 => r.members[x.device] # None
  BY <1>1 DEF Introduced
<1> QED BY <1>2, <1>3 DEF Refused

(* Before the first record nothing has moved ...                           *)
LEMMA MovedAtFirst ==
    ASSUME NEW state \in Replica, NEW d, NEW all, NEW stored, NEW objects,
           Informed(state, d, all, stored)
    PROVE  Moved(state, state, d, all, stored) /\ Owed(state, objects, state, objects, d, all, stored)
<1>1. Grown(state, state)
  <2>1. /\ \A e \in D : state.seen[e] >= state.seen[e]
        /\ \A o \in O, e \in D : state.versions[o][e] >= state.versions[o][e]
    BY SeenIsNumber
  <2> QED BY <2>1 DEF Grown
<1>2. Delivered(state, state, stored) /\ Vouched(state, state, stored)
  BY DEF Delivered, Vouched
<1>3. Owed(state, objects, state, objects, d, all, stored)
  BY DEF Owed, Replaced, Settled, Revived
<1> QED BY <1>1, <1>2, <1>3 DEF Moved

(* ... and with every record that is ready it moves as it may,             *)
LEMMA MovedStep ==
    ASSUME NEW r \in Replica, NEW q \in Replica, NEW d \in D, NEW all \in SUBSET Record, Named1(all),
           NEW stored \in SUBSET all, NEW x \in stored, TakenUp(r, q, x),
           NEW state \in Replica, Moved(r, state, d, all, stored)
    PROVE  Moved(q, state, d, all, stored)
<1>1. x \in Record /\ stored \in SUBSET Record /\ Named1(stored)
  BY DEF Named1
<1>2. Grown(q, state)
  BY <1>1, GrownStep DEF Moved
<1>3. Delivered(q, state, stored)
  BY DeliveredStep DEF Moved
<1>4. Vouched(q, state, stored)
  BY VouchedStep DEF Moved
<1>5. Understood(q, stored)
  BY <1>1, UnderstoodStep DEF Moved, Informed
<1>6. Introduced(q)
  BY <1>1, IntroducedStep DEF Moved, Informed
<1>7. Awaited(q, d, stored)
  BY <1>1, AwaitedStep DEF Moved, Informed
<1>8. Published(q, all, stored)
  BY PublishedStep DEF Moved, Informed
<1> QED BY <1>2, <1>3, <1>4, <1>5, <1>6, <1>7, <1>8 DEF Moved, Informed

(* and the user gets what is owed.                                         *)
LEMMA OwedStep ==
    ASSUME NEW r \in Replica, NEW q \in Replica, NEW d \in D, NEW all \in SUBSET Record,
           NEW stored \in SUBSET all, NEW x \in stored, TakenUp(r, q, x),
           NEW state \in Replica, Moved(r, state, d, all, stored), Informed(state, d, all, stored),
           Lawful(state, d, all, stored),
           NEW objects \in Entries, NEW value \in Entries, NEW later \in Entries,
           Merging(r, x, value, later), Owed(r, value, state, objects, d, all, stored)
    PROVE  Owed(q, later, state, objects, d, all, stored)
<1>1. stored \in SUBSET Record /\ Grown(r, state)
  BY DEF Moved
<1>2. \A w \in all : w.device = d /\ w.object # None => w.sequence <= state.versions[w.object][d]
  BY DEF Lawful
<1>3. Replaced(q, later, state, objects, d, all, stored)
  BY <1>1, <1>2, ReplacedStep DEF Owed
<1>4. Settled(q, state, stored)
  BY <1>1, SettledStep DEF Owed
<1>5. Revived(q, later, state, objects, stored)
  BY <1>1, RevivedStep DEF Owed, Informed
<1> QED BY <1>3, <1>4, <1>5 DEF Owed

(* The entries as the basis of the next changes make no difference here.   *)
LEMMA NewBaseline ==
    ASSUME NEW r \in Replica, NEW value \in Entries
    PROVE  LET q == [r EXCEPT !.baseline = value]
           IN /\ q \in Replica /\ q.next = r.next /\ q.seen = r.seen /\ q.versions = r.versions
              /\ q.baseline = value /\ q.outbox = r.outbox /\ q.conflicts = r.conflicts
              /\ q.tombstones = r.tombstones /\ q.members = r.members /\ q.announced = r.announced
BY DEF Replica

LEMMA NewConflicts ==
    ASSUME NEW r \in Replica, NEW open \in SUBSET Conflict
    PROVE  LET q == [r EXCEPT !.conflicts = open]
           IN /\ q \in Replica /\ q.next = r.next /\ q.seen = r.seen /\ q.versions = r.versions
              /\ q.baseline = r.baseline /\ q.outbox = r.outbox /\ q.conflicts = open
              /\ q.tombstones = r.tombstones /\ q.members = r.members /\ q.announced = r.announced
BY DEF Replica

(* Neither speaks of the baseline.                                         *)
LEMMA MovedAlike ==
    ASSUME NEW r, NEW q, q.next = r.next, q.seen = r.seen, q.versions = r.versions, q.outbox = r.outbox,
           q.conflicts = r.conflicts, q.tombstones = r.tombstones, q.members = r.members,
           NEW state, NEW d, NEW all, NEW stored, NEW value, NEW objects,
           Moved(r, state, d, all, stored), Owed(r, value, state, objects, d, all, stored)
    PROVE  Moved(q, state, d, all, stored) /\ Owed(q, value, state, objects, d, all, stored)
<1>1. Grown(q, state)
  BY DEF Moved, Grown
<1>2. Delivered(q, state, stored)
  BY DEF Moved, Delivered
<1>3. Vouched(q, state, stored)
  BY DEF Moved, Vouched
<1>4. Informed(q, d, all, stored)
  BY DEF Moved, Informed, Understood, Introduced, Awaited, Published
<1>5. \A x : New(r, state, x) <=> New(q, state, x)
  BY DEF New
<1>6. Replaced(q, value, state, objects, d, all, stored)
  BY <1>5 DEF Owed, Replaced
<1>7. Settled(q, state, stored)
  BY <1>5 DEF Owed, Settled
<1>8. Revived(q, value, state, objects, stored)
  BY <1>5 DEF Owed, Revived
<1> QED BY <1>1, <1>2, <1>3, <1>4, <1>6, <1>7, <1>8 DEF Moved, Owed

(* What receive returns has moved and owes as every copy on its way does.  *)
LEMMA ReceiveKeeps ==
    ASSUME NEW d \in D, NEW state \in Replica, NEW objects \in Entries,
           NEW all \in SUBSET Record, Named1(all), NEW stored \in SUBSET all,
           NEW records \in SUBSET stored, IsFiniteSet(records),
           Informed(state, d, all, stored), Lawful(state, d, all, stored)
    PROVE  LET result == receive(d, state, objects, records)
           IN /\ result.error = FALSE /\ result.rep \in Replica /\ result.view \in Entries
              /\ Moved(result.rep, state, d, all, stored)
              /\ Owed(result.rep, result.view, state, objects, d, all, stored)
<1> DEFINE Good == {s \in Copy : /\ s.error = FALSE /\ Moved(s.rep, state, d, all, stored)
                                 /\ Owed(s.rep, s.view, state, objects, d, all, stored)}
<1>1. Working(state, objects) \in Good
  <2>1. Working(state, objects) \in Copy
    BY DEF Working, Copy
  <2>2. /\ Working(state, objects).error = FALSE /\ Working(state, objects).rep = state
        /\ Working(state, objects).view = objects
    BY DEF Working
  <2> QED BY <2>1, <2>2, MovedAtFirst
<1>2. ASSUME NEW s \in Good PROVE TakeNext(s, d, records) \in Good
  <2>1. /\ s \in Copy /\ s.error = FALSE /\ Moved(s.rep, state, d, all, stored)
        /\ Owed(s.rep, s.view, state, objects, d, all, stored)
        /\ s.rep \in Replica /\ s.view \in Entries
    BY DEF Copy
  <2>2. records \subseteq Record /\ Named1(records)
    BY DEF Named1
  <2>3. CASE TakeNext(s, d, records) = s
    BY <2>3
  <2>4. ASSUME NEW x \in records, Ready(s.rep, x), TakeNext(s, d, records) = Applied(s, d, x)
        PROVE  TakeNext(s, d, records) \in Good
    <3>1. x \in stored /\ x \in Record /\ stored \in SUBSET Record
      OBVIOUS
    <3>2. ~Refused(s.rep, d, x)
      <4>1. Introduced(s.rep) /\ Awaited(s.rep, d, stored) /\ (x.sequence = 1 => x.object = None)
        BY <2>1, <3>1 DEF Moved, Informed, Lawful
      <4> QED BY <2>1, <2>4, <3>1, <4>1, NotRefused
    <3> DEFINE t == Applied(s, d, x)
    <3>3. /\ t \in Copy /\ t.error = FALSE /\ TakenUp(s.rep, t.rep, x)
          /\ \A o \in O : \/ t.view[o] = s.view[o]
                          \/ o = x.object /\ t.view[o] = Incoming(s.rep, x, s.view[o]).value
      BY <2>1, <2>4, <3>1, <3>2, AppliedTakesUp
    <3> HIDE DEF t
    <3>4. Merging(s.rep, x, s.view, t.view)
      BY <3>3 DEF Merging
    <3>5. t.rep \in Replica /\ t.view \in Entries
      BY <3>3 DEF Copy
    <3> HIDE DEF Good
    <3>6. Moved(t.rep, state, d, all, stored)
      BY <2>1, <3>1, <3>3, <3>5, MovedStep
    <3>7. Owed(t.rep, t.view, state, objects, d, all, stored)
      BY <2>1, <3>1, <3>3, <3>4, <3>5, OwedStep
    <3>8. t \in Good
      BY <3>3, <3>6, <3>7 DEF Good
    <3> QED BY <2>4, <3>8 DEF t
  <2> HIDE DEF Good
  <2> QED BY <2>2, <2>3, <2>4, TakesOne
<1> HIDE DEF Good
<1>3. PICK s \in Good : receive(d, state, objects, records) =
          [rep |-> [s.rep EXCEPT !.baseline = s.view], view |-> s.view, error |-> s.error]
  BY <1>1, <1>2, ReceiveEnds
<1>4. /\ s \in Copy /\ s.error = FALSE /\ Moved(s.rep, state, d, all, stored)
      /\ Owed(s.rep, s.view, state, objects, d, all, stored)
  BY DEF Good
<1>5. s.rep \in Replica /\ s.view \in Entries
  BY <1>4 DEF Copy
<1> DEFINE q == [s.rep EXCEPT !.baseline = s.view]
<1>6. /\ q \in Replica /\ q.next = s.rep.next /\ q.seen = s.rep.seen /\ q.versions = s.rep.versions
      /\ q.outbox = s.rep.outbox /\ q.conflicts = s.rep.conflicts
      /\ q.tombstones = s.rep.tombstones /\ q.members = s.rep.members
  BY <1>5, NewBaseline
<1> HIDE DEF q
<1>7. Moved(q, state, d, all, stored) /\ Owed(q, s.view, state, objects, d, all, stored)
  BY <1>4, <1>6, MovedAlike
<1> DEFINE result == receive(d, state, objects, records)
<1>8. result.rep = q /\ result.view = s.view /\ result.error = FALSE
  BY <1>3, <1>4 DEF q
<1> HIDE DEF result
<1>9. /\ result.error = FALSE /\ result.rep \in Replica /\ result.view \in Entries
      /\ Moved(result.rep, state, d, all, stored)
      /\ Owed(result.rep, result.view, state, objects, d, all, stored)
  BY <1>5, <1>6, <1>7, <1>8
<1> QED BY <1>9 DEF result

(***************************************************************************)
(* All the replicas together                                               *)
(***************************************************************************)
(* The records there are: in the storage or still in an outbox.            *)
Every(reps, stored) == stored \cup UNION {reps[d].outbox : d \in D}

(* A record as the replica of its author knows it.                         *)
Own(r, x) ==
    /\ x.sequence >= 1 /\ x.sequence < r.next /\ (x.sequence = 1 => x.object = None)
    /\ \A c \in D : c # x.device => x.context[c] <= r.seen[c]
    /\ x.object # None => x.sequence <= r.versions[x.object][x.device]

(* The invariant. Every record is its author's, under a number of its      *)
(* own,                                                                    *)
Typed(reps, stored) == reps \in [D -> Replica] /\ stored \subseteq Record /\ IsFiniteSet(stored)
Authored(reps) == \A d \in D : \A x \in reps[d].outbox : x.device = d
Numbered(reps, stored) ==
    Named1(Every(reps, stored)) /\ \A x \in Every(reps, stored) : Own(reps[x.device], x)
(* nobody has seen more than was written,                                  *)
Behind(reps) == \A d, e \in D : reps[d].seen[e] < reps[e].next
(* or believes that somebody has,                                          *)
Truthful(reps) ==
    \A d, e \in D : reps[d].members[e] # None =>
        \A x \in D : reps[d].members[e][x] <= IF x = e THEN reps[e].next - 1 ELSE reps[e].seen[x]
(* every number that was given is somewhere,                               *)
Kept(reps, stored) ==
    \A d \in D : \A n \in 1..reps[d].next - 1 :
        \E x \in stored \cup reps[d].outbox : x.device = d /\ x.sequence = n
(* and every replica is as a receive finds it and leaves it.               *)
AllInformed(reps, stored) == \A d \in D : Informed(reps[d], d, Every(reps, stored), stored)

Safe(reps, stored) ==
    /\ Typed(reps, stored) /\ Authored(reps) /\ Numbered(reps, stored) /\ Behind(reps)
    /\ Truthful(reps) /\ Kept(reps, stored) /\ AllInformed(reps, stored)

LEMMA EveryIsRecords ==
    ASSUME NEW reps, NEW stored, Typed(reps, stored)
    PROVE  Every(reps, stored) \in SUBSET Record /\ stored \in SUBSET Every(reps, stored)
BY DEF Every, Typed, Replica

LEMMA SafeIsLawful ==
    ASSUME NEW reps, NEW stored, Safe(reps, stored), NEW d \in D
    PROVE  Lawful(reps[d], d, Every(reps, stored), stored)
<1>1. \A x \in Every(reps, stored) : Own(reps[x.device], x)
  BY DEF Safe, Numbered
<1>2. stored \in SUBSET Every(reps, stored)
  BY EveryIsRecords DEF Safe
<1> QED BY <1>1, <1>2 DEF Own, Lawful

(* A replica that numbered what it had to say.                             *)
Queued(q, r, d, added) ==
    /\ q \in Replica /\ added \subseteq Record
    /\ q.next >= r.next /\ q.seen = r.seen /\ q.tombstones = r.tombstones /\ q.members = r.members
    /\ q.outbox = r.outbox \cup added
    /\ \A o \in O, e \in D : e # d => q.versions[o][e] = r.versions[o][e]
    /\ \A o \in O : q.versions[o][d] = r.versions[o][d] \/ q.versions[o][d] >= r.next
    /\ \A x \in added :
          /\ x.device = d /\ x.sequence >= r.next /\ x.sequence < q.next
          /\ \A c \in D : c # d => x.context[c] = r.seen[c]
          /\ x.sequence = 1 => x.object = None
          /\ x.object # None => x.sequence <= q.versions[x.object][d]
    /\ \A x, y \in added : x.sequence = y.sequence => x = y
    /\ \A n \in Nat : n >= r.next /\ n < q.next => \E x \in added : x.sequence = n

(* What queue does, in these words.                                        *)
LEMMA QueueIsQueued ==
    ASSUME NEW r \in Replica, NEW d \in D, NEW objects \in Entries, NEW resolved \in SUBSET O
    PROVE  Queued(queue(r, d, objects, resolved), r, d, Added(r, d, objects, resolved))
<1> DEFINE q == queue(r, d, objects, resolved)
           added == Added(r, d, objects, resolved)
<1>1. /\ q.seen = r.seen /\ q.tombstones = r.tombstones
      /\ q.members = r.members /\ q.outbox = r.outbox \cup added
      /\ \A o \in O, e \in D : e # d => q.versions[o][e] = r.versions[o][e]
      /\ \A o \in O : q.versions[o][d] = r.versions[o][d] \/ q.versions[o][d] >= r.next
  BY QueueKeeps
<1>2. q \in Replica /\ q.next >= r.next
  BY QueueType, QueueNext
<1>3. ASSUME NEW x \in added
      PROVE  /\ x \in Record /\ x.device = d /\ x.sequence >= r.next /\ x.sequence < q.next
             /\ x.context = [r.seen EXCEPT ![d] = x.sequence - 1]
             /\ x.sequence = 1 => x.object = None
             /\ x.object # None => x.sequence <= q.versions[x.object][d]
  BY <1>3, QueueAdds
<1>4. ASSUME NEW x \in added, NEW c \in D, c # d PROVE x.context[c] = r.seen[c]
  <2>1. r.seen \in Vector
    BY DEF Replica
  <2>2. x.context = [r.seen EXCEPT ![d] = x.sequence - 1]
    BY <1>3
  <2> QED BY <1>4, <2>1, <2>2 DEF Vector
<1>5. \A x, y \in added : x.sequence = y.sequence => x = y
  BY QueueDistinct
<1>6. \A n \in Nat : n >= r.next /\ n < q.next => \E x \in added : x.sequence = n
  BY QueueHasNoGap
<1> HIDE DEF q, added
<1>7. Queued(q, r, d, added)
  BY <1>1, <1>2, <1>3, <1>4, <1>5, <1>6 DEF Queued
<1> QED BY <1>7 DEF q, added

LEMMA QueuedAnyConflicts ==
    ASSUME NEW q, NEW r, NEW d, NEW added, Queued(q, r, d, added), NEW open \in SUBSET Conflict
    PROVE  Queued([q EXCEPT !.conflicts = open], r, d, added)
<1> DEFINE p == [q EXCEPT !.conflicts = open]
<1>1. q \in Replica
  BY DEF Queued
<1>2. /\ p \in Replica /\ p.next = q.next /\ p.seen = q.seen /\ p.versions = q.versions
      /\ p.outbox = q.outbox /\ p.tombstones = q.tombstones /\ p.members = q.members
  BY <1>1, NewConflicts
<1> HIDE DEF p
<1>3. Queued(p, r, d, added)
  BY <1>2 DEF Queued
<1> QED BY <1>3 DEF p

(* What the invariant says of one record.                                  *)
LEMMA OwnFacts ==
    ASSUME NEW reps, NEW stored, Safe(reps, stored), NEW x \in Every(reps, stored)
    PROVE  /\ x \in Record /\ x.device \in D /\ x.sequence \in Nat /\ x.object \in O \cup {None}
           /\ \A e \in D : x.context[e] \in Nat
           /\ reps[x.device] \in Replica /\ reps[x.device].next \in Nat
           /\ Own(reps[x.device], x)
<1>1. x \in Record
  BY EveryIsRecords DEF Safe
<1>2. /\ x.device \in D /\ x.sequence \in Nat /\ x.object \in O \cup {None} /\ \A e \in D : x.context[e] \in Nat
  BY <1>1, RecordFields DEF Vector
<1>3. reps[x.device] \in Replica
  BY <1>2 DEF Safe, Typed
<1>4. reps[x.device].next \in Nat
  BY <1>3, FirstIsNumber
<1> QED BY <1>1, <1>2, <1>3, <1>4 DEF Safe, Numbered

(* What a replica counts is numbers.                                       *)
LEMMA ReplicaNumbers ==
    ASSUME NEW r \in Replica
    PROVE  /\ r.next \in Nat /\ r.next >= 1
           /\ \A e \in D : r.seen[e] \in Nat /\ (r.members[e] # None => \A c \in D : r.members[e][c] \in Nat)
           /\ \A o \in O, e \in D : r.versions[o][e] \in Nat
<1>1. r.next \in Nat \ {0} /\ r.members \in [D -> Vector \cup {None}]
  BY DEF Replica
<1>2. \A e \in D : r.members[e] # None => \A c \in D : r.members[e][c] \in Nat
  BY <1>1 DEF Vector
<1> QED BY <1>1, <1>2, SeenIsNumber

(* One device of all numbers what it has to say.                           *)
Numbers(next, reps, d, q, added) == Queued(q, reps[d], d, added) /\ next = [reps EXCEPT ![d] = q]

(* A queue keeps records numbered ...                                      *)
LEMMA QueuedNumbered ==
    ASSUME NEW reps, NEW stored, Safe(reps, stored), NEW d \in D, NEW added, NEW q, NEW next,
           Numbers(next, reps, d, q, added)
    PROVE  /\ Typed(next, stored) /\ Authored(next) /\ Numbered(next, stored)
           /\ Every(next, stored) = Every(reps, stored) \cup added
<1>0. Queued(q, reps[d], d, added)
  BY DEF Numbers
<1>1. /\ reps \in [D -> Replica] /\ q \in Replica /\ reps[d] \in Replica /\ next \in [D -> Replica]
      /\ next[d] = q /\ \A e \in D : e # d => next[e] = reps[e]
  BY <1>0 DEF Safe, Typed, Queued, Numbers
<1>2. Typed(next, stored)
  BY <1>1 DEF Safe, Typed
<1>3. Authored(next)
  BY <1>1, <1>0 DEF Safe, Authored, Queued
<1>4. Every(next, stored) = Every(reps, stored) \cup added
  <2>1. \A e \in D : next[e].outbox = IF e = d THEN reps[e].outbox \cup added ELSE reps[e].outbox
    BY <1>1, <1>0 DEF Queued
  <2>2. ASSUME NEW x
        PROVE  (\E e \in D : x \in next[e].outbox) <=> (\E e \in D : x \in reps[e].outbox) \/ x \in added
    <3>1. \A e \in D : x \in next[e].outbox <=> x \in reps[e].outbox \/ (e = d /\ x \in added)
      BY <2>1
    <3>2. ASSUME x \in added PROVE \E e \in D : x \in next[e].outbox
      BY <3>1, <3>2
    <3> QED BY <3>1, <3>2
  <2> QED BY <2>2 DEF Every
<1>5. reps[d].next \in Nat /\ reps[d].next >= 1 /\ q.next \in Nat /\ q.next >= reps[d].next
  BY <1>1, ReplicaNumbers, <1>0 DEF Queued
<1>6. ASSUME NEW x \in added
      PROVE  /\ x.device = d /\ x.sequence \in Nat /\ x.sequence >= reps[d].next /\ x.sequence < q.next
  BY RecordFields, <1>0 DEF Queued
<1>7. Named1(Every(next, stored))
  <2>1. SUFFICES ASSUME NEW x \in Every(next, stored), NEW y \in Every(next, stored),
                        x.device = y.device, x.sequence = y.sequence
                 PROVE  x = y
    BY DEF Named1
  <2>2. \A z \in Every(reps, stored) : z.device = d => z.sequence \in Nat /\ z.sequence < reps[d].next
    BY OwnFacts DEF Own
  <2>3. CASE x \in added /\ y \in added
    BY <2>1, <2>3, <1>0 DEF Queued
  <2>4. CASE x \in Every(reps, stored) /\ y \in Every(reps, stored)
    BY <2>1, <2>4 DEF Safe, Numbered, Named1
  <2>5. CASE x \in Every(reps, stored) /\ y \in added
    BY <1>5, <1>6, <2>1, <2>2, <2>5
  <2>6. CASE x \in added /\ y \in Every(reps, stored)
    BY <1>5, <1>6, <2>1, <2>2, <2>6
  <2> QED BY <1>4, <2>3, <2>4, <2>5, <2>6
<1>8. ASSUME NEW x \in Every(next, stored) PROVE Own(next[x.device], x)
  <2>1. CASE x \in added
    <3>1. /\ x \in Record /\ x.device \in D
      BY <2>1, RecordFields, <1>0 DEF Queued
    <3>2. \A c \in D : c # d => x.context[c] = reps[d].seen[c] /\ x.context[c] <= q.seen[c]
      <4>1. q.seen = reps[d].seen /\ \A c \in D : c # d => x.context[c] = reps[d].seen[c]
        BY <2>1, <1>0 DEF Queued
      <4>2. \A c \in D : reps[d].seen[c] \in Nat
        BY <1>1, SeenIsNumber
      <4> QED BY <4>1, <4>2
    <3>3. /\ x.sequence = 1 => x.object = None
          /\ x.object # None => x.sequence <= q.versions[x.object][d]
      BY <2>1, <1>0 DEF Queued
    <3>4. next[x.device] = q
      BY <1>1, <1>6, <2>1
    <3> QED BY <1>5, <1>6, <2>1, <3>2, <3>3, <3>4 DEF Own
  <2>2. CASE x \in Every(reps, stored)
    <3>1. /\ x.device \in D /\ x.sequence \in Nat /\ x.object \in O \cup {None} /\ Own(reps[x.device], x)
      BY <2>2, OwnFacts
    <3>2. CASE x.device # d
      BY <1>1, <3>1, <3>2
    <3>3. CASE x.device = d
      <4>1. x.sequence >= 1 /\ x.sequence < q.next /\ (x.sequence = 1 => x.object = None)
        BY <1>5, <3>1, <3>3 DEF Own
      <4>2. \A c \in D : c # d => x.context[c] <= q.seen[c]
        BY <3>1, <3>3, <1>0 DEF Own, Queued
      <4>3. ASSUME x.object # None PROVE x.sequence <= q.versions[x.object][d]
        <5>1. x.object \in O
          BY <3>1, <4>3
        <5>2. x.sequence <= reps[d].versions[x.object][d] /\ x.sequence < reps[d].next
          BY <3>1, <3>3, <4>3 DEF Own
        <5>3. q.versions[x.object][d] \in Nat
          BY <1>1, <5>1, SeenIsNumber
        <5>4. q.versions[x.object][d] = reps[d].versions[x.object][d] \/ q.versions[x.object][d] >= reps[d].next
          BY <5>1, <1>0 DEF Queued
        <5> QED BY <1>5, <3>1, <5>2, <5>3, <5>4
      <4> QED BY <1>1, <3>3, <4>1, <4>2, <4>3 DEF Own
    <3> QED BY <3>2, <3>3
  <2> QED BY <1>4, <2>1, <2>2
<1> QED BY <1>2, <1>3, <1>4, <1>7, <1>8 DEF Numbered

(* ... and all the rest of the invariant.                                  *)
LEMMA QueuedIsSafe ==
    ASSUME NEW reps, NEW stored, Safe(reps, stored), NEW d \in D, NEW added, NEW q, NEW next,
           Numbers(next, reps, d, q, added)
    PROVE  Safe(next, stored)
<1>0. Queued(q, reps[d], d, added)
  BY DEF Numbers
<1>1. /\ reps \in [D -> Replica] /\ q \in Replica /\ reps[d] \in Replica /\ next \in [D -> Replica]
      /\ next[d] = q /\ \A e \in D : e # d => next[e] = reps[e]
  BY <1>0 DEF Safe, Typed, Queued, Numbers
<1>2. /\ Typed(next, stored) /\ Authored(next) /\ Numbered(next, stored)
      /\ Every(next, stored) = Every(reps, stored) \cup added
  BY QueuedNumbered
<1>3. /\ \A e \in D : /\ next[e].seen = reps[e].seen /\ next[e].members = reps[e].members
                      /\ next[e].next \in Nat /\ reps[e].next \in Nat /\ next[e].next >= reps[e].next
                      /\ next[e].tombstones = reps[e].tombstones
                      /\ reps[e].outbox \subseteq next[e].outbox
                      /\ reps[e] \in Replica
  <2>1. SUFFICES ASSUME NEW e \in D
                 PROVE  /\ next[e].seen = reps[e].seen /\ next[e].members = reps[e].members
                        /\ next[e].next \in Nat /\ reps[e].next \in Nat /\ next[e].next >= reps[e].next
                        /\ next[e].tombstones = reps[e].tombstones
                        /\ reps[e].outbox \subseteq next[e].outbox
                        /\ reps[e] \in Replica
    OBVIOUS
  <2>2. next[e].next \in Nat /\ reps[e].next \in Nat /\ reps[e] \in Replica
    BY <1>1, ReplicaNumbers
  <2>3. CASE e = d
    BY <1>1, <2>2, <2>3, <1>0 DEF Queued
  <2>4. CASE e # d
    BY <1>1, <2>2, <2>4
  <2> QED BY <2>3, <2>4
<1>4. \A e, c \in D : reps[e].seen[c] \in Nat /\ reps[e].seen[c] < reps[c].next
  BY <1>3, SeenIsNumber DEF Safe, Behind
<1>5. Behind(next)
  BY <1>3, <1>4 DEF Behind
<1>6. Truthful(next)
  <2>1. SUFFICES ASSUME NEW e \in D, NEW c \in D, next[e].members[c] # None, NEW x \in D
                 PROVE  next[e].members[c][x] <= IF x = c THEN next[c].next - 1 ELSE next[c].seen[x]
    BY DEF Truthful
  <2>2. next[e].members = reps[e].members /\ next[c].seen = reps[c].seen
    BY <1>3
  <2>3. reps[e].members[c][x] <= IF x = c THEN reps[c].next - 1 ELSE reps[c].seen[x]
    BY <2>1, <2>2 DEF Safe, Truthful
  <2>4. reps[e].members[c][x] \in Nat
    BY <1>3, <2>1, <2>2, ReplicaNumbers
  <2> QED BY <1>3, <2>2, <2>3, <2>4
<1>7. Kept(next, stored)
  <2>1. SUFFICES ASSUME NEW e \in D, NEW n \in 1..next[e].next - 1
                 PROVE  \E x \in stored \cup next[e].outbox : x.device = e /\ x.sequence = n
    BY DEF Kept
  <2>2. n \in Nat /\ n >= 1 /\ n < next[e].next
    BY <1>3
  <2>3. CASE n < reps[e].next
    <3>1. n \in 1..reps[e].next - 1
      BY <1>3, <2>2, <2>3
    <3>2. \E x \in stored \cup reps[e].outbox : x.device = e /\ x.sequence = n
      BY <3>1 DEF Safe, Kept
    <3> QED BY <1>3, <3>2
  <2>4. CASE ~(n < reps[e].next)
    <3>1. e = d
      BY <1>1, <2>2, <2>4
    <3>2. n >= reps[d].next /\ n < q.next
      BY <1>1, <1>3, <2>2, <2>4, <3>1
    <3>3. PICK x \in added : x.sequence = n
      BY <2>2, <3>2, <1>0 DEF Queued
    <3>4. x.device = d /\ x \in q.outbox
      BY <1>0 DEF Queued
    <3> QED BY <1>1, <3>1, <3>3, <3>4
  <2> QED BY <2>3, <2>4
<1>8. ASSUME NEW e \in D PROVE Informed(next[e], e, Every(next, stored), stored)
  <2>1. Informed(reps[e], e, Every(reps, stored), stored)
    BY DEF Safe, AllInformed
  <2>2. Understood(next[e], stored)
    <3>1. SUFFICES ASSUME NEW x \in stored, x.sequence <= next[e].seen[x.device]
                   PROVE  /\ covers(next[e].seen, x.context)
                          /\ x.object # None => x.sequence <= next[e].versions[x.object][x.device]
                          /\ x.object # None /\ x.after = None => x.object \in next[e].tombstones
      BY DEF Understood
    <3>2. /\ covers(reps[e].seen, x.context)
          /\ x.object # None => x.sequence <= reps[e].versions[x.object][x.device]
          /\ x.object # None /\ x.after = None => x.object \in reps[e].tombstones
      BY <1>3, <2>1, <3>1 DEF Informed, Understood
    <3>3. x \in Record /\ x.device \in D /\ x.sequence \in Nat /\ x.object \in O \cup {None}
      BY RecordFields DEF Safe, Typed
    <3>4. ASSUME x.object # None PROVE x.sequence <= next[e].versions[x.object][x.device]
      <4>1. CASE e # d
        BY <1>1, <3>2, <3>4, <4>1
      <4>2. CASE e = d
        <5>1. x.object \in O /\ x.sequence <= reps[d].seen[x.device] /\ x.sequence < reps[x.device].next
          BY <1>3, <1>4, <3>1, <3>3, <3>4, <4>2
        <5>2. q.versions[x.object][x.device] \in Nat
          BY <1>1, <3>3, <5>1, SeenIsNumber
        <5>3. CASE x.device # d
          <6>1. q.versions[x.object][x.device] = reps[d].versions[x.object][x.device]
            BY <3>3, <5>1, <5>3, <1>0 DEF Queued
          <6> QED BY <1>1, <3>2, <3>4, <4>2, <6>1
        <5>4. CASE x.device = d
          <6>1. q.versions[x.object][d] = reps[d].versions[x.object][d] \/ q.versions[x.object][d] >= reps[d].next
            BY <5>1, <1>0 DEF Queued
          <6> QED BY <1>1, <1>3, <3>2, <3>3, <3>4, <4>2, <5>1, <5>2, <5>4, <6>1
        <5> QED BY <5>3, <5>4
      <4> QED BY <4>1, <4>2
    <3> QED BY <1>3, <3>2, <3>4
  <2>3. Introduced(next[e])
    BY <1>3, <2>1 DEF Informed, Introduced
  <2>4. Awaited(next[e], e, stored)
    BY <1>3, <2>1 DEF Informed, Awaited
  <2>5. Published(next[e], Every(next, stored), stored)
    <3>1. SUFFICES ASSUME NEW x \in Every(next, stored), x.sequence <= next[e].seen[x.device]
                   PROVE  x \in stored
      BY DEF Published
    <3>2. CASE x \in Every(reps, stored)
      BY <1>3, <2>1, <3>1, <3>2 DEF Informed, Published
    <3>3. CASE x \in added
      <4>1. x.device = d /\ x.sequence >= reps[d].next /\ x.sequence \in Nat
        BY <3>3, RecordFields, <1>0 DEF Queued
      <4>2. x.sequence <= reps[e].seen[d]
        BY <1>3, <3>1, <4>1
      <4> QED BY <1>3, <1>4, <4>1, <4>2
    <3> QED BY <1>2, <3>2, <3>3
  <2> QED BY <2>2, <2>3, <2>4, <2>5 DEF Informed
<1> QED BY <1>2, <1>5, <1>6, <1>7, <1>8 DEF Safe, AllInformed

(* One device of all takes up records of the storage.                      *)
Receives(next, reps, stored, d, q) ==
    /\ q \in Replica /\ Moved(q, reps[d], d, Every(reps, stored), stored)
    /\ next = [reps EXCEPT ![d] = q]

(* A receive lets no replica forget anything,                              *)
LEMMA ReceivedGrows ==
    ASSUME NEW reps, NEW stored, Safe(reps, stored), NEW d \in D, NEW q, NEW next,
           Receives(next, reps, stored, d, q), NEW e \in D
    PROVE  /\ reps[e] \in Replica /\ next[e] \in Replica
           /\ next[e].next = reps[e].next /\ next[e].outbox \subseteq reps[e].outbox
           /\ \A c \in D : next[e].seen[c] >= reps[e].seen[c]
           /\ \A o \in O, c \in D : next[e].versions[o][c] >= reps[e].versions[o][c]
<1>1. reps[e] \in Replica /\ next[e] \in Replica /\ (e = d => next[e] = q) /\ (e # d => next[e] = reps[e])
  BY DEF Safe, Typed, Receives
<1>2. CASE e = d
  BY <1>1, <1>2 DEF Receives, Moved, Grown
<1>3. CASE e # d
  BY <1>1, <1>3, ReplicaNumbers
<1> QED BY <1>1, <1>2, <1>3

(* and what a replica knows of its records stays so,                       *)
LEMMA OwnStays ==
    ASSUME NEW r \in Replica, NEW q \in Replica, NEW x \in Record, Own(r, x),
           q.next = r.next, \A c \in D : q.seen[c] >= r.seen[c],
           \A o \in O, c \in D : q.versions[o][c] >= r.versions[o][c]
    PROVE  Own(q, x)
<1>1. /\ x.device \in D /\ x.sequence \in Nat /\ x.object \in O \cup {None} /\ \A e \in D : x.context[e] \in Nat
  BY RecordFields DEF Vector
<1>2. ASSUME NEW c \in D, c # x.device PROVE x.context[c] <= q.seen[c]
  <2>1. x.context[c] <= r.seen[c] /\ r.seen[c] \in Nat /\ q.seen[c] \in Nat
    BY <1>2, SeenIsNumber DEF Own
  <2> QED BY <1>1, <2>1
<1>3. ASSUME x.object # None PROVE x.sequence <= q.versions[x.object][x.device]
  <2>1. x.object \in O
    BY <1>1, <1>3
  <2>2. /\ x.sequence <= r.versions[x.object][x.device]
        /\ r.versions[x.object][x.device] \in Nat /\ q.versions[x.object][x.device] \in Nat
    BY <1>1, <1>3, <2>1, SeenIsNumber DEF Own
  <2> QED BY <1>1, <2>1, <2>2
<1> QED BY <1>2, <1>3 DEF Own

(* so that the records stay numbered ...                                   *)
LEMMA ReceivedNumbered ==
    ASSUME NEW reps, NEW stored, Safe(reps, stored), NEW d \in D, NEW q, NEW next,
           Receives(next, reps, stored, d, q)
    PROVE  /\ Typed(next, stored) /\ Authored(next) /\ Numbered(next, stored)
           /\ Every(next, stored) \subseteq Every(reps, stored)
<1>1. \A e \in D : next[e].outbox \subseteq reps[e].outbox
  BY ReceivedGrows
<1>2. Typed(next, stored)
  BY DEF Safe, Typed, Receives
<1>3. Authored(next)
  BY <1>1 DEF Safe, Authored
<1>4. Every(next, stored) \subseteq Every(reps, stored)
  BY <1>1 DEF Every
<1>5. Named1(Every(next, stored))
  BY <1>4 DEF Safe, Numbered, Named1
<1>6. ASSUME NEW x \in Every(next, stored) PROVE Own(next[x.device], x)
  <2>1. x \in Record /\ x.device \in D /\ Own(reps[x.device], x)
    BY <1>4, OwnFacts
  <2>2. /\ reps[x.device] \in Replica /\ next[x.device] \in Replica
        /\ next[x.device].next = reps[x.device].next
        /\ \A c \in D : next[x.device].seen[c] >= reps[x.device].seen[c]
        /\ \A o \in O, c \in D : next[x.device].versions[o][c] >= reps[x.device].versions[o][c]
    BY <2>1, ReceivedGrows
  <2> QED BY <2>1, <2>2, OwnStays
<1> QED BY <1>2, <1>3, <1>4, <1>5, <1>6 DEF Numbered

(* ... and the rest of the invariant stays.                                *)
LEMMA ReceivedIsSafe ==
    ASSUME NEW reps, NEW stored, Safe(reps, stored), NEW d \in D, NEW q, NEW next,
           Receives(next, reps, stored, d, q)
    PROVE  Safe(next, stored)
<1>1. /\ reps \in [D -> Replica] /\ q \in Replica /\ next[d] = q /\ \A e \in D : e # d => next[e] = reps[e]
  BY DEF Safe, Typed, Receives
<1>2. /\ Typed(next, stored) /\ Authored(next) /\ Numbered(next, stored)
      /\ Every(next, stored) \subseteq Every(reps, stored)
  BY ReceivedNumbered
<1>3. ASSUME NEW e \in D
      PROVE  /\ reps[e] \in Replica /\ reps[e].next \in Nat /\ reps[e].next >= 1 /\ next[e].next = reps[e].next
             /\ \A c \in D : reps[e].seen[c] \in Nat /\ next[e].seen[c] \in Nat
                             /\ next[e].seen[c] >= reps[e].seen[c]
  BY ReceivedGrows, ReplicaNumbers
<1>4. stored \subseteq Every(reps, stored)
  BY DEF Every
<1>5. \A e \in D :
         /\ q.seen[e] # reps[d].seen[e] => \E x \in stored : x.device = e /\ x.sequence = q.seen[e]
         /\ q.members[e] # reps[d].members[e] =>
               \E x \in stored : x.device = e /\ q.members[e] = [x.context EXCEPT ![e] = x.sequence]
  BY DEF Receives, Moved, Vouched
<1>6. Behind(next)
  <2>1. SUFFICES ASSUME NEW e \in D, NEW c \in D PROVE next[e].seen[c] < next[c].next
    BY DEF Behind
  <2>2. reps[e].seen[c] < reps[c].next
    BY DEF Safe, Behind
  <2>3. CASE next[e].seen[c] = reps[e].seen[c]
    BY <1>3, <2>2, <2>3
  <2>4. CASE next[e].seen[c] # reps[e].seen[c]
    <3>1. e = d
      BY <1>1, <2>4
    <3>2. PICK x \in stored : x.device = c /\ x.sequence = q.seen[c]
      BY <1>1, <1>5, <2>4, <3>1
    <3>3. x.sequence < reps[c].next
      BY <1>4, <3>2, OwnFacts DEF Own
    <3> QED BY <1>1, <1>3, <3>1, <3>2, <3>3
  <2> QED BY <2>3, <2>4
<1>7. Truthful(next)
  <2>1. SUFFICES ASSUME NEW e \in D, NEW c \in D, next[e].members[c] # None, NEW x \in D
                 PROVE  next[e].members[c][x] <= IF x = c THEN next[c].next - 1 ELSE next[c].seen[x]
    BY DEF Truthful
  <2>2. CASE next[e].members[c] = reps[e].members[c]
    <3>1. reps[e].members[c][x] <= IF x = c THEN reps[c].next - 1 ELSE reps[c].seen[x]
      BY <2>1, <2>2 DEF Safe, Truthful
    <3>2. reps[e].members[c][x] \in Nat
      BY <1>3, <2>1, <2>2, ReplicaNumbers
    <3> QED BY <1>3, <2>2, <3>1, <3>2
  <2>3. CASE next[e].members[c] # reps[e].members[c]
    <3>1. e = d
      BY <1>1, <2>3
    <3>2. PICK y \in stored : y.device = c /\ q.members[c] = [y.context EXCEPT ![c] = y.sequence]
      BY <1>1, <1>5, <2>3, <3>1
    <3>3. y \in Record /\ y.sequence \in Nat /\ y.context[x] \in Nat /\ Own(reps[c], y)
      BY <1>4, <3>2, OwnFacts
    <3>4. y.context \in Vector
      BY <3>3, RecordFields
    <3>5. q.members[c][x] = IF x = c THEN y.sequence ELSE y.context[x]
      BY <3>2, <3>4 DEF Vector
    <3>6. y.sequence < reps[c].next /\ (x # c => y.context[x] <= reps[c].seen[x])
      BY <3>2, <3>3 DEF Own
    <3> QED BY <1>1, <1>3, <3>1, <3>3, <3>5, <3>6
  <2> QED BY <2>2, <2>3
<1>8. Kept(next, stored)
  <2>1. SUFFICES ASSUME NEW e \in D, NEW n \in 1..next[e].next - 1
                 PROVE  \E x \in stored \cup next[e].outbox : x.device = e /\ x.sequence = n
    BY DEF Kept
  <2>2. PICK x \in stored \cup reps[e].outbox : x.device = e /\ x.sequence = n
    BY <1>3 DEF Safe, Kept
  <2>3. x \in stored \cup next[e].outbox
    <3>1. CASE e = d
      <4>1. \A y \in reps[d].outbox : y \in q.outbox \/ y \in stored
        BY DEF Receives, Moved, Delivered
      <4> QED BY <1>1, <2>2, <3>1, <4>1
    <3>2. CASE e # d
      BY <1>1, <2>2, <3>2
    <3> QED BY <3>1, <3>2
  <2> QED BY <2>2, <2>3
<1>9. ASSUME NEW e \in D PROVE Informed(next[e], e, Every(next, stored), stored)
  <2>1. Informed(next[e], e, Every(reps, stored), stored)
    <3>1. CASE e = d
      BY <1>1, <3>1 DEF Receives, Moved
    <3>2. CASE e # d
      BY <1>1, <3>2 DEF Safe, AllInformed
    <3> QED BY <3>1, <3>2
  <2> QED BY <1>2, <2>1 DEF Informed, Published
<1> QED BY <1>2, <1>6, <1>7, <1>8, <1>9 DEF Safe, AllInformed

(* A record that moves from an outbox to the storage was already one of    *)
(* them.                                                                   *)
LEMMA PutIsSafe ==
    ASSUME NEW reps, NEW stored, Safe(reps, stored), NEW d \in D, NEW x \in reps[d].outbox
    PROVE  Safe(reps, stored \cup {x})
<1> DEFINE held == stored \cup {x}
<1>1. Every(reps, held) = Every(reps, stored) /\ x \in Every(reps, stored)
  BY DEF Every
<1>2. x \in Record /\ x.device = d
  BY <1>1, OwnFacts DEF Safe, Authored
<1>3. Typed(reps, held)
  BY <1>2, FS_AddElement DEF Safe, Typed
<1>4. Numbered(reps, held)
  BY <1>1 DEF Safe, Numbered
<1>5. Kept(reps, held)
  BY DEF Safe, Kept
<1>6. ASSUME NEW e \in D PROVE Informed(reps[e], e, Every(reps, held), held)
  <2>1. Informed(reps[e], e, Every(reps, stored), stored)
    BY DEF Safe, AllInformed
  <2>2. x.sequence <= reps[e].seen[x.device] => x \in stored
    BY <1>1, <2>1 DEF Informed, Published
  <2>3. Understood(reps[e], held)
    BY <2>1, <2>2 DEF Informed, Understood
  <2>4. Introduced(reps[e])
    BY <2>1 DEF Informed
  <2>5. Awaited(reps[e], e, held)
    BY <1>2, <2>1 DEF Informed, Awaited
  <2>6. Published(reps[e], Every(reps, held), held)
    BY <1>1, <2>1 DEF Informed, Published
  <2> QED BY <2>3, <2>4, <2>5, <2>6 DEF Informed
<1>7. AllInformed(reps, held)
  BY <1>6 DEF AllInformed
<1> QED BY <1>3, <1>4, <1>5, <1>7 DEF Safe

(***************************************************************************)
(* The system                                                              *)
(***************************************************************************)
(* A run puts what waits in the outbox.                                    *)
Runs ==
    /\ run \in [D -> [step : {"idle", "put"}, stale : BOOLEAN, todo : SUBSET Record]]
    /\ \A d \in D : run[d].todo \subseteq rep[d].outbox
Bounded == edits \in 0..MaxEdits /\ resolves \in 0..MaxResolves
Inv == Safe(rep, store) /\ view \in [D -> Entries] /\ Runs /\ Bounded

LEMMA InitialIsReplica == initial \in Replica
<1>1. Zero \in Vector
  BY DEF Zero, Vector
<1>2. /\ [o \in O |-> Zero] \in [O -> Vector] /\ [o \in O |-> None] \in Entries
      /\ [d \in D |-> None] \in [D -> Vector \cup {None}] /\ 1 \in Nat \ {0}
  BY <1>1 DEF Entries
<1> QED BY <1>1, <1>2 DEF initial, Replica

(* It holds at first,                                                      *)
LEMMA InitInv == Init => Inv
<1> SUFFICES ASSUME Init PROVE Inv
  OBVIOUS
<1>1. /\ rep = [d \in D |-> initial] /\ run = [d \in D |-> Idle] /\ store = {} /\ edits = 0 /\ resolves = 0
  BY DEF Init
<1>2. /\ initial.next = 1 /\ initial.outbox = {} /\ initial.seen = Zero
      /\ \A d \in D : initial.members[d] = None /\ initial.seen[d] = 0
  BY DEF initial, Zero
<1>3. \A d \in D : rep[d] = initial
  BY <1>1
<1>4. Typed(rep, store)
  BY <1>1, InitialIsReplica, FS_EmptySet DEF Typed
<1>5. Every(rep, store) = {}
  BY <1>1, <1>2, <1>3 DEF Every
<1>6. Authored(rep)
  BY <1>2, <1>3 DEF Authored
<1>7. Numbered(rep, store)
  BY <1>5 DEF Numbered, Named1
<1>8. Behind(rep)
  BY <1>2, <1>3 DEF Behind
<1>9. Truthful(rep)
  BY <1>2, <1>3 DEF Truthful
<1>10. Kept(rep, store)
  BY <1>2, <1>3 DEF Kept
<1>11. AllInformed(rep, store)
  BY <1>1, <1>2, <1>3, <1>5 DEF AllInformed, Informed, Understood, Introduced, Awaited, Published
<1>12. view \in [D -> Entries]
  BY DEF Init, Entries
<1>13. Runs
  BY <1>1 DEF Runs, Idle
<1>14. Bounded
  BY <1>1, ConstantsAssumption DEF Bounded
<1> QED BY <1>4, <1>6, <1>7, <1>8, <1>9, <1>10, <1>11, <1>12, <1>13, <1>14 DEF Inv, Safe

(* A receive of records of the storage, under the invariant: it does not   *)
(* fail, and does what it may and owes.                                    *)
LEMMA ReceivesSafely ==
    ASSUME NEW reps, NEW stored, Safe(reps, stored), NEW d \in D, NEW objects \in Entries,
           NEW records \in SUBSET stored
    PROVE  LET result == receive(d, reps[d], objects, records)
           IN /\ result.error = FALSE /\ result.rep \in Replica /\ result.view \in Entries
              /\ Receives([reps EXCEPT ![d] = result.rep], reps, stored, d, result.rep)
              /\ Owed(result.rep, result.view, reps[d], objects, d, Every(reps, stored), stored)
<1> DEFINE result == receive(d, reps[d], objects, records)
<1>1. /\ reps[d] \in Replica /\ IsFiniteSet(records)
      /\ Every(reps, stored) \in SUBSET Record /\ stored \in SUBSET Every(reps, stored)
      /\ Named1(Every(reps, stored)) /\ Informed(reps[d], d, Every(reps, stored), stored)
  BY EveryIsRecords, FS_Subset DEF Safe, Typed, Numbered, AllInformed
<1>2. Lawful(reps[d], d, Every(reps, stored), stored)
  BY SafeIsLawful
<1>3. /\ result.error = FALSE /\ result.rep \in Replica /\ result.view \in Entries
      /\ Moved(result.rep, reps[d], d, Every(reps, stored), stored)
      /\ Owed(result.rep, result.view, reps[d], objects, d, Every(reps, stored), stored)
  BY <1>1, <1>2, ReceiveKeeps
<1> HIDE DEF result
<1>4. Receives([reps EXCEPT ![d] = result.rep], reps, stored, d, result.rep)
  BY <1>3 DEF Receives
<1>5. /\ result.error = FALSE /\ result.rep \in Replica /\ result.view \in Entries
      /\ Receives([reps EXCEPT ![d] = result.rep], reps, stored, d, result.rep)
      /\ Owed(result.rep, result.view, reps[d], objects, d, Every(reps, stored), stored)
  BY <1>3, <1>4
<1> QED BY <1>5 DEF result

(* A listing shows records of the storage.                                 *)
LEMMA ListedIsStored ==
    ASSUME NEW d \in D, NEW records \in download(d) PROVE records \in SUBSET store
BY DEF download

(* queue, at one of the devices.                                           *)
LEMMA QueueIsSafe ==
    ASSUME NEW reps, NEW stored, Safe(reps, stored), NEW d \in D, NEW objects \in Entries,
           NEW resolved \in SUBSET O
    PROVE  LET q == queue(reps[d], d, objects, resolved)
           IN /\ Safe([reps EXCEPT ![d] = q], stored) /\ q \in Replica
              /\ q.seen = reps[d].seen /\ q.conflicts = reps[d].conflicts
              /\ reps[d].outbox \subseteq q.outbox
<1> DEFINE q == queue(reps[d], d, objects, resolved)
           added == Added(reps[d], d, objects, resolved)
<1>1. reps[d] \in Replica
  BY DEF Safe, Typed
<1>2. Queued(q, reps[d], d, added)
  BY <1>1, QueueIsQueued
<1>3. q.conflicts = reps[d].conflicts
  BY DEF queue
<1> HIDE DEF q, added
<1>4. Numbers([reps EXCEPT ![d] = q], reps, d, q, added)
  BY <1>2 DEF Numbers
<1>5. Safe([reps EXCEPT ![d] = q], stored)
  BY <1>4, QueuedIsSafe
<1>6. q \in Replica /\ q.seen = reps[d].seen /\ reps[d].outbox \subseteq q.outbox
  BY <1>2 DEF Queued
<1>7. /\ Safe([reps EXCEPT ![d] = q], stored) /\ q \in Replica
      /\ q.seen = reps[d].seen /\ q.conflicts = reps[d].conflicts
      /\ reps[d].outbox \subseteq q.outbox
  BY <1>3, <1>5, <1>6
<1> QED BY <1>7 DEF q

(* The user is owed the same by what numbering left alone.                 *)
LEMMA OwedEarlier ==
    ASSUME NEW q, NEW value, NEW state, NEW objects, NEW d, NEW all, NEW stored,
           Owed(q, value, state, objects, d, all, stored),
           NEW earlier, earlier.seen = state.seen, earlier.conflicts = state.conflicts,
           NEW some \in SUBSET all
    PROVE  Owed(q, value, earlier, objects, d, some, stored)
<1>1. \A x : New(q, state, x) <=> New(q, earlier, x)
  BY DEF New
<1>2. Replaced(q, value, earlier, objects, d, some, stored)
  <2>1. SUFFICES ASSUME NEW o \in O, NEW a \in F \cup {"state"}, objects[o] # None,
                        Aspect(value[o], a) # Aspect(objects[o], a)
                 PROVE  \E x \in stored :
                           /\ New(q, earlier, x) /\ x.object = o
                           /\ \/ Aspect(x.before, a) = Aspect(objects[o], a)
                              \/ \A w \in some : w.device = d /\ w.object = o => x.context[d] >= w.sequence
    BY DEF Replaced
  <2>2. PICK x \in stored :
           /\ New(q, state, x) /\ x.object = o
           /\ \/ Aspect(x.before, a) = Aspect(objects[o], a)
              \/ \A w \in all : w.device = d /\ w.object = o => x.context[d] >= w.sequence
    BY <2>1 DEF Owed, Replaced
  <2> QED BY <1>1, <2>2
<1>3. Settled(q, earlier, stored)
  BY <1>1 DEF Owed, Settled
<1>4. Revived(q, value, earlier, objects, stored)
  BY <1>1 DEF Owed, Revived
<1> QED BY <1>2, <1>3, <1>4 DEF Owed

(* What the user is owed by a step of d.                                   *)
Synchronizes(d) == Owed(rep'[d], view'[d], rep[d], view[d], d, store \cup rep[d].outbox, store)

LEMMA InvFacts ==
    ASSUME Inv
    PROVE  /\ Safe(rep, store) /\ rep \in [D -> Replica] /\ view \in [D -> Entries]
           /\ run \in [D -> [step : {"idle", "put"}, stale : BOOLEAN, todo : SUBSET Record]]
           /\ \A d \in D : run[d].todo \subseteq rep[d].outbox /\ view[d] \in Entries
           /\ Bounded
BY DEF Inv, Runs, Safe, Typed

(* A device that has not begun has nothing to put.                         *)
LEMMA UnconnectedIsIdle ==
    ASSUME Inv, NEW d \in D, ~Connected(d)
    PROVE  rep[d].outbox = {} /\ run[d].todo = {}
<1>1. rep[d].next \in Nat /\ rep[d].next <= 1
  BY InvFacts, ReplicaNumbers DEF Connected
<1>2. ASSUME NEW x \in rep[d].outbox PROVE FALSE
  <2>1. Safe(rep, store) /\ x \in Every(rep, store) /\ x.device = d
    BY InvFacts DEF Every, Safe, Authored
  <2>2. x.sequence \in Nat /\ x.sequence >= 1 /\ x.sequence < rep[d].next
    BY <2>1, OwnFacts DEF Own
  <2> QED BY <1>1, <2>2
<1>3. run[d].todo \subseteq rep[d].outbox
  BY InvFacts
<1> QED BY <1>2, <1>3

(* The actions, one after the other.                                       *)
LEMMA CreateStep ==
    ASSUME Inv, NEW d \in D, Create(d)
    PROVE  Inv' /\ \A e \in D : rep'[e].seen = rep[e].seen
<1> DEFINE q == queue(rep[d], d, view[d], {})
<1>1. rep' = [rep EXCEPT ![d] = q] /\ UNCHANGED <<view, run, store, edits, resolves>>
  BY DEF Create
<1>2. /\ Safe([rep EXCEPT ![d] = q], store)
      /\ q.seen = rep[d].seen /\ rep[d].outbox \subseteq q.outbox
  <2>1. Safe(rep, store) /\ view[d] \in Entries /\ {} \in SUBSET O
    BY InvFacts
  <2> QED BY <2>1, QueueIsSafe
<1> HIDE DEF q
<1>3. Safe(rep', store')
  BY <1>1, <1>2
<1>4. \A e \in D : rep[e].outbox \subseteq rep'[e].outbox /\ rep'[e].seen = rep[e].seen
  BY <1>1, <1>2, InvFacts
<1>5. Runs'
  BY <1>1, <1>4 DEF Inv, Runs
<1>6. view' \in [D -> Entries] /\ Bounded'
  BY <1>1, InvFacts DEF Bounded
<1> QED BY <1>3, <1>4, <1>5, <1>6 DEF Inv

LEMMA JoinStep ==
    ASSUME Inv, NEW d \in D, Join(d)
    PROVE  Inv' /\ Synchronizes(d) /\ \A e \in D : e # d => rep'[e] = rep[e] /\ view'[e] = view[e]
<1> DEFINE q == queue(rep[d], d, view[d], {})
           reps == [rep EXCEPT ![d] = q]
<1>1. /\ Safe([rep EXCEPT ![d] = q], store) /\ q \in Replica
      /\ q.seen = rep[d].seen /\ q.conflicts = rep[d].conflicts /\ rep[d].outbox \subseteq q.outbox
  <2>1. Safe(rep, store) /\ view[d] \in Entries /\ {} \in SUBSET O
    BY InvFacts
  <2> HIDE DEF reps
  <2> QED BY <2>1, QueueIsSafe
<1>2. PICK records \in download(d) :
         /\ rep' = [rep EXCEPT ![d] = receive(d, q, view[d], records).rep]
         /\ view' = [view EXCEPT ![d] = receive(d, q, view[d], records).view]
  BY DEF Join
<1>3. ~Connected(d) /\ UNCHANGED <<run, store, edits, resolves>>
  BY DEF Join
<1> HIDE DEF q
<1>4. rep \in [D -> Replica] /\ view \in [D -> Entries] /\ view[d] \in Entries /\ reps[d] = q
  BY InvFacts
<1>5. Safe(reps, store)
  BY <1>1
<1> HIDE DEF reps
<1> DEFINE result == receive(d, reps[d], view[d], records)
<1>6. /\ result.error = FALSE /\ result.rep \in Replica /\ result.view \in Entries
      /\ Receives([reps EXCEPT ![d] = result.rep], reps, store, d, result.rep)
      /\ Owed(result.rep, result.view, reps[d], view[d], d, Every(reps, store), store)
  BY <1>5, <1>4, ListedIsStored, ReceivesSafely
<1>7. rep' = [rep EXCEPT ![d] = result.rep] /\ view' = [view EXCEPT ![d] = result.view]
  BY <1>2, <1>4
<1> HIDE DEF result
<1>8. rep' = [reps EXCEPT ![d] = result.rep]
  BY <1>4, <1>7 DEF reps
<1>9. Safe(rep', store')
  BY <1>5, <1>3, <1>6, <1>8, ReceivedIsSafe
<1>10. /\ rep'[d] = result.rep /\ view'[d] = result.view
      /\ \A e \in D : e # d => rep'[e] = rep[e] /\ view'[e] = view[e]
  BY <1>4, <1>7
<1>11. Synchronizes(d)
  <2>1. store \cup rep[d].outbox \in SUBSET Every(reps, store)
    BY <1>1, <1>4 DEF Every
  <2>2. Owed(result.rep, result.view, rep[d], view[d], d, store \cup rep[d].outbox, store)
    BY <1>1, <1>4, <1>6, <2>1, OwedEarlier
  <2> QED BY <1>10, <2>2 DEF Synchronizes
<1>12. Runs'
  <2>1. run[d].todo = {}
    BY <1>3, UnconnectedIsIdle
  <2>2. \A e \in D : run[e].todo \subseteq rep'[e].outbox
    BY <1>10, <2>1, InvFacts
  <2> QED BY <1>3, <2>2, InvFacts DEF Runs
<1>13. view' \in [D -> Entries] /\ Bounded'
  BY <1>3, <1>4, <1>6, <1>7, InvFacts DEF Bounded
<1> QED BY <1>9, <1>10, <1>11, <1>12, <1>13 DEF Inv

LEMMA BeginStep ==
    ASSUME Inv, NEW d \in D, Begin(d)
    PROVE  Inv' /\ \A e \in D : rep'[e].seen = rep[e].seen
<1> DEFINE q == queue(rep[d], d, view[d], {})
<1>1. /\ rep' = [rep EXCEPT ![d] = q] /\ UNCHANGED <<view, store, edits, resolves>>
      /\ run' = [run EXCEPT ![d] = [step |-> "put", stale |-> FALSE, todo |-> rep'[d].outbox]]
  BY DEF Begin
<1>2. /\ Safe([rep EXCEPT ![d] = q], store) /\ q \in Replica
      /\ q.seen = rep[d].seen /\ rep[d].outbox \subseteq q.outbox
  <2>1. Safe(rep, store) /\ view[d] \in Entries /\ {} \in SUBSET O
    BY InvFacts
  <2> QED BY <2>1, QueueIsSafe
<1> HIDE DEF q
<1>3. Safe(rep', store')
  BY <1>1, <1>2
<1>4. /\ \A e \in D : rep[e].outbox \subseteq rep'[e].outbox /\ rep'[e].seen = rep[e].seen
      /\ rep'[d] = q
  BY <1>1, <1>2, InvFacts
<1>5. Runs'
  <2>1. q.outbox \in SUBSET Record
    BY <1>2 DEF Replica
  <2>2. run' \in [D -> [step : {"idle", "put"}, stale : BOOLEAN, todo : SUBSET Record]]
    BY <1>1, <1>4, <2>1, InvFacts
  <2>3. \A e \in D : run'[e].todo \subseteq rep'[e].outbox
    BY <1>1, <1>4, InvFacts
  <2> QED BY <2>2, <2>3 DEF Runs
<1>6. view' \in [D -> Entries] /\ Bounded'
  BY <1>1, InvFacts DEF Bounded
<1> QED BY <1>3, <1>4, <1>5, <1>6 DEF Inv

(* A run that ends, or is made stale, is still one.                        *)
LEMMA IdleRuns ==
    ASSUME Inv, NEW d \in D, run' = [run EXCEPT ![d] = Idle],
           \A e \in D : e # d => rep'[e].outbox = rep[e].outbox
    PROVE  Runs'
<1>1. run' \in [D -> [step : {"idle", "put"}, stale : BOOLEAN, todo : SUBSET Record]]
  BY InvFacts DEF Idle
<1>2. \A e \in D : run'[e].todo \subseteq rep'[e].outbox
  BY InvFacts DEF Idle
<1> QED BY <1>1, <1>2 DEF Runs

LEMMA PutStep ==
    ASSUME Inv, NEW d \in D, Put(d)
    PROVE  Inv' /\ rep' = rep
<1>1. UNCHANGED <<rep, view, edits, resolves>>
  BY DEF Put
<1>2. view' \in [D -> Entries] /\ Bounded'
  BY <1>1, InvFacts DEF Bounded
<1>3. CASE run' = [run EXCEPT ![d] = Idle] /\ UNCHANGED store
  <2>1. Runs'
    BY <1>1, <1>3, IdleRuns
  <2>2. Safe(rep', store')
    BY <1>1, <1>3, InvFacts
  <2> QED BY <1>1, <1>2, <2>1, <2>2 DEF Inv
<1>4. ASSUME NEW r \in run[d].todo, run' = [run EXCEPT ![d].todo = @ \ {r}], store' = store \cup {r}
      PROVE  Inv'
  <2>1. r \in rep[d].outbox
    BY InvFacts
  <2>2. Safe(rep, store \cup {r})
    BY <2>1, InvFacts, PutIsSafe
  <2>3. Safe(rep', store')
    BY <1>1, <1>4, <2>2
  <2>4. Runs'
    <3>1. run' \in [D -> [step : {"idle", "put"}, stale : BOOLEAN, todo : SUBSET Record]]
      BY <1>4, InvFacts
    <3>2. \A e \in D : run'[e].todo \subseteq rep'[e].outbox
      BY <1>1, <1>4, InvFacts
    <3> QED BY <3>1, <3>2 DEF Runs
  <2> QED BY <1>2, <2>3, <2>4 DEF Inv
<1> QED BY <1>1, <1>3, <1>4 DEF Put

LEMMA FinishStep ==
    ASSUME Inv, NEW d \in D, Finish(d)
    PROVE  /\ Inv' /\ (Synchronizes(d) \/ UNCHANGED <<rep, view>>)
           /\ \A e \in D : e # d => rep'[e] = rep[e] /\ view'[e] = view[e]
<1>1. /\ run' = [run EXCEPT ![d] = Idle] /\ UNCHANGED <<store, edits, resolves>>
      /\ \E records \in download(d) :
            \/ UNCHANGED <<rep, view>>
            \/ /\ rep' = [rep EXCEPT ![d] = receive(d, rep[d], view[d], records).rep]
               /\ view' = [view EXCEPT ![d] = receive(d, rep[d], view[d], records).view]
  BY DEF Finish
<1>2. CASE UNCHANGED <<rep, view>>
  <2>1. Runs'
    BY <1>1, <1>2, IdleRuns
  <2>2. Safe(rep', store') /\ view' \in [D -> Entries] /\ Bounded'
    BY <1>1, <1>2, InvFacts DEF Bounded
  <2> QED BY <1>2, <2>1, <2>2 DEF Inv
<1>3. ASSUME NEW records \in download(d),
             rep' = [rep EXCEPT ![d] = receive(d, rep[d], view[d], records).rep],
             view' = [view EXCEPT ![d] = receive(d, rep[d], view[d], records).view]
      PROVE  /\ Inv' /\ Synchronizes(d)
             /\ \A e \in D : e # d => rep'[e] = rep[e] /\ view'[e] = view[e]
  <2> DEFINE result == receive(d, rep[d], view[d], records)
  <2>1. /\ result.rep \in Replica /\ result.view \in Entries
        /\ Receives([rep EXCEPT ![d] = result.rep], rep, store, d, result.rep)
        /\ Owed(result.rep, result.view, rep[d], view[d], d, Every(rep, store), store)
    BY InvFacts, ListedIsStored, ReceivesSafely
  <2>2. rep' = [rep EXCEPT ![d] = result.rep] /\ view' = [view EXCEPT ![d] = result.view]
    BY <1>3
  <2> HIDE DEF result
  <2>3. Safe(rep', store')
    BY <1>1, <2>1, <2>2, InvFacts, ReceivedIsSafe
  <2>4. /\ rep'[d] = result.rep /\ view'[d] = result.view
        /\ \A e \in D : e # d => rep'[e] = rep[e] /\ view'[e] = view[e]
    BY <2>2, InvFacts
  <2>5. Synchronizes(d)
    <3>1. store \cup rep[d].outbox \in SUBSET Every(rep, store)
      BY DEF Every
    <3>2. Owed(result.rep, result.view, rep[d], view[d], d, store \cup rep[d].outbox, store)
      BY <2>1, <3>1, OwedEarlier
    <3> QED BY <2>4, <3>2 DEF Synchronizes
  <2>6. Runs'
    BY <1>1, <2>4, IdleRuns
  <2>7. view' \in [D -> Entries] /\ Bounded'
    BY <1>1, <2>1, <2>2, InvFacts DEF Bounded
  <2> QED BY <2>3, <2>4, <2>5, <2>6, <2>7 DEF Inv
<1> QED BY <1>1, <1>2, <1>3

LEMMA InterruptedStep ==
    ASSUME Inv, NEW d \in D, Interrupted(d)
    PROVE  Inv' /\ rep' = rep
<1>1. run' = [run EXCEPT ![d] = Idle] /\ UNCHANGED <<rep, view, store, edits, resolves>>
  BY DEF Interrupted
<1>2. Runs'
  BY <1>1, IdleRuns
<1>3. Safe(rep', store') /\ view' \in [D -> Entries] /\ Bounded'
  BY <1>1, InvFacts DEF Bounded
<1> QED BY <1>1, <1>2, <1>3 DEF Inv

LEMMA StaleRuns ==
    ASSUME Inv, NEW d \in D, run' = Stale(d), \A e \in D : rep[e].outbox \subseteq rep'[e].outbox
    PROVE  Runs'
<1>1. run \in [D -> [step : {"idle", "put"}, stale : BOOLEAN, todo : SUBSET Record]]
  BY InvFacts
<1>2. run' \in [D -> [step : {"idle", "put"}, stale : BOOLEAN, todo : SUBSET Record]]
  BY <1>1 DEF Stale
<1>3. \A e \in D : run'[e].todo = run[e].todo
  BY <1>1 DEF Stale
<1>4. \A e \in D : run'[e].todo \subseteq rep'[e].outbox
  BY <1>3, InvFacts
<1> QED BY <1>2, <1>4 DEF Runs

LEMMA EditStep ==
    ASSUME Inv, NEW d \in D, NEW o \in O, NEW value \in Value \cup {None}, Edit(d, o, value)
    PROVE  Inv' /\ rep' = rep
<1>1. /\ edits < MaxEdits /\ view' = [view EXCEPT ![d][o] = value] /\ run' = Stale(d)
      /\ edits' = edits + 1 /\ UNCHANGED <<rep, store, resolves>>
  BY DEF Edit
<1>2. view' \in [D -> Entries]
  BY <1>1, InvFacts DEF Entries
<1>3. Bounded'
  BY <1>1, InvFacts, ConstantsAssumption DEF Bounded
<1>4. Runs'
  BY <1>1, StaleRuns
<1>5. Safe(rep', store')
  BY <1>1, InvFacts
<1> QED BY <1>1, <1>2, <1>3, <1>4, <1>5 DEF Inv

LEMMA ResolveStep ==
    ASSUME Inv, NEW d \in D, NEW o \in O, NEW theirs, Resolve(d, o, theirs)
    PROVE  Inv' /\ \A e \in D : rep'[e].seen = rep[e].seen
<1> DEFINE q == queue(rep[d], d, view'[d], {o})
           open == q.conflicts \ ConflictsOf(rep[d], o)
           added == Added(rep[d], d, view'[d], {o})
<1>1. /\ resolves < MaxResolves /\ run' = Stale(d) /\ resolves' = resolves + 1 /\ UNCHANGED <<store, edits>>
      /\ rep' = [rep EXCEPT ![d] = [q EXCEPT !.conflicts = open]]
  BY DEF Resolve
<1>2. view' \in [D -> Entries]
  <2>1. PICK value \in Choices(view[d][o], theirs) : view' = [view EXCEPT ![d] = [@ EXCEPT ![o] = value]]
    BY DEF Resolve
  <2>2. value \in Value \cup {None}
    BY DEF Choices
  <2> QED BY <2>1, <2>2, InvFacts DEF Entries
<1>3. view'[d] \in Entries /\ rep[d] \in Replica /\ Safe(rep, store) /\ {o} \in SUBSET O
  BY <1>2, InvFacts
<1>4. Queued(q, rep[d], d, added)
  BY <1>3, QueueIsQueued
<1>5. open \in SUBSET Conflict
  <2>1. q.conflicts = rep[d].conflicts
    BY DEF queue
  <2> QED BY <1>3, <2>1 DEF Replica
<1> HIDE DEF q, open, added
<1> DEFINE p == [q EXCEPT !.conflicts = open]
<1>6. Queued(p, rep[d], d, added)
  BY <1>4, <1>5, QueuedAnyConflicts
<1>7. rep' = [rep EXCEPT ![d] = p]
  BY <1>1
<1> HIDE DEF p
<1>8. Numbers(rep', rep, d, p, added)
  BY <1>6, <1>7 DEF Numbers
<1>9. Safe(rep', store)
  BY <1>3, <1>8, QueuedIsSafe
<1>10. Safe(rep', store')
  BY <1>1, <1>9
<1>11. \A e \in D : rep[e].outbox \subseteq rep'[e].outbox /\ rep'[e].seen = rep[e].seen
  BY <1>6, <1>7, InvFacts DEF Queued
<1>12. Runs'
  BY <1>1, <1>11, StaleRuns
<1>13. Bounded'
  BY <1>1, InvFacts, ConstantsAssumption DEF Bounded
<1> QED BY <1>2, <1>10, <1>11, <1>12, <1>13 DEF Inv

(* A step keeps the invariant, and changes what a device has seen only by  *)
(* a synchronization.                                                      *)
LEMMA Step ==
    ASSUME Inv, [Next]_vars
    PROVE  Inv' /\ \A e \in D : rep'[e].seen = rep[e].seen \/ Synchronizes(e)
<1>1. CASE UNCHANGED vars
  <2>1. UNCHANGED <<rep, view, run, store, edits, resolves>>
    BY <1>1 DEF vars
  <2>2. Inv'
    BY <2>1 DEF Inv, Runs, Bounded
  <2> QED BY <2>1, <2>2
<1>2. ASSUME NEW d \in D, Create(d) PROVE Inv' /\ \A e \in D : rep'[e].seen = rep[e].seen
  BY <1>2, CreateStep
<1>3. ASSUME NEW d \in D, Join(d) PROVE Inv' /\ \A e \in D : rep'[e].seen = rep[e].seen \/ Synchronizes(e)
  <2>1. Inv' /\ Synchronizes(d) /\ \A e \in D : e # d => rep'[e] = rep[e]
    BY <1>3, JoinStep
  <2> QED BY <2>1
<1>4. ASSUME NEW d \in D, Begin(d) PROVE Inv' /\ \A e \in D : rep'[e].seen = rep[e].seen
  BY <1>4, BeginStep
<1>5. ASSUME NEW d \in D, Put(d) PROVE Inv' /\ \A e \in D : rep'[e].seen = rep[e].seen
  BY <1>5, PutStep
<1>6. ASSUME NEW d \in D, Finish(d) PROVE Inv' /\ \A e \in D : rep'[e].seen = rep[e].seen \/ Synchronizes(e)
  <2>1. /\ Inv' /\ (Synchronizes(d) \/ rep' = rep)
        /\ \A e \in D : e # d => rep'[e] = rep[e]
    BY <1>6, FinishStep
  <2> QED BY <2>1
<1>7. ASSUME NEW d \in D, Interrupted(d) PROVE Inv' /\ \A e \in D : rep'[e].seen = rep[e].seen
  BY <1>7, InterruptedStep
<1>8. ASSUME NEW d \in D, NEW o \in O, NEW value \in Value \cup {None}, Edit(d, o, value)
      PROVE  Inv' /\ \A e \in D : rep'[e].seen = rep[e].seen
  BY <1>8, EditStep
<1>9. ASSUME NEW d \in D, NEW o \in O, NEW theirs, Resolve(d, o, theirs)
      PROVE  Inv' /\ \A e \in D : rep'[e].seen = rep[e].seen
  BY <1>9, ResolveStep
<1> QED BY <1>1, <1>2, <1>3, <1>4, <1>5, <1>6, <1>7, <1>8, <1>9 DEF Next

(* The invariant holds of every run.                                       *)
LEMMA Invariant == Spec => []Inv
<1>1. Inv /\ [Next]_vars => Inv'
  BY Step
<1> QED BY <1>1, InitInv, PTL DEF Spec

(***************************************************************************)
(* What holds of every run                                                 *)
(***************************************************************************)
(* The replication state of every device stays well formed, whatever is    *)
(* interrupted, and a run puts only what waits in the outbox.              *)
THEOREM TypeCorrect == Spec => []TypeOK
<1>1. Inv => TypeOK
  BY InvFacts DEF TypeOK, Bounded, Safe, Typed
<1> QED BY <1>1, Invariant, PTL

(* No numbered change is lost between the vault and the storage.           *)
THEOREM NothingIsLost == Spec => []NothingLost
<1>1. Inv => NothingLost
  BY DEF Inv, Safe, Kept, NothingLost
<1> QED BY <1>1, Invariant, PTL

(* What a device believes of another one, that one has seen.               *)
THEOREM AcknowledgementsAreTrue == Spec => []AckTruthful
<1>1. Inv => AckTruthful
  BY DEF Inv, Safe, Truthful, AckTruthful
<1> QED BY <1>1, Invariant, PTL

(* Whatever a listing shows, a device has seen all that the authors of the *)
(* records it took up had seen.                                            *)
THEOREM SeenInCausalOrder == Spec => []CausallyClosed
<1>1. Inv => CausallyClosed
  BY DEF Inv, Safe, AllInformed, Informed, Understood, CausallyClosed
<1> QED BY <1>1, Invariant, PTL

(* No listing of the storage makes a synchronization fail: the records that *)
(* are ready are of a known author, and the device's own are in its outbox. *)
THEOREM ReceiveNeverFails ==
    Spec => [](\A d \in D : \A records \in download(d) : ~receive(d, rep[d], view[d], records).error)
<1>1. ASSUME Inv, NEW d \in D, NEW records \in download(d)
      PROVE  receive(d, rep[d], view[d], records).error = FALSE
  <2>1. Safe(rep, store) /\ view[d] \in Entries /\ records \in SUBSET store
    BY <1>1, InvFacts, ListedIsStored
  <2> QED BY <2>1, ReceivesSafely
<1>2. Inv => \A d \in D : \A records \in download(d) : ~receive(d, rep[d], view[d], records).error
  BY <1>1
<1> QED BY <1>2, Invariant, PTL

(* A record that a step made seen is one that it took up from the          *)
(* storage.                                                                *)
LEMMA NewIsTaken ==
    ASSUME Inv, [Next]_vars, NEW d \in D, NEW x \in store, New(rep'[d], rep[d], x)
    PROVE  x \in Taken(d)
<1>1. rep[d] \in Replica /\ x \in Record
  BY InvFacts DEF Safe, Typed
<1>2. Inv'
  BY Step
<1>3. rep'[d] \in Replica
  BY <1>2 DEF Inv, Safe, Typed
<1>4. /\ x.device \in D /\ x.sequence \in Nat /\ rep[d].seen[x.device] \in Nat
      /\ rep'[d].seen[x.device] \in Nat
  BY <1>1, <1>3, RecordFields, SeenIsNumber
<1> QED BY <1>4 DEF New, Taken

(* An entry comes back only by its user's hand or by a change whose author *)
(* knew of the deletion.                                                   *)
THEOREM DeletedStaysDeleted == Spec => NoRevival
<1> DEFINE P == \A d \in D, o \in O :
         rep'[d].seen # rep[d].seen /\ view[d][o] = None /\ view'[d][o] # None =>
            \A gone \in Deletions(d, o) : \E r \in Taken(d) :
                r.object = o /\ r.after # None /\ r.context[gone.device] >= gone.sequence
<1>1. Inv /\ [Next]_vars => P
  <2>1. SUFFICES ASSUME Inv, [Next]_vars, NEW d \in D, NEW o \in O, rep'[d].seen # rep[d].seen,
                        view[d][o] = None, view'[d][o] # None, NEW gone \in Deletions(d, o)
                 PROVE  \E r \in Taken(d) :
                            r.object = o /\ r.after # None /\ r.context[gone.device] >= gone.sequence
    OBVIOUS
  <2>2. Synchronizes(d)
    BY <2>1, Step
  <2>3. /\ gone \in store /\ gone.object = o /\ gone.after = None
        /\ gone.sequence <= rep[d].seen[gone.device]
    BY DEF Deletions
  <2>4. PICK r \in store : /\ New(rep'[d], rep[d], r) /\ r.object = o /\ r.after # None
                           /\ r.context[gone.device] >= gone.sequence
    BY <2>1, <2>2, <2>3 DEF Synchronizes, Owed, Revived
  <2>5. r \in Taken(d)
    BY <2>1, <2>4, NewIsTaken
  <2> QED BY <2>4, <2>5
<1>2. Inv /\ [Next]_vars => [P]_vars
  BY <1>1
<1> QED BY <1>2, Invariant, PTL DEF Spec, NoRevival

(* A value that the user gave a field is replaced only by a change that    *)
(* knew of it.                                                             *)
THEOREM EditsAreKept == Spec => EditsNotOverwritten
<1> DEFINE P == \A d \in D, o \in O, a \in F \cup {"state"} :
         (/\ rep'[d].seen # rep[d].seen
          /\ view[d][o] # None /\ Aspect(view'[d][o], a) # Aspect(view[d][o], a)) =>
            \E r \in Taken(d) :
                /\ r.object = o
                /\ \/ Aspect(r.before, a) = Aspect(view[d][o], a)
                   \/ \A w \in Writes(d, o, a) : r.context[d] >= w.sequence
<1>1. Inv /\ [Next]_vars => P
  <2>1. SUFFICES ASSUME Inv, [Next]_vars, NEW d \in D, NEW o \in O, NEW a \in F \cup {"state"},
                        rep'[d].seen # rep[d].seen, view[d][o] # None,
                        Aspect(view'[d][o], a) # Aspect(view[d][o], a)
                 PROVE  \E r \in Taken(d) :
                            /\ r.object = o
                            /\ \/ Aspect(r.before, a) = Aspect(view[d][o], a)
                               \/ \A w \in Writes(d, o, a) : r.context[d] >= w.sequence
    OBVIOUS
  <2>2. Synchronizes(d)
    BY <2>1, Step
  <2>3. PICK r \in store :
           /\ New(rep'[d], rep[d], r) /\ r.object = o
           /\ \/ Aspect(r.before, a) = Aspect(view[d][o], a)
              \/ \A w \in store \cup rep[d].outbox :
                    w.device = d /\ w.object = o => r.context[d] >= w.sequence
    BY <2>1, <2>2 DEF Synchronizes, Owed, Replaced
  <2>4. r \in Taken(d)
    BY <2>1, <2>3, NewIsTaken
  <2>5. \A w \in Writes(d, o, a) : w \in store \cup rep[d].outbox /\ w.device = d /\ w.object = o
    BY DEF Writes
  <2> QED BY <2>3, <2>4, <2>5
<1>2. Inv /\ [Next]_vars => [P]_vars
  BY <1>1
<1> QED BY <1>2, Invariant, PTL DEF Spec, EditsNotOverwritten

(* A conflict goes away only by the choice of somebody who had it or knew  *)
(* of the change it is about.                                              *)
THEOREM ConflictsAreKept == Spec => ConflictsStay
<1> DEFINE P == \A d \in D : rep'[d].seen # rep[d].seen => \A c \in rep[d].conflicts \ rep'[d].conflicts :
         \E r \in Taken(d) : r.object = c.object /\ r.resolution /\ r.context[c.device] >= c.sequence
<1>1. Inv /\ [Next]_vars => P
  <2>1. SUFFICES ASSUME Inv, [Next]_vars, NEW d \in D, rep'[d].seen # rep[d].seen,
                        NEW c \in rep[d].conflicts \ rep'[d].conflicts
                 PROVE  \E r \in Taken(d) :
                            r.object = c.object /\ r.resolution /\ r.context[c.device] >= c.sequence
    OBVIOUS
  <2>2. Synchronizes(d)
    BY <2>1, Step
  <2>3. PICK r \in store : /\ New(rep'[d], rep[d], r) /\ r.object = c.object /\ r.resolution
                           /\ r.context[c.device] >= c.sequence
    BY <2>1, <2>2 DEF Synchronizes, Owed, Settled
  <2>4. r \in Taken(d)
    BY <2>1, <2>3, NewIsTaken
  <2> QED BY <2>3, <2>4
<1>2. Inv /\ [Next]_vars => [P]_vars
  BY <1>1
<1> QED BY <1>2, Invariant, PTL DEF Spec, ConflictsStay
=============================================================================
