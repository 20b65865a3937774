---------------------------- MODULE MCDesk_proofs ----------------------------
(***************************************************************************)
(* The theorems of the command line and of the settings many processes     *)
(* write, which a run checks together.  A step of this module is a step of *)
(* one component and leaves the others as they are, so what is inductive   *)
(* for a component is inductive here.                                      *)
(***************************************************************************)
EXTENDS MCDesk, SequenceTheorems, FunctionTheorems, FiniteSetTheorems,
        WellFoundedInduction, TLAPS

-----------------------------------------------------------------------------
(* The registry of model profiles.                                         *)

Profile == [id : Model!Ids, active : BOOLEAN]

(* A registry, whatever was edited into it, holds ids that were given out.  *)
Typed(r, n) == r \in Seq(Profile) /\ \A i \in DOMAIN r : r[i].id <= n

(* The ids of a registry differ and were given out, and one profile of it   *)
(* is active.                                                              *)
Good(r, n) ==
  /\ r \in Seq(Profile)
  /\ \A i \in DOMAIN r : r[i].id <= n
  /\ \A i, j \in DOMAIN r : r[i].id = r[j].id => i = j
  /\ r # <<>> => \E k \in DOMAIN r : \A i \in DOMAIN r : r[i].active <=> i = k

(* A registry is good unless an edit was ill-formed ("s").                  *)
Fit(r, n, s) == Typed(r, n) /\ (s \/ Good(r, n))

(* A good registry is one.                                                 *)
LEMMA GoodTyped == ASSUME NEW r, NEW n, Good(r, n) PROVE Typed(r, n)
BY DEF Good, Typed

(* Every nonempty set of numbers has a smallest element.                    *)
LEMMA Smallest ==
  ASSUME NEW S \in SUBSET Nat, S # {}
  PROVE  \E n \in S : \A m \in S : n <= m
<1> DEFINE R == {ss \in Nat \X Nat : ss[1] < ss[2]}
<1>1. IsWellFoundedOn(R, Nat)
  BY NatLessThanWellFounded DEF OpToRel
<1> HIDE DEF R
<1>2. PICK x \in S : \A y \in S : <<y, x>> \notin R
  BY <1>1, WFMin
<1>3. ASSUME NEW y \in S PROVE x <= y
  <2>1. x \in Nat /\ y \in Nat /\ <<y, x>> \notin R
    BY <1>2
  <2>2. <<y, x>> \in R <=> y < x
    BY <2>1 DEF R
  <2> QED BY <2>1, <2>2
<1> QED BY <1>3

(* A profile whose place and activity are known.                           *)
LEMMA ProfileIs ==
  ASSUME NEW p \in Profile, NEW a \in BOOLEAN
  PROVE  /\ [p EXCEPT !.active = a] \in Profile
         /\ [p EXCEPT !.active = a].id = p.id
         /\ [p EXCEPT !.active = a].active = a
BY DEF Profile

(* A new profile is active only in a registry without another.             *)
LEMMA AddedGood ==
  ASSUME NEW n \in Nat, n < MaxProfiles, NEW r, Good(r, n)
  PROVE  Good(Model!Added(r, n + 1), n + 1) /\ Good(Model!Discovered(r, n + 1), n + 1)
<1> DEFINE a == r = <<>>
           new == [id |-> n + 1, active |-> a]
           q == Append(r, new)
<1>1. new \in Profile /\ new.id = n + 1
  BY ModelAssumption DEF Profile, Model!Ids
<1>2. new.active <=> r = <<>>
  OBVIOUS
<1>3. r \in Seq(Profile) /\ Len(r) \in Nat /\ DOMAIN r = 1 .. Len(r)
  BY DEF Good
<1> HIDE DEF new
<1>4. /\ q \in Seq(Profile) /\ Len(q) = Len(r) + 1 /\ DOMAIN q = 1 .. (Len(r) + 1)
      /\ \A i \in 1 .. Len(r) : q[i] = r[i]
      /\ q[Len(r) + 1] = new
  BY <1>1, <1>3, AppendProperties
<1> HIDE DEF q
<1>5. Good(q, n + 1)
  <2>1. ASSUME NEW i \in DOMAIN q PROVE q[i].id <= n + 1
    <3>1. CASE i = Len(r) + 1
      BY <1>1, <1>4, <3>1
    <3>2. CASE i # Len(r) + 1
      <4>1. i \in 1 .. Len(r) /\ q[i] = r[i]
        BY <1>3, <1>4, <2>1, <3>2
      <4>2. r[i] \in Profile /\ r[i].id <= n
        BY <1>3, <4>1 DEF Good
      <4>3. r[i].id \in Nat
        BY <4>2, ModelAssumption DEF Profile, Model!Ids
      <4> QED BY <4>1, <4>2, <4>3
    <3> QED BY <3>1, <3>2
  <2>2. ASSUME NEW i \in DOMAIN q, NEW j \in DOMAIN q, q[i].id = q[j].id PROVE i = j
    <3>1. \A k \in 1 .. Len(r) : q[k].id = r[k].id /\ r[k].id # n + 1
      BY <1>3, <1>4 DEF Good, Profile, Model!Ids
    <3>2. q[Len(r) + 1].id = n + 1
      BY <1>1, <1>4
    <3>3. \A k, m \in 1 .. Len(r) : r[k].id = r[m].id => k = m
      BY <1>3 DEF Good
    <3> QED BY <1>3, <1>4, <2>2, <3>1, <3>2, <3>3
  <2>3. \E k \in DOMAIN q : \A i \in DOMAIN q : q[i].active <=> i = k
    <3>1. CASE r = <<>>
      <4>1. \A i \in DOMAIN q : i = 1 /\ q[i] = new
        BY <1>3, <1>4, <3>1
      <4>2. 1 \in DOMAIN q
        BY <1>3, <1>4
      <4> QED BY <1>2, <3>1, <4>1, <4>2
    <3>2. CASE r # <<>>
      <4>1. PICK k \in DOMAIN r : \A i \in DOMAIN r : r[i].active <=> i = k
        BY <3>2 DEF Good
      <4>2. ASSUME NEW i \in DOMAIN q PROVE q[i].active <=> i = k
        <5>1. CASE i = Len(r) + 1
          BY <1>2, <1>3, <1>4, <3>2, <4>1, <5>1
        <5>2. CASE i # Len(r) + 1
          BY <1>3, <1>4, <4>1, <4>2, <5>2
        <5> QED BY <5>1, <5>2
      <4> QED BY <1>3, <1>4, <4>1, <4>2
    <3> QED BY <3>1, <3>2
  <2> QED BY <1>4, <2>1, <2>2, <2>3 DEF Good
<1>6. Model!Actives(r) = {} <=> r = <<>>
  BY DEF Good, Model!Actives
<1> QED BY <1>5, <1>6 DEF q, new, Model!Added, Model!Discovered
(* A choice of one profile leaves every other inactive.                    *)
LEMMA OnlyActiveGood ==
  ASSUME NEW n, NEW r, Good(r, n), NEW id \in Model!IdsOf(r)
  PROVE  Good(Model!OnlyActive(r, id), n) /\ Model!IdsOf(Model!OnlyActive(r, id)) = Model!IdsOf(r)
<1> DEFINE q == Model!OnlyActive(r, id)
<1>1. r \in Seq(Profile) /\ Len(r) \in Nat /\ DOMAIN r = 1 .. Len(r)
  BY DEF Good
<1>2. ASSUME NEW i \in DOMAIN r
      PROVE  q[i] \in Profile /\ q[i].id = r[i].id /\ (q[i].active <=> r[i].id = id)
  <2> DEFINE a == r[i].id = id
  <2>1. r[i] \in Profile /\ a \in BOOLEAN
    BY <1>1, <1>2
  <2>2. q[i] = [r[i] EXCEPT !.active = a]
    BY <1>2 DEF Model!OnlyActive
  <2> HIDE DEF a, q
  <2>3. q[i] \in Profile /\ q[i].id = r[i].id /\ q[i].active = a
    BY <2>1, <2>2, ProfileIs
  <2> QED BY <2>3 DEF a
<1>3. DOMAIN q = DOMAIN r /\ q \in Seq(Profile) /\ (q = <<>> => r = <<>>)
  <2>1. q = [i \in 1 .. Len(r) |-> q[i]]
    BY <1>1 DEF Model!OnlyActive
  <2> HIDE DEF q
  <2> QED BY <1>1, <1>2, <2>1
<1> HIDE DEF q
<1>4. PICK k \in DOMAIN r : r[k].id = id
  BY DEF Model!IdsOf
<1>5. \A i \in DOMAIN q : q[i].active <=> i = k
  BY <1>2, <1>3, <1>4 DEF Good
<1>6. Good(q, n)
  BY <1>2, <1>3, <1>4, <1>5 DEF Good
<1>7. Model!IdsOf(q) = Model!IdsOf(r)
  BY <1>2, <1>3 DEF Model!IdsOf
<1> QED BY <1>6, <1>7 DEF q

(* The place where a profile is.                                           *)
LEMMA PlaceOf ==
  ASSUME NEW r \in Seq(Profile), NEW id \in Model!IdsOf(r)
  PROVE  Model!IndexOf(r, id) \in DOMAIN r /\ r[Model!IndexOf(r, id)].id = id
<1> DEFINE P == {i \in DOMAIN r : r[i].id = id}
<1>1. P \in SUBSET Nat /\ P # {}
  BY DEF Model!IdsOf
<1>2. PICK i \in P : \A j \in P : i <= j
  BY <1>1, Smallest
<1>3. i \in DOMAIN r /\ r[i].id = id /\ \A j \in DOMAIN r : r[j].id = id => i <= j
  BY <1>2
<1> QED BY <1>3 DEF Model!IndexOf

(* A function on the first numbers is a sequence.                          *)
LEMMA SeqOnFirst ==
  ASSUME NEW S, NEW n \in Nat, NEW f, f = [i \in 1 .. n |-> f[i]], \A i \in 1 .. n : f[i] \in S
  PROVE  f \in Seq(S) /\ DOMAIN f = 1 .. n /\ Len(f) = n
OBVIOUS

(* What is left of a sequence without one of its elements.                 *)
LEMMA WithoutOne ==
  ASSUME NEW S, NEW r \in Seq(S), NEW at \in DOMAIN r
  PROVE  /\ Model!RemoveAt(r, at) \in Seq(S) /\ Len(Model!RemoveAt(r, at)) = Len(r) - 1
         /\ \A i \in 1 .. (Len(r) - 1) :
               Model!RemoveAt(r, at)[i] = IF i < at THEN r[i] ELSE r[i + 1]
<1> DEFINE new == [i \in 1 .. (Len(r) - 1) |-> IF i < at THEN r[i] ELSE r[i + 1]]
           a == SubSeq(r, 1, at - 1)
           b == SubSeq(r, at + 1, Len(r))
<1>1. Len(r) \in Nat /\ at \in 1 .. Len(r) /\ DOMAIN r = 1 .. Len(r)
  OBVIOUS
<1>2. new \in Seq(S) /\ Len(new) = Len(r) - 1
  BY <1>1
<1>3. a \in Seq(S) /\ Len(a) = at - 1 /\ \A i \in 1 .. (at - 1) : a[i] = r[i]
  BY <1>1
<1>4. b \in Seq(S) /\ Len(b) = Len(r) - at /\ \A i \in 1 .. (Len(r) - at) : b[i] = r[i + at]
  BY <1>1
<1> HIDE DEF a, b, new
<1>5. /\ a \o b \in Seq(S) /\ Len(a \o b) = Len(r) - 1
      /\ \A i \in 1 .. (Len(r) - 1) : (a \o b)[i] = IF i <= at - 1 THEN a[i] ELSE b[i - (at - 1)]
  <2>1. Len(a) + Len(b) = Len(r) - 1
    BY <1>1, <1>3, <1>4
  <2>2. /\ a \o b \in Seq(S) /\ Len(a \o b) = Len(a) + Len(b)
        /\ \A i \in 1 .. (Len(a) + Len(b)) : (a \o b)[i] = IF i <= Len(a) THEN a[i] ELSE b[i - Len(a)]
    BY <1>3, <1>4, ConcatProperties
  <2> QED BY <1>3, <2>1, <2>2
<1>6. ASSUME NEW i \in 1 .. (Len(r) - 1)
      PROVE  (a \o b)[i] = IF i < at THEN r[i] ELSE r[i + 1]
  <2>1. CASE i < at
    BY <1>1, <1>3, <1>5, <1>6, <2>1
  <2>2. CASE ~(i < at)
    <3>1. i - (at - 1) \in 1 .. (Len(r) - at) /\ i - (at - 1) + at = i + 1 /\ ~(i <= at - 1)
      BY <1>1, <1>6, <2>2
    <3>2. (a \o b)[i] = b[i - (at - 1)]
      BY <1>5, <1>6, <3>1
    <3>3. b[i - (at - 1)] = r[i - (at - 1) + at]
      BY <1>4, <3>1
    <3> QED BY <2>2, <3>1, <3>2, <3>3
  <2> QED BY <2>1, <2>2
<1>7. Model!RemoveAt(r, at) = a \o b
  BY DEF Model!RemoveAt, a, b
<1> QED BY <1>5, <1>6, <1>7
(* A profile that goes leaves its activity to the first that is left.       *)
LEMMA RemovedGood ==
  ASSUME NEW n, NEW r, Good(r, n), NEW id \in Model!IdsOf(r)
  PROVE  Good(Model!Removed(r, id), n)
<1> DEFINE at == Model!IndexOf(r, id)
           rest == Model!RemoveAt(r, at)
           q == Model!Removed(r, id)
<1>1. r \in Seq(Profile) /\ Len(r) \in Nat /\ DOMAIN r = 1 .. Len(r)
  BY DEF Good
<1>2. at \in 1 .. Len(r) /\ r[at].id = id
  BY <1>1, PlaceOf
<1> HIDE DEF at
<1>3. /\ rest \in Seq(Profile) /\ Len(rest) = Len(r) - 1
      /\ DOMAIN rest = 1 .. (Len(r) - 1)
      /\ \A i \in 1 .. (Len(r) - 1) : rest[i] = IF i < at THEN r[i] ELSE r[i + 1]
  <2>1. at \in DOMAIN r
    BY <1>1, <1>2
  <2>2. /\ rest \in Seq(Profile) /\ Len(rest) = Len(r) - 1
        /\ \A i \in 1 .. (Len(r) - 1) : rest[i] = IF i < at THEN r[i] ELSE r[i + 1]
    BY <1>1, <2>1, WithoutOne
  <2> HIDE DEF rest
  <2> QED BY <2>2
<1> HIDE DEF rest
<1>4. PICK k \in 1 .. Len(r) : \A i \in 1 .. Len(r) : r[i].active <=> i = k
  <2>1. r # <<>>
    BY <1>1, <1>2
  <2> QED BY <1>1, <2>1 DEF Good
<1> DEFINE From(i) == IF i < at THEN i ELSE i + 1
<1>5. \A i \in 1 .. (Len(r) - 1) : From(i) \in 1 .. Len(r) /\ From(i) # at /\ rest[i] = r[From(i)]
  BY <1>1, <1>2, <1>3
<1>6. /\ \A i, j \in 1 .. (Len(r) - 1) : From(i) = From(j) => i = j
      /\ \A j \in 1 .. Len(r) : j # at => \E i \in 1 .. (Len(r) - 1) : From(i) = j
  <2>1. \A i, j \in 1 .. (Len(r) - 1) : From(i) = From(j) => i = j
    BY <1>1, <1>2
  <2>2. ASSUME NEW j \in 1 .. Len(r), j # at PROVE \E i \in 1 .. (Len(r) - 1) : From(i) = j
    <3>1. CASE j < at
      <4>1. j \in 1 .. (Len(r) - 1) /\ From(j) = j
        BY <1>1, <1>2, <2>2, <3>1
      <4> QED BY <4>1
    <3>2. CASE j > at
      <4>1. j - 1 \in 1 .. (Len(r) - 1) /\ From(j - 1) = j
        BY <1>1, <1>2, <2>2, <3>2
      <4> QED BY <4>1
    <3> QED BY <1>1, <1>2, <2>2, <3>1, <3>2
  <2> QED BY <2>1, <2>2
<1> HIDE DEF From
<1>7. /\ q \in Seq(Profile) /\ DOMAIN q = 1 .. (Len(r) - 1)
      /\ \A i \in 1 .. (Len(r) - 1) : q[i].id = r[From(i)].id
      /\ q # <<>> => \E m \in DOMAIN q : \A i \in DOMAIN q : q[i].active <=> i = m
  <2>1. CASE ~r[at].active
    <3>1. q = rest
      BY <2>1 DEF q, Model!Removed, at, rest
    <3> HIDE DEF q
    <3>2. k # at
      BY <1>2, <1>4, <2>1
    <3>3. PICK m \in 1 .. (Len(r) - 1) : From(m) = k
      BY <1>4, <1>6, <3>2
    <3>4. \A i \in 1 .. (Len(r) - 1) : q[i].active <=> i = m
      BY <1>4, <1>5, <1>6, <3>1, <3>3
    <3>5. m \in DOMAIN q /\ \A i \in DOMAIN q : q[i].active <=> i = m
      BY <1>3, <3>1, <3>3, <3>4
    <3> QED BY <1>3, <1>5, <3>1, <3>5
  <2>2. CASE r[at].active
    <3>1. q = [i \in DOMAIN rest |-> [rest[i] EXCEPT !.active = @ \/ i = 1]]
      BY <2>2 DEF q, Model!Removed, at, rest
    <3> HIDE DEF q
    <3>2. k = at
      BY <1>2, <1>4, <2>2
    <3>3. ASSUME NEW i \in 1 .. (Len(r) - 1)
          PROVE  q[i] \in Profile /\ q[i].id = r[From(i)].id /\ (q[i].active <=> i = 1)
      <4> DEFINE a == rest[i].active \/ i = 1
      <4>1. a \in BOOLEAN /\ rest[i] \in Profile /\ q[i] = [rest[i] EXCEPT !.active = a]
        BY <1>3, <3>1, <3>3
      <4>2. ~rest[i].active
        BY <1>4, <1>5, <3>2
      <4> HIDE DEF a
      <4>3. q[i] \in Profile /\ q[i].id = rest[i].id /\ q[i].active = a
        BY <4>1, ProfileIs
      <4> QED BY <1>5, <4>2, <4>3 DEF a
    <3>4. q = [i \in 1 .. (Len(r) - 1) |-> q[i]]
      BY <1>3, <3>1
    <3>5. q \in Seq(Profile) /\ DOMAIN q = 1 .. (Len(r) - 1)
      <4>1. Len(r) - 1 \in Nat
        BY <1>1, <1>2
      <4>2. \A i \in 1 .. (Len(r) - 1) : q[i] \in Profile
        BY <3>3
      <4> QED BY <3>4, <4>1, <4>2, SeqOnFirst
    <3>6. q # <<>> => 1 \in DOMAIN q
      <4>1. q # <<>> => Len(q) # 0
        BY <3>5
      <4>2. Len(q) \in Nat /\ DOMAIN q = 1 .. Len(q)
        BY <3>5
      <4> QED BY <4>1, <4>2
    <3> QED BY <3>3, <3>5, <3>6
  <2> QED BY <2>1, <2>2
<1> HIDE DEF q
<1>8. Good(q, n)
  <2>1. \A i \in DOMAIN q : q[i].id <= n
    BY <1>1, <1>5, <1>7 DEF Good
  <2>2. \A i, j \in DOMAIN q : q[i].id = q[j].id => i = j
    <3>1. \A i, j \in 1 .. Len(r) : r[i].id = r[j].id => i = j
      BY <1>1 DEF Good
    <3>2. ASSUME NEW i \in 1 .. (Len(r) - 1), NEW j \in 1 .. (Len(r) - 1), q[i].id = q[j].id
          PROVE  i = j
      <4>1. From(i) = From(j)
        BY <1>5, <1>7, <3>1, <3>2
      <4> QED BY <1>6, <4>1
    <3> QED BY <1>7, <3>2
  <2> QED BY <1>7, <2>1, <2>2 DEF Good
<1> QED BY <1>8 DEF q

(* Every other profile is kept, also in a registry that is not good.        *)
LEMMA RemovedTyped ==
  ASSUME NEW n, NEW r, Typed(r, n), NEW id \in Model!IdsOf(r)
  PROVE  /\ Typed(Model!Removed(r, id), n)
         /\ Model!IdsOf(r) \ Model!IdsOf(Model!Removed(r, id)) \subseteq {id}
<1> DEFINE at == Model!IndexOf(r, id)
           rest == Model!RemoveAt(r, at)
           q == Model!Removed(r, id)
<1>1. r \in Seq(Profile) /\ Len(r) \in Nat /\ DOMAIN r = 1 .. Len(r)
  BY DEF Typed
<1>2. at \in DOMAIN r /\ r[at].id = id
  BY <1>1, PlaceOf
<1> HIDE DEF at
<1>3. /\ rest \in Seq(Profile) /\ Len(rest) = Len(r) - 1
      /\ \A i \in 1 .. (Len(r) - 1) : rest[i] = IF i < at THEN r[i] ELSE r[i + 1]
  BY <1>1, <1>2, WithoutOne
<1>4. DOMAIN rest = 1 .. (Len(r) - 1) /\ Len(r) - 1 \in Nat
  <2> HIDE DEF rest
  <2> QED BY <1>1, <1>2, <1>3
<1>5. q = rest \/ q = [i \in DOMAIN rest |-> [rest[i] EXCEPT !.active = @ \/ i = 1]]
  BY DEF q, Model!Removed, at, rest
<1> HIDE DEF rest, q
<1>6. DOMAIN q = 1 .. (Len(r) - 1) /\ q = [i \in 1 .. (Len(r) - 1) |-> q[i]]
  BY <1>3, <1>4, <1>5
<1>7. ASSUME NEW i \in 1 .. (Len(r) - 1)
      PROVE  q[i] \in Profile /\ q[i].id = IF i < at THEN r[i].id ELSE r[i + 1].id
  <2>1. rest[i] \in Profile
    BY <1>3, <1>4
  <2>2. q[i] \in Profile /\ q[i].id = rest[i].id
    <3>1. CASE q = rest
      BY <2>1, <3>1
    <3>2. CASE q = [j \in DOMAIN rest |-> [rest[j] EXCEPT !.active = @ \/ j = 1]]
      <4> DEFINE a == rest[i].active \/ i = 1
      <4>1. a \in BOOLEAN /\ q[i] = [rest[i] EXCEPT !.active = a]
        BY <1>4, <3>2
      <4> HIDE DEF a
      <4> QED BY <2>1, <4>1, ProfileIs
    <3> QED BY <1>5, <3>1, <3>2
  <2> QED BY <1>3, <2>2
<1>8. q \in Seq(Profile)
  BY <1>4, <1>6, <1>7, SeqOnFirst
<1>9. \A i \in DOMAIN q : q[i].id <= n
  BY <1>1, <1>2, <1>6, <1>7 DEF Typed
<1>10. ASSUME NEW x \in Model!IdsOf(r), x # id PROVE x \in Model!IdsOf(q)
  <2>1. PICK j \in DOMAIN r : r[j].id = x
    BY DEF Model!IdsOf
  <2>2. j # at
    BY <1>2, <1>10, <2>1
  <2>3. CASE j < at
    <3>1. j \in 1 .. (Len(r) - 1) /\ q[j].id = x
      BY <1>1, <1>2, <1>7, <2>1, <2>3
    <3> QED BY <1>6, <3>1 DEF Model!IdsOf
  <2>4. CASE j > at
    <3>1. j - 1 \in 1 .. (Len(r) - 1) /\ ~(j - 1 < at) /\ j - 1 + 1 = j
      BY <1>1, <1>2, <2>1, <2>4
    <3>2. q[j - 1].id = x
      BY <1>7, <2>1, <3>1
    <3> QED BY <1>6, <3>1, <3>2 DEF Model!IdsOf
  <2> QED BY <1>1, <1>2, <2>2, <2>3, <2>4
<1> QED BY <1>8, <1>9, <1>10 DEF q, Typed

(* A new profile leaves the others where they are.                          *)
LEMMA AppendTyped ==
  ASSUME NEW n \in Nat, NEW r, Typed(r, n), NEW new \in Profile, new.id = n + 1
  PROVE  Typed(Append(r, new), n + 1) /\ Model!IdsOf(r) \subseteq Model!IdsOf(Append(r, new))
<1> DEFINE q == Append(r, new)
<1>1. r \in Seq(Profile) /\ Len(r) \in Nat /\ DOMAIN r = 1 .. Len(r)
  BY DEF Typed
<1>2. /\ q \in Seq(Profile) /\ Len(q) = Len(r) + 1 /\ DOMAIN q = 1 .. (Len(r) + 1)
      /\ \A i \in 1 .. Len(r) : q[i] = r[i]
      /\ q[Len(r) + 1] = new
  BY <1>1, AppendProperties
<1> HIDE DEF q
<1>3. ASSUME NEW i \in DOMAIN q PROVE q[i].id <= n + 1
  <2>1. CASE i = Len(r) + 1
    BY <1>2, <2>1
  <2>2. CASE i # Len(r) + 1
    <3>1. i \in 1 .. Len(r) /\ q[i] = r[i]
      BY <1>1, <1>2, <1>3, <2>2
    <3>2. r[i] \in Profile /\ r[i].id <= n
      BY <1>1, <3>1 DEF Typed
    <3>3. r[i].id \in Nat
      BY <3>2, ModelAssumption DEF Profile, Model!Ids
    <3> QED BY <3>1, <3>2, <3>3
  <2> QED BY <2>1, <2>2
<1>4. Model!IdsOf(r) \subseteq Model!IdsOf(q)
  BY <1>1, <1>2 DEF Model!IdsOf
<1> QED BY <1>2, <1>3, <1>4 DEF q, Typed

LEMMA AddedFit ==
  ASSUME NEW n \in Nat, n < MaxProfiles, NEW r, NEW s, Fit(r, n, s)
  PROVE  /\ Fit(Model!Added(r, n + 1), n + 1, s) /\ Fit(Model!Discovered(r, n + 1), n + 1, s)
         /\ Model!IdsOf(r) \subseteq Model!IdsOf(Model!Added(r, n + 1))
         /\ Model!IdsOf(r) \subseteq Model!IdsOf(Model!Discovered(r, n + 1))
<1> DEFINE New(a) == [id |-> n + 1, active |-> a]
<1>1. \A a \in BOOLEAN : New(a) \in Profile /\ New(a).id = n + 1
  BY ModelAssumption DEF Profile, Model!Ids
<1>2. /\ Model!Added(r, n + 1) = Append(r, New(r = <<>>))
      /\ Model!Discovered(r, n + 1) = Append(r, New(Model!Actives(r) = {}))
      /\ (r = <<>>) \in BOOLEAN /\ (Model!Actives(r) = {}) \in BOOLEAN
  BY DEF Model!Added, Model!Discovered
<1> HIDE DEF New
<1>3. Typed(r, n)
  BY DEF Fit
<1>4. ASSUME NEW a \in BOOLEAN
      PROVE  /\ Typed(Append(r, New(a)), n + 1)
             /\ Model!IdsOf(r) \subseteq Model!IdsOf(Append(r, New(a)))
  BY <1>1, <1>3, AppendTyped
<1>5. \/ s
      \/ Good(Model!Added(r, n + 1), n + 1) /\ Good(Model!Discovered(r, n + 1), n + 1)
  BY AddedGood DEF Fit
<1> QED BY <1>2, <1>4, <1>5 DEF Fit

LEMMA OnlyActiveFit ==
  ASSUME NEW n, NEW r, NEW s, Fit(r, n, s), NEW id \in Model!IdsOf(r)
  PROVE  /\ Fit(Model!OnlyActive(r, id), n, s)
         /\ Model!IdsOf(Model!OnlyActive(r, id)) = Model!IdsOf(r)
<1> DEFINE q == Model!OnlyActive(r, id)
<1>1. r \in Seq(Profile) /\ Len(r) \in Nat /\ DOMAIN r = 1 .. Len(r)
  BY DEF Fit, Typed
<1>2. ASSUME NEW i \in DOMAIN r PROVE q[i] \in Profile /\ q[i].id = r[i].id
  <2> DEFINE a == r[i].id = id
  <2>1. r[i] \in Profile /\ a \in BOOLEAN /\ q[i] = [r[i] EXCEPT !.active = a]
    BY <1>1, <1>2 DEF Model!OnlyActive
  <2> HIDE DEF a, q
  <2> QED BY <2>1, ProfileIs
<1>3. DOMAIN q = DOMAIN r /\ q = [i \in 1 .. Len(r) |-> q[i]]
  BY <1>1 DEF Model!OnlyActive
<1>4. s \/ Good(q, n)
  BY OnlyActiveGood DEF Fit
<1> HIDE DEF q
<1>5. q \in Seq(Profile)
  BY <1>1, <1>2, <1>3, SeqOnFirst
<1>6. Typed(q, n)
  BY <1>2, <1>3, <1>5 DEF Fit, Typed
<1>7. Model!IdsOf(q) = Model!IdsOf(r)
  BY <1>2, <1>3 DEF Model!IdsOf
<1> QED BY <1>4, <1>6, <1>7 DEF q, Fit

LEMMA RemovedFit ==
  ASSUME NEW n, NEW r, NEW s, Fit(r, n, s), NEW id \in Model!IdsOf(r)
  PROVE  /\ Fit(Model!Removed(r, id), n, s)
         /\ Model!IdsOf(r) \ Model!IdsOf(Model!Removed(r, id)) \subseteq {id}
BY RemovedTyped, RemovedGood DEF Fit

(* An edit may leave any list of profiles; a well-formed one is good.       *)
LEMMA EditedFit ==
  ASSUME NEW n \in 0 .. MaxProfiles, NEW r \in Model!Lists(n), NEW s
  PROVE  Fit(r, n, s \/ ~Model!WellFormed(r))
<1>1. PICK k \in 0 .. MaxProfiles : r \in [1 .. k -> [id : 1 .. n, active : BOOLEAN]]
  BY DEF Model!Lists
<1>2. [id : 1 .. n, active : BOOLEAN] \subseteq Profile /\ k \in Nat
  BY ModelAssumption DEF Profile, Model!Ids
<1>3. r \in Seq(Profile) /\ DOMAIN r = 1 .. k /\ \A i \in 1 .. k : r[i].id \in 1 .. n
  BY <1>1, <1>2
<1>4. Typed(r, n)
  BY <1>3, ModelAssumption DEF Typed
<1>5. ASSUME Model!WellFormed(r) PROVE Good(r, n)
  <2>1. \A i, j \in DOMAIN r : r[i].id = r[j].id => i = j
    BY <1>5 DEF Model!WellFormed
  <2>2. ASSUME r # <<>> PROVE \E m \in DOMAIN r : \A i \in DOMAIN r : r[i].active <=> i = m
    <3>1. PICK m \in DOMAIN r : Model!Actives(r) = {m}
      BY <1>5, <2>2 DEF Model!WellFormed
    <3> QED BY <3>1 DEF Model!Actives
  <2> QED BY <1>4, <2>1, <2>2 DEF Good, Typed
<1> QED BY <1>4, <1>5 DEF Fit

(* A good registry is well-formed.                                         *)
LEMMA GoodForms == ASSUME NEW r, NEW n, Good(r, n) PROVE Model!WellFormed(r)
<1>1. \A i, j \in DOMAIN r : r[i].id = r[j].id => i = j
  BY DEF Good
<1>2. ASSUME r # <<>> PROVE \E k \in DOMAIN r : Model!Actives(r) = {k}
  BY <1>2 DEF Good, Model!Actives
<1> QED BY <1>1, <1>2 DEF Model!WellFormed

OpKinds == {"none", "add", "bootstrap", "find", "activate", "activateAt", "update", "delete",
            "discover", "edit"}
Awaited == {"discover", "addModelPick", "addModel", "xaiDone"}
MenuRecord(steps) == [step : steps, target : Nat, provider : Model!Providers]

OpRecord == [kind : OpKinds, arg : Nat, held : Seq(Profile), read : BOOLEAN]

RegistryInv ==
  /\ Fit(registry, created, skewed)
  /\ created \in 0 .. MaxProfiles /\ confirmed \in [Model!Procs -> 0 .. MaxProfiles]
  /\ system \in {"env", "user"} /\ edited \in Nat

(* So are the registries that are held, and a process deletes what its user  *)
(* has confirmed.                                                          *)
OpsInv ==
  /\ modelOp \in [Model!Procs -> OpRecord]
  /\ \A p \in Model!Procs : Fit(modelOp[p].held, created, skewed)
  /\ \A p \in Model!Procs : modelOp[p].kind = "delete" => confirmed[p] = modelOp[p].arg

MenuInv ==
  /\ menu \in [Menus -> MenuRecord(Model!Steps)]
  /\ awaits \in [Menus -> Seq(MenuRecord(Awaited))]
  /\ \A m \in Menus : Len(awaits[m]) <= MaxAwaits
  /\ \A m \in Menus : menu[m].step = "deleteConfirm" => menu[m].target \in Model!Ids

EnvInv ==
  /\ env.of \in {"settings", "profile"} /\ env.provider \in BOOLEAN
  /\ Model!ProviderMatches

(* Every registry, read or written, is good unless an edit was ill-formed;   *)
(* a profile is deleted only if its deletion was confirmed.                 *)
ModelInv == RegistryInv /\ OpsInv /\ MenuInv /\ EnvInv

(* Registries fit also when more profiles were created, and after an edit.   *)
LEMMA FitLater ==
  ASSUME NEW n \in Nat, NEW m \in Nat, n <= m, NEW r, NEW s, NEW t, s => t, Fit(r, n, s)
  PROVE  Fit(r, m, t)
<1>1. r \in Seq(Profile) /\ DOMAIN r = 1 .. Len(r)
  BY DEF Fit, Typed
<1>2. ASSUME NEW i \in DOMAIN r PROVE r[i].id <= m
  <2>1. r[i] \in Profile /\ r[i].id <= n
    BY <1>1, <1>2 DEF Fit, Typed
  <2>2. r[i].id \in Nat
    BY <2>1, ModelAssumption DEF Profile, Model!Ids
  <2> QED BY <2>1, <2>2
<1>3. Typed(r, m)
  BY <1>1, <1>2 DEF Typed
<1>4. t \/ Good(r, m)
  BY <1>2 DEF Fit, Good
<1> QED BY <1>3, <1>4 DEF Fit

(* A registry of nothing.                                                  *)
LEMMA EmptyFit == ASSUME NEW n, NEW s PROVE Fit(<<>>, n, s)
BY DEF Fit, Typed, Good

(* The operation at rest, and one that starts.                             *)
LEMMA OpsAre ==
  /\ Model!Idle \in OpRecord /\ Model!Idle.held = <<>> /\ Model!Idle.kind = "none"
  /\ \A k \in OpKinds, x \in Nat :
        LET o == [Model!Idle EXCEPT !.kind = k, !.arg = x]
        IN o \in OpRecord /\ o.held = <<>> /\ o.kind = k /\ o.arg = x
<1>1. Model!Idle \in OpRecord /\ Model!Idle.held = <<>> /\ Model!Idle.kind = "none"
  BY DEF Model!Idle, OpRecord, OpKinds
<1>2. ASSUME NEW k \in OpKinds, NEW x \in Nat
      PROVE  LET o == [Model!Idle EXCEPT !.kind = k, !.arg = x]
             IN o \in OpRecord /\ o.held = <<>> /\ o.kind = k /\ o.arg = x
  <2> DEFINE o == [Model!Idle EXCEPT !.kind = k, !.arg = x]
  <2>1. PICK i \in OpRecord : i = Model!Idle
    BY <1>1
  <2>2. o = [i EXCEPT !.kind = k, !.arg = x] /\ i.held = <<>>
    BY <1>1, <2>1
  <2>3. o \in OpRecord /\ o.held = i.held /\ o.kind = k /\ o.arg = x
    <3> DEFINE n == [i EXCEPT !.kind = k, !.arg = x]
    <3>1. n \in OpRecord /\ n.held = i.held /\ n.kind = k /\ n.arg = x
      BY DEF OpRecord
    <3> HIDE DEF n, o
    <3>2. o = n
      BY <2>2 DEF n
    <3> QED BY <3>1, <3>2
  <2> HIDE DEF o
  <2>4. o \in OpRecord /\ o.held = <<>> /\ o.kind = k /\ o.arg = x
    BY <2>2, <2>3
  <2> QED BY <2>4 DEF o
<1> QED BY <1>1, <1>2

(* The steps of a menu that is closed or in its main list.                  *)
LEMMA ClosedIs ==
  \A s \in Model!Steps :
     LET c == [Model!Closed EXCEPT !.step = s]
     IN c \in MenuRecord(Model!Steps) /\ c.step = s
BY DEF MenuRecord, Model!Closed, Model!Providers

(* The first state.                                                        *)
LEMMA InitModel == Model!Init => ModelInv
<1> SUFFICES ASSUME Model!Init PROVE ModelInv
  OBVIOUS
<1>1. RegistryInv
  <2>1. Fit(registry, created, skewed)
    BY EmptyFit DEF Model!Init
  <2>2. created \in 0 .. MaxProfiles /\ confirmed \in [Model!Procs -> 0 .. MaxProfiles]
    BY ModelAssumption DEF Model!Init
  <2>3. system \in {"env", "user"} /\ edited \in Nat
    BY DEF Model!Init
  <2> QED BY <2>1, <2>2, <2>3 DEF RegistryInv
<1>2. OpsInv
  <2>1. modelOp = [p \in Model!Procs |-> Model!Idle]
    BY DEF Model!Init
  <2> QED BY <2>1, OpsAre, EmptyFit DEF OpsInv
<1>3. MenuInv
  <2>1. menu = [m \in Menus |-> Model!Closed] /\ awaits = [m \in Menus |-> <<>>]
    BY DEF Model!Init
  <2>2. Model!Closed \in MenuRecord(Model!Steps) /\ Model!Closed.step = "closed"
    BY DEF Model!Closed, MenuRecord, Model!Steps, Model!Providers
  <2>3. menu \in [Menus -> MenuRecord(Model!Steps)] /\ \A m \in Menus : menu[m].step = "closed"
    BY <2>1, <2>2
  <2>4. awaits \in [Menus -> Seq(MenuRecord(Awaited))] /\ \A m \in Menus : Len(awaits[m]) = 0
    BY <2>1
  <2> QED BY <2>3, <2>4, ModelAssumption DEF MenuInv
<1>4. EnvInv
  BY DEF Model!Init, EnvInv, Model!ProviderMatches
<1> QED BY <1>1, <1>2, <1>3, <1>4 DEF ModelInv

(* What a process does next, when it is another operation or none.           *)
LEMMA OpMoves ==
  ASSUME OpsInv, NEW p \in Model!Procs, NEW o \in OpRecord, modelOp' = [modelOp EXCEPT ![p] = o],
         Fit(o.held, created', skewed'), o.kind = "delete" => confirmed'[p] = o.arg,
         \A q \in Model!Procs : q = p \/ confirmed'[q] = confirmed[q],
         created \in Nat, created' \in Nat, created <= created', skewed => skewed'
  PROVE  OpsInv'
<1>1. modelOp' \in [Model!Procs -> OpRecord]
  BY DEF OpsInv
<1>2. \A q \in Model!Procs : modelOp'[q] = IF q = p THEN o ELSE modelOp[q]
  BY DEF OpsInv
<1>3. \A q \in Model!Procs : Fit(modelOp[q].held, created', skewed')
  BY FitLater DEF OpsInv
<1>4. ASSUME NEW q \in Model!Procs PROVE Fit(modelOp'[q].held, created', skewed')
  BY <1>2, <1>3
<1>5. ASSUME NEW q \in Model!Procs, modelOp'[q].kind = "delete"
      PROVE  confirmed'[q] = modelOp'[q].arg
  <2>1. CASE q = p
    BY <1>2, <1>5, <2>1
  <2>2. CASE q # p
    BY <1>2, <1>5, <2>2 DEF OpsInv
  <2> QED BY <2>1, <2>2
<1>6. OpsInv' <=> /\ modelOp' \in [Model!Procs -> OpRecord]
                  /\ \A q \in Model!Procs : Fit(modelOp'[q].held, created', skewed')
                  /\ \A q \in Model!Procs : modelOp'[q].kind = "delete" => confirmed'[q] = modelOp'[q].arg
  BY DEF OpsInv, Fit, Typed, Good, Profile, Model!Procs, Model!Daemon, Model!Ids
<1> QED BY <1>1, <1>4, <1>5, <1>6
(* What the environment is made of.                                        *)
LEMMA AppliedOK ==
  \A r : /\ Model!Applied(r).of \in {"settings", "profile"} /\ Model!Applied(r).provider \in BOOLEAN
         /\ Model!Applied(r).provider <=> Model!Applied(r).of = "profile"
BY DEF Model!Applied

(* An environment that is kept, or made of a registry or of the settings.    *)
LEMMA EnvMoves ==
  ASSUME EnvInv, NEW r, env' \in {env, Model!Applied(r), Model!SettingsApplied}
  PROVE  EnvInv'
<1>1. CASE env' = env
  BY <1>1 DEF EnvInv, Model!ProviderMatches
<1>2. CASE env' = Model!Applied(r)
  BY <1>2, AppliedOK DEF EnvInv, Model!ProviderMatches
<1>3. CASE env' = Model!SettingsApplied
  BY <1>3 DEF EnvInv, Model!ProviderMatches, Model!SettingsApplied
<1> QED BY <1>1, <1>2, <1>3

(* A menu that nobody touches.                                             *)
LEMMA MenuStays == ASSUME MenuInv, UNCHANGED <<menu, awaits>> PROVE MenuInv'
BY DEF MenuInv

(* What a step may take from the registry, when nothing was overwritten.     *)
OnlyConfirmed ==
  (\A p \in Model!Procs : modelOp[p].read /\ modelOp'[p] # modelOp[p] =>
        modelOp[p].held = registry /\ modelOp[p].kind # "edit")
  => Model!IdsOf(registry) \ Model!IdsOf(registry') \subseteq {confirmed[p] : p \in Model!Procs}

(* A save replaces the registry that was read.                              *)
LEMMA SavedFrom ==
  ASSUME NEW p \in Model!Procs, modelOp[p].read, ~modelOp'[p].read,
         Model!IdsOf(modelOp[p].held) \ Model!IdsOf(registry') \subseteq {confirmed[p]}
  PROVE  OnlyConfirmed
<1>1. modelOp'[p] # modelOp[p]
  OBVIOUS
<1> QED BY <1>1 DEF OnlyConfirmed

(* A registry that is kept loses nothing.                                   *)
LEMMA KeptAll == registry' = registry => OnlyConfirmed
BY DEF OnlyConfirmed

(* What an operation of a process does.                                    *)
LEMMA OperatesKeeps ==
  ASSUME ModelInv, NEW p \in Model!Procs, Model!Operates(p)
  PROVE  ModelInv' /\ OnlyConfirmed
<1> USE DEF Model!store, Model!edits
<1> DEFINE h == modelOp[p].held
<1>1. /\ modelOp[p] \in OpRecord /\ Fit(h, created, skewed) /\ created \in 0 .. MaxProfiles
      /\ created \in Nat /\ OpsInv /\ RegistryInv /\ modelOp \in [Model!Procs -> OpRecord]
  BY ModelAssumption DEF ModelInv, OpsInv, RegistryInv
<1>2. modelOp[p].arg \in Nat /\ h \in Seq(Profile)
  BY <1>1 DEF OpRecord
<1>3. MenuInv'
  BY MenuStays DEF ModelInv, Model!Operates, Model!Reads, Model!SaveAdded, Model!SkipAdded, Model!Find,
     Model!SaveActivated, Model!SaveUpdated, Model!SaveRemoved, Model!SaveDiscovered, Model!SaveEdited,
     Model!NothingSaved
<1>4. EnvInv'
  <2>1. \E r : env' \in {env, Model!Applied(r)}
    BY DEF Model!Operates, Model!Reads, Model!SaveAdded, Model!SkipAdded, Model!Find, Model!AppliesIn,
       Model!SaveActivated, Model!SaveUpdated, Model!SaveRemoved, Model!SaveDiscovered,
       Model!SaveEdited, Model!NothingSaved
  <2> QED BY <2>1, EnvMoves DEF ModelInv
<1>5. /\ system' = system
      /\ confirmed' \in [Model!Procs -> 0 .. MaxProfiles]
      /\ \A q \in Model!Procs : q = p \/ confirmed'[q] = confirmed[q]
  <2>1. system' = system /\ (confirmed' = confirmed \/ Model!Done(p))
    BY DEF Model!Operates, Model!Reads, Model!SaveAdded, Model!SkipAdded, Model!Find,
       Model!SaveActivated, Model!SaveUpdated, Model!SaveRemoved, Model!SaveDiscovered,
       Model!SaveEdited, Model!NothingSaved
  <2>2. confirmed \in [Model!Procs -> 0 .. MaxProfiles] /\ 0 \in 0 .. MaxProfiles
    BY <1>1, ModelAssumption DEF RegistryInv
  <2> QED BY <2>1, <2>2 DEF Model!Done
<1>6. ASSUME UNCHANGED <<registry, created, edited, skewed>> PROVE RegistryInv' /\ OnlyConfirmed
  BY <1>1, <1>5, <1>6, KeptAll DEF RegistryInv
<1> DEFINE Later == created' \in 0 .. MaxProfiles /\ created <= created' /\ (skewed => skewed')
<1>7. ASSUME Model!Ends(p), Later PROVE OpsInv' /\ modelOp'[p].read = FALSE
  <2>1. Fit(Model!Idle.held, created', skewed') /\ Model!Idle.kind # "delete"
    BY OpsAre, EmptyFit
  <2>2. created' \in Nat
    BY <1>7, ModelAssumption
  <2>3. modelOp'[p].read = FALSE
    BY <1>1, <1>7 DEF Model!Ends, Model!Idle
  <2> QED BY <1>1, <1>5, <1>7, <2>1, <2>2, <2>3, OpsAre, OpMoves DEF Model!Ends
<1>8. ASSUME NEW k \in OpKinds, k # "delete", NEW x \in Nat, Model!Starts(p, k, x), Later
      PROVE  OpsInv' /\ modelOp'[p].read = FALSE
  <2> DEFINE o == [Model!Idle EXCEPT !.kind = k, !.arg = x]
  <2>1. o \in OpRecord /\ o.held = <<>> /\ o.kind # "delete"
    BY <1>8, OpsAre
  <2>2. modelOp' = [modelOp EXCEPT ![p] = o] /\ o.read = FALSE
    BY <1>8 DEF Model!Starts, Model!Idle
  <2> HIDE DEF o
  <2>3. Fit(o.held, created', skewed')
    BY <2>1, EmptyFit
  <2>4. created' \in Nat
    BY <1>8, ModelAssumption
  <2>5. modelOp'[p].read = FALSE
    BY <1>1, <2>2
  <2> QED BY <1>1, <1>5, <1>8, <2>1, <2>2, <2>3, <2>4, <2>5, OpMoves
<1>9. ASSUME UNCHANGED <<created, skewed>> PROVE Later
  BY <1>1, <1>9
<1>10. ASSUME created' = created + 1, created < MaxProfiles, skewed' = skewed PROVE Later
  BY <1>1, <1>10, ModelAssumption
<1> HIDE DEF Later
<1>11. ASSUME NEW r, Model!Save(r), Fit(r, created', skewed'), Later, edited' \in Nat
       PROVE  RegistryInv'
  <2>1. registry' = r
    BY <1>11 DEF Model!Save
  <2> QED BY <1>1, <1>5, <1>11, <2>1 DEF RegistryInv, Later
<1>12. edited \in Nat /\ edited + 1 \in Nat
  BY <1>1 DEF RegistryInv
<1>13. ASSUME NEW r, Model!Save(r), modelOp[p].read, modelOp'[p].read = FALSE,
              Model!IdsOf(h) \ Model!IdsOf(r) \subseteq {confirmed[p]}
       PROVE  OnlyConfirmed
  <2>1. registry' = r
    BY <1>13 DEF Model!Save
  <2> QED BY <1>13, <2>1, SavedFrom
<1>14. Model!TargetOf(modelOp[p]) # 0 => Model!TargetOf(modelOp[p]) \in Model!IdsOf(h)
  BY DEF Model!TargetOf, Model!IdsOf
<1>15. CASE Model!Reads(p)
  <2> DEFINE o == [modelOp[p] EXCEPT !.held = registry, !.read = TRUE]
  <2>1. o \in OpRecord /\ o.held = registry /\ o.kind = modelOp[p].kind /\ o.arg = modelOp[p].arg
    BY <1>1 DEF RegistryInv, Fit, Typed, OpRecord
  <2>2. /\ modelOp' = [modelOp EXCEPT ![p] = o] /\ UNCHANGED <<registry, created, edited, skewed>>
        /\ confirmed' = confirmed
    BY <1>15 DEF Model!Reads
  <2> HIDE DEF o
  <2>3. Fit(o.held, created', skewed') /\ (o.kind = "delete" => confirmed'[p] = o.arg)
    BY <1>1, <2>1, <2>2 DEF RegistryInv, OpsInv
  <2>4. created' \in Nat /\ created <= created'
    BY <1>1, <2>2
  <2>5. skewed => skewed'
    BY <2>2, Zenon
  <2>6. OpsInv'
    BY <1>1, <1>5, <2>1, <2>2, <2>3, <2>4, <2>5, OpMoves
  <2> QED BY <1>3, <1>4, <1>6, <2>2, <2>6 DEF ModelInv
<1>16. CASE Model!SaveAdded(p)
  <2> DEFINE r == Model!Added(h, created + 1)
  <2>1. /\ Model!Save(r) /\ created' = created + 1 /\ created < MaxProfiles
        /\ UNCHANGED <<edited, skewed>> /\ modelOp[p].read
    BY <1>16 DEF Model!SaveAdded
  <2>2. Fit(r, created + 1, skewed) /\ Model!IdsOf(h) \subseteq Model!IdsOf(r)
    BY <1>1, <2>1, AddedFit
  <2> HIDE DEF r
  <2>3. Later
    BY <1>10, <2>1
  <2>4. OpsInv' /\ modelOp'[p].read = FALSE
    <3>1. CASE Model!Ends(p)
      BY <1>7, <2>3, <3>1
    <3>2. CASE Model!Starts(p, "find", created + 1)
      <4>1. "find" \in OpKinds /\ created + 1 \in Nat
        BY <1>1 DEF OpKinds
      <4> QED BY <1>8, <2>3, <3>2, <4>1
    <3> QED BY <1>16, <3>1, <3>2 DEF Model!SaveAdded
  <2>5. RegistryInv'
    BY <1>11, <1>12, <2>1, <2>2, <2>3
  <2>6. OnlyConfirmed
    BY <1>13, <2>1, <2>2, <2>4
  <2> QED BY <1>3, <1>4, <2>4, <2>5, <2>6 DEF ModelInv
<1>17. CASE Model!SkipAdded(p) \/ Model!NothingSaved(p)
  <2>1. Model!Ends(p) /\ UNCHANGED <<registry, created, edited, skewed>>
    BY <1>17 DEF Model!SkipAdded, Model!NothingSaved
  <2> QED BY <1>3, <1>4, <1>6, <1>7, <1>9, <2>1 DEF ModelInv
<1>18. CASE Model!Find(p)
  <2>1. UNCHANGED <<registry, created, edited, skewed>>
    BY <1>18 DEF Model!Find
  <2>2. OpsInv'
    <3>1. CASE Model!Ends(p)
      BY <1>7, <1>9, <2>1, <3>1
    <3>2. CASE /\ modelOp[p].arg \in Model!IdsOf(h)
               /\ Model!Starts(p, "activateAt", Model!IndexOf(h, modelOp[p].arg))
      <4>1. Model!IndexOf(h, modelOp[p].arg) \in DOMAIN h
        BY <1>2, <3>2, PlaceOf
      <4>2. Model!IndexOf(h, modelOp[p].arg) \in Nat
        BY <1>2, <4>1
      <4> QED BY <1>8, <1>9, <2>1, <3>2, <4>2 DEF OpKinds
    <3> QED BY <1>18, <3>1, <3>2 DEF Model!Find
  <2> QED BY <1>3, <1>4, <1>6, <2>1, <2>2 DEF ModelInv
<1>19. ASSUME NEW r, Model!Save(r), Fit(r, created, skewed), UNCHANGED <<created, edited, skewed>>,
              Model!Ends(p), modelOp[p].read,
              Model!IdsOf(h) \ Model!IdsOf(r) \subseteq {confirmed[p]}
       PROVE  ModelInv' /\ OnlyConfirmed
  <2>1. Later
    BY <1>9, <1>19
  <2>2. RegistryInv'
    BY <1>11, <1>12, <1>19, <2>1
  <2>3. OpsInv' /\ modelOp'[p].read = FALSE
    BY <1>7, <1>19, <2>1
  <2>4. OnlyConfirmed
    BY <1>13, <1>19, <2>3
  <2> QED BY <1>3, <1>4, <2>2, <2>3, <2>4 DEF ModelInv
<1>20. CASE Model!SaveActivated(p)
  <2> DEFINE r == Model!OnlyActive(h, Model!TargetOf(modelOp[p]))
  <2>1. /\ Model!Save(r) /\ Model!TargetOf(modelOp[p]) # 0 /\ UNCHANGED <<created, edited, skewed>>
        /\ Model!Ends(p) /\ modelOp[p].read
    BY <1>20 DEF Model!SaveActivated
  <2>2. Fit(r, created, skewed) /\ Model!IdsOf(r) = Model!IdsOf(h)
    BY <1>1, <1>14, <2>1, OnlyActiveFit
  <2> HIDE DEF r
  <2> QED BY <1>19, <2>1, <2>2
<1>21. CASE Model!SaveUpdated(p)
  <2>1. /\ Model!Save(h) /\ UNCHANGED <<created, edited, skewed>> /\ Model!Ends(p)
        /\ modelOp[p].read
    BY <1>21 DEF Model!SaveUpdated
  <2> QED BY <1>1, <1>19, <2>1
<1>22. CASE Model!SaveRemoved(p)
  <2> DEFINE r == Model!Removed(h, modelOp[p].arg)
  <2>1. /\ Model!Save(r) /\ Model!TargetOf(modelOp[p]) # 0 /\ UNCHANGED <<created, edited, skewed>>
        /\ Model!Ends(p) /\ modelOp[p].kind = "delete" /\ modelOp[p].read
    BY <1>22 DEF Model!SaveRemoved
  <2>2. modelOp[p].arg \in Model!IdsOf(h) /\ confirmed[p] = modelOp[p].arg
    BY <1>1, <2>1 DEF Model!TargetOf, OpsInv
  <2>3. Fit(r, created, skewed) /\ Model!IdsOf(h) \ Model!IdsOf(r) \subseteq {modelOp[p].arg}
    BY <1>1, <2>2, RemovedFit
  <2> HIDE DEF r
  <2> QED BY <1>19, <2>1, <2>2, <2>3
<1>23. CASE Model!SaveDiscovered(p)
  <2> DEFINE r == Model!Discovered(h, created + 1)
  <2>1. /\ Model!Save(r) /\ created' = created + 1 /\ created < MaxProfiles /\ Model!Ends(p)
        /\ UNCHANGED <<edited, skewed>> /\ modelOp[p].read
    BY <1>23 DEF Model!SaveDiscovered
  <2>2. Fit(r, created + 1, skewed) /\ Model!IdsOf(h) \subseteq Model!IdsOf(r)
    BY <1>1, <2>1, AddedFit
  <2> HIDE DEF r
  <2>3. Later
    BY <1>10, <2>1
  <2>4. OpsInv' /\ modelOp'[p].read = FALSE
    BY <1>7, <2>1, <2>3
  <2>5. RegistryInv'
    BY <1>11, <1>12, <2>1, <2>2, <2>3
  <2>6. OnlyConfirmed
    BY <1>13, <2>1, <2>2, <2>4
  <2> QED BY <1>3, <1>4, <2>4, <2>5, <2>6 DEF ModelInv
<1>24. CASE Model!SaveEdited(p)
  <2>1. PICK n \in created .. MaxProfiles : \E r \in Model!Lists(n) :
           Model!Save(r) /\ created' = n /\ skewed' = (skewed \/ ~Model!WellFormed(r))
    BY <1>24 DEF Model!SaveEdited
  <2>2. PICK r \in Model!Lists(n) :
           Model!Save(r) /\ created' = n /\ skewed' = (skewed \/ ~Model!WellFormed(r))
    BY <2>1
  <2>3. n \in 0 .. MaxProfiles /\ created <= n
    BY <1>1, <2>1, ModelAssumption
  <2>4. Later
    BY <2>2, <2>3 DEF Later
  <2>5. Fit(r, created', skewed')
    BY <2>2, <2>3, EditedFit
  <2>6. edited' = edited + 1 /\ Model!Ends(p) /\ modelOp[p].read /\ modelOp[p].kind = "edit"
    BY <1>24 DEF Model!SaveEdited
  <2>7. RegistryInv'
    BY <1>11, <1>12, <2>2, <2>4, <2>5, <2>6
  <2>8. OpsInv' /\ modelOp'[p].read = FALSE
    BY <1>7, <2>4, <2>6
  <2>9. OnlyConfirmed
    BY <2>6, <2>8 DEF OnlyConfirmed
  <2> QED BY <1>3, <1>4, <2>7, <2>8, <2>9 DEF ModelInv
<1> QED BY <1>15, <1>16, <1>17, <1>18, <1>20, <1>21, <1>22, <1>23, <1>24 DEF Model!Operates

(* A menu that goes to another step, with other awaits.                     *)
LEMMA MenuMoves ==
  ASSUME MenuInv, NEW m \in Menus, NEW s \in MenuRecord(Model!Steps), NEW q \in Seq(MenuRecord(Awaited)),
         s.step = "deleteConfirm" => s.target \in Model!Ids, Len(q) <= MaxAwaits,
         menu' = [menu EXCEPT ![m] = s], awaits' = [awaits EXCEPT ![m] = q]
  PROVE  MenuInv'
<1>1. menu' \in [Menus -> MenuRecord(Model!Steps)] /\ awaits' \in [Menus -> Seq(MenuRecord(Awaited))]
  BY DEF MenuInv
<1>2. \A n \in Menus : menu'[n] = (IF n = m THEN s ELSE menu[n]) /\ awaits'[n] = IF n = m THEN q ELSE awaits[n]
  BY DEF MenuInv
<1>3. \A n \in Menus : Len(awaits'[n]) <= MaxAwaits
  BY <1>2 DEF MenuInv
<1>4. \A n \in Menus : menu'[n].step = "deleteConfirm" => menu'[n].target \in Model!Ids
  BY <1>2 DEF MenuInv
<1>5. MenuInv' <=> /\ menu' \in [Menus -> MenuRecord(Model!Steps)]
                   /\ awaits' \in [Menus -> Seq(MenuRecord(Awaited))]
                   /\ \A n \in Menus : Len(awaits'[n]) <= MaxAwaits
                   /\ \A n \in Menus : menu'[n].step = "deleteConfirm" => menu'[n].target \in Model!Ids
  BY DEF MenuInv, MenuRecord, Model!Ids, Model!Steps, Model!Providers, Awaited
<1> QED BY <1>1, <1>3, <1>4, <1>5

(* A menu that goes to another step.                                       *)
LEMMA MenuGoes ==
  ASSUME MenuInv, NEW m \in Menus, NEW s \in MenuRecord(Model!Steps),
         s.step = "deleteConfirm" => s.target \in Model!Ids,
         menu' = [menu EXCEPT ![m] = s], awaits' = awaits
  PROVE  MenuInv'
<1>1. /\ awaits[m] \in Seq(MenuRecord(Awaited)) /\ Len(awaits[m]) <= MaxAwaits
      /\ awaits' = [awaits EXCEPT ![m] = awaits[m]]
  BY DEF MenuInv
<1> QED BY <1>1, MenuMoves

(* A menu that awaits something else.                                      *)
LEMMA MenuAwaits ==
  ASSUME MenuInv, edited \in Nat, NEW m \in Menus, NEW s \in Awaited, Model!Awaiting(m, s),
         menu' = menu
  PROVE  MenuInv'
<1> DEFINE new == [menu[m] EXCEPT !.step = s]
           q == Append(awaits[m], new)
<1>1. /\ menu[m] \in MenuRecord(Model!Steps) /\ menu' = [menu EXCEPT ![m] = menu[m]]
      /\ menu[m].step = "deleteConfirm" => menu[m].target \in Model!Ids
  BY DEF MenuInv
<1>2. new \in MenuRecord(Awaited)
  BY <1>1 DEF MenuRecord
<1>3. /\ awaits[m] \in Seq(MenuRecord(Awaited)) /\ Len(awaits[m]) \in Nat
      /\ Len(awaits[m]) < MaxAwaits /\ awaits' = [awaits EXCEPT ![m] = q]
  BY ModelAssumption DEF MenuInv, Model!Awaiting
<1> HIDE DEF new
<1>4. q \in Seq(MenuRecord(Awaited)) /\ Len(q) = Len(awaits[m]) + 1
  BY <1>2, <1>3, AppendProperties
<1>5. Len(q) <= MaxAwaits
  BY <1>3, <1>4, ModelAssumption
<1> HIDE DEF q
<1> QED BY <1>1, <1>3, <1>4, <1>5, MenuMoves

(* The next step of a menu, but the one that asks before a deletion.         *)
LEMMA MenuSteps ==
  ASSUME MenuInv, NEW m \in Menus, NEW s \in Model!Steps, s # "deleteConfirm", awaits' = awaits,
         Model!To(m, s)
  PROVE  MenuInv'
<1> DEFINE new == [menu[m] EXCEPT !.step = s]
<1>1. menu[m] \in MenuRecord(Model!Steps) /\ menu' = [menu EXCEPT ![m] = new]
  BY DEF MenuInv, Model!To
<1>2. new \in MenuRecord(Model!Steps) /\ new.step = s
  BY <1>1 DEF MenuRecord
<1> HIDE DEF new
<1> QED BY <1>1, <1>2, MenuGoes

(* The main list of a menu.                                                *)
LEMMA MenuMain == ASSUME MenuInv, NEW m \in Menus, awaits' = awaits, Model!ToMain(m) PROVE MenuInv'
<1> DEFINE new == [Model!Closed EXCEPT !.step = "main"]
<1>1. new \in MenuRecord(Model!Steps) /\ new.step = "main"
  BY ClosedIs DEF Model!Steps
<1>2. menu' = [menu EXCEPT ![m] = new]
  BY DEF Model!ToMain
<1> HIDE DEF new
<1> QED BY <1>1, <1>2, MenuGoes

(* What the user picks is a profile of the registry.                       *)
LEMMA MenuPicks ==
  ASSUME MenuInv, RegistryInv, NEW m \in Menus, NEW s \in Model!Steps, awaits' = awaits, Model!Pick(m, s)
  PROVE  MenuInv'
<1>1. PICK i \in DOMAIN registry :
           menu' = [menu EXCEPT ![m].step = s, ![m].target = registry[i].id]
  BY DEF Model!Pick
<1>2. registry[i].id \in Model!Ids /\ registry[i].id \in Nat
  <2>1. registry[i] \in Profile
    BY <1>1 DEF RegistryInv, Fit, Typed
  <2> QED BY <2>1, ModelAssumption DEF Profile, Model!Ids
<1> DEFINE new == [menu[m] EXCEPT !.step = s, !.target = registry[i].id]
<1>3. menu[m] \in MenuRecord(Model!Steps) /\ menu' = [menu EXCEPT ![m] = new]
  BY <1>1 DEF MenuInv
<1>4. new \in MenuRecord(Model!Steps) /\ new.target \in Model!Ids
  BY <1>2, <1>3 DEF MenuRecord
<1> HIDE DEF new
<1> QED BY <1>3, <1>4, MenuGoes

(* The result of an await goes on where its handler wants it.                *)
LEMMA ResultMenu ==
  ASSUME MenuInv, NEW m \in Menus, Model!Result(m)
  PROVE  MenuInv'
<1>1. PICK i \in DOMAIN awaits[m] :
        /\ awaits' = [awaits EXCEPT ![m] = Model!RemoveAt(awaits[m], i)]
        /\ \/ Model!ToMain(m)
           \/ menu' = [menu EXCEPT ![m] = [Model!Closed EXCEPT !.step = "select"]]
           \/ menu' = [menu EXCEPT ![m] = [awaits[m][i] EXCEPT !.step = "xaiCode"]]
           \/ /\ awaits[m][i].step \notin {"discover", "xaiDone"}
              /\ menu' = [menu EXCEPT ![m] = awaits[m][i]]
  BY DEF Model!Result
<1> DEFINE q == Model!RemoveAt(awaits[m], i)
           next == awaits[m][i]
<1>2. awaits[m] \in Seq(MenuRecord(Awaited)) /\ Len(awaits[m]) \in Nat /\ Len(awaits[m]) <= MaxAwaits
  BY DEF MenuInv
<1>3. next \in MenuRecord(Awaited)
  BY <1>1, <1>2
<1>4. q \in Seq(MenuRecord(Awaited)) /\ Len(q) = Len(awaits[m]) - 1
  BY <1>1, <1>2, WithoutOne
<1>5. Len(q) <= MaxAwaits
  BY <1>2, <1>4, ModelAssumption
<1>6. PICK s \in MenuRecord(Model!Steps) :
           s.step # "deleteConfirm" /\ menu' = [menu EXCEPT ![m] = s]
  <2>1. CASE Model!ToMain(m)
    BY <2>1, ClosedIs DEF Model!ToMain, Model!Steps
  <2>2. CASE menu' = [menu EXCEPT ![m] = [Model!Closed EXCEPT !.step = "select"]]
    BY <2>2, ClosedIs DEF Model!Steps
  <2>3. CASE menu' = [menu EXCEPT ![m] = [next EXCEPT !.step = "xaiCode"]]
    <3> DEFINE s == [next EXCEPT !.step = "xaiCode"]
    <3>1. s \in MenuRecord(Model!Steps) /\ s.step = "xaiCode"
      BY <1>3 DEF MenuRecord, Model!Steps
    <3> HIDE DEF s
    <3> QED BY <2>3, <3>1 DEF s
  <2>4. CASE next.step \notin {"discover", "xaiDone"} /\ menu' = [menu EXCEPT ![m] = next]
    <3>1. next \in MenuRecord(Model!Steps) /\ next.step # "deleteConfirm"
      BY <1>3, <2>4 DEF MenuRecord, Awaited, Model!Steps
    <3> QED BY <2>4, <3>1
  <2> QED BY <1>1, <2>1, <2>2, <2>3, <2>4
<1> HIDE DEF q, next
<1> QED BY <1>1, <1>4, <1>5, <1>6, MenuMoves DEF q

(* An input of the menu keeps the menu as it is wanted.                     *)
LEMMA UsesMenu == ASSUME ModelInv, NEW m \in Menus, Model!Uses(m) PROVE MenuInv'
<1> USE DEF Model!store, Model!edits, Model!Moves, Model!At
<1>1. MenuInv /\ RegistryInv /\ edited \in Nat
  BY DEF ModelInv, RegistryInv
<1>2. CASE Model!Open(m) \/ Model!Select(m) \/ Model!Back(m) \/ Model!AddName(m) \/ Model!EditValue(m)
           \/ Model!Confirm(m) \/ Model!Refuse(m)
  <2>1. awaits' = awaits /\ Model!ToMain(m)
    BY <1>2 DEF Model!Open, Model!Select, Model!Back, Model!AddName, Model!Adds, Model!EditValue,
       Model!Confirm, Model!Refuse
  <2> QED BY <1>1, <2>1, MenuMain
<1>3. CASE Model!Leave(m)
  <2>1. Model!Closed \in MenuRecord(Model!Steps) /\ Model!Closed.step = "closed"
    BY DEF Model!Closed, MenuRecord, Model!Steps, Model!Providers
  <2>2. menu' = [menu EXCEPT ![m] = Model!Closed] /\ awaits' = awaits
    BY <1>3 DEF Model!Leave
  <2> QED BY <1>1, <2>1, <2>2, MenuGoes
<1>4. CASE Model!Choose(m)
  <2>1. awaits' = awaits /\ \E s \in {"addProvider", "select", "editPick", "deletePick"} : Model!To(m, s)
    BY <1>4 DEF Model!Choose
  <2> QED BY <1>1, <2>1, MenuSteps DEF Model!Steps
<1>5. CASE Model!Discover(m)
  BY <1>1, <1>5, MenuAwaits DEF Model!Discover, Awaited
<1>6. CASE Model!AddProvider(m)
  <2>1. PICK p \in Model!Providers : \E s \in {"xaiCode", "addApiKey", "addBaseUrl"} :
             menu' = [menu EXCEPT ![m] = [menu[m] EXCEPT !.provider = p, !.step = s]]
    <3>1. PICK p \in Model!Providers :
             menu' = [menu EXCEPT ![m] = [menu[m] EXCEPT !.provider = p,
                         !.step = CASE p = "xai" -> "xaiCode" [] p = "minimax" -> "addApiKey"
                                    [] OTHER -> "addBaseUrl"]]
      BY <1>6 DEF Model!AddProvider
    <3>2. (CASE p = "xai" -> "xaiCode" [] p = "minimax" -> "addApiKey" [] OTHER -> "addBaseUrl")
             \in {"xaiCode", "addApiKey", "addBaseUrl"}
      OBVIOUS
    <3> QED BY <3>1, <3>2
  <2>2. PICK s \in {"xaiCode", "addApiKey", "addBaseUrl"} :
             menu' = [menu EXCEPT ![m] = [menu[m] EXCEPT !.provider = p, !.step = s]]
    BY <2>1
  <2> DEFINE new == [menu[m] EXCEPT !.provider = p, !.step = s]
  <2>3. menu[m] \in MenuRecord(Model!Steps)
    BY <1>1 DEF MenuInv
  <2>4. new \in MenuRecord(Model!Steps) /\ new.step = s
    BY <2>3 DEF MenuRecord, Model!Steps
  <2>5. awaits' = awaits
    BY <1>6 DEF Model!AddProvider
  <2> HIDE DEF new
  <2> QED BY <1>1, <2>2, <2>4, <2>5, MenuGoes DEF new
<1>7. CASE Model!AddBaseUrl(m)
  <2>1. CASE menu' = menu /\ \E s \in {"addModelPick", "addModel"} : Model!Awaiting(m, s)
    BY <1>1, <2>1, MenuAwaits DEF Awaited
  <2>2. CASE Model!To(m, "addApiKey") /\ awaits' = awaits
    BY <1>1, <2>2, MenuSteps DEF Model!Steps
  <2> QED BY <1>7, <2>1, <2>2 DEF Model!AddBaseUrl
<1>8. CASE Model!AddApiKey(m)
  BY <1>1, <1>8, MenuAwaits DEF Model!AddApiKey, Awaited
<1>9. CASE Model!AddModel(m)
  <2>1. CASE Model!Adds(m)
    BY <1>1, <2>1, MenuMain DEF Model!Adds
  <2>2. CASE awaits' = awaits /\ \E s \in {"addName", "addModel"} : Model!To(m, s)
    BY <1>1, <2>2, MenuSteps DEF Model!Steps
  <2> QED BY <1>9, <2>1, <2>2 DEF Model!AddModel
<1>10. CASE Model!XaiCode(m)
  BY <1>1, <1>10, MenuAwaits DEF Model!XaiCode, Awaited
<1>11. CASE Model!EditPick(m) \/ Model!DeletePick(m)
  <2>1. awaits' = awaits /\ \E s \in {"editField", "deleteConfirm"} : Model!Pick(m, s)
    BY <1>11 DEF Model!EditPick, Model!DeletePick
  <2> QED BY <1>1, <2>1, MenuPicks DEF Model!Steps
<1>12. CASE Model!EditField(m)
  BY <1>1, <1>12, MenuSteps DEF Model!EditField, Model!Steps
<1>13. CASE Model!Result(m)
  BY <1>1, <1>13, ResultMenu
<1> QED BY <1>2, <1>3, <1>4, <1>5, <1>6, <1>7, <1>8, <1>9, <1>10, <1>11, <1>12, <1>13 DEF Model!Uses

(* An operation that a menu or the daemon starts.                           *)
LEMMA StartsOK ==
  ASSUME OpsInv, NEW p \in Model!Procs, NEW k \in OpKinds, NEW x \in Nat, Model!Starts(p, k, x),
         k = "delete" => confirmed'[p] = x,
         \A q \in Model!Procs : q = p \/ confirmed'[q] = confirmed[q],
         UNCHANGED <<created, skewed>>, created \in Nat
  PROVE  OpsInv'
<1> DEFINE o == [Model!Idle EXCEPT !.kind = k, !.arg = x]
<1>1. o \in OpRecord /\ o.held = <<>> /\ o.kind = k /\ o.arg = x
  BY OpsAre
<1>2. modelOp' = [modelOp EXCEPT ![p] = o]
  BY DEF Model!Starts
<1> HIDE DEF o
<1>3. Fit(o.held, created', skewed')
  BY <1>1, EmptyFit
<1>4. created' \in Nat /\ created <= created'
  OBVIOUS
<1>5. skewed => skewed'
  BY Zenon
<1> QED BY <1>1, <1>2, <1>3, <1>4, <1>5, OpMoves

(* Operations that stay as they are.                                       *)
LEMMA OpsStay ==
  ASSUME OpsInv, UNCHANGED <<modelOp, created, skewed, confirmed>> PROVE OpsInv'
BY DEF OpsInv

(* An input of the menu changes no registry, and a deletion is confirmed.    *)
LEMMA UsesKeeps ==
  ASSUME ModelInv, NEW m \in Menus, Model!Uses(m)
  PROVE  ModelInv' /\ OnlyConfirmed
<1> USE DEF Model!store, Model!edits, Model!Moves, Model!At
<1>1. UNCHANGED <<registry, system, created, edited, skewed>> /\ env' = env
  BY DEF Model!Uses, Model!Open, Model!Leave, Model!Choose, Model!Back, Model!Discover, Model!Select,
     Model!AddProvider, Model!AddBaseUrl, Model!AddApiKey, Model!AddModel, Model!AddName, Model!Adds,
     Model!XaiCode, Model!EditPick, Model!EditField, Model!EditValue, Model!DeletePick, Model!Confirm,
     Model!Refuse, Model!Result
<1>2. m \in Model!Procs /\ created \in Nat
  BY ModelAssumption DEF Model!Procs, ModelInv, RegistryInv
<1>3. OpsInv /\ RegistryInv /\ MenuInv /\ EnvInv /\ menu[m] \in MenuRecord(Model!Steps)
  BY DEF ModelInv, MenuInv
<1>4. menu[m].target \in Nat
  BY <1>3 DEF MenuRecord
<1>5. confirmed' \in [Model!Procs -> 0 .. MaxProfiles] /\ OpsInv'
  <2>1. CASE confirmed' = confirmed /\ modelOp' = modelOp
    BY <1>1, <1>3, <2>1, OpsStay DEF RegistryInv
  <2>2. CASE confirmed' = confirmed /\ \E k \in OpKinds \ {"delete"}, x \in Nat : Model!Starts(m, k, x)
    BY <1>1, <1>2, <1>3, <2>2, StartsOK DEF RegistryInv
  <2>3. CASE Model!Confirm(m)
    <3>1. /\ menu[m].target \in Model!Ids /\ confirmed' = [confirmed EXCEPT ![m] = menu[m].target]
          /\ Model!Starts(m, "delete", menu[m].target)
      BY <1>3, <2>3 DEF Model!Confirm, Model!DeleteArg, MenuInv
    <3>2. /\ confirmed' \in [Model!Procs -> 0 .. MaxProfiles]
          /\ confirmed'[m] = menu[m].target
          /\ \A q \in Model!Procs : q = m \/ confirmed'[q] = confirmed[q]
      BY <1>2, <1>3, <3>1, ModelAssumption DEF RegistryInv, Model!Ids
    <3> QED BY <1>1, <1>2, <1>3, <1>4, <3>1, <3>2, StartsOK DEF OpKinds
  <2>4. ASSUME Model!Adds(m) PROVE confirmed' = confirmed /\ \E k \in OpKinds \ {"delete"}, x \in Nat : Model!Starts(m, k, x)
    BY <2>4 DEF Model!Adds, OpKinds
  <2>5. CASE Model!AddModel(m) \/ Model!AddName(m)
    BY <2>1, <2>2, <2>4, <2>5 DEF Model!AddModel, Model!AddName
  <2>6. CASE Model!Select(m) \/ Model!EditValue(m)
    <3>1. confirmed' = confirmed /\ \A i \in DOMAIN registry : i \in Nat
      BY <1>3, <2>6 DEF Model!Select, Model!EditValue, RegistryInv, Fit, Typed
    <3>2. \E k \in {"activateAt", "update"}, x \in Nat : Model!Starts(m, k, x)
      BY <1>4, <2>6, <3>1 DEF Model!Select, Model!EditValue
    <3> QED BY <2>2, <3>1, <3>2 DEF OpKinds
  <2>7. CASE Model!Result(m)
    <3>1. confirmed' = confirmed /\ (modelOp' = modelOp \/ \E k \in {"add", "discover"} : Model!Starts(m, k, 0))
      BY <2>7 DEF Model!Result
    <3> QED BY <2>1, <2>2, <3>1 DEF OpKinds
  <2>8. CASE Model!Open(m) \/ Model!Leave(m) \/ Model!Choose(m) \/ Model!Back(m) \/ Model!Discover(m)
             \/ Model!AddProvider(m) \/ Model!AddBaseUrl(m) \/ Model!AddApiKey(m) \/ Model!XaiCode(m)
             \/ Model!EditPick(m) \/ Model!EditField(m) \/ Model!DeletePick(m) \/ Model!Refuse(m)
    <3>1. confirmed' = confirmed /\ modelOp' = modelOp
      BY <2>8 DEF Model!Open, Model!Leave, Model!Choose, Model!Back, Model!Discover,
         Model!AddProvider, Model!AddBaseUrl, Model!AddApiKey, Model!XaiCode, Model!EditPick,
         Model!EditField, Model!DeletePick, Model!Refuse
    <3> QED BY <2>1, <3>1
  <2> QED BY <2>3, <2>5, <2>6, <2>7, <2>8 DEF Model!Uses
<1>6. RegistryInv'
  BY <1>1, <1>3, <1>5 DEF RegistryInv
<1>7. EnvInv'
  BY <1>1, <1>3, EnvMoves
<1>8. OnlyConfirmed
  BY <1>1, KeptAll
<1> QED BY <1>5, <1>6, <1>7, <1>8, UsesMenu DEF ModelInv

(* What the daemon does on its own.                                        *)
LEMMA DaemonKeeps ==
  ASSUME ModelInv,
         Model!AssistantOperates \/ Model!SetSystem \/ Model!TurnStarts \/ Model!Boot
  PROVE  ModelInv' /\ OnlyConfirmed
<1> USE DEF Model!store, Model!edits
<1>1. UNCHANGED <<registry, created, edited, skewed, menu, awaits, confirmed>> /\ system' \in {"env", "user"}
  BY DEF Model!AssistantOperates, Model!SetSystem, Model!TurnStarts, Model!Boot, ModelInv, RegistryInv
<1>2. OpsInv /\ RegistryInv /\ MenuInv /\ EnvInv /\ Model!Daemon \in Model!Procs /\ created \in Nat
  BY ModelAssumption DEF ModelInv, RegistryInv, Model!Procs
<1>3. RegistryInv' /\ MenuInv' /\ OnlyConfirmed
  BY <1>1, <1>2, MenuStays, KeptAll DEF RegistryInv
<1>4. EnvInv'
  <2>1. env' \in {env, Model!Applied(registry), Model!SettingsApplied}
    BY DEF Model!AssistantOperates, Model!SetSystem, Model!TurnStarts, Model!Boot
  <2> QED BY <1>2, <2>1, EnvMoves
<1>5. Model!ActiveId(registry) \in Nat
  <2>1. \A i \in DOMAIN registry : registry[i].id \in Nat
    <3>1. \A i \in DOMAIN registry : registry[i] \in Profile
      BY <1>2 DEF RegistryInv, Fit, Typed
    <3> QED BY <3>1, ModelAssumption DEF Profile, Model!Ids
  <2>2. registry # <<>> => 1 \in DOMAIN registry
    BY <1>2 DEF RegistryInv, Fit, Typed
  <2>3. ASSUME Model!Actives(registry) # {}
        PROVE  (CHOOSE i \in Model!Actives(registry) : \A j \in Model!Actives(registry) : i <= j)
                  \in DOMAIN registry
    <3>1. Model!Actives(registry) \in SUBSET Nat
      BY <1>2 DEF Model!Actives, RegistryInv, Fit, Typed
    <3>2. \E i \in Model!Actives(registry) : \A j \in Model!Actives(registry) : i <= j
      BY <2>3, <3>1, Smallest
    <3> QED BY <3>2 DEF Model!Actives
  <2> QED BY <2>1, <2>2, <2>3 DEF Model!ActiveId
<1>6. OpsInv'
  <2>1. CASE modelOp' = modelOp
    BY <1>1, <1>2, <2>1, OpsStay
  <2>2. CASE \E k \in {"activate", "update", "edit", "bootstrap"}, x \in Nat : Model!Starts(Model!Daemon, k, x)
    BY <1>1, <1>2, <2>2, StartsOK DEF OpKinds
  <2>3. CASE Model!AssistantOperates
    BY <1>2, <1>5, <2>2, <2>3 DEF Model!AssistantOperates
  <2> QED BY <2>1, <2>2, <2>3 DEF Model!SetSystem, Model!TurnStarts, Model!Boot
<1> QED BY <1>3, <1>4, <1>6 DEF ModelInv

(* Every step of the processes.                                            *)
LEMMA NextModel == ASSUME ModelInv, Model!Next PROVE ModelInv' /\ OnlyConfirmed
BY OperatesKeeps, UsesKeeps, DaemonKeeps DEF Model!Next

(* A step is one of the model settings or leaves them as they are.          *)
LEMMA ModelSteps == [Next]_vars => Model!Next \/ UNCHANGED modelVars
<1> SUFFICES ASSUME [Next]_vars PROVE Model!Next \/ UNCHANGED modelVars
  OBVIOUS
<1>1. CASE UNCHANGED vars
  BY <1>1, Zenon DEF vars
<1>2. CASE Only("model") /\ Model!Next
  BY <1>2
<1>3. CASE \E p \in {"desk", "channels"} : Only(p)
  BY <1>3 DEF Only
<1> QED BY <1>1, <1>2, <1>3, Zenon DEF Next

(* Settings that nobody touches.                                           *)
LEMMA ModelStays == ASSUME ModelInv, UNCHANGED modelVars PROVE ModelInv' /\ OnlyConfirmed
<1>1. RegistryInv' /\ OpsInv' /\ MenuInv'
  BY MenuStays, OpsStay DEF ModelInv, RegistryInv, modelVars
<1>2. EnvInv'
  BY EnvMoves DEF ModelInv, modelVars
<1>3. OnlyConfirmed
  BY KeptAll DEF modelVars
<1> QED BY <1>1, <1>2, <1>3 DEF ModelInv

(* The registry keeps one active profile and every id once, whatever the    *)
(* processes overwrite of each other's, until an edit is itself ill-formed.  *)
THEOREM ModelHolds == Spec => []ModelInv
<1>1. Init => ModelInv
  BY InitModel DEF Init
<1>2. ModelInv /\ [Next]_vars => ModelInv'
  BY ModelSteps, ModelStays, NextModel
<1> QED BY <1>1, <1>2, PTL DEF Spec

(* A profile goes only by the deletion of that very profile its user has     *)
(* just confirmed or by an edit of the assistant, unless the step saves over  *)
(* a registry that changed since it was read.                               *)
THEOREM OnlyConfirmedGoHolds == Spec => OnlyConfirmedGo
<1>1. ModelInv /\ [Next]_vars => OnlyConfirmed
  BY ModelSteps, ModelStays, NextModel
<1>2. OnlyConfirmed =>
        [(\A p \in Model!Procs : modelOp[p].read /\ modelOp'[p] # modelOp[p] =>
              modelOp[p].held = registry /\ modelOp[p].kind # "edit")
         => Model!IdsOf(registry) \ Model!IdsOf(registry')
              \subseteq {confirmed[p] : p \in Model!Procs}]_(Model!vars)
  BY DEF OnlyConfirmed
<1> QED BY <1>1, <1>2, ModelHolds, PTL DEF Spec, OnlyConfirmedGo, Model!OnlyConfirmedGo

(* The invariant holds what the run checks of the model settings.           *)
LEMMA ModelMeans == ModelInv => Model!TypeOK /\ Model!OneActive /\ Model!ProviderMatches
<1> SUFFICES ASSUME ModelInv PROVE Model!TypeOK /\ Model!OneActive /\ Model!ProviderMatches
  OBVIOUS
<1>1. Fit(registry, created, skewed)
  BY DEF ModelInv, RegistryInv
<1>2. \A p \in Model!Range(registry) : p.id \in Model!Ids /\ p.active \in BOOLEAN
  <2>1. \A i \in DOMAIN registry : registry[i] \in Profile
    BY <1>1 DEF Fit, Typed
  <2> QED BY <2>1 DEF Profile, Model!Range
<1>3. \A m \in Menus : menu[m].step \in Model!Steps /\ Len(awaits[m]) <= MaxAwaits
  <2>1. \A m \in Menus : menu[m] \in MenuRecord(Model!Steps) /\ Len(awaits[m]) <= MaxAwaits
    BY DEF ModelInv, MenuInv
  <2> QED BY <2>1 DEF MenuRecord
<1>4. Model!TypeOK
  BY <1>2, <1>3 DEF ModelInv, RegistryInv, EnvInv, Model!TypeOK
<1>5. Model!OneActive
  BY <1>1, GoodForms DEF Fit, Model!OneActive
<1> QED BY <1>4, <1>5 DEF ModelInv, EnvInv

-----------------------------------------------------------------------------
(* The command line at its session.                                        *)

Pcs == {"no", "queued", "again", "local", "ensure", "sending", "wait", "done", "hung"}
Waits == {"none", "armed", "saw", "resolved", "rejected"}

(* What is shown.                                                          *)
Shown ==
  /\ connected \in BOOLEAN /\ busy \in BOOLEAN /\ streaming \in BOOLEAN
  /\ ephemeral \in BOOLEAN /\ replied \in BOOLEAN
  /\ Desk!NothingStreams
  /\ (drops = 0 /\ Desk!Here => connected)

Counted ==
  /\ kind \in [Desk!Lines -> Desk!Kinds]
  /\ menus \subseteq SubMenus \cup {"master"}
  /\ asked \in 0 .. MaxPrompts /\ prompt \in 0 .. MaxPrompts /\ pending \subseteq 1 .. MaxPrompts

LineTypes ==
  /\ pc \in [Desk!Lines -> Pcs] /\ waiter \in [Desk!Lines -> Waits]
  /\ over \in {"no", "left", "crashed"}
  /\ turn \in 0 .. Desk!Other /\ queue \in Seq(Desk!Lines)
  /\ queued \in 0 .. MaxLines /\ typed \in 0 .. MaxLines /\ others \in Nat /\ drops \in Nat

(* Where a line is: not yet entered, or in the one place for a queued line,  *)
(* or at the daemon, which has every line once.                             *)
Placed ==
  /\ \A l \in Desk!Lines : l > typed => pc[l] = "no"
  /\ queued # 0 => pc[queued] = "queued"
  /\ \A i, j \in 1 .. Len(queue) : queue[i] = queue[j] => i = j
  /\ Desk!Here => \A i \in 1 .. Len(queue) : pc[queue[i]] \in {"wait", "done"}

(* Without the turns of others, the wait of a line that crossed no other     *)
(* ends with its own turn: until then the line is the only one on its way,   *)
(* or the next of the queue, or its turn runs.                              *)
Alone(l) == pc[l] = "sending" /\ queue = <<>> /\ \A k \in Desk!Lines : pc[k] = "sending" => k = l
First(l) == queue # <<>> /\ Head(queue) = l
OwnTurn ==
  /\ \A l \in Desk!Lines : waiter[l] \in {"armed", "saw"} => connected
  /\ others = 0 => \A l \in Desk!Lines \ crossed :
       /\ waiter[l] = "armed" => Alone(l) \/ First(l)
       /\ waiter[l] = "saw" => turn = l
       /\ waiter[l] = "resolved" => l \in ended

LinesInv == LineTypes /\ Placed /\ OwnTurn
DeskInv == Shown /\ Counted /\ LinesInv

(* The bounds are numbers.                                                 *)
LEMMA BoundsAre == {MaxLines, MaxOthers, MaxPrompts, MaxDrops} \subseteq Nat /\ 0 \notin Desk!Lines
                   /\ Desk!Lines \subseteq Nat /\ Desk!Other \notin Desk!Lines
BY DeskAssumption DEF Desk!Lines, Desk!Other

(* It starts with nothing entered.                                         *)
LEMMA InitDesk == Desk!Init => DeskInv
<1> SUFFICES ASSUME Desk!Init PROVE DeskInv
  OBVIOUS
<1>1. Shown
  <2>1. connected \in BOOLEAN /\ busy \in BOOLEAN /\ streaming \in BOOLEAN /\ ephemeral \in BOOLEAN /\ replied \in BOOLEAN
    BY Zenon DEF Desk!Init
  <2>2. Desk!NothingStreams /\ connected
    BY Zenon DEF Desk!Init, Desk!NothingStreams
  <2> QED BY <2>1, <2>2 DEF Shown
<1>2. Counted
  <2>1. kind = [l \in Desk!Lines |-> "text"] /\ asked = 0 /\ prompt = 0 /\ pending = {}
    BY Zenon DEF Desk!Init
  <2>2. menus \subseteq SubMenus \cup {"master"}
    BY DEF Desk!Init
  <2> QED BY <2>1, <2>2, BoundsAre DEF Counted, Desk!Kinds
<1>3. /\ pc = [l \in Desk!Lines |-> "no"] /\ waiter = [l \in Desk!Lines |-> "none"] /\ over = "no"
      /\ turn = 0 /\ queue = <<>> /\ queued = 0 /\ typed = 0 /\ others = 0 /\ drops = 0
  BY Zenon DEF Desk!Init
<1>4. LineTypes
  BY <1>3, BoundsAre DEF LineTypes, Pcs, Waits, Desk!Other
<1>5. Placed /\ OwnTurn
  BY <1>3 DEF Placed, OwnTurn
<1> QED BY <1>1, <1>2, <1>4, <1>5 DEF DeskInv, LinesInv


lineVars == <<pc, waiter, over, turn, queue, queued, typed, others, drops, ended, crossed, connected>>

(* What the lines have to do with is as it was.                              *)
LEMMA LinesStay == ASSUME LinesInv, UNCHANGED lineVars PROVE LinesInv'
BY DEF LinesInv, LineTypes, Placed, OwnTurn, Alone, First, lineVars, Desk!Here

(* A new line is entered.                                                  *)
LEMMA EntersKeeps ==
  ASSUME LinesInv, NEW s \in {"local", "ensure", "queued"},
         typed' = typed + 1, typed + others < MaxLines, pc' = [pc EXCEPT ![typed + 1] = s],
         queued' = IF s = "queued" THEN typed + 1 ELSE queued,
         UNCHANGED <<waiter, over, turn, queue, others, drops, ended, crossed, connected>>
  PROVE  LinesInv'
<1>1. /\ typed \in Nat /\ others \in Nat /\ MaxLines \in Nat /\ typed + 1 \in Desk!Lines
      /\ typed + 1 \in 0 .. MaxLines /\ ~(typed + 1 <= typed) /\ typed + 1 # 0
  BY BoundsAre DEF LinesInv, LineTypes, Desk!Lines
<1>2. /\ pc' \in [Desk!Lines -> Pcs]
      /\ \A l \in Desk!Lines : pc'[l] = IF l = typed + 1 THEN s ELSE pc[l]
  BY <1>1 DEF LinesInv, LineTypes, Pcs
<1>3. pc[typed + 1] = "no"
  BY <1>1 DEF LinesInv, Placed
<1>4. LineTypes'
  BY <1>1, <1>2 DEF LinesInv, LineTypes
<1>5. queue \in Seq(Desk!Lines) /\ \A i \in 1 .. Len(queue) : queue[i] \in Desk!Lines
  BY DEF LinesInv, LineTypes
<1>6. Placed'
  <2>1. ASSUME NEW l \in Desk!Lines, l > typed + 1 PROVE pc'[l] = "no"
    <3>1. l > typed /\ l # typed + 1
      BY <1>1, <2>1 DEF Desk!Lines
    <3> QED BY <1>2, <3>1 DEF LinesInv, Placed
  <2>2. queued' # 0 => pc'[queued'] = "queued"
    <3>1. CASE s = "queued"
      BY <1>1, <1>2, <3>1
    <3>2. CASE s # "queued" /\ queued # 0
      <4>1. queued \in Desk!Lines /\ pc[queued] = "queued"
        BY <3>2, BoundsAre DEF LinesInv, LineTypes, Placed, Desk!Lines
      <4> QED BY <1>2, <1>3, <3>2, <4>1
    <3> QED BY <3>1, <3>2
  <2>3. Desk!Here => \A i \in 1 .. Len(queue) : pc'[queue[i]] \in {"wait", "done"}
    BY <1>2, <1>3, <1>5 DEF LinesInv, Placed
  <2> QED BY <2>1, <2>2, <2>3 DEF LinesInv, Placed, Desk!Here
<1>7. \A l \in Desk!Lines : pc'[l] = "sending" <=> pc[l] = "sending"
  BY <1>2, <1>3
<1>8. OwnTurn'
  BY <1>7 DEF LinesInv, OwnTurn, Alone, First
<1> QED BY <1>4, <1>6, <1>8 DEF LinesInv

(* A line goes on to what is no matter of the daemon's.                      *)
LEMMA GoesOnKeeps ==
  ASSUME LinesInv, NEW l \in Desk!Lines, NEW s \in {"local", "ensure", "done", "hung"},
         pc[l] \in {"again", "local", "ensure", "wait"}, pc[l] = "wait" => s = "done",
         pc' = [pc EXCEPT ![l] = s],
         NEW w \in {"none", waiter[l]}, waiter' = [waiter EXCEPT ![l] = w],
         UNCHANGED <<queued, typed, over, turn, queue, others, drops, ended, crossed, connected>>
  PROVE  LinesInv'
<1>1. queue \in Seq(Desk!Lines) /\ \A i \in 1 .. Len(queue) : queue[i] \in Desk!Lines
  BY DEF LinesInv, LineTypes
<1>2. /\ pc' \in [Desk!Lines -> Pcs] /\ waiter' \in [Desk!Lines -> Waits]
      /\ \A k \in Desk!Lines : pc'[k] = (IF k = l THEN s ELSE pc[k])
                               /\ waiter'[k] = IF k = l THEN w ELSE waiter[k]
  BY DEF LinesInv, LineTypes, Pcs, Waits
<1>3. LineTypes'
  BY <1>2 DEF LinesInv, LineTypes
<1>4. Placed'
  <2>1. \A k \in Desk!Lines : k > typed => pc'[k] = "no"
    BY <1>2 DEF LinesInv, Placed
  <2>2. queued # 0 => pc'[queued] = "queued"
    <3>1. queued # 0 => queued \in Desk!Lines /\ pc[queued] = "queued"
      BY BoundsAre DEF LinesInv, LineTypes, Placed, Desk!Lines
    <3> QED BY <1>2, <3>1
  <2>3. Desk!Here => \A i \in 1 .. Len(queue) : pc'[queue[i]] \in {"wait", "done"}
    BY <1>1, <1>2 DEF LinesInv, Placed
  <2> QED BY <2>1, <2>2, <2>3 DEF LinesInv, Placed, Desk!Here
<1>5. \A k \in Desk!Lines : pc'[k] = "sending" <=> pc[k] = "sending"
  BY <1>2
<1>6. OwnTurn'
  BY <1>2, <1>5 DEF LinesInv, OwnTurn, Alone, First
<1> QED BY <1>3, <1>4, <1>6 DEF LinesInv

(* A line ends, and the one that was queued is submitted.                    *)
LEMMA EndedKeeps ==
  ASSUME LinesInv, NEW l \in Desk!Lines, pc[l] \in {"local", "ensure", "wait"}, Desk!Ended(l),
         NEW w \in {"none", waiter[l]}, waiter' = [waiter EXCEPT ![l] = w],
         UNCHANGED <<typed, over, turn, queue, others, drops, ended, crossed, connected>>
  PROVE  LinesInv'
<1>1. CASE pc' = [pc EXCEPT ![l] = "done"] /\ queued' = queued
  BY <1>1, GoesOnKeeps
<1>2. CASE queued # 0 /\ pc' = [pc EXCEPT ![l] = "done", ![queued] = "again"] /\ queued' = 0
  <2>1. queue \in Seq(Desk!Lines) /\ \A i \in 1 .. Len(queue) : queue[i] \in Desk!Lines
    BY DEF LinesInv, LineTypes
  <2>2. queued \in Desk!Lines /\ pc[queued] = "queued" /\ queued # l
    BY <1>2, BoundsAre DEF LinesInv, LineTypes, Placed, Desk!Lines
  <2>3. /\ pc' \in [Desk!Lines -> Pcs] /\ waiter' \in [Desk!Lines -> Waits]
        /\ \A k \in Desk!Lines :
             /\ pc'[k] = IF k = queued THEN "again" ELSE IF k = l THEN "done" ELSE pc[k]
             /\ waiter'[k] = IF k = l THEN w ELSE waiter[k]
    BY <1>2, <2>2 DEF LinesInv, LineTypes, Pcs, Waits
  <2>4. LineTypes'
    BY <1>2, <2>3, BoundsAre DEF LinesInv, LineTypes
  <2>5. Placed'
    BY <1>2, <2>1, <2>2, <2>3 DEF LinesInv, Placed, Desk!Here
  <2>6. \A k \in Desk!Lines : pc'[k] = "sending" <=> pc[k] = "sending"
    BY <2>2, <2>3
  <2>7. OwnTurn'
    BY <2>3, <2>6 DEF LinesInv, OwnTurn, Alone, First
  <2> QED BY <2>4, <2>5, <2>7 DEF LinesInv
<1> QED BY <1>1, <1>2 DEF Desk!Ended

(* A line is sent: those that are on their way with it cross.                *)
LEMMA SendsKeeps ==
  ASSUME LinesInv, NEW l \in Desk!Lines, Desk!Here, pc[l] = "ensure", connected,
         pc' = [pc EXCEPT ![l] = "sending"], waiter' = [waiter EXCEPT ![l] = "armed"],
         crossed' = crossed \cup Desk!Crossing(l),
         UNCHANGED <<queued, typed, over, turn, queue, others, drops, ended, connected>>
  PROVE  LinesInv'
<1>1. queue \in Seq(Desk!Lines) /\ \A i \in 1 .. Len(queue) : queue[i] \in Desk!Lines
  BY DEF LinesInv, LineTypes
<1>2. /\ pc' \in [Desk!Lines -> Pcs] /\ waiter' \in [Desk!Lines -> Waits]
      /\ \A k \in Desk!Lines : pc'[k] = (IF k = l THEN "sending" ELSE pc[k])
                               /\ waiter'[k] = IF k = l THEN "armed" ELSE waiter[k]
  BY DEF LinesInv, LineTypes, Pcs, Waits
<1>3. LineTypes'
  BY <1>2 DEF LinesInv, LineTypes
<1>4. Placed'
  <2>1. queued # 0 => pc'[queued] = "queued"
    <3>1. queued # 0 => queued \in Desk!Lines /\ pc[queued] = "queued"
      BY BoundsAre DEF LinesInv, LineTypes, Placed, Desk!Lines
    <3> QED BY <1>2, <3>1
  <2> QED BY <1>1, <1>2, <2>1 DEF LinesInv, Placed, Desk!Here
<1>5. \A k \in Desk!Lines : pc[k] = "sending" \/ k = l => k \in crossed' \/ (k = l /\ queue = <<>>)
  BY DEF Desk!Crossing
<1>6. ASSUME others = 0, NEW k \in Desk!Lines \ crossed'
      PROVE  /\ waiter'[k] = "armed" => Alone(k)' \/ First(k)'
             /\ waiter'[k] = "saw" => turn = k
             /\ waiter'[k] = "resolved" => k \in ended
  <2>1. k \in Desk!Lines \ crossed
    BY <1>6
  <2>2. CASE k = l
    <3>1. queue = <<>> /\ \A j \in Desk!Lines : pc[j] # "sending"
      <4>1. Desk!Crossing(l) = {}
        BY <1>6, <2>2 DEF Desk!Crossing
      <4> QED BY <4>1, <1>6, <2>2 DEF Desk!Crossing
    <3> QED BY <1>2, <2>2, <3>1 DEF Alone
  <2>3. CASE k # l
    <3>1. waiter'[k] = waiter[k] /\ pc[k] # "sending"
      BY <1>2, <1>5, <1>6, <2>3
    <3> QED BY <1>6, <2>1, <3>1 DEF LinesInv, OwnTurn, Alone, First
  <2> QED BY <2>2, <2>3
<1>7. OwnTurn'
  BY <1>2, <1>6 DEF OwnTurn
<1> QED BY <1>3, <1>4, <1>7 DEF LinesInv

(* The waits of the lines when a turn begins.                              *)
LEMMA BeginsWaits ==
  ASSUME LinesInv, NEW t, Desk!Begins(t)
  PROVE  /\ turn' = t /\ waiter' \in [Desk!Lines -> Waits]
         /\ \A k \in Desk!Lines : waiter'[k] = IF waiter[k] = "armed" THEN "saw" ELSE waiter[k]
<1>1. turn' = t
  BY DEF Desk!Begins
<1>2. CASE connected /\ waiter' = [l \in Desk!Lines |-> Desk!SawRunning(waiter[l])]
  BY <1>1, <1>2 DEF LinesInv, LineTypes, Waits, Desk!SawRunning
<1>3. CASE ~connected /\ waiter' = waiter
  <2>1. \A k \in Desk!Lines : waiter[k] # "armed"
    BY <1>3 DEF LinesInv, OwnTurn
  <2> QED BY <1>1, <1>3, <2>1 DEF LinesInv, LineTypes
<1> QED BY <1>2, <1>3 DEF Desk!Begins

(* The daemon accepts a line: its turn begins, or it is the last of the queue.*)
LEMMA AcceptsKeeps ==
  ASSUME LinesInv, NEW l \in Desk!Lines, Desk!Here, pc[l] = "sending",
         pc' = [pc EXCEPT ![l] = "wait"],
         \/ turn = 0 /\ queue = <<>> /\ Desk!Begins(l) /\ queue' = queue
         \/ queue' = Append(queue, l) /\ UNCHANGED <<turn, waiter>>,
         UNCHANGED <<queued, typed, over, others, drops, ended, crossed, connected>>
  PROVE  LinesInv'
<1>1. /\ queue \in Seq(Desk!Lines) /\ \A i \in 1 .. Len(queue) : queue[i] \in Desk!Lines
      /\ Len(queue) \in Nat
  BY DEF LinesInv, LineTypes
<1>2. /\ pc' \in [Desk!Lines -> Pcs]
      /\ \A k \in Desk!Lines : pc'[k] = IF k = l THEN "wait" ELSE pc[k]
  BY DEF LinesInv, LineTypes, Pcs
<1>3. \A i \in 1 .. Len(queue) : queue[i] # l /\ pc[queue[i]] \in {"wait", "done"}
  BY DEF LinesInv, Placed
<1>4. /\ \A k \in Desk!Lines : k > typed => pc'[k] = "no"
      /\ queued # 0 => pc'[queued] = "queued"
  <2>1. queued # 0 => queued \in Desk!Lines /\ pc[queued] = "queued"
    BY BoundsAre DEF LinesInv, LineTypes, Placed, Desk!Lines
  <2> QED BY <1>2, <2>1 DEF LinesInv, Placed
<1>5. CASE turn = 0 /\ queue = <<>> /\ Desk!Begins(l) /\ queue' = queue
  <2>1. /\ turn' = l /\ waiter' \in [Desk!Lines -> Waits]
        /\ \A k \in Desk!Lines : waiter'[k] = IF waiter[k] = "armed" THEN "saw" ELSE waiter[k]
    BY <1>5, BeginsWaits
  <2>2. l \in 0 .. Desk!Other
    BY BoundsAre DEF Desk!Lines, Desk!Other
  <2>3. LineTypes'
    BY <1>2, <1>5, <2>1, <2>2 DEF LinesInv, LineTypes
  <2>4. Placed'
    BY <1>1, <1>2, <1>4, <1>5 DEF LinesInv, Placed, Desk!Here
  <2>5. ASSUME others = 0, NEW k \in Desk!Lines \ crossed
        PROVE  /\ waiter'[k] # "armed"
               /\ waiter'[k] = "saw" => l = k
               /\ waiter'[k] = "resolved" => k \in ended
    <3>1. CASE waiter[k] = "armed"
      BY <1>5, <2>1, <2>5, <3>1 DEF LinesInv, OwnTurn, Alone, First
    <3>2. CASE waiter[k] # "armed"
      BY <1>5, <2>1, <2>5, <3>2, BoundsAre DEF LinesInv, OwnTurn
    <3> QED BY <3>1, <3>2
  <2>6. OwnTurn'
    BY <2>1, <2>5 DEF LinesInv, OwnTurn
  <2> QED BY <2>3, <2>4, <2>6 DEF LinesInv
<1>6. CASE queue' = Append(queue, l) /\ UNCHANGED <<turn, waiter>>
  <2>1. /\ queue' \in Seq(Desk!Lines) /\ Len(queue') = Len(queue) + 1
        /\ \A i \in 1 .. Len(queue) : queue'[i] = queue[i]
        /\ queue'[Len(queue) + 1] = l
    BY <1>1, <1>6, AppendProperties
  <2>2. LineTypes'
    BY <1>2, <1>6, <2>1 DEF LinesInv, LineTypes
  <2>3. \A i \in 1 .. Len(queue') : i \in 1 .. Len(queue) \/ i = Len(queue) + 1
    BY <1>1, <2>1
  <2>4. \A i, j \in 1 .. Len(queue') : queue'[i] = queue'[j] => i = j
    BY <1>3, <2>1, <2>3 DEF LinesInv, Placed
  <2>5. \A i \in 1 .. Len(queue') : pc'[queue'[i]] \in {"wait", "done"}
    BY <1>1, <1>2, <1>3, <2>1, <2>3
  <2>6. Placed'
    BY <1>4, <2>4, <2>5 DEF Placed, Desk!Here
  <2>7. ASSUME others = 0, NEW k \in Desk!Lines \ crossed, waiter[k] = "armed" PROVE First(k)'
    <3>1. CASE Alone(k)
      <4>1. k = l /\ queue = <<>>
        BY <3>1 DEF Alone
      <4>2. queue' # <<>> /\ Head(queue') = l
        BY <1>1, <2>1, <4>1
      <4> QED BY <4>1, <4>2 DEF First
    <3>2. CASE First(k)
      <4>1. queue' # <<>> /\ Head(queue') = Head(queue)
        BY <1>1, <2>1, <3>2 DEF First
      <4> QED BY <3>2, <4>1 DEF First
    <3> QED BY <2>7, <3>1, <3>2 DEF LinesInv, OwnTurn
  <2>8. OwnTurn'
    BY <1>6, <2>7 DEF LinesInv, OwnTurn
  <2> QED BY <2>2, <2>6, <2>8 DEF LinesInv
<1> QED BY <1>5, <1>6

(* The turn of the next line in the queue.                                  *)
LEMMA NextQueuedKeeps ==
  ASSUME LinesInv, turn = 0, queue # <<>>, Desk!Begins(Head(queue)), queue' = Tail(queue),
         UNCHANGED <<pc, queued, typed, over, others, drops, ended, crossed, connected>>
  PROVE  LinesInv'
<1>1. /\ queue \in Seq(Desk!Lines) /\ Len(queue) \in Nat
      /\ Head(queue) \in Desk!Lines /\ Head(queue) = queue[1]
      /\ Tail(queue) \in Seq(Desk!Lines)
      /\ \A i \in 1 .. Len(Tail(queue)) :
            i + 1 \in 1 .. Len(queue) /\ Tail(queue)[i] = queue[i + 1]
  BY DEF LinesInv, LineTypes
<1>2. /\ turn' = Head(queue) /\ waiter' \in [Desk!Lines -> Waits]
      /\ \A k \in Desk!Lines : waiter'[k] = IF waiter[k] = "armed" THEN "saw" ELSE waiter[k]
  BY <1>1, BeginsWaits
<1>3. Head(queue) \in 0 .. Desk!Other
  BY <1>1, BoundsAre DEF Desk!Lines, Desk!Other
<1>4. LineTypes'
  BY <1>1, <1>2, <1>3 DEF LinesInv, LineTypes
<1>5. Placed'
  <2>1. ASSUME NEW i \in 1 .. Len(queue'), NEW j \in 1 .. Len(queue'), queue'[i] = queue'[j]
        PROVE  i = j
    <3>1. /\ i + 1 \in 1 .. Len(queue) /\ queue'[i] = queue[i + 1]
          /\ j + 1 \in 1 .. Len(queue) /\ queue'[j] = queue[j + 1]
      BY <1>1
    <3>2. i + 1 = j + 1
      BY <2>1, <3>1 DEF LinesInv, Placed
    <3>3. i \in Int /\ j \in Int
      OBVIOUS
    <3> QED BY <3>2, <3>3
  <2>2. Desk!Here => \A i \in 1 .. Len(queue') : pc[queue'[i]] \in {"wait", "done"}
    BY <1>1 DEF LinesInv, Placed
  <2> QED BY <2>1, <2>2 DEF LinesInv, Placed, Desk!Here
<1>6. OwnTurn'
  <2>1. ASSUME others = 0, NEW k \in Desk!Lines \ crossed
        PROVE  /\ waiter'[k] # "armed"
               /\ waiter'[k] = "saw" => Head(queue) = k
               /\ waiter'[k] = "resolved" => k \in ended
    <3>1. CASE waiter[k] = "armed"
      BY <1>2, <2>1, <3>1 DEF LinesInv, OwnTurn, Alone, First
    <3>2. CASE waiter[k] # "armed"
      BY <1>2, <2>1, <3>2, BoundsAre DEF LinesInv, OwnTurn
    <3> QED BY <3>1, <3>2
  <2> QED BY <1>2, <2>1 DEF LinesInv, OwnTurn
<1> QED BY <1>4, <1>5, <1>6 DEF LinesInv

(* The turn of another client or task.                                     *)
LEMMA OtherBeginsKeeps ==
  ASSUME LinesInv, Desk!Begins(Desk!Other), others' = others + 1,
         UNCHANGED <<pc, queue, queued, typed, over, drops, ended, crossed, connected>>
  PROVE  LinesInv'
<1>1. /\ turn' = Desk!Other /\ waiter' \in [Desk!Lines -> Waits]
      /\ \A k \in Desk!Lines : waiter'[k] = IF waiter[k] = "armed" THEN "saw" ELSE waiter[k]
  BY BeginsWaits
<1>2. Desk!Other \in 0 .. Desk!Other /\ others' \in Nat /\ others' # 0
  BY BoundsAre DEF LinesInv, LineTypes, Desk!Other
<1>3. LineTypes'
  BY <1>1, <1>2 DEF LinesInv, LineTypes
<1>4. Placed'
  BY DEF LinesInv, Placed, Desk!Here
<1>5. OwnTurn'
  BY <1>1, <1>2 DEF LinesInv, OwnTurn
<1> QED BY <1>3, <1>4, <1>5 DEF LinesInv

(* A turn ends.                                                            *)
LEMMA TurnEndsKeeps == ASSUME LinesInv, Desk!TurnEnds PROVE LinesInv'
<1>1. /\ turn # 0 /\ turn' = 0 /\ ended' = ended \cup ({turn} \ {Desk!Other})
      /\ UNCHANGED <<pc, queue, queued, typed, over, others, drops, crossed, connected>>
  BY DEF Desk!TurnEnds
<1>2. /\ waiter' \in [Desk!Lines -> Waits]
      /\ \A k \in Desk!Lines : waiter'[k] = IF waiter[k] = "saw" THEN "resolved" ELSE waiter[k]
  <2>1. CASE connected /\ waiter' = [l \in Desk!Lines |-> Desk!SawIdle(waiter[l])]
    BY <2>1 DEF LinesInv, LineTypes, Waits, Desk!SawIdle
  <2>2. CASE ~connected /\ waiter' = waiter
    <3>1. \A k \in Desk!Lines : waiter[k] # "saw"
      BY <2>2 DEF LinesInv, OwnTurn
    <3> QED BY <2>2, <3>1 DEF LinesInv, LineTypes
  <2> QED BY <2>1, <2>2 DEF Desk!TurnEnds, Desk!Seen
<1>3. LineTypes'
  BY <1>1, <1>2, BoundsAre DEF LinesInv, LineTypes, Desk!Other
<1>4. Placed'
  BY <1>1 DEF LinesInv, Placed, Desk!Here
<1>5. OwnTurn'
  BY <1>1, <1>2, BoundsAre DEF LinesInv, OwnTurn, Alone, First
<1> QED BY <1>3, <1>4, <1>5 DEF LinesInv

(* A wait ends by its timer.                                               *)
LEMMA TimesOutKeeps ==
  ASSUME LinesInv, NEW l \in Desk!Lines, waiter' = [waiter EXCEPT ![l] = "rejected"],
         UNCHANGED <<pc, turn, queue, queued, typed, over, others, drops, ended, crossed, connected>>
  PROVE  LinesInv'
<1>1. /\ waiter' \in [Desk!Lines -> Waits]
      /\ \A k \in Desk!Lines : waiter'[k] = IF k = l THEN "rejected" ELSE waiter[k]
  BY DEF LinesInv, LineTypes, Waits
<1>2. LineTypes' /\ Placed'
  BY <1>1 DEF LinesInv, LineTypes, Placed, Desk!Here
<1>3. OwnTurn'
  BY <1>1 DEF LinesInv, OwnTurn, Alone, First
<1> QED BY <1>2, <1>3 DEF LinesInv

(* The connection is lost.                                                 *)
LEMMA DropsKeeps == ASSUME LinesInv, Desk!Drops PROVE LinesInv'
<1>1. /\ Desk!Here /\ drops' = drops + 1 /\ over' \in {"crashed", over}
      /\ waiter' = [l \in Desk!Lines |-> IF waiter[l] \in {"armed", "saw"} THEN "rejected" ELSE waiter[l]]
      /\ pc' = [l \in Desk!Lines |-> IF pc[l] = "local" THEN "hung" ELSE pc[l]]
      /\ UNCHANGED <<turn, queue, queued, typed, others, ended, crossed>>
  BY DEF Desk!Drops, Desk!daemon
<1>2. /\ waiter' \in [Desk!Lines -> Waits]
      /\ \A k \in Desk!Lines : waiter'[k] \notin {"armed", "saw"} /\ waiter'[k] \in {waiter[k], "rejected"}
  BY <1>1 DEF LinesInv, LineTypes, Waits
<1>3. /\ pc' \in [Desk!Lines -> Pcs]
      /\ \A k \in Desk!Lines : pc'[k] = IF pc[k] = "local" THEN "hung" ELSE pc[k]
  BY <1>1 DEF LinesInv, LineTypes, Pcs
<1>4. LineTypes'
  BY <1>1, <1>2, <1>3 DEF LinesInv, LineTypes
<1>5. Placed'
  <2>1. queued # 0 => pc'[queued] = "queued"
    <3>1. queued # 0 => queued \in Desk!Lines /\ pc[queued] = "queued"
      BY BoundsAre DEF LinesInv, LineTypes, Placed, Desk!Lines
    <3> QED BY <1>3, <3>1
  <2>2. \A i \in 1 .. Len(queue) : queue[i] \in Desk!Lines
    BY DEF LinesInv, LineTypes
  <2> QED BY <1>1, <1>3, <2>1, <2>2 DEF LinesInv, Placed, Desk!Here
<1>6. OwnTurn'
  BY <1>1, <1>2 DEF LinesInv, OwnTurn
<1> QED BY <1>4, <1>5, <1>6 DEF LinesInv

(* The command line ends.                                                  *)
LEMMA LeavesKeeps == ASSUME LinesInv, Desk!Leaves PROVE LinesInv'
<1>1. /\ over' = "left" /\ queued' = 0
      /\ pc' = [l \in Desk!Lines |-> "no"] /\ waiter' = [l \in Desk!Lines |-> "none"]
      /\ UNCHANGED <<turn, queue, typed, others, drops, ended, crossed>>
  BY DEF Desk!Leaves, Desk!Cleanup, Desk!daemon, Desk!counts
<1>2. LineTypes'
  BY <1>1, BoundsAre DEF LinesInv, LineTypes, Pcs, Waits
<1>3. Placed' /\ OwnTurn'
  BY <1>1 DEF LinesInv, Placed, OwnTurn, Desk!Here
<1> QED BY <1>2, <1>3 DEF LinesInv

(* Every step.                                                             *)
LEMMA NextLines == ASSUME LinesInv, Desk!Next PROVE LinesInv'
<1> USE DEF Desk!Line, Desk!daemon, Desk!counts
<1>1. CASE Desk!Enter
  <2>1. \E s \in {"local", "ensure"} : pc' = [pc EXCEPT ![typed + 1] = s]
    BY <1>1 DEF Desk!Enter, Desk!Submitted
  <2>2. /\ typed' = typed + 1 /\ typed + others < MaxLines /\ queued' = queued
        /\ UNCHANGED <<waiter, over, turn, queue, others, drops, ended, crossed, connected>>
    BY <1>1 DEF Desk!Enter, Desk!RoomForATurn
  <2> QED BY <2>1, <2>2, EntersKeeps
<1>2. CASE Desk!EnterBusy
  <2>1. /\ typed' = typed + 1 /\ typed + others < MaxLines /\ queued' = typed + 1
        /\ pc' = [pc EXCEPT ![typed + 1] = "queued"]
        /\ UNCHANGED <<waiter, over, turn, queue, others, drops, ended, crossed, connected>>
    BY <1>2 DEF Desk!EnterBusy, Desk!RoomForATurn
  <2> QED BY <2>1, EntersKeeps
<1>3. ASSUME NEW l \in Desk!Lines
      PROVE  waiter[l] = waiter[l] /\ waiter = [waiter EXCEPT ![l] = waiter[l]]
  BY DEF LinesInv, LineTypes
<1>4. ASSUME NEW l \in Desk!Lines, Desk!Again(l) PROVE LinesInv'
  <2>1. /\ pc[l] = "again" /\ \E s \in {"local", "ensure"} : pc' = [pc EXCEPT ![l] = s]
        /\ waiter' = waiter
        /\ UNCHANGED <<queued, typed, over, turn, queue, others, drops, ended, crossed, connected>>
    BY <1>4 DEF Desk!Again, Desk!Submitted
  <2> QED BY <1>3, <2>1, GoesOnKeeps
<1>5. ASSUME NEW l \in Desk!Lines, Desk!LocalEnds(l) PROVE LinesInv'
  <2>1. /\ pc[l] = "local" /\ Desk!Ended(l) /\ waiter' = waiter
        /\ UNCHANGED <<typed, over, turn, queue, others, drops, ended, crossed, connected>>
    BY <1>5 DEF Desk!LocalEnds
  <2> QED BY <1>3, <2>1, EndedKeeps
<1>6. ASSUME NEW l \in Desk!Lines, Desk!Sends(l) PROVE LinesInv'
  <2>1. /\ pc[l] = "ensure" /\ Desk!Here
        /\ UNCHANGED <<typed, over, turn, queue, others, drops, ended, connected>>
    BY <1>6 DEF Desk!Sends
  <2>2. CASE connected
    <3>1. /\ pc' = [pc EXCEPT ![l] = "sending"] /\ waiter' = [waiter EXCEPT ![l] = "armed"]
          /\ crossed' = crossed \cup Desk!Crossing(l) /\ queued' = queued
      BY <1>6, <2>2 DEF Desk!Sends, Desk!WaitForTurnCompletion
    <3> QED BY <2>1, <2>2, <3>1, SendsKeeps
  <2>3. CASE ~connected
    <3>1. Desk!Ended(l) /\ waiter' = waiter /\ crossed' = crossed
      BY <1>6, <2>3 DEF Desk!Sends
    <3> QED BY <1>3, <2>1, <3>1, EndedKeeps
  <2> QED BY <2>2, <2>3
<1>7. ASSUME NEW l \in Desk!Lines, Desk!Accepts(l) PROVE LinesInv'
  <2>1. /\ Desk!Here /\ pc[l] = "sending" /\ pc' = [pc EXCEPT ![l] = "wait"]
        /\ \/ turn = 0 /\ queue = <<>> /\ Desk!Begins(l) /\ queue' = queue
           \/ queue' = Append(queue, l) /\ UNCHANGED <<turn, waiter>>
        /\ UNCHANGED <<queued, typed, over, others, drops, ended, crossed, connected>>
    BY <1>7 DEF Desk!Accepts
  <2> QED BY <2>1, AcceptsKeeps
<1>8. ASSUME NEW l \in Desk!Lines, Desk!Resumes(l) PROVE LinesInv'
  <2>1. /\ pc[l] = "wait" /\ Desk!Ended(l) /\ waiter' = [waiter EXCEPT ![l] = "none"]
        /\ UNCHANGED <<typed, over, turn, queue, others, drops, ended, crossed, connected>>
    BY <1>8 DEF Desk!Resumes
  <2> QED BY <2>1, EndedKeeps
<1>9. ASSUME NEW l \in Desk!Lines, Desk!TimesOut(l) PROVE LinesInv'
  BY <1>9, TimesOutKeeps DEF Desk!TimesOut
<1>10. CASE Desk!NextQueued
  BY <1>10, NextQueuedKeeps DEF Desk!NextQueued
<1>11. CASE Desk!OtherBegins
  BY <1>11, OtherBeginsKeeps DEF Desk!OtherBegins
<1>12. CASE Desk!Reconnects
  <2>1. connected' /\ UNCHANGED <<pc, waiter, over, turn, queue, queued, typed, others, drops, ended, crossed>>
    BY <1>12, Zenon DEF Desk!Reconnects
  <2> QED BY <2>1 DEF LinesInv, LineTypes, Placed, OwnTurn, Alone, First, Desk!Here
<1>13. CASE Desk!Streams \/ Desk!ShowsMenu \/ Desk!Asks \/ Desk!Answers \/ Desk!AskEnds \/ Desk!Replies
            \/ Desk!OpensMenu \/ Desk!LeavesMenu \/ Desk!CancelsMenu
  <2>1. UNCHANGED lineVars
    BY <1>13 DEF Desk!Streams, Desk!ShowsMenu, Desk!Asks, Desk!Answers, Desk!AskEnds, Desk!Replies,
       Desk!OpensMenu, Desk!LeavesMenu, Desk!CancelsMenu, lineVars
  <2> QED BY <2>1, LinesStay
<1> QED BY <1>1, <1>2, <1>4, <1>5, <1>6, <1>7, <1>8, <1>9, <1>10, <1>11, <1>12, <1>13,
           TurnEndsKeeps, DropsKeeps, LeavesKeeps DEF Desk!Next, Desk!Works

(* What is shown stays of its type, and what streams ends with its turn       *)
(* unless the connection is lost.                                          *)
LEMMA ShownKeeps == ASSUME Shown, LineTypes, Desk!Next PROVE Shown'
<1> USE DEF Desk!Line, Desk!daemon, Desk!counts
<1> DEFINE B(x) == x \in BOOLEAN
           S == /\ B(connected') /\ B(busy') /\ B(streaming') /\ B(ephemeral') /\ B(replied')
                /\ (turn' = 0 /\ drops' = 0 => ~streaming')
                /\ (drops' = 0 /\ over' = "no" => connected')
<1>0. /\ B(connected) /\ B(busy) /\ B(streaming) /\ B(ephemeral) /\ B(replied)
      /\ (turn = 0 /\ drops = 0 => ~streaming)
      /\ (drops = 0 /\ over = "no" => connected)
  BY DEF Shown, Desk!NothingStreams, Desk!Here
<1>1. ASSUME Desk!Enter \/ Desk!EnterBusy PROVE S
  <2>1. busy' = TRUE \/ busy' = busy
    BY <1>1, Zenon DEF Desk!Enter, Desk!EnterBusy, Desk!Submitted
  <2>2. UNCHANGED <<connected, streaming, ephemeral, replied, turn, drops, over>>
    BY <1>1, Zenon DEF Desk!Enter, Desk!EnterBusy
  <2> QED BY <1>0, <2>1, <2>2, Zenon
<1>2. ASSUME NEW l \in Desk!Lines, Desk!Again(l) \/ Desk!LocalEnds(l) \/ Desk!Sends(l) \/ Desk!Resumes(l) \/ Desk!TimesOut(l)
      PROVE  S
  <2>1. busy' = TRUE \/ busy' = FALSE \/ busy' = busy
    BY <1>2, Zenon DEF Desk!Again, Desk!LocalEnds, Desk!Sends, Desk!Resumes, Desk!TimesOut, Desk!Submitted, Desk!Ended
  <2>2. UNCHANGED <<connected, streaming, ephemeral, replied, turn, drops, over>>
    BY <1>2, Zenon DEF Desk!Again, Desk!LocalEnds, Desk!Sends, Desk!Resumes, Desk!TimesOut
  <2> QED BY <1>0, <2>1, <2>2, Zenon
<1>3. ASSUME NEW t, t # 0, Desk!Begins(t), UNCHANGED <<connected, streaming, ephemeral, drops, over>>
      PROVE  S
  <2>1. (busy' = (busy \/ prompt = 0) \/ busy' = busy) /\ turn' = t /\ replied' = FALSE
    BY <1>3, Zenon DEF Desk!Begins
  <2>2. B(busy')
    BY <1>0, <2>1, Zenon
  <2> QED BY <1>0, <1>3, <2>1, <2>2, Zenon
<1>4. ASSUME NEW l \in Desk!Lines, Desk!Accepts(l) PROVE S
  <2>1. UNCHANGED <<connected, streaming, ephemeral, drops, over>>
    BY <1>4, Zenon DEF Desk!Accepts
  <2>2. CASE Desk!Begins(l)
    BY <1>3, <2>1, <2>2, BoundsAre
  <2>3. CASE UNCHANGED <<turn, replied, busy>>
    BY <1>0, <2>1, <2>3, Zenon
  <2> QED BY <1>4, <2>2, <2>3, Zenon DEF Desk!Accepts
<1>5. ASSUME Desk!NextQueued PROVE S
  <2>1. Head(queue) # 0
    BY <1>5, BoundsAre DEF Desk!NextQueued, LineTypes
  <2>2. Desk!Begins(Head(queue)) /\ UNCHANGED <<connected, streaming, ephemeral, drops, over>>
    BY <1>5, Zenon DEF Desk!NextQueued
  <2> QED BY <1>3, <2>1, <2>2
<1>6. ASSUME Desk!OtherBegins PROVE S
  <2>1. Desk!Other # 0
    BY BoundsAre DEF Desk!Other
  <2>2. Desk!Begins(Desk!Other) /\ UNCHANGED <<connected, streaming, ephemeral, drops, over>>
    BY <1>6, Zenon DEF Desk!OtherBegins
  <2> QED BY <1>3, <2>1, <2>2
<1>7. ASSUME Desk!Streams PROVE S
  <2>1. turn # 0 /\ streaming' = TRUE /\ busy' = TRUE /\ UNCHANGED <<turn, replied, connected, ephemeral, drops, over>>
    BY <1>7, Zenon DEF Desk!Streams
  <2> QED BY <1>0, <2>1, Zenon
<1>8. ASSUME Desk!ShowsMenu \/ Desk!OpensMenu \/ Desk!LeavesMenu \/ Desk!CancelsMenu PROVE S
  <2>1. /\ ephemeral' = TRUE \/ ephemeral' = FALSE \/ ephemeral' = ephemeral
        /\ UNCHANGED <<turn, replied, connected, busy, streaming, drops, over>>
    BY <1>8, Zenon DEF Desk!ShowsMenu, Desk!OpensMenu, Desk!LeavesMenu, Desk!CancelsMenu, Desk!MasterInput, Desk!MenuInput
  <2> QED BY <1>0, <2>1, Zenon
<1>9. ASSUME Desk!Asks \/ Desk!Answers \/ Desk!AskEnds PROVE S
  <2>1. /\ busy' = TRUE \/ busy' = busy
        /\ UNCHANGED <<turn, replied, connected, streaming, ephemeral, drops, over>>
    BY <1>9, Zenon DEF Desk!Asks, Desk!Answers, Desk!AskEnds
  <2> QED BY <1>0, <2>1, Zenon
<1>10. ASSUME Desk!Replies PROVE S
  <2>1. replied' = TRUE /\ UNCHANGED <<turn, connected, drops, over>>
    BY <1>10, Zenon DEF Desk!Replies
  <2>2. \/ busy' = FALSE /\ streaming' = FALSE /\ ephemeral' = FALSE
        \/ busy' = busy /\ streaming' = streaming /\ ephemeral' = ephemeral
    BY <1>10, Zenon DEF Desk!Replies
  <2>3. B(busy') /\ B(streaming') /\ B(ephemeral') /\ B(replied')
    BY <1>0, <2>1, <2>2, Zenon
  <2>4. turn' = 0 /\ drops' = 0 => ~streaming'
    BY <1>0, <2>1, <2>2, Zenon
  <2> QED BY <1>0, <2>1, <2>3, <2>4, Zenon
<1>11. ASSUME Desk!Here /\ Desk!TurnEnds PROVE S
  <2>1. replied' = FALSE /\ UNCHANGED <<connected, ephemeral, drops, over>>
    BY <1>11, Zenon DEF Desk!TurnEnds
  <2>2. \/ busy' = FALSE /\ streaming' = FALSE
        \/ ~connected /\ busy' = busy /\ streaming' = streaming
    BY <1>11, Zenon DEF Desk!TurnEnds, Desk!IdleFrees, Desk!Seen
  <2>3. over = "no"
    BY <1>11 DEF Desk!Here
  <2> QED BY <1>0, <2>1, <2>2, <2>3, Zenon
<1>12. ASSUME Desk!Drops PROVE S
  <2>1. /\ connected' = FALSE /\ drops' = drops + 1 
        /\ UNCHANGED <<busy, streaming, ephemeral, replied>>
    BY <1>12, Zenon DEF Desk!Drops
  <2>2. drops' # 0
    BY <2>1 DEF LineTypes
  <2> QED BY <1>0, <2>1, <2>2, Zenon
<1>13. ASSUME Desk!Reconnects PROVE S
  <2>1. connected' = TRUE /\ UNCHANGED <<busy, streaming, ephemeral, replied, turn, drops, over>>
    BY <1>13, Zenon DEF Desk!Reconnects
  <2> QED BY <1>0, <2>1, Zenon
<1>14. ASSUME Desk!Leaves PROVE S
  <2>1. /\ over' = "left" /\ connected' = FALSE /\ busy' = FALSE /\ streaming' = FALSE /\ ephemeral' = FALSE
        /\ replied' = replied
    BY <1>14, Zenon DEF Desk!Leaves, Desk!Cleanup
  <2>2. over' # "no"
    BY <2>1
  <2> QED BY <1>0, <2>1, <2>2, Zenon
<1>15. S
  BY <1>1, <1>2, <1>4, <1>5, <1>6, <1>7, <1>8, <1>9, <1>10, <1>11, <1>12, <1>13, <1>14, Zenon DEF Desk!Next, Desk!Works
<1> QED BY <1>15, Zenon DEF Shown, Desk!NothingStreams, Desk!Here

(* The kinds of the lines, the menus and the requests stay of their types.    *)
LEMMA CountedKeeps == ASSUME Counted, LineTypes, Desk!Next PROVE Counted'
<1> USE DEF Desk!Line, Desk!daemon, Desk!counts
<1>1. kind' \in [Desk!Lines -> Desk!Kinds]
  <2>1. "text" \in Desk!Kinds /\ kind \in [Desk!Lines -> Desk!Kinds]
    BY DEF Desk!Kinds, Counted
  <2>2. ASSUME NEW l, Desk!Ended(l) PROVE kind' \in [Desk!Lines -> Desk!Kinds]
    BY <2>1, <2>2 DEF Desk!Ended
  <2>3. CASE Desk!Enter \/ Desk!EnterBusy
    BY <2>1, <2>3 DEF Desk!Enter, Desk!EnterBusy
  <2>4. ASSUME NEW l \in Desk!Lines, Desk!Works(l) \/ Desk!TimesOut(l) PROVE kind' \in [Desk!Lines -> Desk!Kinds]
    BY <2>1, <2>2, <2>4 DEF Desk!Works, Desk!TimesOut, Desk!Again, Desk!LocalEnds, Desk!Sends, Desk!Accepts, Desk!Resumes
  <2>5. CASE Desk!Leaves
    BY <2>1, <2>5 DEF Desk!Leaves, Desk!Cleanup
  <2>6. CASE Desk!NextQueued \/ Desk!OtherBegins \/ Desk!Streams \/ Desk!ShowsMenu \/ Desk!Asks \/ Desk!Answers
             \/ Desk!AskEnds \/ Desk!Replies \/ Desk!TurnEnds \/ Desk!OpensMenu \/ Desk!LeavesMenu
             \/ Desk!CancelsMenu \/ Desk!Drops \/ Desk!Reconnects
    BY <2>1, <2>6 DEF Desk!NextQueued, Desk!OtherBegins, Desk!Streams, Desk!ShowsMenu, Desk!Asks, Desk!Answers,
       Desk!AskEnds, Desk!Replies, Desk!TurnEnds, Desk!OpensMenu, Desk!LeavesMenu, Desk!CancelsMenu,
       Desk!Drops, Desk!Reconnects
  <2> QED BY <2>3, <2>4, <2>5, <2>6 DEF Desk!Next
<1>2. menus' \subseteq SubMenus \cup {"master"}
  <2>1. \/ menus' \subseteq menus \cup {"master"}
        \/ \E m \in SubMenus \cup {"master"} : menus' = {m}
    BY DEF Desk!Next, Desk!Works, Desk!TimesOut, Desk!Again, Desk!LocalEnds, Desk!Sends, Desk!Accepts, Desk!Resumes,
       Desk!Enter, Desk!EnterBusy, Desk!Leaves, Desk!Cleanup,
       Desk!NextQueued, Desk!OtherBegins, Desk!Streams, Desk!ShowsMenu, Desk!Asks, Desk!Answers,
       Desk!AskEnds, Desk!Replies, Desk!TurnEnds, Desk!OpensMenu, Desk!LeavesMenu, Desk!CancelsMenu,
       Desk!Drops, Desk!Reconnects, Desk!MasterInput, Desk!MenuInput
  <2> QED BY <2>1 DEF Counted
<1>3. asked' \in 0 .. MaxPrompts /\ prompt' \in 0 .. MaxPrompts /\ pending' \subseteq 1 .. MaxPrompts
  <2>1. CASE Desk!Asks
    <3>1. asked < MaxPrompts /\ asked' = asked + 1 /\ pending' = pending \cup {asked + 1}
          /\ prompt' \in {prompt, asked + 1}
      BY <2>1 DEF Desk!Asks
    <3>2. asked + 1 \in 1 .. MaxPrompts
      BY <3>1, BoundsAre DEF Counted
    <3> QED BY <3>1, <3>2, BoundsAre DEF Counted
  <2>2. CASE ~Desk!Asks
    <3>1. asked' = asked /\ prompt' \in {prompt, 0} /\ pending' \subseteq pending
      BY <2>2 DEF Desk!Next, Desk!Works, Desk!TimesOut, Desk!Again, Desk!LocalEnds, Desk!Sends, Desk!Accepts, Desk!Resumes,
       Desk!Enter, Desk!EnterBusy, Desk!Leaves, Desk!Cleanup,
       Desk!NextQueued, Desk!OtherBegins, Desk!Streams, Desk!ShowsMenu, Desk!Answers,
       Desk!AskEnds, Desk!Replies, Desk!TurnEnds, Desk!OpensMenu, Desk!LeavesMenu, Desk!CancelsMenu,
       Desk!Drops, Desk!Reconnects
    <3> QED BY <3>1, BoundsAre DEF Counted
  <2> QED BY <2>1, <2>2
<1> QED BY <1>1, <1>2, <1>3 DEF Counted

(* Every step of the command line and of the daemon at its session.          *)
LEMMA NextDesk == ASSUME DeskInv, Desk!Next PROVE DeskInv'
<1>1. Shown /\ Counted /\ LinesInv /\ LineTypes
  BY DEF DeskInv, LinesInv
<1>2. Shown' /\ Counted' /\ LinesInv'
  BY <1>1, ShownKeeps, CountedKeeps, NextLines
<1> QED BY <1>2 DEF DeskInv

(* A command line that nobody touches.                                      *)
LEMMA DeskStays == ASSUME DeskInv, UNCHANGED deskVars PROVE DeskInv'
<1>1. LinesInv'
  BY LinesStay DEF DeskInv, deskVars, lineVars
<1>2. Shown' /\ Counted'
  BY DEF DeskInv, Shown, Counted, deskVars, Desk!NothingStreams, Desk!Here
<1> QED BY <1>1, <1>2 DEF DeskInv

(* A step is one of the command line or leaves it as it is.                  *)
LEMMA DeskSteps == [Next]_vars => Desk!Next \/ UNCHANGED deskVars
<1> SUFFICES ASSUME [Next]_vars PROVE Desk!Next \/ UNCHANGED deskVars
  OBVIOUS
<1>1. CASE UNCHANGED vars
  BY <1>1, Zenon DEF vars
<1>2. CASE Only("desk") /\ Desk!Next
  BY <1>2
<1>3. CASE \E p \in {"model", "channels"} : Only(p)
  BY <1>3 DEF Only
<1> QED BY <1>1, <1>2, <1>3, Zenon DEF Next

(* Every line has its place, a wait that crossed no other ends with its own   *)
(* turn, and what streams ends with its turn.                              *)
THEOREM DeskHolds == Spec => []DeskInv
<1>1. Init => DeskInv
  BY InitDesk DEF Init
<1>2. DeskInv /\ [Next]_vars => DeskInv'
  BY DeskSteps, DeskStays, NextDesk
<1> QED BY <1>1, <1>2, PTL DEF Spec

(* A sequence of lines that has each of them at most once is no longer than   *)
(* they are many.                                                          *)
LEMMA NoLonger ==
  ASSUME NEW n \in Nat, NEW q \in Seq(1 .. n), \A i, j \in 1 .. Len(q) : q[i] = q[j] => i = j
  PROVE  Len(q) <= n
<1>1. q \in [1 .. Len(q) -> 1 .. n] /\ Len(q) \in Nat
  OBVIOUS
<1>2. q \in Injection(1 .. Len(q), 1 .. n)
  BY <1>1 DEF Injection, IsInjective
<1>3. q \in Injection(1 .. Len(q), 1 .. n) /\ n \in Int /\ Len(q) \in Int /\ 1 \in Int
  BY <1>1, <1>2
<1> DEFINE k == Len(q)
<1> HIDE DEF k
<1>4. /\ IsFiniteSet(1 .. n) /\ Cardinality(1 .. n) = n
      /\ IsFiniteSet(1 .. k) /\ Cardinality(1 .. k) = k
  <2>1. k \in Nat
    BY <1>1 DEF k
  <2>2. IsFiniteSet(1 .. n) /\ Cardinality(1 .. n) = (IF 1 > n THEN 0 ELSE n - 1 + 1)
    BY <1>3, FS_Interval
  <2>3. IsFiniteSet(1 .. k) /\ Cardinality(1 .. k) = (IF 1 > k THEN 0 ELSE k - 1 + 1)
    BY <1>3, FS_Interval DEF k
  <2> QED BY <2>1, <2>2, <2>3
<1>5. Cardinality(1 .. k) <= Cardinality(1 .. n)
  BY <1>3, <1>4, FS_Injection DEF k
<1> QED BY <1>4, <1>5 DEF k

(* The invariant holds what the run checks of the command line.             *)
LEMMA DeskMeans == DeskInv => Desk!TypeOK /\ Desk!WaitsForOwn /\ Desk!NothingStreams
<1> SUFFICES ASSUME DeskInv PROVE Desk!TypeOK /\ Desk!WaitsForOwn
  BY DEF DeskInv, Shown
<1>1. Len(queue) <= MaxLines
  BY BoundsAre, NoLonger DEF DeskInv, LinesInv, LineTypes, Placed, Desk!Lines
<1>2. /\ \A l \in Desk!Lines : kind[l] \in Desk!Kinds
      /\ \A l \in Desk!Lines : pc[l] \in Pcs /\ waiter[l] \in Waits
  BY DEF DeskInv, Counted, LinesInv, LineTypes
<1>3. Desk!TypeOK
  BY <1>1, <1>2, Zenon DEF DeskInv, Shown, Counted, LinesInv, LineTypes, Pcs, Waits, Desk!TypeOK
<1>4. Desk!WaitsForOwn
  BY DEF DeskInv, LinesInv, OwnTurn, Desk!WaitsForOwn
<1> QED BY <1>3, <1>4

-----------------------------------------------------------------------------
(* The settings of channels and voices.                                    *)

Conf == [on : BOOLEAN, token : {"t1", "t2"}, chats : {"all", "some"}, speech : {"mp3", "opus"},
         voices : SUBSET Aliases, default : Aliases \cup {Channels!None}]
Telegrams == [on : BOOLEAN, token : {"t1", "t2"}, chats : {"all", "some"}]
Call == [kind : Channels!Kinds \cup {Channels!None},
         at : {"token", "clone", "sync", "delete", Channels!None},
         alias : Aliases \cup {Channels!None}, new : Aliases \cup {Channels!None}, default : BOOLEAN,
         held : Conf \cup {Channels!None},
         answer : {"ok", "refused", "duplicate", "lost", Channels!None}, listed : SUBSET Aliases]

(* The default voice is one of the voices.                                  *)
Kept(x) == x.default # Channels!None => x.default \in x.voices

(* An operation: the settings it read, the voice it is about, and where it is. *)
Sound(o) ==
  /\ o.kind = Channels!None => o.at = Channels!None
  /\ o.kind # Channels!None => o.held \in Conf /\ Kept(o.held)
  /\ o.at = "clone" \/ o.kind = "rename" => o.new \in Aliases
  /\ o.at = "delete" => o.alias \in Aliases
  /\ o.at = "clone" => o.answer # "lost"

ConfInv == conf \in Conf /\ Kept(conf) /\ poller \in Telegrams
VoicesInv == used \subseteq remote /\ remote \subseteq Aliases /\ doubted \subseteq Aliases
CallsInv == channelsOp \in [Calls -> Call] /\ \A c \in Calls : Sound(channelsOp[c])

(* As long as nothing overlapped, one operation is on its way: what it read is *)
(* what there is, unless it wrote itself, and what it was told still holds.   *)
Overlapped ==
  raced \/
     /\ \A c, d \in Calls : channelsOp[c].kind # Channels!None /\ channelsOp[d].kind # Channels!None => c = d
     /\ \A c \in Calls : channelsOp[c].at \in {"token", "sync", "delete"} => channelsOp[c].held = conf
     /\ \A c \in Calls : channelsOp[c].at = "clone" /\ channelsOp[c].answer \in {"ok", "duplicate"}
                            => channelsOp[c].new \in remote
     /\ \A c \in Calls : channelsOp[c].at = "sync" /\ channelsOp[c].answer = "ok"
                            => channelsOp[c].listed \subseteq remote

Stale == {"token", "sync", "purge", "rename"}
History ==
  /\ raced \in BOOLEAN
  /\ undoneBy \subseteq Stale \cup {"typed"}
  /\ raced \/ undoneBy \subseteq {"typed"}

ChannelsInv ==
  /\ ConfInv /\ VoicesInv /\ CallsInv /\ Overlapped /\ History
  /\ Channels!ClonedExist

(* No operation.                                                           *)
LEMMA NoCallIs ==
  /\ Channels!NoCall \in Call /\ Sound(Channels!NoCall)
  /\ Channels!NoCall.kind = Channels!None /\ Channels!NoCall.at = Channels!None
  /\ Channels!NoCall.answer = Channels!None
BY DEF Channels!NoCall, Call, Sound, Channels!None

(* It starts without voices and operations.                                 *)
LEMMA InitChannels == Channels!Init => ChannelsInv
<1> SUFFICES ASSUME Channels!Init PROVE ChannelsInv
  OBVIOUS
<1>1. PICK b \in BOOLEAN :
         conf = [on |-> b, token |-> "t1", chats |-> "all", speech |-> "mp3", voices |-> {}, default |-> Channels!None]
  BY DEF Channels!Init, Channels!Normalized
<1>2. ConfInv
  BY <1>1 DEF ConfInv, Conf, Kept, Telegrams, Channels!Init, Channels!Telegram
<1>3. channelsOp = [c \in Calls |-> Channels!NoCall]
  BY DEF Channels!Init
<1>4. CallsInv /\ Overlapped
  BY <1>3, NoCallIs DEF CallsInv, Overlapped, Channels!None
<1>5. raced \in BOOLEAN /\ undoneBy = {}
  BY DEF Channels!Init
<1>6. VoicesInv /\ conf.voices = {}
  BY <1>1 DEF VoicesInv, Channels!Init
<1> QED BY <1>2, <1>4, <1>5, <1>6 DEF ChannelsInv, History, Channels!ClonedExist

(* One setting with another value.                                         *)
LEMMA OneSet ==
  ASSUME NEW x \in Conf, NEW f \in {"on", "token", "chats", "speech"}, NEW s \in Channels!Settings
  PROVE  LET n == [x EXCEPT ![f] = s[f]]
         IN /\ n \in Conf /\ n.voices = x.voices /\ n.default = x.default
            /\ Channels!SettingsOf(n) = [Channels!SettingsOf(x) EXCEPT ![f] = s[f]]
<1>1. CASE f = "on"
  BY <1>1 DEF Conf, Channels!Settings, Channels!SettingsOf
<1>2. CASE f = "token"
  BY <1>2 DEF Conf, Channels!Settings, Channels!SettingsOf
<1>3. CASE f = "chats"
  BY <1>3 DEF Conf, Channels!Settings, Channels!SettingsOf
<1>4. CASE f = "speech"
  BY <1>4 DEF Conf, Channels!Settings, Channels!SettingsOf
<1> QED BY <1>1, <1>2, <1>3, <1>4

(* The settings with a new token.                                          *)
LEMMA TokenAs ==
  ASSUME NEW x \in Conf, NEW t \in {"t1", "t2"}, NEW b \in BOOLEAN
  PROVE  LET n == [x EXCEPT !.token = t, !.on = b]
         IN /\ n \in Conf /\ n.voices = x.voices /\ n.default = x.default
            /\ Channels!SettingsOf(n) = [Channels!SettingsOf(x) EXCEPT !.token = t, !.on = b]
<1> DEFINE n == [x EXCEPT !.token = t, !.on = b]
           s == Channels!SettingsOf(x)
<1>1. /\ n \in Conf /\ n.on = b /\ n.token = t /\ n.chats = x.chats /\ n.speech = x.speech
      /\ n.voices = x.voices /\ n.default = x.default
  BY DEF Conf
<1>2. s = [on |-> x.on, token |-> x.token, chats |-> x.chats, speech |-> x.speech]
  BY DEF Channels!SettingsOf
<1>3. [s EXCEPT !.token = t, !.on = b] = [on |-> b, token |-> t, chats |-> x.chats, speech |-> x.speech]
  <2> DEFINE m == [on |-> x.on, token |-> t, chats |-> x.chats, speech |-> x.speech]
  <2>1. [s EXCEPT !.token = t] = m
    BY <1>2
  <2>2. [m EXCEPT !.on = b] = [on |-> b, token |-> t, chats |-> x.chats, speech |-> x.speech]
    OBVIOUS
  <2> HIDE DEF s, m
  <2>3. [s EXCEPT !.token = t, !.on = b] = [[s EXCEPT !.token = t] EXCEPT !.on = b]
    OBVIOUS
  <2> QED BY <2>1, <2>2, <2>3
<1> HIDE DEF n
<1>4. Channels!SettingsOf(n) = [on |-> b, token |-> t, chats |-> x.chats, speech |-> x.speech]
  BY <1>1 DEF Channels!SettingsOf
<1> QED BY <1>1, <1>3, <1>4 DEF n

(* The token that is typed, with Telegram on.                              *)
LEMMA TokenSet ==
  ASSUME NEW x \in Conf
  PROVE  LET n == [x EXCEPT !.token = "t2", !.on = TRUE]
         IN /\ n \in Conf /\ n.voices = x.voices /\ n.default = x.default
            /\ Channels!SettingsOf(n) = [Channels!SettingsOf(x) EXCEPT !.token = "t2", !.on = TRUE]
<1>1. "t2" \in {"t1", "t2"} /\ TRUE \in BOOLEAN
  OBVIOUS
<1> QED BY <1>1, TokenAs, Zenon

(* The settings with other Telegram settings.                               *)
LEMMA TelegramSet ==
  ASSUME NEW x \in Conf, NEW t \in Telegrams, NEW v \in {"all", "some"}
  PROVE  LET n == [x EXCEPT !.on = t.on, !.token = t.token, !.chats = v]
         IN n \in Conf /\ n.voices = x.voices /\ n.default = x.default
BY DEF Conf, Telegrams

(* What the channels keep of the settings.                                  *)
LEMMA TelegramIs == \A x \in Conf : Channels!Telegram(x) \in Telegrams
BY DEF Conf, Telegrams, Channels!Telegram

(* The settings with other voices and another default.                       *)
LEMMA VoicesSet ==
  ASSUME NEW x \in Conf, NEW v \in SUBSET Aliases, NEW d \in Aliases \cup {Channels!None}
  PROVE  LET n == [x EXCEPT !.voices = v, !.default = d]
         IN /\ n \in Conf /\ n.voices = v /\ n.default = d
            /\ Channels!SettingsOf(n) = Channels!SettingsOf(x)
BY DEF Conf, Channels!SettingsOf

(* The settings without a voice, and without a default that names it.        *)
LEMMA WithoutVoice ==
  ASSUME NEW x \in Conf, Kept(x), NEW a
  PROVE  LET n == Channels!Without(x, a)
         IN /\ n \in Conf /\ Kept(n) /\ n.voices = x.voices \ {a}
            /\ Channels!SettingsOf(n) = Channels!SettingsOf(x)
<1> DEFINE v == x.voices \ {a}
           d == IF x.default = a THEN Channels!None ELSE x.default
           n == [x EXCEPT !.voices = v, !.default = d]
<1>1. v \in SUBSET Aliases /\ d \in Aliases \cup {Channels!None}
  BY DEF Conf
<1>2. d # Channels!None => d \in v
  BY DEF Kept
<1>3. Channels!Without(x, a) = n
  BY DEF Channels!Without
<1> HIDE DEF v, d
<1>4. n \in Conf /\ n.voices = v /\ n.default = d /\ Channels!SettingsOf(n) = Channels!SettingsOf(x)
  BY <1>1, VoicesSet
<1> HIDE DEF n
<1> QED BY <1>2, <1>3, <1>4 DEF Kept, v

(* The settings with one more voice, which may be the default.                *)
LEMMA WithVoice ==
  ASSUME NEW x \in Conf, Kept(x), NEW a \in Aliases, NEW b
  PROVE  LET n == [x EXCEPT !.voices = @ \cup {a}, !.default = IF b THEN a ELSE @]
         IN /\ n \in Conf /\ Kept(n) /\ n.voices = x.voices \cup {a}
            /\ Channels!SettingsOf(n) = Channels!SettingsOf(x)
<1> DEFINE v == x.voices \cup {a}
           d == IF b THEN a ELSE x.default
           n == [x EXCEPT !.voices = v, !.default = d]
<1>1. v \in SUBSET Aliases /\ d \in Aliases \cup {Channels!None}
  BY DEF Conf
<1>2. d # Channels!None => d \in v
  BY DEF Kept
<1>3. [x EXCEPT !.voices = @ \cup {a}, !.default = IF b THEN a ELSE @] = n
  OBVIOUS
<1> HIDE DEF v, d
<1>4. n \in Conf /\ n.voices = v /\ n.default = d /\ Channels!SettingsOf(n) = Channels!SettingsOf(x)
  BY <1>1, VoicesSet
<1> HIDE DEF n
<1> QED BY <1>2, <1>3, <1>4 DEF Kept, v

(* The settings with the voices of a list.                                  *)
LEMMA ListedVoices ==
  ASSUME NEW x \in Conf, NEW v \in SUBSET Aliases
  PROVE  LET n == Channels!Synchronized(x, v)
         IN /\ n \in Conf /\ Kept(n) /\ n.voices = v
            /\ Channels!SettingsOf(n) = Channels!SettingsOf(x)
<1> DEFINE d == IF x.default \in v THEN x.default ELSE Channels!None
           n == [x EXCEPT !.voices = v, !.default = d]
<1>1. d \in Aliases \cup {Channels!None} /\ (d # Channels!None => d \in v)
  OBVIOUS
<1>2. Channels!Synchronized(x, v) = n
  BY DEF Channels!Synchronized
<1> HIDE DEF d
<1>3. n \in Conf /\ n.voices = v /\ n.default = d /\ Channels!SettingsOf(n) = Channels!SettingsOf(x)
  BY <1>1, VoicesSet
<1> HIDE DEF n
<1> QED BY <1>1, <1>2, <1>3 DEF Kept

channelsRest == <<remote, used, channelsOp, doubted>>

(* A writer that awaits nothing takes voices away at most.                   *)
LEMMA WriterKeeps ==
  ASSUME ChannelsInv, conf' \in Conf, Kept(conf)', conf'.voices \subseteq conf.voices, poller' \in Telegrams,
         undoneBy' \subseteq undoneBy \cup {"typed"},
         raced' = (raced \/ Channels!Active # {}), UNCHANGED channelsRest
  PROVE  ChannelsInv'
<1>1. ConfInv' /\ VoicesInv' /\ CallsInv'
  BY DEF ChannelsInv, ConfInv, VoicesInv, CallsInv, channelsRest
<1>2. CASE raced \/ Channels!Active # {}
  <2>1. raced' /\ raced' \in BOOLEAN
    BY <1>2
  <2>2. undoneBy' \subseteq Stale \cup {"typed"}
    BY DEF ChannelsInv, History
  <2> QED BY <1>1, <2>1, <2>2 DEF ChannelsInv, Overlapped, History, Channels!ClonedExist
<1>3. CASE ~(raced \/ Channels!Active # {})
  <2>1. ~raced' /\ raced' \in BOOLEAN /\ ~raced
    BY <1>3
  <2>2. \A c \in Calls : channelsOp'[c] = channelsOp[c] /\ channelsOp[c].kind = Channels!None
                         /\ channelsOp[c].at = Channels!None
    BY <1>3 DEF Channels!Active, ChannelsInv, CallsInv, Sound, channelsRest
  <2>3. Overlapped'
    BY <2>2 DEF Overlapped, Channels!None
  <2>4. History'
    BY <2>1 DEF ChannelsInv, History
  <2>5. \A a \in conf.voices : a \in remote \/ a \in doubted
    BY <2>1, <2>2 DEF ChannelsInv, Channels!ClonedExist, Channels!Answered, Channels!None
  <2>6. Channels!ClonedExist'
    BY <2>5 DEF Channels!ClonedExist, channelsRest
  <2> QED BY <1>1, <2>3, <2>4, <2>6 DEF ChannelsInv
<1> QED BY <1>2, <1>3

(* An operation ends, with what it writes.                                  *)
LEMMA EndsKeeps ==
  ASSUME ChannelsInv, NEW c \in Calls, channelsOp[c].kind # Channels!None,
         conf' \in Conf, Kept(conf)', poller' = poller, raced' = raced,
         undoneBy' \subseteq undoneBy \cup Stale, raced \/ undoneBy' = undoneBy,
         doubted' \subseteq Aliases, UNCHANGED <<remote, used>>,
         channelsOp' = [channelsOp EXCEPT ![c] = Channels!NoCall],
         raced \/ \A a \in conf'.voices : a \in remote \/ a \in doubted'
  PROVE  ChannelsInv'
<1>1. ConfInv' /\ VoicesInv'
  BY DEF ChannelsInv, ConfInv, VoicesInv
<1>2. /\ channelsOp' \in [Calls -> Call]
      /\ \A d \in Calls : channelsOp'[d] = IF d = c THEN Channels!NoCall ELSE channelsOp[d]
  BY NoCallIs DEF ChannelsInv, CallsInv
<1>3. CallsInv'
  <2>1. \A d \in Calls : Sound(channelsOp'[d])
    BY <1>2, NoCallIs DEF ChannelsInv, CallsInv
  <2> QED BY <1>2, <2>1 DEF CallsInv
<1>4. History'
  <2>1. undoneBy' \subseteq Stale \cup {"typed"}
    BY DEF ChannelsInv, History
  <2>2. raced' \in BOOLEAN /\ (raced' \/ undoneBy' \subseteq {"typed"})
    BY DEF ChannelsInv, History
  <2> QED BY <2>1, <2>2 DEF History
<1>5. CASE raced
  BY <1>1, <1>3, <1>4, <1>5 DEF ChannelsInv, Overlapped, Channels!ClonedExist
<1>6. CASE ~raced
  <2>1. \A d \in Calls : channelsOp'[d].kind = Channels!None /\ channelsOp'[d].at = Channels!None
    BY <1>2, <1>6, NoCallIs DEF ChannelsInv, Overlapped, CallsInv, Sound
  <2>2. Overlapped'
    BY <2>1 DEF Overlapped, Channels!None
  <2>3. Channels!ClonedExist'
    BY <1>6 DEF Channels!ClonedExist
  <2> QED BY <1>1, <1>3, <1>4, <2>2, <2>3 DEF ChannelsInv
<1> QED BY <1>5, <1>6

(* What an operation that awaits is like when it has its answer.              *)
Like(n, o, x) ==
  /\ n \in Call /\ Sound(n) /\ n.kind = o.kind /\ n.at = o.at /\ n.alias = o.alias
  /\ n.new = o.new /\ n.held = o.held /\ n.answer = x

(* It differs in the answer only.                                            *)
LEMMA AnswerIs ==
  ASSUME NEW o \in Call, Sound(o), NEW x \in {"ok", "refused", "duplicate", "lost"},
         o.at = "clone" => x # "lost"
  PROVE  Like([o EXCEPT !.answer = x], o, x)
<1> DEFINE n == [o EXCEPT !.answer = x]
<1>1. /\ n \in Call /\ n.kind = o.kind /\ n.at = o.at /\ n.alias = o.alias
      /\ n.new = o.new /\ n.held = o.held /\ n.answer = x
  BY DEF Call
<1> HIDE DEF n
<1> QED BY <1>1 DEF Sound, Like, n

(* The same with the voices that the provider listed.                        *)
LEMMA ListedIs ==
  ASSUME NEW o \in Call, Sound(o), NEW x \in {"ok", "refused", "duplicate", "lost"},
         o.at = "clone" => x # "lost", NEW l \in SUBSET Aliases
  PROVE  Like([o EXCEPT !.answer = x, !.listed = l], o, x)
<1> DEFINE n == [o EXCEPT !.answer = x, !.listed = l]
<1>1. /\ n \in Call /\ n.kind = o.kind /\ n.at = o.at /\ n.alias = o.alias
      /\ n.new = o.new /\ n.held = o.held /\ n.answer = x
  BY DEF Call
<1> HIDE DEF n
<1> QED BY <1>1 DEF Sound, Like, n

(* The answer of a service.                                                *)
LEMMA ServiceKeeps == ASSUME ChannelsInv, NEW c \in Calls, Channels!Service(c) PROVE ChannelsInv'
<1> DEFINE o == channelsOp[c]
           n == channelsOp'[c]
<1>1. o \in Call /\ Sound(o) /\ channelsOp \in [Calls -> Call]
  BY DEF ChannelsInv, CallsInv
<1>2. UNCHANGED <<conf, poller, undoneBy, raced, doubted>> /\ o.answer = Channels!None
  BY DEF Channels!Service, Channels!history
<1>3. /\ used' \subseteq remote' /\ remote' \subseteq Aliases
      /\ used \subseteq remote /\ remote \subseteq Aliases
  <2>1. o.at = "clone" => o.new \in Aliases
    BY <1>1 DEF Sound
  <2> QED BY <2>1 DEF Channels!Service, Channels!GetMe, Channels!VoiceClone, Channels!GetVoice, Channels!DeleteVoice,
             Channels!Gone, ChannelsInv, VoicesInv
<1>4. \E x \in {"ok", "refused", "duplicate", "lost"} :
        /\ o.at = "clone" => x # "lost"
        /\ \/ channelsOp' = [channelsOp EXCEPT ![c] = [o EXCEPT !.answer = x]]
           \/ channelsOp' = [channelsOp EXCEPT ![c] = [o EXCEPT !.answer = x, !.listed = used]]
  BY DEF Channels!Service, Channels!GetMe, Channels!VoiceClone, Channels!GetVoice, Channels!DeleteVoice, Channels!Answers
<1>5. /\ n \in Call /\ Sound(n) /\ n.kind = o.kind /\ n.at = o.at /\ n.alias = o.alias /\ n.new = o.new
      /\ n.held = o.held /\ n.answer # Channels!None
      /\ channelsOp' \in [Calls -> Call]
      /\ \A d \in Calls : d # c => channelsOp'[d] = channelsOp[d]
  <2>1. PICK x \in {"ok", "refused", "duplicate", "lost"} :
        /\ o.at = "clone" => x # "lost"
        /\ \/ channelsOp' = [channelsOp EXCEPT ![c] = [o EXCEPT !.answer = x]]
           \/ channelsOp' = [channelsOp EXCEPT ![c] = [o EXCEPT !.answer = x, !.listed = used]]
    BY <1>4
  <2>2. used \in SUBSET Aliases /\ x # Channels!None
    BY <1>3 DEF Channels!None
  <2>3. PICK m : channelsOp' = [channelsOp EXCEPT ![c] = m] /\ Like(m, o, x)
    <3>1. o \in Call /\ Sound(o) /\ (o.at = "clone" => x # "lost")
      BY <1>1, <2>1
    <3> HIDE DEF o
    <3>2. Like([o EXCEPT !.answer = x], o, x)
      BY <3>1, AnswerIs
    <3>3. Like([o EXCEPT !.answer = x, !.listed = used], o, x)
      BY <2>2, <3>1, ListedIs
    <3> QED BY <2>1, <3>2, <3>3
  <2> QED BY <1>1, <2>2, <2>3 DEF Like
<1>6. o.at \in {"token", "clone", "sync", "delete"} /\ o.kind # Channels!None
  BY <1>1 DEF Channels!Service, Channels!GetMe, Channels!VoiceClone, Channels!GetVoice, Channels!DeleteVoice,
     Sound, Channels!None
<1>7. ConfInv' /\ VoicesInv' /\ History'
  BY <1>2, <1>3 DEF ChannelsInv, ConfInv, VoicesInv, History
<1>8. CallsInv'
  <2>1. \A d \in Calls : Sound(channelsOp'[d])
    BY <1>1, <1>5 DEF ChannelsInv, CallsInv
  <2> QED BY <1>5, <2>1 DEF CallsInv
<1>9. CASE raced
  BY <1>2, <1>7, <1>8, <1>9 DEF ChannelsInv, Overlapped, Channels!ClonedExist
<1>10. CASE ~raced
  <2>1. \A d \in Calls : d # c => channelsOp[d].kind = Channels!None /\ channelsOp[d].at = Channels!None
    BY <1>6, <1>10 DEF ChannelsInv, Overlapped, CallsInv, Sound
  <2>2. o.at = "clone" /\ n.answer \in {"ok", "duplicate"} => o.new \in remote'
    <3>1. CASE Channels!VoiceClone(c)
      <4>1. CASE remote' = remote \cup {o.new}
        BY <4>1
      <4>2. CASE Channels!Answers(c, "refused")
        <5>1. n.answer = "refused"
          BY <1>1, <4>2 DEF Channels!Answers, Call
        <5> QED BY <5>1
      <4> QED BY <3>1, <4>1, <4>2 DEF Channels!VoiceClone
    <3>2. CASE ~Channels!VoiceClone(c)
      BY <3>2 DEF Channels!Service, Channels!GetMe, Channels!GetVoice, Channels!DeleteVoice
    <3> QED BY <3>1, <3>2
  <2>3. o.at = "sync" /\ n.answer = "ok" => n.listed \subseteq remote'
    <3>1. CASE Channels!GetVoice(c)
      <4>1. CASE channelsOp' = [channelsOp EXCEPT ![c].answer = "ok", ![c].listed = used]
        <5>1. n.listed = used
          BY <1>1, <4>1 DEF Call
        <5> QED BY <1>3, <3>1, <5>1 DEF Channels!GetVoice
      <4>2. CASE Channels!Answers(c, "refused")
        <5>1. n.answer = "refused"
          BY <1>1, <4>2 DEF Channels!Answers, Call
        <5> QED BY <5>1
      <4> QED BY <3>1, <4>1, <4>2 DEF Channels!GetVoice
    <3>2. CASE ~Channels!GetVoice(c)
      BY <3>2 DEF Channels!Service, Channels!GetMe, Channels!VoiceClone, Channels!DeleteVoice
    <3> QED BY <3>1, <3>2
  <2>4. \A d \in Calls : d = c \/ (channelsOp'[d].kind = Channels!None /\ channelsOp'[d].at = Channels!None)
    BY <1>5, <2>1
  <2>5. o.at \in {"token", "sync", "delete"} => o.held = conf
    BY <1>10 DEF ChannelsInv, Overlapped
  <2>6. Overlapped'
    <3>1. \A d \in Calls : channelsOp'[d].at \in {"token", "clone", "sync", "delete"} => d = c
      BY <2>4 DEF Channels!None
    <3>2. \A d, e \in Calls : channelsOp'[d].kind # Channels!None /\ channelsOp'[e].kind # Channels!None => d = e
      BY <2>4
    <3>3. n.at \in {"token", "sync", "delete"} => n.held = conf
      BY <1>5, <2>5
    <3>4. n.at = "clone" /\ n.answer \in {"ok", "duplicate"} => n.new \in remote'
      BY <1>5, <2>2
    <3>5. n.at = "sync" /\ n.answer = "ok" => n.listed \subseteq remote'
      BY <1>5, <2>3
    <3> HIDE DEF n
    <3>6. \A d \in Calls : d = c => channelsOp'[d] = n
      BY DEF n
    <3> QED BY <1>2, <3>1, <3>2, <3>3, <3>4, <3>5, <3>6 DEF Overlapped
  <2>7. \A a \in conf.voices : a \in remote \/ a \in doubted
    <3>1. \A d \in Calls : ~Channels!Answered(d, "delete")
      BY <1>2, <2>1 DEF Channels!Answered, Channels!None
    <3> QED BY <1>10, <3>1 DEF ChannelsInv, Channels!ClonedExist
  <2>8. remote \subseteq remote' \/ (remote' = remote \ {o.alias} /\ o.at = "delete")
    BY DEF Channels!Service, Channels!GetMe, Channels!VoiceClone, Channels!GetVoice, Channels!DeleteVoice, Channels!Gone
  <2>9. Channels!ClonedExist'
    <3>1. o.at = "delete" => Channels!Answered(c, "delete")' /\ n.alias = o.alias
      BY <1>5 DEF Channels!Answered
    <3> HIDE DEF o
    <3> QED BY <1>2, <2>7, <2>8, <3>1 DEF Channels!ClonedExist
  <2> QED BY <1>7, <1>8, <2>6, <2>9 DEF ChannelsInv
<1> QED BY <1>9, <1>10

(* An operation that begins, with what it read.                             *)
Begun(n, k, a, m, w) ==
  n \in Call /\ n.kind = k /\ n.alias = a /\ n.new = m /\ n.held = conf /\ n.at = w /\ n.answer = Channels!None

(* An operation begins: while another is on its way, they overlap.            *)
LEMMA BeginsKeeps == ASSUME ChannelsInv, NEW c \in Calls, Channels!Begins(c) PROVE ChannelsInv'
<1>1. PICK k \in Channels!Kinds, a \in Aliases \cup {Channels!None}, m \in Aliases \cup {Channels!None}, d \in BOOLEAN :
         /\ Channels!Begin(c, k, a, m, d)
         /\ k \in {"clone", "rename"} => m \in Aliases
         /\ k \in {"purge", "rename"} => a \in Aliases
  <2>1. conf.voices \subseteq Aliases
    BY DEF ChannelsInv, ConfInv, Conf
  <2> QED BY <2>1 DEF Channels!Begins, Channels!BeginsClone, Channels!BeginsRename, Channels!Kinds
<1>2. PICK w \in {"token", "clone", "sync", "delete"} :
         /\ w = IF k \in {"token", "clone", "sync"} THEN k ELSE "delete"
         /\ w = "clone" => k = "clone"
         /\ w = "delete" => k \in {"purge", "rename"}
  BY DEF Channels!Kinds
<1> DEFINE n == [Channels!NoCall EXCEPT !.kind = k, !.alias = a, !.new = m, !.default = d, !.held = conf, !.at = w]
<1>3. /\ channelsOp[c].kind = Channels!None /\ channelsOp' = [channelsOp EXCEPT ![c] = n]
      /\ raced' = (raced \/ Channels!Active # {})
      /\ UNCHANGED <<conf, poller, remote, used, undoneBy, doubted>>
  BY <1>1, <1>2 DEF Channels!Begin
<1>4. Begun(n, k, a, m, w)
  <2>1. conf \in Conf
    BY DEF ChannelsInv, ConfInv
  <2>2. PICK i \in Call : i = Channels!NoCall /\ i.answer = Channels!None
    BY NoCallIs
  <2> DEFINE x == [i EXCEPT !.kind = k, !.alias = a, !.new = m, !.default = d, !.held = conf, !.at = w]
  <2>3. x \in Call /\ x.kind = k /\ x.alias = a /\ x.new = m /\ x.held = conf /\ x.at = w /\ x.answer = i.answer
    BY <2>1 DEF Call
  <2>4. n = x
    BY <2>2
  <2> HIDE DEF x, n
  <2> QED BY <2>2, <2>3, <2>4 DEF Begun
<1> HIDE DEF n
<1>5. n \in Call /\ Sound(n) /\ n.answer = Channels!None /\ n.held = conf /\ n.kind # Channels!None
  BY <1>1, <1>2, <1>4 DEF Begun, Sound, ChannelsInv, ConfInv, Channels!Kinds, Channels!None
<1>6. /\ channelsOp' \in [Calls -> Call]
      /\ \A e \in Calls : channelsOp'[e] = IF e = c THEN n ELSE channelsOp[e]
  BY <1>3, <1>5 DEF ChannelsInv, CallsInv
<1>7. ConfInv' /\ VoicesInv' /\ CallsInv'
  <2>1. \A e \in Calls : Sound(channelsOp'[e])
    BY <1>5, <1>6 DEF ChannelsInv, CallsInv
  <2> QED BY <1>3, <1>6, <2>1 DEF ChannelsInv, ConfInv, VoicesInv, CallsInv
<1>8. CASE raced \/ Channels!Active # {}
  <2>1. raced' /\ raced' \in BOOLEAN
    BY <1>3, <1>8
  <2> QED BY <1>3, <1>7, <2>1 DEF ChannelsInv, Overlapped, History, Channels!ClonedExist
<1>9. CASE ~(raced \/ Channels!Active # {})
  <2>1. ~raced' /\ raced' \in BOOLEAN /\ ~raced
    BY <1>3, <1>9
  <2>2. \A e \in Calls : channelsOp[e].kind = Channels!None /\ channelsOp[e].at = Channels!None
    BY <1>9 DEF Channels!Active, ChannelsInv, CallsInv, Sound
  <2>3. \A e \in Calls : channelsOp'[e].kind # Channels!None => e = c
    BY <1>6, <2>2
  <2>4. \A e \in Calls : channelsOp'[e].at # Channels!None => e = c
    BY <1>6, <2>2
  <2>5. Overlapped'
    BY <1>3, <1>5, <1>6, <2>3, <2>4 DEF Overlapped, Channels!None
  <2>6. \A b \in conf.voices : b \in remote \/ b \in doubted
    BY <2>1, <2>2 DEF ChannelsInv, Channels!ClonedExist, Channels!Answered, Channels!None
  <2>7. Channels!ClonedExist'
    BY <1>3, <2>6 DEF Channels!ClonedExist
  <2>8. History'
    BY <1>3, <2>1 DEF ChannelsInv, History
  <2> QED BY <1>7, <2>5, <2>7, <2>8 DEF ChannelsInv
<1> QED BY <1>8, <1>9

(* What an operation writes of the settings it read puts back an older one    *)
(* only if it overlapped another.                                          *)
LEMMA PutBack ==
  ASSUME ChannelsInv, NEW k \in Stale, NEW new, NEW wanted, Channels!Writes(k, new, wanted),
         raced \/ Channels!SettingsOf(new) = wanted
  PROVE  conf' = new /\ undoneBy' \subseteq undoneBy \cup Stale /\ (raced \/ undoneBy' = undoneBy)
BY DEF Channels!Writes

(* A rename whose old voice is gone goes on with the new one.                 *)
LEMMA RenameKeeps ==
  ASSUME ChannelsInv, NEW c \in Calls, Channels!RenameForgets(c),
         UNCHANGED <<poller, remote, used>>
  PROVE  ChannelsInv'
<1> DEFINE o == channelsOp[c]
           n == [o EXCEPT !.at = "clone", !.answer = Channels!None]
<1>1. /\ o \in Call /\ Sound(o) /\ channelsOp \in [Calls -> Call]
      /\ o.kind = "rename" /\ o.at = "delete" /\ o.kind # Channels!None
  BY DEF ChannelsInv, CallsInv, Channels!RenameForgets, Channels!Answered, Channels!None
<1>2. channelsOp' = [channelsOp EXCEPT ![c] = n] /\ raced' = raced
  BY DEF Channels!RenameForgets
<1>3. o.alias \in Aliases /\ o.new \in Aliases /\ o.held \in Conf /\ Kept(o.held)
  BY <1>1 DEF Sound
<1>4. /\ n \in Call /\ n.kind = o.kind /\ n.at = "clone" /\ n.answer = Channels!None /\ n.held = o.held
      /\ n.new = o.new
  <2> HIDE DEF o
  <2> QED BY <1>1 DEF Call
<1> HIDE DEF n
<1>5. Sound(n)
  BY <1>1, <1>3, <1>4 DEF Sound, Channels!None
<1>6. /\ channelsOp' \in [Calls -> Call]
      /\ \A e \in Calls : channelsOp'[e] = IF e = c THEN n ELSE channelsOp[e]
  BY <1>1, <1>2, <1>4
<1>7. CallsInv'
  <2>1. \A e \in Calls : Sound(channelsOp'[e])
    BY <1>5, <1>6 DEF ChannelsInv, CallsInv
  <2> QED BY <1>6, <2>1 DEF CallsInv
<1>8. raced \/ o.held = conf
  BY <1>1 DEF ChannelsInv, Overlapped
<1>9. /\ conf' \in Conf /\ Kept(conf)' /\ undoneBy' \subseteq undoneBy \cup Stale
      /\ raced \/ undoneBy' = undoneBy
      /\ doubted' \subseteq Aliases /\ doubted \subseteq doubted'
      /\ raced \/ (conf'.voices \subseteq conf.voices /\ (o.alias \notin conf'.voices \/ o.alias \in doubted'))
  <2>1. CASE o.answer # "lost"
    <3> DEFINE x == Channels!Without(o.held, o.alias)
    <3>1. Channels!Writes("rename", x, Channels!SettingsOf(conf)) /\ doubted' = doubted
      BY <2>1 DEF Channels!RenameForgets
    <3>2. x \in Conf /\ Kept(x) /\ x.voices = o.held.voices \ {o.alias}
          /\ Channels!SettingsOf(x) = Channels!SettingsOf(o.held)
      BY <1>3, WithoutVoice
    <3> HIDE DEF x
    <3>3. /\ conf' = x /\ undoneBy' \subseteq undoneBy \cup Stale
          /\ raced \/ undoneBy' = undoneBy
      BY <1>8, <3>1, <3>2, PutBack DEF Stale
    <3>4. Kept(conf)' <=> Kept(conf')
      BY DEF Kept
    <3> QED BY <1>8, <3>1, <3>2, <3>3, <3>4 DEF ChannelsInv, VoicesInv
  <2>2. CASE o.answer = "lost"
    <3>1. doubted' = doubted \cup {o.alias} /\ UNCHANGED <<conf, undoneBy>>
      BY <2>2 DEF Channels!RenameForgets
    <3> QED BY <1>3, <3>1 DEF ChannelsInv, VoicesInv, ConfInv, Kept
  <2> QED BY <2>1, <2>2
<1>10. ConfInv' /\ VoicesInv' /\ History'
  <2>1. undoneBy' \subseteq Stale \cup {"typed"} /\ (raced \/ undoneBy' \subseteq {"typed"})
    BY <1>9 DEF ChannelsInv, History
  <2> QED BY <1>2, <1>9, <2>1 DEF ChannelsInv, ConfInv, VoicesInv, History
<1>11. CASE raced
  BY <1>2, <1>7, <1>10, <1>11 DEF ChannelsInv, Overlapped, Channels!ClonedExist
<1>12. CASE ~raced
  <2>1. \A e \in Calls : e # c => channelsOp[e].kind = Channels!None /\ channelsOp[e].at = Channels!None
    BY <1>1, <1>12 DEF ChannelsInv, Overlapped, CallsInv, Sound
  <2>2. \A e \in Calls : channelsOp'[e].kind # Channels!None => e = c
    BY <1>6, <2>1
  <2>3. \A e \in Calls : channelsOp'[e].at # Channels!None => e = c
    BY <1>6, <2>1
  <2>4. Overlapped'
    BY <1>4, <1>6, <2>2, <2>3 DEF Overlapped, Channels!None
  <2>5. \A b \in conf.voices : b \in remote \/ b \in doubted \/ b = o.alias
    BY <1>12, <2>1 DEF ChannelsInv, Channels!ClonedExist, Channels!Answered, Channels!None
  <2>6. Channels!ClonedExist'
    BY <1>9, <1>12, <2>5 DEF Channels!ClonedExist
  <2> QED BY <1>7, <1>10, <2>4, <2>6 DEF ChannelsInv
<1> QED BY <1>11, <1>12

(* What the operations that wait for a service write when they go on.         *)
LEMMA ContinuesKeeps == ASSUME ChannelsInv, NEW c \in Calls, Channels!Continues(c) PROVE ChannelsInv'
<1> DEFINE o == channelsOp[c]
<1>1. /\ o \in Call /\ Sound(o) /\ UNCHANGED <<poller, remote, used>>
  BY DEF ChannelsInv, CallsInv, Channels!Continues
<1>2. Channels!SettingsOf(conf) = Channels!SettingsOf(conf) /\ conf \in Conf /\ Kept(conf)
  BY DEF ChannelsInv, ConfInv
<1>3. Kept(conf)' <=> Kept(conf')
  BY DEF Kept
<1>4. ASSUME o.at \in {"token", "sync", "delete"}
      PROVE  /\ o.kind # Channels!None /\ o.held \in Conf /\ Kept(o.held)
             /\ raced \/ o.held = conf
             /\ \A d \in Calls : raced \/ d = c \/ ~Channels!Answered(d, "delete")
  <2>1. o.kind # Channels!None
    BY <1>1, <1>4 DEF Sound, Channels!None
  <2>2. raced \/ o.held = conf
    BY <1>4 DEF ChannelsInv, Overlapped
  <2>3. \A d \in Calls : raced \/ d = c \/ ~Channels!Answered(d, "delete")
    BY <2>1 DEF ChannelsInv, Overlapped, CallsInv, Sound, Channels!Answered, Channels!None
  <2> QED BY <1>1, <2>1, <2>2, <2>3 DEF Sound
<1>5. \A a \in conf.voices : raced \/ a \in remote \/ a \in doubted
                             \/ \E d \in Calls : Channels!Answered(d, "delete") /\ channelsOp[d].alias = a
  BY DEF ChannelsInv, Channels!ClonedExist
<1>6. CASE Channels!TokenSaves(c)
  <2>1. /\ o.at = "token" /\ channelsOp' = [channelsOp EXCEPT ![c] = Channels!NoCall]
        /\ raced' = raced /\ doubted' = doubted
    BY <1>6 DEF Channels!TokenSaves, Channels!Answered, Channels!Ends
  <2>2. \A a \in conf.voices : raced \/ a \in remote \/ a \in doubted
    BY <1>4, <1>5, <2>1 DEF Channels!Answered
  <2>3. /\ conf' \in Conf /\ Kept(conf)' /\ undoneBy' \subseteq undoneBy \cup Stale
        /\ raced \/ (undoneBy' = undoneBy /\ conf'.voices = conf.voices)
    <3>1. CASE UNCHANGED <<conf, undoneBy>>
      BY <1>2, <1>3, <3>1
    <3>2. CASE Channels!Writes("token", [o.held EXCEPT !.token = "t2", !.on = TRUE],
                               [Channels!SettingsOf(conf) EXCEPT !.token = "t2", !.on = TRUE])
      <4> DEFINE x == [o.held EXCEPT !.token = "t2", !.on = TRUE]
                 wanted == [Channels!SettingsOf(conf) EXCEPT !.token = "t2", !.on = TRUE]
      <4>1. /\ x \in Conf /\ x.voices = o.held.voices /\ x.default = o.held.default
            /\ Channels!SettingsOf(x) = [Channels!SettingsOf(o.held) EXCEPT !.token = "t2", !.on = TRUE]
        BY <1>4, <2>1, TokenSet
      <4>2. raced \/ Channels!SettingsOf(x) = wanted
        <5>1. CASE raced
          BY <5>1
        <5>2. CASE o.held = conf
          <6> HIDE DEF x, o
          <6> QED BY <4>1, <5>2
        <5> QED BY <1>4, <2>1, <5>1, <5>2
      <4>3. Channels!Writes("token", x, wanted)
        BY <3>2
      <4> HIDE DEF x, wanted
      <4>4. conf' = x /\ undoneBy' \subseteq undoneBy \cup Stale /\ (raced \/ undoneBy' = undoneBy)
        BY <4>2, <4>3, PutBack DEF Stale
      <4>5. Kept(x)
        BY <1>4, <2>1, <4>1 DEF Kept
      <4> QED BY <1>3, <1>4, <2>1, <4>1, <4>4, <4>5
    <3> QED BY <1>6, <3>1, <3>2 DEF Channels!TokenSaves
  <2>4. doubted' \subseteq Aliases
    BY <2>1 DEF ChannelsInv, VoicesInv
  <2> QED BY <1>1, <1>4, <2>1, <2>2, <2>3, <2>4, EndsKeeps
<1>7. CASE Channels!CloneSaves(c)
  <2>1. /\ o.at = "clone" /\ channelsOp' = [channelsOp EXCEPT ![c] = Channels!NoCall]
        /\ raced' = raced /\ o.answer # Channels!None
    BY <1>7 DEF Channels!CloneSaves, Channels!Answered, Channels!Ends
  <2>2. o.kind # Channels!None /\ o.new \in Aliases
    BY <1>1, <2>1 DEF Sound, Channels!None
  <2>3. \A d \in Calls : raced \/ d = c \/ ~Channels!Answered(d, "delete")
    BY <2>2 DEF ChannelsInv, Overlapped, CallsInv, Sound, Channels!Answered, Channels!None
  <2>4. \A a \in conf.voices : raced \/ a \in remote \/ a \in doubted
    BY <1>5, <2>1, <2>3 DEF Channels!Answered
  <2>5. /\ conf' \in Conf /\ Kept(conf)' /\ undoneBy' = undoneBy /\ doubted' \subseteq Aliases
        /\ raced \/ \A a \in conf'.voices : a \in remote \/ a \in doubted'
    <3>1. CASE UNCHANGED <<conf, undoneBy, doubted>>
      BY <1>2, <1>3, <2>4, <3>1 DEF ChannelsInv, VoicesInv
    <3>2. CASE o.answer # "refused" /\ Channels!CloneSaved(c)
      <4> DEFINE x == [conf EXCEPT !.voices = @ \cup {o.new}, !.default = IF o.default THEN o.new ELSE @]
      <4>1. Channels!Writes("clone", x, Channels!SettingsOf(conf)) /\ doubted' = doubted \ {o.new}
        BY <3>2 DEF Channels!CloneSaved, Channels!CloneReads
      <4>2. /\ x \in Conf /\ Kept(x) /\ x.voices = conf.voices \cup {o.new}
            /\ Channels!SettingsOf(x) = Channels!SettingsOf(conf)
        <5> HIDE DEF o
        <5> QED BY <1>2, <2>2, WithVoice
      <4> HIDE DEF x
      <4>3. conf' = x /\ undoneBy' = undoneBy
        BY <4>1, <4>2 DEF Channels!Writes
      <4>4. raced \/ o.new \in remote
        BY <1>1, <2>1, <3>2 DEF ChannelsInv, Overlapped, Sound, Call
      <4> QED BY <1>3, <2>4, <4>1, <4>2, <4>3, <4>4 DEF ChannelsInv, VoicesInv
    <3> QED BY <1>7, <3>1, <3>2 DEF Channels!CloneSaves
  <2> QED BY <1>1, <2>1, <2>2, <2>5, EndsKeeps
<1>8. CASE Channels!ListRemoteSaves(c) \/ Channels!SyncSaves(c)
  <2>1. /\ o.at = "sync" /\ channelsOp' = [channelsOp EXCEPT ![c] = Channels!NoCall]
        /\ raced' = raced
        /\ doubted' = IF o.answer = "ok" THEN {} ELSE doubted
    BY <1>8 DEF Channels!ListRemoteSaves, Channels!SyncSaves, Channels!Answered, Channels!Ends
  <2>2. \A a \in conf.voices : raced \/ a \in remote \/ a \in doubted
    BY <1>4, <1>5, <2>1 DEF Channels!Answered
  <2>3. o.listed \in SUBSET Aliases /\ (raced \/ (o.answer = "ok" => o.listed \subseteq remote))
    BY <1>1, <2>1 DEF Call, ChannelsInv, Overlapped
  <2>4. doubted' \subseteq Aliases
    BY <2>1 DEF ChannelsInv, VoicesInv
  <2>5. /\ conf' \in Conf /\ Kept(conf)' /\ undoneBy' \subseteq undoneBy \cup Stale
        /\ raced \/ undoneBy' = undoneBy
        /\ raced \/ \A a \in conf'.voices : a \in remote \/ a \in doubted'
    <3>1. CASE UNCHANGED <<conf, undoneBy>> /\ ~(o.answer = "ok" /\ o.listed # o.held.voices)
      <4>1. raced \/ (o.answer = "ok" => conf.voices = o.listed)
        BY <1>4, <2>1, <3>1
      <4> QED BY <1>2, <1>3, <2>1, <2>2, <2>3, <3>1, <4>1
    <3>2. CASE o.answer = "ok" /\ Channels!Writes("sync", Channels!Synchronized(o.held, o.listed), Channels!SettingsOf(conf))
      <4> DEFINE x == Channels!Synchronized(o.held, o.listed)
      <4>1. /\ x \in Conf /\ Kept(x) /\ x.voices = o.listed
            /\ Channels!SettingsOf(x) = Channels!SettingsOf(o.held)
        <5>1. o.held \in Conf
          BY <1>4, <2>1
        <5> HIDE DEF o
        <5> QED BY <2>3, <5>1, ListedVoices
      <4> HIDE DEF x
      <4>2. /\ conf' = x /\ undoneBy' \subseteq undoneBy \cup Stale
            /\ raced \/ undoneBy' = undoneBy
        BY <1>4, <2>1, <3>2, <4>1, PutBack DEF Stale, x
      <4> QED BY <1>3, <2>3, <3>2, <4>1, <4>2
    <3> QED BY <1>8, <3>1, <3>2 DEF Channels!ListRemoteSaves, Channels!SyncSaves
  <2> QED BY <1>1, <1>4, <2>1, <2>4, <2>5, EndsKeeps
<1>9. CASE Channels!PurgeSaves(c)
  <2>1. /\ o.at = "delete" /\ channelsOp' = [channelsOp EXCEPT ![c] = Channels!NoCall]
        /\ raced' = raced /\ doubted' = doubted
        /\ Channels!Writes("purge", Channels!Without(o.held, o.alias), Channels!SettingsOf(conf))
    BY <1>9 DEF Channels!PurgeSaves, Channels!PurgesLocally, Channels!Answered, Channels!Ends
  <2> DEFINE x == Channels!Without(o.held, o.alias)
  <2>2. /\ x \in Conf /\ Kept(x) /\ x.voices = o.held.voices \ {o.alias}
        /\ Channels!SettingsOf(x) = Channels!SettingsOf(o.held)
    <3>1. o.held \in Conf /\ Kept(o.held)
      BY <1>4, <2>1
    <3> HIDE DEF o
    <3> QED BY <3>1, WithoutVoice
  <2> HIDE DEF x
  <2>3. /\ conf' = x /\ undoneBy' \subseteq undoneBy \cup Stale
        /\ raced \/ undoneBy' = undoneBy
    BY <1>4, <2>1, <2>2, PutBack DEF Stale, x
  <2>4. \A a \in conf.voices : raced \/ a \in remote \/ a \in doubted \/ a = o.alias
    BY <1>4, <1>5, <2>1
  <2>5. raced \/ \A a \in conf'.voices : a \in remote \/ a \in doubted'
    BY <1>4, <2>1, <2>2, <2>3, <2>4
  <2>6. doubted' \subseteq Aliases
    BY <2>1 DEF ChannelsInv, VoicesInv
  <2> QED BY <1>1, <1>3, <1>4, <2>1, <2>2, <2>3, <2>5, <2>6, EndsKeeps
<1>10. CASE Channels!RenameForgets(c)
  BY <1>1, <1>10, RenameKeeps
<1> QED BY <1>6, <1>7, <1>8, <1>9, <1>10 DEF Channels!Continues

(* A setting that is written is the one that was asked for, and nothing else.  *)
LEMMA SetKeeps ==
  ASSUME ChannelsInv, NEW f \in {"on", "token", "chats", "speech"}, NEW s \in Channels!Settings,
         Channels!SetsOne(f, s[f])
  PROVE  ChannelsInv'
<1> DEFINE x == [conf EXCEPT ![f] = s[f]]
           wanted == [Channels!SettingsOf(conf) EXCEPT ![f] = s[f]]
<1>1. conf \in Conf /\ Kept(conf) /\ poller \in Telegrams
  BY DEF ChannelsInv, ConfInv
<1>2. /\ Channels!Writes("set", x, wanted)
      /\ raced' = (raced \/ Channels!Active # {})
      /\ poller' = poller /\ UNCHANGED channelsRest
  BY DEF Channels!SetsOne, channelsRest
<1>3. /\ x \in Conf /\ x.voices = conf.voices /\ x.default = conf.default
      /\ Channels!SettingsOf(x) = wanted
  BY <1>1, OneSet
<1> HIDE DEF x, wanted
<1>4. conf' = x /\ undoneBy' = undoneBy
  BY <1>2, <1>3 DEF Channels!Writes
<1>5. Kept(conf)'
  BY <1>1, <1>3, <1>4 DEF Kept
<1> QED BY <1>1, <1>2, <1>3, <1>4, <1>5, WriterKeeps

(* The menus, the commands and the tool write one setting at a time.          *)
LEMMA SetsKeep == ASSUME ChannelsInv, Channels!Sets PROVE ChannelsInv'
<1>1. \E f \in {"on", "token", "chats", "speech"}, s \in Channels!Settings : Channels!SetsOne(f, s[f])
  <2>1. \A f \in DOMAIN Channels!Field : Channels!Field[f] \in {"on", "token", "chats", "speech"}
    BY DEF Channels!Field
  <2>2. CASE Channels!ManageConfigSet
    <3>1. PICK p \in DOMAIN Channels!Field :
             \E v \in {s[Channels!Field[p]] : s \in Channels!Settings} : Channels!SetsOne(Channels!Field[p], v)
      BY <2>2 DEF Channels!ManageConfigSet
    <3>2. PICK f \in {"on", "token", "chats", "speech"} : f = Channels!Field[p]
      BY <2>1
    <3> QED BY <3>1, <3>2
  <2>3. CASE \E g \in SUBSET {"on", "token", "chats", "speech"} : Channels!SetsAny(g)
    BY <2>3 DEF Channels!SetsAny
  <2>4. /\ {"on", "chats"} \in SUBSET {"on", "token", "chats", "speech"}
        /\ {"on", "token", "chats"} \in SUBSET {"on", "token", "chats", "speech"}
        /\ {"speech"} \in SUBSET {"on", "token", "chats", "speech"}
    OBVIOUS
  <2> QED BY <2>2, <2>3, <2>4, Zenon DEF Channels!Sets, Channels!ChannelsCommand, Channels!ChannelMenu,
             Channels!HandleChannelsCallback, Channels!ConfigSet
<1> QED BY <1>1, SetKeeps

(* A token typed to the bot.                                               *)
LEMMA TypedTokenKeeps == ASSUME ChannelsInv, Channels!TypedToken PROVE ChannelsInv'
<1> DEFINE x == [conf EXCEPT !.token = "t2", !.on = TRUE]
<1>1. conf \in Conf /\ Kept(conf)
  BY DEF ChannelsInv, ConfInv
<1>2. x \in Conf /\ x.voices = conf.voices /\ x.default = conf.default
  BY <1>1, TokenSet
<1>3. /\ conf' = x /\ undoneBy' \subseteq undoneBy \cup {"typed"}
      /\ poller' = Channels!Telegram(x)
  <2>1. conf' = [conf EXCEPT !.on = TRUE, !.token = "t2"] /\ undoneBy' \subseteq undoneBy \cup {"typed"}
        /\ poller' = Channels!Telegram([conf EXCEPT !.on = TRUE, !.token = "t2"])
    BY DEF Channels!TypedToken, Channels!Writes
  <2>2. [conf EXCEPT !.on = TRUE, !.token = "t2"] = x
    BY <1>1 DEF Conf
  <2> HIDE DEF x
  <2> QED BY <2>1, <2>2
<1>4. raced' = (raced \/ Channels!Active # {}) /\ UNCHANGED channelsRest
  BY DEF Channels!TypedToken, channelsRest
<1> HIDE DEF x
<1>5. poller' \in Telegrams /\ Kept(conf)'
  BY <1>1, <1>2, <1>3, TelegramIs DEF Kept
<1> QED BY <1>2, <1>3, <1>4, <1>5, WriterKeeps

(* Chats typed to the bot, with the settings that its channel started with.    *)
LEMMA TypedChatsKeeps ==
  ASSUME ChannelsInv, NEW v \in {"all", "some"}, Channels!TypedChats(v) PROVE ChannelsInv'
<1> DEFINE x == [conf EXCEPT !.on = poller.on, !.token = poller.token, !.chats = v]
<1>1. conf \in Conf /\ Kept(conf) /\ poller \in Telegrams
  BY DEF ChannelsInv, ConfInv
<1>2. x \in Conf /\ x.voices = conf.voices /\ x.default = conf.default
  BY <1>1, TelegramSet
<1>3. /\ conf' = x /\ undoneBy' \subseteq undoneBy \cup {"typed"}
      /\ poller' = Channels!Telegram(x)
  BY DEF Channels!TypedChats, Channels!Writes
<1>4. raced' = (raced \/ Channels!Active # {}) /\ UNCHANGED channelsRest
  BY DEF Channels!TypedChats, channelsRest
<1> HIDE DEF x
<1>5. poller' \in Telegrams /\ Kept(conf)'
  BY <1>1, <1>2, <1>3, TelegramIs DEF Kept
<1> QED BY <1>2, <1>3, <1>4, <1>5, WriterKeeps

(* An alias is deleted here only.                                           *)
LEMMA DeletesKeeps == ASSUME ChannelsInv, NEW a \in Aliases, Channels!Deletes(a) PROVE ChannelsInv'
<1> DEFINE x == Channels!Without(conf, a)
<1>1. conf \in Conf /\ Kept(conf) /\ poller \in Telegrams
  BY DEF ChannelsInv, ConfInv
<1>2. /\ x \in Conf /\ Kept(x) /\ x.voices = conf.voices \ {a}
      /\ Channels!SettingsOf(x) = Channels!SettingsOf(conf)
  BY <1>1, WithoutVoice
<1>3. /\ Channels!Writes("delete", x, Channels!SettingsOf(conf))
      /\ raced' = (raced \/ Channels!Active # {})
      /\ poller' = poller /\ UNCHANGED channelsRest
  BY DEF Channels!Deletes, channelsRest
<1> HIDE DEF x
<1>4. conf' = x /\ undoneBy' = undoneBy
  BY <1>2, <1>3 DEF Channels!Writes
<1>5. Kept(conf)'
  BY <1>2, <1>4 DEF Kept
<1> QED BY <1>1, <1>2, <1>3, <1>4, <1>5, WriterKeeps

(* A restart leaves the voices open whose deletion was answered and not saved. *)
LEMMA RestartsKeeps == ASSUME ChannelsInv, Channels!Restarts PROVE ChannelsInv'
<1>1. /\ channelsOp' = [c \in Calls |-> Channels!NoCall] /\ poller' = Channels!Telegram(conf)
      /\ doubted' = doubted \cup {channelsOp[c].alias : c \in {d \in Calls : Channels!Answered(d, "delete")}}
      /\ UNCHANGED <<conf, remote, used, undoneBy, raced>>
  BY DEF Channels!Restarts
<1>2. ConfInv'
  <2>1. poller' \in Telegrams
    BY <1>1, TelegramIs DEF ChannelsInv, ConfInv
  <2> QED BY <1>1, <2>1 DEF ChannelsInv, ConfInv, Kept
<1>3. VoicesInv' /\ History'
  BY <1>1 DEF ChannelsInv, VoicesInv, History, CallsInv, Sound, Channels!Answered
<1>4. CallsInv' /\ Overlapped'
  <2>1. channelsOp' \in [Calls -> Call] /\ \A c \in Calls : channelsOp'[c] = Channels!NoCall
    BY <1>1, NoCallIs
  <2>2. CallsInv'
    BY <2>1, NoCallIs DEF CallsInv
  <2>3. \A c \in Calls : channelsOp'[c].kind = Channels!None /\ channelsOp'[c].at = Channels!None
    BY <2>1, NoCallIs
  <2> QED BY <2>2, <2>3 DEF Overlapped, Channels!None
<1>5. Channels!ClonedExist'
  BY <1>1 DEF ChannelsInv, Channels!ClonedExist
<1> QED BY <1>2, <1>3, <1>4, <1>5 DEF ChannelsInv

(* Every step of the settings of channels and voices.                       *)
LEMMA NextChannels == ASSUME ChannelsInv, Channels!Next PROVE ChannelsInv'
<1>1. CASE Channels!Reloads
  <2>1. poller' \in Telegrams /\ UNCHANGED <<conf, remote, used, channelsOp, undoneBy, raced, doubted>>
    BY <1>1, TelegramIs DEF ChannelsInv, ConfInv, Channels!Reloads, Channels!history
  <2> QED BY <2>1 DEF ChannelsInv, ConfInv, Kept, VoicesInv, CallsInv, Overlapped, History, Channels!ClonedExist,
             Channels!Answered
<1>2. CASE \E a \in Aliases : Channels!Speaks(a)
  <2>1. used' \subseteq remote /\ UNCHANGED <<conf, poller, remote, channelsOp, undoneBy, raced, doubted>>
    BY <1>2 DEF ChannelsInv, VoicesInv, Channels!Speaks, Channels!history
  <2> QED BY <2>1 DEF ChannelsInv, ConfInv, Kept, VoicesInv, CallsInv, Overlapped, History, Channels!ClonedExist,
             Channels!Answered
<1> QED BY <1>1, <1>2, SetsKeep, TypedTokenKeeps, TypedChatsKeeps, DeletesKeeps, RestartsKeeps, BeginsKeeps,
           ServiceKeeps, ContinuesKeeps DEF Channels!Next

(* A step of this module is one of the channels, or leaves them alone.        *)
LEMMA ChannelsSteps == [Next]_vars => Channels!Next \/ UNCHANGED channelsVars
<1> SUFFICES ASSUME [Next]_vars PROVE Channels!Next \/ UNCHANGED channelsVars
  OBVIOUS
<1>1. CASE UNCHANGED vars
  BY <1>1, Zenon DEF vars
<1>2. CASE Only("channels") /\ Channels!Next
  BY <1>2
<1>3. CASE \E p \in {"model", "desk"} : Only(p)
  BY <1>3 DEF Only
<1> QED BY <1>1, <1>2, <1>3, Zenon DEF Next

(* Settings that nobody touches.                                           *)
LEMMA ChannelsStays == ASSUME ChannelsInv, UNCHANGED channelsVars PROVE ChannelsInv'
BY DEF ChannelsInv, ConfInv, Kept, VoicesInv, CallsInv, Overlapped, History, Channels!ClonedExist,
   Channels!Answered, channelsVars

(* The default voice is kept among the voices, a voice is kept until its      *)
(* deletion is, and only stale writers put old settings back.                *)
THEOREM ChannelsHolds == Spec => []ChannelsInv
<1>1. Init => ChannelsInv
  BY InitChannels DEF Init
<1>2. ChannelsInv /\ [Next]_vars => ChannelsInv'
  BY ChannelsSteps, ChannelsStays, NextChannels
<1> QED BY <1>1, <1>2, PTL DEF Spec

(* The invariant holds what the run checks of channels and voices.            *)
LEMMA ChannelsMeans ==
  ChannelsInv => /\ Channels!TypeOK /\ Channels!DefaultIsCloned /\ Channels!ClonedExist
                 /\ Channels!PutBackByTheStale
<1> SUFFICES ASSUME ChannelsInv
             PROVE  /\ Channels!TypeOK /\ Channels!DefaultIsCloned /\ Channels!ClonedExist
                    /\ Channels!PutBackByTheStale
  OBVIOUS
<1>1. Channels!TypeOK
  <2>1. Channels!SettingsOf(conf) \in Channels!Settings /\ conf.voices \subseteq Aliases
        /\ conf.default \in Aliases \cup {Channels!None}
    BY DEF ChannelsInv, ConfInv, Conf, Channels!SettingsOf, Channels!Settings
  <2>2. undoneBy \subseteq Channels!Kinds \cup {"set", "typed", "delete"}
    BY DEF ChannelsInv, History, Stale, Channels!Kinds
  <2> QED BY <2>1, <2>2 DEF ChannelsInv, VoicesInv, History, Channels!TypeOK
<1>2. Channels!PutBackByTheStale
  BY DEF ChannelsInv, History, Stale, Channels!PutBackByTheStale
<1> QED BY <1>1, <1>2 DEF ChannelsInv, ConfInv, Kept, Channels!DefaultIsCloned

-----------------------------------------------------------------------------
(* One profile is active and the environment names its provider, the default  *)
(* voice is one of the voices and a voice exists at the provider, only stale   *)
(* writers put old settings back, the command line waits for its own turns,   *)
(* and nothing of a text is left between turns.                             *)
THEOREM SettingsAndDeskHolds == Spec => []SettingsAndDeskHold
<1>1. ModelInv /\ DeskInv /\ ChannelsInv => SettingsAndDeskHold
  BY ModelMeans, DeskMeans, ChannelsMeans, Zenon
  DEF SettingsAndDeskHold, TypesOK, OneActive, ProviderMatches, DefaultIsCloned, ClonedExist, PutBackByTheStale,
      WaitsForOwn, NothingStreams
<1> QED BY <1>1, ModelHolds, DeskHolds, ChannelsHolds, PTL
=============================================================================
