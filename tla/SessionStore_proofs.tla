------------------------ MODULE SessionStore_proofs ------------------------
(***************************************************************************)
(* What holds of the session store for any sessions, texts, limits and     *)
(* crashes: rows keep ids of their own, and what the MemoryAgent is taken  *)
(* to have heard it has heard.                                             *)
(***************************************************************************)
EXTENDS SessionStore, FiniteSetTheorems, SequenceTheorems, TLAPS

-----------------------------------------------------------------------------
(* Induction, over a set of numbers: the library's theorem takes a predicate. *)

\* Every nonempty set of numbers has a smallest element.
LEMMA Smallest ==
  ASSUME NEW S \in SUBSET Nat, S # {}
  PROVE  \E n \in S : \A m \in S : ~ (m < n)
<1> DEFINE R == {ss \in Nat \X Nat : ss[1] < ss[2]}
<1>1. IsWellFoundedOn(R, Nat)
  BY NatLessThanWellFounded DEF OpToRel
<1> HIDE DEF R
<1>2. \E x \in S : \A y \in S : ~ (<<y, x>> \in R)
  BY <1>1, WFMin
<1> USE DEF R
<1>3. QED
  BY <1>2

\* Induction over a set of numbers; the form with a predicate takes an
\* operator as a parameter.
LEMMA SetInduction ==
  ASSUME NEW S, 0 \in S, \A n \in Nat : n \in S => n + 1 \in S
  PROVE  \A n \in Nat : n \in S
<1>1. SUFFICES ASSUME Nat \ S # {} PROVE FALSE
  OBVIOUS
<1>2. PICK n \in Nat \ S : \A m \in Nat \ S : ~ (m < n)
  BY <1>1, Smallest
<1>3. n - 1 \in S
  BY <1>2
<1>4. QED
  BY <1>2, <1>3

\* Induction up to a bound: what every lemma about a recursive function uses.
LEMMA UpTo ==
  ASSUME NEW N \in Nat, NEW S, 0 \in S, \A n \in 1 .. N : n - 1 \in S => n \in S
  PROVE  \A n \in 0 .. N : n \in S
<1> DEFINE T == {n \in Nat : n <= N => n \in S}
<1>1. 0 \in T
  OBVIOUS
<1>2. ASSUME NEW n \in Nat, n \in T
      PROVE  n + 1 \in T
  <2>1. CASE n + 1 <= N
    <3>1. n + 1 \in 1 .. N /\ (n + 1) - 1 = n /\ n \in S
      BY <1>2, <2>1
    <3>2. QED
      BY <3>1
  <2>2. QED
    BY <2>1
<1> HIDE DEF T
<1>3. \A n \in Nat : n \in T
  BY <1>1, <1>2, SetInduction
<1>4. QED
  BY <1>3 DEF T

\* F[n] is the n-th of N functions that take a value of D to the next, from d.
Iterable(N, D, d, F) == N \in Nat /\ d \in D /\ F \in [1 .. N -> [D -> D]]

\* Such functions can be applied one after the other.
LEMMA Iteration ==
  ASSUME NEW N, NEW D, NEW d, NEW F, Iterable(N, D, d, F)
  PROVE  \E p \in [0 .. N -> D] : p[0] = d /\ \A n \in 1 .. N : p[n] = F[n][p[n - 1]]
<1> USE DEF Iterable
<1> DEFINE Good(p, m) == p[0] = d /\ \A n \in 1 .. m : p[n] = F[n][p[n - 1]]
           S == {m \in Nat : \E p \in [0 .. m -> D] : Good(p, m)}
<1>1. 0 \in S
  <2>1. Good([n \in 0 .. 0 |-> d], 0) /\ [n \in 0 .. 0 |-> d] \in [0 .. 0 -> D]
    OBVIOUS
  <2>2. QED
    BY <2>1
<1>2. ASSUME NEW m \in 1 .. N, m - 1 \in S
      PROVE  m \in S
  <2>1. PICK p \in [0 .. m - 1 -> D] : Good(p, m - 1)
    BY <1>2
  <2> DEFINE q == [n \in 0 .. m |-> IF n < m THEN p[n] ELSE F[m][p[m - 1]]]
  <2>2. \A n \in 0 .. m - 1 : q[n] = p[n]
    OBVIOUS
  <2>3. q[m] = F[m][p[m - 1]] /\ F[m][p[m - 1]] \in D
    BY <2>1
  <2>4. q \in [0 .. m -> D]
    BY <2>3
  <2> HIDE DEF q
  <2>5. \A n \in 1 .. m : q[n] = F[n][q[n - 1]]
    BY <2>1, <2>2, <2>3
  <2>6. q[0] = d
    BY <2>1, <2>2
  <2>7. QED
    BY <2>4, <2>5, <2>6
<1> HIDE DEF S
<1>3. \A m \in 0 .. N : m \in S
  BY <1>1, <1>2, UpTo
<1>4. QED
  BY <1>3 DEF S

-----------------------------------------------------------------------------
(* The recursive functions of the model.  Each is unfolded in the same way: *)

-----------------------------------------------------------------------------
(* Sequences without some of their entries.                                *)

\* One step of Without: what its n-th value makes of the one before it.
StayStep(s, gone, n, r) == IF n \in gone THEN r ELSE Append(r, s[n])

\* p is the function that Without defines, with values in Seq(A).
StayRun(A, s, gone, p) ==
  /\ p \in [0 .. Len(s) -> Seq(A)]
  /\ C!Without(s, gone) = p[Len(s)]
  /\ p[0] = <<>>
  /\ \A n \in 1 .. Len(s) : p[n] = StayStep(s, gone, n, p[n - 1])

\* Without is computed by its steps.
LEMMA StayUnfold ==
  ASSUME NEW A, NEW s \in Seq(A), NEW gone
  PROVE  \E p : StayRun(A, s, gone, p)
<1> DEFINE N == Len(s)
           D == Seq(A)
           d == <<>>
           F == [n \in 1 .. N |-> [x \in D |-> StayStep(s, gone, n, x)]]
           Is(p) == p = [n \in 0 .. N |-> IF n = 0 THEN d ELSE StayStep(s, gone, n, p[n - 1])]
           q == CHOOSE p : Is(p)
<1>1. N \in Nat /\ d \in D
  OBVIOUS
<1>2. \A n \in 1 .. N : \A x \in D : StayStep(s, gone, n, x) \in D
  BY DEF StayStep
<1>3. C!Without(s, gone) = q[N]
  BY Zenon DEF C!Without, StayStep
<1> HIDE DEF N, D, d
<1>4. F \in [1 .. N -> [D -> D]] /\ \A n \in 1 .. N : \A x \in D : F[n][x] = StayStep(s, gone, n, x)
  BY <1>2
<1> HIDE DEF F
<1>5. PICK p \in [0 .. N -> D] : p[0] = d /\ \A n \in 1 .. N : p[n] = F[n][p[n - 1]]
  <2>1. Iterable(N, D, d, F)
    BY <1>1, <1>4 DEF Iterable
  <2>2. QED
    BY <2>1, Iteration
<1>6. Is(p)
  <2>1. \A n \in 1 .. N : p[n] = StayStep(s, gone, n, p[n - 1])
    BY <1>1, <1>4, <1>5
  <2>2. \A n \in 0 .. N : p[n] = IF n = 0 THEN d ELSE StayStep(s, gone, n, p[n - 1])
    BY <1>1, <1>5, <2>1
  <2>3. QED
    BY <2>2, <1>5
<1> HIDE DEF q
<1>7. Is(q)
  <2> HIDE DEF Is
  <2>1. QED
    BY <1>6 DEF q
<1>8. q[0] = d /\ \A n \in 1 .. N : q[n] = StayStep(s, gone, n, q[n - 1])
  BY <1>1, <1>7
<1>9. q \in [0 .. N -> D]
  <2> DEFINE E == {n \in Nat : q[n] \in D}
  <2>1. 0 \in E /\ \A n \in 1 .. N : n - 1 \in E => n \in E
    BY <1>1, <1>2, <1>8
  <2> HIDE DEF E
  <2>2. \A n \in 0 .. N : n \in E
    BY <1>1, <2>1, UpTo
  <2>3. QED
    BY <1>7, <2>2 DEF E
<1>10. QED
  BY <1>3, <1>8, <1>9 DEF N, D, d, StayRun

\* q leads, in order, to all the first n places but those of gone.
Leads(n, gone, m, q) ==
  /\ m \in Nat /\ q \in [1 .. m -> 1 .. n]
  /\ \A k \in 1 .. m : q[k] \notin gone
  /\ \A j, k \in 1 .. m : j < k => q[j] < q[k]
  /\ \A i \in 1 .. n : i \notin gone => \E k \in 1 .. m : q[k] = i

\* u has the entries of s at the places that q leads to.
At(u, s, m, q) == Len(u) = m /\ \A k \in 1 .. m : u[k] = s[q[k]]

\* One place more.
LEMMA LeadsFurther ==
  ASSUME NEW n \in Nat, NEW gone, NEW m, NEW q, Leads(n, gone, m, q)
  PROVE  LET q2 == [k \in 1 .. m + 1 |-> IF k <= m THEN q[k] ELSE n + 1] IN
         /\ n + 1 \in gone => Leads(n + 1, gone, m, q)
         /\ n + 1 \notin gone => Leads(n + 1, gone, m + 1, q2)
<1> DEFINE q2 == [k \in 1 .. m + 1 |-> IF k <= m THEN q[k] ELSE n + 1]
<1>0. m \in Nat /\ q \in [1 .. m -> 1 .. n] /\ \A i \in 1 .. n + 1 : i \in 1 .. n \/ i = n + 1
  BY DEF Leads
<1>1. ASSUME n + 1 \in gone PROVE Leads(n + 1, gone, m, q)
  <2>1. q \in [1 .. m -> 1 .. n + 1]
    BY <1>0
  <2>2. \A i \in 1 .. n + 1 : i \notin gone => \E k \in 1 .. m : q[k] = i
    BY <1>0, <1>1 DEF Leads
  <2> QED BY <2>1, <2>2 DEF Leads
<1>2. ASSUME n + 1 \notin gone PROVE Leads(n + 1, gone, m + 1, q2)
  <2>1. /\ \A k \in 1 .. m : k \in 1 .. m + 1 /\ q2[k] = q[k]
        /\ q2[m + 1] = n + 1 /\ m + 1 \in 1 .. m + 1
        /\ \A k \in 1 .. m + 1 : k \in 1 .. m \/ k = m + 1
        /\ q2 \in [1 .. m + 1 -> 1 .. n + 1]
    BY <1>0
  <2> HIDE DEF q2
  <2>2. \A k \in 1 .. m + 1 : q2[k] \notin gone
    BY <1>2, <2>1 DEF Leads
  <2>3. \A i \in 1 .. n + 1 : i \notin gone => \E k \in 1 .. m + 1 : q2[k] = i
    BY <1>0, <2>1 DEF Leads
  <2>4. \A j, k \in 1 .. m + 1 : j < k => q2[j] < q2[k]
    <3>1. SUFFICES ASSUME NEW j \in 1 .. m + 1, NEW k \in 1 .. m + 1, j < k
                   PROVE  q2[j] < q2[k]
      OBVIOUS
    <3>2. j \in 1 .. m
      BY <1>0, <3>1
    <3>3. CASE k \in 1 .. m
      BY <2>1, <3>1, <3>2, <3>3 DEF Leads
    <3>4. CASE k = m + 1
      <4>1. q2[j] \in 1 .. n
        BY <1>0, <2>1, <3>2
      <4> QED BY <2>1, <3>4, <4>1
    <3> QED BY <2>1, <3>3, <3>4
  <2> QED BY <1>0, <2>1, <2>2, <2>3, <2>4 DEF Leads
<1> QED BY <1>1, <1>2

\* Two sequences of one length lose their entries at the same places.
LEMMA WithoutPlaces ==
  ASSUME NEW A, NEW s \in Seq(A), NEW B, NEW t \in Seq(B), Len(t) = Len(s), NEW gone
  PROVE  /\ C!Without(s, gone) \in Seq(A) /\ C!Without(t, gone) \in Seq(B)
         /\ \E m, q : /\ Leads(Len(s), gone, m, q)
                      /\ At(C!Without(s, gone), s, m, q) /\ At(C!Without(t, gone), t, m, q)
<1>1. PICK p : StayRun(A, s, gone, p)
  BY StayUnfold, Zenon
<1>2. PICK r : StayRun(B, t, gone, r)
  BY StayUnfold, Zenon
<1> DEFINE N == Len(s)
           E == {n \in Nat : \E m, q : Leads(n, gone, m, q) /\ At(p[n], s, m, q) /\ At(r[n], t, m, q)}
<1>3. /\ N \in Nat /\ p \in [0 .. N -> Seq(A)] /\ r \in [0 .. N -> Seq(B)]
      /\ p[0] = <<>> /\ r[0] = <<>>
      /\ \A n \in 1 .. N : /\ p[n] = StayStep(s, gone, n, p[n - 1])
                          /\ r[n] = StayStep(t, gone, n, r[n - 1])
  BY <1>1, <1>2 DEF StayRun
<1>4. 0 \in E
  <2>1. Leads(0, gone, 0, <<>>)
    BY DEF Leads
  <2>2. At(p[0], s, 0, <<>>) /\ At(r[0], t, 0, <<>>)
    BY <1>3 DEF At
  <2> QED BY <2>1, <2>2
<1>5. ASSUME NEW n \in 1 .. N, n - 1 \in E
      PROVE  n \in E
  <2>1. PICK m, q : Leads(n - 1, gone, m, q) /\ At(p[n - 1], s, m, q) /\ At(r[n - 1], t, m, q)
    BY <1>5
  <2>2. n - 1 \in Nat /\ (n - 1) + 1 = n /\ n - 1 \in 0 .. N /\ n \in Nat
    BY <1>3
  <2>3. p[n - 1] \in Seq(A) /\ r[n - 1] \in Seq(B) /\ s[n] \in A /\ t[n] \in B
    BY <1>3, <2>2
  <2>4. CASE n \in gone
    <3>1. p[n] = p[n - 1] /\ r[n] = r[n - 1]
      BY <1>3, <2>4 DEF StayStep
    <3>2. Leads(n, gone, m, q)
      BY <2>1, <2>2, <2>4, LeadsFurther
    <3> QED BY <2>1, <2>2, <3>1, <3>2
  <2>5. CASE n \notin gone
    <3> DEFINE q2 == [k \in 1 .. m + 1 |-> IF k <= m THEN q[k] ELSE (n - 1) + 1]
    <3>1. p[n] = Append(p[n - 1], s[n]) /\ r[n] = Append(r[n - 1], t[n])
      BY <1>3, <2>5 DEF StayStep
    <3>2. Leads(n, gone, m + 1, q2)
      BY <2>1, <2>2, <2>5, LeadsFurther
    <3>3. m \in Nat
      BY <2>1 DEF Leads
    <3>4. /\ \A k \in 1 .. m : q2[k] = q[k]
          /\ q2[m + 1] = n
          /\ \A k \in 1 .. m + 1 : k \in 1 .. m \/ k = m + 1
      BY <2>2, <3>3
    <3> HIDE DEF q2
    <3>5. At(p[n], s, m + 1, q2)
      <4>1. Len(p[n]) = m + 1 /\ p[n][m + 1] = s[n] /\ \A k \in 1 .. m : p[n][k] = p[n - 1][k]
        BY <2>1, <2>3, <3>1, <3>3 DEF At
      <4> QED BY <2>1, <3>4, <4>1 DEF At
    <3>6. At(r[n], t, m + 1, q2)
      <4>1. Len(r[n]) = m + 1 /\ r[n][m + 1] = t[n] /\ \A k \in 1 .. m : r[n][k] = r[n - 1][k]
        BY <2>1, <2>3, <3>1, <3>3 DEF At
      <4> QED BY <2>1, <3>4, <4>1 DEF At
    <3> QED BY <2>2, <3>2, <3>5, <3>6
  <2> QED BY <2>4, <2>5
<1> HIDE DEF E
<1>6. N \in E
  <2>1. \A n \in 0 .. N : n \in E
    BY <1>3, <1>4, <1>5, UpTo
  <2> QED BY <1>3, <2>1
<1>7. /\ C!Without(s, gone) = p[N] /\ C!Without(t, gone) = r[N]
      /\ p[N] \in Seq(A) /\ r[N] \in Seq(B)
  BY <1>1, <1>2, <1>3 DEF StayRun
<1> QED BY <1>6, <1>7 DEF E

\* What stays keeps its number, and nothing else does.
LEMMA WithoutEntries ==
  ASSUME NEW A, NEW s \in Seq(A), NEW gone
  PROVE  /\ C!Without(s, gone) \in Seq(A)
         /\ \E m, q : Leads(Len(s), gone, m, q) /\ At(C!Without(s, gone), s, m, q)
BY WithoutPlaces

-----------------------------------------------------------------------------
(* The invariant: first what the files, the snapshots and the history are.  *)

Roles == {"user", "assistant", "system"}
RowT == [id : Nat, role : Roles, says : SUBSET Texts, long : BOOLEAN]
WorkT == [kind : {None, "summary", "flush"}, zone : Seq(RowT), at : Nat, stop : Nat, filed : Nat]
AgentT == [at : {None, "started", "turn"}, batch : Seq(RowT)]
DropT == [to : {"drop"}, s : Sessions, value : SUBSET Nat]

FilesTyped ==
  /\ rows \in [Sessions -> Seq(RowT)]
  /\ torn \in [Sessions -> BOOLEAN]
  /\ nextId \in [Sessions -> Nat \ {0}]
  /\ position \in [Sessions -> Nat]
  /\ cursor \in Nat

(* A zone that is worked on has rows, and is filed no further than it goes.  *)
WorkTyped ==
  /\ work \in [Sessions -> WorkT]
  /\ \A s \in Sessions : work[s].kind # None =>
       Len(work[s].zone) > 1 /\ work[s].stop <= Len(work[s].zone)
  /\ agent \in AgentT
  /\ agent.at = "turn" => agent.batch # <<>>

GhostsTyped ==
  /\ told \in 0 .. MaxTexts
  /\ history \in [Sessions -> SUBSET Texts]
  /\ dropped \in SUBSET Texts /\ read \in SUBSET Texts /\ rewritten \in BOOLEAN

(* Rows have ids of their own, below n.                                    *)
Unique(rs) == \A i, j \in DOMAIN rs : i # j => rs[i].id # rs[j].id
Below(rs, n) == \A i \in DOMAIN rs : rs[i].id < n
Numbered(rs, n) == Unique(rs) /\ Below(rs, n)
SameIds(rs, ts) == Len(rs) = Len(ts) /\ \A i \in DOMAIN rs : rs[i].id = ts[i].id

-----------------------------------------------------------------------------
(* What can be left of the writes of a handler: a message to append, ...    *)
Appends(s, q) ==
  /\ Len(q) = 2 /\ q[1].to = "meta" /\ q[2].to = "line"
  /\ q = <<MetaWrite(s, nextId[s] + 1), LineWrite(s, q[2].value)>>
  /\ q[2].value \in RowT /\ q[2].value.id = nextId[s]
EndsLine(s, q) ==
  /\ Len(q) = 1 /\ q[1].to = "line"
  /\ q = <<LineWrite(s, q[1].value)>>
  /\ q[1].value \in RowT /\ q[1].value.id < nextId[s] /\ Below(rows[s], q[1].value.id)

(* ... a cursor to move before it, ...                                     *)
MovesCursor(q) ==
  /\ q # <<>> /\ q[1].to = "cursor" /\ q = <<Head(q)>> \o Tail(q)
  /\ Head(q) = CursorWrite(q[1].value) /\ q[1].value \in Nat
  /\ Appends(Main, Tail(q))

(* ... a session to empty, ...                                             *)
Resets(s, q) ==
  /\ Len(q) = 2 /\ q[1].to = "rows" /\ q[2].to = "meta"
  /\ q = <<RowsWrite(s, <<>>, "reset"), MetaWrite(s, 1)>>
Restarts(s, q) ==
  /\ Len(q) = 1 /\ q[1].to = "meta"
  /\ q = <<MetaWrite(s, 1)>> /\ rows[s] = <<>>

(* ... the oldest rows to replace by markers, ...                          *)
Counts(s, q) ==
  /\ Len(q) = 2 /\ q[1].to = "meta" /\ q[2].to = "rows"
  /\ q = <<MetaWrite(s, q[1].value), RowsWrite(s, q[2].value, "count")>>
  /\ q[1].value \in Nat /\ q[1].value >= nextId[s]
  /\ q[2].value \in Seq(RowT) /\ Numbered(q[2].value, q[1].value)
CountsRows(s, q) ==
  /\ Len(q) = 1 /\ q[1].to = "rows"
  /\ q = <<RowsWrite(s, q[1].value, "count")>>
  /\ q[1].value \in Seq(RowT) /\ Numbered(q[1].value, nextId[s])

(* ... rows to shorten or to fold, and rows to delete, ...                 *)
OnlyDrops(q) == q \in Seq(DropT) /\ \A k, l \in DOMAIN q : q[k].value = q[l].value
Alters(s, q) ==
  /\ q # <<>> /\ q[1].to = "rows" /\ q = <<Head(q)>> \o Tail(q)
  /\ Head(q) = RowsWrite(s, q[1].value, q[1].why)
  /\ q[1].why \in {"snip", "fold"}
  /\ q[1].value \in Seq(RowT) /\ SameIds(q[1].value, rows[s])
  /\ OnlyDrops(Tail(q))

(* ... a message to file, and the position after it.                       *)
Files(s, q) ==
  /\ Len(q) = 2 /\ q[1].to = "section" /\ q[2].to = "position"
  /\ q = <<SectionWrite(s, q[1].value), PositionWrite(s, q[2].value)>>
  /\ q[1].value \in RowT /\ q[2].value \in Nat
Advances(s, q) ==
  /\ Len(q) = 1 /\ q[1].to = "position"
  /\ q = <<PositionWrite(s, q[1].value)>> /\ q[1].value \in Nat

Left(s) ==
  \/ Appends(s, pending) \/ EndsLine(s, pending)
  \/ Resets(s, pending) \/ Restarts(s, pending)
  \/ Counts(s, pending) \/ CountsRows(s, pending) \/ Alters(s, pending)
  \/ Files(s, pending) \/ Advances(s, pending)
PendingSound == OnlyDrops(pending) \/ MovesCursor(pending) \/ \E s \in Sessions : Left(s)

(* The writes as a handler lists them, none of them made.                  *)
Begins(s) ==
  \/ Appends(s, pending) \/ Resets(s, pending)
  \/ Counts(s, pending) \/ CountsRows(s, pending) \/ Alters(s, pending)
  \/ Files(s, pending) \/ Advances(s, pending)
Begun == OnlyDrops(pending) \/ \E s \in Sessions : Begins(s)

RowsNumbered == \A s \in Sessions : Numbered(rows[s], nextId[s])

Sound == FilesTyped /\ WorkTyped /\ GhostsTyped /\ PendingSound /\ RowsNumbered

-----------------------------------------------------------------------------
(* Sequences of rows and of writes.                                        *)

\* One or two writes, taken one at a time.
LEMMA OneAndTwo ==
  /\ \A a : Head(<<a>>) = a /\ Tail(<<a>>) = <<>>
  /\ \A a, b : Head(<<a, b>>) = a /\ Tail(<<a, b>>) = <<b>>
<1>1. ASSUME NEW a PROVE Head(<<a>>) = a /\ Tail(<<a>>) = <<>>
  <2>1. <<a>> \in Seq({a})
    OBVIOUS
  <2> QED BY <2>1, HeadTailProperties
<1>2. ASSUME NEW a, NEW b PROVE Head(<<a, b>>) = a /\ Tail(<<a, b>>) = <<b>>
  <2>1. <<a, b>> \in Seq({a, b}) /\ <<a, b>> # <<>> /\ <<b>> \in Seq({a, b})
    OBVIOUS
  <2>2. /\ Tail(<<a, b>>) \in Seq({a, b}) /\ Len(Tail(<<a, b>>)) = 1
        /\ Tail(<<a, b>>)[1] = b
    BY <2>1, HeadTailProperties
  <2>3. Tail(<<a, b>>) = <<b>>
    BY <2>1, <2>2, SeqEqual
  <2> QED BY <2>3
<1> QED BY <1>1, <1>2

\* What a row of a sequence of rows is.
LEMMA RowsAre ==
  ASSUME NEW rs \in Seq(RowT)
  PROVE  /\ Len(rs) \in Nat /\ DOMAIN rs = 1 .. Len(rs)
         /\ \A i \in DOMAIN rs : /\ rs[i] \in RowT /\ rs[i].id \in Nat /\ rs[i].role \in Roles
                                 /\ rs[i].says \in SUBSET Texts /\ rs[i].long \in BOOLEAN
<1>1. Len(rs) \in Nat /\ DOMAIN rs = 1 .. Len(rs) /\ \A i \in DOMAIN rs : rs[i] \in RowT
  OBVIOUS
<1>2. \A r \in RowT : /\ r.id \in Nat /\ r.role \in Roles
                      /\ r.says \in SUBSET Texts /\ r.long \in BOOLEAN
  BY DEF RowT
<1> QED BY <1>1, <1>2

\* A row that is appended with an id above the others.
LEMMA NumberedAppend ==
  ASSUME NEW rs \in Seq(RowT), NEW n \in Nat, Numbered(rs, n),
         NEW row \in RowT, row.id < n, Below(rs, row.id)
  PROVE  Append(rs, row) \in Seq(RowT) /\ Numbered(Append(rs, row), n)
<1> DEFINE l == Len(rs)
           new == Append(rs, row)
<1>1. /\ l \in Nat /\ DOMAIN new = 1 .. l + 1 /\ DOMAIN rs = 1 .. l
      /\ new[l + 1] = row /\ \A i \in 1 .. l : new[i] = rs[i]
      /\ new \in Seq(RowT)
  BY AppendProperties
<1>2. \A i \in 1 .. l : rs[i].id \in Nat
  BY <1>1, RowsAre
<1>3. row.id \in Nat
  BY DEF RowT
<1> HIDE DEF l, new
<1>4. \A i \in 1 .. l + 1 : i \in 1 .. l \/ i = l + 1
  BY <1>1
<1>5. Unique(new)
  BY <1>1, <1>2, <1>3, <1>4 DEF Unique, Numbered, Below
<1>6. Below(new, n)
  BY <1>1, <1>2, <1>3, <1>4 DEF Numbered, Below
<1> QED BY <1>1, <1>5, <1>6 DEF Numbered, new

-----------------------------------------------------------------------------
(* The writes.                                                             *)

\* Write makes the first of the writes, as its kind says.
LEMMA WriteMakes ==
  ASSUME Write, NEW w, w = Head(pending)
  PROVE  /\ w.to = "meta" => WriteMeta(w)
         /\ w.to = "line" => WriteLine(w)
         /\ w.to = "rows" => WriteRows(w)
         /\ w.to = "drop" => WriteDrop(w)
         /\ w.to = "section" => WriteSection(w)
         /\ w.to = "position" => WritePosition(w)
         /\ w.to = "cursor" => WriteCursor(w)
         /\ pending # <<>> /\ pending' = Tail(pending)
         /\ UNCHANGED <<work, agent, told, read, count>>
<1>1. /\ WriteMeta(w) \/ WriteLine(w) \/ WriteRows(w) \/ WriteDrop(w)
           \/ WriteSection(w) \/ WritePosition(w) \/ WriteCursor(w)
      /\ pending # <<>> /\ pending' = Tail(pending)
      /\ UNCHANGED <<work, agent, told, read, count>>
  BY DEF Write, Idle
<1>2. /\ WriteMeta(w) => w.to = "meta"
      /\ WriteLine(w) => w.to = "line"
      /\ WriteRows(w) => w.to = "rows"
      /\ WriteDrop(w) => w.to = "drop"
      /\ WriteSection(w) => w.to = "section"
      /\ WritePosition(w) => w.to = "position"
      /\ WriteCursor(w) => w.to = "cursor"
  BY Zenon DEF WriteMeta, WriteLine, WriteRows, WriteDrop, WriteSection, WritePosition, WriteCursor
<1> QED BY <1>1, <1>2

\* The rows of one session are replaced.
LEMMA RowsReplaced ==
  ASSUME FilesTyped, RowsNumbered, NEW s \in Sessions,
         NEW rs \in Seq(RowT), Numbered(rs, nextId[s]),
         rows' = [rows EXCEPT ![s] = rs], nextId' = nextId,
         torn' = torn \/ torn' = [torn EXCEPT ![s] = FALSE], UNCHANGED <<position, cursor>>
  PROVE  FilesTyped' /\ RowsNumbered' /\ rows'[s] = rs
<1>1. rows \in [Sessions -> Seq(RowT)]
  BY DEF FilesTyped
<1>2. rows' \in [Sessions -> Seq(RowT)] /\ rows'[s] = rs
      /\ \A t \in Sessions \ {s} : rows'[t] = rows[t]
  BY <1>1
<1>3. torn' \in [Sessions -> BOOLEAN]
  BY DEF FilesTyped
<1>4. RowsNumbered'
  BY <1>2 DEF RowsNumbered
<1> QED BY <1>2, <1>3, <1>4 DEF FilesTyped

\* What none of the writes touches.
LEMMA WorkTypedStays == WorkTyped /\ UNCHANGED <<work, agent>> => WorkTyped'
BY DEF WorkTyped

\* The id of a message is taken; its line is left.
LEMMA AppendsWritten ==
  ASSUME Sound, NEW s \in Sessions, Appends(s, pending), Write
  PROVE  Sound' /\ EndsLine(s, pending)'
<1> DEFINE w == Head(pending)
<1>1. pending = <<MetaWrite(s, nextId[s] + 1), LineWrite(s, pending[2].value)>>
      /\ pending[2].value \in RowT /\ pending[2].value.id = nextId[s]
  BY DEF Appends
<1> DEFINE row == pending[2].value
<1>2. Head(pending) = MetaWrite(s, nextId[s] + 1) /\ Tail(pending) = <<LineWrite(s, row)>>
  BY <1>1, OneAndTwo, Zenon
<1>3. WriteMeta(MetaWrite(s, nextId[s] + 1)) /\ pending' = <<LineWrite(s, row)>>
      /\ UNCHANGED <<work, agent, told, read, count>>
  <2>1. MetaWrite(s, nextId[s] + 1).to = "meta"
    BY DEF MetaWrite
  <2> QED BY <1>2, <2>1, WriteMakes
<1>4. nextId' = [nextId EXCEPT ![s] = nextId[s] + 1]
      /\ UNCHANGED <<rows, torn, section, position, cursor, history, dropped, rewritten>>
  BY <1>3 DEF WriteMeta, MetaWrite
<1>5. nextId \in [Sessions -> Nat \ {0}] /\ rows \in [Sessions -> Seq(RowT)]
  BY DEF Sound, FilesTyped
<1>6. FilesTyped' /\ nextId'[s] = nextId[s] + 1 /\ \A t \in Sessions : nextId'[t] >= nextId[t]
  BY <1>4 DEF Sound, FilesTyped
<1>7. WorkTyped' /\ GhostsTyped'
  BY <1>3, <1>4, WorkTypedStays DEF Sound, GhostsTyped
<1>8. RowsNumbered'
  <2>1. SUFFICES ASSUME NEW t \in Sessions PROVE Numbered(rows[t], nextId'[t])
    BY <1>4 DEF RowsNumbered
  <2>2. Numbered(rows[t], nextId[t]) /\ \A i \in DOMAIN rows[t] : rows[t][i].id \in Nat
    BY <1>5, RowsAre DEF Sound, RowsNumbered
  <2>3. nextId[t] \in Nat /\ nextId'[t] \in Nat /\ nextId'[t] >= nextId[t]
    BY <1>5, <1>6 DEF FilesTyped
  <2> QED BY <2>2, <2>3 DEF Numbered, Below
<1>9. EndsLine(s, pending)'
  <2>1. Len(pending') = 1 /\ pending'[1] = LineWrite(s, row)
    BY <1>3
  <2>2. pending'[1].to = "line" /\ pending'[1].value = row /\ pending' = <<LineWrite(s, row)>>
    BY <1>3, <2>1 DEF LineWrite
  <2>3. row.id = nextId[s] /\ row.id < nextId'[s]
    BY <1>1, <1>5, <1>6
  <2>4. Below(rows'[s], row.id)
    BY <1>1, <1>4 DEF Sound, RowsNumbered, Numbered
  <2> QED BY <1>1, <2>1, <2>2, <2>3, <2>4 DEF EndsLine
<1> QED BY <1>6, <1>7, <1>8, <1>9 DEF Sound, PendingSound, Left, Begun, Begins

\* A line stands after all the others, and its number is above theirs.
LEMMA EndsLineWritten ==
  ASSUME Sound, NEW s \in Sessions, EndsLine(s, pending), Write
  PROVE  Sound' /\ Begun'
<1> DEFINE row == pending[1].value
<1>1. /\ pending = <<LineWrite(s, row)>>
      /\ row \in RowT /\ row.id < nextId[s] /\ Below(rows[s], row.id)
  BY DEF EndsLine
<1>2. Head(pending) = LineWrite(s, row) /\ Tail(pending) = <<>>
  BY <1>1, OneAndTwo, Zenon
<1>3. WriteLine(LineWrite(s, row)) /\ pending' = <<>>
      /\ UNCHANGED <<work, agent, told, read, count>>
  <2>1. LineWrite(s, row).to = "line"
    BY DEF LineWrite
  <2> QED BY <1>2, <2>1, WriteMakes
<1> HIDE DEF row
<1>4. /\ rows' = rows \/ rows' = [rows EXCEPT ![s] = Append(rows[s], row)]
      /\ torn' = [torn EXCEPT ![s] = FALSE]
      /\ history' = [history EXCEPT ![s] = history[s] \cup row.says]
      /\ dropped' = dropped \/ dropped' = dropped \cup row.says
      /\ UNCHANGED <<nextId, section, position, cursor, rewritten>>
  BY <1>3 DEF WriteLine, LineWrite
<1>5. nextId \in [Sessions -> Nat \ {0}] /\ rows \in [Sessions -> Seq(RowT)]
  BY DEF Sound, FilesTyped
<1>6. row.says \in SUBSET Texts /\ row.id \in Nat
  BY <1>1 DEF RowT
<1>7. FilesTyped' /\ RowsNumbered'
  <2>1. FilesTyped /\ RowsNumbered /\ rows[s] \in Seq(RowT) /\ nextId[s] \in Nat
    BY <1>5 DEF Sound
  <2>2. Append(rows[s], row) \in Seq(RowT) /\ Numbered(Append(rows[s], row), nextId[s])
    BY <1>1, <2>1, NumberedAppend DEF RowsNumbered
  <2>3. CASE rows' = rows
    <3>1. rows' = [rows EXCEPT ![s] = rows[s]]
      BY <1>5, <2>3
    <3> QED BY <1>4, <2>1, <3>1, RowsReplaced DEF RowsNumbered
  <2>4. CASE rows' = [rows EXCEPT ![s] = Append(rows[s], row)]
    BY <1>4, <2>1, <2>2, <2>4, RowsReplaced
  <2> QED BY <1>4, <2>3, <2>4
<1>8. WorkTyped' /\ GhostsTyped'
  BY <1>3, <1>4, <1>6, WorkTypedStays DEF Sound, GhostsTyped
<1>9. OnlyDrops(pending)'
  BY <1>3 DEF OnlyDrops
<1> QED BY <1>7, <1>8, <1>9 DEF Sound, PendingSound, Begun

\* The cursor is moved; the notice after it is left.
LEMMA MovesCursorWritten ==
  ASSUME Sound, MovesCursor(pending), Write
  PROVE  Sound' /\ Begun'
<1> DEFINE n == pending[1].value
<1>1. Head(pending) = CursorWrite(n) /\ n \in Nat /\ Appends(Main, Tail(pending))
  BY DEF MovesCursor
<1>2. WriteCursor(CursorWrite(n)) /\ pending' = Tail(pending)
      /\ UNCHANGED <<work, agent, told, read, count>>
  <2>1. CursorWrite(n).to = "cursor"
    BY DEF CursorWrite
  <2> QED BY <1>1, <2>1, WriteMakes
<1> HIDE DEF n
<1>3. cursor' = n
      /\ UNCHANGED <<rows, torn, nextId, section, position, history, dropped, rewritten>>
  BY <1>2 DEF WriteCursor, CursorWrite
<1>4. FilesTyped' /\ WorkTyped' /\ GhostsTyped' /\ RowsNumbered'
  BY <1>1, <1>2, <1>3, WorkTypedStays DEF Sound, FilesTyped, GhostsTyped, RowsNumbered
<1>5. Appends(Main, pending)'
  BY <1>1, <1>2, <1>3 DEF Appends
<1> QED BY <1>4, <1>5, SessionAssumption DEF Sound, PendingSound, Left, Begun, Begins

\* A session is emptied before its ids start again.
LEMMA ResetsWritten ==
  ASSUME Sound, NEW s \in Sessions, Resets(s, pending), Write
  PROVE  Sound' /\ Restarts(s, pending)'
<1> DEFINE w == RowsWrite(s, <<>>, "reset")
<1>1. Head(pending) = w /\ Tail(pending) = <<MetaWrite(s, 1)>>
  BY OneAndTwo, Zenon DEF Resets
<1>2. w.to = "rows" /\ w.s = s /\ w.value = <<>> /\ w.why = "reset"
  BY DEF RowsWrite
<1> HIDE DEF w
<1>3. WriteRows(w) /\ pending' = <<MetaWrite(s, 1)>>
      /\ UNCHANGED <<work, agent, told, read, count>>
  BY <1>1, <1>2, WriteMakes
<1>4. /\ rows' = [rows EXCEPT ![s] = <<>>] /\ torn' = [torn EXCEPT ![s] = FALSE]
      /\ history' = [history EXCEPT ![s] = {}] /\ dropped' = dropped \ history[s]
      /\ rewritten' = (rewritten \/ s = Main)
      /\ UNCHANGED <<nextId, section, position, cursor>>
  BY <1>2, <1>3 DEF WriteRows
<1>5. FilesTyped' /\ RowsNumbered' /\ rows'[s] = <<>>
  <2>1. Numbered(<<>>, nextId[s]) /\ <<>> \in Seq(RowT)
    BY DEF Numbered, Unique, Below
  <2> QED BY <1>4, <2>1, RowsReplaced DEF Sound
<1>6. WorkTyped' /\ GhostsTyped'
  BY <1>3, <1>4, WorkTypedStays DEF Sound, GhostsTyped
<1>7. Restarts(s, pending)'
  <2>1. Len(pending') = 1 /\ pending'[1] = MetaWrite(s, 1)
    BY <1>3
  <2>2. pending'[1].to = "meta"
    BY <2>1 DEF MetaWrite
  <2> QED BY <1>3, <1>5, <2>1, <2>2 DEF Restarts
<1> QED BY <1>5, <1>6, <1>7 DEF Sound, PendingSound, Left, Begun, Begins

\* The ids of an emptied session start again.
LEMMA RestartsWritten ==
  ASSUME Sound, NEW s \in Sessions, Restarts(s, pending), Write
  PROVE  Sound' /\ Begun'
<1>1. Head(pending) = MetaWrite(s, 1) /\ Tail(pending) = <<>> /\ rows[s] = <<>>
  BY OneAndTwo, Zenon DEF Restarts
<1>2. WriteMeta(MetaWrite(s, 1)) /\ pending' = <<>>
      /\ UNCHANGED <<work, agent, told, read, count>>
  <2>1. MetaWrite(s, 1).to = "meta"
    BY DEF MetaWrite
  <2> QED BY <1>1, <2>1, WriteMakes
<1>3. nextId' = [nextId EXCEPT ![s] = 1]
      /\ UNCHANGED <<rows, torn, section, position, cursor, history, dropped, rewritten>>
  BY <1>2 DEF WriteMeta, MetaWrite
<1>4. FilesTyped' /\ WorkTyped' /\ GhostsTyped'
  BY <1>2, <1>3, WorkTypedStays DEF Sound, FilesTyped, GhostsTyped
<1>5. RowsNumbered'
  <2>1. \A t \in Sessions \ {s} : nextId'[t] = nextId[t]
    BY <1>3 DEF Sound, FilesTyped
  <2>2. Numbered(<<>>, nextId'[s])
    BY DEF Numbered, Unique, Below
  <2> QED BY <1>1, <1>3, <2>1, <2>2 DEF Sound, RowsNumbered
<1>6. OnlyDrops(pending)'
  BY <1>2 DEF OnlyDrops
<1> QED BY <1>4, <1>5, <1>6 DEF Sound, PendingSound, Begun

\* The ids of the markers are taken; the rows are left.
LEMMA CountsWritten ==
  ASSUME Sound, NEW s \in Sessions, Counts(s, pending), Write
  PROVE  Sound' /\ Begun'
<1> DEFINE n == pending[1].value
           rs == pending[2].value
<1>1. /\ pending = <<MetaWrite(s, n), RowsWrite(s, rs, "count")>>
      /\ n \in Nat /\ n >= nextId[s] /\ rs \in Seq(RowT) /\ Numbered(rs, n)
  BY DEF Counts
<1>2. Head(pending) = MetaWrite(s, n) /\ Tail(pending) = <<RowsWrite(s, rs, "count")>>
  BY <1>1, OneAndTwo, Zenon
<1>3. WriteMeta(MetaWrite(s, n)) /\ pending' = <<RowsWrite(s, rs, "count")>>
      /\ UNCHANGED <<work, agent, told, read, count>>
  <2>1. MetaWrite(s, n).to = "meta"
    BY DEF MetaWrite
  <2> QED BY <1>2, <2>1, WriteMakes
<1> HIDE DEF n, rs
<1>4. nextId' = [nextId EXCEPT ![s] = n]
      /\ UNCHANGED <<rows, torn, section, position, cursor, history, dropped, rewritten>>
  BY <1>3 DEF WriteMeta, MetaWrite
<1>5. nextId \in [Sessions -> Nat \ {0}] /\ rows \in [Sessions -> Seq(RowT)]
  BY DEF Sound, FilesTyped
<1>6. FilesTyped' /\ nextId'[s] = n /\ \A t \in Sessions : nextId'[t] >= nextId[t]
  <2>1. n \in Nat \ {0}
    BY <1>1, <1>5
  <2> QED BY <1>1, <1>4, <2>1 DEF Sound, FilesTyped
<1>7. WorkTyped' /\ GhostsTyped'
  BY <1>3, <1>4, WorkTypedStays DEF Sound, GhostsTyped
<1>8. RowsNumbered'
  <2>1. SUFFICES ASSUME NEW t \in Sessions PROVE Numbered(rows[t], nextId'[t])
    BY <1>4 DEF RowsNumbered
  <2>2. Numbered(rows[t], nextId[t]) /\ \A i \in DOMAIN rows[t] : rows[t][i].id \in Nat
    BY <1>5, RowsAre DEF Sound, RowsNumbered
  <2>3. nextId[t] \in Nat /\ nextId'[t] \in Nat /\ nextId'[t] >= nextId[t]
    BY <1>5, <1>6 DEF FilesTyped
  <2> QED BY <2>2, <2>3 DEF Numbered, Below
<1>9. CountsRows(s, pending)'
  <2>1. Len(pending') = 1 /\ pending'[1] = RowsWrite(s, rs, "count")
    BY <1>3
  <2>2. pending'[1].to = "rows" /\ pending'[1].value = rs
    BY <2>1 DEF RowsWrite
  <2> QED BY <1>1, <1>3, <1>6, <2>1, <2>2 DEF CountsRows
<1> QED BY <1>6, <1>7, <1>8, <1>9 DEF Sound, PendingSound, Left, Begun, Begins

\* Other rows of the same session, which are numbered too.
LEMMA RowsWritten ==
  ASSUME Sound, NEW s \in Sessions, NEW rs \in Seq(RowT), NEW why,
         Head(pending) = RowsWrite(s, rs, why), Numbered(rs, nextId[s]), Write
  PROVE  FilesTyped' /\ WorkTyped' /\ GhostsTyped' /\ RowsNumbered' /\ pending' = Tail(pending)
<1> DEFINE w == RowsWrite(s, rs, why)
<1>1. w.to = "rows" /\ w.s = s /\ w.value = rs /\ w.why = why
  BY DEF RowsWrite
<1> HIDE DEF w
<1>2. WriteRows(w) /\ pending' = Tail(pending) /\ UNCHANGED <<work, agent, told, read, count>>
  BY <1>1, WriteMakes DEF w
<1>3. /\ rows' = [rows EXCEPT ![s] = rs] /\ torn' = [torn EXCEPT ![s] = FALSE]
      /\ history' = history \/ history' = [history EXCEPT ![s] = {}]
      /\ dropped' \in {dropped, dropped \ history[s],
                       dropped \cup UNION {r.says : r \in RowSet(rows[s]) \ RowSet(rs)}}
      /\ rewritten' = (rewritten \/ s = Main)
      /\ UNCHANGED <<nextId, section, position, cursor>>
  BY <1>1, <1>2 DEF WriteRows
<1>4. FilesTyped' /\ RowsNumbered'
  BY <1>3, RowsReplaced DEF Sound
<1>5. \A r \in RowSet(rows[s]) : r.says \in SUBSET Texts
  BY RowsAre DEF Sound, FilesTyped, RowSet
<1>6. dropped' \in SUBSET Texts
  <2>1. UNION {r.says : r \in RowSet(rows[s]) \ RowSet(rs)} \in SUBSET Texts
    BY <1>5
  <2> QED BY <1>3, <2>1 DEF Sound, GhostsTyped
<1>7. WorkTyped' /\ GhostsTyped'
  BY <1>2, <1>3, <1>6, WorkTypedStays DEF Sound, GhostsTyped
<1> QED BY <1>2, <1>4, <1>7

\* The markers and the rows that stay are written.
LEMMA CountsRowsWritten ==
  ASSUME Sound, NEW s \in Sessions, CountsRows(s, pending), Write
  PROVE  Sound' /\ Begun'
<1> DEFINE rs == pending[1].value
<1>1. /\ pending = <<RowsWrite(s, rs, "count")>>
      /\ rs \in Seq(RowT) /\ Numbered(rs, nextId[s])
  BY DEF CountsRows
<1>2. Head(pending) = RowsWrite(s, rs, "count") /\ Tail(pending) = <<>>
  BY <1>1, OneAndTwo, Zenon
<1> HIDE DEF rs
<1>3. FilesTyped' /\ WorkTyped' /\ GhostsTyped' /\ RowsNumbered' /\ pending' = <<>>
  BY <1>1, <1>2, RowsWritten
<1>4. OnlyDrops(pending)'
  BY <1>3 DEF OnlyDrops
<1> QED BY <1>3, <1>4 DEF Sound, PendingSound, Begun

\* Rows are shortened or folded; the deletions are left.
LEMMA AltersWritten ==
  ASSUME Sound, NEW s \in Sessions, Alters(s, pending), Write
  PROVE  Sound' /\ Begun'
<1> DEFINE rs == pending[1].value
<1>1. /\ Head(pending) = RowsWrite(s, rs, pending[1].why)
      /\ rs \in Seq(RowT) /\ SameIds(rs, rows[s]) /\ OnlyDrops(Tail(pending))
  BY DEF Alters
<1> HIDE DEF rs
<1>2. rows[s] \in Seq(RowT) /\ Numbered(rows[s], nextId[s])
  BY DEF Sound, FilesTyped, RowsNumbered
<1>3. Numbered(rs, nextId[s])
  <2>1. DOMAIN rs = DOMAIN rows[s] /\ \A i \in DOMAIN rs : rs[i].id = rows[s][i].id
    BY <1>1, <1>2 DEF SameIds
  <2> QED BY <1>2, <2>1 DEF Numbered, Unique, Below
<1>4. FilesTyped' /\ WorkTyped' /\ GhostsTyped' /\ RowsNumbered' /\ pending' = Tail(pending)
  BY <1>1, <1>3, RowsWritten
<1>5. OnlyDrops(pending)'
  BY <1>1, <1>4
<1> QED BY <1>4, <1>5 DEF Sound, PendingSound, Begun

\* Rows that are deleted leave the others with their ids.
LEMMA NumberedWithout ==
  ASSUME NEW rs \in Seq(RowT), NEW n, Numbered(rs, n), NEW gone
  PROVE  C!Without(rs, gone) \in Seq(RowT) /\ Numbered(C!Without(rs, gone), n)
<1> DEFINE new == C!Without(rs, gone)
<1>1. new \in Seq(RowT) /\ \E m, q : Leads(Len(rs), gone, m, q) /\ At(new, rs, m, q)
  BY WithoutEntries
<1> HIDE DEF new
<1>2. PICK m, q : Leads(Len(rs), gone, m, q) /\ At(new, rs, m, q)
  BY <1>1
<1>3. /\ DOMAIN new = 1 .. m /\ DOMAIN rs = 1 .. Len(rs) /\ m \in Nat
      /\ \A k \in 1 .. m : q[k] \in 1 .. Len(rs) /\ new[k] = rs[q[k]]
  <2>1. DOMAIN new = 1 .. Len(new) /\ DOMAIN rs = 1 .. Len(rs)
    BY <1>1
  <2>2. Len(new) = m /\ \A k \in 1 .. m : new[k] = rs[q[k]]
    BY <1>2 DEF At
  <2>3. m \in Nat /\ q \in [1 .. m -> 1 .. Len(rs)]
    BY <1>2 DEF Leads
  <2> QED BY <2>1, <2>2, <2>3
<1>4. ASSUME NEW i \in 1 .. m, NEW j \in 1 .. m, i # j PROVE q[i] # q[j]
  <2>1. i < j \/ j < i
    BY <1>3, <1>4
  <2>2. q[i] < q[j] \/ q[j] < q[i]
    BY <1>2, <2>1 DEF Leads
  <2> QED BY <1>3, <2>2
<1>5. Unique(new)
  BY <1>3, <1>4 DEF Numbered, Unique
<1>6. Below(new, n)
  BY <1>3 DEF Numbered, Below
<1> QED BY <1>1, <1>5, <1>6 DEF Numbered, new

\* Rows with the ids of a fold are deleted.
LEMMA DropsWritten ==
  ASSUME Sound, OnlyDrops(pending), Write
  PROVE  Sound' /\ Begun'
<1> DEFINE w == Head(pending)
<1>1. /\ pending # <<>> /\ pending \in Seq(DropT)
      /\ \A k, l \in DOMAIN pending : pending[k].value = pending[l].value
  BY WriteMakes DEF OnlyDrops
<1>2. w \in DropT /\ Tail(pending) \in Seq(DropT) /\ Len(Tail(pending)) = Len(pending) - 1
      /\ \A i \in 1 .. Len(Tail(pending)) : Tail(pending)[i] = pending[i + 1]
  BY <1>1, HeadTailProperties
<1>3. w.to = "drop" /\ w.s \in Sessions
  BY <1>2 DEF DropT
<1>4. WriteDrop(w) /\ pending' = Tail(pending) /\ UNCHANGED <<work, agent, told, read, count>>
  BY <1>3, WriteMakes
<1>5. OnlyDrops(pending)'
  <2>1. \A i \in DOMAIN Tail(pending) : i \in 1 .. Len(Tail(pending)) /\ i + 1 \in DOMAIN pending
    BY <1>1, <1>2
  <2> QED BY <1>1, <1>2, <1>4, <2>1 DEF OnlyDrops
<1> HIDE DEF w
<1> DEFINE s == w.s
           gone == {i \in DOMAIN rows[s] : rows[s][i].id \in w.value}
<1>6. /\ rows' = [rows EXCEPT ![s] = C!Without(rows[s], gone)]
      /\ torn' = torn \/ torn' = [torn EXCEPT ![s] = FALSE]
      /\ rewritten' = (rewritten \/ s = Main)
      /\ UNCHANGED <<nextId, section, position, cursor, history, dropped>>
  BY <1>3, <1>4 DEF WriteDrop, Sound, FilesTyped
<1> HIDE DEF gone
<1>7. FilesTyped' /\ RowsNumbered'
  <2>1. rows[s] \in Seq(RowT) /\ Numbered(rows[s], nextId[s])
    BY <1>3 DEF Sound, FilesTyped, RowsNumbered
  <2>2. C!Without(rows[s], gone) \in Seq(RowT) /\ Numbered(C!Without(rows[s], gone), nextId[s])
    BY <2>1, NumberedWithout
  <2> QED BY <1>3, <1>6, <2>2, RowsReplaced DEF Sound
<1>8. WorkTyped' /\ GhostsTyped'
  BY <1>4, <1>6, WorkTypedStays DEF Sound, GhostsTyped
<1> QED BY <1>5, <1>7, <1>8 DEF Sound, PendingSound, Begun

\* The position of the flush is written.
LEMMA PositionWritten ==
  ASSUME Sound, NEW s \in Sessions, NEW n \in Nat, Head(pending) = PositionWrite(s, n), Write
  PROVE  /\ FilesTyped' /\ WorkTyped' /\ GhostsTyped' /\ RowsNumbered'
         /\ pending' = Tail(pending)
<1>1. WritePosition(PositionWrite(s, n)) /\ pending' = Tail(pending)
      /\ UNCHANGED <<work, agent, told, read, count>>
  <2>1. PositionWrite(s, n).to = "position"
    BY DEF PositionWrite
  <2> QED BY <2>1, WriteMakes
<1>2. /\ position' = position \/ position' = [position EXCEPT ![s] = n]
      /\ UNCHANGED <<rows, torn, nextId, section, cursor, history, dropped, rewritten>>
  <2>1. position' = [position EXCEPT ![s] = IF n > @ THEN n ELSE @]
        /\ UNCHANGED <<rows, torn, nextId, section, cursor, history, dropped, rewritten>>
    BY <1>1 DEF WritePosition, PositionWrite
  <2> QED BY <2>1 DEF Sound, FilesTyped
<1> QED BY <1>1, <1>2, WorkTypedStays DEF Sound, FilesTyped, GhostsTyped, RowsNumbered

\* A message is filed; the position after it is left.
LEMMA FilesWritten ==
  ASSUME Sound, NEW s \in Sessions, Files(s, pending) \/ Advances(s, pending), Write
  PROVE  Sound' /\ Begun'
<1>1. CASE Files(s, pending)
  <2> DEFINE row == pending[1].value
             n == pending[2].value
  <2>1. pending = <<SectionWrite(s, row), PositionWrite(s, n)>> /\ n \in Nat
    BY <1>1 DEF Files
  <2>2. Head(pending) = SectionWrite(s, row) /\ Tail(pending) = <<PositionWrite(s, n)>>
    BY <2>1, OneAndTwo, Zenon
  <2> HIDE DEF row, n
  <2>3. WriteSection(SectionWrite(s, row)) /\ pending' = <<PositionWrite(s, n)>>
        /\ UNCHANGED <<work, agent, told, read, count>>
    <3>1. SectionWrite(s, row).to = "section"
      BY DEF SectionWrite
    <3> QED BY <2>2, <3>1, WriteMakes
  <2>4. UNCHANGED <<rows, torn, nextId, position, cursor, history, dropped, rewritten>>
    BY <2>3 DEF WriteSection
  <2>5. FilesTyped' /\ WorkTyped' /\ GhostsTyped' /\ RowsNumbered'
    BY <2>3, <2>4, WorkTypedStays DEF Sound, FilesTyped, GhostsTyped, RowsNumbered
  <2>6. Advances(s, pending)'
    <3>1. Len(pending') = 1 /\ pending'[1] = PositionWrite(s, n)
      BY <2>3
    <3>2. pending'[1].to = "position" /\ pending'[1].value = n
      BY <3>1 DEF PositionWrite
    <3> QED BY <2>1, <2>3, <3>1, <3>2 DEF Advances
  <2> QED BY <2>5, <2>6 DEF Sound, PendingSound, Left, Begun, Begins
<1>2. CASE Advances(s, pending)
  <2> DEFINE n == pending[1].value
  <2>1. pending = <<PositionWrite(s, n)>> /\ n \in Nat
    BY <1>2 DEF Advances
  <2>2. Head(pending) = PositionWrite(s, n) /\ Tail(pending) = <<>>
    BY <2>1, OneAndTwo, Zenon
  <2> HIDE DEF n
  <2>3. /\ FilesTyped' /\ WorkTyped' /\ GhostsTyped' /\ RowsNumbered' /\ pending' = <<>>
    BY <2>1, <2>2, PositionWritten
  <2>4. OnlyDrops(pending)'
    BY <2>3 DEF OnlyDrops
  <2> QED BY <2>3, <2>4 DEF Sound, PendingSound, Begun
<1> QED BY <1>1, <1>2

\* A write leaves the store sound.
LEMMA WriteSound == Sound /\ Write => Sound'
<1> SUFFICES ASSUME Sound, Write PROVE Sound'
  OBVIOUS
<1>1. CASE OnlyDrops(pending)
  BY <1>1, DropsWritten
<1>2. CASE MovesCursor(pending)
  BY <1>2, MovesCursorWritten
<1>3. ASSUME NEW s \in Sessions, Left(s) PROVE Sound'
  BY <1>3, AppendsWritten, EndsLineWritten, ResetsWritten, RestartsWritten, CountsWritten,
     CountsRowsWritten, AltersWritten, FilesWritten DEF Left
<1> QED BY <1>1, <1>2, <1>3 DEF Sound, PendingSound

-----------------------------------------------------------------------------
(* What the handlers compute.                                              *)

\* The least of some naturals.
LEMMA LeastIs ==
  ASSUME NEW S \in SUBSET Nat, S # {}
  PROVE  Least(S) \in S /\ \A m \in S : Least(S) <= m
<1>1. PICK n \in S : \A m \in S : ~ (m < n)
  BY Smallest
<1>2. \A m \in S : n <= m
  BY <1>1
<1> QED BY <1>2 DEF Least

\* The rows before the zone are rows.
LEMMA HeadCountIs ==
  ASSUME NEW rs \in Seq(RowT)
  PROVE  HeadCount(rs) \in 0 .. Len(rs)
<1> DEFINE leads == {i \in 1 .. Len(rs) + 1 : i = Len(rs) + 1 \/ rs[i].role # "system"}
           lead == Least(leads)
           users == UserRows(rs)
           first == Least(users)
           answers == {i \in DOMAIN rs : /\ rs[i].role = "assistant" /\ first < i
                                         /\ \A u \in users : u <= first \/ i < u}
<1>1. Len(rs) \in Nat /\ DOMAIN rs = 1 .. Len(rs)
  OBVIOUS
<1>2. lead \in 1 .. Len(rs) + 1
  <2>1. Len(rs) + 1 \in leads /\ leads \in SUBSET Nat
    BY <1>1
  <2> HIDE DEF leads
  <2>2. lead \in leads
    BY <2>1, LeastIs
  <2> QED BY <2>2 DEF leads
<1>3. users # {} => first \in 1 .. Len(rs)
  <2>1. users \in SUBSET (1 .. Len(rs))
    BY <1>1 DEF UserRows
  <2>2. users \in SUBSET Nat
    BY <2>1
  <2> HIDE DEF users
  <2> QED BY <2>1, <2>2, LeastIs
<1>4. answers # {} => Least(answers) \in 1 .. Len(rs)
  <2>1. answers \in SUBSET (1 .. Len(rs))
    BY <1>1
  <2> HIDE DEF answers
  <2>2. answers \in SUBSET Nat
    BY <2>1
  <2> QED BY <2>1, <2>2, LeastIs
<1>5. HeadCount(rs) = IF users = {} THEN lead - 1
                      ELSE IF answers = {} THEN first ELSE Least(answers)
  BY DEF HeadCount
<1> HIDE DEF lead, users, first, answers
<1> QED BY <1>1, <1>2, <1>3, <1>4, <1>5

\* The last of some numbers.
LEMMA Greatest ==
  ASSUME NEW n \in Nat, NEW S \in SUBSET (1 .. n), S # {}
  PROVE  \E g \in S : \A m \in S : m <= g
<1> DEFINE T == {n - m : m \in S}
<1>1. T \in SUBSET Nat /\ T # {}
  <2>1. \A m \in S : m \in 1 .. n /\ n - m \in Nat
    OBVIOUS
  <2> QED BY <2>1
<1>2. PICK t \in T : \A m \in T : ~ (m < t)
  BY <1>1, Smallest
<1>3. PICK g \in S : t = n - g
  BY <1>2
<1>4. ASSUME NEW m \in S PROVE m <= g
  <2>1. ~ (n - m < n - g)
    BY <1>2, <1>3
  <2> QED BY <2>1
<1> QED BY <1>4

\* The protected tail begins at a row, or after the last.
LEMMA TailStartIs ==
  ASSUME NEW rs \in Seq(RowT)
  PROVE  TailStart(rs) \in 1 .. Len(rs) + 1
<1> DEFINE users == UserRows(rs)
           late == {i \in users : Cardinality({u \in users : u >= i}) <= ProtectTail}
<1>1. Len(rs) \in Nat /\ DOMAIN rs = 1 .. Len(rs)
  OBVIOUS
<1>2. users \in SUBSET (1 .. Len(rs))
  BY <1>1 DEF UserRows
<1>3. TailStart(rs) = IF users = {} THEN Len(rs) + 1 ELSE Least(late)
  BY DEF TailStart
<1> HIDE DEF users
<1>4. CASE users # {}
  <2>1. PICK g \in users : \A m \in users : m <= g
    BY <1>1, <1>2, <1>4, Greatest
  <2>2. {u \in users : u >= g} = {g}
    <3>1. \A u \in users : u \in 1 .. Len(rs)
      BY <1>2
    <3>2. \A u \in users : u >= g => u = g
      BY <1>1, <2>1, <3>1
    <3>3. g >= g
      BY <1>1, <3>1
    <3> QED BY <3>2, <3>3
  <2>3. Cardinality({u \in users : u >= g}) = 1
    BY <2>2, FS_Singleton
  <2>4. g \in late
    BY <2>3, SessionAssumption
  <2>5. late \in SUBSET users
    OBVIOUS
  <2> HIDE DEF late
  <2>6. late \in SUBSET Nat /\ late # {}
    BY <1>2, <2>4, <2>5
  <2>7. Least(late) \in users
    BY <2>5, <2>6, LeastIs
  <2>8. TailStart(rs) \in 1 .. Len(rs)
    BY <1>2, <1>3, <1>4, <2>7
  <2> QED BY <1>1, <2>8
<1> QED BY <1>1, <1>3, <1>4

\* The zone is the rows between.
LEMMA ZoneIs ==
  ASSUME NEW rs \in Seq(RowT)
  PROVE  /\ Zone(rs) \in Seq(RowT) /\ HeadCount(rs) \in Nat
         /\ Len(Zone(rs)) > 0 => HeadCount(rs) + Len(Zone(rs)) <= Len(rs)
         /\ \A k \in 1 .. Len(Zone(rs)) : Zone(rs)[k] = rs[HeadCount(rs) + k]
<1> DEFINE h == HeadCount(rs)
           t == TailStart(rs)
<1>1. Len(rs) \in Nat /\ h \in 0 .. Len(rs) /\ t \in 1 .. Len(rs) + 1
      /\ \A i \in 1 .. Len(rs) : rs[i] \in RowT
  BY HeadCountIs, TailStartIs
<1>2. Zone(rs) = SubSeq(rs, h + 1, t - 1)
  BY DEF Zone
<1> HIDE DEF h, t
<1>3. h + 1 \in Int /\ t - 1 \in Int /\ \A i \in h + 1 .. t - 1 : rs[i] \in RowT
  BY <1>1
<1>4. /\ SubSeq(rs, h + 1, t - 1) \in Seq(RowT)
      /\ Len(SubSeq(rs, h + 1, t - 1)) =
           IF h + 1 <= t - 1 THEN (t - 1) - (h + 1) + 1 ELSE 0
      /\ \A i \in 1 .. (t - 1) - (h + 1) + 1 : SubSeq(rs, h + 1, t - 1)[i] = rs[h + 1 + i - 1]
  BY <1>3, SubSeqProperties
<1>5. Len(Zone(rs)) = IF h + 1 <= t - 1 THEN t - 1 - h ELSE 0
  BY <1>1, <1>2, <1>4
<1>6. \A k \in 1 .. Len(Zone(rs)) : Zone(rs)[k] = rs[h + k]
  <2> TAKE k \in 1 .. Len(Zone(rs))
  <2>1. k \in 1 .. (t - 1) - (h + 1) + 1 /\ h + 1 + k - 1 = h + k
    BY <1>1, <1>5
  <2> QED BY <1>2, <1>4, <2>1
<1>7. Len(Zone(rs)) > 0 => h + Len(Zone(rs)) <= Len(rs)
  BY <1>1, <1>5
<1> QED BY <1>1, <1>2, <1>4, <1>6, <1>7 DEF h

\* The ids of rows but the first.
LEMMA IdsAre ==
  ASSUME NEW zone \in Seq(RowT), Len(zone) > 1
  PROVE  /\ zone[1] \in RowT /\ zone[1].id \in Nat /\ Said(zone) \in SUBSET Texts
         /\ IdsOf(Tail(zone)) = {zone[k].id : k \in 2 .. Len(zone)}
         /\ IdsOf(Tail(zone)) \in SUBSET Nat
<1>1. /\ zone # <<>> /\ 1 \in DOMAIN zone /\ DOMAIN zone = 1 .. Len(zone) /\ Len(zone) \in Nat
      /\ \A i \in DOMAIN zone : zone[i] \in RowT /\ zone[i].id \in Nat /\ zone[i].says \in SUBSET Texts
  BY RowsAre
<1>2. /\ Tail(zone) \in Seq(RowT) /\ Len(Tail(zone)) = Len(zone) - 1
      /\ \A i \in 1 .. Len(Tail(zone)) : Tail(zone)[i] = zone[i + 1]
  BY <1>1, HeadTailProperties
<1>3. DOMAIN Tail(zone) = 1 .. Len(zone) - 1
  BY <1>2
<1>4. IdsOf(Tail(zone)) = {zone[i + 1].id : i \in 1 .. Len(zone) - 1}
  BY <1>2, <1>3 DEF IdsOf
<1>5. \A k \in 2 .. Len(zone) : k - 1 \in 1 .. Len(zone) - 1 /\ k = (k - 1) + 1
  BY <1>1
<1>6. \A i \in 1 .. Len(zone) - 1 : i + 1 \in 2 .. Len(zone)
  BY <1>1
<1>7. IdsOf(Tail(zone)) = {zone[k].id : k \in 2 .. Len(zone)}
  BY <1>4, <1>5, <1>6
<1>8. \A k \in 2 .. Len(zone) : zone[k].id \in Nat
  BY <1>1
<1> QED BY <1>1, <1>7, <1>8 DEF Said

\* A finite set can be gone through.
LEMMA Enumeration ==
  ASSUME NEW W \in SUBSET Sessions
  PROVE  /\ Cardinality(W) \in Nat
         /\ \E f \in [1 .. Cardinality(W) -> W] : \A x \in W : \E i \in DOMAIN f : f[i] = x
<1>1. IsFiniteSet(W)
  BY SessionAssumption, FS_Subset
<1>2. Cardinality(W) \in Nat /\ ExistsBijection(1 .. Cardinality(W), W)
  BY <1>1, FS_CardinalityType
<1>3. PICK f : f \in Surjection(1 .. Cardinality(W), W)
  BY <1>2 DEF ExistsBijection, Bijection
<1> QED BY <1>2, <1>3 DEF Surjection

\* Each session of a set is told once to delete the same rows.
LEMMA DropsAre ==
  ASSUME NEW W \in SUBSET Sessions, NEW ids \in SUBSET Nat
  PROVE  /\ OnlyDrops(Drops(W, ids))
         /\ \A k \in DOMAIN Drops(W, ids) : /\ Drops(W, ids)[k].to = "drop"
                                            /\ Drops(W, ids)[k].s \in W
                                            /\ Drops(W, ids)[k].value = ids
<1> DEFINE n == Cardinality(W)
           order == CHOOSE f \in [1 .. n -> W] : \A x \in W : \E i \in DOMAIN f : f[i] = x
           q == [i \in DOMAIN order |-> DropWrite(order[i], ids)]
<1>1. n \in Nat /\ order \in [1 .. n -> W]
  BY Enumeration
<1>2. Drops(W, ids) = q
  BY DEF Drops
<1> HIDE DEF n, order
<1>3. /\ DOMAIN q = 1 .. n
      /\ \A i \in 1 .. n : /\ q[i] = DropWrite(order[i], ids) /\ order[i] \in W
  BY <1>1
<1> HIDE DEF q
<1>4. \A i \in 1 .. n : /\ q[i] \in DropT
                        /\ q[i].to = "drop" /\ q[i].s \in W /\ q[i].value = ids
  <2>1. ASSUME NEW x \in W
        PROVE  /\ DropWrite(x, ids) \in DropT /\ DropWrite(x, ids).to = "drop"
               /\ DropWrite(x, ids).s = x /\ DropWrite(x, ids).value = ids
    <3>1. x \in Sessions
      OBVIOUS
    <3> QED BY <3>1 DEF DropWrite, DropT
  <2> QED BY <1>3, <2>1
<1>5. q \in Seq(DropT)
  <2>1. q = [i \in 1 .. n |-> q[i]]
    BY <1>1, <1>3 DEF q
  <2>2. \A i \in 1 .. n : q[i] \in DropT
    BY <1>4
  <2> QED BY <1>1, <2>1, <2>2
<1> QED BY <1>2, <1>3, <1>4, <1>5 DEF OnlyDrops

\* One write before others.
LEMMA OneBefore ==
  ASSUME NEW A, NEW q \in Seq(A), NEW w
  PROVE  /\ <<w>> \o q # <<>> /\ (<<w>> \o q)[1] = w
         /\ Head(<<w>> \o q) = w /\ Tail(<<w>> \o q) = q
         /\ Len(<<w>> \o q) = Len(q) + 1 /\ DOMAIN (<<w>> \o q) = 1 .. Len(q) + 1
         /\ \A k \in 1 .. Len(q) : (<<w>> \o q)[k + 1] = q[k]
         /\ \A i \in DOMAIN (<<w>> \o q) : i # 1 =>
              i - 1 \in DOMAIN q /\ (<<w>> \o q)[i] = q[i - 1]
<1> DEFINE B == A \cup {w}
           r == <<w>> \o q
<1>1. <<w>> \in Seq(B) /\ q \in Seq(B) /\ Len(<<w>>) = 1 /\ Len(q) \in Nat
  BY SeqMonotonic
<1> HIDE DEF B
<1>2. /\ r \in Seq(B) /\ Len(r) = 1 + Len(q)
      /\ \A i \in 1 .. 1 + Len(q) : r[i] = IF i <= 1 THEN <<w>>[i] ELSE q[i - 1]
  BY <1>1, ConcatProperties
<1> HIDE DEF r
<1>3. r # <<>> /\ r[1] = w /\ Head(r) = w
  BY <1>1, <1>2
<1>4. \A k \in 1 .. Len(q) : r[k + 1] = q[k]
  <2> TAKE k \in 1 .. Len(q)
  <2>1. k + 1 \in 1 .. 1 + Len(q) /\ ~ (k + 1 <= 1) /\ (k + 1) - 1 = k
    BY <1>1
  <2> QED BY <1>2, <2>1
<1>5. Tail(r) = q
  <2>1. /\ Tail(r) \in Seq(B) /\ Len(Tail(r)) = Len(q)
        /\ \A i \in 1 .. Len(Tail(r)) : Tail(r)[i] = r[i + 1]
    BY <1>1, <1>2, <1>3, HeadTailProperties
  <2> QED BY <1>1, <1>4, <2>1, SeqEqual
<1>6. \A i \in DOMAIN r : i # 1 => i - 1 \in DOMAIN q /\ r[i] = q[i - 1]
  <2>1. DOMAIN r = 1 .. 1 + Len(q) /\ DOMAIN q = 1 .. Len(q)
    BY <1>1, <1>2
  <2> SUFFICES ASSUME NEW i \in DOMAIN r, i # 1 PROVE i - 1 \in DOMAIN q /\ r[i] = q[i - 1]
    OBVIOUS
  <2>2. i \in 1 .. 1 + Len(q) /\ ~ (i <= 1) /\ i - 1 \in 1 .. Len(q)
    BY <1>1, <2>1
  <2> QED BY <1>2, <2>1, <2>2
<1>7. Len(r) = Len(q) + 1 /\ DOMAIN r = 1 .. Len(q) + 1
  BY <1>1, <1>2
<1> QED BY <1>3, <1>4, <1>5, <1>6, <1>7 DEF r

\* Two sequences of one.
LEMMA TwoJoined ==
  \A a, b : /\ <<a>> \o <<b>> = <<a, b>>
            /\ <<a, b>> \in Seq({a, b}) /\ DOMAIN <<a, b>> = 1 .. 2
<1> SUFFICES ASSUME NEW a, NEW b
             PROVE  /\ <<a>> \o <<b>> = <<a, b>>
                    /\ <<a, b>> \in Seq({a, b}) /\ DOMAIN <<a, b>> = 1 .. 2
  OBVIOUS
<1>1. /\ <<a>> \in Seq({a, b}) /\ <<b>> \in Seq({a, b}) /\ Len(<<a>>) = 1 /\ Len(<<b>>) = 1
      /\ <<a, b>> \in Seq({a, b}) /\ Len(<<a, b>>) = 2 /\ DOMAIN <<a, b>> = 1 .. 2
  OBVIOUS
<1> DEFINE r == <<a>> \o <<b>>
<1>2. /\ r \in Seq({a, b}) /\ Len(r) = 1 + 1
      /\ \A i \in 1 .. 1 + 1 : r[i] = IF i <= 1 THEN <<a>>[i] ELSE <<b>>[i - 1]
  BY <1>1, ConcatProperties
<1> HIDE DEF r
<1>3. Len(r) = 2 /\ r[1] = a /\ r[2] = b
  BY <1>2
<1>4. \A i \in 1 .. 2 : r[i] = <<a, b>>[i]
  BY <1>3
<1>5. r = <<a, b>>
  BY <1>1, <1>2, <1>3, <1>4, SeqEqual
<1> QED BY <1>1, <1>5 DEF r

\* rs are the rows of s, the first with this id saying S.
Folded(s, id, S, i, rs) ==
  /\ i \in DOMAIN rows[s] /\ rs \in Seq(RowT)
  /\ Rewritten(s, id, S) = RowsWrite(s, rs, "fold")
  /\ rows[s][i].id = id /\ \A j \in 1 .. i - 1 : rows[s][j].id # id
  /\ Len(rs) = Len(rows[s]) /\ rs[i].id = id /\ rs[i].says = S
  /\ \A j \in DOMAIN rs : j # i => rs[j] = rows[s][j]

\* A row is folded where it is, and keeps its id.
LEMMA RewrittenIs ==
  ASSUME FilesTyped, NEW s \in Sessions, NEW id, id \in IdsOf(rows[s]), NEW S \in SUBSET Texts
  PROVE  \E i, rs : Folded(s, id, S, i, rs)
<1> DEFINE old == rows[s]
           these == {j \in DOMAIN rows[s] : rows[s][j].id = id}
           i == Least(these)
           row == [rows[s][i] EXCEPT !.says = S, !.long = FALSE]
           rs == [rows[s] EXCEPT ![i] = row]
<1>1. old \in Seq(RowT) /\ DOMAIN old = 1 .. Len(old) /\ Len(old) \in Nat
      /\ \A j \in DOMAIN old : old[j] \in RowT
  BY RowsAre DEF FilesTyped
<1>2. these # {} /\ these \in SUBSET Nat
  BY <1>1 DEF IdsOf
<1>3. i \in these /\ \A m \in these : i <= m
  BY <1>2, LeastIs
<1>4. Rewritten(s, id, S) = RowsWrite(s, rs, "fold")
  BY DEF Rewritten
<1> HIDE DEF i
<1>5. i \in 1 .. Len(old) /\ old[i].id = id /\ \A j \in 1 .. i - 1 : old[j].id # id
  BY <1>1, <1>3
<1>6. row \in RowT /\ row.id = id /\ row.says = S
  BY <1>1, <1>5 DEF RowT
<1> HIDE DEF row
<1>7. rs \in Seq(RowT) /\ Len(rs) = Len(old) /\ rs[i] = row
      /\ \A j \in DOMAIN rs : j # i => rs[j] = old[j]
  BY <1>1, <1>5, <1>6
<1> HIDE DEF rs
<1>8. Folded(s, id, S, i, rs)
  BY <1>1, <1>4, <1>5, <1>6, <1>7 DEF Folded
<1> QED BY <1>8

\* What a fold lists keeps rows and ids as an invariant needs them.
LEMMA FoldedIs ==
  ASSUME FilesTyped, NEW id \in Nat, NEW S \in SUBSET Texts, NEW others \in SUBSET Nat,
         NEW W \in SUBSET Sessions, FoldedBy(id, S, others, W), rows' = rows
  PROVE  OnlyDrops(pending)' \/ \E s \in Sessions : Alters(s, pending)'
<1>1. OnlyDrops(Drops(W, others))
  BY DropsAre
<1>2. CASE pending' = Drops(W, others)
  BY <1>1, <1>2
<1>3. ASSUME NEW t \in W, id \in IdsOf(rows[t]),
             pending' = <<Rewritten(t, id, S)>> \o Drops(W, others)
      PROVE  Alters(t, pending)'
  <2>1. PICK i, rs : Folded(t, id, S, i, rs)
    BY <1>3, RewrittenIs
  <2>2. SameIds(rs, rows[t]) /\ rs \in Seq(RowT) /\ Rewritten(t, id, S) = RowsWrite(t, rs, "fold")
    BY <2>1 DEF SameIds, Folded
  <2> DEFINE w == RowsWrite(t, rs, "fold")
  <2>3. w.to = "rows" /\ w.value = rs /\ w.why = "fold"
    BY DEF RowsWrite
  <2>4. /\ pending' # <<>> /\ pending'[1] = w /\ Head(pending') = w
        /\ Tail(pending') = Drops(W, others) /\ pending' = <<w>> \o Drops(W, others)
    BY <1>1, <1>3, <2>2, OneBefore DEF OnlyDrops
  <2> QED BY <1>1, <2>2, <2>3, <2>4 DEF Alters
<1> QED BY <1>2, <1>3 DEF FoldedBy

\* The markers of a count are at most three, say nothing and take fresh ids.
LEMMA MarkersAre ==
  ASSUME FilesTyped, NEW s \in Sessions, NEW gone
  PROVE  LET marks == Markers(s, gone) IN
         /\ marks \in Seq(RowT) /\ Len(marks) \in 0 .. 3
         /\ \A i \in 1 .. Len(marks) : marks[i].id = nextId[s] + i - 1 /\ marks[i].says = {}
<1> DEFINE roles == {gone[i].role : i \in DOMAIN gone}
           has(role) == IF role \in roles
                        THEN <<IF role = "system" THEN "system" ELSE "assistant">> ELSE <<>>
           said == has("system") \o has("user") \o has("assistant")
           marks == Markers(s, gone)
           A == {"system", "assistant"}
<1>1. marks = [i \in DOMAIN said |-> Row(nextId[s] + i - 1, said[i], {})]
  BY DEF Markers
<1>2. ASSUME NEW role PROVE has(role) \in Seq(A) /\ Len(has(role)) \in 0 .. 1
  <2>1. \A x \in A : <<x>> \in Seq(A) /\ Len(<<x>>) = 1
    OBVIOUS
  <2>2. <<>> \in Seq(A) /\ Len(<<>>) = 0
    OBVIOUS
  <2> DEFINE x == IF role = "system" THEN "system" ELSE "assistant"
  <2>3. x \in A
    OBVIOUS
  <2>4. has(role) = <<x>> \/ has(role) = <<>>
    BY Zenon
  <2> HIDE DEF has, x, A
  <2>5. 0 \in 0 .. 1 /\ 1 \in 0 .. 1
    OBVIOUS
  <2> QED BY <2>1, <2>2, <2>3, <2>4, <2>5, Zenon
<1> HIDE DEF has
<1>3. said \in Seq(A) /\ Len(said) \in 0 .. 3
  <2>1. has("system") \o has("user") \in Seq(A) /\ Len(has("system") \o has("user")) \in 0 .. 2
    BY <1>2, ConcatProperties
  <2> DEFINE two == has("system") \o has("user")
  <2> HIDE DEF two
  <2>2. two \o has("assistant") \in Seq(A) /\ Len(two \o has("assistant")) = Len(two) + Len(has("assistant"))
    BY <1>2, <2>1, ConcatProperties DEF two
  <2>3. Len(two) \in 0 .. 2 /\ Len(has("assistant")) \in 0 .. 1
    BY <1>2, <2>1 DEF two
  <2>4. \A a \in 0 .. 2, b \in 0 .. 1 : a + b \in 0 .. 3
    OBVIOUS
  <2>5. Len(two) + Len(has("assistant")) \in 0 .. 3
    BY <2>3, <2>4
  <2>6. said = two \o has("assistant")
    BY DEF two
  <2> QED BY <2>2, <2>5, <2>6
<1> HIDE DEF said
<1>4. DOMAIN said = 1 .. Len(said) /\ \A i \in DOMAIN said : said[i] \in A
  BY <1>3
<1>5. nextId[s] \in Nat
  BY DEF FilesTyped
<1>6. ASSUME NEW i \in 1 .. Len(said)
      PROVE  /\ Row(nextId[s] + i - 1, said[i], {}) \in RowT
             /\ Row(nextId[s] + i - 1, said[i], {}).id = nextId[s] + i - 1
             /\ Row(nextId[s] + i - 1, said[i], {}).says = {}
  <2>1. said[i] \in Roles /\ nextId[s] + i - 1 \in Nat
    BY <1>3, <1>4, <1>5 DEF Roles
  <2> QED BY <2>1 DEF Row, RowT
<1>7. Len(marks) = Len(said) /\ marks \in Seq(RowT)
  <2>1. marks = [i \in 1 .. Len(said) |-> Row(nextId[s] + i - 1, said[i], {})]
    BY <1>1, <1>4
  <2> HIDE DEF marks
  <2>2. Len(said) \in Nat
    BY <1>3
  <2>3. marks \in Seq(RowT)
    BY <1>6, <2>1, <2>2
  <2> QED BY <2>1, <2>2, <2>3
<1>8. \A i \in 1 .. Len(said) : marks[i] = Row(nextId[s] + i - 1, said[i], {})
  BY <1>1, <1>4
<1> HIDE DEF marks
<1> QED BY <1>3, <1>6, <1>7, <1>8 DEF marks

-----------------------------------------------------------------------------
(* The handlers.                                                           *)

\* What a handler leaves alone.
LEMMA FilesStay ==
  ASSUME Sound, UNCHANGED <<rows, torn, nextId, position, cursor>>
  PROVE  FilesTyped' /\ RowsNumbered'
BY DEF Sound, FilesTyped, RowsNumbered

\* What leaves the history alone keeps its types.
LEMMA GhostsStay ==
  ASSUME Sound, UNCHANGED <<history, rewritten>>, told' \in 0 .. MaxTexts,
         dropped' \in SUBSET Texts, read' \in SUBSET Texts
  PROVE  GhostsTyped'
BY DEF Sound, GhostsTyped

\* A message to append, told by a handler that changes no file.
LEMMA AppendsNext ==
  ASSUME FilesTyped, NEW s \in Sessions, NEW role \in Roles, NEW S \in SUBSET Texts,
         pending' = AppendWrites(s, role, S), UNCHANGED <<rows, nextId>>
  PROVE  Appends(s, pending)'
<1> DEFINE row == Row(nextId[s], role, S)
<1>1. pending' = <<MetaWrite(s, nextId[s] + 1), LineWrite(s, row)>>
  BY DEF AppendWrites
<1>2. row \in RowT /\ row.id = nextId[s]
  BY DEF Row, RowT, FilesTyped
<1> HIDE DEF row
<1>3. Len(pending') = 2 /\ pending'[1] = MetaWrite(s, nextId[s] + 1)
      /\ pending'[2] = LineWrite(s, row)
  BY <1>1
<1>4. pending'[1].to = "meta" /\ pending'[2].to = "line" /\ pending'[2].value = row
  BY <1>3 DEF MetaWrite, LineWrite
<1> QED BY <1>1, <1>2, <1>3, <1>4 DEF Appends

\* What a handler begins is sound.
LEMMA BegunSound == Begun' => PendingSound'
BY DEF Begun, Begins, PendingSound, Left

\* What a turn of the session lists when it stores a message.
LEMMA SayNext ==
  ASSUME Sound, NEW s \in Sessions, Say(s)
  PROVE  Begun' /\ told + 1 \in 0 .. MaxTexts
<1>1. told + 1 \in Texts /\ told + 1 \in 0 .. MaxTexts
  BY SessionAssumption DEF Say, Sound, GhostsTyped, Texts
<1>2. PICK role \in {"user", "assistant"} : pending' = AppendWrites(s, role, {told + 1})
  BY DEF Say
<1>3. role \in Roles /\ {told + 1} \in SUBSET Texts /\ UNCHANGED <<rows, nextId>>
  BY <1>1 DEF Say, files, Roles
<1>4. Appends(s, pending)'
  BY <1>2, <1>3, AppendsNext DEF Sound
<1> QED BY <1>1, <1>4 DEF Begun, Begins

\* Storing a message keeps the invariant.
LEMMA SaySound ==
  ASSUME Sound, NEW s \in Sessions, Say(s)
  PROVE  Sound'
<1>1. FilesTyped' /\ RowsNumbered' /\ WorkTyped'
  BY FilesStay, WorkTypedStays DEF Say, files, Sound
<1>2. GhostsTyped'
  BY SayNext, GhostsStay DEF Say, Sound, GhostsTyped
<1> QED BY <1>1, <1>2, SayNext, BegunSound DEF Sound

\* What the hotkey lists for a notice.
LEMMA NoticeNext ==
  ASSUME Sound, NEW s \in Sessions, pending' = AppendWrites(s, "system", {}),
         UNCHANGED <<rows, nextId>>
  PROVE  Begun'
<1>1. "system" \in Roles /\ {} \in SUBSET Texts /\ FilesTyped
  BY DEF Roles, Sound
<1>2. Appends(s, pending)'
  BY <1>1, AppendsNext
<1> QED BY <1>2 DEF Begun, Begins

\* A notice keeps the invariant.
LEMMA NoticeSound ==
  ASSUME Sound, NEW s \in Sessions, Notice(s)
  PROVE  Sound'
<1>1. FilesTyped' /\ RowsNumbered' /\ WorkTyped'
  BY FilesStay, WorkTypedStays DEF Notice, files, Sound
<1>2. GhostsTyped'
  BY GhostsStay DEF Notice, ghosts, Sound, GhostsTyped
<1>3. PendingSound'
  BY NoticeNext, BegunSound DEF Notice, files
<1> QED BY <1>1, <1>2, <1>3 DEF Sound

\* What a reset lists.
LEMMA ResetNext ==
  ASSUME NEW s \in Sessions, ResetSession(s)
  PROVE  Begun'
<1>1. pending' = <<RowsWrite(s, <<>>, "reset"), MetaWrite(s, 1)>>
  BY DEF ResetSession
<1>2. Len(pending') = 2 /\ pending'[1] = RowsWrite(s, <<>>, "reset")
      /\ pending'[2] = MetaWrite(s, 1)
  BY <1>1
<1>3. pending'[1].to = "rows" /\ pending'[2].to = "meta"
  BY <1>2 DEF RowsWrite, MetaWrite
<1>4. Resets(s, pending)'
  BY <1>1, <1>2, <1>3 DEF Resets
<1> QED BY <1>4 DEF Begun, Begins

\* A reset keeps the invariant.
LEMMA ResetSound ==
  ASSUME Sound, NEW s \in Sessions, ResetSession(s)
  PROVE  Sound'
<1>1. FilesTyped' /\ RowsNumbered' /\ WorkTyped'
  BY FilesStay, WorkTypedStays DEF ResetSession, files, Sound
<1>2. GhostsTyped'
  BY GhostsStay DEF ResetSession, ghosts, Sound, GhostsTyped
<1> QED BY <1>1, <1>2, ResetNext, BegunSound DEF Sound

\* What the shortening of long messages lists.
LEMMA SnipNext ==
  ASSUME Sound, NEW s \in Sessions, Snip(s), UNCHANGED rows
  PROVE  Alters(s, pending)'
<1> DEFINE short(i) == [rows[s][i] EXCEPT !.long = FALSE]
           rs == [i \in DOMAIN rows[s] |->
                    IF i \in Snippable(rows[s]) THEN short(i) ELSE rows[s][i]]
           w == RowsWrite(s, rs, "snip")
<1>1. pending' = <<w>>
  BY DEF Snip
<1>2. rows[s] \in Seq(RowT) /\ DOMAIN rows[s] = 1 .. Len(rows[s]) /\ Len(rows[s]) \in Nat
      /\ \A i \in DOMAIN rows[s] : rows[s][i] \in RowT
  BY RowsAre DEF Sound, FilesTyped
<1>3. ASSUME NEW i \in DOMAIN rows[s] PROVE short(i) \in RowT /\ short(i).id = rows[s][i].id
  <2>1. rows[s][i] \in RowT
    BY <1>2
  <2> QED BY <2>1 DEF RowT
<1> HIDE DEF short
<1>4. \A i \in 1 .. Len(rows[s]) : rs[i] \in RowT /\ rs[i].id = rows[s][i].id
  BY <1>2, <1>3
<1>5. rs = [i \in 1 .. Len(rows[s]) |-> rs[i]]
  BY <1>2
<1> HIDE DEF rs
<1>6. rs \in Seq(RowT) /\ Len(rs) = Len(rows[s]) /\ DOMAIN rs = 1 .. Len(rows[s])
  <2>1. rs \in Seq(RowT)
    <3>1. rs \in [1 .. Len(rows[s]) -> RowT]
      BY <1>4, <1>5, Zenon
    <3> QED BY <1>2, <3>1
  <2>2. DOMAIN rs = 1 .. Len(rows[s])
    BY <1>5
  <2> QED BY <1>2, <2>1, <2>2
<1>7. SameIds(rs, rows[s])
  BY <1>4, <1>6 DEF SameIds
<1>8. w.to = "rows" /\ w.value = rs /\ w.why = "snip"
  BY DEF RowsWrite
<1> HIDE DEF w
<1>9. /\ pending' # <<>> /\ pending'[1] = w /\ Head(pending') = w /\ Tail(pending') = <<>>
      /\ pending' = <<w>> \o <<>>
  BY <1>1, OneAndTwo
<1>10. OnlyDrops(<<>>)
  BY DEF OnlyDrops
<1>11. w = RowsWrite(s, pending'[1].value, pending'[1].why)
  BY <1>8, <1>9 DEF w
<1> QED BY <1>6, <1>7, <1>8, <1>9, <1>10, <1>11 DEF Alters

(* q counts the first e rows of s off: m markers, which say nothing, stand   *)
(* before the rows that are kept.                                          *)
CountedOff(s, q, rs, m, e) ==
  /\ q = <<MetaWrite(s, nextId[s] + m), RowsWrite(s, rs, "count")>>
  /\ rs \in Seq(RowT) /\ m \in 0 .. 3 /\ e \in 1 .. Len(rows[s])
  /\ Len(rs) = m + (Len(rows[s]) - e)
  /\ \A i \in 1 .. m : rs[i].id = nextId[s] + i - 1 /\ rs[i].says = {}
  /\ \A i \in 1 .. Len(rows[s]) - e : rs[m + i] = rows[s][e + i]

\* The markers stand before the rows that stay, with ids after all others.
LEMMA CountOffIs ==
  ASSUME Sound, NEW s \in Sessions, CountOff(s)
  PROVE  \E rs, m, e : CountedOff(s, pending', rs, m, e)
<1> DEFINE l == Len(rows[s])
           excess == Len(rows[s]) - MaxMessages
           marks == Markers(s, SubSeq(rows[s], 1, excess))
           n == nextId[s] + Len(marks)
           kept == SubSeq(rows[s], excess + 1, Len(rows[s]))
           rs == marks \o kept
<1>1. l > MaxMessages
      /\ pending' = <<MetaWrite(s, n), RowsWrite(s, rs, "count")>>
  BY DEF CountOff
<1>2. /\ rows[s] \in Seq(RowT) /\ l \in Nat /\ DOMAIN rows[s] = 1 .. l
      /\ \A i \in 1 .. l : rows[s][i] \in RowT /\ rows[s][i].id \in Nat
      /\ nextId[s] \in Nat /\ Numbered(rows[s], nextId[s])
  BY RowsAre DEF Sound, FilesTyped, RowsNumbered
<1>3. /\ marks \in Seq(RowT) /\ Len(marks) \in 0 .. 3
      /\ \A i \in 1 .. Len(marks) : marks[i].id = nextId[s] + i - 1 /\ marks[i].says = {}
  BY MarkersAre DEF Sound
<1> HIDE DEF marks
<1>4. excess \in 1 .. l /\ excess + 1 \in Int
  BY <1>1, <1>2, SessionAssumption
<1> HIDE DEF excess
<1>5. /\ kept \in Seq(RowT) /\ Len(kept) = l - excess
      /\ \A i \in 1 .. l - excess : kept[i] = rows[s][excess + i]
  <2>1. \A i \in excess + 1 .. l : rows[s][i] \in RowT
    BY <1>2, <1>4
  <2>2. /\ kept \in Seq(RowT)
        /\ Len(kept) = IF excess + 1 <= l THEN l - (excess + 1) + 1 ELSE 0
        /\ \A i \in 1 .. l - (excess + 1) + 1 : kept[i] = rows[s][excess + 1 + i - 1]
    BY <1>2, <1>4, <2>1, SubSeqProperties
  <2> HIDE DEF kept
  <2>3. Len(kept) = l - excess /\ l - (excess + 1) + 1 = l - excess
    BY <1>2, <1>4, <2>2
  <2>4. \A i \in 1 .. l - excess : excess + 1 + i - 1 = excess + i
    BY <1>2, <1>4
  <2> QED BY <2>2, <2>3, <2>4
<1> HIDE DEF kept
<1>6. /\ rs \in Seq(RowT) /\ Len(rs) = Len(marks) + Len(kept)
      /\ \A i \in 1 .. Len(marks) + Len(kept) :
           rs[i] = IF i <= Len(marks) THEN marks[i] ELSE kept[i - Len(marks)]
  BY <1>3, <1>5, ConcatProperties
<1> HIDE DEF rs
<1>7. Len(marks) \in Nat /\ l - excess \in Nat
  BY <1>2, <1>3, <1>4
<1>8. \A i \in 1 .. Len(marks) : rs[i] = marks[i]
  <2> TAKE i \in 1 .. Len(marks)
  <2>1. i \in 1 .. Len(marks) + Len(kept) /\ i <= Len(marks)
    BY <1>5, <1>7
  <2> QED BY <1>6, <2>1
<1>9. \A i \in 1 .. l - excess : rs[Len(marks) + i] = rows[s][excess + i]
  <2> TAKE i \in 1 .. l - excess
  <2>1. /\ Len(marks) + i \in 1 .. Len(marks) + Len(kept) /\ ~ (Len(marks) + i <= Len(marks))
        /\ (Len(marks) + i) - Len(marks) = i
    BY <1>5, <1>7
  <2> QED BY <1>5, <1>6, <2>1
<1>10. CountedOff(s, pending', rs, Len(marks), excess)
  BY <1>1, <1>3, <1>4, <1>5, <1>6, <1>8, <1>9 DEF CountedOff
<1> QED BY <1>10

\* The rows that are kept, after the markers of the others.
LEMMA CountOffNext ==
  ASSUME Sound, NEW s \in Sessions, CountOff(s), UNCHANGED <<rows, nextId>>
  PROVE  Counts(s, pending)'
<1> DEFINE l == Len(rows[s])
<1>1. PICK rs, m, e : CountedOff(s, pending', rs, m, e)
  BY CountOffIs
<1> DEFINE n == nextId[s] + m
<1>2. /\ rows[s] \in Seq(RowT) /\ l \in Nat /\ DOMAIN rows[s] = 1 .. l
      /\ \A i \in 1 .. l : rows[s][i] \in RowT /\ rows[s][i].id \in Nat
      /\ nextId[s] \in Nat /\ Numbered(rows[s], nextId[s])
  BY RowsAre DEF Sound, FilesTyped, RowsNumbered
<1>3. /\ pending' = <<MetaWrite(s, n), RowsWrite(s, rs, "count")>>
      /\ rs \in Seq(RowT) /\ m \in Nat /\ e \in 1 .. l /\ Len(rs) = m + (l - e)
      /\ \A i \in 1 .. m : rs[i].id = nextId[s] + i - 1
      /\ \A i \in 1 .. l - e : rs[m + i] = rows[s][e + i]
  BY <1>1 DEF CountedOff
<1>4. DOMAIN rs = 1 .. m + (l - e) /\ l - e \in Nat /\ e \in 1 .. l /\ l \in Nat /\ m \in Nat
      /\ nextId[s] \in Nat
  BY <1>2, <1>3
<1> HIDE DEF l
<1>5. ASSUME NEW i \in DOMAIN rs
      PROVE  \/ i <= m /\ rs[i].id = nextId[s] + i - 1
             \/ /\ i > m /\ i - m + e \in 1 .. l
                /\ rs[i] = rows[s][i - m + e]
                /\ rs[i].id < nextId[s] /\ rs[i].id \in Nat
  <2>1. i \in Nat
    BY <1>4
  <2>2. CASE i <= m
    BY <1>3, <1>4, <2>1, <2>2
  <2>3. CASE i > m
    <3>1. /\ i - m \in 1 .. l - e /\ m + (i - m) = i
          /\ e + (i - m) = i - m + e /\ i - m + e \in 1 .. l
      <4>1. i <= m + (l - e) /\ e >= 1 /\ e <= l /\ e \in Nat
        BY <1>4
      <4>2. l \in Nat /\ m \in Nat
        BY <1>4
      <4> QED BY <4>1, <4>2, <2>1, <2>3
    <3>2. rs[i] = rows[s][i - m + e]
      BY <1>3, <3>1
    <3> QED BY <1>2, <2>3, <3>1, <3>2 DEF Numbered, Below
  <2> QED BY <1>3, <2>1, <2>2, <2>3
<1>6. Unique(rs)
  <2>1. SUFFICES ASSUME NEW i \in DOMAIN rs, NEW j \in DOMAIN rs, i # j
                 PROVE  rs[i].id # rs[j].id
    BY DEF Unique
  <2>2. i \in Nat /\ j \in Nat
    BY <1>4
  <2>3. CASE i <= m \/ j <= m
    <3>1. /\ i <= m => rs[i].id = nextId[s] + i - 1
          /\ j <= m => rs[j].id = nextId[s] + j - 1
          /\ i > m => rs[i].id \in Nat /\ rs[i].id < nextId[s]
          /\ j > m => rs[j].id \in Nat /\ rs[j].id < nextId[s]
      BY <1>4, <1>5, <2>2
    <3>2. i \in Nat \ {0} /\ j \in Nat \ {0}
      BY <1>4
    <3>3. i # j
      BY <2>1
    <3> QED BY <1>4, <2>2, <2>3, <3>1, <3>2, <3>3
  <2>4. CASE i > m /\ j > m
    <3>1. i - m + e # j - m + e
      BY <1>4, <2>1, <2>2
    <3>2. /\ rs[i] = rows[s][i - m + e] /\ i - m + e \in 1 .. l
          /\ rs[j] = rows[s][j - m + e] /\ j - m + e \in 1 .. l
      <4>1. ~ (i <= m) /\ ~ (j <= m)
        BY <1>4, <2>2, <2>4
      <4> QED BY <1>5, <4>1
    <3> QED BY <1>2, <3>1, <3>2 DEF Numbered, Unique
  <2> QED BY <1>4, <2>2, <2>3, <2>4
<1>7. Below(rs, n)
  <2>1. SUFFICES ASSUME NEW i \in DOMAIN rs PROVE rs[i].id < n
    BY DEF Below
  <2>2. i \in Nat
    BY <1>4
  <2>3. CASE i <= m
    <3>1. rs[i].id = nextId[s] + i - 1
      BY <1>4, <1>5, <2>2, <2>3
    <3> QED BY <1>4, <2>2, <2>3, <3>1
  <2>4. CASE i > m
    <3>1. rs[i].id \in Nat /\ rs[i].id < nextId[s]
      BY <1>4, <1>5, <2>2, <2>4
    <3> QED BY <1>4, <3>1
  <2> QED BY <1>4, <2>2, <2>3, <2>4
<1>8. n \in Nat /\ n >= nextId[s]
  BY <1>2, <1>4
<1> HIDE DEF n
<1>9. Len(pending') = 2 /\ pending'[1] = MetaWrite(s, n) /\ pending'[2] = RowsWrite(s, rs, "count")
  BY <1>3
<1>10. /\ pending'[1].to = "meta" /\ pending'[1].value = n
       /\ pending'[2].to = "rows" /\ pending'[2].value = rs
  BY <1>9 DEF MetaWrite, RowsWrite
<1> QED BY <1>1, <1>3, <1>6, <1>7, <1>8, <1>9, <1>10 DEF Counts, Numbered

\* What a compaction lists, either way.
LEMMA CompactNext ==
  ASSUME Sound, NEW s \in Sessions, CompactSession(s)
  PROVE  Begun'
<1>1. Alters(s, pending)' \/ Counts(s, pending)'
  BY SnipNext, CountOffNext DEF CompactSession, files
<1> QED BY <1>1 DEF Begun, Begins

\* A compaction keeps the invariant.
LEMMA CompactSound ==
  ASSUME Sound, NEW s \in Sessions, CompactSession(s)
  PROVE  Sound'
<1>1. FilesTyped' /\ RowsNumbered' /\ WorkTyped'
  BY FilesStay, WorkTypedStays DEF CompactSession, files, Sound
<1>2. GhostsTyped'
  BY GhostsStay DEF CompactSession, ghosts, Sound, GhostsTyped
<1> QED BY <1>1, <1>2, CompactNext, BegunSound DEF Sound

\* The work of one session changes, to what a session may work on.
LEMMA WorkChanges ==
  ASSUME Sound, NEW s \in Sessions, NEW w \in WorkT,
         w.kind # None => Len(w.zone) > 1 /\ w.stop <= Len(w.zone),
         work' = [work EXCEPT ![s] = w], agent' = agent
  PROVE  WorkTyped'
<1>1. work \in [Sessions -> WorkT]
  BY DEF Sound, WorkTyped
<1>2. work' \in [Sessions -> WorkT] /\ work'[s] = w
      /\ \A t \in Sessions \ {s} : work'[t] = work[t]
  BY <1>1
<1> QED BY <1>2 DEF Sound, WorkTyped

\* A session without work.
LEMMA NoWorkIs == NoWork \in WorkT /\ NoWork.kind = None
BY DEF NoWork, WorkT

\* A handler that lists nothing.
LEMMA IdleNext == Idle /\ UNCHANGED pending => Begun'
BY DEF Idle, Begun, OnlyDrops

\* The start of a summary keeps the invariant.
LEMMA SummaryStartSound ==
  ASSUME Sound, NEW s \in Sessions, SummaryStart(s)
  PROVE  Sound'
<1>1. FilesTyped' /\ RowsNumbered'
  BY FilesStay DEF SummaryStart, files
<1>2. GhostsTyped'
  BY GhostsStay DEF SummaryStart, ghosts, Sound, GhostsTyped
<1>3. WorkTyped'
  <2> DEFINE w == [NoWork EXCEPT !.kind = "summary", !.zone = Zone(rows[s])]
  <2>1. Zone(rows[s]) \in Seq(RowT)
    BY ZoneIs DEF Sound, FilesTyped
  <2>2. Len(Zone(rows[s])) > 1
    BY DEF SummaryStart, Compressible
  <2>3. w \in WorkT /\ w.zone = Zone(rows[s]) /\ w.stop = 0
    BY <2>1 DEF NoWork, WorkT
  <2>4. Len(w.zone) > 1 /\ w.stop <= Len(w.zone)
    BY <2>1, <2>2, <2>3
  <2>5. work' = [work EXCEPT ![s] = w] /\ agent' = agent
    BY DEF SummaryStart
  <2> HIDE DEF w
  <2> QED BY <2>3, <2>4, <2>5, WorkChanges
<1>4. PendingSound'
  BY IdleNext, BegunSound DEF SummaryStart
<1> QED BY <1>1, <1>2, <1>3, <1>4 DEF Sound

\* A summary that fails keeps the invariant.
LEMMA SummaryFailsSound ==
  ASSUME Sound, NEW s \in Sessions, SummaryFails(s)
  PROVE  Sound'
<1>1. FilesTyped' /\ RowsNumbered'
  BY FilesStay DEF SummaryFails, files
<1>2. GhostsTyped'
  BY GhostsStay DEF SummaryFails, ghosts, Sound, GhostsTyped
<1>3. WorkTyped'
  BY NoWorkIs, WorkChanges DEF SummaryFails
<1>4. PendingSound'
  BY IdleNext, BegunSound DEF SummaryFails
<1> QED BY <1>1, <1>2, <1>3, <1>4 DEF Sound

\* What is folded by the work of a session: its zone.
LEMMA ZoneOfWork ==
  ASSUME Sound, NEW s \in Sessions, work[s].kind # None
  PROVE  /\ work[s] \in WorkT /\ work[s].zone \in Seq(RowT) /\ Len(work[s].zone) > 1
         /\ work[s].at \in Nat /\ work[s].stop \in Nat /\ work[s].filed \in Nat
         /\ work[s].stop <= Len(work[s].zone)
BY DEF Sound, WorkTyped, WorkT

\* What a summary lists when the model has answered.
LEMMA SummaryDoneNext ==
  ASSUME Sound, NEW s \in Sessions, SummaryDone(s)
  PROVE  Begun'
<1> DEFINE zone == work[s].zone
<1>1. zone \in Seq(RowT) /\ Len(zone) > 1
  BY ZoneOfWork DEF SummaryDone, None
<1>2. FoldedBy(zone[1].id, Said(zone), IdsOf(Tail(zone)), Sessions) /\ rows' = rows
  BY DEF SummaryDone, SummaryText, files
<1> HIDE DEF zone
<1>3. zone[1].id \in Nat /\ Said(zone) \in SUBSET Texts /\ IdsOf(Tail(zone)) \in SUBSET Nat
  BY <1>1, IdsAre
<1>4. Sessions \in SUBSET Sessions /\ FilesTyped
  BY DEF Sound
<1>5. OnlyDrops(pending)' \/ \E t \in Sessions : Alters(t, pending)'
  BY <1>2, <1>3, <1>4, FoldedIs
<1> QED BY <1>5 DEF Begun, Begins

\* The end of a summary keeps the invariant.
LEMMA SummaryDoneSound ==
  ASSUME Sound, NEW s \in Sessions, SummaryDone(s)
  PROVE  Sound'
<1>1. FilesTyped' /\ RowsNumbered'
  BY FilesStay DEF SummaryDone, files
<1>2. GhostsTyped'
  BY GhostsStay DEF SummaryDone, ghosts, Sound, GhostsTyped
<1>3. WorkTyped'
  BY NoWorkIs, WorkChanges DEF SummaryDone
<1> QED BY <1>1, <1>2, <1>3, SummaryDoneNext, BegunSound DEF Sound

\* The start of a flush keeps the invariant.
LEMMA FlushStartSound ==
  ASSUME Sound, NEW s \in Sessions, FlushStart(s)
  PROVE  Sound'
<1>1. FilesTyped' /\ RowsNumbered'
  BY FilesStay DEF FlushStart, files
<1>2. GhostsTyped'
  BY GhostsStay DEF FlushStart, ghosts, Sound, GhostsTyped
<1>3. WorkTyped'
  <2> DEFINE zone == Zone(rows[s])
             w == FlushRange(s, zone)
  <2>1. zone \in Seq(RowT)
    BY ZoneIs DEF Sound, FilesTyped
  <2>2. Len(zone) > 1
    BY DEF FlushStart, Compressible
  <2> HIDE DEF zone
  <2>3. position[s] \in Nat /\ Len(zone) \in Nat /\ FlushBatch \in Nat
    BY <2>1, SessionAssumption DEF Sound, FilesTyped
  <2>4. w \in WorkT /\ w.zone = zone /\ w.stop <= Len(zone)
    BY <2>1, <2>3 DEF FlushRange, WorkT
  <2>5. work' = [work EXCEPT ![s] = w] /\ agent' = agent
    BY DEF FlushStart, zone
  <2> HIDE DEF w
  <2> QED BY <2>2, <2>4, <2>5, WorkChanges
<1>4. PendingSound'
  BY IdleNext, BegunSound DEF FlushStart
<1> QED BY <1>1, <1>2, <1>3, <1>4 DEF Sound

\* A message of a flush, filed or given up, keeps the invariant.
LEMMA FlushMessageSound ==
  ASSUME Sound, NEW s \in Sessions, FlushMessage(s)
  PROVE  Sound' /\ Begun'
<1> DEFINE w == work[s]
           row == work[s].zone[work[s].at + 1]
           n == work[s].at + 1
<1>0. w.kind = "flush" /\ w.at < w.stop
  BY DEF FlushMessage
<1>1. FilesTyped' /\ RowsNumbered'
  BY FilesStay DEF FlushMessage, files
<1>2. w \in WorkT /\ w.zone \in Seq(RowT) /\ w.at \in Nat /\ w.stop \in Nat /\ w.filed \in Nat
      /\ Len(w.zone) > 1 /\ w.stop <= Len(w.zone)
  BY <1>0, ZoneOfWork DEF None
<1>3. row \in RowT /\ row.says \in SUBSET Texts /\ n \in Nat
  <2>1. n \in DOMAIN w.zone /\ n \in Nat
    BY <1>0, <1>2
  <2> QED BY <1>2, <2>1, RowsAre
<1>4. \/ pending' = <<SectionWrite(s, row), PositionWrite(s, n)>> /\ dropped' = dropped
      \/ pending' = <<PositionWrite(s, n)>> /\ dropped' = dropped \cup row.says
  <2>1. \A a, b : <<a>> \o <<b>> = <<a, b>>
    BY TwoJoined
  <2>2. \/ pending' = <<SectionWrite(s, row)>> \o <<PositionWrite(s, n)>> /\ dropped' = dropped
        \/ pending' = <<PositionWrite(s, n)>> /\ dropped' = dropped \cup row.says
    BY DEF FlushMessage
  <2> QED BY <2>1, <2>2, Zenon
<1>5. WorkTyped'
  <2> DEFINE m == w.at + 1
             f == w.filed + 1
             v == [w EXCEPT !.at = m, !.filed = f]
  <2>1. v \in WorkT /\ v.zone = w.zone /\ v.stop = w.stop
    <3>1. w \in WorkT /\ m \in Nat /\ f \in Nat
      BY <1>2
    <3> HIDE DEF w, m, f
    <3> QED BY <3>1 DEF WorkT
  <2>2. work \in [Sessions -> WorkT]
    BY DEF Sound, WorkTyped
  <2>3. work' = [work EXCEPT ![s] = v] /\ agent' = agent
    BY <2>2 DEF FlushMessage
  <2> HIDE DEF v, w
  <2> QED BY <1>2, <2>1, <2>3, WorkChanges
<1>6. GhostsTyped'
  BY <1>3, <1>4, GhostsStay DEF FlushMessage, Sound, GhostsTyped
<1> HIDE DEF row, n
<1>7. Files(s, pending)' \/ Advances(s, pending)'
  <2>1. CASE pending' = <<SectionWrite(s, row), PositionWrite(s, n)>>
    <3>1. Len(pending') = 2 /\ pending'[1] = SectionWrite(s, row)
          /\ pending'[2] = PositionWrite(s, n)
      BY <2>1
    <3>2. /\ pending'[1].to = "section" /\ pending'[1].value = row
          /\ pending'[2].to = "position" /\ pending'[2].value = n
      BY <3>1 DEF SectionWrite, PositionWrite
    <3> QED BY <1>3, <2>1, <3>1, <3>2 DEF Files
  <2>2. CASE pending' = <<PositionWrite(s, n)>>
    <3>1. Len(pending') = 1 /\ pending'[1] = PositionWrite(s, n)
      BY <2>2
    <3>2. pending'[1].to = "position" /\ pending'[1].value = n
      BY <3>1 DEF PositionWrite
    <3> QED BY <1>3, <2>2, <3>1, <3>2 DEF Advances
  <2> QED BY <1>4, <2>1, <2>2
<1>8. Begun'
  BY <1>7 DEF Begun, Begins
<1> QED BY <1>1, <1>5, <1>6, <1>8, BegunSound DEF Sound

\* What a flush lists at its end.
LEMMA FlushDoneNext ==
  ASSUME Sound, NEW s \in Sessions, FlushDone(s)
  PROVE  Begun'
<1> DEFINE zone == work[s].zone
<1>1. zone \in Seq(RowT) /\ Len(zone) > 1
  BY ZoneOfWork DEF FlushDone, None
<1>2. \/ FoldedBy(zone[1].id, {}, IdsOf(Tail(zone)), {s}) /\ rows' = rows
      \/ Idle /\ UNCHANGED pending
  BY DEF FlushDone, files
<1> HIDE DEF zone
<1>3. zone[1].id \in Nat /\ IdsOf(Tail(zone)) \in SUBSET Nat /\ {} \in SUBSET Texts
  BY <1>1, IdsAre
<1>4. {s} \in SUBSET Sessions /\ FilesTyped
  BY DEF Sound
<1>5. CASE FoldedBy(zone[1].id, {}, IdsOf(Tail(zone)), {s}) /\ rows' = rows
  <2>1. OnlyDrops(pending)' \/ \E t \in Sessions : Alters(t, pending)'
    BY <1>3, <1>4, <1>5, FoldedIs
  <2> QED BY <2>1 DEF Begun, Begins
<1> QED BY <1>2, <1>5, IdleNext

\* The end of a flush keeps the invariant.
LEMMA FlushDoneSound ==
  ASSUME Sound, NEW s \in Sessions, FlushDone(s)
  PROVE  Sound'
<1>1. FilesTyped' /\ RowsNumbered'
  BY FilesStay DEF FlushDone, files
<1>2. GhostsTyped'
  BY GhostsStay DEF FlushDone, ghosts, Sound, GhostsTyped
<1>3. WorkTyped'
  BY NoWorkIs, WorkChanges DEF FlushDone
<1> QED BY <1>1, <1>2, <1>3, FlushDoneNext, BegunSound DEF Sound

\* The MemoryAgent only appends, but for its cursor.
LEMMA AgentSound ==
  ASSUME Sound, AgentStart \/ AgentReads \/ AgentFails
  PROVE  Sound'
<1>1. /\ UNCHANGED <<rows, torn, nextId, position, cursor, work, history, rewritten, told,
                     dropped, read>>
      /\ pending' = AppendWrites(Main, "system", {})
  BY DEF AgentStart, AgentReads, AgentFails, files, ghosts
<1>2. FilesTyped' /\ RowsNumbered' /\ GhostsTyped'
  BY <1>1, FilesStay, GhostsStay DEF Sound, GhostsTyped
<1>3. PendingSound'
  BY <1>1, NoticeNext, BegunSound, SessionAssumption
<1>4. agent' \in AgentT /\ (agent'.at = "turn" => agent'.batch # <<>>)
  <2>1. CASE AgentStart
    <3>1. agent' = [NoAgent EXCEPT !.at = "started"]
      BY <2>1 DEF AgentStart
    <3>2. <<>> \in Seq(RowT)
      OBVIOUS
    <3> QED BY <3>1, <3>2 DEF NoAgent, AgentT
  <2>2. CASE agent' = NoAgent
    BY <2>2 DEF NoAgent, AgentT, None
  <2>3. ASSUME NEW n \in 1 .. Len(NewMessages),
               agent' = [at |-> "turn", batch |-> SubSeq(NewMessages, 1, n)]
        PROVE  agent' \in AgentT /\ agent'.batch # <<>>
    <3>1. NewMessages \in Seq(RowT)
      BY WithoutEntries, SessionAssumption DEF NewMessages, Sound, FilesTyped
    <3>2. SubSeq(NewMessages, 1, n) \in Seq(RowT) /\ Len(SubSeq(NewMessages, 1, n)) = n
      BY <3>1
    <3> QED BY <2>3, <3>2 DEF AgentT
  <2>4. \/ AgentStart \/ agent' = NoAgent
        \/ \E n \in 1 .. Len(NewMessages) :
             agent' = [at |-> "turn", batch |-> SubSeq(NewMessages, 1, n)]
    BY DEF AgentReads, AgentFails
  <2> QED BY <2>1, <2>2, <2>3, <2>4 DEF NoAgent, None
<1>5. WorkTyped'
  BY <1>1, <1>4 DEF Sound, WorkTyped
<1> QED BY <1>2, <1>3, <1>5 DEF Sound

\* A run of the MemoryAgent that succeeds keeps the invariant.
LEMMA AgentDoneSound ==
  ASSUME Sound, AgentDone
  PROVE  Sound'
<1>1. /\ UNCHANGED <<rows, torn, nextId, position, cursor, work, history, rewritten, told, dropped>>
      /\ pending' = <<CursorWrite(NewCursor)>> \o AppendWrites(Main, "system", {})
      /\ read' = read \cup Said(agent.batch) /\ agent' = NoAgent
  BY DEF AgentDone, files
<1>2. agent.batch \in Seq(RowT) /\ agent.batch # <<>>
  BY DEF Sound, WorkTyped, AgentT, AgentDone
<1>3. NewCursor \in Nat /\ Said(agent.batch) \in SUBSET Texts
  <2>1. Len(agent.batch) \in DOMAIN agent.batch
    BY <1>2
  <2> QED BY <1>2, <2>1, RowsAre DEF NewCursor, LastOf, Said
<1>4. FilesTyped' /\ RowsNumbered' /\ GhostsTyped'
  BY <1>1, <1>3, FilesStay, GhostsStay DEF Sound, GhostsTyped
<1>5. WorkTyped'
  BY <1>1 DEF Sound, WorkTyped, NoAgent, AgentT, None
<1>6. MovesCursor(pending)'
  <2> DEFINE rest == AppendWrites(Main, "system", {})
             row == Row(nextId[Main], "system", {})
             w == CursorWrite(NewCursor)
  <2>1. rest = <<MetaWrite(Main, nextId[Main] + 1), LineWrite(Main, row)>>
    BY DEF AppendWrites
  <2>2. row \in RowT /\ row.id = nextId[Main]
    BY SessionAssumption DEF Row, RowT, Roles, Sound, FilesTyped
  <2> HIDE DEF row, rest
  <2>3. rest \in Seq({rest[1], rest[2]})
    BY <2>1
  <2>4. /\ pending' # <<>> /\ pending'[1] = w /\ Head(pending') = w /\ Tail(pending') = rest
        /\ pending' = <<w>> \o rest
    BY <1>1, <2>3, OneBefore DEF rest
  <2>5. w.to = "cursor" /\ w.value = NewCursor
    BY DEF CursorWrite
  <2>6. Appends(Main, Tail(pending))'
    <3>1. Len(rest) = 2 /\ rest[1] = MetaWrite(Main, nextId[Main] + 1) /\ rest[2] = LineWrite(Main, row)
      BY <2>1
    <3>2. rest[1].to = "meta" /\ rest[2].to = "line" /\ rest[2].value = row
      BY <3>1 DEF MetaWrite, LineWrite
    <3> QED BY <1>1, <2>1, <2>2, <2>4, <3>1, <3>2 DEF Appends
  <2> QED BY <1>3, <2>4, <2>5, <2>6 DEF MovesCursor
<1> QED BY <1>4, <1>5, <1>6 DEF Sound, PendingSound

\* The lines that a crash may cut off.
LEMMA LinesAre ==
  ASSUME Sound, NEW i \in DOMAIN pending, pending[i].to = "line"
  PROVE  pending[i].s \in Sessions /\ pending[i].value \in RowT
<1>1. CASE OnlyDrops(pending)
  <2>1. pending[i] \in DropT
    BY <1>1 DEF OnlyDrops
  <2> QED BY <2>1 DEF DropT
<1>2. ASSUME NEW s \in Sessions, NEW q, Appends(s, q), NEW j \in DOMAIN q, q[j].to = "line"
      PROVE  q[j].s \in Sessions /\ q[j].value \in RowT
  <2>1. j \in 1 .. 2 /\ q[1].to = "meta" /\ q[2] = LineWrite(s, q[2].value) /\ q[2].value \in RowT
    BY <1>2 DEF Appends
  <2>2. j = 2
    BY <1>2, <2>1
  <2> QED BY <2>1, <2>2 DEF LineWrite
<1>3. CASE MovesCursor(pending)
  <2>1. /\ pending = <<Head(pending)>> \o Tail(pending) /\ pending[1].to = "cursor"
        /\ Appends(Main, Tail(pending))
    BY <1>3 DEF MovesCursor
  <2>2. PICK a, b : Tail(pending) = <<a, b>>
    BY <2>1 DEF Appends
  <2>3. Tail(pending) \in Seq({a, b})
    BY <2>2, TwoJoined, Zenon
  <2>4. i # 1
    BY <2>1
  <2>5. i - 1 \in DOMAIN Tail(pending) /\ pending[i] = Tail(pending)[i - 1]
    <3> DEFINE t == Tail(pending)
               h == Head(pending)
    <3>1. pending = <<h>> \o t /\ t \in Seq({a, b})
      BY <2>1, <2>3
    <3> HIDE DEF t, h
    <3>2. i - 1 \in DOMAIN t /\ (<<h>> \o t)[i] = t[i - 1]
      BY <2>4, <3>1, OneBefore
    <3> QED BY <3>1, <3>2 DEF t
  <2> QED BY <1>2, <2>1, <2>5, SessionAssumption
<1>4. ASSUME NEW s \in Sessions, Left(s)
      PROVE  pending[i].s \in Sessions /\ pending[i].value \in RowT
  <2>1. CASE EndsLine(s, pending)
    <3>1. i = 1 /\ pending[1] = LineWrite(s, pending[1].value) /\ pending[1].value \in RowT
      BY <2>1 DEF EndsLine
    <3> QED BY <3>1 DEF LineWrite
  <2>2. CASE Appends(s, pending)
    BY <1>2, <2>2
  <2>3. CASE Alters(s, pending)
    <3>1. /\ pending = <<Head(pending)>> \o Tail(pending) /\ pending[1].to = "rows"
          /\ Tail(pending) \in Seq(DropT)
      BY <2>3 DEF Alters, OnlyDrops
    <3>2. i # 1
      BY <3>1
    <3>3. i - 1 \in DOMAIN Tail(pending) /\ pending[i] = Tail(pending)[i - 1]
      <4> DEFINE t == Tail(pending)
                 h == Head(pending)
      <4>1. pending = <<h>> \o t /\ t \in Seq(DropT)
        BY <3>1
      <4> HIDE DEF t, h
      <4>2. i - 1 \in DOMAIN t /\ (<<h>> \o t)[i] = t[i - 1]
        BY <3>2, <4>1, OneBefore
      <4> QED BY <4>1, <4>2 DEF t
    <3>4. pending[i] \in DropT
      BY <3>1, <3>3
    <3> QED BY <3>4 DEF DropT
  <2>4. ASSUME Resets(s, pending) \/ Counts(s, pending) \/ Files(s, pending) PROVE FALSE
    <3>1. DOMAIN pending = 1 .. 2 /\ pending[1].to # "line" /\ pending[2].to # "line"
      BY <2>4 DEF Resets, Counts, Files
    <3> QED BY <3>1
  <2>5. ASSUME Restarts(s, pending) \/ CountsRows(s, pending) \/ Advances(s, pending) PROVE FALSE
    <3>1. DOMAIN pending = 1 .. 1 /\ pending[1].to # "line"
      BY <2>5 DEF Restarts, CountsRows, Advances
    <3> QED BY <3>1
  <2> QED BY <1>4, <2>1, <2>2, <2>3, <2>4, <2>5 DEF Left
<1> QED BY <1>1, <1>3, <1>4 DEF Sound, PendingSound

\* A crash leaves what the files hold.
LEMMA CrashSound ==
  ASSUME Sound, Crash
  PROVE  Sound'
<1>1. /\ pending' = <<>> /\ work' = [s \in Sessions |-> NoWork] /\ agent' = NoAgent
      /\ torn' \in {torn} \cup {[torn EXCEPT ![pending[i].s] = TRUE] : i \in LostLines \cap {1}}
      /\ history' = [s \in Sessions |->
           IF \E i \in LostLines : pending[i].s = s THEN history[s] \cup LostTexts ELSE history[s]]
      /\ dropped' = dropped \cup LostTexts
      /\ UNCHANGED <<rows, nextId, position, cursor, told, read, rewritten>>
  BY DEF Crash
<1>2. LostTexts \in SUBSET Texts
  <2>1. \A i \in LostLines : pending[i].value.says \in SUBSET Texts
    <3> TAKE i \in LostLines
    <3>1. pending[i].value \in RowT
      BY LinesAre DEF LostLines
    <3> QED BY <3>1 DEF RowT
  <2> QED BY <2>1 DEF LostTexts
<1>3. torn' \in [Sessions -> BOOLEAN]
  BY <1>1 DEF Sound, FilesTyped
<1>4. FilesTyped' /\ RowsNumbered'
  BY <1>1, <1>3 DEF Sound, FilesTyped, RowsNumbered
<1>5. WorkTyped'
  <2>1. agent' \in AgentT /\ agent'.at # "turn"
    BY <1>1 DEF NoAgent, AgentT, None
  <2> QED BY <1>1, <2>1, NoWorkIs DEF WorkTyped
<1>6. GhostsTyped'
  BY <1>1, <1>2 DEF Sound, GhostsTyped
<1>7. OnlyDrops(pending)'
  BY <1>1 DEF OnlyDrops
<1> QED BY <1>4, <1>5, <1>6, <1>7 DEF Sound, PendingSound

\* A step of something else keeps the invariant.
LEMMA StutterSound == Sound /\ UNCHANGED vars => Sound'
<1> SUFFICES ASSUME Sound, UNCHANGED vars PROVE Sound'
  OBVIOUS
<1>1. UNCHANGED <<rows, torn, nextId, section, position, cursor, pending, work, agent, told,
                  history, dropped, read, rewritten, count>>
  BY DEF vars, files, memory, ghosts
<1>2. FilesTyped' /\ RowsNumbered' /\ WorkTyped' /\ GhostsTyped'
  BY <1>1 DEF Sound, FilesTyped, RowsNumbered, WorkTyped, GhostsTyped
<1>3. PendingSound'
  BY <1>1 DEF Sound, PendingSound, Left, OnlyDrops, MovesCursor, Appends, EndsLine, Resets, Restarts,
              Counts, CountsRows, Alters, Files, Advances
<1> QED BY <1>2, <1>3 DEF Sound

\* The store begins sound.
LEMMA InitSound == Init => Sound
<1> SUFFICES ASSUME Init PROVE Sound
  OBVIOUS
<1>1. <<>> \in Seq(RowT) /\ 0 \in Nat /\ 1 \in Nat \ {0}
  OBVIOUS
<1>2. FilesTyped
  BY <1>1 DEF Init, FilesTyped
<1>3. WorkTyped
  <2>1. agent \in AgentT /\ agent.at # "turn"
    BY <1>1 DEF Init, NoAgent, AgentT, None
  <2> QED BY <2>1, NoWorkIs DEF Init, WorkTyped
<1>4. GhostsTyped
  <2>1. 0 \in 0 .. MaxTexts
    BY SessionAssumption
  <2> QED BY <2>1 DEF Init, GhostsTyped
<1>5. PendingSound
  BY DEF Init, PendingSound, OnlyDrops
<1>6. RowsNumbered
  BY DEF Init, RowsNumbered, Numbered, Unique, Below
<1> QED BY <1>2, <1>3, <1>4, <1>5, <1>6 DEF Sound

\* Every step of the store keeps the invariant.
LEMMA NextSound == Sound /\ [Next]_vars => Sound'
<1> SUFFICES ASSUME Sound, [Next]_vars PROVE Sound'
  OBVIOUS
<1>1. ASSUME NEW s \in Sessions, Handler(s) PROVE Sound'
  BY <1>1, SaySound, NoticeSound, ResetSound, CompactSound, SummaryStartSound, SummaryFailsSound,
     SummaryDoneSound, FlushStartSound, FlushMessageSound, FlushDoneSound DEF Handler
<1>2. CASE AgentStart \/ AgentReads \/ AgentFails
  BY <1>2, AgentSound
<1>3. CASE AgentDone
  BY <1>3, AgentDoneSound
<1>4. CASE Write
  BY <1>4, WriteSound
<1>5. CASE Crash
  BY <1>5, CrashSound
<1>6. CASE UNCHANGED vars
  BY <1>6, StutterSound
<1> QED BY <1>1, <1>2, <1>3, <1>4, <1>5, <1>6 DEF Next

(* The invariant of the store.                                             *)
THEOREM SoundHolds == Spec => []Sound
BY InitSound, NextSound, PTL DEF Spec

(* Rows have their types and ids of their own, below the next id, whatever   *)
(* the handlers do and wherever a crash cuts them (appendMessage writes      *)
(* meta.json before the line, resetSession the rows before meta.json).     *)
THEOREM RowsSoundHolds == Spec => []RowsSound
<1>1. Sound => RowsSound
  <2> SUFFICES ASSUME Sound PROVE RowsSound
    OBVIOUS
  <2>1. /\ rows \in [Sessions -> Seq(RowT)] /\ nextId \in [Sessions -> Nat \ {0}]
        /\ Main \in Sessions
    BY SessionAssumption DEF Sound, FilesTyped
  <2>2. \A s \in Sessions : \A i \in DOMAIN rows[s] : rows[s][i] \in RowT
    BY <2>1, RowsAre
  <2>3. ConversationTyped
    <3>1. history[Main] \in SUBSET Texts
      BY <2>1 DEF Sound, GhostsTyped
    <3>2. Shown \in Seq(SUBSET Texts)
      <4> DEFINE rs == rows[Main]
      <4>1. /\ Len(rs) \in Nat /\ DOMAIN rs = 1 .. Len(rs)
            /\ \A i \in DOMAIN rs : rs[i].says \in SUBSET Texts
        BY <2>1, RowsAre
      <4>2. Shown = [i \in 1 .. Len(rs) |-> rs[i].says]
        BY <4>1 DEF Shown
      <4> HIDE DEF rs
      <4>3. Shown \in [1 .. Len(rs) -> SUBSET Texts]
        BY <4>1, <4>2
      <4> QED BY <4>1, <4>3
    <3>3. Filed \in SUBSET Texts
      BY <3>1 DEF Filed
    <3> QED BY <3>1, <3>2, <3>3 DEF ConversationTyped, C!TypeOK
  <2>4. IdsUnique
    BY DEF Sound, RowsNumbered, Numbered, Unique, Below, IdsUnique
  <2>5. TypeOK
    <3>1. \A w \in WorkT : w \in [kind : {None, "summary", "flush"}, zone : Seq([id : Nat,
            role : {"user", "assistant", "system"}, says : SUBSET Texts, long : BOOLEAN]),
            at : Nat, stop : Nat, filed : Nat]
      BY DEF WorkT, RowT, Roles
    <3>2. work \in [Sessions -> [kind : {None, "summary", "flush"}, zone : Seq([id : Nat,
            role : {"user", "assistant", "system"}, says : SUBSET Texts, long : BOOLEAN]),
            at : Nat, stop : Nat, filed : Nat]]
      BY DEF Sound, WorkTyped, WorkT, RowT, Roles
    <3>3. agent.at \in {None, "started", "turn"}
      BY DEF Sound, WorkTyped, AgentT
    <3>4. \A s \in Sessions : \A i \in DOMAIN rows[s] :
            rows[s][i] \in [id : Nat, role : {"user", "assistant", "system"},
                            says : SUBSET Texts, long : BOOLEAN]
      BY <2>2 DEF RowT, Roles
    <3>5. torn \in [Sessions -> BOOLEAN] /\ position \in [Sessions -> Nat] /\ cursor \in Nat
      BY DEF Sound, FilesTyped
    <3>6. dropped \cup read \subseteq Texts
      BY DEF Sound, GhostsTyped
    <3> QED BY <2>1, <2>3, <3>2, <3>3, <3>4, <3>5, <3>6 DEF TypeOK
  <2> QED BY <2>4, <2>5 DEF RowsSound
<1> QED BY <1>1, SoundHolds, PTL

-----------------------------------------------------------------------------
(* The cursor of the MemoryAgent.                                          *)

Ascending(rs) == \A i, j \in DOMAIN rs : i < j => rs[i].id < rs[j].id
HeardTo(n, S) == \A i \in DOMAIN rows[Main] : rows[Main][i].id <= n => rows[Main][i].says \subseteq S
LastId == LastOf(agent.batch).id

(* What stands up to the cursor was read, and rows come in the order of     *)
(* their ids; what stands up to the last row of a batch was read or is in   *)
(* the batch; and the writes to come keep it so: a cursor to move is that   *)
(* of a batch that was read, a line to append is beyond cursor and batch.   *)
HeardRows == /\ Ascending(rows[Main])
             /\ cursor < nextId[Main]
             /\ HeardTo(cursor, read)
HeardBatch == agent.at = "turn" => /\ LastId < nextId[Main]
                                   /\ HeardTo(LastId, read \cup Said(agent.batch))
HeardWrites ==
  /\ MovesCursor(pending) => /\ agent.at = None
                             /\ pending[1].value < nextId[Main]
                             /\ HeardTo(pending[1].value, read)
  /\ EndsLine(Main, pending) => /\ pending[1].value.id > cursor
                                /\ agent.at = "turn" => pending[1].value.id > LastId
  /\ ~Restarts(Main, pending)
Honest == ~rewritten => HeardRows /\ HeardBatch /\ HeardWrites

\* The numbers that are compared.
LEMMA LastIdIs ==
  ASSUME Sound
  PROVE  /\ cursor \in Nat /\ nextId[Main] \in Nat /\ nextId[Main] > 0
         /\ rows[Main] \in Seq(RowT) /\ rows \in [Sessions -> Seq(RowT)]
         /\ nextId \in [Sessions -> Nat \ {0}]
         /\ agent.at = "turn" => LastId \in Nat
<1>1. Main \in Sessions
  BY SessionAssumption
<1>2. ASSUME agent.at = "turn" PROVE LastId \in Nat
  <2>1. agent.batch \in Seq(RowT) /\ agent.batch # <<>>
    BY <1>2 DEF Sound, WorkTyped, AgentT
  <2>2. Len(agent.batch) \in DOMAIN agent.batch
    BY <2>1
  <2> QED BY <2>1, <2>2, RowsAre DEF LastId, LastOf
<1>3. nextId[Main] \in Nat \ {0}
  BY <1>1 DEF Sound, FilesTyped
<1>4. nextId[Main] > 0
  BY <1>3
<1> QED BY <1>1, <1>2, <1>3, <1>4 DEF Sound, FilesTyped

\* Writes that a handler begins move no cursor yet and append nothing yet.
LEMMA BegunHeard ==
  ASSUME Begun'
  PROVE  HeardWrites'
<1>1. CASE OnlyDrops(pending)'
  <2>1. pending' \in Seq(DropT)
    BY <1>1 DEF OnlyDrops
  <2>2. \A i \in DOMAIN pending' : pending'[i].to = "drop"
    <3>1. \A i \in DOMAIN pending' : pending'[i] \in DropT
      BY <2>1
    <3> QED BY <3>1 DEF DropT
  <2>3. pending' # <<>> => 1 \in DOMAIN pending'
    BY <2>1
  <2>4. Len(pending') = 1 => 1 \in DOMAIN pending'
    BY <2>1
  <2> QED BY <2>2, <2>3, <2>4 DEF HeardWrites, MovesCursor, EndsLine, Restarts
<1>2. ASSUME NEW s \in Sessions, Begins(s)' PROVE HeardWrites'
  <2>1. \/ Len(pending') = 2 /\ pending'[1].to # "cursor"
        \/ pending'[1].to \in {"rows", "position"}
    BY <1>2 DEF Begins, Appends, Resets, Counts, CountsRows, Alters, Files, Advances
  <2> QED BY <2>1 DEF HeardWrites, MovesCursor, EndsLine, Restarts
<1> QED BY <1>1, <1>2 DEF Begun

\* What leaves rows, cursor and batch alone leaves them heard.
LEMMA HeardStays ==
  ASSUME Sound, Sound', HeardRows, HeardBatch, UNCHANGED <<cursor, agent, read>>,
         rows'[Main] = rows[Main], nextId'[Main] >= nextId[Main]
  PROVE  HeardRows' /\ HeardBatch'
<1>1. LastId' = LastId /\ \A n, S : HeardTo(n, S)' <=> HeardTo(n, S)
  BY DEF LastId, HeardTo
<1>2. nextId[Main] \in Nat /\ nextId'[Main] \in Nat /\ cursor \in Nat
      /\ (agent.at = "turn" => LastId \in Nat)
  <2>1. Main \in Sessions
    BY SessionAssumption
  <2>2. nextId'[Main] \in Nat
    BY <2>1 DEF Sound, FilesTyped
  <2> QED BY <2>2, LastIdIs
<1>3. HeardRows'
  BY <1>2 DEF HeardRows, HeardTo
<1>4. HeardBatch'
  BY <1>1, <1>2 DEF HeardBatch, HeardTo
<1> QED BY <1>3, <1>4

\* A handler that lists writes and changes no file.
LEMMA BegunHonest ==
  ASSUME Sound, Sound', Honest, Begun', UNCHANGED <<rows, nextId, cursor, agent, read, rewritten>>
  PROVE  Honest'
<1> SUFFICES ASSUME ~rewritten' PROVE HeardRows' /\ HeardBatch' /\ HeardWrites'
  BY DEF Honest
<1>1. HeardRows /\ HeardBatch
  BY DEF Honest
<1>2. nextId'[Main] >= nextId[Main]
  BY LastIdIs
<1>3. HeardRows' /\ HeardBatch'
  BY <1>1, <1>2, HeardStays
<1> QED BY <1>3, BegunHeard

\* No handler of a session moves the cursor.
LEMMA HandlerHonest ==
  ASSUME Sound, Sound', Honest, NEW s \in Sessions, Handler(s)
  PROVE  Honest'
<1>1. UNCHANGED <<rows, nextId, cursor, agent, read, rewritten>>
  BY DEF Handler, Say, Notice, ResetSession, CompactSession, SummaryStart, SummaryFails,
         SummaryDone, FlushStart, FlushMessage, FlushDone, files, ghosts
<1>2. Begun'
  <2>1. ASSUME SummaryStart(s) \/ SummaryFails(s) \/ FlushStart(s) PROVE Begun'
    BY <2>1, IdleNext DEF SummaryStart, SummaryFails, FlushStart
  <2>2. ASSUME Notice(s) PROVE Begun'
    BY <2>2, NoticeNext DEF Notice, files
  <2> QED BY <2>1, <2>2, SayNext, ResetNext, CompactNext, SummaryDoneNext, FlushMessageSound,
             FlushDoneNext DEF Handler
<1> QED BY <1>1, <1>2, BegunHonest

\* What a write changes of what was heard, while only appends change the rows.
LEMMA WriteLeaves ==
  ASSUME Sound, Write, ~rewritten', NEW w, w = Head(pending)
  PROVE  /\ ~rewritten /\ UNCHANGED <<agent, read>>
         /\ w.to # "line" => rows'[Main] = rows[Main]
         /\ w.to # "meta" => nextId' = nextId
         /\ w.to # "cursor" => cursor' = cursor
         /\ w.to = "meta" => nextId' = [nextId EXCEPT ![w.s] = w.value]
<1>1. \/ WriteMeta(w) \/ WriteLine(w) \/ WriteRows(w) \/ WriteDrop(w)
      \/ WriteSection(w) \/ WritePosition(w) \/ WriteCursor(w)
  BY DEF Write
<1>2. UNCHANGED <<agent, read>>
  BY DEF Write
<1>3. rows \in [Sessions -> Seq(RowT)] /\ Main \in Sessions
  BY SessionAssumption DEF Sound, FilesTyped
<1>4. ASSUME WriteRows(w) \/ WriteDrop(w)
      PROVE  ~rewritten /\ rows'[Main] = rows[Main] /\ UNCHANGED <<nextId, cursor>>
             /\ w.to \notin {"line", "meta", "cursor"}
  <2>1. w.s # Main /\ ~rewritten
    BY <1>4 DEF WriteRows, WriteDrop
  <2>2. \A rs : [rows EXCEPT ![w.s] = rs][Main] = rows[Main]
    BY <1>3, <2>1
  <2>3. rows'[Main] = rows[Main]
    BY <1>4, <2>2 DEF WriteRows, WriteDrop
  <2> QED BY <1>4, <2>1, <2>3 DEF WriteRows, WriteDrop
<1>5. ASSUME WriteMeta(w) \/ WriteLine(w) \/ WriteSection(w) \/ WritePosition(w) \/ WriteCursor(w)
      PROVE  /\ ~rewritten
             /\ w.to # "line" => rows' = rows
             /\ w.to # "meta" => nextId' = nextId
             /\ w.to # "cursor" => cursor' = cursor
             /\ w.to = "meta" => nextId' = [nextId EXCEPT ![w.s] = w.value]
  BY <1>5 DEF WriteMeta, WriteLine, WriteSection, WritePosition, WriteCursor
<1> QED BY <1>1, <1>2, <1>4, <1>5

\* The cursor moves no further than what its batch has told.
LEMMA MovesCursorHonest ==
  ASSUME Sound, Sound', HeardRows, HeardWrites, MovesCursor(pending), Write, ~rewritten'
  PROVE  HeardRows' /\ HeardBatch' /\ HeardWrites'
<1> DEFINE n == pending[1].value
<1>1. Head(pending) = CursorWrite(n)
  BY DEF MovesCursor
<1>2. CursorWrite(n).to = "cursor" /\ CursorWrite(n).value = n
  BY DEF CursorWrite
<1>3. cursor' = n
  <2>1. WriteCursor(CursorWrite(n))
    BY <1>1, <1>2, WriteMakes
  <2> QED BY <1>2, <2>1 DEF WriteCursor
<1>4. rows'[Main] = rows[Main] /\ UNCHANGED <<nextId, agent, read>>
  BY <1>1, <1>2, WriteLeaves
<1>5. agent.at = None /\ n < nextId[Main] /\ HeardTo(n, read)
  BY DEF HeardWrites
<1>6. HeardRows'
  BY <1>3, <1>4, <1>5 DEF HeardRows, HeardTo
<1>7. HeardBatch'
  BY <1>4, <1>5 DEF HeardBatch, None
<1> QED BY <1>6, <1>7, MovesCursorWritten, BegunHeard

\* The id of a message to come is beyond the cursor.
LEMMA AppendsHonest ==
  ASSUME Sound, Sound', HeardRows, HeardBatch, NEW s \in Sessions, Appends(s, pending),
         Write, ~rewritten'
  PROVE  HeardRows' /\ HeardBatch' /\ HeardWrites'
<1> DEFINE row == pending[2].value
           w == MetaWrite(s, nextId[s] + 1)
<1>1. pending = <<w, LineWrite(s, row)>> /\ row.id = nextId[s]
  BY DEF Appends
<1>2. Head(pending) = w /\ Tail(pending) = <<LineWrite(s, row)>>
  BY <1>1, OneAndTwo, Zenon
<1>3. w.to = "meta" /\ w.s = s /\ w.value = nextId[s] + 1
  BY DEF MetaWrite
<1>4. pending' = <<LineWrite(s, row)>>
  BY <1>2, WriteMakes
<1> HIDE DEF row, w
<1>5. /\ rows'[Main] = rows[Main] /\ UNCHANGED <<cursor, agent, read>>
      /\ nextId' = [nextId EXCEPT ![s] = nextId[s] + 1]
  BY <1>2, <1>3, WriteLeaves
<1>6. nextId'[Main] >= nextId[Main]
  <2>1. nextId \in [Sessions -> Nat \ {0}] /\ Main \in Sessions
    BY SessionAssumption, LastIdIs
  <2>2. nextId[Main] \in Nat /\ nextId[s] \in Nat
    BY <2>1
  <2> QED BY <1>5, <2>1, <2>2
<1>7. HeardRows' /\ HeardBatch'
  BY <1>5, <1>6, HeardStays
<1>8. pending'[1].to = "line" /\ pending'[1].s = s /\ pending'[1].value = row
  BY <1>4 DEF LineWrite
<1>9. HeardWrites'
  <2>1. ~MovesCursor(pending)' /\ ~Restarts(Main, pending)'
    BY <1>8 DEF MovesCursor, Restarts
  <2>2. ASSUME EndsLine(Main, pending)'
        PROVE  /\ pending'[1].value.id > cursor'
               /\ agent'.at = "turn" => pending'[1].value.id > LastId'
    <3>1. pending'[1] = LineWrite(Main, pending'[1].value)
      BY <2>2 DEF EndsLine
    <3>2. s = Main
      BY <1>8, <3>1 DEF LineWrite
    <3>3. nextId[Main] > cursor
      BY LastIdIs DEF HeardRows
    <3>4. agent.at = "turn" => nextId[Main] > LastId
      BY LastIdIs DEF HeardBatch
    <3> QED BY <1>1, <1>5, <1>8, <3>2, <3>3, <3>4 DEF LastId
  <2> QED BY <2>1, <2>2 DEF HeardWrites
<1> QED BY <1>7, <1>9

\* The line that ends an append is beyond the cursor and the batch.
LEMMA EndsLineHonest ==
  ASSUME Sound, Sound', HeardRows, HeardBatch, HeardWrites,
         NEW s \in Sessions, EndsLine(s, pending), Write, ~rewritten'
  PROVE  HeardRows' /\ HeardBatch' /\ HeardWrites'
<1> DEFINE row == pending[1].value
           w == LineWrite(s, row)
<1>1. pending = <<w>> /\ row \in RowT /\ row.id < nextId[s] /\ Below(rows[s], row.id)
  BY DEF EndsLine
<1>2. Head(pending) = w
  BY <1>1, OneAndTwo, Zenon
<1>3. w.to = "line" /\ w.s = s /\ w.value = row
  BY DEF LineWrite
<1>4. s = Main => row.id > cursor /\ (agent.at = "turn" => row.id > LastId)
  BY DEF HeardWrites
<1> HIDE DEF row, w
<1>5. /\ UNCHANGED <<nextId, cursor, agent, read>>
      /\ rows' = rows \/ rows' = [rows EXCEPT ![s] = Append(rows[s], row)]
  <2>1. WriteLine(w)
    BY <1>2, <1>3, WriteMakes
  <2>2. rows' = rows \/ rows' = [rows EXCEPT ![s] = Append(rows[s], row)]
    BY <1>3, <2>1 DEF WriteLine
  <2> QED BY <1>2, <1>3, <2>2, WriteLeaves
<1>6. rows \in [Sessions -> Seq(RowT)] /\ Main \in Sessions /\ nextId[Main] \in Nat
  BY SessionAssumption, LastIdIs
<1>7. CASE rows'[Main] = rows[Main]
  <2>1. nextId'[Main] >= nextId[Main]
    BY <1>5, <1>6
  <2> QED BY <1>5, <1>7, <2>1, HeardStays, EndsLineWritten, BegunHeard
<1>8. CASE s = Main /\ rows'[Main] = Append(rows[Main], row)
  <2> DEFINE rs == rows[Main]
             l == Len(rs)
  <2>1. /\ l \in Nat /\ DOMAIN rs = 1 .. l /\ DOMAIN rows'[Main] = 1 .. l + 1
        /\ rows'[Main][l + 1] = row /\ \A i \in 1 .. l : rows'[Main][i] = rs[i]
    BY <1>6, <1>8
  <2>2. /\ \A i \in 1 .. l : rs[i].id \in Nat /\ rs[i].id < row.id
        /\ row.id \in Nat
    <3>1. rs \in Seq(RowT)
      BY <1>6
    <3>2. \A i \in 1 .. l : rs[i].id \in Nat
      BY <2>1, <3>1, RowsAre
    <3> QED BY <1>1, <1>8, <2>1, <3>2 DEF RowT, Below
  <2>3. Ascending(rs) /\ HeardTo(cursor, read)
    BY DEF HeardRows
  <2> HIDE DEF l
  <2>4. \A i \in 1 .. l + 1 : i \in 1 .. l \/ i = l + 1
    BY <2>1
  <2>5. Ascending(rows'[Main])
    <3>1. SUFFICES ASSUME NEW i \in 1 .. l + 1, NEW j \in 1 .. l + 1, i < j
                   PROVE  rows'[Main][i].id < rows'[Main][j].id
      BY <2>1 DEF Ascending
    <3>2. i \in 1 .. l
      BY <2>1, <3>1
    <3>3. CASE j \in 1 .. l
      BY <2>1, <2>3, <3>1, <3>2, <3>3 DEF Ascending
    <3>4. CASE j = l + 1
      BY <2>1, <2>2, <3>2, <3>4
    <3> QED BY <2>4, <3>3, <3>4
  <2>6. ASSUME NEW n \in Nat, NEW S, HeardTo(n, S), row.id > n
        PROVE  HeardTo(n, S)'
    <3>1. SUFFICES ASSUME NEW i \in 1 .. l + 1, rows'[Main][i].id <= n
                   PROVE  rows'[Main][i].says \subseteq S
      BY <2>1 DEF HeardTo
    <3>2. i # l + 1
      BY <2>1, <2>2, <2>6, <3>1
    <3> QED BY <2>1, <2>4, <2>6, <3>1, <3>2 DEF HeardTo
  <2>7. HeardRows'
    <3>1. cursor \in Nat /\ row.id > cursor
      BY <1>4, <1>8, LastIdIs
    <3>2. HeardTo(cursor, read)'
      BY <1>5, <2>3, <2>6, <3>1 DEF HeardTo
    <3> QED BY <1>5, <2>5, <3>2 DEF HeardRows
  <2>8. HeardBatch'
    <3>1. SUFFICES ASSUME agent'.at = "turn"
                   PROVE  (LastId < nextId[Main] /\ HeardTo(LastId, read \cup Said(agent.batch)))'
      BY DEF HeardBatch
    <3>2. agent.at = "turn"
      BY <1>5, <3>1
    <3>3. /\ LastId \in Nat /\ row.id > LastId /\ LastId < nextId[Main]
          /\ HeardTo(LastId, read \cup Said(agent.batch))
      BY <1>4, <1>8, <3>2, LastIdIs DEF HeardBatch
    <3>4. LastId' = LastId /\ Said(agent.batch)' = Said(agent.batch)
      BY <1>5 DEF LastId
    <3> DEFINE S == read \cup Said(agent.batch)
               n == LastId
    <3>5. S' = S /\ n' = n
      BY <1>5, <3>4
    <3>6. HeardTo(n, S)
      BY <3>3
    <3>7. n \in Nat /\ row.id > n
      BY <3>3
    <3>8. n < nextId'[Main]
      BY <1>5, <3>3
    <3> HIDE DEF S, n
    <3>9. \A i \in DOMAIN rows'[Main] : rows'[Main][i].id <= n => rows'[Main][i].says \subseteq S
      BY <2>6, <3>6, <3>7 DEF HeardTo
    <3> QED BY <1>5, <3>5, <3>8, <3>9 DEF S, n, HeardTo
  <2> QED BY <2>7, <2>8, EndsLineWritten, BegunHeard
<1>9. rows'[Main] = rows[Main] \/ (s = Main /\ rows'[Main] = Append(rows[Main], row))
  BY <1>5, <1>6
<1> QED BY <1>7, <1>8, <1>9

\* A session that starts its ids again is not Main, of which nothing is known then.
LEMMA ResetsHonest ==
  ASSUME Sound, Sound', HeardRows, HeardBatch, NEW s \in Sessions, Resets(s, pending),
         Write, ~rewritten'
  PROVE  HeardRows' /\ HeardBatch' /\ HeardWrites'
<1> DEFINE w == RowsWrite(s, <<>>, "reset")
<1>1. Head(pending) = w /\ Tail(pending) = <<MetaWrite(s, 1)>>
  BY OneAndTwo, Zenon DEF Resets
<1>2. w.to = "rows" /\ w.s = s
  BY DEF RowsWrite
<1> HIDE DEF w
<1>3. s # Main
  <2>1. WriteRows(w)
    BY <1>1, <1>2, WriteMakes
  <2> QED BY <1>2, <2>1 DEF WriteRows
<1>4. rows'[Main] = rows[Main] /\ UNCHANGED <<nextId, cursor, agent, read>>
  BY <1>1, <1>2, WriteLeaves
<1>5. nextId'[Main] >= nextId[Main]
  BY <1>4, LastIdIs
<1>6. pending'[1].to = "meta" /\ pending'[1].s = s
  <2>1. pending' = <<MetaWrite(s, 1)>>
    BY <1>1, WriteMakes
  <2> QED BY <2>1 DEF MetaWrite
<1>7. HeardWrites'
  <2>1. ASSUME Restarts(Main, pending)' PROVE FALSE
    <3>1. pending'[1] = MetaWrite(Main, 1)
      BY <2>1 DEF Restarts
    <3> QED BY <1>3, <1>6, <3>1 DEF MetaWrite
  <2> QED BY <1>6, <2>1 DEF HeardWrites, MovesCursor, EndsLine
<1> QED BY <1>4, <1>5, <1>7, HeardStays

\* The other writes of meta.json do not lower the next id of Main.
LEMMA MetaHonest ==
  ASSUME Sound, Sound', HeardRows, HeardBatch, HeardWrites, NEW s \in Sessions,
         Restarts(s, pending) \/ Counts(s, pending), Write, ~rewritten'
  PROVE  HeardRows' /\ HeardBatch' /\ HeardWrites'
<1>1. PICK n \in Nat : /\ Head(pending) = MetaWrite(s, n)
                       /\ s = Main => n >= nextId[Main]
  <2>1. CASE Restarts(s, pending)
    <3>1. Head(pending) = MetaWrite(s, 1) /\ s # Main
      BY <2>1, OneAndTwo, Zenon DEF Restarts, HeardWrites
    <3> QED BY <3>1
  <2>2. CASE Counts(s, pending)
    <3>1. Head(pending) = MetaWrite(s, pending[1].value)
      BY <2>2, OneAndTwo, Zenon DEF Counts
    <3> QED BY <2>2, <3>1 DEF Counts
  <2> QED BY <2>1, <2>2
<1>2. MetaWrite(s, n).to = "meta" /\ MetaWrite(s, n).s = s /\ MetaWrite(s, n).value = n
  BY DEF MetaWrite
<1>3. /\ rows'[Main] = rows[Main] /\ UNCHANGED <<cursor, agent, read>>
      /\ nextId' = [nextId EXCEPT ![s] = n]
  BY <1>1, <1>2, WriteLeaves
<1>4. nextId'[Main] >= nextId[Main]
  <2>1. nextId \in [Sessions -> Nat \ {0}] /\ Main \in Sessions /\ nextId[Main] \in Nat
    BY SessionAssumption, LastIdIs
  <2> QED BY <1>1, <1>3, <2>1
<1> QED BY <1>3, <1>4, HeardStays, RestartsWritten, CountsWritten, BegunHeard

\* The other writes are not of Main's rows.
LEMMA OtherHonest ==
  ASSUME Sound, Sound', HeardRows, HeardBatch, Write, ~rewritten',
         Head(pending).to \in {"rows", "drop", "section", "position"}, Begun'
  PROVE  HeardRows' /\ HeardBatch' /\ HeardWrites'
<1>1. rows'[Main] = rows[Main] /\ UNCHANGED <<nextId, cursor, agent, read>>
  BY WriteLeaves
<1>2. nextId'[Main] >= nextId[Main]
  BY <1>1, LastIdIs
<1> QED BY <1>1, <1>2, HeardStays, BegunHeard

\* A write keeps the cursor honest, whatever it is of.
LEMMA WriteHonest ==
  ASSUME Sound, Sound', Honest, Write
  PROVE  Honest'
<1> SUFFICES ASSUME ~rewritten' PROVE HeardRows' /\ HeardBatch' /\ HeardWrites'
  BY DEF Honest
<1>0. pending # <<>>
  BY WriteMakes
<1>1. HeardRows /\ HeardBatch /\ HeardWrites
  BY WriteLeaves DEF Honest
<1>2. CASE OnlyDrops(pending)
  <2>1. Head(pending) \in DropT
    BY <1>0, <1>2, HeadTailProperties DEF OnlyDrops
  <2>2. Head(pending).to = "drop"
    BY <2>1 DEF DropT
  <2> QED BY <1>1, <1>2, <2>2, DropsWritten, OtherHonest
<1>3. CASE MovesCursor(pending)
  BY <1>1, <1>3, MovesCursorHonest
<1>4. ASSUME NEW s \in Sessions, CountsRows(s, pending) \/ Alters(s, pending)
                                 \/ Files(s, pending) \/ Advances(s, pending)
      PROVE  HeardRows' /\ HeardBatch' /\ HeardWrites'
  <2>1. Begun'
    BY <1>4, CountsRowsWritten, AltersWritten, FilesWritten
  <2>2. CASE CountsRows(s, pending)
    <3>1. Head(pending) = RowsWrite(s, pending[1].value, "count")
      BY <2>2, OneAndTwo, Zenon DEF CountsRows
    <3>2. Head(pending).to = "rows"
      BY <3>1 DEF RowsWrite
    <3> QED BY <1>1, <2>1, <3>2, OtherHonest
  <2>3. CASE Alters(s, pending)
    <3>1. Head(pending).to = "rows"
      BY <2>3 DEF Alters, RowsWrite
    <3> QED BY <1>1, <2>1, <3>1, OtherHonest
  <2>4. CASE Files(s, pending)
    <3>1. Head(pending) = SectionWrite(s, pending[1].value)
      BY <2>4, OneAndTwo, Zenon DEF Files
    <3>2. Head(pending).to = "section"
      BY <3>1 DEF SectionWrite
    <3> QED BY <1>1, <2>1, <3>2, OtherHonest
  <2>5. CASE Advances(s, pending)
    <3>1. Head(pending) = PositionWrite(s, pending[1].value)
      BY <2>5, OneAndTwo, Zenon DEF Advances
    <3>2. Head(pending).to = "position"
      BY <3>1 DEF PositionWrite
    <3> QED BY <1>1, <2>1, <3>2, OtherHonest
  <2> QED BY <1>4, <2>2, <2>3, <2>4, <2>5
<1>5. ASSUME NEW s \in Sessions, Left(s) PROVE HeardRows' /\ HeardBatch' /\ HeardWrites'
  BY <1>1, <1>4, <1>5, AppendsHonest, EndsLineHonest, ResetsHonest, MetaHonest DEF Left
<1> QED BY <1>2, <1>3, <1>5 DEF Sound, PendingSound

-----------------------------------------------------------------------------
(* The run of the MemoryAgent.                                             *)

\* The rows up to the last of a batch were read before or are in it.
RowsAfter(rs, c) == C!Without(rs, {i \in DOMAIN rs : rs[i].id <= c})
\* What stands up to the end of a batch was heard or is in it.
LEMMA BatchHeard ==
  ASSUME NEW rs \in Seq(RowT), Ascending(rs), NEW c \in Nat, NEW R \in SUBSET Texts,
         \A i \in DOMAIN rs : rs[i].id <= c => rs[i].says \subseteq R,
         NEW n \in 1 .. Len(RowsAfter(rs, c))
  PROVE  LET batch == SubSeq(RowsAfter(rs, c), 1, n) IN
         /\ \E i \in DOMAIN rs : LastOf(batch).id = rs[i].id
         /\ \A i \in DOMAIN rs : rs[i].id <= LastOf(batch).id => rs[i].says \subseteq R \cup Said(batch)
<1> DEFINE gone == {i \in DOMAIN rs : rs[i].id <= c}
           new == RowsAfter(rs, c)
           batch == SubSeq(new, 1, n)
<1>1. PICK m, q : Leads(Len(rs), gone, m, q) /\ At(new, rs, m, q)
  BY WithoutEntries DEF RowsAfter
<1>2. new \in Seq(RowT)
  BY WithoutEntries DEF RowsAfter
<1>0. n \in 1 .. Len(new) /\ batch = SubSeq(new, 1, n)
  OBVIOUS
<1> HIDE DEF gone, new, batch
<1>3. /\ m \in Nat /\ Len(new) = m /\ DOMAIN rs = 1 .. Len(rs) /\ Len(rs) \in Nat
      /\ \A k \in 1 .. m : q[k] \in 1 .. Len(rs) /\ new[k] = rs[q[k]]
      /\ \A j, k \in 1 .. m : j < k => q[j] < q[k]
      /\ \A i \in 1 .. Len(rs) : i \notin gone => \E k \in 1 .. m : q[k] = i
  BY <1>1 DEF Leads, At
<1>4. /\ Len(batch) = n /\ DOMAIN batch = 1 .. n
      /\ \A k \in 1 .. n : batch[k] = new[k]
  BY <1>0, <1>2
<1>5. n \in 1 .. m /\ LastOf(batch) = rs[q[n]] /\ q[n] \in 1 .. Len(rs)
  BY <1>0, <1>3, <1>4 DEF LastOf
<1>6. \A i \in DOMAIN rs : rs[i].id \in Nat
  BY RowsAre
<1>7. ASSUME NEW i \in DOMAIN rs, rs[i].id <= LastOf(batch).id
      PROVE  rs[i].says \subseteq R \cup Said(batch)
  <2>1. CASE i \in gone
    BY <2>1 DEF gone
  <2>2. CASE i \notin gone
    <3>1. PICK k \in 1 .. m : q[k] = i
      BY <1>3, <2>2
    <3>2. k <= n
      <4>1. SUFFICES ASSUME n < k PROVE FALSE
        BY <1>5
      <4>2. q[n] < i
        BY <1>3, <1>5, <3>1, <4>1
      <4>3. rs[q[n]].id < rs[i].id
        BY <1>3, <1>5, <4>2 DEF Ascending
      <4> QED BY <1>3, <1>5, <1>6, <1>7, <4>3
    <3>3. k \in DOMAIN batch /\ batch[k] = rs[i]
      BY <1>3, <1>4, <3>1, <3>2
    <3> QED BY <3>3 DEF Said
  <2> QED BY <2>1, <2>2
<1> QED BY <1>3, <1>5, <1>7 DEF batch, new

\* The start of a run, its batch and its failure keep the cursor honest.
LEMMA AgentHonest ==
  ASSUME Sound, Sound', Honest, AgentStart \/ AgentReads \/ AgentFails
  PROVE  Honest'
<1> SUFFICES ASSUME ~rewritten' PROVE HeardRows' /\ HeardBatch' /\ HeardWrites'
  BY DEF Honest
<1>1. /\ UNCHANGED <<rows, nextId, cursor, rewritten, read>>
      /\ pending' = AppendWrites(Main, "system", {})
  BY DEF AgentStart, AgentReads, AgentFails, files, ghosts
<1>2. HeardWrites'
  BY <1>1, NoticeNext, BegunHeard, SessionAssumption
<1>3. HeardRows
  BY <1>1 DEF Honest
<1>4. HeardRows'
  BY <1>1, <1>3 DEF HeardRows, HeardTo
<1>5. CASE agent'.at # "turn"
  BY <1>2, <1>4, <1>5 DEF HeardBatch
<1>6. ASSUME NEW n \in 1 .. Len(NewMessages),
             agent' = [at |-> "turn", batch |-> SubSeq(NewMessages, 1, n)]
      PROVE  HeardBatch'
  <2> DEFINE rs == rows[Main]
             new == NewMessages
             batch == SubSeq(new, 1, n)
  <2>1. rs \in Seq(RowT) /\ cursor \in Nat /\ Ascending(rs)
        /\ \A i \in DOMAIN rs : rs[i].id <= cursor => rs[i].says \subseteq read
    BY <1>3, LastIdIs DEF HeardRows, HeardTo
  <2>2. new = RowsAfter(rs, cursor) /\ read \in SUBSET Texts
    BY DEF NewMessages, RowsAfter, Sound, GhostsTyped
  <2>3. agent'.batch = batch
    BY <1>6
  <2>4. Below(rs, nextId[Main])
    BY SessionAssumption DEF Sound, RowsNumbered, Numbered
  <2> HIDE DEF rs, new, batch
  <2>5. n \in 1 .. Len(new) /\ batch = SubSeq(new, 1, n)
    BY DEF new, batch
  <2>6. /\ \E i \in DOMAIN rs : LastOf(batch).id = rs[i].id
        /\ \A i \in DOMAIN rs : rs[i].id <= LastOf(batch).id => rs[i].says \subseteq read \cup Said(batch)
    BY <2>1, <2>2, <2>5, BatchHeard
  <2>7. LastId' = LastOf(batch).id
    BY <2>3 DEF LastId, LastOf
  <2>8. LastId' < nextId'[Main]
    BY <1>1, <2>4, <2>6, <2>7 DEF Below
  <2>9. Said(agent.batch)' = Said(batch)
    BY <2>3 DEF Said
  <2>10. rows'[Main] = rs /\ read' = read
    BY <1>1 DEF rs
  <2> QED BY <2>6, <2>7, <2>8, <2>9, <2>10 DEF HeardBatch, HeardTo
<1>7. \/ agent'.at # "turn"
      \/ \E n \in 1 .. Len(NewMessages) :
           agent' = [at |-> "turn", batch |-> SubSeq(NewMessages, 1, n)]
  BY DEF AgentStart, AgentReads, AgentFails, NoAgent, None
<1> QED BY <1>2, <1>4, <1>5, <1>6, <1>7

\* The cursor moves to the last row of the batch, which has been read.
LEMMA AgentDoneHonest ==
  ASSUME Sound, Honest, AgentDone
  PROVE  Honest'
<1> SUFFICES ASSUME ~rewritten' PROVE HeardRows' /\ HeardBatch' /\ HeardWrites'
  BY DEF Honest
<1>1. /\ UNCHANGED <<rows, nextId, cursor, rewritten>>
      /\ pending' = <<CursorWrite(NewCursor)>> \o AppendWrites(Main, "system", {})
      /\ read' = read \cup Said(agent.batch) /\ agent' = NoAgent /\ agent.at = "turn"
  BY DEF AgentDone, files
<1>2. HeardRows /\ LastId < nextId[Main] /\ HeardTo(LastId, read \cup Said(agent.batch))
  BY <1>1 DEF Honest, HeardBatch
<1>3. HeardRows'
  BY <1>1, <1>2 DEF HeardRows, HeardTo
<1>4. agent'.at = None /\ HeardBatch'
  BY <1>1 DEF HeardBatch, NoAgent, None
<1>5. pending'[1] = CursorWrite(NewCursor)
  BY <1>1 DEF AppendWrites
<1>6. pending'[1].to = "cursor" /\ pending'[1].value = NewCursor
  BY <1>5 DEF CursorWrite
<1>7. NewCursor = LastId
  BY DEF NewCursor, LastId
<1>8. /\ NewCursor < nextId'[Main]
      /\ \A i \in DOMAIN rows'[Main] :
           rows'[Main][i].id <= NewCursor => rows'[Main][i].says \subseteq read'
  BY <1>1, <1>2, <1>7 DEF HeardTo
<1>9. HeardWrites'
  BY <1>4, <1>6, <1>8 DEF HeardWrites, EndsLine, Restarts, HeardTo
<1> QED BY <1>3, <1>4, <1>9

\* So does a crash,
LEMMA CrashHonest ==
  ASSUME Honest, Crash
  PROVE  Honest'
<1> SUFFICES ASSUME ~rewritten' PROVE HeardRows' /\ HeardBatch' /\ HeardWrites'
  BY DEF Honest
<1>1. pending' = <<>> /\ agent' = NoAgent /\ UNCHANGED <<rows, nextId, cursor, read, rewritten>>
  BY DEF Crash
<1>2. HeardRows'
  BY <1>1 DEF Honest, HeardRows, HeardTo
<1>3. HeardBatch'
  BY <1>1 DEF HeardBatch, NoAgent, None
<1>4. HeardWrites'
  BY <1>1 DEF HeardWrites, MovesCursor, EndsLine, Restarts
<1> QED BY <1>2, <1>3, <1>4

\* and a step of something else.
LEMMA StutterHonest == Honest /\ UNCHANGED vars => Honest'
<1> SUFFICES ASSUME Honest, UNCHANGED vars PROVE Honest'
  OBVIOUS
<1>1. UNCHANGED <<rows, nextId, cursor, pending, agent, read, rewritten>>
  BY DEF vars, files, memory, ghosts
<1>2. HeardRows' <=> HeardRows
  BY <1>1 DEF HeardRows, HeardTo
<1>3. HeardBatch' <=> HeardBatch
  BY <1>1 DEF HeardBatch, HeardTo, LastId
<1>4. HeardWrites' <=> HeardWrites
  BY <1>1 DEF HeardWrites, HeardTo, LastId, MovesCursor, Appends, EndsLine, Restarts
<1> QED BY <1>1, <1>2, <1>3, <1>4 DEF Honest

\* The cursor begins honest.
LEMMA InitHonest == Init => Honest
<1> SUFFICES ASSUME Init PROVE HeardRows /\ HeardBatch /\ HeardWrites
  BY DEF Honest
<1>1. rows[Main] = <<>> /\ nextId[Main] = 1 /\ cursor = 0 /\ pending = <<>> /\ agent.at = None
  BY SessionAssumption DEF Init, NoAgent
<1> QED BY <1>1 DEF HeardRows, HeardBatch, HeardWrites, HeardTo, Ascending, MovesCursor,
                    EndsLine, Restarts, None

\* Every step of the store keeps the cursor honest.
LEMMA NextHonest == Sound /\ Honest /\ [Next]_vars => Honest'
<1> SUFFICES ASSUME Sound, Honest, [Next]_vars PROVE Honest'
  OBVIOUS
<1>1. Sound'
  BY NextSound
<1>2. ASSUME NEW s \in Sessions, Handler(s) PROVE Honest'
  BY <1>1, <1>2, HandlerHonest
<1>3. CASE AgentStart \/ AgentReads \/ AgentFails
  BY <1>1, <1>3, AgentHonest
<1>4. CASE AgentDone
  BY <1>4, AgentDoneHonest
<1>5. CASE Write
  BY <1>1, <1>5, WriteHonest
<1>6. CASE Crash
  BY <1>6, CrashHonest
<1>7. CASE UNCHANGED vars
  BY <1>7, StutterHonest
<1> QED BY <1>2, <1>3, <1>4, <1>5, <1>6, <1>7 DEF Next

(* While only appends have changed the main session, the MemoryAgent has    *)
(* read what stands up to its cursor: whatever was appended during its      *)
(* turn, however many of the new messages fit its model, whether its run    *)
(* succeeds or not and wherever a crash cuts it (runMemoryConsolidation).  *)
THEOREM CursorHonestHolds == Spec => []CursorHonest
<1>1. Honest => CursorHonest
  BY DEF Honest, HeardRows, HeardTo, CursorHonest
<1> QED BY <1>1, InitSound, NextSound, InitHonest, NextHonest, PTL DEF Spec

-----------------------------------------------------------------------------
(* The refinement. While one session is looked at, no summary is overtaken  *)
(* and every flush files its whole zone, the files are a conversation. What *)
(* makes it so is Kept: of the writes to come, of the files, of the zone a  *)
(* turn works on, and of what a flush has filed so far.                     *)

\* The texts of memory.md, and those that are held there or were let go.
SectionTexts == UNION {section[Main][i] : i \in DOMAIN section[Main]}
Safe == Filed \cup (dropped \cap history[Main])

\* A row whose number has a section says what was filed of this conversation.
FiledAs(r) ==
  r.id \in DOMAIN section[Main] => section[Main][r.id] \cap history[Main] \subseteq r.says
AllFiledAs(rs) == \A i \in DOMAIN rs : FiledAs(rs[i])

(* A line to append tells one text or none, which nobody has heard of.      *)
NewLine(r) ==
  /\ r.says = {} \/ \E t \in Texts : r.says = {t}
  /\ r.says \subseteq 1 .. told
  /\ r.says \cap (history[Main] \cup dropped \cup SectionTexts) = {}
  /\ r.id \in DOMAIN section[Main] => section[Main][r.id] \cap history[Main] = {}

(* Rows that replace those there are: shortened, with a summary or a pointer *)
(* in one place, or with the first ones counted.                           *)
SameSays(rs, ts, i) == \A k \in DOMAIN ts : k # i => rs[k].says = ts[k].says
Folds(rs, ts) ==
  /\ Len(rs) = Len(ts)
  /\ \/ SameSays(rs, ts, 0)
     \/ \E i \in DOMAIN ts : \E j \in i .. Len(ts) :
          /\ rs[i].says = UNION {ts[k].says : k \in i .. j}
          /\ SameSays(rs, ts, i)
     \/ \E i \in DOMAIN ts :
          /\ ts[i].says \subseteq Safe
          /\ rs[i].says = {}
          /\ SameSays(rs, ts, i)
CountsFirst(rs, ts) ==
  \E n \in 1 .. Len(ts), m \in 0 .. 3 :
    /\ Len(rs) = m + (Len(ts) - n)
    /\ \A i \in 1 .. m : rs[i].says = {}
    /\ \A i \in 1 .. Len(ts) - n : rs[m + i].says = ts[n + i].says
    /\ UNION {r.says : r \in RowSet(ts) \ RowSet(rs)} = UNION {ts[i].says : i \in 1 .. n}
NewRows(rs, why) ==
  /\ why = "reset" => rs = <<>>
  /\ why \in {"snip", "fold"} => Folds(rs, rows[Main])
  /\ why = "count" => CountsFirst(rs, rows[Main])
  /\ why # "reset" => /\ Said(rs) \subseteq history[Main]
                      /\ position[Main] = 0 => AllFiledAs(rs)

(* What the rows to delete say is in the others, in memory.md or let go.    *)
Others(rs, ids) == UNION {rs[i].says : i \in {j \in DOMAIN rs : rs[j].id \notin ids}}
Covers(rs, ids) ==
  \A i \in DOMAIN rs : rs[i].id \in ids => rs[i].says \subseteq Safe \cup Others(rs, ids)
RowsThen == IF pending[1].to = "rows" THEN pending[1].value ELSE rows[Main]

KeptWrites ==
  \A i \in DOMAIN pending : \A w \in {pending[i]} :
    /\ w.to = "line" => NewLine(w.value)
    /\ w.to = "rows" => NewRows(w.value, w.why)
    /\ w.to = "drop" => \A rs \in {RowsThen} : Covers(rs, w.value)
    /\ w.to = "position" => w.value > 0
    /\ w.to = "meta" /\ i = 1 => w.value >= nextId[Main] \/ history[Main] = {}

KeptFiles ==
  /\ section = [s \in Sessions |-> section[s]] /\ DOMAIN section[Main] \subseteq Nat
  /\ Said(rows[Main]) \subseteq history[Main]
  /\ history[Main] \cup dropped \cup SectionTexts \subseteq 1 .. told
  /\ \A id \in DOMAIN section[Main] :
       section[Main][id] \cap history[Main] # {} => id < nextId[Main]
  /\ position[Main] = 0 => AllFiledAs(rows[Main])

(* The zone that is worked on is where it was, while nothing else replaces   *)
(* or deletes rows.                                                        *)
Standing(zone, rs) ==
  \E h \in 0 .. Len(rs) : /\ h + Len(zone) <= Len(rs)
                          /\ \A k \in 1 .. Len(zone) : rs[h + k] = zone[k]
KeptZone ==
  work[Main].kind # None =>
    /\ Standing(work[Main].zone, rows[Main])
    /\ \A i \in DOMAIN pending : pending[i].to \notin {"rows", "drop"}

(* A flush that began with the first row of its zone and goes to the last    *)
(* has filed those it went over, or let them go.                           *)
WholeFlush ==
  work[Main].kind = "flush" =>
    work[Main].filed = work[Main].at /\ Len(work[Main].zone) <= FlushBatch
Filing == IF pending # <<>> /\ pending[1].to = "section" THEN pending[1].value.says ELSE {}
KeptFlush ==
  LET w == work[Main] IN
  /\ pending # <<>> /\ pending[1].to = "section" =>
       /\ w.kind = "flush" /\ w.at \in 1 .. Len(w.zone)
       /\ pending[1].value = w.zone[w.at]
       /\ FiledAs(pending[1].value)
  /\ w.kind = "flush" =>
       /\ w.at <= w.stop /\ w.stop = Len(w.zone)
       /\ \A k \in 1 .. w.at : w.zone[k].says \subseteq Safe \cup Filing
       /\ \A k \in w.at + 1 .. Len(w.zone) : FiledAs(w.zone[k])
       /\ w.at > 0 => position[Main] > 0 \/ \E i \in DOMAIN pending : pending[i].to = "position"

Kept == KeptWrites /\ KeptFiles /\ KeptZone /\ KeptFlush

\* The runs are of one session, whose summaries nothing overtakes.
Alone == Sessions = {Main} /\ ~Overlap

-----------------------------------------------------------------------------
(* What stays when a handler only lists its writes.                        *)

\* A sequence of rows as the conversation shows it.
Says(rs) == [i \in DOMAIN rs |-> rs[i].says]
\* Its entries are as many as the rows.
LEMMA SaysIs ==
  ASSUME NEW rs \in Seq(RowT)
  PROVE  /\ Says(rs) \in Seq(SUBSET Texts) /\ Len(Says(rs)) = Len(rs)
         /\ DOMAIN Says(rs) = 1 .. Len(rs) /\ DOMAIN rs = 1 .. Len(rs) /\ Len(rs) \in Nat
         /\ \A i \in 1 .. Len(rs) : Says(rs)[i] = rs[i].says /\ rs[i].says \in SUBSET Texts
<1>1. /\ DOMAIN rs = 1 .. Len(rs) /\ Len(rs) \in Nat
      /\ \A i \in 1 .. Len(rs) : rs[i].says \in SUBSET Texts
  BY RowsAre
<1>2. Says(rs) = [i \in 1 .. Len(rs) |-> rs[i].says]
  BY <1>1 DEF Says
<1>3. Says(rs) \in [1 .. Len(rs) -> SUBSET Texts]
  BY <1>1, <1>2
<1>4. Says(rs) \in Seq(SUBSET Texts)
  BY <1>1, <1>3
<1>5. DOMAIN Says(rs) = 1 .. Len(rs)
  BY <1>2
<1>6. Len(Says(rs)) = Len(rs)
  BY <1>1, <1>4, <1>5
<1> QED BY <1>1, <1>2, <1>4, <1>5, <1>6

\* The conversation shows the rows of the main session.
LEMMA ShownIsSays == Shown = Says(rows[Main]) /\ Shown' = Says(rows'[Main])
BY DEF Shown, Says

\* The rows of the main session.
LEMMA MainRows ==
  ASSUME Sound
  PROVE  /\ Main \in Sessions
         /\ rows[Main] \in Seq(RowT) /\ Numbered(rows[Main], nextId[Main])
         /\ nextId[Main] \in Nat \ {0} /\ position[Main] \in Nat
         /\ history[Main] \in SUBSET Texts /\ dropped \in SUBSET Texts /\ told \in Nat
BY SessionAssumption DEF Sound, FilesTyped, GhostsTyped, RowsNumbered

\* What a handler leaves alone of the conversation.
LEMMA ConversationStays ==
  ASSUME UNCHANGED <<rows, section, history, dropped>>
  PROVE  UNCHANGED C!conversation
BY DEF C!conversation, Shown, Filed

\* The files stay sound while only texts are told or given up.
LEMMA FilesKept ==
  ASSUME Sound, KeptFiles, UNCHANGED <<rows, nextId, section, position, history>>,
         told' \in {told, told + 1}, dropped' \subseteq dropped \cup history[Main]
  PROVE  KeptFiles'
<1>1. told \in Nat /\ told' \in Nat /\ 1 .. told \subseteq 1 .. told'
  BY MainRows
<1>2. SectionTexts' = SectionTexts
  BY DEF SectionTexts
<1>3. history'[Main] \cup dropped' \cup SectionTexts' \subseteq 1 .. told'
  BY <1>1, <1>2 DEF KeptFiles
<1>4. AllFiledAs(rows[Main])' <=> AllFiledAs(rows[Main])
  BY DEF AllFiledAs, FiledAs
<1> QED BY <1>3, <1>4 DEF KeptFiles

\* Nothing of the session is worked on or listed to write.
LEMMA NothingWorks ==
  ASSUME pending' = <<>>, work'[Main].kind = None
  PROVE  KeptWrites' /\ KeptZone' /\ KeptFlush'
<1>1. KeptWrites'
  BY DEF KeptWrites
<1>2. KeptZone' /\ KeptFlush'
  BY DEF KeptZone, KeptFlush, None
<1> QED BY <1>1, <1>2

\* The work goes on beside writes that are no part of it.
LEMMA WorkKept ==
  ASSUME KeptZone, KeptFlush, Idle, UNCHANGED <<rows, section, position, history, dropped, work>>,
         \A i \in DOMAIN pending' : pending'[i].to \notin {"rows", "drop", "section"},
         pending' # <<>> => 1 \in DOMAIN pending'
  PROVE  KeptZone' /\ KeptFlush'
<1>1. pending = <<>> /\ Filing = {}
  BY DEF Idle, Filing
<1>2. pending' # <<>> => pending'[1].to # "section"
  OBVIOUS
<1>3. Filing' = {}
  BY <1>2 DEF Filing
<1>4. KeptZone'
  BY DEF KeptZone
<1>5. Safe' = Safe
  BY DEF Safe, Filed
<1>6. \A r : FiledAs(r)' <=> FiledAs(r)
  BY DEF FiledAs
<1>7. KeptFlush'
  <2>1. SUFFICES ASSUME work[Main].kind = "flush"
                 PROVE  LET w == work[Main] IN
                        /\ w.at <= w.stop /\ w.stop = Len(w.zone)
                        /\ \A k \in 1 .. w.at : w.zone[k].says \subseteq Safe
                        /\ \A k \in w.at + 1 .. Len(w.zone) : FiledAs(w.zone[k])
                        /\ w.at > 0 => position[Main] > 0
    BY <1>2, <1>3, <1>5 DEF KeptFlush, FiledAs
  <2> QED BY <1>1, <2>1 DEF KeptFlush
<1> QED BY <1>4, <1>7

-----------------------------------------------------------------------------
(* The handlers that only append.                                          *)

\* The writes of an append, alone or after the cursor.
LEMMA AppendWritesAre ==
  ASSUME NEW role, NEW S, NEW q, NEW n,
         \/ q = AppendWrites(Main, role, S)
         \/ q = <<CursorWrite(n)>> \o AppendWrites(Main, role, S)
  PROVE  /\ q # <<>> /\ 1 \in DOMAIN q
         /\ \A i \in DOMAIN q :
              \/ q[i].to = "cursor"
              \/ q[i].to = "meta" /\ q[i].value = nextId[Main] + 1
              \/ q[i].to = "line" /\ q[i].value = Row(nextId[Main], role, S)
<1> DEFINE m == MetaWrite(Main, nextId[Main] + 1)
           l == LineWrite(Main, Row(nextId[Main], role, S))
           c == CursorWrite(n)
<1>1. /\ m.to = "meta" /\ m.value = nextId[Main] + 1
      /\ l.to = "line" /\ l.value = Row(nextId[Main], role, S)
      /\ c.to = "cursor"
  BY DEF MetaWrite, LineWrite, CursorWrite
<1>2. AppendWrites(Main, role, S) = <<m, l>>
  BY DEF AppendWrites
<1> HIDE DEF m, l, c
<1>3. <<m, l>> \in Seq({m, l}) /\ Len(<<m, l>>) = 2 /\ DOMAIN <<m, l>> = 1 .. 2
      /\ <<m, l>>[1] = m /\ <<m, l>>[2] = l
  OBVIOUS
<1>4. CASE q = <<m, l>>
  BY <1>1, <1>3, <1>4
<1>5. CASE q = <<c>> \o <<m, l>>
  <2>1. /\ q # <<>> /\ q[1] = c /\ Len(q) = Len(<<m, l>>) + 1
        /\ \A i \in DOMAIN q : i # 1 =>
             i - 1 \in DOMAIN <<m, l>> /\ q[i] = <<m, l>>[i - 1]
    BY <1>3, <1>5, OneBefore
  <2>2. 1 \in DOMAIN q
    <3>1. <<c>> \in Seq({c, m, l}) /\ <<m, l>> \in Seq({c, m, l})
      OBVIOUS
    <3>2. q \in Seq({c, m, l})
      BY <1>5, <3>1, ConcatProperties
    <3> QED BY <2>1, <3>2
  <2> QED BY <1>1, <1>3, <2>1, <2>2
<1> QED BY <1>2, <1>4, <1>5 DEF c

\* A line to append is new to everybody.
LEMMA NewLineIs ==
  ASSUME Sound, Kept, UNCHANGED <<section, history, dropped>>, NEW role, NEW S,
         \/ S = {} /\ told' = told
         \/ S = {told + 1} /\ told + 1 \in Texts /\ told' = told + 1
  PROVE  \A r : r = Row(nextId[Main], role, S) => NewLine(r)'
<1> SUFFICES ASSUME NEW r, r = Row(nextId[Main], role, S) PROVE NewLine(r)'
  OBVIOUS
<1>1. r.says = S /\ r.id = nextId[Main]
  BY DEF Row
<1>2. /\ history[Main] \cup dropped \cup SectionTexts \subseteq 1 .. told
      /\ nextId[Main] \in Nat /\ told \in Nat
      /\ \A id \in DOMAIN section[Main] :
           section[Main][id] \cap history[Main] # {} => id < nextId[Main]
  BY MainRows DEF Kept, KeptFiles
<1>3. S \subseteq 1 .. told' /\ S \cap (history[Main] \cup dropped \cup SectionTexts) = {}
      /\ (S = {} \/ \E t \in Texts : S = {t})
  BY <1>2
<1>4. nextId[Main] \in DOMAIN section[Main] => section[Main][nextId[Main]] \cap history[Main] = {}
  BY <1>2
<1>5. SectionTexts' = SectionTexts
  BY DEF SectionTexts
<1> QED BY <1>1, <1>3, <1>4, <1>5 DEF NewLine

\* A message to append is news.
LEMMA AppendsKept ==
  ASSUME Sound, Kept, Idle, UNCHANGED <<files, work, history, dropped>>, NEW role, NEW S, NEW n,
         \/ pending' = AppendWrites(Main, role, S)
         \/ pending' = <<CursorWrite(n)>> \o AppendWrites(Main, role, S),
         \/ S = {} /\ told' = told
         \/ S = {told + 1} /\ told + 1 \in Texts /\ told' = told + 1
  PROVE  Kept' /\ UNCHANGED C!conversation
<1>1. UNCHANGED <<rows, nextId, section, position, history, dropped, work>>
  BY DEF files
<1>2. /\ pending' # <<>> /\ 1 \in DOMAIN pending'
      /\ \A i \in DOMAIN pending' :
           \/ pending'[i].to = "cursor"
           \/ pending'[i].to = "meta" /\ pending'[i].value = nextId[Main] + 1
           \/ pending'[i].to = "line" /\ pending'[i].value = Row(nextId[Main], role, S)
  BY AppendWritesAre
<1>3. KeptFiles'
  BY <1>1, FilesKept DEF Kept
<1>4. KeptZone' /\ KeptFlush'
  BY <1>1, <1>2, WorkKept DEF Kept
<1>5. KeptWrites'
  <2>1. \A r : r = Row(nextId[Main], role, S) => NewLine(r)'
    BY <1>1, NewLineIs
  <2>2. nextId'[Main] = nextId[Main] /\ nextId[Main] + 1 >= nextId[Main]
    BY <1>1, MainRows
  <2>3. ASSUME NEW i \in DOMAIN pending', NEW r, r = pending'[i].value
        PROVE  /\ pending'[i].to = "line" => NewLine(r)'
               /\ pending'[i].to = "meta" => r >= nextId'[Main]
               /\ pending'[i].to \notin {"rows", "drop", "position"}
    <3>1. CASE pending'[i].to = "cursor"
      BY <3>1
    <3>2. CASE pending'[i].to = "meta" /\ r = nextId[Main] + 1
      BY <2>2, <3>2
    <3>3. CASE pending'[i].to = "line" /\ r = Row(nextId[Main], role, S)
      BY <2>1, <3>3
    <3> QED BY <1>2, <2>3, <3>1, <3>2, <3>3
  <2> QED BY <2>3 DEF KeptWrites
<1>6. UNCHANGED C!conversation
  BY <1>1, ConversationStays
<1> QED BY <1>3, <1>4, <1>5, <1>6 DEF Kept

\* Messages and notices keep the promise,
LEMMA SayKept ==
  ASSUME Alone, Sound, Kept, NEW s \in Sessions, Say(s) \/ Notice(s)
  PROVE  Kept' /\ UNCHANGED C!conversation
<1>1. s = Main
  BY DEF Alone
<1>2. CASE Say(s)
  <2>1. PICK role \in {"user", "assistant"} : pending' = AppendWrites(Main, role, {told + 1})
    BY <1>1, <1>2 DEF Say
  <2>2. told + 1 \in Texts
    BY <1>2, SessionAssumption, MainRows DEF Say, Texts
  <2> QED BY <1>2, <2>1, <2>2, AppendsKept DEF Say
<1>3. CASE Notice(s)
  BY <1>1, <1>3, AppendsKept DEF Notice, ghosts
<1> QED BY <1>2, <1>3

\* and so do the notices of the MemoryAgent.
LEMMA AgentKept ==
  ASSUME Alone, Sound, Kept, AgentStart \/ AgentReads \/ AgentDone \/ AgentFails
  PROVE  Kept' /\ UNCHANGED C!conversation
<1>1. CASE AgentStart
  BY <1>1, AppendsKept DEF AgentStart, ghosts
<1>2. CASE AgentReads
  BY <1>2, AppendsKept DEF AgentReads, ghosts
<1>3. CASE AgentDone
  BY <1>3, AppendsKept DEF AgentDone
<1>4. CASE AgentFails
  BY <1>4, AppendsKept DEF AgentFails, ghosts
<1> QED BY <1>1, <1>2, <1>3, <1>4

-----------------------------------------------------------------------------
(* The handlers that begin or give up a work.                              *)

\* A summary begins with a zone that stands, or is given up.
LEMMA SummaryBegunKept ==
  ASSUME Alone, Sound, Kept, NEW s \in Sessions, SummaryStart(s) \/ SummaryFails(s)
  PROVE  Kept' /\ UNCHANGED C!conversation
<1>1. s = Main
  BY DEF Alone
<1>2. /\ UNCHANGED <<rows, nextId, section, position, history, dropped, told>>
      /\ pending = <<>> /\ pending' = <<>>
  BY DEF SummaryStart, SummaryFails, files, ghosts, Idle
<1>3. KeptFiles' /\ UNCHANGED C!conversation
  BY <1>2, FilesKept, ConversationStays DEF Kept
<1>4. work \in [Sessions -> WorkT]
  BY DEF Sound, WorkTyped
<1>5. CASE SummaryFails(s)
  <2>1. work'[Main].kind = None
    BY <1>1, <1>4, <1>5, NoWorkIs DEF SummaryFails
  <2> QED BY <1>2, <1>3, <2>1, NothingWorks DEF Kept
<1>6. CASE SummaryStart(s)
  <2> DEFINE w == [NoWork EXCEPT !.kind = "summary", !.zone = Zone(rows[Main])]
  <2>1. work'[Main] = w /\ w.kind = "summary" /\ w.zone = Zone(rows[Main])
    BY <1>1, <1>4, <1>6 DEF SummaryStart, NoWork
  <2> HIDE DEF w
  <2>2. Standing(Zone(rows[Main]), rows[Main])
    <3>1. Len(Zone(rows[Main])) > 1
      BY <1>1, <1>6 DEF SummaryStart, Compressible
    <3>2. /\ Zone(rows[Main]) \in Seq(RowT) /\ HeadCount(rows[Main]) \in 0 .. Len(rows[Main])
          /\ Len(Zone(rows[Main])) > 0 =>
               HeadCount(rows[Main]) + Len(Zone(rows[Main])) <= Len(rows[Main])
          /\ \A k \in 1 .. Len(Zone(rows[Main])) :
               Zone(rows[Main])[k] = rows[Main][HeadCount(rows[Main]) + k]
      BY MainRows, ZoneIs, HeadCountIs
    <3> QED BY <3>1, <3>2 DEF Standing
  <2>3. KeptZone'
    BY <1>2, <2>1, <2>2 DEF KeptZone
  <2>4. KeptFlush'
    BY <1>2, <2>1 DEF KeptFlush
  <2>5. KeptWrites'
    BY <1>2 DEF KeptWrites
  <2> QED BY <1>3, <2>3, <2>4, <2>5 DEF Kept
<1> QED BY <1>5, <1>6

\* A whole flush begins with the first row of a zone that stands.
LEMMA FlushBegunKept ==
  ASSUME Alone, Sound, Kept, NEW s \in Sessions, FlushStart(s), WholeFlush'
  PROVE  Kept' /\ UNCHANGED C!conversation
<1> DEFINE zone == Zone(rows[Main])
           w == FlushRange(Main, zone)
<1>1. s = Main
  BY DEF Alone
<1>2. /\ UNCHANGED <<rows, nextId, section, position, history, dropped, told>>
      /\ pending = <<>> /\ pending' = <<>>
  BY DEF FlushStart, files, ghosts, Idle
<1>3. KeptFiles' /\ UNCHANGED C!conversation
  BY <1>2, FilesKept, ConversationStays DEF Kept
<1>4. work'[Main] = w
  BY <1>1 DEF FlushStart, Sound, WorkTyped
<1>5. /\ zone \in Seq(RowT) /\ Len(zone) \in Nat /\ Len(zone) > 1
      /\ HeadCount(rows[Main]) \in 0 .. Len(rows[Main])
      /\ HeadCount(rows[Main]) + Len(zone) <= Len(rows[Main])
      /\ \A k \in 1 .. Len(zone) : zone[k] = rows[Main][HeadCount(rows[Main]) + k]
  <2>1. Len(zone) > 1
    BY <1>1 DEF FlushStart, Compressible
  <2>2. zone \in Seq(RowT) /\ Len(zone) \in Nat
    BY MainRows, ZoneIs
  <2> QED BY <2>1, <2>2, MainRows, ZoneIs, HeadCountIs
<1> HIDE DEF zone
<1>6. Standing(zone, rows[Main])
  BY <1>5 DEF Standing
<1>7. /\ w.kind = "flush" /\ w.zone = zone /\ w.at = position[Main] /\ w.filed = 0
      /\ w.stop = IF position[Main] + FlushBatch < Len(zone)
                  THEN position[Main] + FlushBatch ELSE Len(zone)
  BY DEF FlushRange
<1> HIDE DEF w
<1>8. position[Main] = 0 /\ Len(zone) <= FlushBatch
  BY <1>4, <1>7 DEF WholeFlush
<1>9. w.stop = Len(zone)
  BY <1>5, <1>7, <1>8, SessionAssumption
<1>10. KeptZone'
  BY <1>2, <1>4, <1>6, <1>7 DEF KeptZone
<1>11. \A k \in 1 .. Len(zone) : FiledAs(zone[k])
  <2> TAKE k \in 1 .. Len(zone)
  <2>1. HeadCount(rows[Main]) + k \in DOMAIN rows[Main]
    BY <1>5, MainRows
  <2>2. AllFiledAs(rows[Main])
    BY <1>8 DEF Kept, KeptFiles
  <2> QED BY <1>5, <2>1, <2>2 DEF AllFiledAs
<1>12. KeptFlush'
  <2>1. \A r : FiledAs(r)' <=> FiledAs(r)
    BY <1>2 DEF FiledAs
  <2>2. w.at + 1 = 1 /\ w.at <= w.stop /\ ~ (w.at > 0) /\ 1 .. w.at = {}
    BY <1>5, <1>7, <1>8, <1>9
  <2>3. \A k \in 1 .. Len(zone) : FiledAs(zone[k])
    BY <1>11
  <2>4. ASSUME NEW v, v = w PROVE
        /\ v.at <= v.stop /\ v.stop = Len(v.zone) /\ 1 .. v.at = {} /\ ~ (v.at > 0)
        /\ \A k \in v.at + 1 .. Len(v.zone) : \A r : r = v.zone[k] => FiledAs(r)'
    BY <1>7, <1>9, <2>1, <2>2, <2>3, <2>4
  <2>5. work'[Main].kind = "flush" /\ pending' = <<>>
    BY <1>2, <1>4, <1>7
  <2> QED BY <1>4, <2>4, <2>5 DEF KeptFlush, FiledAs
<1>13. KeptWrites'
  BY <1>2 DEF KeptWrites
<1> QED BY <1>3, <1>10, <1>12, <1>13 DEF Kept

\* What the conversation covers are the texts of the rows.
LEMMA CoveredIs ==
  ASSUME Sound
  PROVE  C!Covered = Said(rows[Main])
<1>1. DOMAIN Shown = DOMAIN rows[Main] /\ \A i \in DOMAIN rows[Main] : Shown[i] = rows[Main][i].says
  BY DEF Shown
<1> QED BY <1>1 DEF C!Covered, Said

\* The zone that is worked on is among the rows.
LEMMA ZoneStands ==
  ASSUME Alone, Sound, Kept, NEW w, w = work[Main], w.kind # None
  PROVE  /\ w.zone \in Seq(RowT) /\ Len(w.zone) \in Nat /\ Len(w.zone) > 1
         /\ w.at \in Nat /\ w.filed \in Nat /\ w.stop \in Nat
         /\ \E h \in 0 .. Len(rows[Main]) :
              /\ h + Len(w.zone) <= Len(rows[Main])
              /\ \A k \in 1 .. Len(w.zone) : h + k \in DOMAIN rows[Main] /\ rows[Main][h + k] = w.zone[k]
<1>1. /\ w.zone \in Seq(RowT) /\ Len(w.zone) > 1 /\ w.at \in Nat /\ w.filed \in Nat /\ w.stop \in Nat
  BY MainRows, ZoneOfWork
<1>2. PICK h \in 0 .. Len(rows[Main]) :
         /\ h + Len(w.zone) <= Len(rows[Main])
         /\ \A k \in 1 .. Len(w.zone) : rows[Main][h + k] = w.zone[k]
  BY DEF Kept, KeptZone, Standing
<1>3. Len(w.zone) \in Nat /\ DOMAIN rows[Main] = 1 .. Len(rows[Main]) /\ Len(rows[Main]) \in Nat
  BY <1>1, MainRows
<1>4. \A k \in 1 .. Len(w.zone) : h + k \in DOMAIN rows[Main]
  BY <1>2, <1>3
<1> QED BY <1>1, <1>2, <1>3, <1>4

\* A message of a flush is filed under its own number, or given up.
LEMMA FlushMessageKept ==
  ASSUME Alone, Sound, Kept, WholeFlush, NEW s \in Sessions, FlushMessage(s)
  PROVE  Kept' /\ [C!Next]_(C!conversation)
<1> DEFINE w == work[Main]
           row == w.zone[w.at + 1]
           sec == SectionWrite(Main, row)
           pos == PositionWrite(Main, w.at + 1)
<1>1. s = Main
  BY DEF Alone
<1>2. /\ UNCHANGED <<rows, nextId, section, position, history, told>>
      /\ pending = <<>> /\ w.kind = "flush" /\ w.at < w.stop
      /\ \/ pending' = <<sec>> \o <<pos>> /\ dropped' = dropped
         \/ pending' = <<pos>> /\ dropped' = dropped \cup row.says
      /\ work' = [work EXCEPT ![Main].at = @ + 1, ![Main].filed = @ + 1]
  BY <1>1 DEF FlushMessage, files, Idle
<1>3. /\ w.zone \in Seq(RowT) /\ Len(w.zone) \in Nat /\ w.at \in Nat /\ w.stop = Len(w.zone)
  <2>1. w.stop = Len(w.zone)
    BY <1>2 DEF Kept, KeptFlush
  <2> QED BY <1>2, <2>1, ZoneStands DEF None
<1>4. \E i \in DOMAIN rows[Main] : rows[Main][i] = row
  <2>1. w.at + 1 \in 1 .. Len(w.zone)
    BY <1>2, <1>3
  <2> QED BY <1>2, <2>1, ZoneStands DEF None
<1>5. row.says \subseteq Said(rows[Main]) /\ row.says \subseteq history[Main]
  BY <1>4 DEF Said, Kept, KeptFiles
<1>6. /\ sec.to = "section" /\ sec.value = row
      /\ pos.to = "position" /\ pos.value = w.at + 1 /\ pos.value > 0
  BY <1>3 DEF SectionWrite, PositionWrite
<1>7. /\ work'[Main].kind = "flush" /\ work'[Main].zone = w.zone /\ work'[Main].stop = w.stop
      /\ work'[Main].at = w.at + 1
  <2>1. work \in [Sessions -> WorkT] /\ Main \in Sessions
    BY MainRows DEF Sound, WorkTyped
  <2>2. w \in WorkT
    BY <2>1
  <2>3. work'[Main] = [w EXCEPT !.at = @ + 1, !.filed = @ + 1]
    BY <1>2, <2>1
  <2> QED BY <1>2, <2>2, <2>3 DEF WorkT
<1>8. /\ \A k \in 1 .. w.at : w.zone[k].says \subseteq Safe
      /\ \A k \in w.at + 1 .. Len(w.zone) : FiledAs(w.zone[k])
  BY <1>2 DEF Kept, KeptFlush, Filing
<1>9. Safe \subseteq Safe' /\ \A r : FiledAs(r)' <=> FiledAs(r)
  BY <1>2 DEF Safe, Filed, FiledAs
<1>10. KeptFiles'
  BY <1>2, <1>5, FilesKept DEF Kept
<1> HIDE DEF w, row, sec, pos
<1>11. CASE pending' = <<sec>> \o <<pos>> /\ dropped' = dropped
  <2>1. pending' = <<sec, pos>> /\ pending' # <<>> /\ DOMAIN pending' = 1 .. 2
        /\ pending'[1] = sec /\ pending'[2] = pos
    <3>1. pending' = <<sec, pos>>
      BY <1>11, TwoJoined, Zenon
    <3> QED BY <3>1
  <2>2. \A i \in DOMAIN pending' : pending'[i] = sec \/ pending'[i] = pos
    BY <2>1
  <2>3. KeptWrites'
    BY <1>6, <2>2 DEF KeptWrites
  <2>4. Standing(w.zone, rows[Main])
    BY <1>2 DEF Kept, KeptZone, None, w
  <2>5. KeptZone'
    BY <1>2, <1>6, <1>7, <2>2, <2>4 DEF KeptZone
  <2>6. UNCHANGED C!conversation
    BY <1>2, <1>11, ConversationStays
  <2>7. Filing' = row.says
    BY <1>6, <2>1 DEF Filing
  <2>8. KeptFlush'
    <3>1. /\ w.at + 1 \in 1 .. Len(w.zone) /\ w.zone[w.at + 1] = row /\ w.at + 1 <= w.stop
          /\ \A k \in 1 .. w.at + 1 : (k \in 1 .. w.at \/ k = w.at + 1)
          /\ \A k \in (w.at + 1) + 1 .. Len(w.zone) : k \in w.at + 1 .. Len(w.zone)
          /\ w.at + 1 \in w.at + 1 .. Len(w.zone)
      BY <1>2, <1>3 DEF row
    <3>2. \A k \in 1 .. w.at + 1 : w.zone[k].says \subseteq Safe' \cup Filing'
      BY <1>8, <1>9, <2>7, <3>1
    <3>3. \A r : r = row => FiledAs(r)'
      BY <1>8, <1>9, <3>1
    <3>4. \A k \in (w.at + 1) + 1 .. Len(w.zone) : \A r : r = w.zone[k] => FiledAs(r)'
      BY <1>8, <1>9, <3>1
    <3>5. \E i \in DOMAIN pending' : pending'[i].to = "position"
      BY <1>6, <2>1
    <3>6. ASSUME NEW v, v = work'[Main]
          PROVE  /\ v.kind = "flush" /\ v.at \in 1 .. Len(v.zone)
                 /\ row = v.zone[v.at] /\ v.at <= v.stop /\ v.stop = Len(v.zone)
                 /\ \A k \in 1 .. v.at : v.zone[k].says \subseteq Safe' \cup Filing'
                 /\ \A k \in v.at + 1 .. Len(v.zone) : \A r : r = v.zone[k] => FiledAs(r)'
      BY <1>3, <1>7, <3>1, <3>2, <3>4, <3>6
    <3>7. pending'[1].value = row
      BY <1>6, <2>1
    <3> QED BY <2>1, <3>3, <3>5, <3>6, <3>7 DEF KeptFlush, FiledAs
  <2> QED BY <1>10, <2>3, <2>5, <2>6, <2>8 DEF Kept
<1>12. CASE pending' = <<pos>> /\ dropped' = dropped \cup row.says
  <2>1. pending' # <<>> /\ DOMAIN pending' = 1 .. 1 /\ pending'[1] = pos
    BY <1>12
  <2>2. \A i \in DOMAIN pending' : pending'[i] = pos
    BY <2>1
  <2>3. KeptWrites'
    BY <1>6, <2>2 DEF KeptWrites
  <2>4. Standing(w.zone, rows[Main])
    BY <1>2 DEF Kept, KeptZone, None, w
  <2>5. KeptZone'
    BY <1>2, <1>6, <1>7, <2>2, <2>4 DEF KeptZone
  <2>6. C!GiveUp
    <3>1. row.says \in SUBSET C!Covered
      BY <1>5, CoveredIs
    <3>2. (dropped \cap history[Main])' = (dropped \cap history[Main]) \cup row.says
      BY <1>2, <1>5, <1>12
    <3>3. UNCHANGED <<history[Main], Shown, Filed>>
      BY <1>2 DEF Shown, Filed
    <3> QED BY <3>1, <3>2, <3>3 DEF C!GiveUp
  <2>7. Filing' = {} /\ row.says \subseteq Safe'
    <3>1. Filing' = {}
      BY <1>6, <2>1 DEF Filing
    <3>2. row.says \subseteq Safe'
      BY <1>2, <1>5, <1>12 DEF Safe
    <3> QED BY <3>1, <3>2
  <2>8. KeptFlush'
    <3>1. /\ w.at + 1 \in 1 .. Len(w.zone) /\ w.zone[w.at + 1] = row /\ w.at + 1 <= w.stop
          /\ \A k \in 1 .. w.at + 1 : (k \in 1 .. w.at \/ k = w.at + 1)
          /\ \A k \in (w.at + 1) + 1 .. Len(w.zone) : k \in w.at + 1 .. Len(w.zone)
      BY <1>2, <1>3 DEF row
    <3>2. \A k \in 1 .. w.at + 1 : w.zone[k].says \subseteq Safe' \cup Filing'
      BY <1>8, <1>9, <2>7, <3>1
    <3>3. \A k \in (w.at + 1) + 1 .. Len(w.zone) : \A r : r = w.zone[k] => FiledAs(r)'
      BY <1>8, <1>9, <3>1
    <3>4. \E i \in DOMAIN pending' : pending'[i].to = "position"
      BY <1>6, <2>1
    <3>5. ASSUME NEW v, v = work'[Main]
          PROVE  /\ v.at <= v.stop /\ v.stop = Len(v.zone)
                 /\ \A k \in 1 .. v.at : v.zone[k].says \subseteq Safe' \cup Filing'
                 /\ \A k \in v.at + 1 .. Len(v.zone) : \A r : r = v.zone[k] => FiledAs(r)'
      BY <1>3, <1>7, <3>1, <3>2, <3>3, <3>5
    <3>6. pending'[1].to # "section"
      BY <1>6, <2>1
    <3> QED BY <3>4, <3>5, <3>6 DEF KeptFlush, FiledAs
  <2> QED BY <1>10, <2>3, <2>5, <2>6, <2>8 DEF Kept, C!Next
<1> QED BY <1>2, <1>11, <1>12

-----------------------------------------------------------------------------
(* The handlers that replace rows.                                         *)

\* Rows that are replaced at once, alone or before a number for meta.json.
LEMMA ReplacesKept ==
  ASSUME Sound, Kept, UNCHANGED <<files, history, dropped, told>>, work'[Main].kind = None,
         NEW q, pending' = q, 1 \in DOMAIN q, q[1].to # "section",
         \A i \in DOMAIN q : q[i].to \in {"rows", "meta", "drop"},
         \A i \in DOMAIN q : q[i].to = "rows" => NewRows(q[i].value, q[i].why),
         \A i \in DOMAIN q : q[i].to = "meta" /\ i = 1 => q[i].value >= nextId[Main],
         \A i \in DOMAIN q : q[i].to = "drop" =>
           Covers(IF q[1].to = "rows" THEN q[1].value ELSE rows[Main], q[i].value)
  PROVE  Kept' /\ UNCHANGED C!conversation
<1>1. UNCHANGED <<rows, nextId, section, position, history, dropped, told>>
  BY DEF files
<1>2. KeptFiles' /\ UNCHANGED C!conversation
  BY <1>1, FilesKept, ConversationStays DEF Kept
<1>3. KeptZone' /\ KeptFlush'
  BY DEF KeptZone, KeptFlush, None
<1>4. Safe' = Safe
  BY <1>1 DEF Safe, Filed
<1>5. \A rs, why : NewRows(rs, why)' <=> NewRows(rs, why)
  BY <1>1, <1>4 DEF NewRows, Folds, AllFiledAs, FiledAs
<1>6. \A rs, ids : Covers(rs, ids)' <=> Covers(rs, ids)
  BY <1>4 DEF Covers, Others
<1>7. KeptWrites'
  <2>1. RowsThen' = IF q[1].to = "rows" THEN q[1].value ELSE rows[Main]
    BY <1>1 DEF RowsThen
  <2>2. ASSUME NEW i \in DOMAIN q, NEW w, w = q[i]
        PROVE  /\ w.to = "rows" => NewRows(w.value, w.why)'
               /\ w.to = "drop" => \A rs \in {RowsThen'} : Covers(rs, w.value)'
               /\ w.to = "meta" /\ i = 1 => w.value >= nextId'[Main]
               /\ w.to \notin {"line", "position"}
    BY <1>1, <1>5, <1>6, <2>1, <2>2
  <2> QED BY <2>2 DEF KeptWrites
<1> QED BY <1>2, <1>3, <1>7 DEF Kept

\* A reset lists no rows.
LEMMA ResetKept ==
  ASSUME Alone, Sound, Kept, NEW s \in Sessions, ResetSession(s)
  PROVE  Kept' /\ UNCHANGED C!conversation
<1> DEFINE q == <<RowsWrite(Main, <<>>, "reset"), MetaWrite(Main, 1)>>
<1>1. s = Main
  BY DEF Alone
<1>2. /\ UNCHANGED <<files, history, dropped, told>> /\ pending' = q /\ work'[Main].kind = None
  BY <1>1 DEF ResetSession, ghosts, Settled, Free, Alone
<1>3. /\ DOMAIN q = 1 .. 2 /\ q[1].to = "rows" /\ q[1].value = <<>> /\ q[1].why = "reset"
      /\ q[2].to = "meta"
  BY DEF RowsWrite, MetaWrite
<1> HIDE DEF q
<1>4. NewRows(<<>>, "reset")
  BY DEF NewRows
<1>5. /\ \A i \in DOMAIN q : i = 1 \/ i = 2
      /\ 1 \in DOMAIN q
  BY <1>3
<1>6. /\ \A i \in DOMAIN q : q[i].to \in {"rows", "meta", "drop"}
      /\ \A i \in DOMAIN q : q[i].to = "rows" => NewRows(q[i].value, q[i].why)
      /\ \A i \in DOMAIN q : q[i].to = "meta" /\ i = 1 => q[i].value >= nextId[Main]
      /\ \A i \in DOMAIN q : q[i].to = "drop" =>
           Covers(IF q[1].to = "rows" THEN q[1].value ELSE rows[Main], q[i].value)
      /\ q[1].to # "section"
  BY <1>3, <1>4, <1>5
<1> QED BY <1>2, <1>5, <1>6, ReplacesKept

\* The rows that are shortened say what they said.
LEMMA SnipKept ==
  ASSUME Alone, Sound, Kept, Snip(Main), UNCHANGED <<files, history, dropped, told>>,
         work'[Main].kind = None
  PROVE  Kept' /\ UNCHANGED C!conversation
<1> DEFINE ts == rows[Main]
           rs == [i \in DOMAIN ts |-> IF i \in Snippable(ts)
                                      THEN [ts[i] EXCEPT !.long = FALSE] ELSE ts[i]]
           q == <<RowsWrite(Main, rs, "snip")>>
<1>1. pending' = q
  BY DEF Snip
<1>2. DOMAIN ts = 1 .. Len(ts) /\ Len(ts) \in Nat /\ \A i \in DOMAIN ts : ts[i] \in RowT
  BY MainRows, RowsAre
<1>3. \A i \in DOMAIN ts : rs[i].id = ts[i].id /\ rs[i].says = ts[i].says
  <2> TAKE i \in DOMAIN ts
  <2> DEFINE r == [ts[i] EXCEPT !.long = FALSE]
  <2>1. r.id = ts[i].id /\ r.says = ts[i].says
    BY <1>2 DEF RowT
  <2>2. rs[i] = r \/ rs[i] = ts[i]
    OBVIOUS
  <2> HIDE DEF r, rs, ts
  <2> QED BY <2>1, <2>2
<1>4. DOMAIN rs = DOMAIN ts
  OBVIOUS
<1>5. Len(rs) = Len(ts)
  BY <1>2
<1> HIDE DEF rs
<1>6. DOMAIN q = 1 .. 1 /\ q[1].to = "rows" /\ q[1].value = rs /\ q[1].why = "snip"
  BY DEF RowsWrite
<1> HIDE DEF q
<1>7. Folds(rs, ts)
  BY <1>3, <1>5 DEF Folds, SameSays
<1>8. Said(rs) \subseteq history[Main]
  BY <1>3, <1>4 DEF Said, Kept, KeptFiles
<1>9. position[Main] = 0 => AllFiledAs(rs)
  BY <1>3, <1>4 DEF AllFiledAs, FiledAs, Kept, KeptFiles
<1>10. NewRows(rs, "snip")
  BY <1>7, <1>8, <1>9 DEF NewRows
<1>11. \A i \in DOMAIN q : i = 1
  BY <1>6
<1> HIDE DEF ts
<1>12. /\ \A i \in DOMAIN q : q[i].to \in {"rows", "meta", "drop"}
       /\ \A i \in DOMAIN q : q[i].to = "rows" => NewRows(q[i].value, q[i].why)
       /\ \A i \in DOMAIN q : q[i].to = "meta" /\ i = 1 => q[i].value >= nextId[Main]
       /\ \A i \in DOMAIN q : q[i].to = "drop" =>
            Covers(IF q[1].to = "rows" THEN q[1].value ELSE rows[Main], q[i].value)
       /\ q[1].to # "section" /\ 1 \in DOMAIN q
  BY <1>6, <1>10, <1>11
<1> QED BY <1>1, <1>12, ReplacesKept

\* Where the rows that are kept come from.
LEMMA CountedPlaces ==
  ASSUME Sound, NEW q, NEW rs, NEW m, NEW e, CountedOff(Main, q, rs, m, e)
  PROVE  LET ts == rows[Main] IN
         /\ m \in 0 .. 3 /\ e \in 1 .. Len(ts) /\ Len(ts) \in Nat /\ DOMAIN ts = 1 .. Len(ts)
         /\ DOMAIN rs = 1 .. m + (Len(ts) - e)
         /\ \A j \in DOMAIN rs :
              \/ j \in 1 .. m /\ rs[j].id >= nextId[Main] /\ rs[j].says = {}
              \/ \E i \in e + 1 .. Len(ts) : j = m + (i - e) /\ rs[j] = ts[i]
         /\ \A i \in e + 1 .. Len(ts) : m + (i - e) \in DOMAIN rs /\ rs[m + (i - e)] = ts[i]
<1> DEFINE ts == rows[Main]
           l == Len(rows[Main])
<1>1. rs \in Seq(RowT) /\ m \in 0 .. 3 /\ e \in 1 .. l /\ Len(rs) = m + (l - e)
  BY DEF CountedOff
<1>2. l \in Nat /\ DOMAIN ts = 1 .. l /\ nextId[Main] \in Nat
  BY MainRows, RowsAre
<1>3. /\ \A i \in 1 .. m : rs[i].id = nextId[Main] + i - 1 /\ rs[i].says = {}
      /\ \A i \in 1 .. l - e : rs[m + i] = ts[e + i]
  BY DEF CountedOff
<1> HIDE DEF l, ts
<1>4. DOMAIN rs = 1 .. m + (l - e) /\ l - e \in Nat
  BY <1>1, <1>2
<1>5. ASSUME NEW i \in e + 1 .. l
      PROVE  m + (i - e) \in DOMAIN rs /\ rs[m + (i - e)] = ts[i]
  <2>1. i - e \in 1 .. l - e /\ e + (i - e) = i /\ m + (i - e) \in 1 .. m + (l - e)
    BY <1>1, <1>2
  <2> QED BY <1>3, <1>4, <2>1
<1>6. ASSUME NEW j \in DOMAIN rs
      PROVE  \/ j \in 1 .. m /\ rs[j].id >= nextId[Main] /\ rs[j].says = {}
             \/ \E i \in e + 1 .. l : j = m + (i - e) /\ rs[j] = ts[i]
  <2>1. j \in 1 .. m + (l - e)
    BY <1>4
  <2>2. CASE j <= m
    <3>1. j \in 1 .. m
      BY <1>1, <2>1, <2>2
    <3>2. rs[j].id = nextId[Main] + j - 1 /\ rs[j].says = {}
      BY <1>3, <3>1
    <3>3. nextId[Main] + j - 1 >= nextId[Main]
      BY <1>1, <1>2, <3>1
    <3> QED BY <3>1, <3>2, <3>3
  <2>3. CASE j > m
    <3> DEFINE i == e + (j - m)
    <3>1. i \in e + 1 .. l /\ j = m + (i - e)
      BY <1>1, <1>2, <1>4, <2>1, <2>3
    <3> HIDE DEF i
    <3> QED BY <1>5, <3>1
  <2> QED BY <1>1, <2>1, <2>2, <2>3
<1>7. DOMAIN ts = 1 .. Len(ts) /\ Len(ts) = l
  BY <1>2 DEF ts, l
<1> QED BY <1>1, <1>2, <1>4, <1>5, <1>6, <1>7 DEF ts

\* The rows that are counted are the first ones.
LEMMA CountOffKept ==
  ASSUME Alone, Sound, Kept, CountOff(Main), UNCHANGED <<files, history, dropped, told>>,
         work'[Main].kind = None
  PROVE  Kept' /\ UNCHANGED C!conversation
<1> DEFINE ts == rows[Main]
           l == Len(rows[Main])
<1>1. Main \in Sessions
  BY MainRows
<1>2. PICK rs, m, e : CountedOff(Main, pending', rs, m, e)
  BY <1>1, CountOffIs, Zenon
<1>3. /\ m \in 0 .. 3 /\ e \in 1 .. l /\ l \in Nat /\ DOMAIN ts = 1 .. l
      /\ DOMAIN rs = 1 .. m + (l - e)
      /\ \A j \in DOMAIN rs :
           \/ j \in 1 .. m /\ rs[j].id >= nextId[Main] /\ rs[j].says = {}
           \/ \E i \in e + 1 .. l : j = m + (i - e) /\ rs[j] = ts[i]
      /\ \A i \in e + 1 .. l : m + (i - e) \in DOMAIN rs /\ rs[m + (i - e)] = ts[i]
  BY <1>2, CountedPlaces
<1>4. /\ nextId[Main] \in Nat
      /\ \A i \in DOMAIN ts : ts[i].id \in Nat /\ ts[i].id < nextId[Main]
      /\ \A i, j \in DOMAIN ts : i # j => ts[i].id # ts[j].id
  BY MainRows, RowsAre DEF Numbered, Unique, Below
<1>5. /\ Len(rs) = m + (l - e)
      /\ \A i \in 1 .. m : rs[i].says = {}
      /\ \A i \in 1 .. l - e : rs[m + i].says = ts[e + i].says
      /\ pending' = <<MetaWrite(Main, nextId[Main] + m), RowsWrite(Main, rs, "count")>>
  BY <1>2 DEF CountedOff
<1> HIDE DEF ts, l
<1>6. \A i \in DOMAIN ts : ts[i] \in RowSet(rs) <=> i > e
  <2> SUFFICES ASSUME NEW i \in DOMAIN ts PROVE ts[i] \in RowSet(rs) <=> i > e
    OBVIOUS
  <2>1. i \in 1 .. l
    BY <1>3
  <2>2. CASE i > e
    <3>1. i \in e + 1 .. l
      BY <1>3, <2>1, <2>2
    <3> QED BY <1>3, <2>2, <3>1 DEF RowSet
  <2>3. CASE i <= e
    <3>1. ASSUME NEW j \in DOMAIN rs PROVE rs[j].id # ts[i].id
      <4>1. CASE rs[j].id >= nextId[Main]
        BY <1>4, <4>1
      <4>2. ASSUME NEW k \in e + 1 .. l, rs[j] = ts[k] PROVE rs[j].id # ts[i].id
        <5>1. k \in DOMAIN ts /\ k # i
          BY <1>3, <2>1, <2>3
        <5> QED BY <1>4, <4>2, <5>1
      <4> QED BY <1>3, <4>1, <4>2
    <3>2. ~ (i > e)
      BY <1>3, <2>1, <2>3
    <3> QED BY <3>1, <3>2 DEF RowSet
  <2> QED BY <1>3, <2>1, <2>2, <2>3
<1>7. UNION {r.says : r \in RowSet(ts) \ RowSet(rs)} = UNION {ts[i].says : i \in 1 .. e}
  <2>1. \A i \in 1 .. e : i \in DOMAIN ts /\ ~ (i > e)
    BY <1>3
  <2>2. \A i \in DOMAIN ts : ~ (i > e) => i \in 1 .. e
    BY <1>3
  <2>3. RowSet(ts) \ RowSet(rs) = {ts[i] : i \in 1 .. e}
    BY <1>6, <2>1, <2>2 DEF RowSet
  <2> QED BY <2>3
<1>8. CountsFirst(rs, ts)
  <2>1. Len(ts) = l
    BY DEF ts, l
  <2> QED BY <1>3, <1>5, <1>7, <2>1 DEF CountsFirst
<1>9. \A j \in DOMAIN rs : \/ rs[j].says = {} /\ rs[j].id >= nextId[Main]
                           \/ \E i \in DOMAIN ts : rs[j] = ts[i]
  <2>1. \A i \in e + 1 .. l : i \in DOMAIN ts
    BY <1>3
  <2> QED BY <1>3, <2>1
<1>10. Said(rs) \subseteq history[Main]
  <2>1. Said(ts) \subseteq history[Main]
    BY DEF Kept, KeptFiles, ts
  <2> QED BY <1>9, <2>1 DEF Said
<1>11. position[Main] = 0 => AllFiledAs(rs)
  <2> SUFFICES ASSUME position[Main] = 0, NEW j \in DOMAIN rs PROVE FiledAs(rs[j])
    BY DEF AllFiledAs
  <2>1. CASE rs[j].id >= nextId[Main]
    <3>1. rs[j].id \in DOMAIN section[Main] /\ section[Main][rs[j].id] \cap history[Main] # {}
            => rs[j].id < nextId[Main]
      BY DEF Kept, KeptFiles
    <3>2. rs[j].id \in Int
      BY <1>2, RowsAre DEF CountedOff
    <3> QED BY <1>4, <2>1, <3>1, <3>2 DEF FiledAs
  <2>2. ASSUME NEW i \in DOMAIN ts, rs[j] = ts[i] PROVE FiledAs(rs[j])
    BY <2>2 DEF Kept, KeptFiles, AllFiledAs, ts
  <2> QED BY <1>9, <2>1, <2>2
<1>12. NewRows(rs, "count")
  BY <1>8, <1>10, <1>11 DEF NewRows, ts
<1> DEFINE q == <<MetaWrite(Main, nextId[Main] + m), RowsWrite(Main, rs, "count")>>
<1>13. /\ DOMAIN q = 1 .. 2 /\ q[1].to = "meta" /\ q[1].value = nextId[Main] + m
       /\ q[2].to = "rows" /\ q[2].value = rs /\ q[2].why = "count"
  BY DEF RowsWrite, MetaWrite
<1>14. pending' = q
  BY <1>5
<1> HIDE DEF q
<1>15. /\ \A i \in DOMAIN q : i = 1 \/ i = 2
       /\ 1 \in DOMAIN q
       /\ nextId[Main] + m >= nextId[Main]
  BY <1>3, <1>4, <1>13
<1>16. /\ \A i \in DOMAIN q : q[i].to \in {"rows", "meta", "drop"}
       /\ \A i \in DOMAIN q : q[i].to = "rows" => NewRows(q[i].value, q[i].why)
       /\ \A i \in DOMAIN q : q[i].to = "meta" /\ i = 1 => q[i].value >= nextId[Main]
       /\ \A i \in DOMAIN q : q[i].to = "drop" =>
            Covers(IF q[1].to = "rows" THEN q[1].value ELSE rows[Main], q[i].value)
       /\ q[1].to # "section"
  BY <1>12, <1>13, <1>15
<1> QED BY <1>14, <1>15, <1>16, ReplacesKept

\* A compaction keeps the promise, either way.
LEMMA CompactKept ==
  ASSUME Alone, Sound, Kept, NEW s \in Sessions, CompactSession(s)
  PROVE  Kept' /\ UNCHANGED C!conversation
<1>1. s = Main
  BY DEF Alone
<1>2. UNCHANGED <<files, history, dropped, told>> /\ work'[Main].kind = None
  BY <1>1 DEF CompactSession, ghosts, Settled, Free, Alone
<1>3. CASE Snip(s)
  BY <1>1, <1>2, <1>3, SnipKept
<1>4. CASE CountOff(s)
  BY <1>1, <1>2, <1>4, CountOffKept
<1> QED BY <1>3, <1>4 DEF CompactSession

-----------------------------------------------------------------------------
(* The zone is folded into its first row.                                  *)

\* A zone stands at h among the rows of the main session.
StandsAt(zone, h) ==
  /\ zone \in Seq(RowT) /\ Len(zone) \in Nat /\ Len(zone) > 1
  /\ h \in 0 .. Len(rows[Main]) /\ h + Len(zone) <= Len(rows[Main])
  /\ \A k \in 1 .. Len(zone) : h + k \in DOMAIN rows[Main] /\ rows[Main][h + k] = zone[k]

(* The row to write over is the first of the zone, the rows to delete its   *)
(* rest.                                                                   *)
FoldedAt(zone, h, S, i, rs) ==
  LET ts == rows[Main] IN
  /\ i = h + 1 /\ i \in DOMAIN ts /\ ts[i] = zone[1] /\ rs[i].says = S
  /\ rs[i].id = zone[1].id /\ zone[1].id \notin IdsOf(Tail(zone))
  /\ DOMAIN rs = DOMAIN ts /\ Len(rs) = Len(ts)
  /\ DOMAIN ts = 1 .. Len(ts) /\ Len(ts) \in Nat
  /\ \A j \in DOMAIN ts : j # i => rs[j] = ts[j]
  /\ \A j \in DOMAIN ts : rs[j].id \in IdsOf(Tail(zone)) =>
       j # i /\ \E k \in 1 .. Len(zone) : j = h + k /\ rs[j] = zone[k]

\* The place of a fold, and the ids that go.
LEMMA FoldedPlaces ==
  ASSUME Sound, NEW zone, NEW h, StandsAt(zone, h), NEW S, NEW i, NEW rs,
         Folded(Main, zone[1].id, S, i, rs)
  PROVE  FoldedAt(zone, h, S, i, rs)
<1> DEFINE ts == rows[Main]
<1>1. /\ Len(zone) \in Nat /\ Len(zone) > 1 /\ zone \in Seq(RowT) /\ h \in Nat
      /\ \A k \in 1 .. Len(zone) : h + k \in DOMAIN ts /\ ts[h + k] = zone[k]
  BY MainRows DEF StandsAt
<1>2. /\ i \in DOMAIN ts /\ rs \in Seq(RowT) /\ Len(rs) = Len(ts)
      /\ ts[i].id = zone[1].id /\ rs[i].id = zone[1].id /\ rs[i].says = S
      /\ \A j \in DOMAIN rs : j # i => rs[j] = ts[j]
  BY DEF Folded
<1>3. /\ DOMAIN ts = 1 .. Len(ts) /\ Len(ts) \in Nat
      /\ \A j, k \in DOMAIN ts : j # k => ts[j].id # ts[k].id
  BY MainRows DEF Numbered, Unique
<1> HIDE DEF ts
<1>4. DOMAIN rs = DOMAIN ts
  BY <1>2, <1>3
<1>5. 1 \in 1 .. Len(zone) /\ h + 1 \in DOMAIN ts /\ ts[h + 1] = zone[1]
  BY <1>1
<1>6. i = h + 1
  BY <1>2, <1>3, <1>5
<1>7. IdsOf(Tail(zone)) = {zone[k].id : k \in 2 .. Len(zone)}
  BY <1>1, IdsAre
<1>8. \A k \in 2 .. Len(zone) : k \in 1 .. Len(zone) /\ h + k # i
  BY <1>1, <1>6
<1>9. zone[1].id \notin IdsOf(Tail(zone))
  <2> SUFFICES ASSUME NEW k \in 2 .. Len(zone) PROVE zone[1].id # zone[k].id
    BY <1>7
  <2>1. h + k \in DOMAIN ts /\ ts[h + k] = zone[k] /\ h + k # i
    BY <1>1, <1>8
  <2> QED BY <1>2, <1>3, <2>1
<1>10. ASSUME NEW j \in DOMAIN ts, rs[j].id \in IdsOf(Tail(zone))
       PROVE  j # i /\ \E k \in 1 .. Len(zone) : j = h + k /\ rs[j] = zone[k]
  <2>1. j # i
    BY <1>2, <1>9, <1>10
  <2>2. rs[j] = ts[j]
    BY <1>2, <1>4, <2>1
  <2>3. PICK k \in 2 .. Len(zone) : rs[j].id = zone[k].id
    BY <1>7, <1>10
  <2>4. k \in 1 .. Len(zone) /\ h + k \in DOMAIN ts /\ ts[h + k] = zone[k]
    BY <1>1, <1>8
  <2>5. j = h + k
    BY <1>3, <2>2, <2>3, <2>4
  <2> QED BY <2>1, <2>2, <2>4, <2>5
<1> QED BY <1>2, <1>3, <1>4, <1>5, <1>6, <1>9, <1>10 DEF ts, FoldedAt

\* A summary says what its zone says, a pointer what is filed or let go.
Stands(zone, S) ==
  \/ S = Said(zone)
  \/ S = {} /\ Said(zone) \subseteq Safe /\ position[Main] > 0

\* What stands after a fold: one row has changed.
LEMMA FoldedRows ==
  ASSUME Sound, Kept, NEW zone, NEW h, StandsAt(zone, h), NEW S, Stands(zone, S),
         NEW i, NEW rs, Folded(Main, zone[1].id, S, i, rs)
  PROVE  NewRows(rs, "fold") /\ Covers(rs, IdsOf(Tail(zone)))
<1> DEFINE ts == rows[Main]
           ids == IdsOf(Tail(zone))
<1>1. /\ i = h + 1 /\ i \in DOMAIN ts /\ ts[i] = zone[1] /\ rs[i].says = S
      /\ rs[i].id = zone[1].id /\ zone[1].id \notin ids
      /\ DOMAIN rs = DOMAIN ts /\ Len(rs) = Len(ts)
      /\ DOMAIN ts = 1 .. Len(ts) /\ Len(ts) \in Nat
      /\ \A j \in DOMAIN ts : j # i => rs[j] = ts[j]
      /\ \A j \in DOMAIN ts : rs[j].id \in ids =>
           j # i /\ \E k \in 1 .. Len(zone) : j = h + k /\ rs[j] = zone[k]
  <2>1. FoldedAt(zone, h, S, i, rs)
    BY FoldedPlaces
  <2> QED BY <2>1 DEF FoldedAt
<1>2. /\ Len(zone) \in Nat /\ Len(zone) > 1 /\ h \in Nat /\ h + Len(zone) <= Len(ts)
      /\ DOMAIN zone = 1 .. Len(zone)
      /\ \A k \in 1 .. Len(zone) : h + k \in DOMAIN ts /\ ts[h + k] = zone[k]
  BY MainRows, RowsAre DEF StandsAt
<1>3. /\ Said(ts) \subseteq history[Main]
      /\ position[Main] = 0 => \A j \in DOMAIN ts : FiledAs(ts[j])
      /\ position[Main] \in Nat
  BY MainRows DEF Kept, KeptFiles, AllFiledAs
<1> HIDE DEF ts, ids
<1>4. \A k \in 1 .. Len(zone) : zone[k].says \subseteq Said(zone)
  BY <1>2 DEF Said
<1>5. 1 \in 1 .. Len(zone) /\ zone[1].says \subseteq Said(zone)
  BY <1>2, <1>4
<1>6. Said(zone) \subseteq Said(ts)
  <2>1. \A k \in DOMAIN zone : h + k \in DOMAIN ts /\ ts[h + k] = zone[k]
    BY <1>2
  <2> QED BY <2>1 DEF Said
<1>7. SameSays(rs, ts, i)
  BY <1>1 DEF SameSays
<1>8. CASE S = Said(zone)
  <2>1. UNION {ts[k].says : k \in i .. h + Len(zone)} = Said(zone)
    <3>1. \A k \in i .. h + Len(zone) : k - h \in 1 .. Len(zone) /\ h + (k - h) = k
      BY <1>1, <1>2
    <3>2. \A k \in i .. h + Len(zone) : \E n \in 1 .. Len(zone) : ts[k] = zone[n]
      BY <1>2, <3>1
    <3>3. \A n \in 1 .. Len(zone) : h + n \in i .. h + Len(zone)
      BY <1>1, <1>2
    <3>4. \A n \in 1 .. Len(zone) : \E k \in i .. h + Len(zone) : ts[k] = zone[n]
      BY <1>2, <3>3
    <3> QED BY <1>2, <3>2, <3>4 DEF Said
  <2>2. h + Len(zone) \in i .. Len(ts)
    BY <1>1, <1>2
  <2>3. Folds(rs, ts)
    BY <1>1, <1>7, <1>8, <2>1, <2>2 DEF Folds
  <2>4. Said(rs) \subseteq history[Main]
    <3>1. \A j \in DOMAIN rs : rs[j].says \subseteq Said(ts)
      BY <1>1, <1>6, <1>8 DEF Said
    <3> QED BY <1>3, <3>1 DEF Said
  <2>5. position[Main] = 0 => AllFiledAs(rs)
    <3> SUFFICES ASSUME position[Main] = 0, NEW j \in DOMAIN rs PROVE FiledAs(rs[j])
      BY DEF AllFiledAs
    <3>1. FiledAs(ts[j])
      BY <1>1, <1>3
    <3>2. CASE j = i
      BY <1>1, <1>5, <1>8, <3>1, <3>2 DEF FiledAs
    <3> QED BY <1>1, <3>1, <3>2
  <2>6. NewRows(rs, "fold")
    BY <2>3, <2>4, <2>5 DEF NewRows, ts
  <2>7. Covers(rs, ids)
    <3> SUFFICES ASSUME NEW j \in DOMAIN rs, rs[j].id \in ids
                 PROVE  rs[j].says \subseteq Safe \cup Others(rs, ids)
      BY DEF Covers
    <3>1. rs[j].says \subseteq Said(zone)
      BY <1>1, <1>4
    <3>2. i \in {n \in DOMAIN rs : rs[n].id \notin ids}
      BY <1>1
    <3>3. Said(zone) \subseteq Others(rs, ids)
      BY <1>1, <1>8, <3>2 DEF Others
    <3> QED BY <3>1, <3>3
  <2> QED BY <2>6, <2>7 DEF ids
<1>9. CASE S = {} /\ Said(zone) \subseteq Safe /\ position[Main] > 0
  <2>1. Folds(rs, ts)
    BY <1>1, <1>5, <1>7, <1>9 DEF Folds
  <2>2. Said(rs) \subseteq history[Main]
    <3>1. \A j \in DOMAIN rs : rs[j].says \subseteq Said(ts)
      BY <1>1, <1>9 DEF Said
    <3> QED BY <1>3, <3>1 DEF Said
  <2>3. ~ (position[Main] = 0)
    BY <1>3, <1>9
  <2>4. NewRows(rs, "fold")
    BY <2>1, <2>2, <2>3 DEF NewRows, ts
  <2>5. Covers(rs, ids)
    BY <1>1, <1>4, <1>9 DEF Covers
  <2> QED BY <2>4, <2>5 DEF ids
<1> QED BY <1>8, <1>9 DEF Stands

\* A fold lists rows that stand for the others, or that were filed.
LEMMA FoldKept ==
  ASSUME Alone, Sound, Kept, NEW zone, NEW h, StandsAt(zone, h), NEW S, Stands(zone, S),
         FoldedBy(zone[1].id, S, IdsOf(Tail(zone)), {Main}),
         UNCHANGED <<files, history, dropped, told>>, work'[Main].kind = None
  PROVE  Kept' /\ UNCHANGED C!conversation
<1> DEFINE id == zone[1].id
           ids == IdsOf(Tail(zone))
           drops == Drops({Main}, ids)
<1>1. zone \in Seq(RowT) /\ Len(zone) \in Nat /\ Len(zone) > 1
      /\ \A k \in 1 .. Len(zone) : h + k \in DOMAIN rows[Main] /\ rows[Main][h + k] = zone[k]
  BY DEF StandsAt
<1>2. ids \in SUBSET Nat /\ Said(zone) \in SUBSET Texts
  BY <1>1, IdsAre
<1>3. id \in IdsOf(rows[Main])
  <2>1. 1 \in 1 .. Len(zone)
    BY <1>1
  <2> QED BY <1>1, <2>1 DEF IdsOf
<1>4. pending' = <<Rewritten(Main, id, S)>> \o drops
  BY <1>3 DEF FoldedBy
<1>5. {Main} \in SUBSET Sessions
  BY MainRows
<1> HIDE DEF id
<1>6. /\ drops \in Seq(DropT)
      /\ \A k \in DOMAIN drops : drops[k].to = "drop" /\ drops[k].value = ids
  BY <1>2, <1>5, DropsAre DEF OnlyDrops
<1> HIDE DEF drops
<1>7. S \in SUBSET Texts
  BY <1>2 DEF Stands
<1>8. PICK i, rs : Folded(Main, id, S, i, rs)
  BY <1>3, <1>7, RewrittenIs, MainRows DEF Sound
<1>9. NewRows(rs, "fold") /\ Covers(rs, ids)
  BY <1>8, FoldedRows DEF id
<1> DEFINE w == RowsWrite(Main, rs, "fold")
           q == <<w>> \o drops
<1>10. pending' = q
  BY <1>4, <1>8 DEF Folded
<1>11. w.to = "rows" /\ w.value = rs /\ w.why = "fold"
  BY DEF RowsWrite
<1> HIDE DEF w
<1>12. /\ q # <<>> /\ q[1] = w
       /\ \A k \in DOMAIN q : k # 1 => k - 1 \in DOMAIN drops /\ q[k] = drops[k - 1]
       /\ 1 \in DOMAIN q
  <2>1. /\ q # <<>> /\ q[1] = w /\ DOMAIN q = 1 .. Len(drops) + 1 /\ Len(drops) \in Nat
        /\ \A k \in DOMAIN q : k # 1 => k - 1 \in DOMAIN drops /\ q[k] = drops[k - 1]
    BY <1>6, OneBefore
  <2> QED BY <2>1
<1> HIDE DEF q
<1>13. \A k \in DOMAIN q : (k = 1 /\ q[k] = w) \/ (k # 1 /\ q[k].to = "drop" /\ q[k].value = ids)
  <2> TAKE k \in DOMAIN q
  <2>1. CASE k = 1
    BY <1>12, <2>1
  <2>2. CASE k # 1
    <3>1. k - 1 \in DOMAIN drops /\ q[k] = drops[k - 1]
      BY <1>12, <2>2
    <3> QED BY <1>6, <2>2, <3>1
  <2> QED BY <2>1, <2>2
<1>14. /\ \A k \in DOMAIN q : q[k].to \in {"rows", "meta", "drop"}
       /\ \A k \in DOMAIN q : q[k].to = "rows" => NewRows(q[k].value, q[k].why)
       /\ \A k \in DOMAIN q : q[k].to = "meta" /\ k = 1 => q[k].value >= nextId[Main]
       /\ \A k \in DOMAIN q : q[k].to = "drop" =>
            Covers(IF q[1].to = "rows" THEN q[1].value ELSE rows[Main], q[k].value)
       /\ q[1].to # "section"
  BY <1>9, <1>11, <1>12, <1>13
<1> QED BY <1>10, <1>12, <1>14, ReplacesKept

\* The zone of the work stands among the rows.
LEMMA WorkStands ==
  ASSUME Alone, Sound, Kept, work[Main].kind # None
  PROVE  \E h : StandsAt(work[Main].zone, h)
<1>1. PICK h \in 0 .. Len(rows[Main]) :
        /\ h + Len(work[Main].zone) <= Len(rows[Main])
        /\ \A k \in 1 .. Len(work[Main].zone) :
             h + k \in DOMAIN rows[Main] /\ rows[Main][h + k] = work[Main].zone[k]
  BY ZoneStands
<1>2. StandsAt(work[Main].zone, h)
  BY <1>1, ZoneStands DEF StandsAt
<1> QED BY <1>2

\* The end of a summary keeps the promise.
LEMMA SummaryDoneKept ==
  ASSUME Alone, Sound, Kept, NEW s \in Sessions, SummaryDone(s)
  PROVE  Kept' /\ UNCHANGED C!conversation
<1> DEFINE zone == work[Main].zone
<1>1. s = Main /\ Sessions = {Main}
  BY DEF Alone
<1>2. /\ work[Main].kind # None
      /\ FoldedBy(zone[1].id, Said(zone), IdsOf(Tail(zone)), {Main})
      /\ UNCHANGED <<files, history, dropped, told>>
      /\ work'[Main].kind = None
  <2>1. work'[Main] = NoWork
    BY <1>1, MainRows DEF SummaryDone, Sound, WorkTyped
  <2> QED BY <1>1, <2>1, NoWorkIs DEF SummaryDone, SummaryText, ghosts, None
<1>3. PICK h : StandsAt(zone, h)
  BY <1>2, WorkStands
<1>4. Stands(zone, Said(zone))
  BY DEF Stands
<1> HIDE DEF zone
<1> QED BY <1>2, <1>3, <1>4, FoldKept

\* So does the end of a flush.
LEMMA FlushDoneKept ==
  ASSUME Alone, Sound, Kept, WholeFlush, NEW s \in Sessions, FlushDone(s)
  PROVE  Kept' /\ UNCHANGED C!conversation
<1> DEFINE w == work[Main]
<1>1. s = Main
  BY DEF Alone
<1>2. /\ w.kind = "flush" /\ w.kind # None /\ w.at >= w.stop /\ pending = <<>>
      /\ UNCHANGED <<files, history, dropped, told>>
      /\ work'[Main].kind = None
  <2>1. work'[Main] = NoWork
    BY <1>1, MainRows DEF FlushDone, Sound, WorkTyped
  <2> QED BY <1>1, <2>1, NoWorkIs DEF FlushDone, ghosts, None, Idle
<1>3. /\ w.at = w.stop /\ w.stop = Len(w.zone) /\ w.filed = w.at /\ w.zone \in Seq(RowT)
      /\ Len(w.zone) \in Nat /\ Len(w.zone) > 1
      /\ \A k \in 1 .. w.at : w.zone[k].says \subseteq Safe
      /\ position[Main] > 0
  <2>1. /\ w.at <= w.stop /\ w.stop = Len(w.zone)
        /\ \A k \in 1 .. w.at : w.zone[k].says \subseteq Safe \cup Filing
        /\ w.at > 0 => position[Main] > 0 \/ \E i \in DOMAIN pending : pending[i].to = "position"
    BY <1>2 DEF Kept, KeptFlush
  <2>2. w.zone \in Seq(RowT) /\ Len(w.zone) \in Nat /\ Len(w.zone) > 1 /\ w.at \in Nat /\ w.stop \in Nat
    BY <1>2, ZoneStands
  <2>3. Filing = {} /\ ~ \E i \in DOMAIN pending : pending[i].to = "position"
    BY <1>2 DEF Filing
  <2>4. w.filed = w.at
    BY <1>2 DEF WholeFlush
  <2> HIDE DEF w
  <2>5. w.at = w.stop /\ w.at > 0
    BY <1>2, <2>1, <2>2
  <2> QED BY <2>1, <2>2, <2>3, <2>4, <2>5
<1>4. FoldedBy(w.zone[1].id, {}, IdsOf(Tail(w.zone)), {Main})
  <2>1. w.filed > 0
    BY <1>3
  <2> QED BY <1>1, <2>1 DEF FlushDone
<1>5. PICK h : StandsAt(w.zone, h)
  BY <1>2, WorkStands
<1>6. Said(w.zone) \subseteq Safe
  <2>1. DOMAIN w.zone = 1 .. w.at
    BY <1>3
  <2> QED BY <1>3, <2>1 DEF Said
<1>7. Stands(w.zone, {})
  BY <1>3, <1>6 DEF Stands
<1> HIDE DEF w
<1> QED BY <1>2, <1>4, <1>5, <1>7, FoldKept

-----------------------------------------------------------------------------
(* The writes. First those the conversation does not see, of a number or of *)
(* a cursor.                                                               *)

\* A write the conversation does not see, before what is left of the handler.
LEMMA QuietKept ==
  ASSUME Sound, Kept, UNCHANGED <<rows, section, position, history, dropped, told, work>>,
         nextId'[Main] \in Nat, nextId'[Main] >= nextId[Main] \/ history[Main] = {},
         pending # <<>>, 1 \in DOMAIN pending,
         \A i \in DOMAIN pending : pending[i].to \in {"meta", "line", "cursor", "rows"},
         \A i \in DOMAIN pending' : \E j \in DOMAIN pending : pending'[i] = pending[j],
         pending' # <<>> => 1 \in DOMAIN pending',
         1 \in DOMAIN pending' /\ pending'[1].to = "meta" =>
           pending'[1].value >= nextId'[Main] \/ history[Main] = {}
  PROVE  Kept' /\ UNCHANGED C!conversation
<1>1. UNCHANGED C!conversation
  BY ConversationStays
<1>2. Safe' = Safe /\ SectionTexts' = SectionTexts /\ Filing' = {}
  <2>1. Safe' = Safe /\ SectionTexts' = SectionTexts
    BY DEF Safe, Filed, SectionTexts
  <2>2. pending' # <<>> => pending'[1].to # "section"
    OBVIOUS
  <2> QED BY <2>1, <2>2 DEF Filing
<1>3. \A r : FiledAs(r)' <=> FiledAs(r)
  BY DEF FiledAs
<1>4. KeptFiles'
  <2>1. \A id \in DOMAIN section[Main] :
          section[Main][id] \cap history[Main] # {} => id < nextId'[Main]
    <3> SUFFICES ASSUME NEW id \in DOMAIN section[Main], section[Main][id] \cap history[Main] # {}
                 PROVE  id < nextId'[Main]
      OBVIOUS
    <3>1. id < nextId[Main] /\ ~ (history[Main] = {})
      BY DEF Kept, KeptFiles
    <3>2. nextId'[Main] >= nextId[Main] /\ nextId[Main] \in Nat /\ id \in Nat
      BY <3>1, MainRows DEF Kept, KeptFiles
    <3> QED BY <3>1, <3>2
  <2>2. AllFiledAs(rows[Main])' <=> AllFiledAs(rows[Main])
    BY <1>3 DEF AllFiledAs, FiledAs
  <2> QED BY <1>2, <2>1, <2>2 DEF Kept, KeptFiles
<1>5. KeptZone'
  BY DEF Kept, KeptZone
<1>6. KeptFlush'
  <2>1. SUFFICES ASSUME work[Main].kind = "flush"
                 PROVE  LET w == work[Main] IN
                        /\ w.at <= w.stop /\ w.stop = Len(w.zone)
                        /\ \A k \in 1 .. w.at : w.zone[k].says \subseteq Safe
                        /\ \A k \in w.at + 1 .. Len(w.zone) : FiledAs(w.zone[k])
                        /\ w.at > 0 => position[Main] > 0
    BY <1>2 DEF KeptFlush, FiledAs
  <2>2. pending[1].to # "section"
    OBVIOUS
  <2>3. Filing = {}
    BY <2>2 DEF Filing
  <2>4. \A i \in DOMAIN pending : pending[i].to # "position"
    OBVIOUS
  <2> QED BY <2>1, <2>3, <2>4 DEF Kept, KeptFlush
<1>7. KeptWrites'
  <2>1. \A r : NewLine(r)' <=> NewLine(r)
    BY <1>2 DEF NewLine
  <2>2. \A rs, why : NewRows(rs, why)' <=> NewRows(rs, why)
    BY <1>2 DEF NewRows, Folds, AllFiledAs, FiledAs
  <2>3. ASSUME NEW i \in DOMAIN pending', NEW w, w = pending'[i]
        PROVE  /\ w.to = "line" => \A r : r = w.value => NewLine(r)'
               /\ w.to = "rows" => \A rs, why : rs = w.value /\ why = w.why => NewRows(rs, why)'
               /\ w.to \notin {"drop", "position"}
               /\ w.to = "meta" /\ i = 1 => w.value >= nextId'[Main] \/ history[Main] = {}
    <3>1. PICK j \in DOMAIN pending : w = pending[j]
      BY <2>3
    <3>2. w.to = "line" => NewLine(w.value)
      BY <3>1 DEF Kept, KeptWrites
    <3>3. w.to = "rows" => NewRows(w.value, w.why)
      BY <3>1 DEF Kept, KeptWrites
    <3>4. w.to \notin {"drop", "position"}
      BY <3>1
    <3>5. w.to = "meta" /\ i = 1 => w.value >= nextId'[Main] \/ history[Main] = {}
      BY <2>3
    <3> QED BY <2>1, <2>2, <3>2, <3>3, <3>4, <3>5
  <2> QED BY <2>3 DEF KeptWrites
<1> QED BY <1>1, <1>4, <1>5, <1>6, <1>7 DEF Kept

\* The next number is written before a line or before rows, or as the last.
LEMMA MetaKept ==
  ASSUME Alone, Sound, Kept, Write, NEW n \in Nat, NEW w, w.to \in {"line", "rows"},
         pending = <<MetaWrite(Main, n)>> \/ pending = <<MetaWrite(Main, n), w>>
  PROVE  Kept' /\ UNCHANGED C!conversation
<1> DEFINE m == MetaWrite(Main, n)
<1>1. m.to = "meta" /\ m.value = n /\ m.s = Main
  BY DEF MetaWrite
<1> HIDE DEF m
<1>2. /\ Head(pending) = m /\ pending # <<>> /\ pending[1] = m /\ 1 \in DOMAIN pending
      /\ \/ Tail(pending) = <<>> /\ \A i \in DOMAIN pending : pending[i] = m
         \/ /\ Tail(pending) = <<w>> /\ w \in {pending[i] : i \in DOMAIN pending}
            /\ \A i \in DOMAIN pending : pending[i] = m \/ pending[i] = w
  <2>1. CASE pending = <<m>>
    <3>1. Head(<<m>>) = m /\ Tail(<<m>>) = <<>>
      BY OneAndTwo, Zenon
    <3>2. <<m>> # <<>> /\ DOMAIN <<m>> = 1 .. 1 /\ <<m>>[1] = m
      OBVIOUS
    <3> QED BY <2>1, <3>1, <3>2
  <2>2. CASE pending = <<m, w>>
    <3>1. Head(<<m, w>>) = m /\ Tail(<<m, w>>) = <<w>>
      BY OneAndTwo, Zenon
    <3>2. <<m, w>> # <<>> /\ DOMAIN <<m, w>> = 1 .. 2 /\ <<m, w>>[1] = m /\ <<m, w>>[2] = w
      OBVIOUS
    <3>3. \A i \in DOMAIN <<m, w>> : <<m, w>>[i] = m \/ <<m, w>>[i] = w
      BY <3>2
    <3>4. w \in {<<m, w>>[i] : i \in DOMAIN <<m, w>>}
      BY <3>2
    <3> QED BY <2>2, <3>1, <3>2, <3>3, <3>4
  <2> QED BY <2>1, <2>2 DEF m
<1>3. WriteMeta(m) /\ pending' = Tail(pending) /\ UNCHANGED <<work, told>>
  BY <1>1, <1>2, WriteMakes
<1>4. nextId' = [nextId EXCEPT ![Main] = n]
      /\ UNCHANGED <<rows, section, position, history, dropped>>
  BY <1>1, <1>3 DEF WriteMeta
<1>5. nextId'[Main] = n
  BY <1>4, MainRows DEF Sound, FilesTyped
<1>6. n >= nextId[Main] \/ history[Main] = {}
  BY <1>1, <1>2 DEF Kept, KeptWrites
<1>7. \A i \in DOMAIN pending : pending[i].to \in {"meta", "line", "cursor", "rows"}
  BY <1>1, <1>2
<1>8. \A i \in DOMAIN pending' : pending'[i] = w /\ \E j \in DOMAIN pending : pending'[i] = pending[j]
  <2>1. CASE pending' = <<>>
    BY <2>1
  <2>2. CASE pending' = <<w>> /\ w \in {pending[i] : i \in DOMAIN pending}
    <3>1. DOMAIN <<w>> = 1 .. 1 /\ <<w>>[1] = w
      OBVIOUS
    <3>2. \A i \in DOMAIN <<w>> : <<w>>[i] = w
      BY <3>1
    <3> QED BY <2>2, <3>2
  <2> QED BY <1>2, <1>3, <2>1, <2>2
<1>9. pending' # <<>> => 1 \in DOMAIN pending'
  BY <1>2, <1>3
<1>10. 1 \in DOMAIN pending' /\ pending'[1].to = "meta" =>
         pending'[1].value >= nextId'[Main] \/ history[Main] = {}
  BY <1>8
<1> QED BY <1>2, <1>3, <1>4, <1>5, <1>6, <1>7, <1>8, <1>9, <1>10, QuietKept

\* A cursor is written before the message that tells of it.
LEMMA CursorKept ==
  ASSUME Alone, Sound, Kept, Write, MovesCursor(pending)
  PROVE  Kept' /\ UNCHANGED C!conversation
<1> DEFINE c == CursorWrite(pending[1].value)
           m == MetaWrite(Main, nextId[Main] + 1)
           l == LineWrite(Main, Tail(pending)[2].value)
           q == <<m, l>>
<1>1. /\ Head(pending) = c /\ pending = <<c>> \o q /\ Tail(pending) = q /\ pending # <<>>
  BY DEF MovesCursor, Appends
<1>2. /\ c.to = "cursor" /\ m.to = "meta" /\ m.value = nextId[Main] + 1 /\ l.to = "line"
  BY DEF CursorWrite, MetaWrite, LineWrite
<1> HIDE DEF c, m, l
<1>3. /\ q \in Seq({m, l}) /\ Len(q) = 2 /\ DOMAIN q = 1 .. 2 /\ q[1] = m /\ q[2] = l /\ q # <<>>
  OBVIOUS
<1> HIDE DEF q
<1>4. /\ pending[1] = c /\ DOMAIN pending = 1 .. 3
      /\ \A k \in 1 .. 2 : pending[k + 1] = q[k]
      /\ \A i \in DOMAIN pending : i # 1 => i - 1 \in DOMAIN q /\ pending[i] = q[i - 1]
  <2> DEFINE p == <<c>> \o q
  <2>1. /\ p[1] = c /\ DOMAIN p = 1 .. Len(q) + 1
        /\ \A k \in 1 .. Len(q) : p[k + 1] = q[k]
        /\ \A i \in DOMAIN p : i # 1 => i - 1 \in DOMAIN q /\ p[i] = q[i - 1]
    <3>1. q \in Seq({m, l})
      BY <1>3
    <3> DEFINE A == {m, l}
    <3> HIDE DEF A
    <3>2. q \in Seq(A)
      BY <3>1 DEF A
    <3> QED BY <3>2, OneBefore
  <2> HIDE DEF p
  <2>2. DOMAIN p = 1 .. 3
    BY <1>3, <2>1
  <2> QED BY <1>1, <1>3, <2>1, <2>2 DEF p
<1>5. WriteCursor(c) /\ pending' = q /\ UNCHANGED <<work, told>>
  BY <1>1, <1>2, WriteMakes
<1>6. UNCHANGED <<rows, nextId, section, position, history, dropped>>
  BY <1>5 DEF WriteCursor
<1>7. \A i \in DOMAIN q : q[i] \in {m, l}
  BY <1>3
<1>8. \A i \in DOMAIN pending : pending[i].to \in {"meta", "line", "cursor", "rows"}
  <2> TAKE i \in DOMAIN pending
  <2>1. CASE i = 1
    BY <1>2, <1>4, <2>1
  <2>2. CASE i # 1
    <3>1. pending[i] \in {m, l}
      BY <1>4, <1>7, <2>2
    <3> QED BY <1>2, <3>1
  <2> QED BY <2>1, <2>2
<1>9. \A i \in DOMAIN q : \E j \in DOMAIN pending : q[i] = pending[j]
  <2>1. \A i \in DOMAIN q : i \in 1 .. 2 /\ i + 1 \in 1 .. 3
    BY <1>3
  <2> QED BY <1>4, <2>1
<1>10. nextId[Main] \in Nat /\ nextId[Main] + 1 >= nextId[Main] /\ 1 \in DOMAIN pending
       /\ 1 \in DOMAIN q /\ nextId[Main] >= nextId[Main]
  BY <1>3, <1>4, MainRows
<1> QED BY <1>1, <1>2, <1>3, <1>5, <1>6, <1>8, <1>9, <1>10, QuietKept

\* The writes of numbers change no text.
LEMMA NumbersKept ==
  ASSUME Alone, Sound, Kept, Write, NEW s \in Sessions,
         Appends(s, pending) \/ Restarts(s, pending) \/ Counts(s, pending)
  PROVE  Kept' /\ UNCHANGED C!conversation
<1>1. s = Main /\ nextId[Main] \in Nat
  BY MainRows DEF Alone
<1>2. CASE Appends(s, pending)
  <2> DEFINE w == LineWrite(Main, pending[2].value)
  <2>1. pending = <<MetaWrite(Main, nextId[Main] + 1), w>>
    BY <1>1, <1>2 DEF Appends
  <2>2. w.to = "line" /\ nextId[Main] + 1 \in Nat
    BY <1>1 DEF LineWrite
  <2> HIDE DEF w
  <2> QED BY <2>1, <2>2, MetaKept
<1>3. CASE Restarts(s, pending)
  <2>1. pending = <<MetaWrite(Main, 1)>>
    BY <1>1, <1>3 DEF Restarts
  <2>2. LineWrite(Main, 0).to = "line" /\ 1 \in Nat
    BY DEF LineWrite
  <2> QED BY <2>1, <2>2, MetaKept
<1>4. CASE Counts(s, pending)
  <2> DEFINE w == RowsWrite(Main, pending[2].value, "count")
             n == pending[1].value
  <2>1. pending = <<MetaWrite(Main, n), w>> /\ n \in Nat
    BY <1>1, <1>4 DEF Counts
  <2>2. w.to = "rows"
    BY DEF RowsWrite
  <2> HIDE DEF w, n
  <2> QED BY <2>1, <2>2, MetaKept
<1> QED BY <1>2, <1>3, <1>4

-----------------------------------------------------------------------------
(* The write of a line.                                                    *)

\* A row more is an entry more.
LEMMA SaysAppend ==
  ASSUME NEW rs \in Seq(RowT), NEW row \in RowT
  PROVE  /\ Append(rs, row) \in Seq(RowT) /\ Len(Append(rs, row)) = Len(rs) + 1
         /\ \A i \in 1 .. Len(rs) : Append(rs, row)[i] = rs[i]
         /\ Append(rs, row)[Len(rs) + 1] = row
         /\ Says(Append(rs, row)) = Append(Says(rs), row.says)
         /\ \A i \in DOMAIN Append(rs, row) : \/ i \in DOMAIN rs /\ Append(rs, row)[i] = rs[i]
                                              \/ Append(rs, row)[i] = row
<1> DEFINE new == Append(rs, row)
           l == Len(rs)
<1>1. /\ new \in Seq(RowT) /\ Len(new) = l + 1
      /\ \A i \in 1 .. l : new[i] = rs[i]
      /\ new[l + 1] = row
  BY AppendProperties
<1>2. l \in Nat /\ DOMAIN rs = 1 .. l
  BY RowsAre
<1> HIDE DEF new, l
<1>3. DOMAIN new = 1 .. l + 1
  BY <1>1, <1>2
<1>4. \A i \in 1 .. l + 1 : i \in 1 .. l \/ i = l + 1
  BY <1>2
<1>5. /\ Says(new) \in Seq(SUBSET Texts) /\ Len(Says(new)) = l + 1
      /\ \A i \in 1 .. l + 1 : Says(new)[i] = new[i].says
  BY <1>1, SaysIs
<1>6. /\ Says(rs) \in Seq(SUBSET Texts) /\ Len(Says(rs)) = l
      /\ \A i \in 1 .. l : Says(rs)[i] = rs[i].says
  BY SaysIs DEF l
<1>7. row.says \in SUBSET Texts
  BY DEF RowT
<1> DEFINE u == Append(Says(rs), row.says)
<1>8. /\ u \in Seq(SUBSET Texts) /\ Len(u) = l + 1
      /\ \A i \in 1 .. l : u[i] = Says(rs)[i]
      /\ u[l + 1] = row.says
  BY <1>6, <1>7, AppendProperties
<1> HIDE DEF u
<1>9. \A i \in 1 .. l + 1 : Says(new)[i] = u[i]
  <2> TAKE i \in 1 .. l + 1
  <2>1. CASE i \in 1 .. l
    BY <1>1, <1>5, <1>6, <1>8, <2>1
  <2>2. CASE i = l + 1
    BY <1>1, <1>5, <1>8, <2>2
  <2> QED BY <1>4, <2>1, <2>2
<1>10. Says(new) = u
  BY <1>5, <1>8, <1>9, SeqEqual
<1>11. \A i \in DOMAIN new : (i \in DOMAIN rs /\ new[i] = rs[i]) \/ new[i] = row
  BY <1>1, <1>2, <1>3, <1>4
<1> QED BY <1>1, <1>10, <1>11 DEF new, l, u

\* The write of a line is a message, a note, or told in vain.
LEMMA LineKept ==
  ASSUME Alone, Sound, Kept, Write, NEW s \in Sessions, EndsLine(s, pending)
  PROVE  Kept' /\ [C!Next]_(C!conversation)
<1> DEFINE row == pending[1].value
           w == LineWrite(Main, row)
           H == history[Main]
<1>1. /\ pending = <<w>> /\ row \in RowT /\ row.id \in Nat /\ row.says \in SUBSET Texts
  BY DEF EndsLine, Alone, RowT
<1>2. w.to = "line" /\ w.value = row /\ w.s = Main
  BY DEF LineWrite
<1> HIDE DEF row, w
<1>3. Head(pending) = w /\ Tail(pending) = <<>> /\ DOMAIN pending = 1 .. 1 /\ pending[1] = w
      /\ pending # <<>>
  <2>1. Head(<<w>>) = w /\ Tail(<<w>>) = <<>>
    BY OneAndTwo, Zenon
  <2>2. <<w>> # <<>> /\ DOMAIN <<w>> = 1 .. 1 /\ <<w>>[1] = w
    OBVIOUS
  <2> QED BY <1>1, <2>1, <2>2
<1>4. NewLine(row)
  BY <1>2, <1>3 DEF Kept, KeptWrites
<1>5. WriteLine(w) /\ pending' = <<>> /\ UNCHANGED <<work, told>>
  BY <1>2, <1>3, WriteMakes
<1>6. /\ torn[Main] => UNCHANGED rows /\ dropped' = dropped \cup row.says
      /\ ~ torn[Main] => rows'[Main] = Append(rows[Main], row) /\ dropped' = dropped
      /\ history'[Main] = H \cup row.says
      /\ UNCHANGED <<nextId, section, position>>
  BY <1>2, <1>5, MainRows DEF WriteLine, Sound, FilesTyped, GhostsTyped
<1>7. /\ rows[Main] \in Seq(RowT) /\ H \in SUBSET Texts /\ DOMAIN rows[Main] = 1 .. Len(rows[Main])
      /\ Len(rows[Main]) \in Nat
  BY MainRows, RowsAre
<1> DEFINE new == Append(rows[Main], row)
<1>8. /\ Len(new) = Len(rows[Main]) + 1
      /\ \A i \in 1 .. Len(rows[Main]) : new[i] = rows[Main][i]
      /\ Says(new) = Append(Says(rows[Main]), row.says)
      /\ \A i \in DOMAIN new : (i \in DOMAIN rows[Main] /\ new[i] = rows[Main][i]) \/ new[i] = row
  BY <1>1, <1>7, SaysAppend
<1> HIDE DEF new, H
<1>9. /\ row.says = {} \/ \E t \in Texts : row.says = {t}
      /\ row.says \subseteq 1 .. told
      /\ row.says \cap H = {} /\ row.says \cap dropped = {} /\ row.says \cap SectionTexts = {}
      /\ row.id \in DOMAIN section[Main] => section[Main][row.id] \cap H = {}
  BY <1>4 DEF NewLine, H
<1>10. SectionTexts' = SectionTexts /\ \A id \in DOMAIN section[Main] : section[Main][id] \subseteq SectionTexts
  BY <1>6 DEF SectionTexts
<1>11. \A id \in DOMAIN section[Main] : section[Main][id] \cap history'[Main] = section[Main][id] \cap H
  BY <1>6, <1>9, <1>10
<1>12. \A r : FiledAs(r)' <=> FiledAs(r)
  BY <1>6, <1>11 DEF FiledAs, H
<1>13. FiledAs(row)
  BY <1>9 DEF FiledAs, H
<1>14. KeptFiles'
  <2>1. Said(rows'[Main]) \subseteq history'[Main]
    <3>1. Said(rows[Main]) \subseteq H
      BY DEF Kept, KeptFiles, H
    <3>2. Said(new) \subseteq Said(rows[Main]) \cup row.says
      BY <1>8 DEF Said
    <3> QED BY <1>6, <3>1, <3>2 DEF new
  <2>2. history'[Main] \cup dropped' \cup SectionTexts' \subseteq 1 .. told'
    BY <1>5, <1>6, <1>9, <1>10 DEF Kept, KeptFiles, H
  <2>3. position[Main] = 0 => \A i \in DOMAIN rows'[Main] : \A r : r = rows'[Main][i] => FiledAs(r)'
    <3> SUFFICES ASSUME position[Main] = 0, NEW i \in DOMAIN rows'[Main] PROVE FiledAs(rows'[Main][i])
      BY <1>12
    <3>1. \A k \in DOMAIN rows[Main] : FiledAs(rows[Main][k])
      BY DEF Kept, KeptFiles, AllFiledAs
    <3> QED BY <1>6, <1>8, <1>13, <3>1 DEF new
  <2>4. \A id \in DOMAIN section'[Main] :
          section'[Main][id] \cap history'[Main] # {} => id < nextId'[Main]
    BY <1>6, <1>11 DEF Kept, KeptFiles, H
  <2>5. (position[Main] = 0 => AllFiledAs(rows[Main]))'
    BY <1>6, <2>3 DEF AllFiledAs, FiledAs
  <2>6. section' = [t \in Sessions |-> section'[t]] /\ DOMAIN section'[Main] \subseteq Nat
    BY <1>6 DEF Kept, KeptFiles
  <2> QED BY <2>1, <2>2, <2>4, <2>5, <2>6 DEF KeptFiles
<1>15. KeptWrites'
  BY <1>5 DEF KeptWrites
<1>16. KeptZone'
  <2> SUFFICES ASSUME work[Main].kind # None PROVE Standing(work[Main].zone, rows'[Main])
    BY <1>5 DEF KeptZone
  <2> DEFINE z == work[Main].zone
  <2>1. PICK h : StandsAt(z, h)
    BY WorkStands
  <2> HIDE DEF z
  <2>2. /\ h \in 0 .. Len(rows[Main]) /\ h + Len(z) <= Len(rows[Main]) /\ Len(z) \in Nat
        /\ \A k \in 1 .. Len(z) : h + k \in DOMAIN rows[Main] /\ rows[Main][h + k] = z[k]
    BY <2>1 DEF StandsAt
  <2>3. CASE torn[Main]
    BY <1>6, <2>2, <2>3 DEF Standing, z
  <2>4. CASE ~ torn[Main]
    <3>1. h \in 0 .. Len(new) /\ h + Len(z) <= Len(new)
      BY <1>7, <1>8, <2>2
    <3>2. \A k \in 1 .. Len(z) : new[h + k] = z[k]
      BY <1>7, <1>8, <2>2
    <3> QED BY <1>6, <2>4, <3>1, <3>2 DEF Standing, new, z
  <2> QED BY <2>3, <2>4
<1>17. Filed' = Filed /\ Safe \subseteq Safe'
  <2>1. Filed' = Filed
    BY <1>6, <1>9, <1>10 DEF Filed, SectionTexts, H
  <2>2. dropped \cap H \subseteq dropped' \cap history'[Main]
    BY <1>6
  <2> QED BY <2>1, <2>2 DEF Safe, H
<1>18. KeptFlush'
  <2>1. pending' = <<>> /\ Filing' = {} /\ Filing = {}
    BY <1>2, <1>3, <1>5 DEF Filing
  <2>2. \A i \in DOMAIN pending : pending[i].to # "position"
    BY <1>2, <1>3
  <2>3. ASSUME NEW v, v = work[Main], v.kind = "flush"
        PROVE  /\ v.at <= v.stop /\ v.stop = Len(v.zone)
               /\ \A k \in 1 .. v.at : v.zone[k].says \subseteq Safe'
               /\ \A k \in v.at + 1 .. Len(v.zone) : \A r : r = v.zone[k] => FiledAs(r)'
               /\ v.at > 0 => position'[Main] > 0
    <3>1. /\ v.at <= v.stop /\ v.stop = Len(v.zone)
          /\ \A k \in 1 .. v.at : v.zone[k].says \subseteq Safe
          /\ \A k \in v.at + 1 .. Len(v.zone) : FiledAs(v.zone[k])
          /\ v.at > 0 => position[Main] > 0
      BY <2>1, <2>2, <2>3 DEF Kept, KeptFlush
    <3> QED BY <1>6, <1>12, <1>17, <3>1
  <2> QED BY <1>5, <2>1, <2>3 DEF KeptFlush, FiledAs
<1>19. [C!Next]_(C!conversation)
  <2>1. Filed' = Filed /\ Shown = Says(rows[Main]) /\ Shown' = Says(rows'[Main])
    BY <1>17, ShownIsSays
  <2>2. CASE torn[Main]
    <3>1. /\ history'[Main] = H \cup row.says /\ Shown' = Shown
          /\ (dropped \cap history[Main])' = (dropped \cap H) \cup row.says
      BY <1>6, <1>9, <2>1, <2>2
    <3>2. CASE row.says = {}
      BY <2>1, <3>1, <3>2 DEF C!conversation, H
    <3>3. ASSUME NEW t \in Texts, row.says = {t} PROVE C!SayInVain(t)
      BY <1>9, <2>1, <3>1, <3>3 DEF C!SayInVain, H
    <3> QED BY <1>9, <3>2, <3>3 DEF C!Next
  <2>3. CASE ~ torn[Main]
    <3>1. /\ history'[Main] = H \cup row.says
          /\ Shown' = Append(Shown, row.says)
          /\ (dropped \cap history[Main])' = dropped \cap H
      BY <1>6, <1>8, <1>9, <2>1, <2>3 DEF new
    <3>2. CASE row.says = {}
      BY <2>1, <3>1, <3>2 DEF C!Note, C!Next, H
    <3>3. ASSUME NEW t \in Texts, row.says = {t} PROVE C!Say(t)
      BY <1>9, <2>1, <3>1, <3>3 DEF C!Say, H
    <3> QED BY <1>9, <3>2, <3>3 DEF C!Next
  <2> QED BY <2>2, <2>3
<1> QED BY <1>14, <1>15, <1>16, <1>18, <1>19 DEF Kept

-----------------------------------------------------------------------------
(* The writes of rows.                                                     *)

\* Nothing is worked on while rows are to be replaced or deleted.
LEMMA RowsAlone ==
  ASSUME Kept, NEW i \in DOMAIN pending, pending[i].to \in {"rows", "drop"}
  PROVE  work[Main].kind = None
BY DEF Kept, KeptZone

\* The write of no rows is a new conversation.
LEMMA ResetWritten ==
  ASSUME Alone, Sound, Kept, Write, NEW s \in Sessions, Resets(s, pending)
  PROVE  Kept' /\ C!Clear
<1> DEFINE w == RowsWrite(Main, <<>>, "reset")
           m == MetaWrite(Main, 1)
<1>1. pending = <<w, m>>
  BY DEF Resets, Alone
<1>2. w.to = "rows" /\ w.value = <<>> /\ w.s = Main /\ w.why = "reset" /\ m.to = "meta"
  BY DEF RowsWrite, MetaWrite
<1> HIDE DEF w, m
<1>3. /\ Head(pending) = w /\ Tail(pending) = <<m>> /\ 1 \in DOMAIN pending /\ pending[1] = w
  <2>1. Head(<<w, m>>) = w /\ Tail(<<w, m>>) = <<m>>
    BY OneAndTwo, Zenon
  <2>2. DOMAIN <<w, m>> = 1 .. 2 /\ <<w, m>>[1] = w
    OBVIOUS
  <2> QED BY <1>1, <2>1, <2>2
<1>4. WriteRows(w) /\ pending' = <<m>> /\ UNCHANGED <<work, told>>
  BY <1>2, <1>3, WriteMakes
<1>5. /\ rows'[Main] = <<>> /\ history'[Main] = {} /\ dropped' \subseteq dropped
      /\ UNCHANGED <<nextId, section, position>>
  BY <1>2, <1>4, MainRows DEF WriteRows, Sound, FilesTyped, GhostsTyped
<1>6. \A i \in DOMAIN pending' : pending'[i] = m
  BY <1>4
<1>7. pending' # <<>> /\ pending'[1] = m
  BY <1>4
<1>8. work[Main].kind = None
  BY <1>2, <1>3, RowsAlone
<1>9. DOMAIN rows'[Main] = {}
  BY <1>5
<1>10. KeptFiles'
  <2>1. Said(rows'[Main]) = {}
    BY <1>9 DEF Said
  <2>2. (position[Main] = 0 => AllFiledAs(rows[Main]))'
    BY <1>9 DEF AllFiledAs
  <2>3. SectionTexts' = SectionTexts
    BY <1>5 DEF SectionTexts
  <2> QED BY <1>4, <1>5, <2>1, <2>2, <2>3 DEF Kept, KeptFiles
<1>11. KeptWrites'
  BY <1>2, <1>5, <1>6 DEF KeptWrites
<1>12. KeptZone' /\ KeptFlush'
  BY <1>2, <1>4, <1>7, <1>8 DEF KeptZone, KeptFlush, None
<1>13. C!Clear
  <2>1. Shown' = <<>>
    BY <1>9 DEF Shown
  <2> QED BY <1>5, <2>1 DEF C!Clear, Filed
<1> QED BY <1>10, <1>11, <1>12, <1>13 DEF Kept

\* Other rows, shortened, folded or counted.
LEMMA RowsKept ==
  ASSUME Alone, Sound, Kept, Write, NEW rs \in Seq(RowT), NEW why, why # "reset",
         Head(pending) = RowsWrite(Main, rs, why), pending # <<>>, 1 \in DOMAIN pending,
         pending[1] = RowsWrite(Main, rs, why),
         pending' # <<>> => pending'[1].to # "section"
  PROVE  /\ rows'[Main] = rs /\ UNCHANGED <<history, section, position>>
         /\ dropped' = IF why = "count"
                       THEN dropped \cup UNION {r.says : r \in RowSet(rows[Main]) \ RowSet(rs)}
                       ELSE dropped
         /\ NewRows(rs, why) /\ pending' = Tail(pending)
         /\ KeptFiles' /\ KeptZone' /\ KeptFlush'
<1> DEFINE w == RowsWrite(Main, rs, why)
<1>1. w.to = "rows" /\ w.value = rs /\ w.s = Main /\ w.why = why
  BY DEF RowsWrite
<1> HIDE DEF w
<1>2. WriteRows(w) /\ pending' = Tail(pending) /\ UNCHANGED <<work, told>>
  BY <1>1, WriteMakes DEF w
<1>3. /\ rows'[Main] = rs /\ UNCHANGED <<history, nextId, section, position>>
      /\ dropped' = IF why = "count"
                    THEN dropped \cup UNION {r.says : r \in RowSet(rows[Main]) \ RowSet(rs)}
                    ELSE dropped
  BY <1>1, <1>2, MainRows DEF WriteRows, Sound, FilesTyped
<1>4. pending[1] = w
  BY DEF w
<1>5. NewRows(rs, why)
  BY <1>1, <1>4 DEF Kept, KeptWrites
<1>6. work[Main].kind = None
  BY <1>1, <1>4, RowsAlone
<1>7. KeptZone' /\ KeptFlush'
  BY <1>2, <1>6 DEF KeptZone, KeptFlush, None
<1>8. KeptFiles'
  <2>1. Said(rows'[Main]) \subseteq history'[Main]
    BY <1>3, <1>5 DEF NewRows
  <2>2. SectionTexts' = SectionTexts
    BY <1>3 DEF SectionTexts
  <2>3. dropped' \subseteq 1 .. told
    <3>1. \A r \in RowSet(rows[Main]) : r.says \subseteq Said(rows[Main])
      BY DEF RowSet, Said
    <3>2. Said(rows[Main]) \subseteq 1 .. told /\ dropped \subseteq 1 .. told
      BY DEF Kept, KeptFiles
    <3> QED BY <1>3, <3>1, <3>2
  <2>4. (position[Main] = 0 => AllFiledAs(rows[Main]))'
    <3>1. position[Main] = 0 => AllFiledAs(rs)
      BY <1>5 DEF NewRows
    <3> QED BY <1>3, <3>1 DEF AllFiledAs, FiledAs
  <2> QED BY <1>2, <1>3, <2>1, <2>2, <2>3, <2>4 DEF Kept, KeptFiles
<1> QED BY <1>2, <1>3, <1>5, <1>7, <1>8

\* Markers stand for the rows that are counted.
LEMMA CountShown ==
  ASSUME Sound, NEW rs \in Seq(RowT), NEW n, NEW m, n \in 1 .. Len(rows[Main]), m \in 0 .. 3,
         Len(rs) = m + (Len(rows[Main]) - n),
         \A i \in 1 .. m : rs[i].says = {},
         \A i \in 1 .. Len(rows[Main]) - n : rs[m + i].says = rows[Main][n + i].says
  PROVE  Says(rs) = [i \in 1 .. m |-> {}] \o SubSeq(Shown, n + 1, Len(Shown))
<1> DEFINE l == Len(rows[Main])
           marks == [i \in 1 .. m |-> {}]
           tail == SubSeq(Shown, n + 1, Len(Shown))
           T == SUBSET Texts
           u == marks \o tail
<1>1. /\ Shown \in Seq(T) /\ Len(Shown) = l /\ l \in Nat
      /\ \A i \in 1 .. l : Shown[i] = rows[Main][i].says /\ Shown[i] \in T
  BY MainRows, SaysIs, ShownIsSays
<1>2. /\ Says(rs) \in Seq(T) /\ Len(Says(rs)) = Len(rs)
      /\ \A i \in 1 .. Len(rs) : Says(rs)[i] = rs[i].says
  BY SaysIs
<1>3. {} \in T
  OBVIOUS
<1> HIDE DEF l, T
<1>4. l - n \in Nat /\ n + 1 \in Int /\ l \in Int /\ m \in Nat /\ n \in Nat /\ Len(rs) = m + (l - n)
  BY <1>1 DEF l
<1>5. marks \in Seq(T) /\ Len(marks) = m /\ \A i \in 1 .. m : marks[i] = {}
  BY <1>3, <1>4
<1>6. tail \in Seq(T) /\ Len(tail) = l - n /\ \A i \in 1 .. l - n : tail[i] = Shown[n + i]
  <2>1. \A i \in n + 1 .. l : Shown[i] \in T
    BY <1>1, <1>4
  <2>2. /\ SubSeq(Shown, n + 1, l) \in Seq(T)
        /\ Len(SubSeq(Shown, n + 1, l)) = IF n + 1 <= l THEN l - (n + 1) + 1 ELSE 0
        /\ \A i \in 1 .. l - (n + 1) + 1 : SubSeq(Shown, n + 1, l)[i] = Shown[n + 1 + i - 1]
    BY <1>4, <2>1, SubSeqProperties
  <2>3. l - (n + 1) + 1 = l - n /\ \A i \in 1 .. l - n : n + 1 + i - 1 = n + i
    BY <1>4
  <2>4. (IF n + 1 <= l THEN l - (n + 1) + 1 ELSE 0) = l - n
    BY <1>1, <1>4
  <2>5. tail = SubSeq(Shown, n + 1, l)
    BY <1>1
  <2> HIDE DEF tail
  <2> QED BY <2>2, <2>3, <2>4, <2>5
<1> HIDE DEF marks, tail
<1>7. /\ u \in Seq(T) /\ Len(u) = m + (l - n)
      /\ \A i \in 1 .. m + (l - n) : u[i] = IF i <= m THEN marks[i] ELSE tail[i - m]
  BY <1>5, <1>6, ConcatProperties
<1> HIDE DEF u
<1>8. \A i \in 1 .. m + (l - n) : Says(rs)[i] = u[i]
  <2> TAKE i \in 1 .. m + (l - n)
  <2>1. Says(rs)[i] = rs[i].says
    BY <1>2, <1>4
  <2>2. CASE i <= m
    <3>1. i \in 1 .. m
      BY <1>4, <2>2
    <3> QED BY <1>5, <1>7, <2>1, <2>2, <3>1
  <2>3. CASE ~ (i <= m)
    <3>1. i - m \in 1 .. l - n /\ m + (i - m) = i /\ n + (i - m) \in 1 .. l
      BY <1>1, <1>4, <2>3
    <3>2. u[i] = Shown[n + (i - m)]
      BY <1>6, <1>7, <2>3, <3>1
    <3>3. rs[i].says = rows[Main][n + (i - m)].says
      BY <3>1 DEF l
    <3> QED BY <1>1, <2>1, <3>1, <3>2, <3>3
  <2> QED BY <2>2, <2>3
<1>9. Says(rs) = u
  BY <1>2, <1>4, <1>7, <1>8, SeqEqual
<1> QED BY <1>9 DEF u, marks, tail

\* The write of markers is a count.
LEMMA CountWritten ==
  ASSUME Alone, Sound, Kept, Write, NEW s \in Sessions, CountsRows(s, pending)
  PROVE  Kept' /\ C!Count
<1> DEFINE rs == pending[1].value
           w == RowsWrite(Main, rs, "count")
<1>1. pending = <<w>> /\ rs \in Seq(RowT)
  BY DEF CountsRows, Alone
<1> HIDE DEF rs
<1>2. /\ Head(pending) = w /\ Tail(pending) = <<>> /\ pending # <<>>
      /\ 1 \in DOMAIN pending /\ pending[1] = w
  <2> HIDE DEF w
  <2>1. Head(<<w>>) = w /\ Tail(<<w>>) = <<>>
    BY OneAndTwo, Zenon
  <2> QED BY <1>1, <2>1
<1>3. pending' = <<>>
  BY <1>2, WriteMakes
<1>4. /\ rows'[Main] = rs /\ UNCHANGED <<history, section, position>>
      /\ dropped' = dropped \cup UNION {r.says : r \in RowSet(rows[Main]) \ RowSet(rs)}
      /\ NewRows(rs, "count") /\ KeptFiles' /\ KeptZone' /\ KeptFlush'
  BY <1>1, <1>2, <1>3, RowsKept
<1>5. KeptWrites'
  BY <1>3 DEF KeptWrites
<1>6. PICK n \in 1 .. Len(rows[Main]), m \in 0 .. 3 :
        /\ Len(rs) = m + (Len(rows[Main]) - n)
        /\ \A i \in 1 .. m : rs[i].says = {}
        /\ \A i \in 1 .. Len(rows[Main]) - n : rs[m + i].says = rows[Main][n + i].says
        /\ UNION {r.says : r \in RowSet(rows[Main]) \ RowSet(rs)}
             = UNION {rows[Main][i].says : i \in 1 .. n}
  BY <1>4 DEF NewRows, CountsFirst
<1>7. /\ Shown = Says(rows[Main]) /\ Shown' = Says(rs) /\ Len(Shown) = Len(rows[Main])
      /\ Len(rows[Main]) \in Nat
      /\ \A i \in 1 .. Len(rows[Main]) : Shown[i] = rows[Main][i].says
      /\ DOMAIN rows[Main] = 1 .. Len(rows[Main])
  BY <1>4, ShownIsSays, MainRows, SaysIs
<1>8. Shown' = [i \in 1 .. m |-> {}] \o SubSeq(Shown, n + 1, Len(Shown))
  BY <1>1, <1>6, <1>7, CountShown
<1>9. (dropped \cap history[Main])'
        = (dropped \cap history[Main]) \cup UNION {Shown[i] : i \in 1 .. n}
  <2>1. \A i \in 1 .. n : i \in DOMAIN rows[Main] /\ Shown[i] = rows[Main][i].says
    BY <1>7
  <2>2. UNION {rows[Main][i].says : i \in 1 .. n} = UNION {Shown[i] : i \in 1 .. n}
    BY <2>1
  <2>3. UNION {rows[Main][i].says : i \in 1 .. n} \subseteq Said(rows[Main])
    BY <2>1 DEF Said
  <2>4. Said(rows[Main]) \subseteq history[Main]
    BY DEF Kept, KeptFiles
  <2> QED BY <1>4, <1>6, <2>2, <2>3, <2>4
<1>10. C!Count
  <2>1. n \in 1 .. Len(Shown)
    BY <1>7
  <2>2. UNCHANGED <<history[Main], Filed>>
    BY <1>4 DEF Filed
  <2> QED BY <1>8, <1>9, <2>1, <2>2 DEF C!Count
<1> QED BY <1>4, <1>5, <1>10 DEF Kept

-----------------------------------------------------------------------------
(* Rows that are folded and rows that are deleted.                         *)

\* The write of a fold is a summary or a pointer, or changes nothing.
LEMMA FoldsShown ==
  ASSUME Sound, NEW rs \in Seq(RowT), Folds(rs, rows[Main]), rows'[Main] = rs,
         UNCHANGED <<history, section, dropped>>
  PROVE  [C!Next]_(C!conversation)
<1> DEFINE ts == rows[Main]
<1>1. /\ DOMAIN ts = 1 .. Len(ts) /\ Len(ts) \in Nat /\ DOMAIN rs = 1 .. Len(rs)
      /\ Len(rs) = Len(ts)
  BY MainRows, RowsAre DEF Folds
<1>2. UNCHANGED <<history[Main], Filed, dropped \cap history[Main]>>
  BY DEF Filed
<1>3. /\ Shown = [k \in DOMAIN ts |-> ts[k].says]
      /\ Shown' = [k \in DOMAIN ts |-> rs[k].says]
  BY <1>1 DEF Shown
<1> HIDE DEF ts
<1>4. DOMAIN Shown = DOMAIN ts /\ \A k \in DOMAIN ts : Shown[k] = ts[k].says
  BY <1>3
<1>5. Len(Shown) = Len(ts)
  BY ShownIsSays, MainRows, SaysIs DEF ts
<1>6. CASE SameSays(rs, ts, 0)
  <2>1. \A k \in DOMAIN ts : rs[k].says = ts[k].says
    BY <1>1, <1>6 DEF SameSays
  <2>2. Shown' = Shown
    BY <1>3, <2>1
  <2> QED BY <1>2, <2>2 DEF C!conversation
<1>7. ASSUME NEW i \in DOMAIN ts, NEW j \in i .. Len(ts),
             rs[i].says = UNION {ts[k].says : k \in i .. j}, SameSays(rs, ts, i)
      PROVE  C!Summarise
  <2>1. \A k \in i .. j : k \in DOMAIN ts
    BY <1>1
  <2>2. UNION {ts[k].says : k \in i .. j} = UNION {Shown[k] : k \in i .. j}
    BY <1>4, <2>1
  <2>3. \A k \in DOMAIN ts : rs[k].says = IF k = i THEN UNION {Shown[n] : n \in i .. j} ELSE Shown[k]
    BY <1>4, <1>7, <2>2 DEF SameSays
  <2>4. Shown' = [Shown EXCEPT ![i] = UNION {Shown[k] : k \in i .. j}]
    BY <1>3, <2>3
  <2> QED BY <1>2, <1>4, <1>5, <2>4 DEF C!Summarise
<1>8. ASSUME NEW i \in DOMAIN ts, ts[i].says \subseteq Safe, rs[i].says = {}, SameSays(rs, ts, i)
      PROVE  C!Refer
  <2>1. \A k \in DOMAIN ts : rs[k].says = IF k = i THEN {} ELSE Shown[k]
    BY <1>4, <1>8 DEF SameSays
  <2>2. Shown' = [Shown EXCEPT ![i] = {}]
    BY <1>3, <2>1
  <2>3. Shown[i] \subseteq Filed \cup (dropped \cap history[Main])
    BY <1>4, <1>8 DEF Safe
  <2> QED BY <1>2, <1>4, <2>2, <2>3 DEF C!Refer
<1> QED BY <1>6, <1>7, <1>8 DEF Folds, C!Next, ts

\* Rows that were shortened or folded keep the promise.
LEMMA AlterWritten ==
  ASSUME Alone, Sound, Kept, Write, NEW s \in Sessions, Alters(s, pending)
  PROVE  Kept' /\ [C!Next]_(C!conversation)
<1> DEFINE rs == pending[1].value
           why == pending[1].why
           w == RowsWrite(Main, rs, why)
           q == Tail(pending)
<1>1. /\ Head(pending) = w /\ pending = <<Head(pending)>> \o q /\ pending # <<>>
      /\ why \in {"snip", "fold"} /\ rs \in Seq(RowT) /\ q \in Seq(DropT)
  BY DEF Alters, Alone, OnlyDrops
<1> HIDE DEF rs, why, q
<1>2. /\ pending[1] = w /\ DOMAIN pending = 1 .. Len(q) + 1 /\ Len(q) \in Nat
      /\ \A k \in 1 .. Len(q) : pending[k + 1] = q[k]
  <2> HIDE DEF w
  <2> DEFINE p == <<w>> \o q
  <2>1. /\ p[1] = w /\ DOMAIN p = 1 .. Len(q) + 1
        /\ \A k \in 1 .. Len(q) : p[k + 1] = q[k]
    BY <1>1, OneBefore
  <2> HIDE DEF p
  <2>2. pending = p
    BY <1>1 DEF p
  <2> QED BY <1>1, <2>1, <2>2
<1>3. DOMAIN q = 1 .. Len(q) /\ \A k \in DOMAIN q : q[k] \in DropT /\ q[k].to = "drop"
  <2>1. \A x \in DropT : x.to = "drop"
    BY DEF DropT
  <2> QED BY <1>1, <2>1
<1>4. pending' = q
  BY <1>1, WriteMakes DEF q
<1>5. pending' # <<>> => 1 \in DOMAIN pending' /\ pending'[1].to = "drop"
  BY <1>1, <1>3, <1>4
<1>6. 1 \in DOMAIN pending
  BY <1>2
<1>7. /\ rows'[Main] = rs /\ UNCHANGED <<history, section, position, dropped>>
      /\ NewRows(rs, why) /\ KeptFiles' /\ KeptZone' /\ KeptFlush'
  BY <1>1, <1>2, <1>5, <1>6, RowsKept
<1>8. [C!Next]_(C!conversation)
  BY <1>1, <1>7, FoldsShown DEF NewRows
<1>9. KeptWrites'
  <2>1. Safe' = Safe
    BY <1>7 DEF Safe, Filed
  <2>2. \A ids : \A xs : Covers(xs, ids)' <=> Covers(xs, ids)
    BY <2>1 DEF Covers, Others
  <2>3. RowsThen = rs
    BY <1>2 DEF RowsThen, RowsWrite
  <2>4. ASSUME NEW k \in DOMAIN q PROVE Covers(rs, q[k].value)
    <3>1. k \in 1 .. Len(q) /\ k + 1 \in DOMAIN pending
      BY <1>2, <1>3
    <3>2. pending[k + 1] = q[k] /\ q[k].to = "drop"
      BY <1>2, <1>3, <3>1
    <3> QED BY <2>3, <3>1, <3>2 DEF Kept, KeptWrites
  <2>5. q # <<>> => RowsThen' = rs
    BY <1>4, <1>5, <1>7 DEF RowsThen
  <2>6. ASSUME NEW k \in DOMAIN q, NEW v, v = q[k]
        PROVE  v.to = "drop" /\ \A xs : xs = rs => Covers(xs, v.value)'
    BY <1>3, <2>2, <2>4, <2>6
  <2>7. \A k \in DOMAIN q : q # <<>>
    BY <1>1, <1>3
  <2> QED BY <1>4, <2>5, <2>6, <2>7 DEF KeptWrites
<1> QED BY <1>7, <1>8, <1>9 DEF Kept

\* The entries of rows without some are the entries without theirs.
LEMMA WithoutShown ==
  ASSUME Sound, NEW gone
  PROVE  LET new == C!Without(rows[Main], gone) IN
         /\ Says(new) = C!Without(Shown, gone)
         /\ \A k \in DOMAIN new : \E i \in DOMAIN rows[Main] : i \notin gone /\ new[k] = rows[Main][i]
<1> DEFINE ts == rows[Main]
           new == C!Without(rows[Main], gone)
           u == C!Without(Shown, gone)
           T == SUBSET Texts
<1>1. /\ ts \in Seq(RowT) /\ Shown \in Seq(T) /\ Len(Shown) = Len(ts) /\ Len(ts) \in Nat
      /\ DOMAIN ts = 1 .. Len(ts)
      /\ \A i \in 1 .. Len(ts) : Shown[i] = ts[i].says
  BY MainRows, SaysIs, ShownIsSays
<1> HIDE DEF T, ts
<1>2. /\ new \in Seq(RowT) /\ u \in Seq(T)
      /\ \E m, q : Leads(Len(ts), gone, m, q) /\ At(new, ts, m, q) /\ At(u, Shown, m, q)
  BY <1>1, WithoutPlaces DEF ts
<1> HIDE DEF new, u
<1>3. PICK m, q : Leads(Len(ts), gone, m, q) /\ At(new, ts, m, q) /\ At(u, Shown, m, q)
  BY <1>2
<1>4. /\ m \in Nat /\ Len(new) = m /\ Len(u) = m
      /\ \A k \in 1 .. m : /\ new[k] = ts[q[k]] /\ u[k] = Shown[q[k]]
                          /\ q[k] \in 1 .. Len(ts) /\ q[k] \notin gone
  BY <1>3 DEF Leads, At
<1>5. /\ Says(new) \in Seq(T) /\ Len(Says(new)) = m /\ DOMAIN new = 1 .. m
      /\ \A i \in 1 .. m : Says(new)[i] = new[i].says
  BY <1>2, <1>4, SaysIs DEF T
<1>6. \A k \in 1 .. m : Says(new)[k] = u[k]
  BY <1>1, <1>4, <1>5
<1>7. Says(new) = u
  BY <1>2, <1>4, <1>5, <1>6, SeqEqual
<1> QED BY <1>1, <1>4, <1>5, <1>7 DEF new, u, ts

\* The deletion of rows is a pruning.
LEMMA DropKept ==
  ASSUME Alone, Sound, Kept, Write, OnlyDrops(pending)
  PROVE  Kept' /\ C!Prune
<1> DEFINE w == Head(pending)
           ts == rows[Main]
           gone == {i \in DOMAIN rows[Main] : rows[Main][i].id \in Head(pending).value}
           new == C!Without(rows[Main], gone)
<1>0. PICK ids : ids = Head(pending).value
  OBVIOUS
<1>1. pending # <<>> /\ pending \in Seq(DropT)
      /\ \A k, l \in DOMAIN pending : pending[k].value = pending[l].value
  BY WriteMakes DEF OnlyDrops
<1>2. /\ w \in DropT /\ pending[1] = w /\ 1 \in DOMAIN pending
      /\ Tail(pending) \in Seq(DropT) /\ Len(Tail(pending)) = Len(pending) - 1
      /\ \A i \in 1 .. Len(Tail(pending)) : Tail(pending)[i] = pending[i + 1]
      /\ Len(pending) \in Nat /\ DOMAIN pending = 1 .. Len(pending)
  BY <1>1, HeadTailProperties
<1>3. w.to = "drop" /\ w.s = Main
  BY <1>2 DEF DropT, Alone
<1> HIDE DEF w
<1>4. WriteDrop(w) /\ pending' = Tail(pending) /\ UNCHANGED <<work, told>>
  BY <1>3, WriteMakes DEF w
<1>5. /\ rows'[Main] = new
      /\ UNCHANGED <<nextId, section, position, history, dropped>>
  BY <1>3, <1>4, MainRows DEF WriteDrop, Sound, FilesTyped, w
<1>6. \A i \in DOMAIN pending' : pending'[i] \in DropT /\ pending'[i].to = "drop" /\ pending'[i].value = ids
  <2>1. DOMAIN Tail(pending) = 1 .. Len(pending) - 1
    BY <1>2
  <2>2. \A i \in DOMAIN Tail(pending) : i \in 1 .. Len(Tail(pending)) /\ i + 1 \in DOMAIN pending
    BY <1>2, <2>1
  <2>3. \A i \in DOMAIN pending : pending[i] \in DropT /\ pending[i].value = ids
    BY <1>0, <1>1, <1>2 DEF w
  <2>4. \A x \in DropT : x.to = "drop"
    BY DEF DropT
  <2> QED BY <1>2, <1>4, <2>2, <2>3, <2>4
<1>7. pending' # <<>> => 1 \in DOMAIN pending'
  BY <1>2, <1>4
<1>8. work[Main].kind = None
  BY <1>2, <1>3, RowsAlone
<1>9. Covers(ts, ids)
  <2>1. RowsThen = ts
    BY <1>2, <1>3 DEF RowsThen
  <2>2. ids = w.value
    BY <1>0 DEF w
  <2> QED BY <1>2, <1>3, <2>1, <2>2 DEF Kept, KeptWrites
<1>10. /\ Says(new) = C!Without(Shown, gone)
       /\ \A k \in DOMAIN new : \E i \in DOMAIN ts : i \notin gone /\ new[k] = ts[i]
  BY WithoutShown
<1>11. \A i \in DOMAIN ts : i \in gone <=> ts[i].id \in ids
  BY <1>0
<1> HIDE DEF new, gone
<1>12. KeptFiles'
  <2>1. Said(new) \subseteq Said(ts)
    BY <1>10 DEF Said
  <2>2. (position[Main] = 0 => AllFiledAs(rows[Main]))'
    <3>1. position[Main] = 0 => \A k \in DOMAIN new : FiledAs(new[k])
      BY <1>10 DEF Kept, KeptFiles, AllFiledAs
    <3> QED BY <1>5, <3>1 DEF AllFiledAs, FiledAs
  <2>3. SectionTexts' = SectionTexts
    BY <1>5 DEF SectionTexts
  <2> QED BY <1>4, <1>5, <2>1, <2>2, <2>3 DEF Kept, KeptFiles
<1>13. KeptZone' /\ KeptFlush'
  BY <1>4, <1>6, <1>7, <1>8 DEF KeptZone, KeptFlush, None
<1>14. KeptWrites'
  <2>1. \A k \in DOMAIN new : new[k].id \notin ids
    BY <1>10, <1>11
  <2>2. \A xs : xs = new => Covers(xs, ids)'
    BY <2>1 DEF Covers
  <2>3. pending' # <<>> => RowsThen' = new
    BY <1>5, <1>6, <1>7 DEF RowsThen
  <2>4. \A i \in DOMAIN pending' : pending' # <<>>
    BY <1>2, <1>4
  <2>5. ASSUME NEW i \in DOMAIN pending', NEW v, v = pending'[i]
        PROVE  v.to = "drop" /\ \A xs : xs = new => Covers(xs, v.value)'
    BY <1>6, <2>2, <2>5
  <2> QED BY <2>3, <2>4, <2>5 DEF KeptWrites
<1>15. C!Prune
  <2>1. DOMAIN Shown = DOMAIN ts /\ \A i \in DOMAIN ts : Shown[i] = ts[i].says
    BY DEF Shown
  <2>2. Shown' = C!Without(Shown, gone)
    BY <1>5, <1>10, ShownIsSays
  <2>3. gone \in SUBSET DOMAIN Shown
    BY <2>1 DEF gone
  <2>4. UNION {Shown[i] : i \in gone} \subseteq
          (UNION {Shown[i] : i \in DOMAIN Shown \ gone}) \cup Filed \cup (dropped \cap history[Main])
    <3>1. Others(ts, ids) \subseteq UNION {Shown[i] : i \in DOMAIN Shown \ gone}
      BY <1>11, <2>1 DEF Others
    <3>2. \A i \in gone : Shown[i] \subseteq Safe \cup Others(ts, ids)
      BY <1>9, <1>11, <2>1, <2>3 DEF Covers
    <3> QED BY <3>1, <3>2 DEF Safe
  <2>5. UNCHANGED <<history[Main], Filed, dropped \cap history[Main]>>
    BY <1>5 DEF Filed
  <2> QED BY <2>2, <2>3, <2>4, <2>5 DEF C!Prune
<1> QED BY <1>12, <1>13, <1>14, <1>15 DEF Kept

-----------------------------------------------------------------------------
(* The writes of a flush.                                                  *)

\* The write of a section files the texts of a row.
LEMMA SectionKept ==
  ASSUME Alone, Sound, Kept, Write, NEW s \in Sessions, Files(s, pending)
  PROVE  Kept' /\ C!File
<1> DEFINE n == pending[2].value
           H == history[Main]
           w == PositionWrite(Main, n)
<1>1. PICK row : row = pending[1].value
  OBVIOUS
<1> DEFINE sec == SectionWrite(Main, row)
<1>2. pending = <<sec, w>> /\ row \in RowT
  BY <1>1 DEF Files, Alone
<1>3. /\ sec.to = "section" /\ sec.s = Main /\ sec.value = row
      /\ w.to = "position" /\ w.value = n
  BY DEF SectionWrite, PositionWrite
<1> HIDE DEF n, w, sec, H
<1>4. /\ Head(pending) = sec /\ Tail(pending) = <<w>> /\ pending # <<>>
      /\ 2 \in DOMAIN pending /\ pending[1] = sec /\ pending[2] = w
  <2>1. Head(<<sec, w>>) = sec /\ Tail(<<sec, w>>) = <<w>>
    BY OneAndTwo, Zenon
  <2>2. <<sec, w>> # <<>> /\ DOMAIN <<sec, w>> = 1 .. 2 /\ <<sec, w>>[1] = sec /\ <<sec, w>>[2] = w
    OBVIOUS
  <2> QED BY <1>2, <2>1, <2>2
<1>5. WriteSection(sec) /\ pending' = <<w>> /\ UNCHANGED <<work, told>>
  BY <1>3, <1>4, WriteMakes
<1>6. w.value > 0
  BY <1>3, <1>4 DEF Kept, KeptWrites
<1>7. PICK v : v = work[Main]
  OBVIOUS
<1>8. /\ v.kind = "flush" /\ v.at \in 1 .. Len(v.zone) /\ row = v.zone[v.at]
      /\ FiledAs(row) /\ v.at <= v.stop /\ v.stop = Len(v.zone)
      /\ \A k \in 1 .. v.at : v.zone[k].says \subseteq Safe \cup row.says
      /\ \A k \in v.at + 1 .. Len(v.zone) : FiledAs(v.zone[k])
  BY <1>3, <1>4, <1>7 DEF Kept, KeptFlush, Filing
<1>9. PICK h : StandsAt(v.zone, h)
  BY <1>7, <1>8, WorkStands DEF None
<1>10. /\ Len(v.zone) \in Nat /\ h \in Nat
       /\ \A k \in 1 .. Len(v.zone) : h + k \in DOMAIN rows[Main] /\ rows[Main][h + k] = v.zone[k]
       /\ \A i, j \in DOMAIN rows[Main] : i # j => rows[Main][i].id # rows[Main][j].id
       /\ \A i \in DOMAIN rows[Main] : rows[Main][i].id < nextId[Main]
  BY <1>9, MainRows DEF StandsAt, Numbered, Unique, Below
<1>11. PICK i0 \in DOMAIN rows[Main] : rows[Main][i0] = row
  BY <1>8, <1>10
<1>12. /\ row.id \in Nat /\ row.id < nextId[Main] /\ row.says \subseteq H
       /\ Said(rows[Main]) \subseteq H /\ row.says \subseteq Said(rows[Main])
  BY <1>2, <1>10, <1>11 DEF RowT, Said, Kept, KeptFiles, H
<1>13. /\ UNCHANGED <<rows, nextId, position, history, dropped>>
       /\ section'[Main] = [i \in DOMAIN section[Main] \cup {row.id} |->
                              IF i = row.id THEN row.says ELSE section[Main][i]]
       /\ section' = [t \in Sessions |-> section'[t]]
  <2>1. section = [t \in Sessions |-> section[t]]
    BY DEF Kept, KeptFiles
  <2>2. section' = [section EXCEPT ![Main] =
           [i \in DOMAIN @ \cup {row.id} |-> IF i = row.id THEN row.says ELSE @[i]]]
        /\ UNCHANGED <<rows, nextId, position, history, dropped>>
    BY <1>3, <1>5 DEF WriteSection
  <2> QED BY <2>1, <2>2, MainRows
<1>14. /\ row.id \in DOMAIN section'[Main] /\ section'[Main][row.id] = row.says
       /\ DOMAIN section'[Main] = DOMAIN section[Main] \cup {row.id}
       /\ \A i \in DOMAIN section[Main] : i # row.id => section'[Main][i] = section[Main][i]
  BY <1>13
<1>15. ASSUME NEW r, FiledAs(r), r.id = row.id => r = row
       PROVE  FiledAs(r)'
  <2>1. CASE r.id = row.id
    BY <1>13, <1>14, <1>15, <2>1 DEF FiledAs
  <2>2. CASE r.id # row.id
    BY <1>13, <1>14, <1>15, <2>2 DEF FiledAs
  <2> QED BY <2>1, <2>2
<1>16. Filed' = Filed \cup row.says
  <2>1. Filed' \subseteq Filed \cup row.says
    BY <1>13, <1>14 DEF Filed
  <2>2. row.says \subseteq Filed'
    BY <1>12, <1>13, <1>14 DEF Filed, H
  <2>3. Filed \subseteq Filed'
    <3> SUFFICES ASSUME NEW x \in Filed PROVE x \in Filed'
      OBVIOUS
    <3>1. PICK i \in DOMAIN section[Main] : x \in section[Main][i] /\ x \in H
      BY DEF Filed, H
    <3>2. CASE i = row.id
      <4>1. x \in row.says
        BY <1>8, <3>1, <3>2 DEF FiledAs, H
      <4> QED BY <2>2, <4>1
    <3>3. CASE i # row.id
      BY <1>13, <1>14, <3>1, <3>3 DEF Filed, H
    <3> QED BY <3>2, <3>3
  <2> QED BY <2>1, <2>2, <2>3
<1>17. KeptFiles'
  <2>1. SectionTexts' \subseteq SectionTexts \cup row.says
    BY <1>14 DEF SectionTexts
  <2>2. H \cup dropped \cup SectionTexts \subseteq 1 .. told
    BY DEF Kept, KeptFiles, H
  <2>3. history'[Main] \cup dropped' \cup SectionTexts' \subseteq 1 .. told'
    BY <1>5, <1>12, <1>13, <2>1, <2>2 DEF H
  <2>4. \A id \in DOMAIN section'[Main] :
          section'[Main][id] \cap history'[Main] # {} => id < nextId'[Main]
    BY <1>12, <1>13, <1>14 DEF Kept, KeptFiles
  <2>5. (position[Main] = 0 => AllFiledAs(rows[Main]))'
    <3>1. position[Main] = 0 => \A i \in DOMAIN rows[Main] : FiledAs(rows[Main][i])
      BY DEF Kept, KeptFiles, AllFiledAs
    <3>2. \A i \in DOMAIN rows[Main] : rows[Main][i].id = row.id => rows[Main][i] = row
      BY <1>10, <1>11
    <3>3. position[Main] = 0 => \A i \in DOMAIN rows[Main] : \A r : r = rows[Main][i] => FiledAs(r)'
      BY <1>15, <3>1, <3>2
    <3> QED BY <1>13, <3>3 DEF AllFiledAs, FiledAs
  <2>6. DOMAIN section'[Main] \subseteq Nat
    BY <1>12, <1>14 DEF Kept, KeptFiles
  <2>7. Said(rows'[Main]) \subseteq history'[Main]
    BY <1>12, <1>13 DEF H
  <2> QED BY <1>13, <2>3, <2>4, <2>5, <2>6, <2>7 DEF KeptFiles
<1>18. pending' # <<>> /\ pending'[1] = w /\ 1 \in DOMAIN pending' /\ \A i \in DOMAIN pending' : pending'[i] = w
  BY <1>5
<1>19. KeptWrites'
  BY <1>3, <1>6, <1>18 DEF KeptWrites
<1>20. KeptZone'
  <2>1. work[Main].kind # None => Standing(work[Main].zone, rows[Main])
    BY DEF Kept, KeptZone
  <2> QED BY <1>3, <1>5, <1>13, <1>18, <2>1 DEF KeptZone
<1>21. KeptFlush'
  <2>1. Filing' = {}
    BY <1>3, <1>18 DEF Filing
  <2>2. Safe \cup row.says \subseteq Safe'
    BY <1>13, <1>16 DEF Safe
  <2>3. \A k \in v.at + 1 .. Len(v.zone) : v.zone[k].id = row.id => v.zone[k] = row
    <3> TAKE k \in v.at + 1 .. Len(v.zone)
    <3>1. Len(v.zone) \in Nat /\ h \in Nat /\ v.at \in 1 .. Len(v.zone)
      BY <1>8, <1>10
    <3>2. k \in 1 .. Len(v.zone) /\ h + k # h + v.at
      BY <3>1
    <3>3. /\ h + k \in DOMAIN rows[Main] /\ rows[Main][h + k] = v.zone[k]
          /\ h + v.at \in DOMAIN rows[Main] /\ rows[Main][h + v.at] = row
      BY <1>8, <1>10, <3>1, <3>2
    <3>4. rows[Main][h + k].id # rows[Main][h + v.at].id
      BY <1>10, <3>2, <3>3, Zenon
    <3> QED BY <3>3, <3>4
  <2>4. \A k \in v.at + 1 .. Len(v.zone) : \A r : r = v.zone[k] => FiledAs(r)'
    BY <1>8, <1>15, <2>3
  <2>5. ASSUME NEW z, z = work'[Main]
        PROVE  /\ z.at <= z.stop /\ z.stop = Len(z.zone)
               /\ \A k \in 1 .. z.at : z.zone[k].says \subseteq Safe' \cup Filing'
               /\ \A k \in z.at + 1 .. Len(z.zone) : \A r : r = z.zone[k] => FiledAs(r)'
    BY <1>5, <1>7, <1>8, <2>2, <2>4, <2>5
  <2> QED BY <1>3, <1>18, <2>5 DEF KeptFlush, FiledAs
<1>22. C!File
  <2>1. row.says \in SUBSET C!Covered
    BY <1>12, CoveredIs
  <2>2. UNCHANGED <<history[Main], Shown, dropped \cap history[Main]>>
    BY <1>13 DEF Shown
  <2> QED BY <1>16, <2>1, <2>2 DEF C!File
<1> QED BY <1>17, <1>19, <1>20, <1>21, <1>22 DEF Kept

\* The write of the position changes no text.
LEMMA PositionKept ==
  ASSUME Alone, Sound, Kept, Write, NEW s \in Sessions, Advances(s, pending)
  PROVE  Kept' /\ UNCHANGED C!conversation
<1> DEFINE n == pending[1].value
           w == PositionWrite(Main, n)
<1>1. pending = <<w>> /\ n \in Nat
  BY DEF Advances, Alone
<1>2. w.to = "position" /\ w.s = Main /\ w.value = n
  BY DEF PositionWrite
<1> HIDE DEF n, w
<1>3. /\ Head(pending) = w /\ Tail(pending) = <<>> /\ pending # <<>>
      /\ 1 \in DOMAIN pending /\ pending[1] = w
  <2>1. Head(<<w>>) = w /\ Tail(<<w>>) = <<>>
    BY OneAndTwo, Zenon
  <2> QED BY <1>1, <2>1
<1>4. WritePosition(w) /\ pending' = <<>> /\ UNCHANGED <<work, told>>
  BY <1>2, <1>3, WriteMakes
<1>5. n > 0
  BY <1>2, <1>3 DEF Kept, KeptWrites
<1>6. /\ position'[Main] > 0 /\ position'[Main] # 0
      /\ UNCHANGED <<rows, nextId, section, history, dropped>>
  <2>1. /\ position' = [position EXCEPT ![Main] = IF n > @ THEN n ELSE @]
        /\ UNCHANGED <<rows, nextId, section, history, dropped>>
    BY <1>2, <1>4 DEF WritePosition
  <2>2. position'[Main] = IF n > position[Main] THEN n ELSE position[Main]
    BY <2>1, MainRows DEF Sound, FilesTyped
  <2> QED BY <1>1, <1>5, <2>1, <2>2, MainRows
<1>7. UNCHANGED C!conversation
  BY <1>6, ConversationStays
<1>8. SectionTexts' = SectionTexts /\ Safe' = Safe
  BY <1>6 DEF SectionTexts, Safe, Filed
<1>9. KeptFiles'
  BY <1>4, <1>6, <1>8 DEF Kept, KeptFiles
<1>10. KeptWrites'
  BY <1>4 DEF KeptWrites
<1>11. KeptZone'
  BY <1>4, <1>6 DEF Kept, KeptZone
<1>12. KeptFlush'
  <2>1. Filing = {} /\ Filing' = {}
    BY <1>2, <1>3, <1>4 DEF Filing
  <2>2. \A r : FiledAs(r)' <=> FiledAs(r)
    BY <1>6 DEF FiledAs
  <2>3. ASSUME NEW z, z = work[Main], z.kind = "flush"
        PROVE  /\ z.at <= z.stop /\ z.stop = Len(z.zone)
               /\ \A k \in 1 .. z.at : z.zone[k].says \subseteq Safe'
               /\ \A k \in z.at + 1 .. Len(z.zone) : \A r : r = z.zone[k] => FiledAs(r)'
    <3>1. /\ z.at <= z.stop /\ z.stop = Len(z.zone)
          /\ \A k \in 1 .. z.at : z.zone[k].says \subseteq Safe \cup Filing
          /\ \A k \in z.at + 1 .. Len(z.zone) : FiledAs(z.zone[k])
      BY <2>3 DEF Kept, KeptFlush
    <3> QED BY <1>8, <2>1, <2>2, <3>1
  <2> QED BY <1>4, <1>6, <2>1, <2>3 DEF KeptFlush, FiledAs
<1> QED BY <1>7, <1>9, <1>10, <1>11, <1>12 DEF Kept

\* A write keeps the promise, whatever it is of.
LEMMA WriteKept ==
  ASSUME Alone, Sound, Kept, Write
  PROVE  Kept' /\ [C!Next]_(C!conversation)
<1>1. C!Clear \/ C!Count \/ C!Prune \/ C!File => C!Next
  BY DEF C!Next
<1>2. CASE OnlyDrops(pending)
  BY <1>1, <1>2, DropKept
<1>3. CASE MovesCursor(pending)
  BY <1>3, CursorKept
<1>4. ASSUME NEW s \in Sessions, Left(s) PROVE Kept' /\ [C!Next]_(C!conversation)
  <2>1. CASE Appends(s, pending) \/ Restarts(s, pending) \/ Counts(s, pending)
    BY <2>1, NumbersKept
  <2>2. CASE EndsLine(s, pending)
    BY <2>2, LineKept
  <2>3. CASE Resets(s, pending)
    BY <1>1, <2>3, ResetWritten
  <2>4. CASE CountsRows(s, pending)
    BY <1>1, <2>4, CountWritten
  <2>5. CASE Alters(s, pending)
    BY <2>5, AlterWritten
  <2>6. CASE Files(s, pending)
    BY <1>1, <2>6, SectionKept
  <2>7. CASE Advances(s, pending)
    BY <2>7, PositionKept
  <2> QED BY <1>4, <2>1, <2>2, <2>3, <2>4, <2>5, <2>6, <2>7 DEF Left
<1> QED BY <1>2, <1>3, <1>4 DEF Sound, PendingSound

-----------------------------------------------------------------------------
(* A crash, and the promise of every step.                                 *)

\* A handler lists one line at most.
LEMMA OneLine ==
  ASSUME Sound, NEW i \in LostLines, NEW j \in LostLines
  PROVE  i = j
<1>1. /\ i \in DOMAIN pending /\ pending[i].to = "line"
      /\ j \in DOMAIN pending /\ pending[j].to = "line"
  BY DEF LostLines
<1>2. CASE OnlyDrops(pending)
  <2>1. pending[i] \in DropT
    BY <1>1, <1>2 DEF OnlyDrops
  <2> QED BY <1>1, <2>1 DEF DropT
<1>3. ASSUME NEW s \in Sessions, NEW q, Appends(s, q), NEW k \in DOMAIN q, q[k].to = "line"
      PROVE  k = 2
  <2>1. k \in 1 .. 2 /\ q[1].to = "meta"
    BY <1>3 DEF Appends
  <2> QED BY <1>3, <2>1
<1>4. CASE MovesCursor(pending)
  <2>1. /\ pending = <<Head(pending)>> \o Tail(pending) /\ pending[1].to = "cursor"
        /\ Appends(Main, Tail(pending))
    BY <1>4 DEF MovesCursor
  <2>2. PICK a, b : Tail(pending) = <<a, b>>
    BY <2>1 DEF Appends
  <2>3. Tail(pending) \in Seq({a, b})
    BY <2>2, TwoJoined, Zenon
  <2>4. ASSUME NEW k \in DOMAIN pending, pending[k].to = "line" PROVE k - 1 = 2 /\ k \in Int
    <3> DEFINE t == Tail(pending)
               h == Head(pending)
    <3>1. pending = <<h>> \o t /\ t \in Seq({a, b})
      BY <2>1, <2>3
    <3>2. k # 1
      BY <2>1, <2>4
    <3> HIDE DEF t, h
    <3>3. k - 1 \in DOMAIN t /\ (<<h>> \o t)[k] = t[k - 1]
      BY <2>4, <3>1, <3>2, OneBefore
    <3>4. Appends(Main, t) /\ t[k - 1].to = "line"
      BY <2>1, <2>4, <3>1, <3>3 DEF t
    <3>5. k - 1 = 2
      BY <1>3, <3>3, <3>4, SessionAssumption
    <3>6. k \in Int
      <4>1. DOMAIN (<<h>> \o t) = 1 .. Len(t) + 1 /\ Len(t) \in Nat
        BY <3>1, OneBefore
      <4> QED BY <2>4, <3>1, <4>1
    <3> QED BY <3>5, <3>6
  <2>5. /\ i - 1 = 2 /\ i \in Int
        /\ j - 1 = 2 /\ j \in Int
    BY <1>1, <2>4
  <2> QED BY <2>5
<1>5. ASSUME NEW s \in Sessions, Left(s) PROVE i = j
  <2>1. CASE EndsLine(s, pending)
    BY <1>1, <2>1 DEF EndsLine
  <2>2. CASE Appends(s, pending)
    BY <1>1, <1>3, <2>2
  <2>3. CASE Alters(s, pending)
    <3>1. /\ pending = <<Head(pending)>> \o Tail(pending) /\ pending[1].to = "rows"
          /\ Tail(pending) \in Seq(DropT)
      BY <2>3 DEF Alters, OnlyDrops
    <3>2. i # 1
      BY <1>1, <3>1
    <3>3. i - 1 \in DOMAIN Tail(pending) /\ pending[i] = Tail(pending)[i - 1]
      <4> DEFINE t == Tail(pending)
                 h == Head(pending)
      <4>1. pending = <<h>> \o t /\ t \in Seq(DropT)
        BY <3>1
      <4> HIDE DEF t, h
      <4>2. i - 1 \in DOMAIN t /\ (<<h>> \o t)[i] = t[i - 1]
        BY <1>1, <3>2, <4>1, OneBefore
      <4> QED BY <4>1, <4>2 DEF t
    <3>4. pending[i] \in DropT
      BY <3>1, <3>3
    <3> QED BY <1>1, <3>4 DEF DropT
  <2>4. ASSUME Resets(s, pending) \/ Counts(s, pending) \/ Files(s, pending) PROVE FALSE
    <3>1. DOMAIN pending = 1 .. 2 /\ pending[1].to # "line" /\ pending[2].to # "line"
      BY <2>4 DEF Resets, Counts, Files
    <3> QED BY <1>1, <3>1
  <2>5. ASSUME Restarts(s, pending) \/ CountsRows(s, pending) \/ Advances(s, pending) PROVE FALSE
    <3>1. DOMAIN pending = 1 .. 1 /\ pending[1].to # "line"
      BY <2>5 DEF Restarts, CountsRows, Advances
    <3> QED BY <1>1, <3>1
  <2> QED BY <1>5, <2>1, <2>2, <2>3, <2>4, <2>5 DEF Left
<1> QED BY <1>2, <1>4, <1>5 DEF Sound, PendingSound

\* A text that a crash cuts off is told in vain.
LEMMA CrashKept ==
  ASSUME Alone, Sound, Kept, Crash
  PROVE  Kept' /\ [C!Next]_(C!conversation)
<1> DEFINE H == history[Main]
           L == LostTexts
<1>1. /\ pending' = <<>> /\ work' = [s \in Sessions |-> NoWork]
      /\ dropped' = dropped \cup L
      /\ UNCHANGED <<rows, nextId, section, position, told>>
  BY DEF Crash
<1>2. /\ LostLines # {} => history'[Main] = H \cup L
      /\ LostLines = {} => history'[Main] = H
  <2>1. history' = [s \in Sessions |->
           IF \E i \in LostLines : pending[i].s = s THEN history[s] \cup LostTexts ELSE history[s]]
    BY DEF Crash
  <2>2. \A i \in LostLines : pending[i].s = Main
    BY LinesAre DEF LostLines, Alone
  <2>3. LostLines # {} <=> \E i \in LostLines : pending[i].s = Main
    BY <2>2
  <2> QED BY <2>1, <2>3, MainRows
<1>3. /\ L = {} \/ \E t \in Texts : L = {t}
      /\ L \subseteq 1 .. told
      /\ L \cap H = {} /\ L \cap dropped = {} /\ L \cap SectionTexts = {}
      /\ LostLines = {} => L = {}
  <2>1. CASE LostLines = {}
    BY <2>1 DEF LostTexts
  <2>2. ASSUME NEW i \in LostLines
        PROVE  /\ L = {} \/ \E t \in Texts : L = {t}
               /\ L \subseteq 1 .. told
               /\ L \cap H = {} /\ L \cap dropped = {} /\ L \cap SectionTexts = {}
    <3>1. L = pending[i].value.says
      BY <2>2, OneLine DEF LostTexts
    <3>2. NewLine(pending[i].value)
      BY <2>2 DEF Kept, KeptWrites, LostLines
    <3> QED BY <3>1, <3>2 DEF NewLine
  <2> QED BY <2>1, <2>2
<1> HIDE DEF H, L
<1>4. history'[Main] = H \cup L
  BY <1>2, <1>3
<1>5. /\ SectionTexts' = SectionTexts
      /\ \A id \in DOMAIN section[Main] : section[Main][id] \subseteq SectionTexts
  BY <1>1 DEF SectionTexts
<1>6. \A id \in DOMAIN section[Main] : section[Main][id] \cap history'[Main] = section[Main][id] \cap H
  BY <1>3, <1>4, <1>5
<1>7. \A r : FiledAs(r)' <=> FiledAs(r)
  BY <1>1, <1>6 DEF FiledAs, H
<1>8. KeptFiles'
  <2>1. Said(rows'[Main]) \subseteq history'[Main]
    BY <1>1, <1>4 DEF Kept, KeptFiles, H
  <2>2. history'[Main] \cup dropped' \cup SectionTexts' \subseteq 1 .. told'
    BY <1>1, <1>3, <1>4, <1>5 DEF Kept, KeptFiles, H
  <2>3. \A id \in DOMAIN section'[Main] :
          section'[Main][id] \cap history'[Main] # {} => id < nextId'[Main]
    BY <1>1, <1>6 DEF Kept, KeptFiles, H
  <2>4. AllFiledAs(rows[Main])' <=> AllFiledAs(rows[Main])
    BY <1>1, <1>6 DEF AllFiledAs, FiledAs, H
  <2>5. (position[Main] = 0 => AllFiledAs(rows[Main]))'
    BY <1>1, <2>4 DEF Kept, KeptFiles
  <2>6. section' = [s \in Sessions |-> section'[s]] /\ DOMAIN section'[Main] \subseteq Nat
    BY <1>1 DEF Kept, KeptFiles
  <2> QED BY <2>1, <2>2, <2>3, <2>5, <2>6 DEF KeptFiles
<1>9. KeptWrites' /\ KeptZone' /\ KeptFlush'
  <2>1. work'[Main].kind = None
    BY <1>1, MainRows, NoWorkIs
  <2> QED BY <1>1, <2>1, NothingWorks
<1>10. [C!Next]_(C!conversation)
  <2>1. Shown' = Shown
    BY <1>1 DEF Shown
  <2>2. Filed' = Filed
    BY <1>1, <1>3, <1>4, <1>5 DEF Filed, SectionTexts, H
  <2>3. (dropped \cap history[Main])' = (dropped \cap H) \cup L
    BY <1>1, <1>3, <1>4
  <2>4. CASE L = {}
    BY <1>4, <2>1, <2>2, <2>3, <2>4 DEF C!conversation, H
  <2>5. ASSUME NEW t \in Texts, L = {t} PROVE C!SayInVain(t)
    BY <1>3, <1>4, <2>1, <2>2, <2>3, <2>5 DEF C!SayInVain, H
  <2> QED BY <1>3, <2>4, <2>5 DEF C!Next
<1> QED BY <1>8, <1>9, <1>10 DEF Kept

\* A step of something else keeps it.
LEMMA StutterKept ==
  ASSUME Kept, UNCHANGED vars
  PROVE  Kept' /\ UNCHANGED C!conversation
<1>1. UNCHANGED <<rows, torn, nextId, section, position, pending, work, told, history, dropped>>
  BY DEF vars, files, memory, ghosts
<1>2. UNCHANGED <<Safe, SectionTexts, Filing, RowsThen>>
  BY <1>1 DEF Safe, Filed, SectionTexts, Filing, RowsThen
<1>3. KeptFiles'
  BY <1>1, <1>2 DEF Kept, KeptFiles, AllFiledAs, FiledAs
<1>4. KeptWrites'
  <2>1. \A r : NewLine(r)' <=> NewLine(r)
    BY <1>1, <1>2 DEF NewLine
  <2>2. \A rs, why : NewRows(rs, why)' <=> NewRows(rs, why)
    <3>1. \A rs : Folds(rs, rows[Main])' <=> Folds(rs, rows[Main])
      BY <1>1, <1>2 DEF Folds
    <3>2. \A rs : CountsFirst(rs, rows[Main])' <=> CountsFirst(rs, rows[Main])
      BY <1>1 DEF CountsFirst
    <3>3. \A rs : AllFiledAs(rs)' <=> AllFiledAs(rs)
      BY <1>1 DEF AllFiledAs, FiledAs
    <3> QED BY <1>1, <3>1, <3>2, <3>3 DEF NewRows
  <2>3. \A rs, ids : Covers(rs, ids)' <=> Covers(rs, ids)
    BY <1>2 DEF Covers
  <2>4. KeptWrites
    BY DEF Kept
  <2> QED BY <1>1, <1>2, <2>1, <2>2, <2>3, <2>4 DEF KeptWrites
<1>5. KeptZone' /\ KeptFlush'
  BY <1>1, <1>2 DEF Kept, KeptZone, KeptFlush, FiledAs
<1>6. UNCHANGED C!conversation
  BY <1>1, ConversationStays
<1> QED BY <1>3, <1>4, <1>5, <1>6 DEF Kept

\* The store begins as an empty conversation.
LEMMA InitKept == Init => Kept /\ C!Init
<1> SUFFICES ASSUME Init PROVE Kept /\ C!Init
  OBVIOUS
<1>1. /\ rows[Main] = <<>> /\ section[Main] = <<>> /\ history[Main] = {} /\ dropped = {}
      /\ pending = <<>> /\ work[Main].kind = None /\ told = 0
      /\ section = [s \in Sessions |-> section[s]]
  BY SessionAssumption DEF Init, NoWork
<1>2. SectionTexts = {} /\ Filed = {} /\ DOMAIN section[Main] = {} /\ DOMAIN rows[Main] = {}
  BY <1>1 DEF SectionTexts, Filed
<1>3. KeptFiles
  BY <1>1, <1>2 DEF KeptFiles, Said, AllFiledAs
<1>4. KeptWrites /\ KeptZone /\ KeptFlush
  BY <1>1 DEF KeptWrites, KeptZone, KeptFlush, None
<1>5. C!Init
  BY <1>1, <1>2 DEF C!Init, Shown
<1> QED BY <1>3, <1>4, <1>5 DEF Kept

\* Every step of the store is a step of the conversation.
LEMMA NextKept ==
  ASSUME Alone, Sound, Kept, WholeFlush, WholeFlush', [Next]_vars
  PROVE  Kept' /\ [C!Next]_(C!conversation)
<1>1. ASSUME NEW s \in Sessions, Handler(s) PROVE Kept' /\ [C!Next]_(C!conversation)
  <2>1. CASE Say(s) \/ Notice(s)
    BY <2>1, SayKept
  <2>2. CASE ResetSession(s)
    BY <2>2, ResetKept
  <2>3. CASE CompactSession(s)
    BY <2>3, CompactKept
  <2>4. CASE SummaryStart(s) \/ SummaryFails(s)
    BY <2>4, SummaryBegunKept
  <2>5. CASE SummaryDone(s)
    BY <2>5, SummaryDoneKept
  <2>6. CASE FlushStart(s)
    BY <2>6, FlushBegunKept
  <2>7. CASE FlushMessage(s)
    BY <2>7, FlushMessageKept
  <2>8. CASE FlushDone(s)
    BY <2>8, FlushDoneKept
  <2> QED BY <1>1, <2>1, <2>2, <2>3, <2>4, <2>5, <2>6, <2>7, <2>8 DEF Handler
<1>2. CASE AgentStart \/ AgentReads \/ AgentDone \/ AgentFails
  BY <1>2, AgentKept
<1>3. CASE Write
  BY <1>3, WriteKept
<1>4. CASE Crash
  BY <1>4, CrashKept
<1>5. CASE UNCHANGED vars
  BY <1>5, StutterKept
<1> QED BY <1>1, <1>2, <1>3, <1>4, <1>5 DEF Next

-----------------------------------------------------------------------------
(* What a conversation promises of its texts.                              *)

\* A step of the conversation lets no text go silently.
LEMMA CoverKept ==
  ASSUME C!TypeOK, C!NothingVanishes, C!Next
  PROVE  C!NothingVanishes'
<1> DEFINE T == history[Main]
           D == dropped \cap history[Main]
<1>1. PICK sh : sh = Shown
  OBVIOUS
<1>2. PICK sh2 : sh2 = Shown'
  OBVIOUS
<1> DEFINE Cov(x) == UNION {x[k] : k \in DOMAIN x}
<1>3. /\ T \subseteq Cov(sh) \cup Filed \cup D
      /\ C!NothingVanishes' <=> T' \subseteq Cov(sh2) \cup Filed' \cup D'
      /\ sh \in Seq(SUBSET Texts) /\ DOMAIN sh = 1 .. Len(sh) /\ Len(sh) \in Nat
      /\ C!Covered = Cov(sh)
  BY <1>1, <1>2 DEF C!NothingVanishes, C!Covered, C!TypeOK
<1> HIDE DEF T, D
<1> SUFFICES T' \subseteq Cov(sh2) \cup Filed' \cup D'
  BY <1>3
<1>4. ASSUME NEW e \in SUBSET Texts, sh2 = Append(sh, e) PROVE Cov(sh) \cup e \subseteq Cov(sh2)
  <2>1. /\ Len(sh2) = Len(sh) + 1 /\ \A k \in 1 .. Len(sh) : sh2[k] = sh[k]
        /\ sh2[Len(sh) + 1] = e /\ DOMAIN sh2 = 1 .. Len(sh) + 1
    BY <1>3, <1>4, AppendProperties
  <2>2. Len(sh) + 1 \in DOMAIN sh2 /\ \A k \in 1 .. Len(sh) : k \in DOMAIN sh2
    BY <1>3, <2>1
  <2> QED BY <1>3, <2>1, <2>2
<1>5. ASSUME NEW t \in Texts, C!Say(t) \/ C!SayInVain(t)
      PROVE  T' \subseteq Cov(sh2) \cup Filed' \cup D'
  <2>1. CASE C!Say(t)
    <3>1. T' = T \cup {t} /\ sh2 = Append(sh, {t}) /\ Filed' = Filed /\ D' = D
      BY <1>1, <1>2, <2>1 DEF C!Say, T, D
    <3> QED BY <1>3, <1>4, <3>1
  <2>2. CASE C!SayInVain(t)
    <3>1. T' = T \cup {t} /\ sh2 = sh /\ Filed' = Filed /\ D' = D \cup {t}
      BY <1>1, <1>2, <2>2 DEF C!SayInVain, T, D
    <3> QED BY <1>3, <3>1
  <2> QED BY <1>5, <2>1, <2>2
<1>6. CASE C!Note
  <2>1. T' = T /\ sh2 = Append(sh, {}) /\ Filed' = Filed /\ D' = D
    BY <1>1, <1>2, <1>6 DEF C!Note, T, D
  <2> QED BY <1>3, <1>4, <2>1
<1>7. CASE C!Summarise
  <2>1. T' = T /\ Filed' = Filed /\ D' = D
    BY <1>7 DEF C!Summarise, T, D
  <2>2. PICK i \in DOMAIN sh : \E j \in i .. Len(sh) :
               sh2 = [sh EXCEPT ![i] = UNION {sh[k] : k \in i .. j}]
    <3>1. PICK i \in DOMAIN Shown : \E j \in i .. Len(Shown) :
             Shown' = [Shown EXCEPT ![i] = UNION {Shown[k] : k \in i .. j}]
      BY <1>7, Zenon DEF C!Summarise
    <3>2. PICK j \in i .. Len(Shown) :
             Shown' = [Shown EXCEPT ![i] = UNION {Shown[k] : k \in i .. j}]
      BY <3>1, Zenon
    <3>3. i \in DOMAIN sh /\ j \in i .. Len(sh)
      BY <1>1, <3>1, <3>2
    <3>4. sh2 = [sh EXCEPT ![i] = UNION {sh[k] : k \in i .. j}]
      BY <1>1, <1>2, <3>2
    <3> QED BY <3>3, <3>4
  <2>3. PICK j \in i .. Len(sh) : sh2 = [sh EXCEPT ![i] = UNION {sh[k] : k \in i .. j}]
    BY <2>2
  <2>4. i \in i .. j
    BY <1>3, <2>3
  <2>5. \A k \in DOMAIN sh : k \in DOMAIN sh2 /\ sh[k] \subseteq sh2[k]
    BY <2>3, <2>4
  <2> QED BY <1>3, <2>1, <2>5
<1>8. CASE C!Prune
  <2>1. T' = T /\ Filed' = Filed /\ D' = D
    BY <1>8 DEF C!Prune, T, D
  <2>2. PICK gone \in SUBSET DOMAIN sh :
          /\ (UNION {sh[i] : i \in gone}) \subseteq
               (UNION {sh[i] : i \in DOMAIN sh \ gone}) \cup Filed \cup D
          /\ sh2 = C!Without(sh, gone)
    BY <1>1, <1>2, <1>8 DEF C!Prune, D
  <2>3. sh2 \in Seq(SUBSET Texts) /\ \E m, q : Leads(Len(sh), gone, m, q) /\ At(sh2, sh, m, q)
    BY <1>3, <2>2, WithoutEntries
  <2>4. PICK m, q : Leads(Len(sh), gone, m, q) /\ At(sh2, sh, m, q)
    BY <2>3
  <2>5. ASSUME NEW i \in DOMAIN sh \ gone PROVE sh[i] \subseteq Cov(sh2)
    <3>1. PICK k \in 1 .. m : q[k] = i
      BY <1>3, <2>4 DEF Leads
    <3>2. sh2[k] = sh[i] /\ k \in DOMAIN sh2
      BY <2>3, <2>4, <3>1 DEF At
    <3> QED BY <3>2
  <2> QED BY <1>3, <2>1, <2>2, <2>5
<1>9. CASE C!Refer
  <2>1. T' = T /\ Filed' = Filed /\ D' = D
    BY <1>9 DEF C!Refer, T, D
  <2>2. PICK i \in DOMAIN sh : sh[i] \subseteq Filed \cup D /\ sh2 = [sh EXCEPT ![i] = {}]
    BY <1>1, <1>2, <1>9 DEF C!Refer, D
  <2>3. \A k \in DOMAIN sh : k # i => k \in DOMAIN sh2 /\ sh2[k] = sh[k]
    BY <2>2
  <2> QED BY <1>3, <2>1, <2>2, <2>3
<1>10. CASE C!File \/ C!GiveUp
  <2>1. T' = T /\ Filed \subseteq Filed' /\ D \subseteq D' /\ sh2 = sh
    BY <1>1, <1>2, <1>10 DEF C!File, C!GiveUp, T, D
  <2> QED BY <1>3, <2>1
<1>11. CASE C!Count
  <2>1. T' = T /\ Filed' = Filed
    BY <1>11 DEF C!Count, T
  <2>2. PICK n \in 1 .. Len(sh), marks \in 0 .. 3 :
          /\ D' = D \cup UNION {sh[i] : i \in 1 .. n}
          /\ sh2 = [i \in 1 .. marks |-> {}] \o SubSeq(sh, n + 1, Len(sh))
    BY <1>1, <1>2, <1>11 DEF C!Count, D
  <2>3. ASSUME NEW k \in n + 1 .. Len(sh) PROVE sh[k] \subseteq Cov(sh2)
    <3> DEFINE a == [i \in 1 .. marks |-> {}]
               b == SubSeq(sh, n + 1, Len(sh))
    <3>1. /\ b \in Seq(SUBSET Texts) /\ Len(b) = Len(sh) - n
          /\ b[k - n] = sh[k] /\ k - n \in 1 .. Len(b)
      <4> DEFINE l == Len(sh)
                 A == SUBSET Texts
      <4>1. sh \in Seq(A) /\ l \in Nat /\ DOMAIN sh = 1 .. l
        BY <1>3
      <4> HIDE DEF A
      <4>2. \A i \in 1 .. l : sh[i] \in A
        BY <4>1
      <4> HIDE DEF l
      <4>3. n + 1 \in Int /\ l \in Int /\ n + 1 <= l /\ l - (n + 1) + 1 = l - n /\ n \in 1 .. l
        BY <2>3, <4>1 DEF l
      <4>4. \A i \in n + 1 .. l : sh[i] \in A
        BY <4>2, <4>3
      <4>5. /\ SubSeq(sh, n + 1, l) \in Seq(A)
            /\ Len(SubSeq(sh, n + 1, l)) = IF n + 1 <= l THEN l - (n + 1) + 1 ELSE 0
            /\ \A i \in 1 .. l - (n + 1) + 1 : SubSeq(sh, n + 1, l)[i] = sh[n + 1 + i - 1]
        BY <4>3, <4>4, SubSeqProperties
      <4>6. k - n \in 1 .. l - n /\ n + 1 + (k - n) - 1 = k
        BY <4>3, <2>3 DEF l
      <4> QED BY <4>3, <4>5, <4>6 DEF l, A
    <3>2. a \in Seq(SUBSET Texts) /\ Len(a) = marks
      OBVIOUS
    <3> HIDE DEF a, b
    <3>3. marks + (k - n) \in DOMAIN (a \o b) /\ (a \o b)[marks + (k - n)] = b[k - n]
      <4>1. DOMAIN (a \o b) = 1 .. Len(a) + Len(b) /\ k - n \in Nat
        BY <3>1, <3>2
      <4> QED BY <3>1, <3>2, <4>1
    <3> QED BY <2>2, <3>1, <3>3 DEF a, b
  <2>4. \A k \in DOMAIN sh : k \in 1 .. n \/ k \in n + 1 .. Len(sh)
    BY <1>3
  <2>5. Cov(sh) \subseteq Cov(sh2) \cup D'
    <3> SUFFICES ASSUME NEW k \in DOMAIN sh PROVE sh[k] \subseteq Cov(sh2) \cup D'
      OBVIOUS
    <3> QED BY <2>2, <2>3, <2>4
  <2>6. D \subseteq D'
    BY <2>2
  <2> HIDE DEF Cov
  <2> QED BY <1>3, <2>1, <2>5, <2>6
<1>12. CASE C!Clear
  BY <1>12 DEF C!Clear, T
<1> QED BY <1>5, <1>6, <1>7, <1>8, <1>9, <1>10, <1>11, <1>12 DEF C!Next

(* The files of one session, whose summaries nothing overtakes, are a       *)
(* conversation while every flush files its zone from the first row to the  *)
(* last: whatever the handlers do and wherever a crash cuts them, texts are *)
(* summarised, filed, counted and given up only by steps that say so.      *)
THEOREM IsConversationHolds ==
  ASSUME Alone
  PROVE  Spec /\ []WholeFlush => IsConversation
<1>1. Init => C!Init /\ Kept
  BY InitKept
<1>2. Sound /\ Kept /\ WholeFlush /\ WholeFlush' /\ [Next]_vars
      => Kept' /\ [C!Next]_(C!conversation)
  BY NextKept
<1> QED BY <1>1, <1>2, InitSound, NextSound, PTL DEF Spec, IsConversation, C!Spec

(* Under the same conditions every text that was told since the session was *)
(* reset is shown, stands in memory.md or was let go by a step that says so. *)
THEOREM NothingVanishesHolds ==
  ASSUME Alone
  PROVE  Spec /\ []WholeFlush => []NothingVanishes
<1>1. C!Init => C!NothingVanishes
  BY DEF C!Init, C!NothingVanishes
<1>2. C!TypeOK /\ C!NothingVanishes /\ [C!Next]_(C!conversation) => C!NothingVanishes'
  <2> SUFFICES ASSUME C!TypeOK, C!NothingVanishes, [C!Next]_(C!conversation)
               PROVE  C!NothingVanishes'
    OBVIOUS
  <2>1. CASE UNCHANGED C!conversation
    BY <2>1 DEF C!conversation, C!NothingVanishes, C!Covered
  <2> QED BY <2>1, CoverKept
<1>3. RowsSound => C!TypeOK
  BY DEF RowsSound, TypeOK, ConversationTyped
<1> QED BY <1>1, <1>2, <1>3, RowsSoundHolds, IsConversationHolds,
           PTL DEF IsConversation, C!Spec, NothingVanishes
=============================================================================
