---------------------------- MODULE JanitorProofs ----------------------------
(***************************************************************************)
(* Proof that a run of the janitor that comes to its end has deleted what  *)
(* was due, for every number of resources and every size of pages.         *)
(*                                                                         *)
(* The invariant follows each resource that was due when the run started   *)
(* through the run: it is still beyond the pages that were read, or it is  *)
(* in the list and not marked as attached, or it is gone.  Resources that  *)
(* are created meanwhile push it towards later pages, never towards a page *)
(* that was read; only a deletion can do that, which is the excuse.        *)
(***************************************************************************)
EXTENDS Janitor, SequenceTheorems, TLAPS

\* The lists of the account hold each resource that is there, once.
AccountOK ==
  /\ \A k \in Kinds : \A i \in 1..Len(account[k]) :
       /\ KindOf(account[k][i]) = k /\ Present(account[k][i])
       /\ \A j \in 1..Len(account[k]) : account[k][i] = account[k][j] => i = j
  /\ \A r \in Resources : Present(r) =>
       \E i \in 1..Len(account[KindOf(r)]) : account[KindOf(r)][i] = r

\* What was due stays due until it is gone.
OwedOK == \A r \in owed : age[r] \in {"old", "gone"} /\ r \notin attached

\* Where the program is between two kinds of resources, or does not run.
ProgramOK ==
  /\ pc = "idle" => kind = "droplet" /\ page = 1 /\ list = <<>>
  /\ pc = "delete" => page = 1
  /\ pc # "idle" => ~completed

Rank(k) == CASE k = "droplet" -> 1 [] k = "lb" -> 2 [] k = "volume" -> 3

Listed(r) == \E i \in 1..Len(list) : list[i].id = r /\ ~list[i].attached

\* The resource is on a page that was not read yet.
Ahead(r) ==
  \E i \in 1..Len(account[kind]) : account[kind][i] = r /\ i > (page - 1) * PageSize

\* What becomes of a resource that is due.
Tracked(r) ==
  /\ Rank(KindOf(r)) < Rank(kind) => age[r] = "gone"
  /\ KindOf(r) = kind /\ age[r] # "gone" =>
       Listed(r) \/ (pc = "list" /\ Ahead(r))

JInv ==
  /\ TypeOK /\ AccountOK /\ OwedOK /\ ProgramOK
  /\ pc # "idle" /\ ~excused => \A r \in owed : Tracked(r)
  /\ CompletedMeansClean

-----------------------------------------------------------------------------
(* Kinds and lists.                                                        *)

\* Every resource has a kind.
LEMMA KindOfType ==
  ASSUME NEW r \in Resources
  PROVE  KindOf(r) \in Kinds
BY DEF KindOf, Kinds

\* The kinds are in order.
LEMMA RankFacts ==
  /\ Rank("droplet") = 1 /\ Rank("lb") = 2 /\ Rank("volume") = 3
BY Zenon DEF Rank

Once(s) == \A i, j \in 1..Len(s) : s[i] = s[j] => i = j

\* The sequence t is s without its n-th element.
MovedUp(s, n, t) ==
  /\ Len(t) = Len(s) - 1
  /\ \A j \in 1..(Len(s) - 1) : t[j] = IF j < n THEN s[j] ELSE s[j + 1]

\* A resource that occurs once is removed, and those behind it move up.
LEMMA WithoutFacts ==
  ASSUME NEW S, NEW s \in Seq(S), NEW r, NEW n \in 1..Len(s), s[n] = r, Once(s)
  PROVE  Without(s, r) \in Seq(S) /\ MovedUp(s, n, Without(s, r))
<1>1. (CHOOSE i \in 1..Len(s) : s[i] = r) = n
  BY DEF Once
<1>2. Without(s, r) = SubSeq(s, 1, n - 1) \o SubSeq(s, n + 1, Len(s))
  BY <1>1, Zenon DEF Without
<1>3. /\ SubSeq(s, 1, n - 1) \in Seq(S) /\ Len(SubSeq(s, 1, n - 1)) = n - 1
      /\ \A j \in 1..(n - 1) : SubSeq(s, 1, n - 1)[j] = s[j]
  OBVIOUS
<1>4. /\ SubSeq(s, n + 1, Len(s)) \in Seq(S) /\ Len(SubSeq(s, n + 1, Len(s))) = Len(s) - n
      /\ \A j \in 1..(Len(s) - n) : SubSeq(s, n + 1, Len(s))[j] = s[n + j]
  OBVIOUS
<1> DEFINE a == SubSeq(s, 1, n - 1)
           b == SubSeq(s, n + 1, Len(s))
<1>5. /\ a \in Seq(S) /\ Len(a) = n - 1 /\ \A j \in 1..(n - 1) : a[j] = s[j]
      /\ b \in Seq(S) /\ Len(b) = Len(s) - n /\ \A j \in 1..(Len(s) - n) : b[j] = s[n + j]
      /\ Without(s, r) = a \o b
  BY <1>2, <1>3, <1>4, Zenon
<1> HIDE DEF a, b
<1>6. Len(s) \in Nat /\ n \in Nat /\ n >= 1 /\ n <= Len(s)
  OBVIOUS
<1>7. a \o b \in Seq(S) /\ Len(a \o b) = Len(a) + Len(b)
  <2>1. a \in Seq(S) /\ b \in Seq(S)
    BY <1>5
  <2> QED
    BY <2>1, ConcatProperties, Zenon
<1>8. ASSUME NEW j \in 1..(Len(s) - 1)
      PROVE  (a \o b)[j] = IF j < n THEN s[j] ELSE s[j + 1]
  <2>1. j \in 1..(Len(a) + Len(b))
    BY <1>5, <1>6
  <2>2. (a \o b)[j] = IF j <= Len(a) THEN a[j] ELSE b[j - Len(a)]
    BY <1>5, <2>1, ConcatProperties
  <2>3. CASE j < n
    BY <1>5, <1>6, <2>2, <2>3
  <2>4. CASE ~(j < n)
    <3>1. j - (n - 1) \in 1..(Len(s) - n) /\ n + (j - (n - 1)) = j + 1 /\ ~(j <= n - 1)
      BY <1>6, <2>4
    <3> QED
      BY <1>5, <2>2, <2>4, <3>1
  <2> QED
    BY <2>3, <2>4, Zenon
<1>9. Len(a \o b) = Len(s) - 1
  BY <1>5, <1>6, <1>7
<1>10. MovedUp(s, n, a \o b)
  BY <1>8, <1>9 DEF MovedUp
<1>11. Without(s, r) = a \o b
  BY <1>5
<1> QED
  BY <1>7, <1>10, <1>11, Zenon

\* The list of a kind, as a sequence of resources.
LEMMA AccountType ==
  ASSUME TypeOK, NEW r \in Resources
  PROVE  /\ KindOf(r) \in Kinds /\ account[KindOf(r)] \in Seq(Resources)
         /\ \A k \in Kinds : /\ Len(account[k]) \in Nat
                             /\ \A i \in 1..Len(account[k]) : account[k][i] \in Resources
BY KindOfType DEF TypeOK

\* A resource that goes leaves the others in their order.
LEMMA GoneStep ==
  ASSUME TypeOK, AccountOK, NEW r \in Resources, Gone(r)
  PROVE  /\ account' \in [Kinds -> Seq(Resources)]
         /\ age' \in [Resources -> {"unborn", "young", "old", "gone"}]
         /\ attached' = attached /\ r \notin attached
         /\ age'[r] = "gone" /\ \A q \in Resources : q # r => age'[q] = age[q]
         /\ AccountOK'
         /\ \A k \in Kinds : k # KindOf(r) => account'[k] = account[k]
<1> DEFINE k == KindOf(r)
           s == account[k]
           t == Without(s, r)
<1>1. /\ k \in Kinds /\ s \in Seq(Resources) /\ Len(s) \in Nat
      /\ account \in [Kinds -> Seq(Resources)]
      /\ age \in [Resources -> {"unborn", "young", "old", "gone"}]
  BY AccountType DEF TypeOK
<1>2. /\ Present(r) /\ r \notin attached /\ attached' = attached
      /\ age' = [age EXCEPT ![r] = "gone"] /\ account' = [account EXCEPT ![k] = t]
  BY DEF Gone
<1>3. /\ age' \in [Resources -> {"unborn", "young", "old", "gone"}]
      /\ age'[r] = "gone" /\ \A q \in Resources : q # r => age'[q] = age[q]
  BY <1>1, <1>2
<1>4. PICK n \in 1..Len(s) : s[n] = r
  BY <1>2 DEF AccountOK
<1>5. \A i, j \in 1..Len(s) : s[i] = s[j] => i = j
  BY <1>1 DEF AccountOK
<1>6. /\ t \in Seq(Resources) /\ Len(t) = Len(s) - 1
      /\ \A j \in 1..(Len(s) - 1) : t[j] = IF j < n THEN s[j] ELSE s[j + 1]
  <2> HIDE DEF s
  <2>1. Once(s)
    BY <1>5 DEF Once
  <2>2. t \in Seq(Resources) /\ MovedUp(s, n, t)
    BY <1>1, <1>4, <2>1, WithoutFacts, Zenon
  <2> QED
    BY <2>2 DEF MovedUp
<1> HIDE DEF t
<1>7. /\ account' \in [Kinds -> Seq(Resources)] /\ account'[k] = t
      /\ \A c \in Kinds : c # k => account'[c] = account[c]
  BY <1>1, <1>2, <1>6
<1>8. ASSUME NEW c \in Kinds, NEW i \in 1..Len(account'[c])
      PROVE  /\ KindOf(account'[c][i]) = c /\ age'[account'[c][i]] \in {"young", "old"}
             /\ \A j \in 1..Len(account'[c]) : account'[c][i] = account'[c][j] => i = j
  <2>1. CASE c # k
    <3>1. account'[c] = account[c]
      BY <1>7, <2>1
    <3>2. /\ account[c][i] \in Resources /\ KindOf(account[c][i]) = c /\ Present(account[c][i])
      BY <3>1, AccountType DEF AccountOK
    <3>3. age'[account[c][i]] = age[account[c][i]]
      BY <1>3, <2>1, <3>2
    <3>4. \A j \in 1..Len(account[c]) : account[c][i] = account[c][j] => i = j
      BY <3>1 DEF AccountOK
    <3> QED
      BY <3>1, <3>2, <3>3, <3>4 DEF Present
  <2>2. CASE c = k
    <3>1. account'[c] = t /\ i \in 1..(Len(s) - 1)
      BY <1>6, <1>7, <2>2
    <3>2. \A j \in 1..(Len(s) - 1) :
            \E m \in 1..Len(s) : m # n /\ t[j] = s[m] /\ m = IF j < n THEN j ELSE j + 1
      BY <1>1, <1>6
    <3>3. PICK m \in 1..Len(s) : m # n /\ t[i] = s[m] /\ m = IF i < n THEN i ELSE i + 1
      BY <3>1, <3>2
    <3>4. s[m] \in Resources /\ KindOf(s[m]) = k /\ Present(s[m])
      BY <1>1, <3>3 DEF AccountOK
    <3>5. s[m] # r
      BY <1>4, <1>5, <3>3
    <3>6. age'[t[i]] = age[s[m]] /\ Present(s[m])
      BY <1>3, <3>3, <3>4, <3>5
    <3>7. ASSUME NEW j \in 1..(Len(s) - 1), t[i] = t[j]
          PROVE  i = j
      <4>1. PICK l \in 1..Len(s) : l # n /\ t[j] = s[l] /\ l = IF j < n THEN j ELSE j + 1
        BY <3>2
      <4>2. l = m
        BY <1>5, <3>3, <3>7, <4>1
      <4> HIDE DEF s
      <4> QED
        BY <1>1, <3>1, <3>3, <4>1, <4>2
    <3> HIDE DEF s
    <3> QED
      BY <1>6, <2>2, <3>1, <3>3, <3>4, <3>6, <3>7 DEF Present
  <2> QED
    BY <2>1, <2>2
<1>9. ASSUME NEW q \in Resources, Present(q)'
      PROVE  \E i \in 1..Len(account'[KindOf(q)]) : account'[KindOf(q)][i] = q
  <2>1. q # r /\ Present(q) /\ KindOf(q) \in Kinds
    BY <1>3, <1>9, KindOfType DEF Present
  <2>2. PICK i \in 1..Len(account[KindOf(q)]) : account[KindOf(q)][i] = q
    BY <2>1 DEF AccountOK
  <2>3. CASE KindOf(q) # k
    BY <1>7, <2>1, <2>2, <2>3
  <2>4. CASE KindOf(q) = k
    <3>1. i \in 1..Len(s) /\ i # n /\ s[i] = q
      BY <1>4, <2>1, <2>2, <2>4
    <3>2. \E j \in 1..(Len(s) - 1) : t[j] = q
      <4>1. CASE i < n
        <5>1. i \in 1..(Len(s) - 1)
          BY <1>1, <3>1, <4>1
        <5> QED
          BY <1>6, <3>1, <4>1, <5>1, SMTT(30)
      <4>2. CASE i > n
        <5>1. i - 1 \in 1..(Len(s) - 1) /\ ~(i - 1 < n) /\ (i - 1) + 1 = i
          BY <1>1, <3>1, <4>2
        <5> QED
          BY <1>6, <3>1, <5>1, Zenon
      <4> QED
        BY <1>1, <3>1, <4>1, <4>2
    <3> QED
      BY <1>6, <1>7, <2>4, <3>2
  <2> QED
    BY <2>3, <2>4
<1>10. AccountOK'
  BY <1>8, <1>9 DEF AccountOK, Present
<1> QED
  BY <1>2, <1>3, <1>7, <1>10

\* A resource that is created comes first, before the others in their order.
LEMMA CreateStep ==
  ASSUME TypeOK, AccountOK, NEW r \in Resources, Create(r)
  PROVE  /\ account' \in [Kinds -> Seq(Resources)]
         /\ age' \in [Resources -> {"unborn", "young", "old", "gone"}]
         /\ \A q \in Resources : q # r => age'[q] = age[q]
         /\ AccountOK'
         /\ \A c \in Kinds : \A i \in 1..Len(account[c]) :
              \E j \in 1..Len(account'[c]) : j >= i /\ account'[c][j] = account[c][i]
<1> DEFINE k == KindOf(r)
           s == account[k]
           t == <<r>> \o s
<1>1. /\ k \in Kinds /\ s \in Seq(Resources) /\ Len(s) \in Nat
      /\ account \in [Kinds -> Seq(Resources)]
      /\ age \in [Resources -> {"unborn", "young", "old", "gone"}]
      /\ \A c \in Kinds : Len(account[c]) \in Nat
  BY AccountType DEF TypeOK
<1>2. /\ age[r] = "unborn" /\ age' = [age EXCEPT ![r] = "young"]
      /\ account' = [account EXCEPT ![k] = t]
  BY DEF Create
<1>3. /\ age' \in [Resources -> {"unborn", "young", "old", "gone"}]
      /\ age'[r] = "young" /\ \A q \in Resources : q # r => age'[q] = age[q]
  BY <1>1, <1>2
<1>4. /\ t \in Seq(Resources) /\ Len(t) = Len(s) + 1 /\ t[1] = r
      /\ \A j \in 1..Len(s) : t[j + 1] = s[j]
  <2> HIDE DEF s
  <2>1. <<r>> \in Seq(Resources) /\ Len(<<r>>) = 1 /\ <<r>>[1] = r
    OBVIOUS
  <2>2. /\ t \in Seq(Resources) /\ Len(t) = Len(<<r>>) + Len(s)
        /\ \A i \in 1..(Len(<<r>>) + Len(s)) :
             t[i] = IF i <= Len(<<r>>) THEN <<r>>[i] ELSE s[i - Len(<<r>>)]
    BY <1>1, <2>1, ConcatProperties, Zenon
  <2> HIDE DEF t
  <2>3. ASSUME NEW j \in 1..Len(s)
        PROVE  t[j + 1] = s[j]
    <3>1. j + 1 \in 1..(1 + Len(s)) /\ ~(j + 1 <= 1) /\ (j + 1) - 1 = j
      BY <1>1
    <3> QED
      BY <2>1, <2>2, <3>1
  <2>4. t[1] = r
    BY <1>1, <2>1, <2>2
  <2> QED
    BY <1>1, <2>1, <2>2, <2>3, <2>4
<1> HIDE DEF t
<1>5. /\ account' \in [Kinds -> Seq(Resources)] /\ account'[k] = t
      /\ \A c \in Kinds : c # k => account'[c] = account[c]
  BY <1>1, <1>2, <1>4
<1>6. \A c \in Kinds : \A i \in 1..Len(account[c]) :
        /\ account[c][i] \in Resources /\ account[c][i] # r
        /\ KindOf(account[c][i]) = c /\ age'[account[c][i]] \in {"young", "old"}
        /\ \A j \in 1..Len(account[c]) : account[c][i] = account[c][j] => i = j
  <2> SUFFICES ASSUME NEW c \in Kinds, NEW i \in 1..Len(account[c])
               PROVE  /\ account[c][i] \in Resources /\ account[c][i] # r
                      /\ KindOf(account[c][i]) = c /\ age'[account[c][i]] \in {"young", "old"}
                      /\ \A j \in 1..Len(account[c]) : account[c][i] = account[c][j] => i = j
    OBVIOUS
  <2>1. account[c][i] \in Resources
    BY AccountType
  <2>2. /\ KindOf(account[c][i]) = c /\ Present(account[c][i])
        /\ \A j \in 1..Len(account[c]) : account[c][i] = account[c][j] => i = j
    BY DEF AccountOK
  <2> QED
    BY <1>2, <1>3, <2>1, <2>2 DEF Present
<1>7. \A j \in 1..Len(t) : j = 1 \/ \E i \in 1..Len(s) : j = i + 1
  <2>1. ASSUME NEW j \in 1..Len(t), j # 1
        PROVE  \E i \in 1..Len(s) : j = i + 1
    <3>1. j - 1 \in 1..Len(s) /\ j = (j - 1) + 1
      BY <1>1, <1>4, <2>1
    <3> QED
      BY <3>1
  <2> QED
    BY <2>1
<1>8. ASSUME NEW c \in Kinds, NEW i \in 1..Len(account'[c])
      PROVE  /\ KindOf(account'[c][i]) = c /\ age'[account'[c][i]] \in {"young", "old"}
             /\ \A j \in 1..Len(account'[c]) : account'[c][i] = account'[c][j] => i = j
  <2>1. CASE c # k
    <3>1. account'[c] = account[c]
      BY <1>5, <2>1
    <3> QED
      BY <1>6, <3>1
  <2>2. CASE c = k
    <3>1. account'[c] = t /\ i \in 1..Len(t)
      BY <1>5, <2>2
    <3>2. CASE i = 1
      <4>1. \A j \in 1..Len(t) : t[j] = t[i] => j = i
        <5> SUFFICES ASSUME NEW j \in 1..Len(t), t[j] = r, j # 1
                     PROVE  FALSE
          BY <1>4, <3>2
        <5>1. PICK m \in 1..Len(s) : j = m + 1
          BY <1>7
        <5>2. s[m] # r
          BY <1>1, <1>6
        <5> QED
          BY <1>4, <5>1, <5>2
      <4> QED
        BY <1>3, <1>4, <2>2, <3>1, <3>2, <4>1
    <3>3. CASE i # 1
      <4>1. PICK m \in 1..Len(s) : i = m + 1
        BY <1>7, <3>1, <3>3
      <4>2. t[i] = s[m]
        BY <1>4, <4>1
      <4>3. /\ s[m] # r /\ KindOf(s[m]) = k /\ age'[s[m]] \in {"young", "old"}
            /\ \A j \in 1..Len(s) : s[m] = s[j] => m = j
        BY <1>1, <1>6, SMTT(30)
      <4>4. \A j \in 1..Len(t) : t[j] = t[i] => j = i
        <5> SUFFICES ASSUME NEW j \in 1..Len(t), t[j] = t[i]
                     PROVE  j = i
          OBVIOUS
        <5>1. j # 1
          BY <1>4, <4>2, <4>3
        <5>2. PICK l \in 1..Len(s) : j = l + 1
          BY <1>7, <5>1
        <5> QED
          BY <1>4, <4>1, <4>2, <4>3, <5>2, SMTT(30)
      <4> HIDE DEF s
      <4> QED
        BY <2>2, <3>1, <4>2, <4>3, <4>4
    <3> QED
      BY <3>2, <3>3
  <2> QED
    BY <2>1, <2>2
<1>9. ASSUME NEW c \in Kinds, NEW i \in 1..Len(account[c])
      PROVE  \E j \in 1..Len(account'[c]) : j >= i /\ account'[c][j] = account[c][i]
  <2>1. CASE c # k
    <3>1. account'[c] = account[c] /\ i >= i
      BY <1>1, <1>5, <2>1
    <3> QED
      BY <3>1
  <2>2. CASE c = k
    <3>1. i \in 1..Len(s) /\ account[c][i] = s[i]
      BY <2>2
    <3>2. i + 1 \in 1..Len(t) /\ i + 1 >= i
      BY <1>1, <1>4, <3>1
    <3>3. t[i + 1] = s[i]
      BY <1>4, <3>1
    <3> QED
      BY <1>5, <2>2, <3>1, <3>2, <3>3
  <2> QED
    BY <2>1, <2>2
<1>10. ASSUME NEW q \in Resources, age'[q] \in {"young", "old"}
       PROVE  \E i \in 1..Len(account'[KindOf(q)]) : account'[KindOf(q)][i] = q
  <2>1. CASE q = r
    <3>1. 1 \in 1..Len(t)
      BY <1>1, <1>4
    <3> QED
      BY <1>4, <1>5, <2>1, <3>1
  <2>2. CASE q # r
    <3>1. Present(q) /\ KindOf(q) \in Kinds
      BY <1>3, <1>10, <2>2, KindOfType DEF Present
    <3>2. PICK i \in 1..Len(account[KindOf(q)]) : account[KindOf(q)][i] = q
      BY <3>1 DEF AccountOK
    <3> QED
      BY <1>9, <3>1, <3>2
  <2> QED
    BY <2>1, <2>2
<1>11. AccountOK'
  BY <1>8, <1>10 DEF AccountOK, Present
<1> QED
  BY <1>3, <1>5, <1>9, <1>11

-----------------------------------------------------------------------------
(* Steps of the tests.                                                     *)

\* While the program is where it was, it is enough that what was due is not
\* moved to a page that was read.
LEMMA CloudStep ==
  ASSUME JInv, UNCHANGED <<pc, kind, page, list, owed, completed>>,
         TypeOK', AccountOK', OwedOK', excused => excused',
         \A r \in owed : age[r] = "gone" => age'[r] = "gone",
         pc = "list" /\ ~excused' =>
           \A r \in owed : KindOf(r) = kind /\ age'[r] # "gone" /\ Ahead(r) => Ahead(r)'
  PROVE  JInv'
<1>1. ProgramOK'
  BY DEF JInv, ProgramOK
<1>2. CompletedMeansClean'
  BY DEF JInv, CompletedMeansClean
<1>3. ASSUME pc # "idle", ~excused', NEW r \in owed
      PROVE  Tracked(r)'
  <2>1. Tracked(r)
    BY <1>3 DEF JInv
  <2>2. Listed(r) => Listed(r)'
    BY DEF Listed
  <2>3. KindOf(r) = kind /\ age'[r] # "gone" => Listed(r)' \/ (pc = "list" /\ Ahead(r)')
    BY <1>3, <2>1, <2>2 DEF Tracked
  <2>4. Rank(KindOf(r)) < Rank(kind) => age'[r] = "gone"
    BY <2>1 DEF Tracked
  <2> QED
    BY <2>3, <2>4 DEF Tracked
<1> QED
  BY <1>1, <1>2, <1>3 DEF JInv

\* A test creates a resource.
LEMMA CreatePreserves ==
  ASSUME JInv, NEW r \in Resources, Create(r)
  PROVE  JInv'
<1>1. TypeOK /\ AccountOK /\ OwedOK
  BY DEF JInv
<1>2. /\ account' \in [Kinds -> Seq(Resources)]
      /\ age' \in [Resources -> {"unborn", "young", "old", "gone"}]
      /\ \A q \in Resources : q # r => age'[q] = age[q]
      /\ AccountOK'
      /\ \A c \in Kinds : \A i \in 1..Len(account[c]) :
           \E j \in 1..Len(account'[c]) : j >= i /\ account'[c][j] = account[c][i]
  BY <1>1, CreateStep, Zenon
<1>3. /\ age[r] = "unborn" /\ UNCHANGED <<program, deletes>>
      /\ attached' = attached \/ (r \in Volumes /\ attached' = attached \union {r})
  BY DEF Create
<1>4. TypeOK'
  BY <1>1, <1>2, <1>3 DEF TypeOK, program
<1>5. \A q \in owed : q \in Resources /\ q # r
  BY <1>1, <1>3 DEF OwedOK, TypeOK
<1>6. OwedOK'
  BY <1>1, <1>2, <1>3, <1>5 DEF OwedOK, program
<1>7. ASSUME NEW q \in owed, Ahead(q)
      PROVE  Ahead(q)'
  <2>1. kind \in Kinds /\ kind' = kind /\ page' = page /\ page \in Nat /\ PageSize \in Nat
    BY <1>1, <1>3, JanitorAssumption DEF TypeOK, program
  <2>2. PICK i \in 1..Len(account[kind]) : account[kind][i] = q /\ i > (page - 1) * PageSize
    BY <1>7 DEF Ahead
  <2>3. PICK j \in 1..Len(account'[kind]) : j >= i /\ account'[kind][j] = q
    BY <1>2, <2>1, <2>2
  <2>4. (page - 1) * PageSize \in Int
    BY <2>1
  <2>5. j > (page - 1) * PageSize
    BY <2>2, <2>3, <2>4
  <2> QED
    BY <2>1, <2>3, <2>5 DEF Ahead
<1> QED
  BY <1>1, <1>2, <1>3, <1>4, <1>5, <1>6, <1>7, CloudStep DEF program

\* A resource comes of age.
LEMMA AgePreserves ==
  ASSUME JInv, NEW r \in Resources, Age(r)
  PROVE  JInv'
<1>1. TypeOK /\ AccountOK /\ OwedOK
  BY DEF JInv
<1>2. /\ age[r] = "young" /\ age' = [age EXCEPT ![r] = "old"]
      /\ UNCHANGED <<account, attached, program, deletes>>
  BY DEF Age
<1>3. TypeOK'
  BY <1>1, <1>2 DEF TypeOK, program
<1>4. \A q \in Resources : Present(q)' <=> Present(q)
  BY <1>1, <1>2 DEF Present, TypeOK
<1>5. \A k \in Kinds : \A i \in 1..Len(account[k]) : account[k][i] \in Resources
  BY <1>1, AccountType
<1>6. AccountOK'
  BY <1>1, <1>2, <1>4, <1>5 DEF AccountOK, Present
<1>7. \A q \in owed : q \in Resources /\ q # r
  BY <1>1, <1>2, Zenon DEF OwedOK, TypeOK
<1>8. OwedOK' /\ \A q \in owed : age'[q] = age[q]
  BY <1>1, <1>2, <1>7 DEF OwedOK, TypeOK, program
<1>9. \A q \in owed : Ahead(q) => Ahead(q)'
  BY <1>2 DEF Ahead, program
<1> QED
  BY <1>2, <1>3, <1>6, <1>8, <1>9, CloudStep DEF program

\* A volume is detached.
LEMMA DetachPreserves ==
  ASSUME JInv, NEW v, Detach(v)
  PROVE  JInv'
<1>1. TypeOK /\ AccountOK /\ OwedOK
  BY DEF JInv
<1>2. /\ attached' = attached \ {v} /\ UNCHANGED <<account, age, program, deletes>>
  BY DEF Detach
<1>3. TypeOK'
  BY <1>1, <1>2 DEF TypeOK, program
<1>4. AccountOK' /\ OwedOK'
  BY <1>1, <1>2 DEF AccountOK, OwedOK, Present, program
<1>5. \A q \in owed : Ahead(q) => Ahead(q)'
  BY <1>2 DEF Ahead, program
<1> QED
  BY <1>2, <1>3, <1>4, <1>5, CloudStep DEF program

\* A test deletes a resource: unless that is an excuse, it was not listed
\* on a page before what is still ahead.
LEMMA TestDeletesPreserves ==
  ASSUME JInv, NEW r \in Resources, TestDeletes(r)
  PROVE  JInv'
<1>1. TypeOK /\ AccountOK /\ OwedOK
  BY DEF JInv
<1>2. /\ deletes < MaxDeletes /\ deletes' = deletes + 1 /\ Gone(r)
      /\ excused' = (excused \/ (pc = "list" /\ kind = KindOf(r) /\ page > 1))
      /\ UNCHANGED <<pc, kind, page, list, owed, completed>>
  BY DEF TestDeletes
<1>3. /\ account' \in [Kinds -> Seq(Resources)]
      /\ age' \in [Resources -> {"unborn", "young", "old", "gone"}]
      /\ attached' = attached /\ age'[r] = "gone"
      /\ \A q \in Resources : q # r => age'[q] = age[q]
      /\ AccountOK'
      /\ \A k \in Kinds : k # KindOf(r) => account'[k] = account[k]
  BY <1>1, <1>2, GoneStep
<1>4. deletes' \in 0..MaxDeletes /\ excused' \in BOOLEAN
  BY <1>1, <1>2, JanitorAssumption DEF TypeOK
<1>5. TypeOK'
  BY <1>1, <1>2, <1>3, <1>4 DEF TypeOK
<1>6. \A q \in owed : q \in Resources
  BY <1>1 DEF TypeOK
<1>7. OwedOK' /\ \A q \in owed : age[q] = "gone" => age'[q] = "gone"
  BY <1>1, <1>2, <1>3, <1>6 DEF OwedOK
<1>8. ASSUME pc = "list", ~excused', NEW q \in owed, KindOf(q) = kind, age'[q] # "gone", Ahead(q)
      PROVE  Ahead(q)'
  <2>1. kind \in Kinds /\ page \in Nat \ {0} /\ PageSize \in Nat
    BY <1>1, JanitorAssumption DEF TypeOK
  <2>2. CASE kind # KindOf(r)
    BY <1>2, <1>3, <1>8, <2>1, <2>2 DEF Ahead
  <2>3. CASE kind = KindOf(r)
    <3>1. page = 1
      <4>1. ~(page > 1)
        BY <1>2, <1>8, <2>3, Zenon
      <4> QED
        BY <2>1, <4>1
    <3>2. age'[q] \in {"young", "old"}
      BY <1>2, <1>7, <1>8 DEF OwedOK
    <3>3. PICK i \in 1..Len(account'[KindOf(q)]) : account'[KindOf(q)][i] = q
      BY <1>3, <1>6, <1>8, <3>2 DEF AccountOK, Present
    <3>4. (page - 1) * PageSize = 0
      BY <2>1, <3>1
    <3> QED
      BY <1>2, <1>8, <3>3, <3>4 DEF Ahead
  <2> QED
    BY <2>2, <2>3
<1>9. excused => excused'
  BY <1>2, Zenon
<1> QED
  BY <1>2, <1>3, <1>5, <1>7, <1>8, <1>9, CloudStep

-----------------------------------------------------------------------------
(* Steps of the program.                                                   *)

Item == [id: Resources, attached: BOOLEAN]

\* A page holds what is listed between its bounds.
LEMMA PageFacts ==
  ASSUME TypeOK, NEW k \in Kinds, NEW p \in Nat \ {0}
  PROVE  /\ Page(k, p) \in Seq(Item)
         /\ \A i \in 1..Len(account[k]) :
              i > (p - 1) * PageSize /\ (IsLastPage(k, p) \/ ~(i > p * PageSize)) =>
                \E j \in 1..Len(Page(k, p)) :
                  /\ Page(k, p)[j].id = account[k][i]
                  /\ Page(k, p)[j].attached = (account[k][i] \in attached)
<1> DEFINE s == account[k]
           first == (p - 1) * PageSize
           last == p * PageSize
           length == IF IsLastPage(k, p) THEN Len(s) - first ELSE PageSize
           e(i) == [id |-> s[first + i], attached |-> s[first + i] \in attached]
<1>1. /\ Len(s) \in Nat /\ first \in Nat /\ last \in Nat /\ last = first + PageSize
      /\ PageSize \in Nat /\ length \in Int
      /\ \A i \in 1..Len(s) : s[i] \in Resources
  BY AccountType, JanitorAssumption DEF TypeOK
<1>2. IsLastPage(k, p) <=> last >= Len(s)
  BY DEF IsLastPage
<1>3. Page(k, p) = [i \in 1..length |-> e(i)]
  BY DEF Page
<1> HIDE DEF s, first, last
<1>4. \A i \in 1..length : first + i \in 1..Len(s)
  BY <1>1, <1>2
<1>5. \A i \in 1..length : e(i) \in Item
  BY <1>1, <1>4 DEF Item
<1>6. CASE length >= 0
  <2> HIDE DEF e
  <2>1. length \in Nat
    BY <1>1, <1>6
  <2> HIDE DEF length
  <2>2. /\ Page(k, p) \in Seq(Item) /\ Len(Page(k, p)) = length
        /\ \A j \in 1..length : Page(k, p)[j] = e(j)
    BY <1>3, <1>5, <2>1
  <2>3. ASSUME NEW i \in 1..Len(s), i > first, IsLastPage(k, p) \/ ~(i > last)
        PROVE  \E j \in 1..Len(Page(k, p)) :
                  Page(k, p)[j].id = s[i] /\ Page(k, p)[j].attached = (s[i] \in attached)
    <3>1. i - first \in 1..length /\ first + (i - first) = i
      BY <1>1, <1>2, <2>3 DEF length
    <3>2. /\ Page(k, p)[i - first].id = s[i]
          /\ Page(k, p)[i - first].attached = (s[i] \in attached)
      BY <2>2, <3>1 DEF e
    <3> QED
      BY <2>2, <3>1, <3>2
  <2> QED
    BY <2>2, <2>3 DEF s, first, last
<1>7. CASE ~(length >= 0)
  <2> HIDE DEF e
  <2>1. 1..length = {} /\ IsLastPage(k, p) /\ Len(s) < first
    BY <1>1, <1>2, <1>7
  <2> HIDE DEF length
  <2>2. Page(k, p) = <<>>
    <3>1. [i \in 1..length |-> e(i)] = [i \in 1..0 |-> e(i)]
      BY <2>1
    <3>2. [i \in 1..0 |-> e(i)] = <<>>
      OBVIOUS
    <3> QED
      BY <1>3, <3>1, <3>2
  <2>3. \A i \in 1..Len(s) : ~(i > first)
    BY <1>1, <2>1
  <2>4. Page(k, p) \in Seq(Item)
    BY <2>2, EmptySeq
  <2> QED
    BY <2>3, <2>4 DEF s, first, last
<1> QED
  BY <1>1, <1>6, <1>7, Zenon

\* What was listed stays listed when a page is added, and what is on the
\* page is listed.
LEMMA AppendFacts ==
  ASSUME NEW a \in Seq(Item), NEW b \in Seq(Item)
  PROVE  /\ a \o b \in Seq(Item)
         /\ \A i \in 1..Len(a) : \E j \in 1..Len(a \o b) : (a \o b)[j] = a[i]
         /\ \A i \in 1..Len(b) : \E j \in 1..Len(a \o b) : (a \o b)[j] = b[i]
<1>1. /\ a \o b \in Seq(Item) /\ Len(a \o b) = Len(a) + Len(b)
      /\ \A i \in 1..(Len(a) + Len(b)) :
           (a \o b)[i] = IF i <= Len(a) THEN a[i] ELSE b[i - Len(a)]
  BY ConcatProperties, Zenon
<1>2. Len(a) \in Nat /\ Len(b) \in Nat
  OBVIOUS
<1> DEFINE c == a \o b
<1> HIDE DEF c
<1>3. /\ Len(c) = Len(a) + Len(b)
      /\ \A i \in 1..(Len(a) + Len(b)) : c[i] = IF i <= Len(a) THEN a[i] ELSE b[i - Len(a)]
  BY <1>1 DEF c
<1>4. ASSUME NEW i \in 1..Len(a)
      PROVE  \E j \in 1..Len(c) : c[j] = a[i]
  <2>1. i \in 1..(Len(a) + Len(b)) /\ i <= Len(a)
    BY <1>2
  <2> QED
    BY <1>3, <2>1
<1>5. ASSUME NEW i \in 1..Len(b)
      PROVE  \E j \in 1..Len(c) : c[j] = b[i]
  <2>1. /\ Len(a) + i \in 1..(Len(a) + Len(b)) /\ ~(Len(a) + i <= Len(a))
        /\ (Len(a) + i) - Len(a) = i
    BY <1>2
  <2> QED
    BY <1>3, <2>1
<1> QED
  BY <1>1, <1>4, <1>5 DEF c

\* A run that starts owes what is due, and has read no page.
LEMMA StartPreserves ==
  ASSUME JInv, Start
  PROVE  JInv'
<1>1. TypeOK /\ AccountOK /\ OwedOK /\ ProgramOK
  BY DEF JInv
<1>2. /\ pc = "idle" /\ pc' = "list" /\ owed' = {r \in Resources : Due(r)}
      /\ excused' = FALSE /\ completed' = FALSE
      /\ UNCHANGED <<kind, page, list, cloud, deletes>>
  BY DEF Start
<1>3. kind = "droplet" /\ page = 1 /\ list = <<>>
  BY <1>1, <1>2 DEF ProgramOK
<1>4. TypeOK' /\ AccountOK' /\ OwedOK' /\ ProgramOK' /\ CompletedMeansClean'
  <2>1. TypeOK'
    BY <1>1, <1>2, Zenon DEF TypeOK, cloud
  <2>2. AccountOK'
    BY <1>1, <1>2 DEF AccountOK, Present, cloud
  <2>3. OwedOK' /\ ProgramOK' /\ CompletedMeansClean'
    BY <1>2 DEF OwedOK, ProgramOK, Due, CompletedMeansClean, cloud
  <2> QED
    BY <2>1, <2>2, <2>3
<1>5. ASSUME NEW r \in owed'
      PROVE  Tracked(r)'
  <2>1. r \in Resources /\ age[r] = "old" /\ KindOf(r) \in Kinds
    BY <1>2, <1>5, KindOfType DEF Due
  <2>2. ~(Rank(KindOf(r)) < Rank(kind'))
    BY <1>2, <1>3, <2>1, RankFacts DEF Kinds
  <2>3. KindOf(r) = kind => Ahead(r)'
    <3>1. PICK i \in 1..Len(account[KindOf(r)]) : account[KindOf(r)][i] = r
      BY <1>1, <2>1 DEF AccountOK, Present
    <3>2. (page - 1) * PageSize = 0
      BY <1>3, JanitorAssumption
    <3> QED
      BY <1>2, <3>1, <3>2 DEF Ahead, cloud
  <2> QED
    BY <1>2, <2>2, <2>3 DEF Tracked
<1> QED
  BY <1>2, <1>4, <1>5 DEF JInv

\* A run that ends without success shows nothing.
LEMMA ExitPreserves ==
  ASSUME JInv, Exit(FALSE), UNCHANGED <<cloud, deletes>>
  PROVE  JInv'
<1>1. TypeOK /\ AccountOK /\ OwedOK
  BY DEF JInv
<1>2. /\ pc' = "idle" /\ kind' = "droplet" /\ page' = 1 /\ list' = <<>>
      /\ completed' = FALSE /\ UNCHANGED <<owed, excused, account, age, attached, deletes>>
  BY DEF Exit, cloud
<1>3. "droplet" \in Kinds /\ <<>> \in Seq(Item) /\ 1 \in Nat \ {0}
  BY DEF Kinds
<1>4. TypeOK'
  <2>1. list' \in Seq(Item) /\ kind' \in Kinds /\ page' \in Nat \ {0} /\ completed' \in BOOLEAN
    BY <1>2, <1>3, Zenon
  <2> QED
    BY <1>1, <1>2, <2>1 DEF TypeOK, Item
<1>5. AccountOK'
  BY <1>1, <1>2 DEF AccountOK, Present
<1>6. OwedOK' /\ ProgramOK' /\ CompletedMeansClean'
  BY <1>1, <1>2 DEF OwedOK, ProgramOK, CompletedMeansClean
<1> QED
  BY <1>2, <1>4, <1>5, <1>6 DEF JInv

\* A page is read: what was ahead is listed or still ahead.
LEMMA ListPagePreserves ==
  ASSUME JInv, ListPage
  PROVE  JInv'
<1>1. TypeOK /\ AccountOK /\ OwedOK /\ ProgramOK
  BY DEF JInv
<1>2. CASE Exit(FALSE) /\ UNCHANGED <<cloud, deletes>>
  BY <1>2, ExitPreserves
<1>3. CASE /\ pc = "list" /\ list' = list \o Page(kind, page)
           /\ UNCHANGED <<kind, owed, excused, completed, cloud, deletes>>
           /\ \/ IsLastPage(kind, page) /\ pc' = "delete" /\ page' = 1
              \/ ~IsLastPage(kind, page) /\ pc' = "list" /\ page' = page + 1
  <2>1. kind \in Kinds /\ page \in Nat \ {0} /\ PageSize \in Nat /\ list \in Seq(Item)
    BY <1>1, JanitorAssumption DEF TypeOK, Item
  <2>2. /\ Page(kind, page) \in Seq(Item)
        /\ \A i \in 1..Len(account[kind]) :
             i > (page - 1) * PageSize /\ (IsLastPage(kind, page) \/ ~(i > page * PageSize)) =>
               \E j \in 1..Len(Page(kind, page)) :
                 /\ Page(kind, page)[j].id = account[kind][i]
                 /\ Page(kind, page)[j].attached = (account[kind][i] \in attached)
    BY <1>1, <2>1, PageFacts
  <2> DEFINE P == Page(kind, page)
  <2> HIDE DEF P
  <2>3. /\ list' \in Seq(Item)
        /\ \A i \in 1..Len(list) : \E j \in 1..Len(list') : list'[j] = list[i]
        /\ \A i \in 1..Len(P) : \E j \in 1..Len(list') : list'[j] = P[i]
    <3>1. P \in Seq(Item) /\ list' = list \o P
      BY <1>3, <2>2 DEF P
    <3> QED
      BY <2>1, <3>1, AppendFacts
  <2>4. page' \in Nat \ {0}
    BY <1>3, <2>1
  <2>5. TypeOK'
    BY <1>1, <1>3, <2>3, <2>4 DEF TypeOK, Item, cloud
  <2>6. AccountOK' /\ OwedOK' /\ ProgramOK' /\ CompletedMeansClean'
    BY <1>1, <1>3 DEF AccountOK, OwedOK, ProgramOK, Present, CompletedMeansClean, cloud
  <2>7. ASSUME ~excused, NEW r \in owed
        PROVE  Tracked(r)'
    <3>1. Tracked(r) /\ r \notin attached
      BY <1>1, <1>3, <2>7 DEF JInv, OwedOK
    <3>2. Listed(r) => Listed(r)'
      BY <2>3 DEF Listed
    <3>3. Ahead(r) => Listed(r)' \/ (pc' = "list" /\ Ahead(r)')
      <4> SUFFICES ASSUME Ahead(r)
                   PROVE  Listed(r)' \/ (pc' = "list" /\ Ahead(r)')
        OBVIOUS
      <4>1. PICK i \in 1..Len(account[kind]) : account[kind][i] = r /\ i > (page - 1) * PageSize
        BY DEF Ahead
      <4>2. CASE IsLastPage(kind, page) \/ ~(i > page * PageSize)
        <5>1. PICK j \in 1..Len(P) : P[j].id = r /\ P[j].attached = (r \in attached)
          BY <2>2, <4>1, <4>2 DEF P
        <5>2. PICK m \in 1..Len(list') : list'[m] = P[j]
          BY <2>3
        <5> QED
          BY <3>1, <5>1, <5>2, Zenon DEF Listed
      <4>3. CASE ~IsLastPage(kind, page) /\ i > page * PageSize
        <5>1. page' = page + 1 /\ pc' = "list" /\ kind' = kind /\ account' = account
          BY <1>3, <4>3 DEF cloud
        <5>2. page' - 1 = page
          BY <2>1, <5>1
        <5> QED
          BY <4>1, <4>3, <5>1, <5>2 DEF Ahead
      <4> QED
        BY <4>2, <4>3
    <3>4. KindOf(r) = kind /\ age[r] # "gone" => Listed(r)' \/ (pc' = "list" /\ Ahead(r)')
      BY <3>1, <3>2, <3>3 DEF Tracked
    <3>5. Rank(KindOf(r)) < Rank(kind) => age[r] = "gone"
      BY <3>1 DEF Tracked
    <3> QED
      BY <1>3, <3>4, <3>5 DEF Tracked, cloud
  <2> QED
    BY <1>3, <2>5, <2>6, <2>7 DEF JInv
<1> QED
  BY <1>2, <1>3, Zenon DEF ListPage

\* The rest of a list.
LEMMA TailFacts ==
  ASSUME TypeOK, list # <<>>
  PROVE  /\ Head(list) \in Item /\ Tail(list) \in Seq(Item)
         /\ \A i \in 1..Len(list) :
              list[i] = Head(list) \/ \E j \in 1..Len(Tail(list)) : Tail(list)[j] = list[i]
<1>1. list \in Seq(Item) /\ Len(list) \in Nat
  BY DEF TypeOK, Item
<1>2. /\ Head(list) \in Item /\ Tail(list) \in Seq(Item) /\ Len(Tail(list)) = Len(list) - 1
      /\ \A i \in 1..Len(Tail(list)) : Tail(list)[i] = list[i + 1]
  BY <1>1, HeadTailProperties
<1>3. Head(list) = list[1]
  BY <1>1
<1>4. ASSUME NEW i \in 1..Len(list), i # 1
      PROVE  \E j \in 1..Len(Tail(list)) : Tail(list)[j] = list[i]
  <2>1. i - 1 \in 1..(Len(list) - 1) /\ (i - 1) + 1 = i
    BY <1>1, <1>4
  <2>2. i - 1 \in 1..Len(Tail(list)) /\ Tail(list)[i - 1] = list[i]
    BY <1>2, <2>1
  <2> QED
    BY <2>2
<1> QED
  BY <1>2, <1>3, <1>4

\* While it deletes, the program may leave out what was not due, what is gone,
\* and, with an excuse, anything else.
LEMMA TailStep ==
  ASSUME JInv, pc = "delete", list # <<>>, list' = Tail(list),
         UNCHANGED <<pc, kind, page, owed, completed>>,
         TypeOK', AccountOK', OwedOK', excused => excused',
         \A r \in owed : age[r] = "gone" => age'[r] = "gone",
         ~excused' => \A r \in owed :
                        Head(list).id = r /\ ~Head(list).attached => age'[r] = "gone"
  PROVE  JInv'
<1>1. ProgramOK' /\ CompletedMeansClean'
  BY DEF JInv, ProgramOK, CompletedMeansClean
<1>2. ASSUME ~excused', NEW r \in owed
      PROVE  Tracked(r)'
  <2>1. Tracked(r)
    BY <1>2 DEF JInv
  <2>2. Rank(KindOf(r)) < Rank(kind) => age'[r] = "gone"
    BY <2>1 DEF Tracked
  <2>3. ASSUME KindOf(r) = kind, age'[r] # "gone"
        PROVE  Listed(r)'
    <3>1. Listed(r)
      BY <2>1, <2>3 DEF Tracked
    <3>2. PICK i \in 1..Len(list) : list[i].id = r /\ ~list[i].attached
      BY <3>1 DEF Listed
    <3>3. list[i] # Head(list)
      BY <1>2, <2>3, <3>2
    <3>4. PICK j \in 1..Len(Tail(list)) : Tail(list)[j] = list[i]
      BY <3>3, TailFacts DEF JInv
    <3> QED
      BY <3>2, <3>4 DEF Listed
  <2> QED
    BY <2>2, <2>3 DEF Tracked
<1> QED
  BY <1>1, <1>2 DEF JInv

\* A resource that is not selected was not due.
LEMMA SkipPreserves ==
  ASSUME JInv, Skip
  PROVE  JInv'
<1>1. TypeOK /\ AccountOK /\ OwedOK
  BY DEF JInv
<1>2. /\ pc = "delete" /\ list # <<>> /\ ~Selected(Head(list)) /\ list' = Tail(list)
      /\ UNCHANGED <<pc, kind, page, owed, excused, completed, account, age, attached, deletes>>
  BY DEF Skip, cloud
<1>3. Tail(list) \in Seq(Item)
  BY <1>1, <1>2, TailFacts
<1>4. TypeOK'
  BY <1>1, <1>2, <1>3 DEF TypeOK, Item
<1>5. AccountOK'
  BY <1>1, <1>2 DEF AccountOK, Present
<1>6. OwedOK'
  BY <1>1, <1>2 DEF OwedOK
<1>7. \A r \in owed : Head(list).id = r /\ ~Head(list).attached => age'[r] = "gone"
  BY <1>1, <1>2 DEF OwedOK, Selected
<1> QED
  BY <1>2, <1>4, <1>5, <1>6, <1>7, TailStep

\* A resource that is deleted is gone.
LEMMA DeletePreserves ==
  ASSUME JInv, Delete
  PROVE  JInv'
<1> DEFINE r == Head(list).id
<1>1. TypeOK /\ AccountOK /\ OwedOK
  BY DEF JInv
<1>2. /\ pc = "delete" /\ list # <<>> /\ Gone(r) /\ list' = Tail(list)
      /\ UNCHANGED <<pc, kind, page, owed, excused, completed, deletes>>
  BY DEF Delete
<1>3. r \in Resources /\ Tail(list) \in Seq(Item)
  BY <1>1, <1>2, TailFacts DEF Item
<1> HIDE DEF r
<1>4. /\ account' \in [Kinds -> Seq(Resources)]
      /\ age' \in [Resources -> {"unborn", "young", "old", "gone"}]
      /\ attached' = attached /\ age'[r] = "gone"
      /\ \A q \in Resources : q # r => age'[q] = age[q]
      /\ AccountOK'
  BY <1>1, <1>2, <1>3, GoneStep
<1>5. TypeOK'
  BY <1>1, <1>2, <1>3, <1>4 DEF TypeOK, Item
<1>6. \A q \in owed : q \in Resources
  BY <1>1 DEF TypeOK
<1>7. OwedOK' /\ \A q \in owed : age[q] = "gone" => age'[q] = "gone"
  BY <1>1, <1>2, <1>4, <1>6 DEF OwedOK
<1>8. \A q \in owed : Head(list).id = q => age'[q] = "gone"
  BY <1>4 DEF r
<1> QED
  BY <1>2, <1>4, <1>5, <1>7, <1>8, TailStep

\* A deletion that fails is an excuse.
LEMMA DeleteFailsPreserves ==
  ASSUME JInv, DeleteFails
  PROVE  JInv'
<1>1. TypeOK /\ AccountOK /\ OwedOK
  BY DEF JInv
<1>2. /\ pc = "delete" /\ list # <<>> /\ list' = Tail(list) /\ excused' = TRUE
      /\ UNCHANGED <<pc, kind, page, owed, completed, account, age, attached, deletes>>
  BY DEF DeleteFails, cloud
<1>3. Tail(list) \in Seq(Item)
  BY <1>1, <1>2, TailFacts
<1>4. TypeOK'
  BY <1>1, <1>2, <1>3 DEF TypeOK, Item
<1>5. AccountOK'
  BY <1>1, <1>2 DEF AccountOK, Present
<1>6. OwedOK'
  BY <1>1, <1>2 DEF OwedOK
<1> QED
  BY <1>2, <1>4, <1>5, <1>6, TailStep

\* When a list has been gone through, nothing of its kind is owed any more.
LEMMA NextKindPreserves ==
  ASSUME JInv, NextKind
  PROVE  JInv'
<1>1. TypeOK /\ AccountOK /\ OwedOK /\ ProgramOK
  BY DEF JInv
<1>2. /\ pc = "delete" /\ list = <<>> /\ page = 1
      /\ UNCHANGED <<owed, excused, account, age, attached, deletes>>
  BY <1>1 DEF NextKind, Exit, ProgramOK, cloud
<1>3. ASSUME ~excused, NEW r \in owed
      PROVE  /\ r \in Resources /\ KindOf(r) \in Kinds
             /\ Rank(KindOf(r)) < Rank(kind) => age[r] = "gone"
             /\ KindOf(r) = kind => age[r] = "gone"
  <2>1. Tracked(r) /\ r \in Resources /\ KindOf(r) \in Kinds
    BY <1>1, <1>2, <1>3, KindOfType DEF JInv, TypeOK
  <2>2. ~Listed(r)
    BY <1>2 DEF Listed
  <2> QED
    BY <1>2, <2>1, <2>2 DEF Tracked
<1>4. AccountOK'
  BY <1>1, <1>2 DEF AccountOK, Present
<1>5. OwedOK'
  BY <1>1, <1>2 DEF OwedOK
<1>6. CASE /\ kind # "volume" /\ kind' = IF kind = "droplet" THEN "lb" ELSE "volume"
           /\ pc' = "list" /\ UNCHANGED <<page, list, completed>>
  <2>1. TypeOK'
    BY <1>1, <1>2, <1>6 DEF TypeOK, Kinds
  <2>2. ProgramOK' /\ CompletedMeansClean'
    BY <1>1, <1>2, <1>6 DEF ProgramOK, CompletedMeansClean
  <2>3. ASSUME ~excused, NEW r \in owed
        PROVE  Tracked(r)'
    <3>1. /\ r \in Resources /\ KindOf(r) \in Kinds /\ kind \in Kinds
          /\ Rank(KindOf(r)) < Rank(kind) => age[r] = "gone"
          /\ KindOf(r) = kind => age[r] = "gone"
      BY <1>1, <1>3, <2>3 DEF TypeOK
    <3>2. Rank(KindOf(r)) < Rank(kind') => Rank(KindOf(r)) < Rank(kind) \/ KindOf(r) = kind
      BY <1>6, <3>1, RankFacts DEF Kinds
    <3>3. ASSUME KindOf(r) = kind', age[r] # "gone"
          PROVE  Ahead(r)'
      <4>1. PICK i \in 1..Len(account[KindOf(r)]) : account[KindOf(r)][i] = r
        BY <1>1, <3>1, <3>3 DEF AccountOK, OwedOK, Present
      <4>2. (page - 1) * PageSize = 0
        BY <1>2, JanitorAssumption
      <4> QED
        BY <1>2, <1>6, <3>3, <4>1, <4>2 DEF Ahead
    <3> QED
      BY <1>2, <1>6, <3>1, <3>2, <3>3 DEF Tracked
  <2> QED
    BY <1>2, <1>4, <1>5, <1>6, <2>1, <2>2, <2>3 DEF JInv
<1>7. CASE kind = "volume" /\ Exit(TRUE)
  <2>1. /\ pc' = "idle" /\ kind' = "droplet" /\ page' = 1 /\ list' = <<>> /\ completed' = TRUE
    BY <1>7 DEF Exit
  <2>2. TypeOK'
    BY <1>1, <1>2, <2>1 DEF TypeOK, Kinds
  <2>3. ProgramOK'
    BY <2>1 DEF ProgramOK
  <2>4. ASSUME ~excused, NEW r \in owed
        PROVE  age[r] = "gone"
    <3>1. KindOf(r) = kind \/ Rank(KindOf(r)) < Rank(kind)
      BY <1>3, <1>7, <2>4, RankFacts DEF Kinds
    <3> QED
      BY <1>3, <2>4, <3>1
  <2>5. CompletedMeansClean'
    BY <1>2, <2>4 DEF CompletedMeansClean
  <2> QED
    BY <1>4, <1>5, <2>1, <2>2, <2>3, <2>5 DEF JInv
<1> QED
  BY <1>6, <1>7, Zenon DEF NextKind

-----------------------------------------------------------------------------
(* The theorems.                                                           *)

\* The account is empty and the program does not run.
LEMMA InitJInv ==
  ASSUME Init
  PROVE  JInv
<1>1. /\ account = [k \in Kinds |-> <<>>] /\ age = [r \in Resources |-> "unborn"]
      /\ attached = {} /\ pc = "idle" /\ kind = "droplet" /\ page = 1 /\ list = <<>>
      /\ owed = {} /\ excused = FALSE /\ completed = FALSE /\ deletes = 0
  BY DEF Init
<1>2. \A k \in Kinds : account[k] = <<>> /\ Len(account[k]) = 0
  BY <1>1
<1>3. /\ <<>> \in Seq(Resources) /\ list \in Seq(Item) /\ kind \in Kinds
      /\ page \in Nat \ {0} /\ deletes \in 0..MaxDeletes
  BY <1>1, JanitorAssumption DEF Kinds
<1>4. account \in [Kinds -> Seq(Resources)]
  BY <1>1, <1>3
<1>5. TypeOK
  BY <1>1, <1>3, <1>4, Zenon DEF TypeOK, Item
<1>6. AccountOK
  BY <1>1, <1>2 DEF AccountOK, Present
<1>7. OwedOK /\ ProgramOK /\ CompletedMeansClean
  BY <1>1 DEF OwedOK, ProgramOK, CompletedMeansClean
<1> QED
  BY <1>1, <1>5, <1>6, <1>7 DEF JInv

\* What was due when a run of the janitor started is ahead of it, listed or
\* gone, whatever the tests create meanwhile (main of do-janitor).
THEOREM WhatIsDueIsTracked == Spec => []JInv
<1>1. Init => JInv
  BY InitJInv
<1>2. JInv /\ [Next]_vars => JInv'
  <2> SUFFICES ASSUME JInv, [Next]_vars
               PROVE  JInv'
    OBVIOUS
  <2>1. CASE UNCHANGED vars
    BY <2>1 DEF vars, JInv, TypeOK, AccountOK, Present, OwedOK, ProgramOK, Tracked, Listed,
                Ahead, CompletedMeansClean
  <2>2. CASE Program
    BY <2>2, StartPreserves, ListPagePreserves, ExitPreserves, SkipPreserves, DeletePreserves,
       DeleteFailsPreserves, NextKindPreserves, Zenon DEF Program, ListFails, ParseFails
  <2>3. CASE Tests
    BY <2>3, CreatePreserves, AgePreserves, DetachPreserves, TestDeletesPreserves DEF Tests
  <2> QED
    BY <2>1, <2>2, <2>3 DEF Next
<1> QED
  BY <1>1, <1>2, PTL DEF Spec

\* The types of the variables (package main of hack/do-janitor).
THEOREM JanitorTypes == Spec => []TypeOK
<1>1. JInv => TypeOK
  BY DEF JInv
<1> QED
  BY <1>1, WhatIsDueIsTracked, PTL

\* For every number of resources and every size of the pages: a run of the
\* janitor that comes to its end with no excuse has deleted all that was due
\* when it started (dropletList, lbList, volumeList and main).
THEOREM CompletedRunsAreClean == Spec => []CompletedMeansClean
<1>1. JInv => CompletedMeansClean
  BY DEF JInv
<1> QED
  BY <1>1, WhatIsDueIsTracked, PTL
=============================================================================
