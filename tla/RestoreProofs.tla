---------------------------- MODULE RestoreProofs ----------------------------
(***************************************************************************)
(* Machine-checked proofs about Restore, for files of any jobs in any      *)
(* order, any store to restore into and any number of deletions and        *)
(* failures meanwhile.                                                     *)
(***************************************************************************)
EXTENDS Restore, StoreOpsProofs

\* Zenon checks every step that does not name SMT.
USE Zenon

-----------------------------------------------------------------------------
(* Sequences without repetitions. *)

\* What the elements of a sequence are.
LEMMA RangeIs ==
  ASSUME NEW S, NEW q \in Seq(S)
  PROVE  /\ Len(q) \in Nat /\ DOMAIN q = 1..Len(q)
         /\ \A x : x \in Range(q) <=> \E i \in 1..Len(q) : x = q[i]
         /\ Range(q) \subseteq S
<1>1. Len(q) \in Nat /\ DOMAIN q = 1..Len(q) /\ \A i \in 1..Len(q) : q[i] \in S
  BY SMT
<1> QED
  BY <1>1 DEF Range

\* A sequence without the element at a place.
Without(q, i) == SubSeq(q, 1, i - 1) \o SubSeq(q, i + 1, Len(q))

\* Leaving out the element at a place.
LEMMA RemovedIs ==
  ASSUME NEW S, NEW q \in Seq(S), NEW i \in 1..Len(q)
  PROVE  /\ Without(q, i) \in Seq(S) /\ Len(Without(q, i)) = Len(q) - 1
         /\ \A j \in 1..(Len(q) - 1) : Without(q, i)[j] = IF j < i THEN q[j] ELSE q[j + 1]
<1> DEFINE a == SubSeq(q, 1, i - 1)
           b == SubSeq(q, i + 1, Len(q))
<1>1. Len(q) \in Nat /\ i \in Nat
  BY SMT
<1>2. a \in Seq(S) /\ Len(a) = i - 1 /\ \A j \in 1..(i - 1) : a[j] = q[j]
  BY SMT, <1>1
<1>3. b \in Seq(S) /\ Len(b) = Len(q) - i /\ \A j \in 1..(Len(q) - i) : b[j] = q[i + j]
  BY SMT, <1>1
<1> HIDE DEF a, b
<1>4. a \o b \in Seq(S) /\ Len(a \o b) = Len(a) + Len(b)
  <2>1. a \in Seq(S) /\ b \in Seq(S)
    BY <1>2, <1>3
  <2> QED
    BY SMT, <2>1
<1>5. ASSUME NEW j \in 1..(Len(q) - 1) PROVE (a \o b)[j] = IF j < i THEN q[j] ELSE q[j + 1]
  <2>1. (a \o b)[j] = IF j <= Len(a) THEN a[j] ELSE b[j - Len(a)]
    BY SMT, <1>1, <1>2, <1>3
  <2>2. CASE j < i
    BY SMT, <1>1, <1>2, <2>1, <2>2
  <2>3. CASE ~(j < i)
    <3>1. j - (i - 1) \in 1..(Len(q) - i) /\ i + (j - (i - 1)) = j + 1
      BY SMT, <1>1, <2>3
    <3>2. b[j - (i - 1)] = q[j + 1]
      BY <1>3, <3>1
    <3>3. (a \o b)[j] = b[j - (i - 1)]
      BY SMT, <1>1, <1>2, <2>1, <2>3
    <3> QED
      BY <2>3, <3>2, <3>3
  <2> QED
    BY <2>2, <2>3
<1>6. Len(a) + Len(b) = Len(q) - 1
  BY SMT, <1>1, <1>2, <1>3
<1> QED
  BY <1>4, <1>5, <1>6 DEF Without, a, b

\* Leaving out an element of a sequence without repetitions.
LEMMA RemovedRange ==
  ASSUME NEW S, NEW q \in Seq(S), IsInjective(q), NEW i \in 1..Len(q)
  PROVE  IsInjective(Without(q, i)) /\ Range(Without(q, i)) = Range(q) \ {q[i]}
<1> DEFINE r == Without(q, i)
<1>1. /\ r \in Seq(S) /\ Len(r) = Len(q) - 1
      /\ \A j \in 1..(Len(q) - 1) : r[j] = IF j < i THEN q[j] ELSE q[j + 1]
  BY RemovedIs
<1> HIDE DEF r
<1>2. Len(q) \in Nat /\ DOMAIN q = 1..Len(q) /\ DOMAIN r = 1..(Len(q) - 1)
  BY SMT, <1>1
<1>3. \A j, k \in 1..Len(q) : q[j] = q[k] => j = k
  BY <1>2 DEF IsInjective
<1>4. \A j, k \in 1..(Len(q) - 1) : r[j] = r[k] => j = k
  BY SMT, <1>1, <1>2, <1>3
<1>5. \A j \in 1..(Len(q) - 1) : \E k \in 1..Len(q) : r[j] = q[k] /\ k # i
  BY SMT, <1>1, <1>2
<1>6. \A k \in 1..Len(q) : k # i => \E j \in 1..(Len(q) - 1) : r[j] = q[k]
  <2> SUFFICES ASSUME NEW k \in 1..Len(q), k # i PROVE \E j \in 1..(Len(q) - 1) : r[j] = q[k]
    OBVIOUS
  <2>1. CASE k < i
    <3>1. k \in 1..(Len(q) - 1)
      BY SMT, <1>2, <2>1
    <3> QED
      BY <1>1, <2>1, <3>1
  <2>2. CASE ~(k < i)
    <3>1. k - 1 \in 1..(Len(q) - 1) /\ ~(k - 1 < i) /\ (k - 1) + 1 = k
      BY SMT, <1>2, <2>2
    <3>2. r[k - 1] = q[k]
      BY <1>1, <3>1
    <3> QED
      BY <3>1, <3>2
  <2> QED
    BY <2>1, <2>2
<1>7. ASSUME NEW x \in Range(r) PROVE x \in Range(q) /\ x # q[i]
  <2>1. PICK j \in 1..(Len(q) - 1) : x = r[j]
    BY <1>2 DEF Range
  <2>2. PICK k \in 1..Len(q) : r[j] = q[k] /\ k # i
    BY <1>5
  <2> QED
    BY <1>2, <1>3, <2>1, <2>2 DEF Range
<1>8. ASSUME NEW x \in Range(q), x # q[i] PROVE x \in Range(r)
  <2>1. PICK k \in 1..Len(q) : x = q[k]
    BY <1>2 DEF Range
  <2>2. PICK j \in 1..(Len(q) - 1) : r[j] = q[k]
    BY <1>6, <1>8, <2>1
  <2> QED
    BY <1>2, <2>1, <2>2 DEF Range
<1> QED
  BY <1>2, <1>4, <1>7, <1>8 DEF IsInjective, r

\* Putting a new element at the end of a sequence without repetitions.
LEMMA AppendedRange ==
  ASSUME NEW S, NEW q \in Seq(S), IsInjective(q), NEW x \in S, x \notin Range(q)
  PROVE  /\ Append(q, x) \in Seq(S) /\ IsInjective(Append(q, x))
         /\ Range(Append(q, x)) = Range(q) \cup {x}
<1> DEFINE r == Append(q, x)
<1>1. /\ r \in Seq(S) /\ Len(q) \in Nat /\ Len(r) = Len(q) + 1 /\ r[Len(q) + 1] = x
      /\ \A j \in 1..Len(q) : r[j] = q[j]
  BY SMT
<1> HIDE DEF r
<1>2. DOMAIN q = 1..Len(q) /\ DOMAIN r = 1..(Len(q) + 1)
  BY SMT, <1>1
<1>3. \A j, k \in 1..Len(q) : q[j] = q[k] => j = k
  BY <1>2 DEF IsInjective
<1>4. \A j \in 1..Len(q) : q[j] # x
  BY <1>2 DEF Range
<1>5. \A j \in 1..(Len(q) + 1) : j = Len(q) + 1 \/ j \in 1..Len(q)
  BY SMT, <1>1
<1>6. \A j \in 1..Len(q) : j \in 1..(Len(q) + 1)
  BY SMT, <1>1
<1>7. Len(q) + 1 \in 1..(Len(q) + 1)
  BY SMT, <1>1
<1>8. \A j, k \in 1..(Len(q) + 1) : r[j] = r[k] => j = k
  <2> SUFFICES ASSUME NEW j \in 1..(Len(q) + 1), NEW k \in 1..(Len(q) + 1), r[j] = r[k]
               PROVE  j = k
    OBVIOUS
  <2>1. CASE j \in 1..Len(q) /\ k \in 1..Len(q)
    BY <1>1, <1>3, <2>1
  <2>2. CASE j = Len(q) + 1 /\ k \in 1..Len(q)
    BY <1>1, <1>4, <2>2
  <2>3. CASE j \in 1..Len(q) /\ k = Len(q) + 1
    BY <1>1, <1>4, <2>3
  <2> QED
    BY <1>5, <2>1, <2>2, <2>3
<1>9. \A y : y \in Range(r) <=> y \in Range(q) \/ y = x
  BY <1>1, <1>2, <1>5, <1>6, <1>7 DEF Range
<1> QED
  BY <1>1, <1>2, <1>8, <1>9 DEF IsInjective, r

\* Leaving out the first element of a sequence without repetitions.
LEMMA TailRange ==
  ASSUME NEW S, NEW q \in Seq(S), IsInjective(q), q # <<>>
  PROVE  /\ Head(q) \in S /\ Head(q) \in Range(q)
         /\ Tail(q) \in Seq(S) /\ IsInjective(Tail(q)) /\ Range(Tail(q)) = Range(q) \ {Head(q)}
<1> DEFINE r == Tail(q)
<1>1. /\ r \in Seq(S) /\ Len(r) = Len(q) - 1 /\ Len(q) \in Nat /\ 1 \in 1..Len(q)
      /\ Head(q) = q[1] /\ \A j \in 1..(Len(q) - 1) : r[j] = q[j + 1]
  BY SMT
<1> HIDE DEF r
<1>2. DOMAIN q = 1..Len(q) /\ DOMAIN r = 1..(Len(q) - 1) /\ \A j \in 1..Len(q) : q[j] \in S
  BY SMT, <1>1
<1>3. \A j, k \in 1..Len(q) : q[j] = q[k] => j = k
  BY <1>2 DEF IsInjective
<1>4. \A j \in 1..(Len(q) - 1) : j + 1 \in 1..Len(q) /\ j + 1 # 1
  BY SMT, <1>1
<1>5. \A j, k \in 1..(Len(q) - 1) : r[j] = r[k] => j = k
  <2> SUFFICES ASSUME NEW j \in 1..(Len(q) - 1), NEW k \in 1..(Len(q) - 1), r[j] = r[k]
               PROVE  j = k
    OBVIOUS
  <2>1. q[j + 1] = q[k + 1] /\ j + 1 \in 1..Len(q) /\ k + 1 \in 1..Len(q)
    BY <1>1, <1>4
  <2>2. j + 1 = k + 1
    BY <1>3, <2>1
  <2> QED
    BY SMT, <2>2
<1>6. ASSUME NEW k \in 1..Len(q), k # 1 PROVE \E j \in 1..(Len(q) - 1) : r[j] = q[k]
  <2>1. k - 1 \in 1..(Len(q) - 1) /\ (k - 1) + 1 = k
    BY SMT, <1>1, <1>6
  <2>2. r[k - 1] = q[k]
    BY <1>1, <2>1
  <2> QED
    BY <2>1, <2>2
<1>7. ASSUME NEW x \in Range(r) PROVE x \in Range(q) /\ x # q[1]
  <2>1. PICK j \in 1..(Len(q) - 1) : x = r[j]
    BY <1>2 DEF Range
  <2>2. x = q[j + 1] /\ j + 1 \in 1..Len(q) /\ j + 1 # 1
    BY <1>1, <1>4, <2>1
  <2> QED
    BY <1>1, <1>2, <1>3, <2>2 DEF Range
<1>8. ASSUME NEW x \in Range(q), x # q[1] PROVE x \in Range(r)
  <2>1. PICK k \in 1..Len(q) : x = q[k]
    BY <1>2 DEF Range
  <2>2. PICK j \in 1..(Len(q) - 1) : r[j] = q[k]
    BY <1>6, <1>8, <2>1
  <2> QED
    BY <1>2, <2>1, <2>2 DEF Range
<1>9. IsInjective(r)
  BY <1>2, <1>5 DEF IsInjective
<1>10. q[1] \in S /\ q[1] \in Range(q)
  BY <1>1, <1>2 DEF Range
<1> QED
  BY <1>1, <1>7, <1>8, <1>9, <1>10 DEF r

\* Joining two sequences without repetitions that have no element in common.
LEMMA JoinedRange ==
  ASSUME NEW S, NEW a \in Seq(S), NEW b \in Seq(S), IsInjective(a), IsInjective(b),
         \A x \in Range(a) : x \notin Range(b)
  PROVE  a \o b \in Seq(S) /\ IsInjective(a \o b) /\ Range(a \o b) = Range(a) \cup Range(b)
<1> DEFINE r == a \o b
<1>1. /\ r \in Seq(S) /\ Len(a) \in Nat /\ Len(b) \in Nat /\ Len(r) = Len(a) + Len(b)
      /\ \A j \in 1..(Len(a) + Len(b)) : r[j] = IF j <= Len(a) THEN a[j] ELSE b[j - Len(a)]
  BY SMT
<1> HIDE DEF r
<1>2. DOMAIN a = 1..Len(a) /\ DOMAIN b = 1..Len(b) /\ DOMAIN r = 1..(Len(a) + Len(b))
  BY SMT, <1>1
<1>3. /\ \A j, k \in 1..Len(a) : a[j] = a[k] => j = k
      /\ \A j, k \in 1..Len(b) : b[j] = b[k] => j = k
  BY <1>2 DEF IsInjective
<1>4. \A j \in 1..Len(a), k \in 1..Len(b) : a[j] # b[k]
  BY <1>2 DEF Range
<1>5. \A j \in 1..Len(a) : j \in 1..(Len(a) + Len(b)) /\ r[j] = a[j]
  BY SMT, <1>1
<1>6. \A k \in 1..Len(b) : Len(a) + k \in 1..(Len(a) + Len(b)) /\ r[Len(a) + k] = b[k]
  <2> TAKE k \in 1..Len(b)
  <2>1. Len(a) + k \in 1..(Len(a) + Len(b)) /\ ~(Len(a) + k <= Len(a)) /\ (Len(a) + k) - Len(a) = k
    BY SMT, <1>1
  <2> QED
    BY <1>1, <2>1
<1>7. \A j \in 1..(Len(a) + Len(b)) : j \in 1..Len(a) \/ \E k \in 1..Len(b) : j = Len(a) + k
  <2> TAKE j \in 1..(Len(a) + Len(b))
  <2>1. j \in 1..Len(a) \/ (j - Len(a) \in 1..Len(b) /\ j = Len(a) + (j - Len(a)))
    BY SMT, <1>1
  <2> QED
    BY <2>1
<1>8. \A j, k \in 1..(Len(a) + Len(b)) : r[j] = r[k] => j = k
  <2> SUFFICES ASSUME NEW j \in 1..(Len(a) + Len(b)), NEW k \in 1..(Len(a) + Len(b)), r[j] = r[k]
               PROVE  j = k
    OBVIOUS
  <2>1. CASE j \in 1..Len(a) /\ k \in 1..Len(a)
    BY <1>3, <1>5, <2>1
  <2>2. ASSUME j \in 1..Len(a), NEW l \in 1..Len(b), k = Len(a) + l PROVE FALSE
    BY <1>4, <1>5, <1>6, <2>2
  <2>3. ASSUME k \in 1..Len(a), NEW l \in 1..Len(b), j = Len(a) + l PROVE FALSE
    <3>1. r[j] = b[l] /\ r[k] = a[k] /\ a[k] # b[l]
      BY <1>4, <1>5, <1>6, <2>3
    <3> QED
      BY <3>1
  <2>4. ASSUME NEW l \in 1..Len(b), j = Len(a) + l, NEW m \in 1..Len(b), k = Len(a) + m PROVE j = k
    <3>1. b[l] = b[m]
      BY <1>6, <2>4
    <3> QED
      BY <1>3, <2>4, <3>1
  <2> QED
    BY <1>7, <2>1, <2>2, <2>3, <2>4
<1>9. \A x : x \in Range(r) <=> x \in Range(a) \/ x \in Range(b)
  <2>1. ASSUME NEW x \in Range(r) PROVE x \in Range(a) \/ x \in Range(b)
    <3>1. PICK j \in 1..(Len(a) + Len(b)) : x = r[j]
      BY <1>2 DEF Range
    <3>2. CASE j \in 1..Len(a)
      BY <1>2, <1>5, <3>1, <3>2 DEF Range
    <3>3. ASSUME NEW k \in 1..Len(b), j = Len(a) + k PROVE x \in Range(b)
      BY <1>2, <1>6, <3>1, <3>3 DEF Range
    <3> QED
      BY <1>7, <3>2, <3>3
  <2>2. ASSUME NEW x \in Range(a) PROVE x \in Range(r)
    <3>1. PICK j \in 1..Len(a) : x = a[j]
      BY <1>2 DEF Range
    <3>2. j \in DOMAIN r /\ x = r[j]
      BY <1>2, <1>5, <3>1
    <3> QED
      BY <3>2 DEF Range
  <2>3. ASSUME NEW x \in Range(b) PROVE x \in Range(r)
    <3>1. PICK k \in 1..Len(b) : x = b[k]
      BY <1>2 DEF Range
    <3>2. Len(a) + k \in DOMAIN r /\ x = r[Len(a) + k]
      BY <1>2, <1>6, <3>1
    <3> QED
      BY <3>2 DEF Range
  <2> QED
    BY <2>1, <2>2, <2>3
<1> QED
  BY <1>1, <1>2, <1>8, <1>9 DEF IsInjective, r

-----------------------------------------------------------------------------
(* The jobs below a job. *)

\* A set that has, with a job, its children.
ClosedBelow(ch, set) == \A p \in set : Range(ch[p]) \subseteq set

\* Below, for any children.
Under(ch, n) == {m \in Names : \A set \in SUBSET Names : n \in set /\ ClosedBelow(ch, set) => m \in set}

\* A job is below itself, and the children of a job below it are below it.
LEMMA UnderClosed ==
  ASSUME NEW ch, \A p \in Names : Range(ch[p]) \subseteq Names, NEW n \in Names
  PROVE  Under(ch, n) \subseteq Names /\ n \in Under(ch, n) /\ ClosedBelow(ch, Under(ch, n))
<1>1. Under(ch, n) \subseteq Names /\ n \in Under(ch, n)
  BY DEF Under
<1>2. ASSUME NEW p \in Under(ch, n), NEW c \in Range(ch[p]) PROVE c \in Under(ch, n)
  <2>1. p \in Names /\ c \in Names
    BY <1>1
  <2>2. ASSUME NEW set \in SUBSET Names, n \in set, ClosedBelow(ch, set) PROVE c \in set
    <3>1. p \in set
      BY <2>2 DEF Under
    <3> QED
      BY <2>2, <3>1 DEF ClosedBelow
  <2> QED
    BY <2>1, <2>2 DEF Under
<1> QED
  BY <1>1, <1>2 DEF ClosedBelow

\* The jobs below a job are in every set that has it and is closed.
LEMMA UnderLeast ==
  ASSUME NEW ch, NEW n, NEW set \in SUBSET Names, n \in set, ClosedBelow(ch, set)
  PROVE  Under(ch, n) \subseteq set
  BY DEF Under

\* With more children, more jobs are below.
LEMMA UnderGrows ==
  ASSUME NEW ch, NEW dh, \A p \in Names : Range(ch[p]) \subseteq Range(dh[p]), NEW n
  PROVE  Under(ch, n) \subseteq Under(dh, n)
<1>1. ASSUME NEW set \in SUBSET Names, ClosedBelow(dh, set) PROVE ClosedBelow(ch, set)
  BY <1>1 DEF ClosedBelow
<1> QED
  BY <1>1 DEF Under

-----------------------------------------------------------------------------
(* The file, the store it finds, and the types. *)

Results == {"none", "success", "fail"}

\* The file and the store before the restore.  Every job in the file has a
\* schedule, and the links between the stored jobs are consistent.
FileInv ==
  /\ listing \in Seq(Names) /\ IsInjective(listing)
  /\ file \in [Names -> Job]
  /\ \A n \in Listed : file[n].schedule # NoSchedule
  /\ \A n \in Names \ Listed : file[n] = ZeroJob
  /\ before \in [Names -> Job] /\ Linked(before)

\* The variables are well formed.
TypeOK ==
  /\ FileInv
  /\ jobs \in [Names -> Job]
  /\ phase \in {"tree", "set", "done", "rejected"}
  /\ top \in Seq(Listed) /\ IsInjective(top)
  /\ at \in 0..Len(top)
  /\ children \in [Names -> Seq(Listed)]
  /\ todo \in Seq(Listed)
  /\ result \in [Names -> Results]
  /\ deletes \in Nat /\ failures \in Nat

\* The parent that the file names.
Parent(n) == file[n].parent

\* The tree so far: the first `at' jobs at the top are roots; every other job
\* of the file is at the top or once among its parent's children; and every
\* one is below a job at the top.
TreeInv ==
  /\ \A i \in 1..at : Parent(top[i]) = NoName
  /\ \A p \in Names : IsInjective(children[p])
  /\ \A p \in Names : \A c \in Range(children[p]) : Parent(c) = p /\ p \in Listed /\ c \notin Range(top)
  /\ \A n \in Listed : n \in Range(top) \/ (Parent(n) \in Names /\ n \in Range(children[Parent(n)]))
  /\ \A n \in Listed : \E m \in Range(top) : n \in Below(m)
  /\ phase \in {"set", "done"} => at = Len(top)
  /\ phase = "rejected" => ~IsForest

\* The jobs sent so far: those waiting have no result; a job was sent or waits
\* exactly if it is a root or its parent was set.
SetInv ==
  /\ IsInjective(todo)
  /\ \A n \in Range(todo) : result[n] = "none"
  /\ \A n \in Names \ Listed : result[n] = "none"
  /\ phase \in {"tree", "rejected"} => todo = <<>> /\ \A n \in Names : result[n] = "none"
  /\ phase = "done" => todo = <<>>
  /\ phase \in {"set", "done"} => \A n \in Listed :
       IF result[n] # "none" \/ n \in Range(todo)
         THEN Parent(n) = NoName \/ (Parent(n) \in Names /\ result[Parent(n)] = "success")
         ELSE Parent(n) \in Names /\ result[Parent(n)] # "success"

\* Below, in terms of the lemmas.
LEMMA BelowIs ==
  ASSUME NEW n
  PROVE  Below(n) = Under(children, n)
  BY DEF Below, Under, ClosedBelow

\* The jobs of the file and the parents they name.
LEMMA ListedNames ==
  ASSUME FileInv
  PROVE  Listed \subseteq Names /\ \A n \in Names : Parent(n) \in Names \cup {NoName}
<1>1. Listed \subseteq Names
  BY RangeIs DEF FileInv, Listed
<1> QED
  BY <1>1 DEF FileInv, Parent, Job

\* A set that has, with a job of the file, its parent.
ClosedAbove(set) == \A c \in set \cap Listed : Parent(c) \in set

\* Ancestors, in terms of the lemmas: the least such set.
LEMMA AncestorsIs ==
  ASSUME FileInv, NEW n \in Names
  PROVE  /\ n \in Ancestors(n) /\ Ancestors(n) \subseteq Names \cup {NoName}
         /\ ClosedAbove(Ancestors(n))
         /\ \A set \in SUBSET (Names \cup {NoName}) :
              n \in set /\ ClosedAbove(set) => Ancestors(n) \subseteq set
<1>1. Ancestors(n) = {m \in Names \cup {NoName} : \A set \in SUBSET (Names \cup {NoName}) :
                        n \in set /\ ClosedAbove(set) => m \in set}
  BY DEF Ancestors, ClosedAbove, Parent
<1>2. n \in Ancestors(n) /\ Ancestors(n) \subseteq Names \cup {NoName}
  BY <1>1
<1>3. ASSUME NEW c \in Ancestors(n) \cap Listed PROVE Parent(c) \in Ancestors(n)
  <2>1. Parent(c) \in Names \cup {NoName}
    BY <1>3, ListedNames
  <2>2. ASSUME NEW set \in SUBSET (Names \cup {NoName}), n \in set, ClosedAbove(set)
        PROVE  Parent(c) \in set
    <3>1. c \in set
      BY <1>1, <1>3, <2>2
    <3> QED
      BY <1>3, <2>2, <3>1 DEF ClosedAbove
  <2> QED
    BY <1>1, <2>1, <2>2
<1>4. ASSUME NEW set \in SUBSET (Names \cup {NoName}), n \in set, ClosedAbove(set)
      PROVE  Ancestors(n) \subseteq set
  BY <1>1, <1>4
<1> QED
  BY <1>2, <1>3, <1>4 DEF ClosedAbove

\* A set of jobs that leads to no root shows that the file is no forest.
LEMMA NoForest ==
  ASSUME FileInv, NEW n \in Listed, NEW set \in SUBSET Names, n \in set, ClosedAbove(set)
  PROVE  ~IsForest
<1>1. n \in Names /\ NoName \notin Names
  BY ListedNames, StoreAssumption
<1>2. set \in SUBSET (Names \cup {NoName})
  OBVIOUS
<1>3. Ancestors(n) \subseteq set
  BY <1>1, <1>2, AncestorsIs
<1> QED
  BY <1>1, <1>3 DEF IsForest

\* If all jobs at the top are roots the file is a forest: the jobs that do not
\* lead to a root, with a job, have its children, so they are all or none of
\* those below a root.
LEMMA TreeIsForest ==
  ASSUME TypeOK, TreeInv, at = Len(top)
  PROVE  IsForest
<1>1. FileInv /\ Listed \subseteq Names
  BY ListedNames DEF TypeOK
<1> SUFFICES ASSUME NEW n \in Listed PROVE NoName \in Ancestors(n)
  BY DEF IsForest
<1>2. PICK m \in Range(top) : n \in Below(m)
  BY DEF TreeInv
<1>3. m \in Listed /\ Parent(m) = NoName
  <2>1. Range(top) \subseteq Listed /\ \E i \in 1..Len(top) : m = top[i]
    BY RangeIs DEF TypeOK
  <2> QED
    BY <2>1 DEF TreeInv
<1> DEFINE above == Ancestors(n)
           rest == Names \ above
<1>4. /\ n \in above /\ ClosedAbove(above)
  BY <1>1, AncestorsIs
<1> HIDE DEF above
<1>5. ASSUME NoName \notin above PROVE FALSE
  <2>1. m \in rest
    BY <1>1, <1>3, <1>4, <1>5 DEF ClosedAbove
  <2>2. ClosedBelow(children, rest)
    <3> SUFFICES ASSUME NEW p \in rest, NEW c \in Range(children[p]) PROVE c \in rest
      BY DEF ClosedBelow
    <3>1. c \in Listed /\ Parent(c) = p
      <4>1. p \in Names /\ children[p] \in Seq(Listed)
        BY DEF TypeOK
      <4>2. c \in Listed
        BY <4>1, RangeIs
      <4> QED
        BY <4>1, <4>2 DEF TreeInv
    <3> QED
      BY <1>1, <1>4, <3>1 DEF ClosedAbove
  <2>3. Under(children, m) \subseteq rest
    BY <2>1, <2>2, UnderLeast
  <2> QED
    BY <1>2, <1>4, <2>3, BelowIs
<1> QED
  BY <1>5 DEF above

-----------------------------------------------------------------------------
(* generateJobTree *)

\* A job that moves below its parent leaves a tree.
LEMMA AttachTree ==
  ASSUME TypeOK, TreeInv, phase = "tree", at < Len(top), UNCHANGED fileVars,
         Attach(top[at + 1])
  PROVE  /\ top' \in Seq(Listed) /\ IsInjective(top') /\ at' \in 0..Len(top')
         /\ children' \in [Names -> Seq(Listed)]
         /\ TreeInv'
<1> DEFINE n == top[at + 1]
           q == Parent(n)
<1>1. /\ FileInv /\ Listed \subseteq Names /\ at \in Nat /\ Len(top) \in Nat
      /\ top \in Seq(Listed) /\ IsInjective(top) /\ at + 1 \in 1..Len(top)
  <2>1. FileInv /\ Listed \subseteq Names /\ top \in Seq(Listed) /\ IsInjective(top) /\ at \in 0..Len(top)
    BY ListedNames DEF TypeOK
  <2>2. Len(top) \in Nat
    BY <2>1, RangeIs
  <2> QED
    BY SMT, <2>1, <2>2
<1>2. Range(top) \subseteq Listed /\ n \in Range(top)
  BY <1>1, RangeIs
<1>3. /\ top' = Without(top, at + 1) /\ at' = at /\ phase' = "tree"
      /\ children' = [children EXCEPT ![q] = Append(children[q], n)] /\ q # NoName
      /\ Validate(n, file[n])
  <2>1. (at + 1) - 1 = at /\ (at + 1) + 1 = at + 2
    BY SMT, <1>1
  <2> QED
    BY <2>1 DEF Attach, Parent, Without
<1>4. PICK m \in Range(top) \ {n} : q \in Below(m)
  BY DEF Attach, Found, Parent
<1>5. \A p \in Names : children[p] \in Seq(Listed) /\ Range(children[p]) \subseteq Listed
  BY RangeIs DEF TypeOK
<1>6. q \in Names /\ q \in Listed
  <2>1. ClosedBelow(children, Listed)
    BY <1>1, <1>5 DEF ClosedBelow
  <2>2. m \in Listed
    BY <1>2
  <2>3. Under(children, m) \subseteq Listed
    BY <1>1, <2>1, <2>2, UnderLeast
  <2> QED
    BY <1>1, <1>4, <2>3, BelowIs
<1>7. n \notin Range(children[q])
  BY <1>2, <1>6 DEF TreeInv
<1>8. /\ top' \in Seq(Listed) /\ Len(top') = Len(top) - 1
      /\ \A j \in 1..(Len(top) - 1) : top'[j] = IF j < at + 1 THEN top[j] ELSE top[j + 1]
  BY <1>1, <1>3, RemovedIs
<1>9. IsInjective(top') /\ Range(top') = Range(top) \ {n}
  BY <1>1, <1>3, RemovedRange
<1>10. at' \in 0..Len(top')
  BY SMT, <1>1, <1>3, <1>8
<1> DEFINE list == Append(children[q], n)
<1>11. list \in Seq(Listed) /\ IsInjective(list) /\ Range(list) = Range(children[q]) \cup {n}
  <2>1. children[q] \in Seq(Listed) /\ IsInjective(children[q]) /\ n \in Listed
    BY <1>2, <1>5, <1>6 DEF TreeInv
  <2> DEFINE c == children[q]
  <2>2. c \in Seq(Listed) /\ IsInjective(c) /\ n \in Listed /\ n \notin Range(c)
    BY <1>7, <2>1
  <2> HIDE DEF q, n, c
  <2>3. /\ Append(c, n) \in Seq(Listed) /\ IsInjective(Append(c, n))
        /\ Range(Append(c, n)) = Range(c) \cup {n}
    BY SMT, <2>2, AppendedRange
  <2> QED
    BY <2>3 DEF c
<1>12. children' = [children EXCEPT ![q] = list]
  BY <1>3
<1> HIDE DEF list, q, n
<1>13. children \in [Names -> Seq(Listed)]
  BY DEF TypeOK
<1>14. children' \in [Names -> Seq(Listed)]
  BY <1>11, <1>12, <1>13
<1>15. children'[q] = list /\ \A p \in Names \ {q} : children'[p] = children[p]
  BY <1>6, <1>12, <1>13
<1>16. ASSUME NEW p \in Names
       PROVE  /\ IsInjective(children'[p]) /\ Range(children[p]) \subseteq Range(children'[p])
              /\ \A c \in Range(children'[p]) : c \in Range(children[p]) \/ (c = n /\ p = q)
  <2>1. CASE p = q
    BY <1>11, <1>15, <2>1
  <2>2. CASE p # q
    BY <1>15, <2>2 DEF TreeInv
  <2> QED
    BY <2>1, <2>2
<1>17. Listed' = Listed /\ \A c : Parent(c)' = Parent(c)
  BY DEF fileVars, Listed, Parent
<1>18. \A i \in 1..at : top'[i] = top[i]
  <2>1. \A i \in 1..at : i \in 1..(Len(top) - 1) /\ i < at + 1
    BY SMT, <1>1
  <2> QED
    BY <1>8, <2>1
<1>19. \A i \in 1..at' : file'[top'[i]].parent = NoName
  <2>1. \A i \in 1..at : file[top[i]].parent = NoName
    BY DEF TreeInv, Parent
  <2> QED
    BY <1>3, <1>18, <2>1 DEF fileVars
<1>20. \A p \in Names : \A c \in Range(children'[p]) :
         Parent(c) = p /\ p \in Listed /\ c \notin Range(top')
  <2> SUFFICES ASSUME NEW p \in Names, NEW c \in Range(children'[p])
               PROVE  Parent(c) = p /\ p \in Listed /\ c \notin Range(top')
    OBVIOUS
  <2>1. CASE c \in Range(children[p])
    BY <1>9, <2>1 DEF TreeInv
  <2>2. CASE c = n /\ p = q
    BY <1>6, <1>9, <2>2 DEF q
  <2> QED
    BY <1>16, <2>1, <2>2
<1>21. \A c \in Listed : c \in Range(top') \/ (Parent(c) \in Names /\ c \in Range(children'[Parent(c)]))
  <2> SUFFICES ASSUME NEW c \in Listed, c \notin Range(top')
               PROVE  Parent(c) \in Names /\ c \in Range(children'[Parent(c)])
    OBVIOUS
  <2>1. CASE c = n
    BY <1>6, <1>11, <1>15, <2>1 DEF q
  <2>2. CASE c # n
    <3>1. Parent(c) \in Names /\ c \in Range(children[Parent(c)])
      BY <1>9, <2>2 DEF TreeInv
    <3> QED
      BY <1>16, <3>1
  <2> QED
    BY <2>1, <2>2
<1>22. \A c \in Listed : \E t \in Range(top') : c \in Below(t)'
  <2> SUFFICES ASSUME NEW c \in Listed PROVE \E t \in Range(top') : c \in Under(children', t)
    BY DEF Below, Under, ClosedBelow
  <2>1. PICK t \in Range(top) : c \in Under(children, t)
    BY BelowIs DEF TreeInv
  <2>2. \A x : Under(children, x) \subseteq Under(children', x)
    BY <1>16, UnderGrows
  <2>3. CASE t # n
    BY <1>9, <2>1, <2>2, <2>3
  <2>4. CASE t = n
    <3>1. \A p \in Names : Range(children'[p]) \subseteq Names
      BY <1>1, <1>14, RangeIs
    <3>2. m \in Names /\ n \in Names
      BY <1>1, <1>2
    <3>3. q \in Under(children', m)
      BY <1>4, <2>2, BelowIs
    <3>4. ClosedBelow(children', Under(children', m)) /\ Under(children', m) \subseteq Names
      BY <3>1, <3>2, UnderClosed
    <3>5. n \in Under(children', m)
      BY <1>11, <1>15, <3>3, <3>4 DEF ClosedBelow
    <3>6. Under(children', n) \subseteq Under(children', m)
      BY <3>4, <3>5, UnderLeast
    <3> QED
      BY <1>4, <1>9, <2>1, <2>2, <2>4, <3>6
  <2> QED
    BY <2>3, <2>4
<1>23. TreeInv'
  <2>1. \A i \in 1..at' : Parent(top[i])' = NoName
    BY <1>19 DEF Parent
  <2>2. \A p \in Names : \A c \in Range(children'[p]) :
          Parent(c)' = p /\ p \in Listed' /\ c \notin Range(top')
    BY <1>17, <1>20
  <2>3. \A c \in Listed' : c \in Range(top') \/ (Parent(c)' \in Names /\ c \in Range(children[Parent(c)])')
    BY <1>17, <1>21
  <2>4. \A c \in Listed' : \E t \in Range(top') : c \in Below(t)'
    BY <1>17, <1>22
  <2>5. phase' \notin {"set", "done"} /\ phase' # "rejected"
    BY <1>3
  <2> QED
    BY <1>16, <2>1, <2>2, <2>3, <2>4, <2>5 DEF TreeInv
<1> QED
  BY <1>8, <1>9, <1>10, <1>14, <1>23

\* A root that stays at the top leaves a tree.
LEMMA KeepRootTree ==
  ASSUME TypeOK, TreeInv, phase = "tree", at < Len(top), UNCHANGED fileVars,
         KeepRoot(top[at + 1])
  PROVE  at' \in 0..Len(top') /\ TreeInv'
<1>1. /\ at' = at + 1 /\ phase' = phase /\ top' = top /\ children' = children
      /\ file' = file /\ listing' = listing /\ Parent(top[at + 1]) = NoName
  BY DEF KeepRoot, Parent, fileVars
<1>2. at \in Nat /\ Len(top) \in Nat
  BY SMT, RangeIs DEF TypeOK
<1>3. at' \in 0..Len(top') /\ \A i \in 1..at' : i = at + 1 \/ i \in 1..at
  BY SMT, <1>1, <1>2
<1>4. \A i \in 1..at' : Parent(top[i])' = NoName
  <2>1. \A i \in 1..at : file[top[i]].parent = NoName
    BY DEF TreeInv, Parent
  <2>2. file[top[at + 1]].parent = NoName
    BY <1>1 DEF Parent
  <2> QED
    BY <1>1, <1>3, <2>1, <2>2 DEF Parent
<1>5. Listed' = Listed /\ (\A c : Parent(c)' = Parent(c)) /\ \A t : Below(t)' = Below(t)
  BY <1>1 DEF Listed, Parent, Below
<1> QED
  BY <1>1, <1>3, <1>4, <1>5 DEF TreeInv

\* A job that is refused shows that the file is no forest: it names itself, or
\* a job the file does not list, or a job that is below it.
LEMMA RejectNoForest ==
  ASSUME TypeOK, TreeInv, at < Len(top), Reject(top[at + 1])
  PROVE  ~IsForest
<1> DEFINE n == top[at + 1]
<1>1. /\ FileInv /\ Listed \subseteq Names /\ at + 1 \in 1..Len(top) /\ top \in Seq(Listed)
  <2>1. FileInv /\ Listed \subseteq Names /\ top \in Seq(Listed) /\ at \in 0..Len(top)
    BY ListedNames DEF TypeOK
  <2>2. Len(top) \in Nat
    BY <2>1, RangeIs
  <2> QED
    BY SMT, <2>1, <2>2
<1>2. n \in Listed /\ n \in Names
  <2>1. Range(top) \subseteq Listed /\ n \in Range(top)
    BY <1>1, RangeIs
  <2> QED
    BY <1>1, <2>1
<1>3. ~Validate(n, file[n]) \/ (Parent(n) # NoName /\ ~Found(n))
  BY DEF Reject, Parent
<1>4. Parent(n) = n \/ (Parent(n) # NoName /\ ~Found(n))
  BY <1>1, <1>2, <1>3 DEF Validate, FileInv, Parent
<1> HIDE DEF n
<1>5. CASE Parent(n) = n
  <2>1. ClosedAbove({n}) /\ {n} \in SUBSET Names
    BY <1>2, <1>5 DEF ClosedAbove
  <2> QED
    BY <1>1, <1>2, <2>1, NoForest
<1>6. CASE Parent(n) # NoName /\ Parent(n) \notin Listed
  <2>1. Parent(n) \in Names
    BY <1>1, <1>2, <1>6, ListedNames
  <2>2. ClosedAbove({n, Parent(n)}) /\ {n, Parent(n)} \in SUBSET Names
    BY <1>2, <1>6, <2>1 DEF ClosedAbove
  <2> QED
    BY <1>1, <1>2, <2>2, NoForest
<1>7. CASE Parent(n) \in Listed /\ ~Found(n)
  <2>1. PICK m \in Range(top) : Parent(n) \in Below(m)
    BY <1>7 DEF TreeInv
  <2>2. m = n
    BY <1>7, <2>1 DEF Found, Parent
  <2> DEFINE set == Under(children, n)
             led == {q \in set : q = n \/ Parent(q) \in set}
  <2>3. Parent(n) \in set
    BY <2>1, <2>2, BelowIs
  <2>4. \A p \in Names : Range(children[p]) \subseteq Names
    BY <1>1, RangeIs DEF TypeOK
  <2>5. set \subseteq Names /\ n \in set /\ ClosedBelow(children, set)
    BY <1>2, <2>4, UnderClosed
  <2> HIDE DEF set
  <2>6. ClosedBelow(children, led) /\ n \in led /\ led \in SUBSET Names
    <3>1. ASSUME NEW p \in led, NEW c \in Range(children[p]) PROVE c \in led
      <4>1. p \in set /\ p \in Names /\ c \in set
        BY <2>5 DEF ClosedBelow
      <4>2. Parent(c) = p
        BY <4>1 DEF TreeInv
      <4> QED
        BY <4>1, <4>2
    <3> QED
      BY <2>5, <3>1 DEF ClosedBelow
  <2>7. set \subseteq led
    <3> HIDE DEF led
    <3> QED
      BY <2>6, UnderLeast DEF set
  <2>8. ClosedAbove(set)
    BY <2>3, <2>7 DEF ClosedAbove
  <2> QED
    BY <1>1, <1>2, <2>5, <2>8, NoForest
<1> QED
  BY <1>2, <1>4, <1>5, <1>6, <1>7

\* Steps that leave the tree alone.
LEMMA TreeFrame ==
  ASSUME TreeInv, UNCHANGED <<fileVars, top, at, children>>,
         phase' \in {"set", "done"} => at = Len(top), phase' = "rejected" => ~IsForest
  PROVE  TreeInv'
<1>1. /\ file' = file /\ listing' = listing /\ top' = top /\ at' = at /\ children' = children
  BY DEF fileVars
<1>2. /\ Listed' = Listed /\ (\A c : Parent(c)' = Parent(c)) /\ (\A t : Below(t)' = Below(t))
      /\ (IsForest)' = IsForest
  BY <1>1 DEF Listed, Parent, Below, IsForest, Ancestors
<1>3. \A i \in 1..at' : Parent(top[i])' = NoName
  <2>1. \A i \in 1..at : file[top[i]].parent = NoName
    BY DEF TreeInv, Parent
  <2> QED
    BY <1>1, <2>1 DEF Parent
<1> QED
  BY <1>1, <1>2, <1>3 DEF TreeInv

-----------------------------------------------------------------------------
(* The initial states. *)

\* A table of jobs with these parents.
HasParents(table, parents) ==
  /\ table \in [Names -> Job]
  /\ \A n \in Names \ DOMAIN parents : table[n] = ZeroJob
  /\ \A n \in DOMAIN parents :
       table[n].stored /\ table[n].parent = parents[n] /\ table[n].schedule # NoSchedule

\* It lists each job with its parent.
ListsChildren(table, parents) ==
  \A p \in DOMAIN parents, c \in Names :
    table[p].deps[c] = IF c \in DOMAIN parents /\ parents[c] = p THEN 1 ELSE 0

\* What Table makes.
LEMMA TableIs ==
  ASSUME NEW parents, DOMAIN parents \subseteq Names,
         \A n \in DOMAIN parents : parents[n] \in Names \cup {NoName},
         NEW mirrored \in BOOLEAN, NEW count \in Nat
  PROVE  /\ HasParents(Table(parents, mirrored, count), parents)
         /\ mirrored => ListsChildren(Table(parents, mirrored, count), parents)
<1> DEFINE some == CHOOSE s \in Schedules : TRUE
           deps(n) == IF ~mirrored THEN NoDeps
                      ELSE [c \in Names |-> IF c \in DOMAIN parents /\ parents[c] = n THEN 1 ELSE 0]
           job(n) == [ZeroJob EXCEPT !.stored = TRUE, !.parent = parents[n], !.successCount = count,
                                     !.schedule = some, !.deps = deps(n)]
           table == Table(parents, mirrored, count)
<1>1. some \in Schedules /\ some # NoSchedule
  BY RestoreAssumption, StoreAssumption
<1>2. \A n \in Names : table[n] = IF n \notin DOMAIN parents THEN ZeroJob ELSE job(n)
  BY DEF Table
<1>3. table = [n \in Names |-> IF n \notin DOMAIN parents THEN ZeroJob ELSE job(n)]
  BY DEF Table
<1> HIDE DEF some, table
<1>4. ASSUME NEW n \in DOMAIN parents
      PROVE  /\ job(n) \in Job /\ job(n).stored /\ job(n).parent = parents[n]
             /\ job(n).schedule # NoSchedule /\ job(n).deps = deps(n)
  <2>1. deps(n) \in [Names -> Nat] /\ parents[n] \in Names \cup {NoName}
    BY SMT DEF NoDeps
  <2> HIDE DEF deps
  <2>2. ZeroJob \in Job
    BY ZeroJobType
  <2>3. job(n) \in Job
    BY <1>1, <2>1, <2>2 DEF Job
  <2>4. /\ job(n).stored = TRUE /\ job(n).parent = parents[n] /\ job(n).schedule = some
        /\ job(n).deps = deps(n)
    BY DEF ZeroJob
  <2> QED
    BY <1>1, <2>3, <2>4
<1>5. ASSUME NEW n \in DOMAIN parents, mirrored, NEW c \in Names
      PROVE  deps(n)[c] = IF c \in DOMAIN parents /\ parents[c] = n THEN 1 ELSE 0
  BY <1>5
<1> HIDE DEF deps, job
<1>6. table \in [Names -> Job]
  BY <1>3, <1>4, ZeroJobType
<1>7. \A n \in Names \ DOMAIN parents : table[n] = ZeroJob
  BY <1>2
<1>8. \A n \in DOMAIN parents : table[n] = job(n)
  BY <1>2
<1>9. HasParents(table, parents)
  BY <1>4, <1>6, <1>7, <1>8 DEF HasParents
<1>10. ASSUME mirrored PROVE ListsChildren(table, parents)
  <2> SUFFICES ASSUME NEW p \in DOMAIN parents, NEW c \in Names
               PROVE  table[p].deps[c] = IF c \in DOMAIN parents /\ parents[c] = p THEN 1 ELSE 0
    BY DEF ListsChildren
  <2>1. table[p].deps = deps(p)
    BY <1>4, <1>8
  <2>2. deps(p)[c] = IF c \in DOMAIN parents /\ parents[c] = p THEN 1 ELSE 0
    BY <1>5, <1>10
  <2> QED
    BY <2>1, <2>2
<1> QED
  BY <1>9, <1>10 DEF table

\* The links of a table that mirrors its parents are consistent.
LEMMA TableLinked ==
  ASSUME NEW parents \in OldParents
  PROVE  Table(parents, TRUE, 2) \in [Names -> Job] /\ Linked(Table(parents, TRUE, 2))
<1> DEFINE table == Table(parents, TRUE, 2)
<1>1. /\ DOMAIN parents \subseteq Names
      /\ \A n \in DOMAIN parents : parents[n] \in DOMAIN parents \cup {NoName}
  BY RestoreAssumption
<1>2. \A n \in DOMAIN parents : parents[n] \in Names \cup {NoName}
  BY <1>1
<1>3. 2 \in Nat /\ TRUE \in BOOLEAN
  BY SMT
<1>4. HasParents(table, parents) /\ ListsChildren(table, parents)
  BY <1>1, <1>2, <1>3, TableIs
<1> HIDE DEF table
<1>5. ~ZeroJob.stored /\ ZeroJob.parent = NoName /\ \A c \in Names : ZeroJob.deps[c] = 0
  BY DEF ZeroJob, NoDeps
<1>6. \A p, c \in Names : table[p].deps[c] = IF table[c].parent = p THEN 1 ELSE 0
  <2> TAKE p, c \in Names
  <2>1. p # NoName
    BY StoreAssumption
  <2>2. table[c].parent = p <=> c \in DOMAIN parents /\ parents[c] = p
    BY <1>4, <1>5, <2>1 DEF HasParents
  <2>3. CASE p \in DOMAIN parents
    BY <1>4, <2>2, <2>3 DEF ListsChildren
  <2>4. CASE p \notin DOMAIN parents
    <3>1. table[p].deps[c] = 0
      <4>1. table[p] = ZeroJob
        BY <1>4, <2>4 DEF HasParents
      <4> QED
        BY <1>5, <4>1
    <3>2. table[c].parent # p
      BY <1>1, <2>1, <2>2, <2>4
    <3> QED
      BY <3>1, <3>2
  <2> QED
    BY <2>3, <2>4
<1>7. \A c \in Names : table[c].parent # NoName => table[table[c].parent].stored
  <2> SUFFICES ASSUME NEW c \in Names, table[c].parent # NoName
               PROVE  table[table[c].parent].stored
    OBVIOUS
  <2>1. c \in DOMAIN parents /\ table[c].parent = parents[c]
    BY <1>4, <1>5 DEF HasParents
  <2>2. parents[c] \in DOMAIN parents
    BY <1>1, <2>1
  <2> QED
    BY <1>4, <2>1, <2>2 DEF HasParents
<1>8. \A c \in Names : ~table[c].stored => table[c].parent = NoName
  BY <1>4, <1>5 DEF HasParents
<1> QED
  BY <1>4, <1>6, <1>7, <1>8 DEF HasParents, Linked, table

\* The empty sequence has no elements.
LEMMA EmptyRange ==
  ASSUME NEW S
  PROVE  <<>> \in Seq(S) /\ IsInjective(<<>>) /\ Range(<<>>) = {} /\ Len(<<>>) = 0
<1>1. <<>> \in Seq(S) /\ Len(<<>>) = 0 /\ DOMAIN <<>> = {}
  BY SMT
<1> QED
  BY <1>1 DEF IsInjective, Range

\* The invariant holds of the initial states.
LEMMA InitInv ==
  ASSUME Init
  PROVE  TypeOK /\ TreeInv /\ SetInv
<1>1. listing \in Seq(Names) /\ IsInjective(listing)
  BY RestoreAssumption DEF Init
<1>2. Range(listing) \subseteq Names /\ Listed = Range(listing)
  BY <1>1, RangeIs DEF Listed
<1>3. PICK parents \in [Listed -> Names \cup {NoName}], mirrored \in BOOLEAN :
        file = Table(parents, mirrored, 1)
  BY <1>2 DEF Init
<1>4. HasParents(file, parents) /\ DOMAIN parents = Listed
  <2>1. 1 \in Nat
    BY SMT
  <2> QED
    BY <1>2, <1>3, <2>1, TableIs
<1>5. before \in [Names -> Job] /\ Linked(before)
  BY TableLinked DEF Init
<1>6. FileInv
  BY <1>1, <1>4, <1>5 DEF FileInv, HasParents
<1>7. /\ jobs = before /\ phase = "tree" /\ top = listing /\ at = 0 /\ todo = <<>>
      /\ children = [n \in Names |-> <<>>] /\ result = [n \in Names |-> "none"]
      /\ deletes = 0 /\ failures = 0
  BY DEF Init
<1>8. listing \in Seq(Listed) /\ Len(listing) \in Nat
  <2>1. Len(listing) \in Nat /\ \A i \in 1..Len(listing) : listing[i] \in Range(listing)
    BY <1>1, RangeIs
  <2> QED
    BY SMT, <1>1, <1>2, <2>1
<1>9. at \in 0..Len(top) /\ deletes \in Nat /\ failures \in Nat /\ \A i : i \notin 1..at
  BY SMT, <1>7, <1>8
<1>10. /\ children \in [Names -> Seq(Listed)]
       /\ \A p \in Names : IsInjective(children[p]) /\ Range(children[p]) = {}
  BY <1>7, EmptyRange
<1>11. /\ todo \in Seq(Listed) /\ IsInjective(todo) /\ Range(todo) = {}
  BY <1>7, EmptyRange
<1>12. result \in [Names -> Results] /\ \A n \in Names : result[n] = "none"
  BY <1>7 DEF Results
<1>13. TypeOK
  BY <1>1, <1>5, <1>6, <1>7, <1>8, <1>9, <1>10, <1>11, <1>12 DEF TypeOK
<1>14. \A n \in Listed : n \in Below(n)
  BY <1>2 DEF Below
<1>15. TreeInv
  BY <1>2, <1>7, <1>9, <1>10, <1>14 DEF TreeInv
<1>16. SetInv
  BY <1>7, <1>11, <1>12 DEF SetInv
<1> QED
  BY <1>13, <1>15, <1>16

-----------------------------------------------------------------------------
(* recursiveSetJob *)

\* Once the tree is built the roots are at the top.
LEMMA RootsAtTop ==
  ASSUME TypeOK, TreeInv, at = Len(top), NEW n \in Listed
  PROVE  n \in Range(top) <=> Parent(n) = NoName
<1>1. n \in Range(top) => \E i \in 1..Len(top) : n = top[i]
  BY RangeIs DEF TypeOK
<1>2. \A i \in 1..Len(top) : Parent(top[i]) = NoName
  BY DEF TreeInv
<1>3. n \in Range(top) => Parent(n) = NoName
  BY <1>1, <1>2
<1>4. n \notin Range(top) => Parent(n) \in Names
  BY DEF TreeInv
<1> QED
  BY <1>3, <1>4, StoreAssumption

\* The job that was sent has its result, and after a success its children come
\* next.
LEMMA RecordSet ==
  ASSUME TypeOK, TreeInv, SetInv, phase = "set", todo # <<>>, NEW ok \in BOOLEAN,
         Record(Head(todo), ok), UNCHANGED <<fileVars, phase>>
  PROVE  todo' \in Seq(Listed) /\ result' \in [Names -> Results] /\ SetInv'
<1> DEFINE n == Head(todo)
           r == IF ok THEN "success" ELSE "fail"
<1>1. /\ n \in Listed /\ n \in Range(todo) /\ n \in Names
      /\ Tail(todo) \in Seq(Listed) /\ IsInjective(Tail(todo))
      /\ Range(Tail(todo)) = Range(todo) \ {n}
  <2>1. todo \in Seq(Listed) /\ IsInjective(todo) /\ Listed \subseteq Names
    BY ListedNames DEF TypeOK, SetInv
  <2> QED
    BY <2>1, TailRange
<1>2. /\ result' = [result EXCEPT ![n] = r]
      /\ todo' = IF ok THEN children[n] \o Tail(todo) ELSE Tail(todo)
  BY DEF Record
<1>3. r \in Results /\ r # "none" /\ (r = "success" <=> ok)
  BY DEF Results
<1> HIDE DEF n, r
<1>4. result[n] = "none" /\ result \in [Names -> Results]
  BY <1>1 DEF SetInv, TypeOK
<1>5. /\ result' \in [Names -> Results] /\ result'[n] = r
      /\ \A m \in Names \ {n} : result'[m] = result[m]
  BY <1>1, <1>2, <1>3, <1>4
<1>6. /\ children[n] \in Seq(Listed) /\ IsInjective(children[n])
      /\ \A c \in Range(children[n]) : c \in Listed /\ Parent(c) = n
  BY <1>1, RangeIs DEF TypeOK, TreeInv
<1>7. \A m \in Listed : m \in Range(todo) \/ result[m] # "none" => Parent(m) # n
  <2> SUFFICES ASSUME NEW m \in Listed, m \in Range(todo) \/ result[m] # "none" PROVE Parent(m) # n
    OBVIOUS
  <2>1. Parent(m) = NoName \/ (Parent(m) \in Names /\ result[Parent(m)] = "success")
    BY DEF SetInv
  <2> QED
    BY <1>1, <1>4, <2>1, StoreAssumption
<1>8. /\ todo' \in Seq(Listed) /\ IsInjective(todo')
      /\ Range(todo') = (Range(todo) \ {n}) \cup (IF ok THEN Range(children[n]) ELSE {})
  <2>1. CASE ok
    <3>1. \A c \in Range(children[n]) : c \notin Range(Tail(todo))
      BY <1>1, <1>6, <1>7
    <3>2. todo' = children[n] \o Tail(todo)
      BY <1>2, <2>1
    <3>3. /\ todo' \in Seq(Listed) /\ IsInjective(todo')
          /\ Range(todo') = Range(children[n]) \cup Range(Tail(todo))
      <4> DEFINE a == children[n]
                 b == Tail(todo)
      <4>1. /\ a \in Seq(Listed) /\ b \in Seq(Listed) /\ IsInjective(a) /\ IsInjective(b)
            /\ \A x \in Range(a) : x \notin Range(b)
        BY <1>1, <1>6, <3>1
      <4> HIDE DEF a, b
      <4>2. a \o b \in Seq(Listed) /\ IsInjective(a \o b) /\ Range(a \o b) = Range(a) \cup Range(b)
        BY SMT, <4>1, JoinedRange
      <4> QED
        BY <3>2, <4>2 DEF a, b
    <3> QED
      BY <1>1, <2>1, <3>3
  <2>2. CASE ~ok
    BY <1>1, <1>2, <2>2
  <2> QED
    BY <2>1, <2>2
<1>9. /\ Listed' = Listed /\ \A m : Parent(m)' = Parent(m)
  BY DEF fileVars, Listed, Parent
<1>10. \A m \in Range(todo') : m \in Names \ {n} /\ result[m] = "none"
  <2> SUFFICES ASSUME NEW m \in Range(todo') PROVE m \in Names \ {n} /\ result[m] = "none"
    OBVIOUS
  <2>1. CASE m \in Range(todo) \ {n}
    <3>1. m \in Listed
      BY <2>1, RangeIs DEF TypeOK
    <3> QED
      BY <2>1, <3>1, ListedNames DEF SetInv, TypeOK
  <2>2. CASE m \in Range(children[n])
    BY <1>1, <1>6, <1>7, <2>2, ListedNames DEF TypeOK
  <2> QED
    BY <1>8, <2>1, <2>2
<1>11. ASSUME NEW m \in Listed
       PROVE  IF result'[m] # "none" \/ m \in Range(todo')
                THEN Parent(m) = NoName \/ (Parent(m) \in Names /\ result'[Parent(m)] = "success")
                ELSE Parent(m) \in Names /\ result'[Parent(m)] # "success"
  <2>1. /\ m \in Names
        /\ IF result[m] # "none" \/ m \in Range(todo)
             THEN Parent(m) = NoName \/ (Parent(m) \in Names /\ result[Parent(m)] = "success")
             ELSE Parent(m) \in Names /\ result[Parent(m)] # "success"
    BY ListedNames DEF SetInv, TypeOK
  <2>2. CASE result[m] # "none" \/ m \in Range(todo)
    <3>1. Parent(m) # n
      BY <1>7, <2>2
    <3>2. result'[m] # "none" \/ m \in Range(todo')
      BY <1>3, <1>5, <1>8, <2>1, <2>2
    <3> QED
      BY <1>5, <2>1, <2>2, <3>1, <3>2
  <2>3. CASE ~(result[m] # "none" \/ m \in Range(todo)) /\ Parent(m) # n
    <3>1. result'[m] = "none" /\ m \notin Range(todo')
      BY <1>1, <1>5, <1>6, <1>8, <2>1, <2>3
    <3> QED
      BY <1>5, <2>1, <2>3, <3>1
  <2>4. CASE ~(result[m] # "none" \/ m \in Range(todo)) /\ Parent(m) = n
    <3>1. m # n
      BY <1>1, <2>4
    <3>2. m \in Range(children[n])
      <4>1. at = Len(top)
        BY DEF TreeInv
      <4>2. m \notin Range(top)
        BY <1>1, <2>4, <4>1, RootsAtTop, StoreAssumption
      <4> QED
        BY <2>4, <4>2 DEF TreeInv
    <3>3. m \in Range(todo') <=> ok
      BY <1>8, <2>4, <3>2
    <3> QED
      BY <1>1, <1>3, <1>5, <2>1, <2>4, <3>1, <3>3
  <2> QED
    BY <2>2, <2>3, <2>4
<1>12. \A m \in Names \ Listed : result'[m] = "none"
  BY <1>1, <1>5 DEF SetInv
<1>13. \A m \in Range(todo') : result'[m] = "none"
  BY <1>5, <1>10
<1>14. phase' = "set"
  OBVIOUS
<1>15. SetInv'
  BY <1>8, <1>9, <1>11, <1>12, <1>13, <1>14 DEF SetInv
<1> QED
  BY <1>5, <1>8, <1>15

-----------------------------------------------------------------------------
(* The invariant of a restore. *)

Inv == TypeOK /\ TreeInv /\ SetInv

\* The variables of the tree and of the answers.
treeVars == <<fileVars, top, at, children>>
setVars == <<todo, result>>

\* Steps that leave the tree and the answers alone and do not end the tree.
LEMMA OtherFrame ==
  ASSUME Inv, UNCHANGED <<treeVars, setVars>>, jobs' \in [Names -> Job],
         deletes' \in Nat, failures' \in Nat,
         phase' = phase \/ (phase = "set" /\ phase' = "done" /\ todo = <<>>)
                        \/ (phase = "tree" /\ phase' = "rejected" /\ ~IsForest)
  PROVE  Inv'
<1>1. /\ file' = file /\ listing' = listing /\ before' = before /\ top' = top /\ at' = at
      /\ children' = children /\ todo' = todo /\ result' = result
  BY DEF treeVars, fileVars, setVars
<1>2. Listed' = Listed /\ \A c : Parent(c)' = Parent(c)
  BY <1>1 DEF Listed, Parent
<1>3. FileInv'
  BY <1>1, <1>2 DEF Inv, TypeOK, FileInv
<1>4. phase' \in {"tree", "set", "done", "rejected"}
  BY DEF Inv, TypeOK
<1>5. TypeOK'
  BY <1>1, <1>2, <1>3, <1>4 DEF Inv, TypeOK
<1>6. (phase' \in {"set", "done"} => at = Len(top)) /\ (phase' = "rejected" => ~IsForest)
  BY DEF Inv, TreeInv
<1>7. TreeInv'
  BY <1>6, TreeFrame DEF Inv, treeVars
<1>8. SetInv'
  <2>1. SetInv
    BY DEF Inv
  <2>2. CASE phase' = phase
    BY <1>1, <1>2, <2>1, <2>2 DEF SetInv
  <2>3. CASE phase = "set" /\ phase' = "done" /\ todo = <<>>
    BY <1>1, <1>2, <2>1, <2>3 DEF SetInv
  <2>4. CASE phase = "tree" /\ phase' = "rejected"
    BY <1>1, <1>2, <2>1, <2>4 DEF SetInv
  <2> QED
    BY <2>2, <2>3, <2>4
<1> QED
  BY <1>5, <1>7, <1>8 DEF Inv

\* An iteration of generateJobTree.
LEMMA PlaceInv ==
  ASSUME Inv, Place
  PROVE  Inv'
<1> DEFINE n == top[at + 1]
<1>1. /\ phase = "tree" /\ at < Len(top) /\ UNCHANGED fileVars
      /\ jobs' = jobs /\ todo' = todo /\ result' = result /\ deletes' = deletes /\ failures' = failures
      /\ Attach(n) \/ KeepRoot(n) \/ Reject(n)
  BY DEF Place
<1>2. /\ file' = file /\ listing' = listing /\ before' = before
      /\ Listed' = Listed /\ \A c : Parent(c)' = Parent(c)
  BY <1>1 DEF fileVars, Listed, Parent
<1>3. FileInv'
  BY <1>2 DEF Inv, TypeOK, FileInv
<1>4. CASE Reject(n)
  <2>1. ~IsForest /\ phase' = "rejected" /\ UNCHANGED <<top, at, children>>
    BY <1>1, <1>4, RejectNoForest DEF Inv, Reject
  <2>2. UNCHANGED <<treeVars, setVars>>
    BY <1>1, <2>1 DEF treeVars, setVars
  <2>3. jobs' \in [Names -> Job] /\ deletes' \in Nat /\ failures' \in Nat
    BY <1>1 DEF Inv, TypeOK
  <2> QED
    BY <1>1, <2>1, <2>2, <2>3, OtherFrame
<1>5. ASSUME Attach(n) \/ KeepRoot(n) PROVE Inv'
  <2>1. /\ phase' = phase /\ top' \in Seq(Listed) /\ IsInjective(top') /\ at' \in 0..Len(top')
        /\ children' \in [Names -> Seq(Listed)] /\ TreeInv'
    <3>1. CASE Attach(n)
      BY <1>1, <3>1, AttachTree DEF Inv, Attach
    <3>2. CASE KeepRoot(n)
      <4>1. at' \in 0..Len(top') /\ TreeInv'
        BY <1>1, <3>2, KeepRootTree DEF Inv
      <4> QED
        BY <3>2, <4>1 DEF Inv, TypeOK, KeepRoot
    <3> QED
      BY <1>5, <3>1, <3>2
  <2>2. TypeOK'
    BY <1>1, <1>2, <1>3, <2>1 DEF Inv, TypeOK
  <2>3. SetInv'
    BY <1>1, <1>2, <2>1 DEF Inv, SetInv
  <2> QED
    BY <2>1, <2>2, <2>3 DEF Inv
<1> QED
  BY <1>1, <1>4, <1>5

\* The tree is complete.
LEMMA TreeDoneInv ==
  ASSUME Inv, TreeDone
  PROVE  Inv'
<1>1. /\ at = Len(top) /\ phase = "tree" /\ phase' = "set" /\ todo' = top /\ result' = result
      /\ file' = file /\ listing' = listing /\ before' = before /\ jobs' = jobs
      /\ top' = top /\ at' = at /\ children' = children
      /\ deletes' = deletes /\ failures' = failures
  BY DEF TreeDone, fileVars
<1>2. Listed' = Listed /\ \A c : Parent(c)' = Parent(c)
  BY <1>1 DEF Listed, Parent
<1>3. FileInv'
  BY <1>1, <1>2 DEF Inv, TypeOK, FileInv
<1>4. TypeOK'
  BY <1>1, <1>2, <1>3 DEF Inv, TypeOK
<1>5. TreeInv'
  BY <1>1, TreeFrame DEF Inv, fileVars
<1>6. \A n \in Names : result[n] = "none"
  BY <1>1 DEF Inv, SetInv
<1>7. \A n \in Listed : n \in Names /\ (n \in Range(top) <=> Parent(n) = NoName)
  BY <1>1, RootsAtTop, ListedNames DEF Inv, TypeOK
<1>8. \A n \in Range(top) : n \in Names
  BY <1>7, RangeIs DEF Inv, TypeOK
<1>9. \A n \in Listed : Parent(n) \in Names \cup {NoName}
  BY <1>7, ListedNames DEF Inv, TypeOK
<1>10. \A n \in Listed :
         IF n \in Range(top) THEN Parent(n) = NoName
                             ELSE Parent(n) \in Names /\ result[Parent(n)] # "success"
  BY <1>6, <1>7, <1>9
<1>11. IsInjective(top)
  BY DEF Inv, TypeOK
<1>12. SetInv'
  BY <1>1, <1>2, <1>6, <1>7, <1>8, <1>10, <1>11 DEF SetInv
<1> QED
  BY <1>4, <1>5, <1>12 DEF Inv

\* The leader's answer, or the failure, is recorded; whatever the store became.
LEMMA RecordInv ==
  ASSUME Inv, phase = "set", todo # <<>>, NEW ok \in BOOLEAN, Record(Head(todo), ok),
         UNCHANGED <<treeVars, phase>>, jobs' \in [Names -> Job], deletes' \in Nat, failures' \in Nat
  PROVE  Inv'
<1>1. /\ file' = file /\ listing' = listing /\ before' = before /\ phase' = phase
      /\ top' = top /\ at' = at /\ children' = children /\ UNCHANGED fileVars
  BY DEF treeVars, fileVars
<1>2. Listed' = Listed
  BY <1>1 DEF Listed
<1>3. FileInv'
  BY <1>1, <1>2 DEF Inv, TypeOK, FileInv
<1>4. todo' \in Seq(Listed) /\ result' \in [Names -> Results] /\ SetInv'
  BY <1>1, RecordSet DEF Inv
<1>5. TypeOK'
  BY <1>1, <1>2, <1>3, <1>4 DEF Inv, TypeOK
<1>6. TreeInv'
  BY <1>1, TreeFrame DEF Inv, TreeInv
<1> QED
  BY <1>4, <1>5, <1>6 DEF Inv

\* The job that is sent next, and what the store becomes.
LEMMA NextJob ==
  ASSUME Inv, todo # <<>>
  PROVE  LET n == Head(todo)
         IN /\ n \in Listed /\ n \in Range(todo) /\ n \in Names /\ file[n] \in Job /\ Tick \in Nat
            /\ SetJob(jobs, n, file[n], FALSE, Tick).jobs \in [Names -> Job]
<1> DEFINE n == Head(todo)
<1>1. n \in Listed /\ n \in Range(todo)
  BY TailRange DEF Inv, TypeOK, SetInv
<1>2. n \in Names /\ file[n] \in Job /\ Tick \in Nat /\ jobs \in Tables
  BY <1>1, ListedNames, RestoreAssumption DEF Inv, TypeOK, FileInv, Tables
<1> HIDE DEF n
<1>3. SetJob(jobs, n, file[n], FALSE, Tick).jobs \in Tables
  BY <1>2, SetJobFrame
<1> QED
  BY <1>1, <1>2, <1>3 DEF n, Tables

\* Every step keeps the invariant.
LEMMA StepInv ==
  ASSUME Inv, [Next]_vars
  PROVE  Inv'
<1>1. /\ jobs \in [Names -> Job] /\ deletes \in Nat /\ failures \in Nat
      /\ deletes + 1 \in Nat /\ failures + 1 \in Nat
  <2>1. jobs \in [Names -> Job] /\ deletes \in Nat /\ failures \in Nat
    BY DEF Inv, TypeOK
  <2>2. deletes + 1 \in Nat /\ failures + 1 \in Nat
    BY SMT, <2>1
  <2> QED
    BY <2>1, <2>2
<1>2. CASE Place
  BY <1>2, PlaceInv
<1>3. CASE TreeDone
  BY <1>3, TreeDoneInv
<1>4. CASE SetNext
  <2> DEFINE set == SetJob(jobs, Head(todo), file[Head(todo)], FALSE, Tick)
  <2>1. /\ phase = "set" /\ todo # <<>> /\ jobs' = set.jobs /\ Record(Head(todo), Answered(set.err))
        /\ UNCHANGED <<treeVars, phase>> /\ deletes' = deletes /\ failures' = failures
    BY <1>4 DEF SetNext, treeVars
  <2>2. Answered(set.err) \in BOOLEAN
    BY DEF Answered
  <2>3. jobs' \in [Names -> Job]
    BY <2>1, NextJob
  <2> QED
    BY <1>1, <2>1, <2>2, <2>3, RecordInv
<1>5. CASE SetFails
  <2> DEFINE set == SetJob(jobs, Head(todo), file[Head(todo)], FALSE, Tick)
  <2>1. /\ phase = "set" /\ todo # <<>> /\ jobs' \in {jobs, set.jobs} /\ Record(Head(todo), FALSE)
        /\ UNCHANGED <<treeVars, phase>> /\ deletes' = deletes /\ failures' = failures + 1
    BY <1>5 DEF SetFails, treeVars
  <2>2. jobs' \in [Names -> Job]
    BY <1>1, <2>1, NextJob
  <2> QED
    BY <1>1, <2>1, <2>2, RecordInv
<1>6. CASE SetDone
  <2>1. /\ phase = "set" /\ phase' = "done" /\ todo = <<>> /\ UNCHANGED <<treeVars, setVars>>
        /\ jobs' = jobs /\ deletes' = deletes /\ failures' = failures
    BY <1>6 DEF SetDone, treeVars, setVars
  <2> QED
    BY <1>1, <2>1, OtherFrame
<1>7. ASSUME NEW n \in Names, OtherDeletes(n) PROVE Inv'
  <2>1. /\ phase' = phase /\ UNCHANGED <<treeVars, setVars>> /\ jobs' = DeleteJob(jobs, n).jobs
        /\ deletes' = deletes + 1 /\ failures' = failures
    BY <1>7 DEF OtherDeletes, treeVars, setVars
  <2>2. jobs' \in [Names -> Job]
    BY <1>1, <2>1, DeleteJobFrame DEF Tables
  <2> QED
    BY <1>1, <2>1, <2>2, OtherFrame
<1>8. CASE UNCHANGED vars
  <2>1. /\ phase' = phase /\ UNCHANGED <<treeVars, setVars>> /\ jobs' = jobs
        /\ deletes' = deletes /\ failures' = failures
    BY <1>8 DEF vars, treeVars, fileVars, setVars
  <2> QED
    BY <1>1, <2>1, OtherFrame
<1> QED
  BY <1>2, <1>3, <1>4, <1>5, <1>6, <1>7, <1>8 DEF Next

\* The invariant holds throughout.
LEMMA Invariant == Spec => []Inv
<1>1. Init => Inv
  BY InitInv DEF Inv
<1>2. Inv /\ [Next]_vars => Inv'
  BY StepInv
<1> QED
  BY <1>1, <1>2, PTL DEF Spec

\* The variables stay well formed: in particular the trees and what is still to
\* be sent never hold a job that the file does not list.
THEOREM RestoreTypes == Spec => []TypeOK
<1>1. Inv => TypeOK
  BY DEF Inv
<1> QED
  BY <1>1, Invariant, PTL

\* BuildsForest (job.go:362-424): whatever the order in which the file lists
\* its jobs, generateJobTree accepts it exactly if the parents form a forest,
\* and puts every job where the file says, once.
THEOREM ForestSafe == Spec => []BuildsForest
<1>1. ASSUME Inv PROVE BuildsForest
  <2>1. phase = "rejected" => ~IsForest
    BY <1>1 DEF Inv, TreeInv
  <2>2. ASSUME phase \in {"set", "done"}
        PROVE  /\ IsForest
               /\ \A n \in Listed : n \in Range(top) <=> file[n].parent = NoName
               /\ \A p \in Names : /\ IsInjective(children[p])
                                    /\ Range(children[p]) = {c \in Listed : file[c].parent = p}
    <3>1. TypeOK /\ TreeInv /\ at = Len(top)
      BY <1>1, <2>2 DEF Inv, TreeInv
    <3>2. IsForest
      BY <3>1, TreeIsForest
    <3>3. \A n \in Listed : n \in Range(top) <=> file[n].parent = NoName
      BY <3>1, RootsAtTop DEF Parent
    <3>4. ASSUME NEW p \in Names
          PROVE  IsInjective(children[p]) /\ Range(children[p]) = {c \in Listed : file[c].parent = p}
      <4>1. children[p] \in Seq(Listed) /\ IsInjective(children[p])
        BY <3>1 DEF TypeOK, TreeInv
      <4>2. \A c \in Range(children[p]) : c \in Listed /\ Parent(c) = p
        BY <3>1, <4>1, RangeIs DEF TreeInv
      <4>3. ASSUME NEW c \in Listed, Parent(c) = p PROVE c \in Range(children[p])
        BY <3>1, <3>3, <4>3, StoreAssumption DEF TreeInv, Parent
      <4> QED
        BY <4>1, <4>2, <4>3 DEF Parent
    <3> QED
      BY <3>2, <3>3, <3>4
  <2> QED
    BY <2>1, <2>2 DEF BuildsForest
<1> QED
  BY <1>1, Invariant, PTL

-----------------------------------------------------------------------------
(* What a failure costs. *)

\* At the end no job waits: each job of the file has a result and a parent that
\* was set, or none of both; and a parent is a job of the file.
LEMMA DoneInv ==
  ASSUME Inv, phase = "done"
  PROVE  /\ IsForest
         /\ \A n \in Listed : /\ n \in Names
                              /\ IF result[n] # "none"
                                   THEN Parent(n) = NoName \/ (Parent(n) \in Names /\ result[Parent(n)] = "success")
                                   ELSE Parent(n) \in Listed /\ result[Parent(n)] # "success"
<1>1. TypeOK /\ TreeInv /\ SetInv /\ at = Len(top) /\ Range(todo) = {} /\ Listed \subseteq Names
  BY ListedNames, EmptyRange DEF Inv, TypeOK, TreeInv, SetInv
<1>2. IsForest
  BY <1>1, TreeIsForest
<1>3. \A n \in Listed : Parent(n) \in Names => Parent(n) \in Listed
  BY <1>1, RootsAtTop, StoreAssumption DEF TreeInv
<1>4. ASSUME NEW n \in Listed
      PROVE  /\ n \in Names
             /\ IF result[n] # "none"
                  THEN Parent(n) = NoName \/ (Parent(n) \in Names /\ result[Parent(n)] = "success")
                  ELSE Parent(n) \in Listed /\ result[Parent(n)] # "success"
  <2>1. IF result[n] # "none"
          THEN Parent(n) = NoName \/ (Parent(n) \in Names /\ result[Parent(n)] = "success")
          ELSE Parent(n) \in Names /\ result[Parent(n)] # "success"
    BY <1>1 DEF SetInv
  <2> QED
    BY <1>1, <1>3, <2>1
<1> QED
  BY <1>2, <1>4

\* The jobs above a job that has a result were all set.
LEMMA ResultMeansSet ==
  ASSUME Inv, phase = "done", NEW n \in Listed, result[n] # "none",
         NEW m \in (Ancestors(n) \cap Listed) \ {n}
  PROVE  result[m] = "success"
<1> DEFINE set == {NoName, n} \cup {x \in Names : result[x] = "success"}
<1>1. FileInv /\ n \in Names /\ m \in Names /\ NoName \notin Listed
  BY ListedNames, StoreAssumption DEF Inv, TypeOK
<1>2. ClosedAbove(set)
  <2> SUFFICES ASSUME NEW c \in set \cap Listed PROVE Parent(c) \in set
    BY DEF ClosedAbove
  <2>1. result[c] # "none"
    BY <1>1
  <2>2. Parent(c) = NoName \/ (Parent(c) \in Names /\ result[Parent(c)] = "success")
    BY <2>1, DoneInv
  <2> QED
    BY <2>2
<1>3. set \in SUBSET (Names \cup {NoName}) /\ n \in set
  BY <1>1
<1> HIDE DEF set
<1>4. Ancestors(n) \subseteq set
  BY <1>1, <1>2, <1>3, AncestorsIs
<1> QED
  BY <1>1, <1>4 DEF set

\* Above a job without result there is one that failed: otherwise the jobs
\* without result above it would lead to no root.
LEMMA NoneMeansFailure ==
  ASSUME Inv, phase = "done", NEW n \in Listed, result[n] = "none"
  PROVE  \E m \in (Ancestors(n) \cap Listed) \ {n} : result[m] = "fail"
<1> DEFINE set == {x \in Ancestors(n) \cap Listed : result[x] = "none"}
<1>1. FileInv /\ n \in Names /\ Listed \subseteq Names /\ IsForest
  BY ListedNames, DoneInv DEF Inv, TypeOK
<1>2. n \in Ancestors(n) /\ ClosedAbove(Ancestors(n))
  BY <1>1, AncestorsIs
<1>3. ASSUME ~\E m \in (Ancestors(n) \cap Listed) \ {n} : result[m] = "fail"
      PROVE  FALSE
  <2>1. ASSUME NEW c \in set PROVE Parent(c) \in set
    <3>1. Parent(c) \in Listed /\ result[Parent(c)] # "success" /\ Parent(c) \in Ancestors(n)
      BY <1>2, DoneInv DEF ClosedAbove
    <3>2. result[Parent(c)] \in Results
      BY <1>1, <3>1 DEF Inv, TypeOK
    <3>3. result[Parent(c)] # "fail"
      BY <1>3, <3>1
    <3> QED
      BY <3>1, <3>2, <3>3 DEF Results
  <2>2. set \in SUBSET Names /\ n \in set /\ ClosedAbove(set)
    BY <1>1, <1>2, <2>1 DEF ClosedAbove
  <2> HIDE DEF set
  <2> QED
    BY <1>1, <2>2, NoForest
<1> QED
  BY <1>3

\* FailureCostsSubtree (agent.go:841-852): at the end a job has no result
\* exactly if a job above it failed, whatever failed and was deleted meanwhile.
THEOREM SubtreeSafe == Spec => []FailureCostsSubtree
<1>1. Inv => FailureCostsSubtree
  BY ResultMeansSet, NoneMeansFailure DEF FailureCostsSubtree
<1> QED
  BY <1>1, Invariant, PTL

-----------------------------------------------------------------------------
(* What the store holds. *)

\* Every job that is sent is valid: it has a schedule and is not its own
\* parent.  If it has a parent, that one was set.
LEMMA SentValid ==
  ASSUME Inv, phase = "set", NEW n \in Range(todo)
  PROVE  /\ Validate(n, file[n])
         /\ Parent(n) = NoName \/ (Parent(n) \in Names \ {n} /\ result[Parent(n)] = "success")
<1>1. /\ n \in Listed /\ n \in Names /\ FileInv /\ file[n].schedule # NoSchedule
  BY RangeIs, ListedNames DEF Inv, TypeOK, FileInv
<1>2. result[n] = "none"
  BY DEF Inv, SetInv
<1>3. Parent(n) = NoName \/ (Parent(n) \in Names /\ result[Parent(n)] = "success")
  BY <1>1 DEF Inv, SetInv
<1>4. Parent(n) # n
  BY <1>1, <1>2, <1>3, StoreAssumption
<1> QED
  BY <1>1, <1>3, <1>4 DEF Validate, Parent

\* A result becomes success only when the leader's answer arrives.
LEMMA OnlySetNext ==
  ASSUME Inv, [Next]_vars, NEW n \in Names, result[n] = "none", result'[n] = "success"
  PROVE  SetNext /\ n = Head(todo) /\ Answered(SetJob(jobs, n, file[n], FALSE, Tick).err)
<1>1. result \in [Names -> Results]
  BY DEF Inv, TypeOK
<1>2. result' # result
  OBVIOUS
<1>3. ~Place /\ ~TreeDone /\ ~SetDone /\ ~(UNCHANGED vars) /\ ~\E m \in Names : OtherDeletes(m)
  BY <1>2 DEF Place, TreeDone, SetDone, vars, OtherDeletes
<1>4. ASSUME NEW ok, Record(Head(todo), ok) PROVE n = Head(todo) /\ ok
  BY <1>1, <1>4 DEF Record
<1>5. ~SetFails
  BY <1>4 DEF SetFails
<1>6. SetNext
  BY <1>3, <1>5 DEF Next
<1>7. n = Head(todo) /\ Answered(SetJob(jobs, Head(todo), file[Head(todo)], FALSE, Tick).err)
  <2> DEFINE err == SetJob(jobs, Head(todo), file[Head(todo)], FALSE, Tick).err
  <2>1. result' = [result EXCEPT ![Head(todo)] = IF Answered(err) THEN "success" ELSE "fail"]
    BY <1>6 DEF SetNext, Record
  <2> HIDE DEF err
  <2>2. n = Head(todo) /\ Answered(err)
    BY <1>1, <2>1
  <2> QED
    BY <2>2 DEF err
<1> QED
  BY <1>6, <1>7

\* SuccessMeansStored (store.go:96-101, agent.go:797-803): when a job is
\* answered with success it is in the store below its parent, and the parent
\* too, whatever others deleted before.
THEOREM SuccessSafe == Spec => SuccessMeansStored
<1>1. ASSUME Inv, [Next]_vars, NEW n \in Listed, result[n] = "none", result'[n] = "success"
      PROVE  /\ jobs'[n].stored /\ jobs'[n].parent = file[n].parent
             /\ file[n].parent # NoName => jobs'[file[n].parent].stored
  <2> DEFINE set == SetJob(jobs, n, file[n], FALSE, Tick)
  <2>1. n \in Names
    BY <1>1, ListedNames DEF Inv, TypeOK
  <2>2. SetNext /\ n = Head(todo) /\ Answered(set.err)
    BY <1>1, <2>1, OnlySetNext
  <2>3. phase = "set" /\ todo # <<>> /\ jobs' = set.jobs
    BY <2>2 DEF SetNext
  <2>4. n \in Range(todo) /\ file[n] \in Job /\ Tick \in Nat /\ jobs \in Tables
    BY <1>1, <2>2, <2>3, NextJob DEF Inv, TypeOK, Tables
  <2>5. /\ Validate(n, file[n])
        /\ Parent(n) = NoName \/ Parent(n) \in Names \ {n}
    BY <1>1, <2>3, <2>4, SentValid
  <2>6. /\ ParentFound(jobs, file[n])
        /\ SameButDeps(Merge(file[n], jobs[n], FALSE, Tick), set.jobs[n])
    BY <2>1, <2>2, <2>4, <2>5, SetJobWritten DEF Answered
  <2>7. \A m \in Names \ {n} : SameButDeps(jobs[m], set.jobs[m])
    BY <2>1, <2>4, SetJobFrame
  <2> HIDE DEF set
  <2>8. jobs'[n].stored /\ jobs'[n].parent = file[n].parent
    BY <2>3, <2>6 DEF SameButDeps, Merge
  <2>9. file[n].parent # NoName => jobs'[file[n].parent].stored
    BY <2>3, <2>5, <2>6, <2>7 DEF ParentFound, SameButDeps, Parent
  <2> QED
    BY <2>8, <2>9
<1>2. Inv /\ [Next]_vars =>
        [\A n \in Listed : result[n] = "none" /\ result'[n] = "success" =>
           /\ jobs'[n].stored /\ jobs'[n].parent = file[n].parent
           /\ file[n].parent # NoName => jobs'[file[n].parent].stored]_vars
  BY <1>1
<1> QED
  BY <1>2, Invariant, PTL DEF Spec, SuccessMeansStored

\* An undisturbed restore: no job fails, every parent in the store is found,
\* the jobs sent are as the file says and the others as they were, dependents
\* apart.
StoreInv ==
  Undisturbed =>
    /\ \A n \in Names : ParentFound(jobs, jobs[n])
    /\ \A n \in Names :
         /\ result[n] # "fail"
         /\ result[n] = "none" => SameButDeps(before[n], jobs[n])
         /\ result[n] = "success" =>
              /\ jobs[n].stored /\ jobs[n].parent = file[n].parent
              /\ jobs[n].successCount = Larger(before[n].successCount, file[n].successCount)

\* The leader sets the next job of an undisturbed restore.
LEMMA SetNextStored ==
  ASSUME Inv, StoreInv, Undisturbed, SetNext
  PROVE  LET n == Head(todo)
         IN /\ \A m \in Names : ParentFound(jobs', jobs'[m])
            /\ \A m \in Names \ {n} : SameButDeps(jobs[m], jobs'[m])
            /\ result' = [result EXCEPT ![n] = "success"]
            /\ SameButDeps(Merge(file[n], jobs[n], FALSE, Tick), jobs'[n])
<1> DEFINE n == Head(todo)
           set == SetJob(jobs, n, file[n], FALSE, Tick)
<1>1. phase = "set" /\ todo # <<>> /\ jobs' = set.jobs /\ Record(n, Answered(set.err))
  BY DEF SetNext
<1>2. n \in Names /\ n \in Range(todo) /\ file[n] \in Job /\ Tick \in Nat /\ jobs \in Tables
  BY <1>1, NextJob DEF Inv, TypeOK, Tables
<1>3. /\ Validate(n, file[n])
      /\ Parent(n) = NoName \/ (Parent(n) \in Names /\ result[Parent(n)] = "success")
  BY <1>1, <1>2, SentValid
<1> HIDE DEF n
<1>4. ParentFound(jobs, file[n])
  BY <1>3 DEF StoreInv, ParentFound, Parent
<1>5. \A m \in Names : ParentFound(jobs, jobs[m])
  BY DEF StoreInv
<1>6. set.err = "none" /\ \A m \in Names : ParentFound(set.jobs, set.jobs[m])
  BY <1>2, <1>3, <1>4, <1>5, SetJobFound
<1>7. SameButDeps(Merge(file[n], jobs[n], FALSE, Tick), set.jobs[n])
  BY <1>2, <1>3, <1>6, SetJobWritten
<1>8. \A m \in Names \ {n} : SameButDeps(jobs[m], set.jobs[m])
  BY <1>2, SetJobFrame
<1> HIDE DEF set
<1>9. result' = [result EXCEPT ![n] = "success"]
  BY <1>1, <1>6 DEF Record, Answered
<1> QED
  BY <1>1, <1>6, <1>7, <1>8, <1>9 DEF n

\* An undisturbed step keeps StoreInv.
LEMMA StoreStep ==
  ASSUME Inv, StoreInv, [Next]_vars
  PROVE  StoreInv'
<1> SUFFICES ASSUME (Undisturbed)' PROVE StoreInv'
  BY DEF StoreInv
<1>1. deletes \in Nat /\ failures \in Nat /\ deletes + 1 # 0 /\ failures + 1 # 0
  <2>1. deletes \in Nat /\ failures \in Nat
    BY DEF Inv, TypeOK
  <2> QED
    BY SMT, <2>1
<1>2. deletes' = 0 /\ failures' = 0
  BY DEF Undisturbed
<1>3. ASSUME UNCHANGED <<fileVars, jobs, result, deletes, failures>> PROVE StoreInv'
  BY <1>3 DEF StoreInv, Undisturbed, fileVars
<1>4. CASE Place \/ TreeDone \/ SetDone \/ UNCHANGED vars
  <2>1. UNCHANGED <<fileVars, jobs, result, deletes, failures>>
    BY <1>4 DEF Place, TreeDone, SetDone, vars, fileVars
  <2> QED
    BY <1>3, <2>1
<1>5. ~SetFails /\ ~\E n \in Names : OtherDeletes(n)
  BY <1>1, <1>2 DEF SetFails, OtherDeletes
<1>6. CASE SetNext
  <2> DEFINE n == Head(todo)
             new == Merge(file[n], jobs[n], FALSE, Tick)
  <2>1. Undisturbed /\ file' = file /\ before' = before
    BY <1>2, <1>6 DEF SetNext, Undisturbed, fileVars
  <2>2. /\ \A m \in Names : ParentFound(jobs', jobs'[m])
        /\ \A m \in Names \ {n} : SameButDeps(jobs[m], jobs'[m])
        /\ result' = [result EXCEPT ![n] = "success"]
        /\ SameButDeps(new, jobs'[n])
    BY <1>6, <2>1, SetNextStored
  <2>3. n \in Names /\ result[n] = "none" /\ result \in [Names -> Results]
    BY <1>6, NextJob DEF SetNext, Inv, SetInv, TypeOK
  <2>4. /\ new.stored /\ new.parent = file[n].parent
        /\ new.successCount = Larger(jobs[n].successCount, file[n].successCount)
    BY DEF Merge
  <2>5. SameButDeps(before[n], jobs[n])
    BY <2>1, <2>3 DEF StoreInv
  <2> HIDE DEF n, new
  <2>6. /\ jobs'[n].stored /\ jobs'[n].parent = file[n].parent
        /\ jobs'[n].successCount = Larger(before[n].successCount, file[n].successCount)
    BY <2>2, <2>4, <2>5 DEF SameButDeps
  <2>7. result'[n] = "success" /\ \A m \in Names \ {n} : result'[m] = result[m]
    BY <2>2, <2>3
  <2>8. ASSUME NEW m \in Names
        PROVE  /\ result'[m] # "fail"
               /\ result'[m] = "none" => SameButDeps(before[m], jobs'[m])
               /\ result'[m] = "success" =>
                    /\ jobs'[m].stored /\ jobs'[m].parent = file[m].parent
                    /\ jobs'[m].successCount = Larger(before[m].successCount, file[m].successCount)
    <3>1. CASE m = n
      BY <2>6, <2>7, <3>1
    <3>2. CASE m # n
      <4>1. result'[m] = result[m] /\ SameButDeps(jobs[m], jobs'[m])
        BY <2>2, <2>7, <3>2
      <4>2. /\ result[m] # "fail"
            /\ result[m] = "none" => SameButDeps(before[m], jobs[m])
            /\ result[m] = "success" =>
                 /\ jobs[m].stored /\ jobs[m].parent = file[m].parent
                 /\ jobs[m].successCount = Larger(before[m].successCount, file[m].successCount)
        BY <2>1 DEF StoreInv
      <4> QED
        BY <4>1, <4>2, SameButDepsTrans DEF SameButDeps
    <3> QED
      BY <3>1, <3>2
  <2> QED
    BY <2>1, <2>2, <2>8 DEF StoreInv
<1> QED
  BY <1>4, <1>5, <1>6 DEF Next

\* StoreInv holds throughout.
LEMMA StoreInvariant == Spec => []StoreInv
<1>1. ASSUME Init PROVE StoreInv
  <2>1. jobs = before /\ \A n \in Names : result[n] = "none"
    BY <1>1 DEF Init
  <2>2. Linked(before)
    BY <1>1, InitInv DEF TypeOK, FileInv
  <2>3. \A n \in Names : ParentFound(jobs, jobs[n])
    BY <2>1, <2>2 DEF Linked, ParentFound
  <2>4. \A n \in Names : SameButDeps(before[n], jobs[n])
    BY <2>1 DEF SameButDeps
  <2> QED
    BY <2>1, <2>3, <2>4 DEF StoreInv
<1>2. Inv /\ StoreInv /\ [Next]_vars => StoreInv'
  BY StoreStep
<1> QED
  BY <1>1, <1>2, Invariant, PTL DEF Spec

\* RestoresAll: undisturbed, every job of the file is answered with success and
\* stored below its parent, with the larger of the two success counts, whatever
\* consistent store it is restored into.
THEOREM AllRestored == Spec => []RestoresAll
<1>1. ASSUME Inv, StoreInv, phase = "done", Undisturbed, NEW n \in Listed
      PROVE  /\ result[n] = "success"
             /\ jobs[n].stored /\ jobs[n].parent = file[n].parent
             /\ jobs[n].successCount = Larger(before[n].successCount, file[n].successCount)
  <2>1. Listed \subseteq Names
    BY <1>1, ListedNames DEF Inv, TypeOK
  <2>2. \A m \in Listed : result[m] # "fail"
    BY <1>1, <2>1 DEF StoreInv
  <2>3. result[n] # "none"
    BY <1>1, <2>2, NoneMeansFailure
  <2>4. result[n] \in Results
    BY <1>1, <2>1 DEF Inv, TypeOK
  <2>5. result[n] = "success"
    BY <2>2, <2>3, <2>4 DEF Results
  <2> QED
    BY <1>1, <2>1, <2>5 DEF StoreInv
<1>2. Inv /\ StoreInv => RestoresAll
  BY <1>1 DEF RestoresAll
<1> QED
  BY <1>2, Invariant, StoreInvariant, PTL

-----------------------------------------------------------------------------
(* The links between the jobs. *)

\* The two restores LinksRestored is about: over the jobs that were exported,
\* and of a file without dependents into an empty store.
IntoEmpty == before = Table(<<>>, TRUE, 2) /\ \A n \in Names : file[n].deps = NoDeps

\* Undisturbed, the links are consistent at every moment of these restores; in
\* the first one no job changes its parent.
LinksInv ==
  /\ Undisturbed /\ (SameLinks \/ IntoEmpty) => Linked(jobs)
  /\ Undisturbed /\ SameLinks => \A n \in Names : jobs[n].parent = file[n].parent

\* Two tables with consistent links and the same parents have the same
\* dependents.
LEMMA LinkedDeps ==
  ASSUME NEW f \in Tables, NEW g \in Tables, Linked(f), Linked(g),
         \A c \in Names : f[c].parent = g[c].parent, NEW n \in Names
  PROVE  f[n].deps = g[n].deps
<1>1. \A c \in Names : f[n].deps[c] = IF f[c].parent = n THEN 1 ELSE 0
  BY DEF Linked
<1>2. \A c \in Names : g[n].deps[c] = IF g[c].parent = n THEN 1 ELSE 0
  BY DEF Linked
<1>3. \A c \in Names : f[n].deps[c] = g[n].deps[c]
  BY <1>1, <1>2
<1>4. f[n].deps \in [Names -> Nat] /\ g[n].deps \in [Names -> Nat]
  BY DEF Tables, Job
<1> DEFINE d == f[n].deps
           e == g[n].deps
<1>5. d \in [Names -> Nat] /\ e \in [Names -> Nat] /\ \A c \in Names : d[c] = e[c]
  BY <1>3, <1>4
<1> HIDE DEF d, e
<1>6. d = e
  BY SMT, <1>5
<1> QED
  BY <1>6 DEF d, e

\* An empty store holds no job.
LEMMA EmptyStored ==
  ASSUME NEW n \in Names
  PROVE  ~Table(<<>>, TRUE, 2)[n].stored
<1>1. DOMAIN <<>> = {} /\ 2 \in Nat /\ TRUE \in BOOLEAN
  BY SMT
<1>2. HasParents(Table(<<>>, TRUE, 2), <<>>)
  BY <1>1, TableIs
<1>3. Table(<<>>, TRUE, 2)[n] = ZeroJob
  BY <1>1, <1>2 DEF HasParents
<1>4. ZeroJob.stored = FALSE
  BY DEF ZeroJob
<1> QED
  BY <1>3, <1>4

\* The job sent next lists the dependents it has in the store.
LEMMA SentDeps ==
  ASSUME Inv, StoreInv, LinksInv, Undisturbed, SameLinks \/ IntoEmpty,
         NEW n \in Names, result[n] = "none"
  PROVE  file[n].deps = jobs[n].deps
<1>1. jobs \in Tables /\ before \in Tables /\ Linked(jobs) /\ Linked(before)
  BY DEF Inv, TypeOK, FileInv, LinksInv, Tables
<1>2. CASE SameLinks
  <2>1. \A c \in Names : jobs[c].parent = before[c].parent
    BY <1>2 DEF LinksInv, SameLinks
  <2>2. jobs[n].deps = before[n].deps
    BY <1>1, <2>1, LinkedDeps
  <2> QED
    BY <1>2, <2>2 DEF SameLinks
<1>3. CASE IntoEmpty
  <2>1. ~jobs[n].stored
    <3>1. SameButDeps(before[n], jobs[n])
      BY DEF StoreInv
    <3> QED
      BY <1>3, <3>1, EmptyStored DEF IntoEmpty, SameButDeps
  <2>2. \A c \in Names : jobs[c].parent # n
    <3> SUFFICES ASSUME NEW c \in Names, jobs[c].parent = n PROVE FALSE
      OBVIOUS
    <3>1. jobs[c].parent # NoName
      BY StoreAssumption
    <3>2. \A m \in Names : jobs[m].parent # NoName => jobs[jobs[m].parent].stored
      BY <1>1 DEF Linked
    <3> QED
      BY <2>1, <3>1, <3>2
  <2>3. \A c \in Names : jobs[n].deps[c] = 0
    <3> TAKE c \in Names
    <3>1. jobs[n].deps[c] = IF jobs[c].parent = n THEN 1 ELSE 0
      BY <1>1 DEF Linked
    <3> QED
      BY <2>2, <3>1
  <2>4. jobs[n].deps \in [Names -> Nat]
    BY <1>1 DEF Tables, Job
  <2>5. jobs[n].deps = NoDeps
    BY <2>3, <2>4 DEF NoDeps
  <2> QED
    BY <1>3, <2>5 DEF IntoEmpty
<1> QED
  BY <1>2, <1>3

\* An undisturbed step keeps the links.
LEMMA LinksStep ==
  ASSUME Inv, StoreInv, LinksInv, [Next]_vars
  PROVE  LinksInv'
<1> SUFFICES ASSUME (Undisturbed)', (SameLinks \/ IntoEmpty)' PROVE LinksInv'
  BY DEF LinksInv
<1>1. deletes \in Nat /\ failures \in Nat /\ deletes + 1 # 0 /\ failures + 1 # 0
  <2>1. deletes \in Nat /\ failures \in Nat
    BY DEF Inv, TypeOK
  <2> QED
    BY SMT, <2>1
<1>2. deletes' = 0 /\ failures' = 0
  BY DEF Undisturbed
<1>3. ~SetFails /\ ~\E n \in Names : OtherDeletes(n)
  BY <1>1, <1>2 DEF SetFails, OtherDeletes
<1>4. file' = file /\ before' = before /\ deletes' = deletes /\ failures' = failures
  BY <1>3 DEF Next, Place, TreeDone, SetNext, SetDone, vars, fileVars
<1>5. /\ (SameLinks)' = SameLinks /\ (IntoEmpty)' = IntoEmpty /\ (Undisturbed)' = Undisturbed
  BY <1>4 DEF SameLinks, IntoEmpty, Undisturbed, Table
<1>6. CASE Place \/ TreeDone \/ SetDone \/ UNCHANGED vars
  <2>1. jobs' = jobs
    BY <1>6 DEF Place, TreeDone, SetDone, vars
  <2> QED
    BY <1>4, <1>5, <2>1 DEF LinksInv
<1>7. CASE SetNext
  <2> DEFINE n == Head(todo)
             set == SetJob(jobs, n, file[n], FALSE, Tick)
  <2>1. /\ todo # <<>> /\ jobs' = set.jobs
    BY <1>7 DEF SetNext
  <2>2. n \in Names /\ result[n] = "none" /\ file[n] \in Job /\ Tick \in Nat /\ jobs \in Tables
    BY <2>1, NextJob DEF Inv, SetInv, TypeOK, Tables
  <2> HIDE DEF n
  <2>3. Linked(jobs) /\ file[n].deps = jobs[n].deps
    BY <1>5, <2>2, SentDeps DEF LinksInv
  <2>4. Linked(set.jobs)
    BY <2>2, <2>3, SetJobLinks
  <2>5. /\ \A m \in Names \ {n} : SameButDeps(jobs[m], set.jobs[m])
        /\ \/ SameButDeps(jobs[n], set.jobs[n])
           \/ SameButDeps(Merge(file[n], jobs[n], FALSE, Tick), set.jobs[n])
    BY <2>2, SetJobFrame
  <2>6. Merge(file[n], jobs[n], FALSE, Tick).parent = file[n].parent
    BY DEF Merge
  <2> HIDE DEF set
  <2>7. ASSUME SameLinks, NEW m \in Names PROVE jobs'[m].parent = file[m].parent
    <3>1. jobs[m].parent = file[m].parent
      BY <1>5, <2>7 DEF LinksInv
    <3> QED
      BY <2>1, <2>5, <2>6, <3>1 DEF SameButDeps
  <2> QED
    BY <1>4, <1>5, <2>1, <2>4, <2>7 DEF LinksInv
<1> QED
  BY <1>3, <1>6, <1>7 DEF Next

\* LinksRestored (store.go:155-163): undisturbed, ParentJob and DependentJobs
\* mirror each other after a restore over the jobs that were exported, and
\* after one of a file without dependents into an empty store.
THEOREM RestoreLinks == Spec => []LinksRestored
<1>1. ASSUME Init PROVE LinksInv
  <2>1. jobs = before /\ Linked(before)
    BY <1>1, InitInv DEF Init, TypeOK, FileInv
  <2> QED
    BY <2>1 DEF LinksInv, SameLinks
<1>2. Inv /\ StoreInv /\ LinksInv /\ [Next]_vars => LinksInv'
  BY LinksStep
<1>3. LinksInv => LinksRestored
  BY DEF LinksInv, LinksRestored, IntoEmpty, Linked, Mirrors
<1> QED
  BY <1>1, <1>2, <1>3, Invariant, StoreInvariant, PTL DEF Spec

=============================================================================
