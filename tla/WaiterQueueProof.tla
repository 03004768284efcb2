-------------------------- MODULE WaiterQueueProof --------------------------
(***************************************************************************)
(* Proofs about the waiter queue, and about Mutex, Semaphore and           *)
(* AutoResetEvent, for any finite set of threads, any set of tasks and any *)
(* number of rounds.  The first part is about WaiterData: what it          *)
(* guarantees to whoever is built on it, for every sequence of             *)
(* acquisitions, suspensions, updates of the word and wakes.  Each of the  *)
(* three is a user of this kind, and seen from outside a PermitQueue.  The *)
(* last part says it of MCWaiterQueue, where a behaviour is one of them.   *)
(***************************************************************************)
EXTENDS MCWaiterQueue, WaiterData, FiniteSetTheorems, TLAPS

USE ThreadsAssumption, NoTaskAssumption, RoundsAssumption

\* An attempt that does not suspend: try_lock, try_acquire, reset.
Try(th) ==
  /\ pc[th] = "user" /\ alive
  /\ count' = count \/ (CanAcquire /\ count' = count - 1)
  /\ own' \subseteq Tasks /\ rounds' \in [Tasks -> 0..MaxRounds]
  /\ UNCHANGED <<waiters, input, output, alive, tstate, locals>>

\* Permits are added to the word: unlock, release, set, and their co_ forms.
Give(th, m) ==
  /\ pc[th] = "user" /\ alive
  /\ count' \in Nat /\ count' >= count /\ waiters' = waiters
  /\ own' \subseteq Tasks
  /\ MaybeWake(th, m)
  /\ UNCHANGED <<input, output, alive, rounds, pending, woken>>

UserStep(th) ==
  \/ CommonStep(th) \/ Complete(th) \/ Await(th) \/ Try(th)
  \/ \E m \in Modes : Give(th, m)
WaiterInit == \E n \in Nat : InitWith(n)
WaiterSpec == WaiterInit /\ [][\E th \in Threads : UserStep(th)]_vars
----------------------------------------------------------------------------
(* Lists. *)

LEMMA ReverseFacts ==
  ASSUME NEW D, NEW s \in Seq(D)
  PROVE  /\ Reverse(s) \in Seq(D) /\ Len(Reverse(s)) = Len(s)
         /\ \A i \in 1..Len(s) : Reverse(s)[i] = s[Len(s) - i + 1]
BY DEF Reverse

\* A list and the reverse of a stack: what is pushed on the stack comes last.
LEMMA PushedLast ==
  ASSUME NEW D, NEW s \in Seq(D), NEW o \in Seq(D), NEW t \in D
  PROVE  o \o Reverse(<<t>> \o s) = Append(o \o Reverse(s), t)
<1>1. <<t>> \o s \in Seq(D) /\ Len(<<t>> \o s) = Len(s) + 1
      /\ (\A i \in 1..(Len(s) + 1) : (<<t>> \o s)[i] = IF i = 1 THEN t ELSE s[i - 1])
  OBVIOUS
<1> DEFINE p == <<t>> \o s
<1> HIDE DEF p
<1>2. /\ Reverse(p) \in Seq(D) /\ Len(Reverse(p)) = Len(s) + 1
      /\ \A i \in 1..(Len(s) + 1) :
           Reverse(p)[i] = IF i = Len(s) + 1 THEN t ELSE s[Len(s) - i + 1]
  <2>1. p \in Seq(D) /\ Len(p) = Len(s) + 1
        /\ (\A i \in 1..(Len(s) + 1) : p[i] = IF i = 1 THEN t ELSE s[i - 1])
    BY <1>1 DEF p
  <2>2. /\ Reverse(p) \in Seq(D) /\ Len(Reverse(p)) = Len(p)
        /\ \A i \in 1..Len(p) : Reverse(p)[i] = p[Len(p) - i + 1]
    BY <2>1, ReverseFacts
  <2>3. ASSUME NEW i \in 1..(Len(s) + 1)
        PROVE  Reverse(p)[i] = IF i = Len(s) + 1 THEN t ELSE s[Len(s) - i + 1]
    <3>1. Reverse(p)[i] = p[Len(s) + 1 - i + 1]
      BY <2>1, <2>2
    <3>2. Len(s) + 1 - i + 1 \in 1..(Len(s) + 1) /\ Len(s) + 1 - i + 1 - 1 = Len(s) - i + 1
          /\ (Len(s) + 1 - i + 1 = 1 <=> i = Len(s) + 1)
      OBVIOUS
    <3> QED BY <2>1, <3>1, <3>2
  <2> QED BY <2>1, <2>2, <2>3
<1>3. /\ Reverse(s) \in Seq(D) /\ Len(Reverse(s)) = Len(s)
      /\ \A i \in 1..Len(s) : Reverse(s)[i] = s[Len(s) - i + 1]
  BY ReverseFacts
<1>4. Reverse(p) = Append(Reverse(s), t)
  BY <1>2, <1>3
<1>5. o \o Append(Reverse(s), t) = Append(o \o Reverse(s), t)
  BY <1>3
<1> QED BY <1>4, <1>5 DEF p

\* Lists without repetition.
LEMMA PushInjective ==
  ASSUME NEW D, NEW s \in Seq(D), NEW t \in D, IsInjective(s), t \notin ToSet(s)
  PROVE  /\ Append(s, t) \in Seq(D) /\ IsInjective(Append(s, t))
         /\ ToSet(Append(s, t)) = ToSet(s) \cup {t}
<1>1. /\ Append(s, t) \in Seq(D) /\ Len(Append(s, t)) = Len(s) + 1
      /\ DOMAIN Append(s, t) = 1..(Len(s) + 1) /\ DOMAIN s = 1..Len(s)
      /\ \A i \in 1..(Len(s) + 1) : Append(s, t)[i] = IF i = Len(s) + 1 THEN t ELSE s[i]
  OBVIOUS
<1>2. ToSet(Append(s, t)) = ToSet(s) \cup {t}
  BY <1>1 DEF ToSet
<1>3. IsInjective(Append(s, t))
  BY <1>1 DEF IsInjective, ToSet
<1> QED BY <1>1, <1>2, <1>3

LEMMA TailInjective ==
  ASSUME NEW D, NEW s \in Seq(D), s # <<>>, IsInjective(s)
  PROVE  /\ Head(s) \in ToSet(s) /\ Head(s) \in D
         /\ Tail(s) \in Seq(D) /\ Len(Tail(s)) = Len(s) - 1 /\ IsInjective(Tail(s))
         /\ ToSet(Tail(s)) = ToSet(s) \ {Head(s)}
<1>1. /\ Len(s) \in Nat /\ Len(s) >= 1 /\ DOMAIN s = 1..Len(s)
      /\ Tail(s) \in Seq(D) /\ Len(Tail(s)) = Len(s) - 1
      /\ DOMAIN Tail(s) = 1..(Len(s) - 1)
      /\ \A i \in 1..(Len(s) - 1) : Tail(s)[i] = s[i + 1]
      /\ Head(s) = s[1] /\ s[1] \in D
  OBVIOUS
<1>2. Head(s) \in ToSet(s)
  BY <1>1 DEF ToSet
<1>3. IsInjective(Tail(s))
  BY <1>1 DEF IsInjective
<1>4. ToSet(Tail(s)) = ToSet(s) \ {Head(s)}
  <2>1. ASSUME NEW x \in ToSet(Tail(s)) PROVE x \in ToSet(s) \ {Head(s)}
    BY <1>1 DEF ToSet, IsInjective
  <2>2. ASSUME NEW x \in ToSet(s) \ {Head(s)} PROVE x \in ToSet(Tail(s))
    <3>1. PICK i \in 1..Len(s) : s[i] = x
      BY <1>1 DEF ToSet
    <3>2. i # 1 /\ i - 1 \in 1..(Len(s) - 1) /\ Tail(s)[i - 1] = x
      BY <1>1, <3>1
    <3> QED BY <1>1, <3>2 DEF ToSet
  <2> QED BY <2>1, <2>2
<1> QED BY <1>1, <1>2, <1>3, <1>4

LEMMA RemoveAtInjective ==
  ASSUME NEW D, NEW s \in Seq(D), NEW i \in 1..Len(s), IsInjective(s)
  PROVE  /\ RemoveAt(s, i) \in Seq(D) /\ IsInjective(RemoveAt(s, i))
         /\ ToSet(RemoveAt(s, i)) = ToSet(s) \ {s[i]} /\ s[i] \in D
         /\ s[i] \in ToSet(s)
<1> DEFINE r == RemoveAt(s, i)
           n == Len(s)
<1>1. /\ n \in Nat /\ DOMAIN s = 1..n /\ s[i] \in D
      /\ r \in Seq(D) /\ Len(r) = n - 1 /\ DOMAIN r = 1..(n - 1)
      /\ \A j \in 1..(n - 1) : r[j] = IF j < i THEN s[j] ELSE s[j + 1]
  <2>1. SubSeq(s, 1, i - 1) \in Seq(D) /\ Len(SubSeq(s, 1, i - 1)) = i - 1
        /\ (\A j \in 1..(i - 1) : SubSeq(s, 1, i - 1)[j] = s[j])
    OBVIOUS
  <2>2. SubSeq(s, i + 1, n) \in Seq(D) /\ Len(SubSeq(s, i + 1, n)) = n - i
        /\ (\A j \in 1..(n - i) : SubSeq(s, i + 1, n)[j] = s[j + i])
    OBVIOUS
  <2> HIDE DEF n
  <2>3. n \in Nat /\ i \in 1..n
    BY DEF n
  <2>4. r = SubSeq(s, 1, i - 1) \o SubSeq(s, i + 1, n)
    BY DEF RemoveAt, n
  <2>5. r \in Seq(D) /\ Len(r) = n - 1
        /\ (\A j \in 1..(n - 1) : r[j] = IF j < i THEN s[j] ELSE s[j + 1])
    <3> DEFINE u == SubSeq(s, 1, i - 1)
               v == SubSeq(s, i + 1, n)
    <3>1. /\ u \in Seq(D) /\ Len(u) = i - 1 /\ (\A j \in 1..(i - 1) : u[j] = s[j])
          /\ v \in Seq(D) /\ Len(v) = n - i /\ (\A j \in 1..(n - i) : v[j] = s[j + i])
          /\ r = u \o v
      BY <2>1, <2>2, <2>4 DEF n
    <3> HIDE DEF u, v, r
    <3>2. /\ u \o v \in Seq(D) /\ Len(u \o v) = n - 1
          /\ \A j \in 1..(n - 1) : (u \o v)[j] = IF j <= i - 1 THEN u[j] ELSE v[j - (i - 1)]
      <4>1. u \in Seq(D) /\ v \in Seq(D) /\ Len(u) + Len(v) = n - 1
        BY <2>3, <3>1
      <4>2. /\ u \o v \in Seq(D) /\ Len(u \o v) = Len(u) + Len(v)
            /\ \A j \in 1..(Len(u) + Len(v)) :
                 (u \o v)[j] = IF j <= Len(u) THEN u[j] ELSE v[j - Len(u)]
        BY <4>1
      <4> QED BY <3>1, <4>1, <4>2
    <3>3. ASSUME NEW j \in 1..(n - 1) PROVE r[j] = IF j < i THEN s[j] ELSE s[j + 1]
      <4>1. CASE j < i
        BY <2>3, <3>1, <3>2, <4>1
      <4>2. CASE ~(j < i)
        <5>1. j - (i - 1) \in 1..(n - i) /\ j - (i - 1) + i = j + 1 /\ ~(j <= i - 1)
          BY <2>3, <4>2
        <5> QED BY <3>1, <3>2, <5>1, <4>2
      <4> QED BY <4>1, <4>2
    <3> QED BY <2>3, <3>1, <3>2, <3>3
  <2> QED BY <2>3, <2>5 DEF n
<1> HIDE DEF r, n
<1>2. IsInjective(r)
  <2>1. \A j \in 1..(n - 1) : r[j] = s[IF j < i THEN j ELSE j + 1]
    BY <1>1
  <2>2. \A j \in 1..(n - 1) : (IF j < i THEN j ELSE j + 1) \in 1..n
    BY <1>1
  <2>3. \A j, k \in 1..(n - 1) :
          (IF j < i THEN j ELSE j + 1) = (IF k < i THEN k ELSE k + 1) => j = k
    BY <1>1
  <2> QED BY <1>1, <2>1, <2>2, <2>3 DEF IsInjective
<1>3. ToSet(r) = ToSet(s) \ {s[i]}
  <2>1. ASSUME NEW x \in ToSet(r) PROVE x \in ToSet(s) \ {s[i]}
    <3>1. PICK j \in 1..(n - 1) : r[j] = x
      BY <1>1, <2>1 DEF ToSet
    <3>2. PICK k \in 1..n : s[k] = x /\ k # i
      BY <1>1, <3>1
    <3> QED BY <1>1, <3>2 DEF ToSet, IsInjective, n
  <2>2. ASSUME NEW x \in ToSet(s) \ {s[i]} PROVE x \in ToSet(r)
    <3>1. PICK k \in 1..n : s[k] = x /\ k # i
      BY <1>1, <2>2 DEF ToSet
    <3>2. PICK j \in 1..(n - 1) : r[j] = x
      <4>1. CASE k < i
        BY <1>1, <3>1, <4>1 DEF n
      <4>2. CASE ~(k < i)
        <5>1. k - 1 \in 1..(n - 1) /\ r[k - 1] = x
          BY <1>1, <3>1, <4>2
        <5> QED BY <5>1
      <4> QED BY <4>1, <4>2
    <3> QED BY <1>1, <3>2 DEF ToSet
  <2> QED BY <2>1, <2>2
<1> QED BY <1>1, <1>2, <1>3 DEF r, n, ToSet

\* The order of the stack does not matter to who is listed.
LEMMA ReverseInjective ==
  ASSUME NEW D, NEW s \in Seq(D), NEW o \in Seq(D), IsInjective(o \o Reverse(s))
  PROVE  /\ o \o s \in Seq(D) /\ IsInjective(o \o s)
         /\ ToSet(o \o s) = ToSet(o \o Reverse(s))
<1> DEFINE r == Reverse(s)
           a == o \o s
           b == o \o r
           m == Len(o)
           n == Len(s)
           f(i) == IF i <= m THEN i ELSE m + n - (i - m) + 1
<1>1. /\ r \in Seq(D) /\ Len(r) = n /\ n \in Nat /\ m \in Nat
      /\ \A i \in 1..n : r[i] = s[n - i + 1]
  BY ReverseFacts
<1> HIDE DEF r
<1>2. /\ a \in Seq(D) /\ Len(a) = m + n /\ DOMAIN a = 1..(m + n)
      /\ \A i \in 1..(m + n) : a[i] = IF i <= m THEN o[i] ELSE s[i - m]
  OBVIOUS
<1>3. /\ DOMAIN b = 1..(m + n)
      /\ \A i \in 1..(m + n) : b[i] = IF i <= m THEN o[i] ELSE r[i - m]
  <2>1. /\ DOMAIN (o \o r) = 1..(Len(o) + Len(r))
        /\ \A i \in 1..(Len(o) + Len(r)) :
             (o \o r)[i] = IF i <= Len(o) THEN o[i] ELSE r[i - Len(o)]
    <3>1. o \in Seq(D) /\ r \in Seq(D)
      BY <1>1
    <3> QED BY <3>1
  <2> QED BY <1>1, <2>1
<1> HIDE DEF a, b, m, n
<1>4. ASSUME NEW i \in 1..(m + n)
      PROVE  f(i) \in 1..(m + n) /\ a[i] = b[f(i)] /\ b[i] = a[f(i)]
  <2>1. CASE i <= m
    BY <1>1, <1>2, <1>3, <2>1
  <2>2. CASE ~(i <= m)
    <3>1. i - m \in 1..n /\ f(i) \in 1..(m + n) /\ f(i) - m = n - (i - m) + 1 /\ ~(f(i) <= m)
      BY <1>1, <2>2
    <3>2. n - (i - m) + 1 \in 1..n /\ n - (n - (i - m) + 1) + 1 = i - m
      BY <1>1, <3>1
    <3>3. a[i] = s[i - m] /\ b[i] = r[i - m]
      BY <1>2, <1>3, <2>2
    <3>4. a[f(i)] = s[n - (i - m) + 1] /\ b[f(i)] = r[n - (i - m) + 1]
      BY <1>2, <1>3, <3>1
    <3> QED BY <1>1, <3>1, <3>2, <3>3, <3>4
  <2> QED BY <2>1, <2>2
<1>5. ASSUME NEW i \in 1..(m + n), NEW j \in 1..(m + n), f(i) = f(j) PROVE i = j
  <2>1. CASE i <= m /\ j <= m
    BY <1>1, <1>5, <2>1
  <2>2. CASE ~(i <= m) /\ ~(j <= m)
    BY <1>1, <1>5, <2>2
  <2>3. ASSUME NEW k \in 1..(m + n), ~(k <= m) PROVE m + n - (k - m) + 1 > m
    BY <1>1, <2>3
  <2> QED BY <1>1, <1>5, <2>1, <2>2, <2>3
<1> HIDE DEF f
<1>6. IsInjective(b)
  BY DEF b, r
<1>7. IsInjective(a)
  BY <1>2, <1>3, <1>4, <1>5, <1>6 DEF IsInjective
<1>8. ToSet(a) = ToSet(b)
  <2>1. ToSet(a) = {a[i] : i \in 1..(m + n)} /\ ToSet(b) = {b[i] : i \in 1..(m + n)}
    BY <1>2, <1>3 DEF ToSet
  <2>2. ASSUME NEW i \in 1..(m + n)
        PROVE  a[i] \in {b[k] : k \in 1..(m + n)} /\ b[i] \in {a[k] : k \in 1..(m + n)}
    BY <1>4
  <2> QED BY <2>1, <2>2
<1> QED BY <1>2, <1>7, <1>8 DEF a, b, r

\* A list without repetition has as many members as entries.
LEMMA InjectiveCount ==
  ASSUME NEW D, NEW s \in Seq(D), IsInjective(s)
  PROVE  IsFiniteSet(ToSet(s)) /\ Cardinality(ToSet(s)) = Len(s)
<1>1. Len(s) \in Nat /\ DOMAIN s = 1..Len(s) /\ s \in [1..Len(s) -> D]
  OBVIOUS
<1>2. s \in [1..Len(s) -> ToSet(s)]
  BY <1>1 DEF ToSet
<1>3. s \in Bijection(1..Len(s), ToSet(s))
  BY <1>1, <1>2 DEF Bijection, Injection, Surjection, IsInjective, ToSet
<1>4. ExistsBijection(1..Len(s), ToSet(s))
  BY <1>3 DEF ExistsBijection
<1>5. IsFiniteSet(1..Len(s)) /\ Cardinality(1..Len(s)) = Len(s)
  BY <1>1, FS_Interval
<1> QED BY <1>4, <1>5, FS_Bijection
----------------------------------------------------------------------------
(* The inductive invariant. *)

\* Nodes promised by the word to the thread in the section are still covered; nobody
\* else holds nodes that are not paid for.
SectionInv ==
  \A th \in Threads :
    IF InSection(th)
    THEN /\ want[th] >= 1 /\ count >= want[th] /\ waiters >= want[th]
         /\ IF pc[th] = "take" THEN Len(pending[th]) < want[th]
                               ELSE Len(pending[th]) = want[th]
    ELSE pending[th] = <<>>

\* A permit and a registered waiter do not stay together unless somebody is about to
\* hand the one to the other.
WordInv == alive => count = 0 \/ waiters = 0 \/ \E th \in Threads : InSection(th)

\* A thread in user code, or about to suspend or to transfer, runs a task, which is
\* running and which no other thread runs.
SelfInv ==
  /\ \A th \in Threads :
       /\ pc[th] \in {"user", "suspend"} => self[th] \in Tasks
       /\ InSection(th) \/ pc[th] = "resume" => mode[th] = "post" \/ self[th] \in Tasks
       /\ self[th] \in Tasks => tstate[self[th]] = "running"
  /\ \A a, b \in Threads : self[a] = self[b] /\ self[a] \in Tasks => a = b

\* The destructor's caller has excluded everybody else.
DeadInv == ~alive => /\ \A th \in Threads : pc[th] \in {"idle", "user", "resume"}
                     /\ input = <<>> /\ output = <<>>

\* Who has been taken off the lists by a thread and is not resumed yet, oldest first.
Hand(th) == woken[th] \o pending[th]

\* A task that waits is in one place of one list, and whoever is listed waits.
LineInv ==
  /\ IsInjective(Waiting) /\ \A th \in Threads : IsInjective(Hand(th))
  /\ \A t \in ToSet(Waiting) : tstate[t] = "waiting"
  /\ \A th \in Threads : \A t \in ToSet(Hand(th)) :
       /\ tstate[t] = "waiting" /\ t \notin ToSet(Waiting)
       /\ \A o \in Threads \ {th} : t \notin ToSet(Hand(o))

\* Registered waiters, with those about to register, are the tasks in the lists and the
\* tasks taken from them that are not paid for.
Adders == {th \in Threads : pc[th] = "add_waiter"}
CountInv == alive => waiters + Cardinality(Adders) = Len(Waiting) + InHand

SectionPart == SingleWaker /\ SectionInv /\ WordInv
ControlInv == SectionPart /\ SelfInv /\ DeadInv
WInv == TypeOK /\ ControlInv /\ LineInv /\ CountInv
----------------------------------------------------------------------------
(* Facts about one state. *)

LEMMA ConcatFacts ==
  ASSUME NEW D, NEW u \in Seq(D), NEW v \in Seq(D)
  PROVE  /\ u \o v \in Seq(D) /\ Len(u \o v) = Len(u) + Len(v)
         /\ u = <<>> => u \o v = v
         /\ v = <<>> => u \o v = u
         /\ ToSet(u \o v) = ToSet(u) \cup ToSet(v)
         /\ IsInjective(u \o v) => IsInjective(u) /\ IsInjective(v)
<1>1. /\ u \o v \in Seq(D) /\ Len(u \o v) = Len(u) + Len(v)
      /\ Len(u) \in Nat /\ Len(v) \in Nat
      /\ DOMAIN u = 1..Len(u) /\ DOMAIN v = 1..Len(v)
      /\ DOMAIN (u \o v) = 1..(Len(u) + Len(v))
  OBVIOUS
<1>2. \A i \in 1..Len(u) : i \in 1..(Len(u) + Len(v)) /\ (u \o v)[i] = u[i]
  BY <1>1
<1>3. ASSUME NEW i \in 1..Len(v)
      PROVE  Len(u) + i \in 1..(Len(u) + Len(v)) /\ (u \o v)[Len(u) + i] = v[i]
  BY <1>1
<1>4. (u = <<>> => u \o v = v) /\ (v = <<>> => u \o v = u)
  OBVIOUS
<1>5. ToSet(u \o v) = ToSet(u) \cup ToSet(v)
  <2>1. ASSUME NEW i \in 1..(Len(u) + Len(v))
        PROVE  (u \o v)[i] \in ToSet(u) \cup ToSet(v)
    <3>1. CASE i <= Len(u)
      <4>1. i \in 1..Len(u)
        BY <1>1, <3>1
      <4> QED BY <1>1, <1>2, <4>1 DEF ToSet
    <3>2. CASE ~(i <= Len(u))
      <4>1. i - Len(u) \in 1..Len(v) /\ Len(u) + (i - Len(u)) = i
        BY <1>1, <3>2
      <4>2. (u \o v)[i] = v[i - Len(u)]
        BY <1>3, <4>1
      <4> QED BY <1>1, <4>1, <4>2 DEF ToSet
    <3> QED BY <3>1, <3>2
  <2>2. ToSet(u \o v) \subseteq ToSet(u) \cup ToSet(v)
    BY <1>1, <2>1 DEF ToSet
  <2>3. ToSet(u) \subseteq ToSet(u \o v)
    <3>1. ASSUME NEW x \in ToSet(u) PROVE x \in ToSet(u \o v)
      <4>1. PICK i \in 1..Len(u) : u[i] = x
        BY <1>1 DEF ToSet
      <4> QED BY <1>1, <1>2, <4>1 DEF ToSet
    <3> QED BY <3>1
  <2>4. ToSet(v) \subseteq ToSet(u \o v)
    <3>1. ASSUME NEW x \in ToSet(v) PROVE x \in ToSet(u \o v)
      <4>1. PICK i \in 1..Len(v) : v[i] = x
        BY <1>1 DEF ToSet
      <4> QED BY <1>1, <1>3, <4>1 DEF ToSet
    <3> QED BY <3>1
  <2> QED BY <2>2, <2>3, <2>4
<1>6. IsInjective(u \o v) => IsInjective(u) /\ IsInjective(v)
  <2> SUFFICES ASSUME IsInjective(u \o v) PROVE IsInjective(u) /\ IsInjective(v)
    OBVIOUS
  <2>1. IsInjective(u)
    BY <1>1, <1>2 DEF IsInjective
  <2>2. ASSUME NEW i \in 1..Len(v), NEW j \in 1..Len(v), v[i] = v[j] PROVE i = j
    <3>1. Len(u) + i = Len(u) + j
      BY <1>1, <1>3, <2>2 DEF IsInjective
    <3> QED BY <1>1, <3>1
  <2> QED BY <1>1, <2>1, <2>2 DEF IsInjective
<1> QED BY <1>1, <1>4, <1>5, <1>6

\* Nodes that only one thread has taken are as many as that thread holds.
LEMMA HandCount ==
  ASSUME NEW p \in [Threads -> Seq(Tasks)], NEW h \in Threads,
         \A th \in Threads \ {h} : p[th] = <<>>, IsInjective(p[h])
  PROVE  Cardinality({t \in Tasks : \E th \in Threads : t \in ToSet(p[th])}) = Len(p[h])
<1>1. ToSet(<<>>) = {}
  BY DEF ToSet
<1>2. ToSet(p[h]) \subseteq Tasks
  BY DEF ToSet
<1>3. {t \in Tasks : \E th \in Threads : t \in ToSet(p[th])} = ToSet(p[h])
  <2>1. ASSUME NEW th \in Threads, NEW t \in ToSet(p[th]) PROVE t \in ToSet(p[h])
    BY <1>1
  <2> QED BY <1>2, <2>1
<1>4. p[h] \in Seq(Tasks)
  OBVIOUS
<1> QED BY <1>3, <1>4, InjectiveCount

\* Nobody holds a node that is not paid for.
LEMMA NoHand ==
  ASSUME NEW p, \A th \in Threads : p[th] = <<>>
  PROVE  Cardinality({t \in Tasks : \E th \in Threads : t \in ToSet(p[th])}) = 0
<1>1. ToSet(<<>>) = {}
  BY DEF ToSet
<1>2. {t \in Tasks : \E th \in Threads : t \in ToSet(p[th])} = {}
  BY <1>1
<1> QED BY <1>2, FS_EmptySet

\* Whoever is in the section is the only one who holds nodes that are not paid for.
LEMMA InHandFacts ==
  ASSUME TypeOK, ControlInv, LineInv
  PROVE  /\ InHand \in Nat
         /\ \A th \in Threads : InSection(th) => InHand = Len(pending[th])
         /\ (\A th \in Threads : ~InSection(th)) => InHand = 0
<1>1. pending \in [Threads -> Seq(Tasks)] /\ woken \in [Threads -> Seq(Tasks)]
  BY DEF TypeOK
<1>2. ASSUME NEW th \in Threads, InSection(th) PROVE InHand = Len(pending[th])
  <2>1. \A o \in Threads \ {th} : pending[o] = <<>>
    BY <1>2 DEF ControlInv, SectionPart, SingleWaker, SectionInv
  <2>2. IsInjective(pending[th])
    <3>1. woken[th] \in Seq(Tasks) /\ pending[th] \in Seq(Tasks)
      BY <1>1
    <3>2. IsInjective(woken[th] \o pending[th])
      BY DEF LineInv, Hand
    <3> QED BY <3>1, <3>2, ConcatFacts
  <2> QED BY <1>1, <2>1, <2>2, HandCount DEF InHand
<1>3. ASSUME \A th \in Threads : ~InSection(th) PROVE InHand = 0
  <2>1. \A o \in Threads : pending[o] = <<>>
    BY <1>3 DEF ControlInv, SectionPart, SectionInv
  <2> QED BY <2>1, NoHand DEF InHand
<1>4. \A th \in Threads : Len(pending[th]) \in Nat
  BY <1>1
<1> QED BY <1>2, <1>3, <1>4

\* The list of waiters.
LEMMA WaitingFacts ==
  ASSUME TypeOK
  PROVE  /\ Waiting \in Seq(Tasks) /\ Len(Waiting) = Len(output) + Len(input)
         /\ Refilled \in Seq(Tasks) /\ (Refilled # <<>> <=> Waiting # <<>>)
         /\ ToSet(Waiting) \subseteq Tasks
         /\ IsFiniteSet(Adders) /\ Cardinality(Adders) \in Nat
<1>1. input \in Seq(Tasks) /\ output \in Seq(Tasks)
  BY DEF TypeOK
<1>2. Reverse(input) \in Seq(Tasks) /\ Len(Reverse(input)) = Len(input)
  BY <1>1, ReverseFacts
<1>3. Waiting \in Seq(Tasks) /\ Len(Waiting) = Len(output) + Len(input)
      /\ (output = <<>> => Waiting = Reverse(input))
  BY <1>1, <1>2, ConcatFacts DEF Waiting
<1>4. Refilled \in Seq(Tasks) /\ (Refilled # <<>> <=> Waiting # <<>>)
  <2>1. CASE output = <<>>
    BY <1>2, <1>3, <2>1 DEF Refilled
  <2>2. CASE output # <<>>
    <3>1. Len(output) >= 1 /\ Len(Waiting) >= 1
      BY <1>1, <1>3, <2>2
    <3>2. Waiting # <<>>
      BY <3>1
    <3> QED BY <1>1, <2>2, <3>2 DEF Refilled
  <2> QED BY <2>1, <2>2
<1>5. ToSet(Waiting) \subseteq Tasks
  BY <1>3 DEF ToSet
<1>6. IsFiniteSet(Adders) /\ Cardinality(Adders) \in Nat
  BY ThreadsAssumption, FS_Subset, FS_CardinalityType DEF Adders
<1> QED BY <1>3, <1>4, <1>5, <1>6
----------------------------------------------------------------------------
(* What maybe_wake does at its entry. *)

LEMMA WakeOutcome ==
  ASSUME TypeOK, NEW th \in Threads, NEW m \in Modes, MaybeWake(th, m),
         count' \in Nat, waiters' \in Nat
  PROVE  /\ mode' = [mode EXCEPT ![th] = m]
         /\ want' \in [Threads -> Nat] /\ \A o \in Threads \ {th} : want'[o] = want[o]
         /\ pc' \in [Threads -> Steps] /\ \A o \in Threads \ {th} : pc'[o] = pc[o]
         /\ self' \in [Threads -> Tasks \cup {NoTask}]
         /\ \A o \in Threads \ {th} : self'[o] = self[o]
         /\ tstate' \in [Tasks -> {"ready", "running", "waiting", "done"}]
         /\ \/ self' = self /\ tstate' = tstate
            \/ /\ self[th] \in Tasks /\ self'[th] = NoTask /\ pc'[th] = "idle"
               /\ tstate' = [tstate EXCEPT ![self[th]] = "done"]
         /\ \/ /\ EntersSection(count, waiters) /\ pc'[th] = "take" /\ want'[th] >= 1
               /\ count' >= want'[th] /\ waiters' >= want'[th]
               /\ self' = self /\ tstate' = tstate
            \/ /\ pc'[th] \in {"idle", "user"} /\ (pc'[th] = "user" => self'[th] \in Tasks)
               /\ ~(EntersSection(count, waiters) /\ count' > 0 /\ waiters' > 0)
<1> DEFINE n == Lesser(count', waiters')
           enters == EntersSection(count, waiters) /\ n > 0
<1>1. /\ n \in Nat /\ n <= count' /\ n <= waiters'
      /\ n > 0 <=> count' > 0 /\ waiters' > 0
  BY DEF Lesser
<1>2. /\ mode' = [mode EXCEPT ![th] = m]
      /\ want' = [want EXCEPT ![th] = IF enters THEN n ELSE 0]
      /\ IF enters THEN pc' = [pc EXCEPT ![th] = "take"] /\ self' = self /\ tstate' = tstate
                   ELSE ReturnNull(th, m)
  BY DEF MaybeWake
<1> HIDE DEF n, enters
<1>3. want' \in [Threads -> Nat] /\ want'[th] = (IF enters THEN n ELSE 0)
      /\ (\A o \in Threads \ {th} : want'[o] = want[o])
  <2>1. want \in [Threads -> Nat]
    BY DEF TypeOK
  <2>2. CASE enters
    BY <1>1, <1>2, <2>1, <2>2
  <2>3. CASE ~enters
    <3>1. want' = [want EXCEPT ![th] = 0]
      BY <1>2, <2>3
    <3> QED BY <2>1, <2>3, <3>1
  <2> QED BY <2>2, <2>3
<1>4. CASE enters
  <2>1. EntersSection(count, waiters) /\ n >= 1
    BY <1>1, <1>4 DEF enters
  <2>2. /\ pc' = [pc EXCEPT ![th] = "take"] /\ want'[th] = n
        /\ self' = self /\ tstate' = tstate /\ mode' = [mode EXCEPT ![th] = m]
    BY <1>2, <1>3, <1>4
  <2>3. pc' \in [Threads -> Steps] /\ pc'[th] = "take" /\ \A o \in Threads \ {th} : pc'[o] = pc[o]
    BY <2>2 DEF TypeOK, Steps
  <2>4. /\ self' \in [Threads -> Tasks \cup {NoTask}]
        /\ \A o \in Threads \ {th} : self'[o] = self[o]
        /\ tstate' \in [Tasks -> {"ready", "running", "waiting", "done"}]
    BY <2>2 DEF TypeOK
  <2>5. want'[th] >= 1 /\ count' >= want'[th] /\ waiters' >= want'[th]
    BY <1>1, <2>1, <2>2
  <2> QED BY <1>3, <2>1, <2>2, <2>3, <2>4, <2>5
<1>5. CASE ~enters
  <2>1. ReturnNull(th, m)
    BY <1>2, <1>5
  <2>2. ~(EntersSection(count, waiters) /\ count' > 0 /\ waiters' > 0)
    BY <1>1, <1>5 DEF enters
  <2>3. CASE self[th] = NoTask
    <3>1. pc' = [pc EXCEPT ![th] = "idle"] /\ self' = self /\ tstate' = tstate
      BY <2>1, <2>3 DEF ReturnNull
    <3> QED BY <1>2, <1>3, <2>2, <3>1 DEF TypeOK, Steps
  <2>4. CASE self[th] # NoTask
    <3>1. self[th] \in Tasks
      BY <2>4 DEF TypeOK
    <3>2. CASE m = "return"
      <4>1. FinishTask(th)
        BY <2>1, <2>4, <3>2 DEF ReturnNull
      <4>2. /\ tstate' = [tstate EXCEPT ![self[th]] = "done"]
            /\ self' = [self EXCEPT ![th] = NoTask]
            /\ pc' = [pc EXCEPT ![th] = "idle"]
        BY <4>1 DEF FinishTask
      <4> QED BY <1>2, <1>3, <2>2, <3>1, <4>2 DEF TypeOK, Steps
    <3>3. CASE m # "return"
      <4>1. pc' = [pc EXCEPT ![th] = "user"] /\ self' = self /\ tstate' = tstate
        BY <2>1, <2>4, <3>3 DEF ReturnNull
      <4> QED BY <1>2, <1>3, <2>2, <3>1, <4>1 DEF TypeOK, Steps
    <3> QED BY <3>2, <3>3
  <2> QED BY <2>3, <2>4
<1> QED BY <1>4, <1>5

\* A permit that is taken without suspending leaves what the section counts on.
LEMMA TakeOutcome ==
  ASSUME TypeOK, CanAcquire, count' = count - 1
  PROVE  count' \in Nat /\ count' >= waiters
BY DEF TypeOK, CanAcquire
----------------------------------------------------------------------------
(* Types. *)

LEMMA EntryOf == ASSUME NEW D, NEW s \in Seq(D), NEW i \in 1..Len(s) PROVE s[i] \in D
OBVIOUS

LEMMA TypeStep ==
  ASSUME TypeOK, ControlInv, NEW th \in Threads, UserStep(th)
  PROVE  TypeOK'
<1> USE DEF TypeOK
<1>1. ASSUME NEW t \in Tasks, Dispatch(th, t) PROVE TypeOK'
  BY <1>1 DEF Dispatch, shared, Steps
<1>2. CASE Complete(th)
  <2>1. self[th] \in Tasks
    BY <1>2 DEF Complete, ControlInv, SelfInv
  <2> QED BY <1>2, <2>1 DEF Complete, FinishTask, shared, Steps
<1>3. CASE Push(th)
  <2>1. self[th] \in Tasks
    BY <1>3 DEF Push, ControlInv, SelfInv
  <2>2. <<self[th]>> \o input \in Seq(Tasks)
    BY <2>1
  <2> QED BY <1>3, <2>1, <2>2 DEF Push, Steps
<1>4. CASE AddWaiter(th)
  <2>1. waiters' \in Nat /\ count' \in Nat /\ MaybeWake(th, "post") /\ "post" \in Modes
    BY <1>4 DEF AddWaiter, Modes
  <2>2. /\ mode' = [mode EXCEPT ![th] = "post"] /\ want' \in [Threads -> Nat]
        /\ pc' \in [Threads -> Steps] /\ self' \in [Threads -> Tasks \cup {NoTask}]
        /\ tstate' \in [Tasks -> {"ready", "running", "waiting", "done"}]
    BY <2>1, WakeOutcome
  <2>3. mode' \in [Threads -> Modes]
    BY <2>1, <2>2
  <2> QED BY <1>4, <2>1, <2>2, <2>3 DEF AddWaiter
<1>5. CASE MustTake1(th)
  <2>1. /\ Refilled \in Seq(Tasks) /\ Head(Refilled) \in Tasks /\ Tail(Refilled) \in Seq(Tasks)
    BY <1>5, WaitingFacts DEF MustTake1
  <2>2. input' \in Seq(Tasks) /\ output' \in Seq(Tasks)
    BY <1>5, <2>1 DEF MustTake1
  <2>3. pending' \in [Threads -> Seq(Tasks)]
    BY <1>5, <2>1 DEF MustTake1
  <2>4. pc' \in [Threads -> Steps]
    BY <1>5 DEF MustTake1, Steps
  <2> QED BY <1>5, <2>2, <2>3, <2>4 DEF MustTake1, sched
<1>6. CASE Commit(th)
  <2>1. count >= want[th] /\ waiters >= want[th] /\ want[th] \in Nat
    BY <1>6 DEF Commit, ControlInv, SectionPart, SectionInv, InSection
  <2>2. count' \in Nat /\ waiters' \in Nat
    BY <1>6, <2>1 DEF Commit
  <2>3. Lesser(count', waiters') \in Nat
    BY <2>2 DEF Lesser
  <2>4. want' \in [Threads -> Nat] /\ pc' \in [Threads -> Steps]
    BY <1>6, <2>3 DEF Commit, Steps
  <2>5. ToSet(pending[th]) \subseteq Tasks
    BY DEF ToSet
  <2>6. own' \subseteq Tasks
    BY <1>6, <2>5 DEF Commit
  <2>7. woken' \in [Threads -> Seq(Tasks)] /\ pending' \in [Threads -> Seq(Tasks)]
    BY <1>6 DEF Commit
  <2> QED BY <1>6, <2>2, <2>4, <2>6, <2>7 DEF Commit
<1>7. CASE Resume(th)
  <2> DEFINE i == IF mode[th] = "post" THEN 1 ELSE 2
  <2>1. /\ Len(woken[th]) >= i /\ woken' = [woken EXCEPT ![th] = RemoveAt(woken[th], i)]
        /\ tstate' = [tstate EXCEPT ![woken[th][i]] = "ready"]
        /\ UNCHANGED <<shared, own, rounds, self, mode, want, pending>>
        /\ pc' = [pc EXCEPT ![th] = IF RemoveAt(woken[th], i) # <<>> THEN "resume"
                                    ELSE IF self[th] = NoTask THEN "idle" ELSE "user"]
    BY <1>7 DEF Resume
  <2>2. woken[th] \in Seq(Tasks) /\ i \in Nat \ {0}
    OBVIOUS
  <2> HIDE DEF i
  <2>3. i \in 1..Len(woken[th])
    BY <2>1, <2>2
  <2>4. SubSeq(woken[th], 1, i - 1) \in Seq(Tasks)
        /\ SubSeq(woken[th], i + 1, Len(woken[th])) \in Seq(Tasks)
    BY <2>2, <2>3
  <2>5. RemoveAt(woken[th], i) \in Seq(Tasks)
    BY <2>4 DEF RemoveAt
  <2>6. woken' \in [Threads -> Seq(Tasks)]
    BY <2>1, <2>5
  <2>7. pc' \in [Threads -> Steps]
    BY <2>1 DEF Steps
  <2>8. tstate' \in [Tasks -> {"ready", "running", "waiting", "done"}]
    BY <2>1
  <2> QED BY <2>1, <2>6, <2>7, <2>8 DEF shared
<1>8. CASE Transfer(th)
  <2>1. woken[th][1] \in Tasks \cup {NoTask}
    <3>1. woken[th] \in Seq(Tasks) /\ 1 \in 1..Len(woken[th])
      BY <1>8 DEF Transfer
    <3> QED BY <3>1, EntryOf
  <2>2. woken' \in [Threads -> Seq(Tasks)]
    BY <1>8 DEF Transfer
  <2>3. pc' \in [Threads -> Steps]
    BY <1>8 DEF Transfer, Steps
  <2>4. self' \in [Threads -> Tasks \cup {NoTask}]
    BY <1>8, <2>1 DEF Transfer
  <2>5. tstate' \in [Tasks -> {"ready", "running", "waiting", "done"}]
    BY <1>8 DEF Transfer
  <2> QED BY <1>8, <2>2, <2>3, <2>4, <2>5 DEF Transfer, shared
<1>9. CASE Destroy(th)
  <2>1. output \o input \in Seq(Tasks)
    OBVIOUS
  <2>2. woken' \in [Threads -> Seq(Tasks)] /\ mode' \in [Threads -> Modes]
    BY <1>9, <2>1 DEF Destroy, Modes
  <2>3. pc' \in [Threads -> Steps]
    BY <1>9 DEF Destroy, Steps
  <2>4. input' = <<>> /\ output' = <<>> /\ alive' = FALSE
    BY <1>9 DEF Destroy
  <2>5. <<>> \in Seq(Tasks)
    OBVIOUS
  <2>6. input' \in Seq(Tasks) /\ output' \in Seq(Tasks)
    BY <2>4, <2>5
  <2> QED BY <1>9, <2>2, <2>3, <2>4, <2>6 DEF Destroy, sched
<1>10. CASE Await(th)
  <2>1. self[th] \in Tasks
    BY <1>10 DEF Await, BeginRound, ControlInv, SelfInv
  <2>2. rounds' \in [Tasks -> 0..MaxRounds]
    BY <1>10, <2>1 DEF Await, BeginRound
  <2>3. count' \in Nat /\ own' \subseteq Tasks /\ pc' \in [Threads -> Steps]
    BY <1>10, <2>1, TakeOutcome DEF Await, TakePermit, Steps
  <2> QED BY <1>10, <2>2, <2>3 DEF Await
<1>11. CASE Try(th)
  <2>1. count' \in Nat
    BY <1>11, TakeOutcome DEF Try
  <2> QED BY <1>11, <2>1 DEF Try, locals
<1>12. ASSUME NEW m \in Modes, Give(th, m) PROVE TypeOK'
  <2>1. waiters' \in Nat /\ count' \in Nat /\ MaybeWake(th, m)
    BY <1>12 DEF Give
  <2>2. /\ mode' = [mode EXCEPT ![th] = m] /\ want' \in [Threads -> Nat]
        /\ pc' \in [Threads -> Steps] /\ self' \in [Threads -> Tasks \cup {NoTask}]
        /\ tstate' \in [Tasks -> {"ready", "running", "waiting", "done"}]
    BY <2>1, WakeOutcome
  <2>3. mode' \in [Threads -> Modes]
    BY <2>1, <2>2
  <2> QED BY <1>12, <2>1, <2>2, <2>3 DEF Give
<1> QED BY <1>1, <1>2, <1>3, <1>4, <1>5, <1>6, <1>7, <1>8, <1>9, <1>10, <1>11, <1>12
        DEF UserStep, CommonStep
----------------------------------------------------------------------------
(* The section. *)

\* A step of a thread that is out of the section and stays out of it.
LEMMA Outside ==
  ASSUME SingleWaker, SectionInv, NEW th \in Threads, ~InSection(th),
         pc'[th] \notin {"take", "commit"}, pending' = pending,
         \A o \in Threads \ {th} : pc'[o] = pc[o] /\ want'[o] = want[o],
         \A o \in Threads : InSection(o) => count' >= want[o] /\ waiters' >= want[o]
  PROVE  /\ SingleWaker' /\ SectionInv'
         /\ \A o \in Threads : InSection(o) => InSection(o)'
<1>1. ~InSection(th)'
  BY DEF InSection
<1>2. \A o \in Threads \ {th} : InSection(o)' <=> InSection(o)
  BY DEF InSection
<1>3. SingleWaker'
  BY <1>1, <1>2 DEF SingleWaker
<1>4. SectionInv'
  <2> SUFFICES ASSUME NEW o \in Threads
               PROVE  IF InSection(o)'
                      THEN /\ want'[o] >= 1 /\ count' >= want'[o] /\ waiters' >= want'[o]
                           /\ IF pc'[o] = "take" THEN Len(pending'[o]) < want'[o]
                                                 ELSE Len(pending'[o]) = want'[o]
                      ELSE pending'[o] = <<>>
    BY DEF SectionInv
  <2>1. CASE o = th
    BY <1>1, <2>1 DEF SectionInv
  <2>2. CASE o # th
    BY <1>2, <2>2 DEF SectionInv
  <2> QED BY <2>1, <2>2
<1> QED BY <1>1, <1>2, <1>3, <1>4

\* ... and leaves the word as it is.
LEMMA OutsideSameWord ==
  ASSUME TypeOK, SectionPart, NEW th \in Threads, ~InSection(th),
         pc'[th] \notin {"take", "commit"},
         \A o \in Threads \ {th} : pc'[o] = pc[o] /\ want'[o] = want[o],
         UNCHANGED <<count, waiters, pending>>, alive' => alive
  PROVE  SectionPart'
<1>1. \A o \in Threads : InSection(o) => count >= want[o] /\ waiters >= want[o]
  BY DEF SectionPart, SectionInv
<1>2. /\ SingleWaker' /\ SectionInv'
      /\ \A o \in Threads : InSection(o) => InSection(o)'
  BY <1>1, Outside DEF SectionPart
<1>3. WordInv'
  BY <1>2 DEF SectionPart, WordInv
<1> QED BY <1>2, <1>3 DEF SectionPart

\* A permit is taken without suspending.
LEMMA OutsideTake ==
  ASSUME TypeOK, SectionPart, NEW th \in Threads, pc' = pc, ~InSection(th),
         UNCHANGED <<waiters, pending, want, alive>>, CanAcquire, count' = count - 1
  PROVE  SectionPart'
<1>1. count' \in Nat /\ count' >= waiters /\ waiters \in Nat /\ count > 0
  BY TakeOutcome DEF TypeOK, CanAcquire
<1>2. ASSUME NEW o \in Threads, InSection(o) PROVE count' >= want[o] /\ waiters' >= want[o]
  BY <1>1, <1>2 DEF SectionPart, SectionInv, TypeOK
<1>3. /\ SingleWaker' /\ SectionInv'
      /\ \A o \in Threads : InSection(o) => InSection(o)'
  BY <1>2, Outside DEF SectionPart, InSection
<1>4. WordInv'
  BY <1>1, <1>3 DEF SectionPart, WordInv
<1> QED BY <1>3, <1>4 DEF SectionPart

\* The word grows, and maybe_wake follows: it lets a thread in only when nobody is in.
LEMMA WakeSection ==
  ASSUME TypeOK, SectionPart, NEW th \in Threads, NEW m \in Modes, ~InSection(th),
         alive, alive' = alive, pending' = pending, MaybeWake(th, m),
         count' \in Nat, waiters' \in Nat, count' >= count, waiters' >= waiters,
         count' = count \/ waiters' = waiters
  PROVE  SectionPart'
<1>1. count \in Nat /\ waiters \in Nat /\ want \in [Threads -> Nat]
  BY DEF TypeOK
<1>2. /\ \A o \in Threads \ {th} : pc'[o] = pc[o] /\ want'[o] = want[o]
      /\ \/ /\ EntersSection(count, waiters) /\ pc'[th] = "take" /\ want'[th] >= 1
            /\ count' >= want'[th] /\ waiters' >= want'[th]
         \/ /\ pc'[th] \in {"idle", "user"}
            /\ ~(EntersSection(count, waiters) /\ count' > 0 /\ waiters' > 0)
  BY WakeOutcome
<1>3. ASSUME NEW o \in Threads, InSection(o)
      PROVE  /\ count >= want[o] /\ waiters >= want[o] /\ want[o] >= 1
             /\ count' >= want[o] /\ waiters' >= want[o]
             /\ ~EntersSection(count, waiters)
  <2>1. count >= want[o] /\ waiters >= want[o] /\ want[o] >= 1
    BY <1>3 DEF SectionPart, SectionInv
  <2> QED BY <1>1, <2>1 DEF EntersSection
<1>4. CASE EntersSection(count, waiters) /\ pc'[th] = "take" /\ want'[th] >= 1
           /\ count' >= want'[th] /\ waiters' >= want'[th]
  <2>1. \A o \in Threads : ~InSection(o)
    BY <1>3, <1>4
  <2>2. InSection(th)' /\ \A o \in Threads \ {th} : ~InSection(o)'
    BY <1>2, <1>4, <2>1 DEF InSection
  <2>3. \A o \in Threads : pending'[o] = <<>>
    BY <2>1 DEF SectionPart, SectionInv
  <2>4. SingleWaker'
    BY <2>2 DEF SingleWaker
  <2>5. Len(pending'[th]) < want'[th]
    <3>1. pending'[th] = <<>>
      BY <2>3
    <3>2. want'[th] >= 1 /\ Len(<<>>) = 0
      BY <1>4
    <3> QED BY <3>1, <3>2, WakeOutcome
  <2>6. SectionInv'
    BY <1>4, <2>2, <2>3, <2>5 DEF SectionInv
  <2>7. WordInv'
    BY <2>2 DEF WordInv
  <2> QED BY <2>4, <2>6, <2>7 DEF SectionPart
<1>5. CASE pc'[th] \in {"idle", "user"}
           /\ ~(EntersSection(count, waiters) /\ count' > 0 /\ waiters' > 0)
  <2>1. /\ SingleWaker' /\ SectionInv'
        /\ \A o \in Threads : InSection(o) => InSection(o)'
    BY <1>2, <1>3, <1>5, Outside DEF SectionPart
  <2>2. WordInv'
    <3>1. CASE \E o \in Threads : InSection(o)
      BY <2>1, <3>1 DEF WordInv
    <3>2. CASE count = 0 \/ waiters = 0
      <4>1. CASE EntersSection(count, waiters)
        <5>1. count' = 0 \/ waiters' = 0
          BY <1>5, <4>1
        <5> QED BY <5>1 DEF WordInv
      <4>2. CASE ~EntersSection(count, waiters)
        <5>1. count = 0 /\ waiters = 0
          BY <3>2, <4>2 DEF EntersSection
        <5>2. count' = 0 \/ waiters' = 0
          BY <5>1
        <5> QED BY <5>2 DEF WordInv
      <4> QED BY <4>1, <4>2
    <3> QED BY <3>1, <3>2 DEF SectionPart, WordInv
  <2> QED BY <2>1, <2>2 DEF SectionPart
<1> QED BY <1>2, <1>4, <1>5

LEMMA TakeSection ==
  ASSUME TypeOK, SectionPart, NEW th \in Threads, MustTake1(th)
  PROVE  SectionPart' /\ InSection(th)'
<1> DEFINE q == Append(pending[th], Head(Refilled))
<1>1. q \in Seq(Tasks) /\ Len(q) = Len(pending[th]) + 1 /\ Len(pending[th]) \in Nat
  <2>1. Head(Refilled) \in Tasks
    BY WaitingFacts DEF MustTake1
  <2>2. pending[th] \in Seq(Tasks)
    BY DEF TypeOK
  <2> QED BY <2>1, <2>2
<1>2. /\ pc[th] = "take" /\ pending' = [pending EXCEPT ![th] = q]
      /\ pc' = [pc EXCEPT ![th] = IF Len(pending'[th]) = want[th] THEN "commit" ELSE "take"]
      /\ UNCHANGED <<count, waiters, alive, want>>
  BY DEF MustTake1
<1> HIDE DEF q
<1>3. /\ want[th] \in Nat /\ want[th] >= 1 /\ count >= want[th] /\ waiters >= want[th]
      /\ Len(pending[th]) < want[th]
  BY <1>2 DEF SectionPart, SectionInv, InSection, TypeOK
<1>4. pending'[th] = q /\ \A o \in Threads \ {th} : pending'[o] = pending[o]
  BY <1>2 DEF TypeOK
<1>5. /\ pc'[th] = IF Len(q) = want[th] THEN "commit" ELSE "take"
      /\ \A o \in Threads \ {th} : pc'[o] = pc[o]
  BY <1>2, <1>4 DEF TypeOK
<1>6. InSection(th)' /\ \A o \in Threads \ {th} : ~InSection(o) /\ ~InSection(o)'
  BY <1>2, <1>5 DEF InSection, SectionPart, SingleWaker
<1>7. SingleWaker'
  BY <1>6 DEF SingleWaker
<1>8. SectionInv'
  <2> SUFFICES ASSUME NEW o \in Threads
               PROVE  IF InSection(o)'
                      THEN /\ want'[o] >= 1 /\ count' >= want'[o] /\ waiters' >= want'[o]
                           /\ IF pc'[o] = "take" THEN Len(pending'[o]) < want'[o]
                                                 ELSE Len(pending'[o]) = want'[o]
                      ELSE pending'[o] = <<>>
    BY DEF SectionInv
  <2>1. CASE o = th
    BY <1>1, <1>2, <1>3, <1>4, <1>5, <1>6, <2>1
  <2>2. CASE o # th
    BY <1>4, <1>6, <2>2 DEF SectionPart, SectionInv
  <2> QED BY <2>1, <2>2
<1>9. WordInv'
  BY <1>6 DEF WordInv
<1> QED BY <1>6, <1>7, <1>8, <1>9 DEF SectionPart

LEMMA CommitSection ==
  ASSUME TypeOK, SectionPart, NEW th \in Threads, Commit(th)
  PROVE  /\ SectionPart' /\ pc'[th] \in {"take", "resume"}
         /\ Len(pending[th]) = want[th] /\ count >= want[th] /\ waiters >= want[th]
<1> DEFINE n == Lesser(count', waiters')
<1>1. /\ pc[th] = "commit" /\ pending' = [pending EXCEPT ![th] = <<>>]
      /\ count' = count - want[th] /\ waiters' = waiters - want[th]
      /\ want' = [want EXCEPT ![th] = n]
      /\ pc' = [pc EXCEPT ![th] = IF want'[th] > 0 THEN "take" ELSE "resume"]
  BY DEF Commit
<1>2. /\ want[th] \in Nat /\ count >= want[th] /\ waiters >= want[th]
      /\ Len(pending[th]) = want[th]
  BY <1>1 DEF SectionPart, SectionInv, InSection, TypeOK
<1>3. /\ n \in Nat /\ n <= count' /\ n <= waiters'
      /\ n > 0 <=> count' > 0 /\ waiters' > 0
      /\ count' \in Nat /\ waiters' \in Nat
  BY <1>1, <1>2 DEF Lesser, TypeOK
<1> HIDE DEF n
<1>4. /\ pending'[th] = <<>> /\ \A o \in Threads \ {th} : pending'[o] = pending[o]
      /\ want'[th] = n
  BY <1>1 DEF TypeOK
<1>5. /\ pc'[th] = IF n > 0 THEN "take" ELSE "resume"
      /\ \A o \in Threads \ {th} : pc'[o] = pc[o]
  BY <1>1, <1>4 DEF TypeOK
<1>6. \A o \in Threads \ {th} : ~InSection(o) /\ ~InSection(o)'
  BY <1>1, <1>5 DEF InSection, SectionPart, SingleWaker
<1>7. SingleWaker'
  BY <1>6 DEF SingleWaker
<1>8. SectionInv'
  <2> SUFFICES ASSUME NEW o \in Threads
               PROVE  IF InSection(o)'
                      THEN /\ want'[o] >= 1 /\ count' >= want'[o] /\ waiters' >= want'[o]
                           /\ IF pc'[o] = "take" THEN Len(pending'[o]) < want'[o]
                                                 ELSE Len(pending'[o]) = want'[o]
                      ELSE pending'[o] = <<>>
    BY DEF SectionInv
  <2>1. CASE o = th
    <3>1. CASE n > 0
      <4>1. pc'[th] = "take" /\ want'[th] >= 1 /\ count' >= want'[th] /\ waiters' >= want'[th]
        BY <1>3, <1>4, <1>5, <3>1
      <4>2. Len(pending'[th]) = 0
        BY <1>4
      <4>3. Len(pending'[th]) < want'[th]
        BY <1>3, <1>4, <4>1, <4>2
      <4> QED BY <2>1, <4>1, <4>3 DEF InSection
    <3>2. CASE ~(n > 0)
      BY <1>4, <1>5, <2>1, <3>2 DEF InSection
    <3> QED BY <3>1, <3>2
  <2>2. CASE o # th
    BY <1>4, <1>6, <2>2 DEF SectionPart, SectionInv
  <2> QED BY <2>1, <2>2
<1>9. WordInv'
  <2>1. CASE n > 0
    BY <1>5, <2>1 DEF WordInv, InSection
  <2>2. CASE ~(n > 0)
    BY <1>3, <2>2 DEF WordInv
  <2> QED BY <2>1, <2>2
<1> QED BY <1>2, <1>5, <1>7, <1>8, <1>9 DEF SectionPart
----------------------------------------------------------------------------
(* Who runs which task; the destructor. *)

\* A thread keeps its task, or gives it up.
LEMMA SelfKept ==
  ASSUME SelfInv, NEW th \in Threads,
         \A o \in Threads \ {th} : pc'[o] = pc[o] /\ mode'[o] = mode[o] /\ self'[o] = self[o],
         self'[th] \in {self[th], NoTask},
         \A o \in Threads : self'[o] \in Tasks => tstate'[self'[o]] = "running",
         pc'[th] \in {"user", "suspend"} => self'[th] \in Tasks,
         pc'[th] \in {"take", "commit", "resume"} => mode'[th] = "post" \/ self'[th] \in Tasks
  PROVE  SelfInv'
<1>1. ASSUME NEW o \in Threads
      PROVE  /\ pc'[o] \in {"user", "suspend"} => self'[o] \in Tasks
             /\ pc'[o] \in {"take", "commit", "resume"} => mode'[o] = "post" \/ self'[o] \in Tasks
             /\ self'[o] \in Tasks => tstate'[self'[o]] = "running"
             /\ self'[o] \in Tasks => self'[o] = self[o]
  BY NoTaskAssumption DEF SelfInv, InSection
<1>2. \A a, b \in Threads : self'[a] = self'[b] /\ self'[a] \in Tasks => a = b
  BY <1>1 DEF SelfInv
<1> QED BY <1>1, <1>2 DEF SelfInv, InSection

\* A thread takes up a task that nobody runs.
LEMMA SelfTaken ==
  ASSUME TypeOK, SelfInv, NEW th \in Threads, NEW t \in Tasks, tstate[t] # "running",
         \A o \in Threads \ {th} : pc'[o] = pc[o] /\ mode'[o] = mode[o],
         self' = [self EXCEPT ![th] = t], pc'[th] = "user", tstate'[t] = "running",
         \A s \in Tasks : s # self[th] /\ tstate[s] = "running" => tstate'[s] = "running"
  PROVE  SelfInv'
<1>1. self'[th] = t /\ \A o \in Threads \ {th} : self'[o] = self[o]
  BY DEF TypeOK
<1>2. \A o \in Threads : self[o] # t
  BY DEF SelfInv
<1>3. ASSUME NEW o \in Threads \ {th}
      PROVE  /\ pc'[o] \in {"user", "suspend"} => self'[o] \in Tasks
             /\ pc'[o] \in {"take", "commit", "resume"} => mode'[o] = "post" \/ self'[o] \in Tasks
             /\ self'[o] \in Tasks => tstate'[self'[o]] = "running"
  <2>1. self'[o] = self[o] /\ pc'[o] = pc[o] /\ mode'[o] = mode[o]
    BY <1>1
  <2>2. self[o] \in Tasks => self[o] # self[th] /\ tstate[self[o]] = "running"
    BY DEF SelfInv
  <2> QED BY <2>1, <2>2 DEF SelfInv, InSection
<1>4. \A a, b \in Threads : self'[a] = self'[b] /\ self'[a] \in Tasks => a = b
  BY <1>1, <1>2 DEF SelfInv
<1> QED BY <1>1, <1>3, <1>4 DEF SelfInv, InSection

LEMMA SelfStep ==
  ASSUME TypeOK, ControlInv, LineInv, NEW th \in Threads, UserStep(th)
  PROVE  SelfInv'
<1>a. SelfInv
  BY DEF ControlInv
<1>b. /\ pc \in [Threads -> Steps] /\ self \in [Threads -> Tasks \cup {NoTask}]
      /\ tstate \in [Tasks -> {"ready", "running", "waiting", "done"}]
      /\ mode \in [Threads -> Modes] /\ count \in Nat /\ waiters \in Nat
  BY DEF TypeOK
<1>c. \A o \in Threads : self[o] \in Tasks => tstate[self[o]] = "running"
  BY <1>a DEF SelfInv
<1>d. \A o \in Threads \ {th} : self[o] \in Tasks => self[o] # self[th]
  BY <1>a DEF SelfInv
\* Of the tasks only th's own leaves "running"; then th gives it up.
<1>e. ASSUME \A o \in Threads \ {th} : pc'[o] = pc[o] /\ mode'[o] = mode[o] /\ self'[o] = self[o],
             \/ self' = self /\ (\A t \in Tasks : tstate[t] = "running" => tstate'[t] = "running")
             \/ /\ self'[th] = NoTask
                /\ \A t \in Tasks : t # self[th] /\ tstate[t] = "running" => tstate'[t] = "running",
             pc'[th] \in {"user", "suspend"} => self'[th] \in Tasks,
             pc'[th] \in {"take", "commit", "resume"} => mode'[th] = "post" \/ self'[th] \in Tasks
      PROVE  SelfInv'
  <2>1. \A o \in Threads : self'[o] \in Tasks => tstate'[self'[o]] = "running"
    <3>1. CASE self' = self /\ (\A t \in Tasks : tstate[t] = "running" => tstate'[t] = "running")
      BY <1>c, <3>1
    <3>2. CASE /\ self'[th] = NoTask
               /\ \A t \in Tasks : t # self[th] /\ tstate[t] = "running" => tstate'[t] = "running"
      BY <1>c, <1>d, <1>e, <3>2, NoTaskAssumption
    <3> QED BY <1>e, <3>1, <3>2
  <2> QED BY <1>a, <1>e, <2>1, SelfKept
<1>1. ASSUME NEW t \in Tasks, Dispatch(th, t) PROVE SelfInv'
  <2>1. /\ tstate[t] = "ready" /\ tstate' = [tstate EXCEPT ![t] = "running"]
        /\ self' = [self EXCEPT ![th] = t] /\ pc' = [pc EXCEPT ![th] = "user"] /\ mode' = mode
    BY <1>1 DEF Dispatch
  <2> QED BY <1>a, <1>b, <2>1, SelfTaken
<1>2. CASE Complete(th)
  BY <1>2, <1>b, <1>e DEF Complete, FinishTask
<1>3. CASE Push(th)
  BY <1>3, <1>b, <1>e DEF Push
<1>4. ASSUME NEW m \in Modes, MaybeWake(th, m), count' \in Nat, waiters' \in Nat,
             m = "post" \/ self[th] \in Tasks
      PROVE  SelfInv'
  <2>1. /\ mode' = [mode EXCEPT ![th] = m]
        /\ \A o \in Threads \ {th} : pc'[o] = pc[o] /\ self'[o] = self[o]
        /\ \/ self' = self /\ tstate' = tstate
           \/ /\ self[th] \in Tasks /\ self'[th] = NoTask /\ pc'[th] = "idle"
              /\ tstate' = [tstate EXCEPT ![self[th]] = "done"]
        /\ \/ pc'[th] = "take" /\ self' = self
           \/ pc'[th] \in {"idle", "user"} /\ (pc'[th] = "user" => self'[th] \in Tasks)
    BY <1>4, WakeOutcome
  <2> QED BY <1>4, <2>1, <1>b, <1>e
<1>5. CASE AddWaiter(th)
  <2>1. waiters' \in Nat /\ count' \in Nat /\ MaybeWake(th, "post") /\ "post" \in Modes
    BY <1>5, <1>b DEF AddWaiter, Modes
  <2> QED BY <1>4, <2>1
<1>6. ASSUME NEW m \in Modes, Give(th, m) PROVE SelfInv'
  <2>1. waiters' \in Nat /\ count' \in Nat /\ MaybeWake(th, m) /\ self[th] \in Tasks
    BY <1>6, <1>a, <1>b DEF Give, SelfInv
  <2> QED BY <1>4, <2>1
<1>7. CASE MustTake1(th)
  <2>1. InSection(th) /\ UNCHANGED <<tstate, self, mode>>
        /\ (\A o \in Threads \ {th} : pc'[o] = pc[o])
    BY <1>7, <1>b DEF MustTake1, InSection, sched
  <2>2. mode[th] = "post" \/ self[th] \in Tasks
    BY <1>a, <2>1 DEF SelfInv
  <2>3. pc'[th] \in {"take", "commit"}
    BY <1>7, <1>b DEF MustTake1
  <2> QED BY <2>1, <2>2, <2>3, <1>e
<1>8. CASE Commit(th)
  <2>1. InSection(th) /\ UNCHANGED <<tstate, self, mode>>
        /\ (\A o \in Threads \ {th} : pc'[o] = pc[o])
    BY <1>8, <1>b DEF Commit, InSection
  <2>2. mode[th] = "post" \/ self[th] \in Tasks
    BY <1>a, <2>1 DEF SelfInv
  <2>3. pc'[th] \in {"take", "resume"}
    BY <1>8, CommitSection DEF ControlInv
  <2> QED BY <2>1, <2>2, <2>3, <1>e
<1>9. \A i \in 1..Len(woken[th]) : woken[th][i] \in Tasks /\ tstate[woken[th][i]] = "waiting"
  <2>1. woken[th] \in Seq(Tasks) /\ pending[th] \in Seq(Tasks)
    BY DEF TypeOK
  <2>2. ToSet(woken[th]) \subseteq ToSet(Hand(th))
    BY <2>1, ConcatFacts DEF Hand
  <2>3. \A i \in 1..Len(woken[th]) : woken[th][i] \in ToSet(woken[th]) /\ woken[th][i] \in Tasks
    BY <2>1 DEF ToSet
  <2> QED BY <2>2, <2>3 DEF LineInv
<1>10. CASE Resume(th)
  <2> DEFINE i == IF mode[th] = "post" THEN 1 ELSE 2
  <2>1. /\ pc[th] = "resume" /\ Len(woken[th]) >= i /\ UNCHANGED <<self, mode>>
        /\ tstate' = [tstate EXCEPT ![woken[th][i]] = "ready"]
        /\ pc' = [pc EXCEPT ![th] = IF RemoveAt(woken[th], i) # <<>> THEN "resume"
                                    ELSE IF self[th] = NoTask THEN "idle" ELSE "user"]
    BY <1>10 DEF Resume
  <2>2. i \in Nat /\ i >= 1 /\ Len(woken[th]) \in Nat
    BY DEF TypeOK
  <2> HIDE DEF i
  <2>3. i \in 1..Len(woken[th])
    BY <2>1, <2>2
  <2> DEFINE w == woken[th][i]
  <2>4. w \in Tasks /\ tstate[w] = "waiting" /\ tstate' = [tstate EXCEPT ![w] = "ready"]
    BY <2>1, <2>3, <1>9
  <2> HIDE DEF w
  <2>5. \A t \in Tasks : tstate[t] = "running" => tstate'[t] = "running"
    BY <2>4, <1>b
  <2>6. mode[th] = "post" \/ self[th] \in Tasks
    BY <1>a, <2>1 DEF SelfInv
  <2>7. /\ pc'[th] \in {"idle", "user", "resume"} /\ (pc'[th] = "user" => self[th] \in Tasks)
        /\ \A o \in Threads \ {th} : pc'[o] = pc[o]
    BY <2>1, <1>b
  <2> QED BY <2>1, <2>5, <2>6, <2>7, <1>e
<1>11. CASE Transfer(th)
  <2> DEFINE w == woken[th][1]
             ended == mode[th] = "return"
             outer == IF ended THEN "done" ELSE "ready"
  <2>1. /\ pc[th] = "resume" /\ mode[th] # "post" /\ Len(woken[th]) = 1 /\ mode' = mode
        /\ \/ /\ tstate' = [tstate EXCEPT ![w] = "running", ![self[th]] = outer]
              /\ self' = [self EXCEPT ![th] = w]
              /\ pc' = [pc EXCEPT ![th] = "user"]
           \/ /\ tstate' = [tstate EXCEPT ![w] = "ready",
                                          ![self[th]] = IF ended THEN "done" ELSE @]
              /\ self' = [self EXCEPT ![th] = IF ended THEN NoTask ELSE @]
              /\ pc' = [pc EXCEPT ![th] = IF ended THEN "idle" ELSE "user"]
    BY <1>11 DEF Transfer
  <2>2. w \in Tasks /\ tstate[w] = "waiting"
    BY <2>1, <1>9
  <2>3. self[th] \in Tasks /\ tstate[self[th]] = "running"
    BY <2>1, <1>a DEF SelfInv
  <2> HIDE DEF w, ended, outer
  <2>4. w # self[th]
    BY <2>2, <2>3
  <2>5. CASE /\ tstate' = [tstate EXCEPT ![w] = "running", ![self[th]] = outer]
             /\ self' = [self EXCEPT ![th] = w]
             /\ pc' = [pc EXCEPT ![th] = "user"]
    <3>1. /\ tstate'[w] = "running"
          /\ \A s \in Tasks : s # self[th] /\ tstate[s] = "running" => tstate'[s] = "running"
      BY <2>2, <2>3, <2>4, <2>5, <1>b
    <3>2. /\ pc'[th] = "user"
          /\ \A o \in Threads \ {th} : pc'[o] = pc[o] /\ mode'[o] = mode[o]
      BY <2>1, <2>5, <1>b
    <3> QED BY <2>2, <2>5, <3>1, <3>2, <1>a, SelfTaken
  <2>6. CASE /\ tstate' = [tstate EXCEPT ![w] = "ready",
                                         ![self[th]] = IF ended THEN "done" ELSE @]
             /\ self' = [self EXCEPT ![th] = IF ended THEN NoTask ELSE @]
             /\ pc' = [pc EXCEPT ![th] = IF ended THEN "idle" ELSE "user"]
    <3>1. CASE ended
      <4>1. \A s \in Tasks : s # self[th] /\ tstate[s] = "running" => tstate'[s] = "running"
        BY <2>2, <2>3, <2>6, <3>1, <1>b
      <4>2. self'[th] = NoTask /\ pc'[th] = "idle"
            /\ (\A o \in Threads \ {th} : pc'[o] = pc[o] /\ mode'[o] = mode[o] /\ self'[o] = self[o])
        BY <2>1, <2>6, <3>1, <1>b
      <4> QED BY <4>1, <4>2, <1>e
    <3>2. CASE ~ended
      <4>1. \A s \in Tasks : tstate[s] = "running" => tstate'[s] = "running"
        BY <2>2, <2>3, <2>4, <2>6, <3>2, <1>b
      <4>2. self' = self /\ pc'[th] = "user"
            /\ (\A o \in Threads \ {th} : pc'[o] = pc[o] /\ mode'[o] = mode[o] /\ self'[o] = self[o])
        BY <2>1, <2>6, <3>2, <1>b
      <4> QED BY <4>1, <4>2, <2>3, <1>e
    <3> QED BY <3>1, <3>2
  <2> QED BY <2>1, <2>5, <2>6
<1>12. CASE Destroy(th)
  <2>1. /\ pc[th] = "user" /\ UNCHANGED <<tstate, self>> /\ mode'[th] = "post"
        /\ pc'[th] \in {"user", "resume"}
        /\ \A o \in Threads \ {th} : pc'[o] = pc[o] /\ mode'[o] = mode[o]
    BY <1>12, <1>b DEF Destroy, sched
  <2>2. self[th] \in Tasks
    BY <2>1, <1>a DEF SelfInv
  <2> QED BY <2>1, <2>2, <1>e
<1>13. CASE Await(th)
  <2>1. pc[th] = "user" /\ UNCHANGED <<tstate, self, mode>> /\ pc'[th] \in {"user", "suspend"}
        /\ (\A o \in Threads \ {th} : pc'[o] = pc[o])
    BY <1>13, <1>b DEF Await, BeginRound
  <2>2. self[th] \in Tasks
    BY <2>1, <1>a DEF SelfInv
  <2> QED BY <2>1, <2>2, <1>e
<1>14. CASE Try(th)
  <2>1. UNCHANGED <<pc, tstate, self, mode>>
    BY <1>14 DEF Try, locals
  <2> QED BY <1>a, <2>1 DEF SelfInv, InSection
<1> QED BY <1>1, <1>2, <1>3, <1>5, <1>6, <1>7, <1>8, <1>10, <1>11, <1>12, <1>13, <1>14
        DEF UserStep, CommonStep

LEMMA DeadStep ==
  ASSUME TypeOK, ControlInv, NEW th \in Threads, UserStep(th)
  PROVE  DeadInv'
<1>a. pc \in [Threads -> Steps] /\ alive \in BOOLEAN
  BY DEF TypeOK
<1>b. ~alive => /\ \A o \in Threads : pc[o] \in {"idle", "user", "resume"}
                /\ input = <<>> /\ output = <<>>
  BY DEF ControlInv, DeadInv
\* A step that is possible only while the object exists and leaves it in existence.
<1>1. CASE alive /\ alive' = alive
  BY <1>1 DEF DeadInv
\* A step of the executor or of somebody's chain, after the destructor has begun.
<1>2. ASSUME ~alive, UNCHANGED shared, pc'[th] \in {"idle", "user", "resume"},
             \A o \in Threads \ {th} : pc'[o] = pc[o]
      PROVE  DeadInv'
  BY <1>2, <1>b DEF DeadInv, shared
<1>3. ASSUME NEW t \in Tasks, Dispatch(th, t) PROVE DeadInv'
  <2>1. alive' = alive /\ UNCHANGED shared /\ pc'[th] \in {"idle", "user", "resume"}
        /\ (\A o \in Threads \ {th} : pc'[o] = pc[o])
    BY <1>3, <1>a DEF Dispatch, shared
  <2> QED BY <2>1, <1>1, <1>2, <1>a
<1>4. CASE Complete(th)
  <2>1. alive' = alive /\ UNCHANGED shared /\ pc'[th] \in {"idle", "user", "resume"}
        /\ (\A o \in Threads \ {th} : pc'[o] = pc[o])
    BY <1>4, <1>a DEF Complete, FinishTask, shared
  <2> QED BY <2>1, <1>1, <1>2, <1>a
<1>5. CASE Push(th) \/ AddWaiter(th) \/ MustTake1(th) \/ Commit(th)
  BY <1>5, <1>1, <1>a, <1>b DEF Push, AddWaiter, MustTake1, Commit
<1>6. CASE Resume(th)
  <2>1. alive' = alive /\ UNCHANGED shared /\ pc'[th] \in {"idle", "user", "resume"}
        /\ (\A o \in Threads \ {th} : pc'[o] = pc[o])
    BY <1>6, <1>a DEF Resume, shared
  <2> QED BY <2>1, <1>1, <1>2, <1>a
<1>7. CASE Transfer(th)
  <2>1. alive' = alive /\ UNCHANGED shared /\ pc'[th] \in {"idle", "user", "resume"}
        /\ (\A o \in Threads \ {th} : pc'[o] = pc[o])
    BY <1>7, <1>a DEF Transfer, shared
  <2> QED BY <2>1, <1>1, <1>2, <1>a
<1>8. CASE Destroy(th)
  BY <1>8, <1>a DEF Destroy, DeadInv
<1>9. CASE Await(th) \/ Try(th) \/ \E m \in Modes : Give(th, m)
  BY <1>9, <1>1 DEF Await, BeginRound, Try, Give
<1> QED BY <1>3, <1>4, <1>5, <1>6, <1>7, <1>8, <1>9 DEF UserStep, CommonStep

LEMMA SectionStep ==
  ASSUME TypeOK, ControlInv, NEW th \in Threads, UserStep(th)
  PROVE  SectionPart'
<1>a. pc \in [Threads -> Steps] /\ alive \in BOOLEAN /\ count \in Nat /\ waiters \in Nat
  BY DEF TypeOK
<1>b. SectionPart /\ (pc[th] \in {"add_waiter", "take", "commit", "suspend"} => alive)
  BY <1>a DEF ControlInv, DeadInv
\* Steps out of the section that leave the word alone.
<1>1. ASSUME pc[th] \notin {"take", "commit"}, pc'[th] \notin {"take", "commit"},
             \A o \in Threads \ {th} : pc'[o] = pc[o],
             UNCHANGED <<count, waiters, pending, want>>, alive' => alive
      PROVE  SectionPart'
  BY <1>1, <1>b, OutsideSameWord DEF InSection
<1>2. ASSUME NEW t \in Tasks, Dispatch(th, t) PROVE SectionPart'
  BY <1>2, <1>1, <1>a DEF Dispatch, shared
<1>3. CASE Complete(th)
  BY <1>3, <1>1, <1>a DEF Complete, FinishTask, shared
<1>4. CASE Push(th)
  BY <1>4, <1>1, <1>a DEF Push
<1>5. CASE AddWaiter(th)
  <2>1. /\ MaybeWake(th, "post") /\ "post" \in Modes /\ ~InSection(th)
        /\ alive /\ alive' = alive /\ pending' = pending
        /\ count' \in Nat /\ waiters' \in Nat /\ count' >= count /\ waiters' >= waiters
        /\ count' = count
    BY <1>5, <1>a, <1>b DEF AddWaiter, Modes, InSection
  <2> QED BY <2>1, <1>b, WakeSection
<1>6. ASSUME NEW m \in Modes, Give(th, m) PROVE SectionPart'
  <2>1. /\ MaybeWake(th, m) /\ ~InSection(th)
        /\ alive /\ alive' = alive /\ pending' = pending
        /\ count' \in Nat /\ waiters' \in Nat /\ count' >= count /\ waiters' >= waiters
        /\ waiters' = waiters
    BY <1>6, <1>a DEF Give, InSection
  <2> QED BY <2>1, <1>b, WakeSection
<1>7. CASE MustTake1(th)
  BY <1>7, <1>b, TakeSection
<1>8. CASE Commit(th)
  BY <1>8, <1>b, CommitSection
<1>9. CASE Resume(th)
  <2>1. /\ pc[th] = "resume" /\ pc'[th] \in {"idle", "user", "resume"}
        /\ \A o \in Threads \ {th} : pc'[o] = pc[o]
        /\ UNCHANGED <<count, waiters, pending, want, alive>>
    BY <1>9, <1>a DEF Resume, shared
  <2> QED BY <2>1, <1>1
<1>10. CASE Transfer(th)
  <2>1. /\ pc[th] = "resume" /\ pc'[th] \in {"idle", "user", "resume"}
        /\ \A o \in Threads \ {th} : pc'[o] = pc[o]
        /\ UNCHANGED <<count, waiters, pending, want, alive>>
    BY <1>10, <1>a DEF Transfer, shared
  <2> QED BY <2>1, <1>1
<1>11. CASE Destroy(th)
  BY <1>11, <1>1, <1>a DEF Destroy, sched
<1>12. CASE Await(th)
  <2>1. CASE CanAcquire /\ TakePermit(self[th]) /\ pc' = pc
    <3>1. ~InSection(th) /\ UNCHANGED <<waiters, pending, want, alive>> /\ count' = count - 1
      BY <1>12, <2>1 DEF Await, BeginRound, TakePermit, InSection
    <3> QED BY <2>1, <3>1, <1>b, OutsideTake
  <2>2. CASE ~CanAcquire /\ pc' = [pc EXCEPT ![th] = "suspend"] /\ UNCHANGED <<count, own>>
    BY <1>12, <2>2, <1>1, <1>a DEF Await, BeginRound
  <2> QED BY <1>12, <2>1, <2>2 DEF Await
<1>13. CASE Try(th)
  <2>1. ~InSection(th) /\ UNCHANGED <<pc, waiters, pending, want, alive>>
    BY <1>13 DEF Try, locals, InSection
  <2>2. CASE count' = count
    BY <2>1, <2>2, <1>b, OutsideSameWord DEF InSection
  <2>3. CASE CanAcquire /\ count' = count - 1
    BY <2>1, <2>3, <1>b, OutsideTake
  <2> QED BY <1>13, <2>2, <2>3 DEF Try
<1> QED BY <1>2, <1>3, <1>4, <1>5, <1>6, <1>7, <1>8, <1>9, <1>10, <1>11, <1>12, <1>13
        DEF UserStep, CommonStep

LEMMA ControlStep ==
  ASSUME TypeOK, ControlInv, LineInv, NEW th \in Threads, UserStep(th)
  PROVE  ControlInv'
BY SelfStep, DeadStep, SectionStep DEF ControlInv
----------------------------------------------------------------------------
(* Who is listed where. *)

\* Lists that do not change, and tasks that go on waiting.
LEMMA LineFrame ==
  ASSUME LineInv, Waiting' = Waiting, \A o \in Threads : Hand(o)' = Hand(o),
         \A t : tstate[t] = "waiting" => tstate'[t] = "waiting"
  PROVE  LineInv'
BY DEF LineInv

\* Only one thread's hand and the list change.
LEMMA LineMove ==
  ASSUME LineInv, NEW th \in Threads, IsInjective(Waiting'), IsInjective(Hand(th)'),
         \A o \in Threads \ {th} : Hand(o)' = Hand(o),
         \A t \in ToSet(Waiting') : tstate'[t] = "waiting" /\ t \notin ToSet(Hand(th)'),
         \A t \in ToSet(Hand(th)') : tstate'[t] = "waiting",
         \A o \in Threads \ {th} : \A t \in ToSet(Hand(o)) :
           tstate'[t] = "waiting" /\ t \notin ToSet(Waiting') /\ t \notin ToSet(Hand(th)')
  PROVE  LineInv'
<1>1. ASSUME NEW o \in Threads, NEW t \in ToSet(Hand(o)')
      PROVE  /\ tstate'[t] = "waiting" /\ t \notin ToSet(Waiting')
             /\ \A p \in Threads \ {o} : t \notin ToSet(Hand(p)')
  <2>1. CASE o = th
    <3>1. \A p \in Threads \ {o} : t \notin ToSet(Hand(p)')
      BY <1>1, <2>1
    <3> QED BY <1>1, <2>1, <3>1
  <2>2. CASE o # th
    <3>1. t \in ToSet(Hand(o))
      BY <1>1, <2>2
    <3>2. \A p \in Threads \ {o} : t \notin ToSet(Hand(p))
      BY <3>1 DEF LineInv
    <3> QED BY <2>2, <3>1, <3>2
  <2> QED BY <2>1, <2>2
<1>2. \A o \in Threads : IsInjective(Hand(o)')
  BY DEF LineInv
<1> QED BY <1>1, <1>2 DEF LineInv

\* A thread out of the section holds what it is about to resume.
LEMMA HandFacts ==
  ASSUME TypeOK, ControlInv, NEW th \in Threads
  PROVE  /\ woken[th] \in Seq(Tasks) /\ pending[th] \in Seq(Tasks) /\ Hand(th) \in Seq(Tasks)
         /\ ~InSection(th) => pending[th] = <<>> /\ Hand(th) = woken[th]
<1>1. woken[th] \in Seq(Tasks) /\ pending[th] \in Seq(Tasks)
  BY DEF TypeOK
<1>2. ~InSection(th) => pending[th] = <<>>
  BY DEF ControlInv, SectionPart, SectionInv
<1> QED BY <1>1, <1>2, ConcatFacts DEF Hand

\* must_take_1 takes the oldest waiter of all, wherever it is.
LEMMA TakenFirst ==
  ASSUME TypeOK, NEW th \in Threads, MustTake1(th)
  PROVE  /\ Waiting # <<>> /\ Waiting' = Tail(Waiting) /\ Head(Refilled) = Head(Waiting)
         /\ Waiting \in Seq(Tasks)
         /\ pending'[th] = Append(pending[th], Head(Waiting))
         /\ \A o \in Threads \ {th} : pending'[o] = pending[o]
<1>1. /\ input \in Seq(Tasks) /\ output \in Seq(Tasks)
      /\ pending \in [Threads -> Seq(Tasks)]
  BY DEF TypeOK
<1>2. /\ Refilled # <<>> /\ output' = Tail(Refilled)
      /\ input' = IF output = <<>> THEN <<>> ELSE input
  BY DEF MustTake1
<1>3. pending' = [pending EXCEPT ![th] = Append(@, Head(Refilled))]
  BY DEF MustTake1
<1>4. Reverse(input) \in Seq(Tasks) /\ Reverse(<<>>) = <<>>
  <2>1. Reverse(<<>>) = <<>>
    <3>1. <<>> \in Seq(Tasks) /\ Len(<<>>) = 0
      OBVIOUS
    <3>2. Reverse(<<>>) \in Seq(Tasks) /\ Len(Reverse(<<>>)) = 0
      BY <3>1, ReverseFacts
    <3> QED BY <3>2
  <2> QED BY <1>1, <2>1, ReverseFacts
<1>5. CASE output = <<>>
  <2>1. Waiting = Reverse(input) /\ Refilled = Reverse(input)
    BY <1>1, <1>4, <1>5, ConcatFacts DEF Waiting, Refilled
  <2>2. input' = <<>> /\ output' = Tail(Reverse(input)) /\ Tail(Reverse(input)) \in Seq(Tasks)
    BY <1>2, <1>4, <1>5, <2>1
  <2>3. Waiting' = output' \o Reverse(<<>>)
    BY <2>2 DEF Waiting
  <2>4. output' \o <<>> = output'
    BY <2>2, ConcatFacts
  <2> QED BY <1>1, <1>2, <1>3, <1>4, <2>1, <2>2, <2>3, <2>4
<1>6. CASE output # <<>>
  <2>1. Refilled = output /\ input' = input /\ output' = Tail(output)
    BY <1>2, <1>6 DEF Refilled
  <2>2. Waiting' = Tail(output) \o Reverse(input)
    BY <2>1 DEF Waiting
  <2>3. ASSUME NEW r \in Seq(Tasks)
        PROVE  /\ output \o r # <<>> /\ Tail(output \o r) = Tail(output) \o r
               /\ Head(output \o r) = Head(output) /\ output \o r \in Seq(Tasks)
    <3>1. Len(output) \in Nat /\ Len(output) >= 1 /\ Len(r) \in Nat
      BY <1>1, <1>6
    <3>2. /\ output \o r \in Seq(Tasks) /\ Len(output \o r) = Len(output) + Len(r)
          /\ \A i \in 1..(Len(output) + Len(r)) :
               (output \o r)[i] = IF i <= Len(output) THEN output[i] ELSE r[i - Len(output)]
      BY <1>1
    <3>3. output \o r # <<>>
      BY <3>1, <3>2
    <3>4. /\ Tail(output) \in Seq(Tasks) /\ Len(Tail(output)) = Len(output) - 1
          /\ \A i \in 1..(Len(output) - 1) : Tail(output)[i] = output[i + 1]
      BY <1>1, <1>6
    <3>5. /\ Tail(output \o r) \in Seq(Tasks) /\ Len(Tail(output \o r)) = Len(output) + Len(r) - 1
          /\ \A i \in 1..(Len(output) + Len(r) - 1) : Tail(output \o r)[i] = (output \o r)[i + 1]
      BY <3>1, <3>2, <3>3
    <3>6. /\ Tail(output) \o r \in Seq(Tasks) /\ Len(Tail(output) \o r) = Len(output) + Len(r) - 1
          /\ \A i \in 1..(Len(output) + Len(r) - 1) :
               (Tail(output) \o r)[i] = IF i <= Len(output) - 1 THEN Tail(output)[i]
                                        ELSE r[i - (Len(output) - 1)]
      BY <3>1, <3>4
    <3>7. ASSUME NEW i \in 1..(Len(output) + Len(r) - 1)
          PROVE  Tail(output \o r)[i] = (Tail(output) \o r)[i]
      <4>1. i + 1 \in 1..(Len(output) + Len(r)) /\ (i + 1 <= Len(output) <=> i <= Len(output) - 1)
            /\ i + 1 - Len(output) = i - (Len(output) - 1)
        BY <3>1
      <4>2. CASE i <= Len(output) - 1
        BY <3>1, <3>2, <3>4, <3>5, <3>6, <4>1, <4>2
      <4>3. CASE ~(i <= Len(output) - 1)
        BY <3>1, <3>2, <3>5, <3>6, <4>1, <4>3
      <4> QED BY <4>2, <4>3
    <3>8. Tail(output \o r) = Tail(output) \o r
      BY <3>1, <3>5, <3>6, <3>7
    <3>9. Head(output \o r) = Head(output)
      BY <1>1, <1>6, <3>1, <3>2, <3>3
    <3> QED BY <3>2, <3>3, <3>8, <3>9
  <2>4. Waiting = output \o Reverse(input)
    BY DEF Waiting
  <2> QED BY <1>1, <1>3, <1>4, <2>1, <2>2, <2>3, <2>4
<1> QED BY <1>5, <1>6

LEMMA LineQuiet ==
  ASSUME TypeOK, LineInv, UNCHANGED <<input, output, pending, woken>>,
         \A t \in Tasks : tstate[t] = "waiting" => tstate'[t] = "waiting"
  PROVE  LineInv'
<1>1. Waiting' = Waiting /\ \A o \in Threads : Hand(o)' = Hand(o)
  BY DEF Waiting, Hand
<1>2. ToSet(Waiting) \subseteq Tasks /\ \A o \in Threads : ToSet(Hand(o)) \subseteq Tasks
  <2>1. \A o \in Threads : woken[o] \in Seq(Tasks) /\ pending[o] \in Seq(Tasks)
    BY DEF TypeOK
  <2>2. \A o \in Threads : Hand(o) \in Seq(Tasks)
    BY <2>1, ConcatFacts DEF Hand
  <2> QED BY <2>2, WaitingFacts DEF ToSet
<1> QED BY <1>1, <1>2 DEF LineInv

LEMMA LinePush ==
  ASSUME TypeOK, ControlInv, LineInv, NEW th \in Threads, Push(th)
  PROVE  LineInv' /\ Waiting' = Append(Waiting, self[th])
<1> DEFINE t == self[th]
<1>1. t \in Tasks /\ tstate[t] = "running"
  BY DEF Push, ControlInv, SelfInv
<1>2. /\ UNCHANGED <<output, pending, woken>> /\ input' = <<t>> \o input
      /\ tstate' = [tstate EXCEPT ![t] = "waiting"]
  BY DEF Push
<1> HIDE DEF t
<1>3. input \in Seq(Tasks) /\ output \in Seq(Tasks) /\ Waiting \in Seq(Tasks)
  BY WaitingFacts DEF TypeOK
<1>4. Waiting' = Append(Waiting, t)
  BY <1>1, <1>2, <1>3, PushedLast DEF Waiting
<1>5. t \notin ToSet(Waiting) /\ \A o \in Threads : t \notin ToSet(Hand(o))
  BY <1>1 DEF LineInv
<1>6. IsInjective(Waiting') /\ ToSet(Waiting') = ToSet(Waiting) \cup {t}
  <2>1. IsInjective(Waiting)
    BY DEF LineInv
  <2> QED BY <1>1, <1>3, <1>4, <1>5, <2>1, PushInjective
<1>7. \A o \in Threads : Hand(o)' = Hand(o)
  BY <1>2 DEF Hand
<1>8. \A s : tstate[s] = "waiting" /\ s \in Tasks => tstate'[s] = "waiting"
  BY <1>1, <1>2 DEF TypeOK
<1>9. tstate'[t] = "waiting"
  BY <1>1, <1>2 DEF TypeOK
<1>10. ToSet(Waiting) \subseteq Tasks /\ \A o \in Threads : ToSet(Hand(o)) \subseteq Tasks
  BY <1>3, HandFacts DEF ToSet
<1>11. \A s \in ToSet(Waiting') : tstate'[s] = "waiting" /\ s \notin ToSet(Hand(th)')
  BY <1>5, <1>6, <1>7, <1>8, <1>9, <1>10 DEF LineInv
<1>12. \A o \in Threads : \A s \in ToSet(Hand(o)) : tstate'[s] = "waiting" /\ s \notin ToSet(Waiting')
  BY <1>5, <1>6, <1>8, <1>10 DEF LineInv
<1>13. \A o \in Threads \ {th} : \A s \in ToSet(Hand(o)) : s \notin ToSet(Hand(th)')
  BY <1>7 DEF LineInv
<1>14. IsInjective(Hand(th)')
  BY <1>7 DEF LineInv
<1>15. LineInv'
  BY <1>6, <1>7, <1>11, <1>12, <1>13, <1>14, LineMove
<1> QED BY <1>4, <1>15 DEF t

LEMMA LineTake ==
  ASSUME TypeOK, ControlInv, LineInv, NEW th \in Threads, MustTake1(th)
  PROVE  LineInv'
<1> DEFINE t == Head(Waiting)
<1>1. /\ Waiting # <<>> /\ Waiting' = Tail(Waiting) /\ Waiting \in Seq(Tasks)
      /\ pending'[th] = Append(pending[th], t)
      /\ \A o \in Threads \ {th} : pending'[o] = pending[o]
  BY TakenFirst
<1>2. woken' = woken /\ tstate' = tstate
  BY DEF MustTake1, sched
<1>3. /\ t \in ToSet(Waiting) /\ t \in Tasks /\ IsInjective(Waiting')
      /\ ToSet(Waiting') = ToSet(Waiting) \ {t}
  <2>1. IsInjective(Waiting)
    BY DEF LineInv
  <2> QED BY <1>1, <2>1, TailInjective
<1> HIDE DEF t
<1>4. woken[th] \in Seq(Tasks) /\ pending[th] \in Seq(Tasks) /\ Hand(th) \in Seq(Tasks)
  BY HandFacts
<1>5. Hand(th)' = Append(Hand(th), t)
  <2>1. Hand(th)' = woken[th] \o Append(pending[th], t)
    BY <1>1, <1>2 DEF Hand
  <2>2. woken[th] \o Append(pending[th], t) = Append(woken[th] \o pending[th], t)
    <3> DEFINE u == woken[th]
               v == pending[th]
    <3>1. t \in Tasks /\ u \in Seq(Tasks) /\ v \in Seq(Tasks)
      BY <1>3, <1>4
    <3> HIDE DEF u, v
    <3>2. u \o Append(v, t) = Append(u \o v, t)
      BY <3>1
    <3> QED BY <3>2 DEF u, v
  <2> QED BY <2>1, <2>2 DEF Hand
<1>6. /\ tstate[t] = "waiting" /\ IsInjective(Hand(th))
      /\ \A o \in Threads : t \notin ToSet(Hand(o))
  BY <1>3 DEF LineInv
<1>7. IsInjective(Hand(th)') /\ ToSet(Hand(th)') = ToSet(Hand(th)) \cup {t}
  BY <1>3, <1>4, <1>5, <1>6, PushInjective
<1>8. \A o \in Threads \ {th} : Hand(o)' = Hand(o)
  BY <1>1, <1>2 DEF Hand
<1>9. \A s \in ToSet(Waiting') : tstate'[s] = "waiting" /\ s \notin ToSet(Hand(th)')
  BY <1>2, <1>3, <1>7 DEF LineInv
<1>10. \A s \in ToSet(Hand(th)') : tstate'[s] = "waiting"
  BY <1>2, <1>6, <1>7 DEF LineInv
<1>11. \A o \in Threads \ {th} : \A s \in ToSet(Hand(o)) :
         tstate'[s] = "waiting" /\ s \notin ToSet(Waiting') /\ s \notin ToSet(Hand(th)')
  BY <1>2, <1>3, <1>6, <1>7 DEF LineInv
<1> QED BY <1>3, <1>7, <1>8, <1>9, <1>10, <1>11, LineMove

LEMMA LineCommit ==
  ASSUME TypeOK, LineInv, NEW th \in Threads, Commit(th)
  PROVE  LineInv'
<1>1. /\ UNCHANGED <<input, output, tstate>>
      /\ woken' = [woken EXCEPT ![th] = @ \o pending[th]]
      /\ pending' = [pending EXCEPT ![th] = <<>>]
      /\ woken \in [Threads -> Seq(Tasks)] /\ pending \in [Threads -> Seq(Tasks)]
  BY DEF Commit, TypeOK
<1>2. /\ woken'[th] = woken[th] \o pending[th] /\ pending'[th] = <<>>
      /\ \A o \in Threads \ {th} : woken'[o] = woken[o] /\ pending'[o] = pending[o]
  BY <1>1
<1>3. woken[th] \o pending[th] \in Seq(Tasks)
  BY <1>1
<1>4. (woken[th] \o pending[th]) \o <<>> = woken[th] \o pending[th]
  BY <1>3
<1>5. Hand(th)' = Hand(th)
  BY <1>2, <1>4 DEF Hand
<1>6. \A o \in Threads : Hand(o)' = Hand(o)
  BY <1>2, <1>5 DEF Hand
<1>7. Waiting' = Waiting
  BY <1>1 DEF Waiting
<1> QED BY <1>1, <1>6, <1>7, LineFrame

\* Somebody is taken out of the hand of th, and nobody else stops waiting.
LEMMA LineRelease ==
  ASSUME TypeOK, ControlInv, LineInv, NEW th \in Threads, ~InSection(th),
         NEW i \in 1..Len(woken[th]), woken' = [woken EXCEPT ![th] = RemoveAt(woken[th], i)],
         UNCHANGED <<input, output, pending>>,
         \A t \in Tasks \ {woken[th][i]} : tstate[t] = "waiting" => tstate'[t] = "waiting"
  PROVE  LineInv'
<1> DEFINE w == woken[th][i]
           r == RemoveAt(woken[th], i)
<1>1. /\ woken[th] \in Seq(Tasks) /\ pending[th] = <<>> /\ Hand(th) = woken[th]
      /\ woken \in [Threads -> Seq(Tasks)]
  BY HandFacts DEF TypeOK
<1>2. IsInjective(woken[th])
  BY <1>1 DEF LineInv
<1>3. r \in Seq(Tasks) /\ IsInjective(r) /\ ToSet(r) = ToSet(woken[th]) \ {w} /\ w \in ToSet(woken[th])
  BY <1>1, <1>2, RemoveAtInjective
<1>4. woken'[th] = r /\ \A o \in Threads \ {th} : woken'[o] = woken[o]
  BY <1>1
<1>a. \A t \in Tasks \ {w} : tstate[t] = "waiting" => tstate'[t] = "waiting"
  OBVIOUS
<1> HIDE DEF w, r
<1>5. Hand(th)' = r
  <2>1. r \o <<>> = r
    BY <1>3
  <2>2. pending'[th] = <<>>
    BY <1>1
  <2> QED BY <1>4, <2>1, <2>2 DEF Hand
<1>6. \A o \in Threads \ {th} : Hand(o)' = Hand(o)
  BY <1>4 DEF Hand
<1>7. Waiting' = Waiting
  BY DEF Waiting
<1>8. ToSet(Waiting) \subseteq Tasks /\ \A o \in Threads : ToSet(Hand(o)) \subseteq Tasks
  BY WaitingFacts, HandFacts DEF ToSet
<1>9. w \notin ToSet(Waiting) /\ \A o \in Threads \ {th} : w \notin ToSet(Hand(o))
  BY <1>1, <1>3 DEF LineInv
<1>10. IsInjective(Waiting') /\ IsInjective(Hand(th)')
  BY <1>3, <1>5, <1>7 DEF LineInv
<1>11. \A s \in ToSet(Waiting') : tstate'[s] = "waiting" /\ s \notin ToSet(Hand(th)')
  BY <1>1, <1>3, <1>5, <1>7, <1>8, <1>9, <1>a DEF LineInv
<1>12. \A s \in ToSet(Hand(th)') : tstate'[s] = "waiting"
  BY <1>1, <1>3, <1>5, <1>8, <1>a DEF LineInv
<1>13. \A o \in Threads \ {th} : \A s \in ToSet(Hand(o)) :
         tstate'[s] = "waiting" /\ s \notin ToSet(Waiting') /\ s \notin ToSet(Hand(th)')
  BY <1>1, <1>3, <1>5, <1>7, <1>8, <1>9, <1>a DEF LineInv
<1> QED BY <1>6, <1>10, <1>11, <1>12, <1>13, LineMove

LEMMA LineResume ==
  ASSUME TypeOK, ControlInv, LineInv, NEW th \in Threads, Resume(th)
  PROVE  LineInv'
<1> DEFINE i == IF mode[th] = "post" THEN 1 ELSE 2
<1>1. /\ pc[th] = "resume" /\ Len(woken[th]) >= i
      /\ woken' = [woken EXCEPT ![th] = RemoveAt(woken[th], i)]
      /\ tstate' = [tstate EXCEPT ![woken[th][i]] = "ready"]
      /\ UNCHANGED <<input, output, pending>>
  BY DEF Resume, shared
<1>2. i \in Nat /\ i >= 1 /\ Len(woken[th]) \in Nat
  BY DEF TypeOK
<1> HIDE DEF i
<1>3. i \in 1..Len(woken[th]) /\ ~InSection(th)
  BY <1>1, <1>2 DEF InSection
<1>4. \A t \in Tasks \ {woken[th][i]} : tstate[t] = "waiting" => tstate'[t] = "waiting"
  BY <1>1 DEF TypeOK
<1> QED BY <1>1, <1>3, <1>4, LineRelease

LEMMA LineTransfer ==
  ASSUME TypeOK, ControlInv, LineInv, NEW th \in Threads, Transfer(th)
  PROVE  LineInv'
<1>1. /\ pc[th] = "resume" /\ mode[th] # "post" /\ Len(woken[th]) = 1
      /\ woken' = [woken EXCEPT ![th] = <<>>] /\ UNCHANGED <<input, output, pending>>
  BY DEF Transfer, shared
<1>2. self[th] \in Tasks /\ tstate[self[th]] = "running" /\ ~InSection(th)
  BY <1>1 DEF ControlInv, SelfInv, InSection
<1>3. \A t \in Tasks \ {woken[th][1]} : tstate[t] = "waiting" => tstate'[t] = "waiting"
  <2>1. \A t \in Tasks : t # woken[th][1] /\ t # self[th] => tstate'[t] = tstate[t]
    BY DEF Transfer, TypeOK
  <2> QED BY <1>2, <2>1
<1>4. RemoveAt(woken[th], 1) = <<>>
  <2>1. woken[th] \in Seq(Tasks)
    BY DEF TypeOK
  <2>2. /\ SubSeq(woken[th], 1, 0) \in Seq(Tasks) /\ Len(SubSeq(woken[th], 1, 0)) = 0
        /\ SubSeq(woken[th], 2, 1) \in Seq(Tasks) /\ Len(SubSeq(woken[th], 2, 1)) = 0
    BY <1>1, <2>1
  <2>3. SubSeq(woken[th], 1, 0) = <<>> /\ SubSeq(woken[th], 2, 1) = <<>>
    BY <2>2
  <2>4. RemoveAt(woken[th], 1) = SubSeq(woken[th], 1, 0) \o SubSeq(woken[th], 2, 1)
    BY <1>1 DEF RemoveAt
  <2> QED BY <2>3, <2>4
<1>5. 1 \in 1..Len(woken[th])
  BY <1>1
<1> QED BY <1>1, <1>2, <1>3, <1>4, <1>5, LineRelease

LEMMA LineDestroy ==
  ASSUME TypeOK, ControlInv, LineInv, NEW th \in Threads, Destroy(th)
  PROVE  LineInv'
<1>1. /\ input' = <<>> /\ output' = <<>> /\ pc[th] = "user"
      /\ woken' = [woken EXCEPT ![th] = output \o input]
      /\ UNCHANGED <<tstate, pending>>
  BY DEF Destroy, sched
<1>2. pending[th] = <<>> /\ woken \in [Threads -> Seq(Tasks)]
  BY <1>1, HandFacts DEF TypeOK, InSection
<1>3. input \in Seq(Tasks) /\ output \in Seq(Tasks)
  BY DEF TypeOK
<1>4. /\ output \o input \in Seq(Tasks) /\ IsInjective(output \o input)
      /\ ToSet(output \o input) = ToSet(Waiting)
  <2>1. IsInjective(output \o Reverse(input))
    BY DEF LineInv, Waiting
  <2> QED BY <1>3, <2>1, ReverseInjective DEF Waiting
<1>5. Hand(th)' = output \o input /\ \A o \in Threads \ {th} : Hand(o)' = Hand(o)
  <2>1. woken'[th] = output \o input /\ pending'[th] = <<>>
        /\ (\A o \in Threads \ {th} : woken'[o] = woken[o] /\ pending'[o] = pending[o])
    BY <1>1, <1>2
  <2>2. (output \o input) \o <<>> = output \o input
    BY <1>4
  <2> QED BY <2>1, <2>2 DEF Hand
<1>6. Waiting' = <<>>
  <2>1. Reverse(<<>>) \in Seq(Tasks) /\ Len(Reverse(<<>>)) = 0
    <3>1. <<>> \in Seq(Tasks) /\ Len(<<>>) = 0
      OBVIOUS
    <3> QED BY <3>1, ReverseFacts
  <2>2. Waiting' = <<>> \o Reverse(<<>>)
    BY <1>1 DEF Waiting
  <2> QED BY <2>1, <2>2
<1>7. ToSet(<<>>) = {} /\ IsInjective(<<>>)
  BY DEF ToSet, IsInjective
<1>8. \A s \in ToSet(Hand(th)') : tstate'[s] = "waiting"
  BY <1>1, <1>4, <1>5 DEF LineInv
<1>9. \A o \in Threads \ {th} : \A s \in ToSet(Hand(o)) :
         tstate'[s] = "waiting" /\ s \notin ToSet(Waiting') /\ s \notin ToSet(Hand(th)')
  BY <1>1, <1>4, <1>5, <1>6, <1>7 DEF LineInv
<1>10. IsInjective(Waiting') /\ IsInjective(Hand(th)') /\ ToSet(Waiting') = {}
  BY <1>4, <1>5, <1>6, <1>7
<1> QED BY <1>5, <1>8, <1>9, <1>10, LineMove

LEMMA LineStep ==
  ASSUME TypeOK, ControlInv, LineInv, NEW th \in Threads, UserStep(th)
  PROVE  LineInv'
<1>a. tstate \in [Tasks -> {"ready", "running", "waiting", "done"}]
      /\ (self[th] \in Tasks => tstate[self[th]] = "running")
  BY DEF TypeOK, ControlInv, SelfInv
<1>1. ASSUME NEW t \in Tasks, Dispatch(th, t) PROVE LineInv'
  BY <1>1, <1>a, LineQuiet DEF Dispatch, shared
<1>2. CASE Complete(th)
  <2>1. self[th] \in Tasks
    BY <1>2 DEF Complete, ControlInv, SelfInv
  <2>2. tstate' = [tstate EXCEPT ![self[th]] = "done"]
        /\ UNCHANGED <<input, output, pending, woken>>
    BY <1>2 DEF Complete, FinishTask, shared
  <2> QED BY <1>a, <2>1, <2>2, LineQuiet
<1>3. ASSUME NEW m \in Modes, MaybeWake(th, m), count' \in Nat, waiters' \in Nat,
             UNCHANGED <<input, output, pending, woken>>
      PROVE  LineInv'
  <2>1. \/ tstate' = tstate
        \/ self[th] \in Tasks /\ tstate' = [tstate EXCEPT ![self[th]] = "done"]
    BY <1>3, WakeOutcome
  <2>2. \A t \in Tasks : tstate[t] = "waiting" => tstate'[t] = "waiting"
    BY <1>a, <2>1
  <2> QED BY <1>3, <2>2, LineQuiet
<1>4. CASE AddWaiter(th)
  <2>1. /\ MaybeWake(th, "post") /\ "post" \in Modes /\ count' \in Nat /\ waiters' \in Nat
        /\ UNCHANGED <<input, output, pending, woken>>
    BY <1>4 DEF AddWaiter, Modes, TypeOK
  <2> QED BY <2>1, <1>3
<1>5. ASSUME NEW m \in Modes, Give(th, m) PROVE LineInv'
  <2>1. /\ MaybeWake(th, m) /\ count' \in Nat /\ waiters' \in Nat
        /\ UNCHANGED <<input, output, pending, woken>>
    BY <1>5 DEF Give, TypeOK
  <2> QED BY <2>1, <1>3
<1>6. CASE Await(th)
  BY <1>6, LineQuiet DEF Await
<1>7. CASE Try(th)
  BY <1>7, LineQuiet DEF Try, locals
<1> QED BY <1>1, <1>2, <1>4, <1>5, <1>6, <1>7,
           LinePush, LineTake, LineCommit, LineResume, LineTransfer, LineDestroy
        DEF UserStep, CommonStep
----------------------------------------------------------------------------
(* Registered waiters against listed tasks. *)

\* A step that neither registers nor lists anybody.
LEMMA CountFrame ==
  ASSUME TypeOK, CountInv, NEW th \in Threads, pc[th] # "add_waiter", pc'[th] # "add_waiter",
         \A o \in Threads \ {th} : pc'[o] = pc[o],
         UNCHANGED <<input, output, pending, waiters>>, alive' => alive
  PROVE  CountInv'
<1>1. Adders' = Adders
  BY DEF Adders
<1>2. Waiting' = Waiting /\ InHand' = InHand
  BY DEF Waiting, InHand
<1> QED BY <1>1, <1>2 DEF CountInv

LEMMA CountPush ==
  ASSUME TypeOK, ControlInv, LineInv, CountInv, NEW th \in Threads, Push(th)
  PROVE  CountInv'
<1>1. /\ pc[th] = "suspend" /\ pc' = [pc EXCEPT ![th] = "add_waiter"]
      /\ UNCHANGED <<pending, waiters, alive>> /\ pc \in [Threads -> Steps]
  BY DEF Push, TypeOK
<1>2. th \notin Adders /\ Adders' = Adders \cup {th}
  BY <1>1 DEF Adders
<1>3. Cardinality(Adders') = Cardinality(Adders) + 1
  BY <1>2, WaitingFacts, FS_AddElement
<1>4. self[th] \in Tasks
  BY DEF Push, ControlInv, SelfInv
<1>5. Waiting' = Append(Waiting, self[th]) /\ Waiting \in Seq(Tasks)
  BY LinePush, WaitingFacts
<1>6. Len(Waiting') = Len(Waiting) + 1 /\ Len(Waiting) \in Nat
  BY <1>4, <1>5
<1>7. InHand' = InHand
  BY <1>1 DEF InHand
<1>8. InHand \in Nat /\ Cardinality(Adders) \in Nat /\ waiters \in Nat
  BY InHandFacts, WaitingFacts DEF TypeOK
<1>9. alive' = alive /\ waiters' = waiters
  BY <1>1
<1>10. CountInv' <=> (alive' => waiters' + Cardinality(Adders') = Len(Waiting') + InHand')
  BY DEF CountInv
<1>11. alive => waiters + Cardinality(Adders) = Len(Waiting) + InHand
  BY DEF CountInv
<1> HIDE DEF CountInv
<1> QED BY <1>3, <1>6, <1>7, <1>8, <1>9, <1>10, <1>11

LEMMA CountAdd ==
  ASSUME TypeOK, ControlInv, LineInv, CountInv, NEW th \in Threads, AddWaiter(th)
  PROVE  CountInv'
<1>1. /\ pc[th] = "add_waiter" /\ waiters' = waiters + 1
      /\ UNCHANGED <<input, output, pending, alive>>
      /\ MaybeWake(th, "post") /\ "post" \in Modes /\ count' \in Nat /\ waiters' \in Nat
  BY DEF AddWaiter, Modes, TypeOK
<1>2. pc'[th] # "add_waiter" /\ \A o \in Threads \ {th} : pc'[o] = pc[o]
  BY <1>1, WakeOutcome
<1>3. th \in Adders /\ Adders' = Adders \ {th}
  BY <1>1, <1>2 DEF Adders
<1>4. Cardinality(Adders') = Cardinality(Adders) - 1
  BY <1>3, WaitingFacts, FS_RemoveElement
<1>5. Waiting' = Waiting /\ InHand' = InHand
  BY <1>1 DEF Waiting, InHand
<1>6. /\ InHand \in Nat /\ Cardinality(Adders) \in Nat /\ waiters \in Nat
      /\ Len(Waiting) \in Nat
  <2>1. InHand \in Nat /\ waiters \in Nat
    BY InHandFacts DEF TypeOK
  <2>2. Cardinality(Adders) \in Nat /\ Waiting \in Seq(Tasks)
    BY WaitingFacts
  <2> QED BY <2>1, <2>2
<1>7. alive => waiters + Cardinality(Adders) = Len(Waiting) + InHand
  BY DEF CountInv
<1>8. CountInv' <=> (alive' => waiters' + Cardinality(Adders') = Len(Waiting') + InHand')
  BY DEF CountInv
<1> QED BY <1>1, <1>4, <1>5, <1>6, <1>7, <1>8

\* One more node is in hand.
LEMMA TakeHand ==
  ASSUME TypeOK, ControlInv, LineInv, NEW th \in Threads, MustTake1(th)
  PROVE  InHand = Len(pending[th]) /\ InHand \in Nat /\ InHand' = InHand + 1
<1>1. InSection(th) /\ InHand = Len(pending[th]) /\ InHand \in Nat
  <2>1. InSection(th)
    BY DEF MustTake1, InSection
  <2> QED BY <2>1, InHandFacts
<1>2. /\ Waiting # <<>> /\ Waiting \in Seq(Tasks)
      /\ pending'[th] = Append(pending[th], Head(Waiting))
      /\ \A o \in Threads \ {th} : pending'[o] = pending[o]
  BY TakenFirst
<1>3. \A o \in Threads \ {th} : pending'[o] = <<>>
  BY <1>1, <1>2 DEF ControlInv, SectionPart, SingleWaker, SectionInv
<1>4. Len(pending'[th]) = Len(pending[th]) + 1
  <2>1. pending[th] \in Seq(Tasks) /\ Head(Waiting) \in Tasks
    BY <1>2 DEF TypeOK
  <2> QED BY <1>2, <2>1
<1>5. InHand' = Len(pending'[th])
  <2>1. TypeOK' /\ LineInv'
    BY TypeStep, LineTake DEF UserStep, CommonStep
  <2>2. pending' \in [Threads -> Seq(Tasks)] /\ woken' \in [Threads -> Seq(Tasks)]
    BY <2>1 DEF TypeOK
  <2>3. IsInjective(woken'[th] \o pending'[th])
    BY <2>1 DEF LineInv, Hand
  <2>4. woken'[th] \in Seq(Tasks) /\ pending'[th] \in Seq(Tasks)
    BY <2>2
  <2>5. IsInjective(pending'[th])
    BY <2>3, <2>4, ConcatFacts
  <2>6. Cardinality({t \in Tasks : \E o \in Threads : t \in ToSet(pending'[o])})
          = Len(pending'[th])
    BY <1>3, <2>2, <2>5, HandCount
  <2> QED BY <2>6 DEF InHand
<1> QED BY <1>1, <1>4, <1>5

LEMMA CountTake ==
  ASSUME TypeOK, ControlInv, LineInv, CountInv, NEW th \in Threads, MustTake1(th)
  PROVE  CountInv'
<1>1. /\ pc[th] = "take" /\ UNCHANGED <<alive, waiters>> /\ pc \in [Threads -> Steps]
      /\ pc'[th] \in {"take", "commit"} /\ \A o \in Threads \ {th} : pc'[o] = pc[o]
  BY DEF MustTake1, TypeOK
<1>2. Adders' = Adders
  BY <1>1 DEF Adders
<1>3. Waiting # <<>> /\ Waiting' = Tail(Waiting) /\ Waiting \in Seq(Tasks)
  BY TakenFirst
<1>4. Len(Waiting') = Len(Waiting) - 1 /\ Len(Waiting) \in Nat
  BY <1>3
<1>5. InHand \in Nat /\ InHand' = InHand + 1
  BY TakeHand
<1>6. alive => waiters + Cardinality(Adders) = Len(Waiting) + InHand
  BY DEF CountInv
<1>7. CountInv' <=> (alive' => waiters' + Cardinality(Adders') = Len(Waiting') + InHand')
  BY DEF CountInv
<1>8. Cardinality(Adders) \in Nat /\ waiters \in Nat
  BY WaitingFacts DEF TypeOK
<1> QED BY <1>1, <1>2, <1>4, <1>5, <1>6, <1>7, <1>8

\* All nodes in hand are paid for.
LEMMA CommitHand ==
  ASSUME TypeOK, ControlInv, LineInv, NEW th \in Threads, Commit(th)
  PROVE  InHand = want[th] /\ InHand' = 0
<1>1. /\ pc[th] = "commit" /\ pending' = [pending EXCEPT ![th] = <<>>]
      /\ pending \in [Threads -> Seq(Tasks)]
  BY DEF Commit, TypeOK
<1>2. InSection(th) /\ InHand = want[th]
  <2>1. InSection(th)
    BY <1>1 DEF InSection
  <2>2. Len(pending[th]) = want[th]
    BY CommitSection DEF ControlInv
  <2> QED BY <2>1, <2>2, InHandFacts
<1>3. \A o \in Threads : pending'[o] = <<>>
  BY <1>1, <1>2 DEF ControlInv, SectionPart, SingleWaker, SectionInv
<1>4. Cardinality({t \in Tasks : \E o \in Threads : t \in ToSet(pending'[o])}) = 0
  BY <1>3, NoHand
<1> QED BY <1>2, <1>4 DEF InHand

LEMMA CountCommit ==
  ASSUME TypeOK, ControlInv, LineInv, CountInv, NEW th \in Threads, Commit(th)
  PROVE  CountInv'
<1>1. /\ pc[th] = "commit" /\ UNCHANGED <<alive, input, output>> /\ pc \in [Threads -> Steps]
      /\ waiters' = waiters - want[th]
      /\ pc'[th] \in {"take", "resume"} /\ \A o \in Threads \ {th} : pc'[o] = pc[o]
      /\ want[th] \in Nat /\ waiters \in Nat
  BY DEF Commit, TypeOK
<1>2. Adders' = Adders
  BY <1>1 DEF Adders
<1>3. Waiting' = Waiting
  BY <1>1 DEF Waiting
<1>4. InHand = want[th] /\ InHand' = 0
  BY CommitHand
<1>5. alive => waiters + Cardinality(Adders) = Len(Waiting) + InHand
  BY DEF CountInv
<1>6. CountInv' <=> (alive' => waiters' + Cardinality(Adders') = Len(Waiting') + InHand')
  BY DEF CountInv
<1>7. Cardinality(Adders) \in Nat /\ Len(Waiting) \in Nat
  BY WaitingFacts
<1> QED BY <1>1, <1>2, <1>3, <1>4, <1>5, <1>6, <1>7

LEMMA CountStep ==
  ASSUME TypeOK, ControlInv, LineInv, CountInv, NEW th \in Threads, UserStep(th)
  PROVE  CountInv'
<1>a. pc \in [Threads -> Steps]
  BY DEF TypeOK
<1>1. ASSUME NEW t \in Tasks, Dispatch(th, t) PROVE CountInv'
  BY <1>1, <1>a, CountFrame DEF Dispatch, shared
<1>2. CASE Complete(th)
  BY <1>2, <1>a, CountFrame DEF Complete, FinishTask, shared
<1>3. ASSUME NEW m \in Modes, Give(th, m) PROVE CountInv'
  <2>1. /\ MaybeWake(th, m) /\ count' \in Nat /\ waiters' \in Nat /\ pc[th] = "user"
        /\ UNCHANGED <<input, output, pending, waiters, alive>>
    BY <1>3 DEF Give, TypeOK
  <2>2. pc'[th] # "add_waiter" /\ \A o \in Threads \ {th} : pc'[o] = pc[o]
    BY <2>1, WakeOutcome
  <2> QED BY <2>1, <2>2, CountFrame
<1>4. CASE Await(th)
  <2>1. /\ pc[th] = "user" /\ pc'[th] \in {"user", "suspend"}
        /\ \A o \in Threads \ {th} : pc'[o] = pc[o]
        /\ UNCHANGED <<input, output, pending, waiters, alive>>
    BY <1>4, <1>a DEF Await, BeginRound
  <2> QED BY <2>1, CountFrame
<1>5. CASE Try(th)
  <2>1. /\ pc[th] = "user" /\ pc' = pc
        /\ UNCHANGED <<input, output, pending, waiters, alive>>
    BY <1>5 DEF Try, locals
  <2> QED BY <2>1, CountFrame
<1>6. CASE Resume(th)
  <2>1. /\ pc[th] = "resume" /\ pc'[th] \in {"idle", "user", "resume"}
        /\ \A o \in Threads \ {th} : pc'[o] = pc[o]
        /\ UNCHANGED <<input, output, pending, waiters, alive>>
    BY <1>6, <1>a DEF Resume, shared
  <2> QED BY <2>1, CountFrame
<1>7. CASE Transfer(th)
  <2>1. /\ pc[th] = "resume" /\ pc'[th] \in {"idle", "user", "resume"}
        /\ \A o \in Threads \ {th} : pc'[o] = pc[o]
        /\ UNCHANGED <<input, output, pending, waiters, alive>>
    BY <1>7, <1>a DEF Transfer, shared
  <2> QED BY <2>1, CountFrame
<1>8. CASE Destroy(th)
  BY <1>8 DEF Destroy, CountInv
<1> QED BY <1>1, <1>2, <1>3, <1>4, <1>5, <1>6, <1>7, <1>8,
           CountPush, CountAdd, CountTake, CountCommit
        DEF UserStep, CommonStep
----------------------------------------------------------------------------
(* The invariant. *)

LEMMA InitWInv ==
  ASSUME NEW n \in Nat, InitWith(n)
  PROVE  WInv
<1> USE DEF InitWith
<1>1. <<>> \in Seq(Tasks) /\ Len(<<>>) = 0 /\ ToSet(<<>>) = {} /\ IsInjective(<<>>)
  BY DEF ToSet, IsInjective
<1>2. TypeOK
  <2>1. input \in Seq(Tasks) /\ output \in Seq(Tasks)
        /\ pending \in [Threads -> Seq(Tasks)] /\ woken \in [Threads -> Seq(Tasks)]
    BY <1>1
  <2>2. rounds \in [Tasks -> 0..MaxRounds]
    BY RoundsAssumption
  <2>3. /\ count \in Nat /\ waiters \in Nat /\ alive \in BOOLEAN /\ own \subseteq Tasks
        /\ tstate \in [Tasks -> {"ready", "running", "waiting", "done"}]
        /\ self \in [Threads -> Tasks \cup {NoTask}] /\ want \in [Threads -> Nat]
    OBVIOUS
  <2>4. pc \in [Threads -> Steps] /\ mode \in [Threads -> Modes]
    BY DEF Steps, Modes
  <2> QED BY <2>1, <2>2, <2>3, <2>4 DEF TypeOK
<1>3. \A th \in Threads : ~InSection(th)
  BY DEF InSection
<1>4. ControlInv
  <2>1. SectionPart
    BY <1>3 DEF SectionPart, SingleWaker, SectionInv, WordInv
  <2>2. SelfInv /\ DeadInv
    BY <1>3, NoTaskAssumption DEF SelfInv, DeadInv
  <2> QED BY <2>1, <2>2 DEF ControlInv
<1>5. Waiting = <<>> /\ \A th \in Threads : Hand(th) = <<>>
  <2>1. Reverse(<<>>) \in Seq(Tasks) /\ Len(Reverse(<<>>)) = 0
    BY <1>1, ReverseFacts
  <2>2. Reverse(<<>>) = <<>> /\ <<>> \o <<>> = <<>>
    BY <2>1
  <2>3. input = <<>> /\ output = <<>>
        /\ (\A th \in Threads : woken[th] = <<>> /\ pending[th] = <<>>)
    OBVIOUS
  <2> QED BY <2>2, <2>3 DEF Waiting, Hand
<1>6. LineInv
  <2>1. ToSet(Waiting) = {} /\ IsInjective(Waiting)
        /\ (\A th \in Threads : ToSet(Hand(th)) = {} /\ IsInjective(Hand(th)))
    BY <1>1, <1>5
  <2> QED BY <2>1 DEF LineInv
<1>7. CountInv
  <2>1. Adders = {}
    BY DEF Adders
  <2>2. Cardinality(Adders) = 0 /\ InHand = 0 /\ Len(Waiting) = 0
    BY <1>1, <1>2, <1>3, <1>4, <1>5, <1>6, <2>1, FS_EmptySet, InHandFacts
  <2> QED BY <2>2 DEF CountInv
<1> QED BY <1>2, <1>4, <1>6, <1>7 DEF WInv

LEMMA StepWInv ==
  ASSUME WInv, NEW th \in Threads, UserStep(th)
  PROVE  WInv'
BY TypeStep, ControlStep, LineStep, CountStep DEF WInv

LEMMA StutterWInv ==
  ASSUME WInv, UNCHANGED vars
  PROVE  WInv'
<1> USE DEF vars, shared, sched, locals
<1>1. TypeOK'
  BY DEF WInv, TypeOK
<1>2. \A th \in Threads : InSection(th)' <=> InSection(th)
  BY DEF InSection
<1>3. ControlInv'
  <2>1. SingleWaker' /\ WordInv' /\ DeadInv'
    BY <1>2 DEF WInv, ControlInv, SectionPart, SingleWaker, WordInv, DeadInv
  <2>2. SectionInv'
    BY <1>2 DEF WInv, ControlInv, SectionPart, SectionInv
  <2>3. SelfInv'
    BY <1>2 DEF WInv, ControlInv, SelfInv
  <2> QED BY <2>1, <2>2, <2>3 DEF ControlInv, SectionPart
<1>4. Waiting' = Waiting /\ InHand' = InHand /\ Adders' = Adders
      /\ (\A th \in Threads : Hand(th)' = Hand(th))
  BY DEF Waiting, InHand, Adders, Hand
<1>5. LineInv'
  BY <1>4, LineFrame DEF WInv
<1>6. CountInv'
  BY <1>4 DEF WInv, CountInv
<1> QED BY <1>1, <1>3, <1>5, <1>6 DEF WInv

----------------------------------------------------------------------------
(* What the invariant gives to the users of the queue. *)

\* The word, the lists and the nodes in hand agree while a thread is in the section.
LEMMA CoveredFromInv == WInv => WakeIsCovered
<1> SUFFICES ASSUME WInv, NEW th \in Threads, InSection(th)
             PROVE  /\ count >= want[th] /\ waiters >= want[th]
                    /\ Len(output) + Len(input) >= want[th] - Len(pending[th])
  BY DEF WakeIsCovered
<1>1. TypeOK /\ ControlInv /\ LineInv /\ CountInv
  BY DEF WInv
<1>2. count >= want[th] /\ waiters >= want[th]
  BY <1>1 DEF ControlInv, SectionPart, SectionInv
<1>3. alive
  BY <1>1 DEF ControlInv, DeadInv, InSection
<1>4. waiters + Cardinality(Adders) = Len(Waiting) + Len(pending[th])
  BY <1>1, <1>3, InHandFacts DEF CountInv
<1>5. /\ Len(Waiting) = Len(output) + Len(input) /\ Cardinality(Adders) \in Nat
      /\ Len(output) \in Nat /\ Len(input) \in Nat
  BY <1>1, WaitingFacts DEF TypeOK
<1>6. waiters \in Nat /\ want[th] \in Nat /\ Len(pending[th]) \in Nat
  BY <1>1 DEF TypeOK
<1> DEFINE l == Len(Waiting)
           p == Len(pending[th])
           c == Cardinality(Adders)
           w == want[th]
<1>7. l \in Nat /\ p \in Nat /\ c \in Nat /\ w \in Nat /\ waiters \in Nat
      /\ waiters + c = l + p /\ waiters >= w
  <2>1. l \in Nat
    BY <1>5
  <2> QED BY <1>2, <1>4, <1>5, <1>6, <2>1
<1> HIDE DEF l, p, c, w
<1>8. l >= w - p
  BY <1>7
<1> QED BY <1>2, <1>5, <1>8 DEF l, p, w

\* Outside the protocol permits and waiters are never both left.
LEMMA NoLostWakeupFromInv == WInv => NoLostWakeup
<1> SUFFICES ASSUME WInv, alive, Quiet
             PROVE  (count = 0 \/ waiters = 0) /\ waiters = Len(output) + Len(input)
  BY DEF NoLostWakeup
<1>1. TypeOK /\ ControlInv /\ LineInv /\ CountInv
  BY DEF WInv
<1>2. (\A th \in Threads : ~InSection(th)) /\ Adders = {}
  BY DEF Quiet, Touching, InSection, Adders
<1>3. count = 0 \/ waiters = 0
  BY <1>1, <1>2 DEF ControlInv, SectionPart, WordInv
<1>4. InHand = 0 /\ Cardinality(Adders) = 0
  BY <1>1, <1>2, InHandFacts, FS_EmptySet
<1>5. waiters + 0 = Len(Waiting) + 0
  BY <1>1, <1>4 DEF CountInv
<1>6. Len(Waiting) = Len(output) + Len(input) /\ waiters \in Nat
      /\ Len(output) \in Nat /\ Len(input) \in Nat
  BY <1>1, WaitingFacts DEF TypeOK
<1> QED BY <1>3, <1>5, <1>6

\* When every task has ended nobody is listed, so nobody is registered or about to be.
LEMMA NoLateTouchFromInv == WInv => NoLateTouch
<1> SUFFICES ASSUME WInv, \A t \in Tasks : tstate[t] = "done", NEW th \in Threads
             PROVE  ~Touching(th)
  BY DEF NoLateTouch, Quiet
<1>1. TypeOK /\ ControlInv /\ LineInv /\ CountInv
  BY DEF WInv
<1>2. CASE ~alive
  BY <1>1, <1>2 DEF ControlInv, DeadInv, Touching
<1>3. CASE alive
  <2>1. Waiting \in Seq(Tasks) /\ ToSet(Waiting) \subseteq Tasks
    BY <1>1, WaitingFacts
  <2>2. \A t \in Tasks : tstate[t] # "waiting"
    OBVIOUS
  <2>3. ToSet(Waiting) = {}
    BY <1>1, <2>1, <2>2 DEF LineInv
  <2>4. Len(Waiting) = 0
    <3>1. IsInjective(Waiting)
      BY <1>1 DEF LineInv
    <3> QED BY <2>1, <2>3, <3>1, InjectiveCount, FS_EmptySet
  <2>5. ASSUME NEW o \in Threads PROVE pending[o] = <<>>
    <3>1. woken[o] \in Seq(Tasks) /\ pending[o] \in Seq(Tasks)
      BY <1>1 DEF TypeOK
    <3>2. ToSet(pending[o]) \subseteq ToSet(Hand(o)) /\ IsInjective(pending[o])
      BY <1>1, <3>1, ConcatFacts DEF LineInv, Hand
    <3>3. ToSet(pending[o]) \subseteq Tasks
      BY <3>1 DEF ToSet
    <3>4. ToSet(pending[o]) = {}
      BY <1>1, <2>2, <3>2, <3>3 DEF LineInv
    <3>5. Len(pending[o]) = 0
      BY <3>1, <3>2, <3>4, InjectiveCount, FS_EmptySet
    <3> QED BY <3>1, <3>5
  <2>6. InHand = 0
    BY <2>5, NoHand DEF InHand
  <2>7. waiters + Cardinality(Adders) = 0 + 0
    BY <1>1, <1>3, <2>4, <2>6 DEF CountInv
  <2>8. waiters = 0 /\ Cardinality(Adders) = 0
    <3>1. waiters \in Nat /\ Cardinality(Adders) \in Nat
      BY <1>1, WaitingFacts DEF TypeOK
    <3> QED BY <2>7, <3>1
  <2>9. Adders = {}
    BY <1>1, <2>8, WaitingFacts, FS_EmptySet
  <2>10. ~InSection(th)
    <3>1. InSection(th) => want[th] >= 1 /\ waiters >= want[th]
      BY <1>1 DEF ControlInv, SectionPart, SectionInv
    <3>2. want[th] \in Nat
      BY <1>1 DEF TypeOK
    <3> QED BY <2>8, <3>1, <3>2
  <2> QED BY <2>9, <2>10 DEF Adders, Touching, InSection
<1> QED BY <1>1, <1>2, <1>3 DEF TypeOK

\* Whoever uses the queue in these steps only: the types, one waker at a time, whose
\* wakes the word and the lists cover, no wakeup lost, and no touch after the last task.
THEOREM AnyUser ==
  WaiterSpec => [](TypeOK /\ SingleWaker /\ WakeIsCovered /\ NoLostWakeup /\ NoLateTouch)
<1>1. WaiterInit => WInv
  BY InitWInv DEF WaiterInit
<1>2. WInv /\ [\E th \in Threads : UserStep(th)]_vars => WInv'
  BY StepWInv, StutterWInv
<1>3. WInv => TypeOK /\ SingleWaker /\ WakeIsCovered /\ NoLostWakeup /\ NoLateTouch
  BY CoveredFromInv, NoLostWakeupFromInv, NoLateTouchFromInv
     DEF WInv, ControlInv, SectionPart
<1> QED BY <1>1, <1>2, <1>3, PTL DEF WaiterSpec
----------------------------------------------------------------------------
(* The abstract queue: permits that are not promised to a node in hand, and the list. *)

Free == count - InHand

\* What each step does to the abstract queue.
QueueSteps(th) ==
  \/ Free' = Free /\ Waiting' = Waiting
  \/ Free > 0 /\ Free' = Free - 1 /\ Waiting' = Waiting
  \/ Free > 0 /\ Waiting # <<>> /\ Free' = Free - 1 /\ Waiting' = Tail(Waiting)
  \/ Free' = Free /\ Waiting' = <<>>
  \/ \E t \in Tasks :
       t \notin ToSet(Waiting) /\ Waiting' = Append(Waiting, t) /\ Free' = Free
  \/ /\ \E m \in Modes : Give(th, m)
     /\ Free' = Free + (count' - count) /\ Waiting' = Waiting

\* Nodes in hand are registered waiters; a free permit beyond the waiters is nobody's.
LEMMA HandWithin ==
  ASSUME WInv
  PROVE  InHand \in Nat /\ InHand <= waiters /\ Free \in Int /\ count \in Nat /\ waiters \in Nat
<1>1. TypeOK /\ ControlInv /\ LineInv
  BY DEF WInv
<1>2. InHand \in Nat /\ count \in Nat /\ waiters \in Nat
  BY <1>1, InHandFacts DEF TypeOK
<1>3. CASE \E th \in Threads : InSection(th)
  <2>1. PICK th \in Threads : InSection(th)
    BY <1>3
  <2>2. InHand = Len(pending[th])
    BY <1>1, <2>1, InHandFacts
  <2>3. waiters >= want[th] /\ Len(pending[th]) <= want[th] /\ want[th] \in Nat
    <3>1. want[th] \in Nat /\ Len(pending[th]) \in Nat
      BY <1>1 DEF TypeOK
    <3>2. /\ waiters >= want[th]
          /\ IF pc[th] = "take" THEN Len(pending[th]) < want[th]
                                ELSE Len(pending[th]) = want[th]
      BY <1>1, <2>1 DEF ControlInv, SectionPart, SectionInv
    <3> QED BY <3>1, <3>2
  <2>4. InHand <= waiters
    BY <1>2, <2>2, <2>3
  <2> QED BY <1>2, <2>4 DEF Free
<1>4. CASE \A th \in Threads : ~InSection(th)
  <2>1. InHand = 0
    BY <1>1, <1>4, InHandFacts
  <2> QED BY <1>2, <2>1 DEF Free
<1> QED BY <1>3, <1>4

LEMMA QueueStep ==
  ASSUME WInv, NEW th \in Threads, UserStep(th)
  PROVE  QueueSteps(th)
<1>a. TypeOK /\ ControlInv /\ LineInv
  BY DEF WInv
<1>b. InHand \in Nat /\ InHand <= waiters /\ Free \in Int /\ count \in Nat /\ waiters \in Nat
  BY HandWithin
<1>1. ASSUME UNCHANGED <<count, input, output, pending>> PROVE QueueSteps(th)
  <2>1. Waiting' = Waiting /\ InHand' = InHand
    BY <1>1 DEF Waiting, InHand
  <2>2. Free' = Free
    BY <1>1, <2>1 DEF Free
  <2> QED BY <2>1, <2>2 DEF QueueSteps
<1>2. ASSUME CanAcquire, count' = count - 1, UNCHANGED <<input, output, pending>>
      PROVE  QueueSteps(th)
  <2>1. Waiting' = Waiting /\ InHand' = InHand
    BY <1>2 DEF Waiting, InHand
  <2>2. Free > 0 /\ Free' = Free - 1
    BY <1>2, <1>b, <2>1 DEF Free, CanAcquire
  <2> QED BY <2>1, <2>2 DEF QueueSteps
<1>3. ASSUME NEW t \in Tasks, Dispatch(th, t) PROVE QueueSteps(th)
  BY <1>3, <1>1 DEF Dispatch, shared
<1>4. CASE Complete(th) \/ AddWaiter(th) \/ Resume(th) \/ Transfer(th)
  BY <1>4, <1>1 DEF Complete, AddWaiter, Resume, Transfer, shared
<1>5. CASE Await(th)
  BY <1>5, <1>1, <1>2 DEF Await, TakePermit
<1>6. CASE Try(th)
  BY <1>6, <1>1, <1>2 DEF Try, locals
<1>7. CASE Push(th)
  <2>1. Waiting' = Append(Waiting, self[th])
    BY <1>7, <1>a, LinePush
  <2>2. self[th] \in Tasks /\ tstate[self[th]] = "running"
    BY <1>7, <1>a DEF Push, ControlInv, SelfInv
  <2>3. self[th] \notin ToSet(Waiting)
    BY <1>a, <2>2 DEF LineInv
  <2>4. Free' = Free
    BY <1>7 DEF Push, Free, InHand
  <2> QED BY <2>1, <2>2, <2>3, <2>4 DEF QueueSteps
<1>8. CASE MustTake1(th)
  <2>1. Waiting # <<>> /\ Waiting' = Tail(Waiting)
    BY <1>8, <1>a, TakenFirst
  <2>2. InHand = Len(pending[th]) /\ InHand' = InHand + 1
    BY <1>8, <1>a, TakeHand
  <2>3. count' = count /\ pc[th] = "take"
    BY <1>8 DEF MustTake1
  <2>4. Len(pending[th]) < want[th] /\ count >= want[th] /\ want[th] \in Nat
    BY <1>a, <2>3 DEF ControlInv, SectionPart, SectionInv, InSection, TypeOK
  <2>5. Free > 0 /\ Free' = Free - 1
    <3>1. InHand < count
      BY <1>b, <2>2, <2>4
    <3> QED BY <1>b, <2>2, <2>3, <3>1 DEF Free
  <2> QED BY <2>1, <2>5 DEF QueueSteps
<1>9. CASE Commit(th)
  <2>1. InHand = want[th] /\ InHand' = 0
    BY <1>9, <1>a, CommitHand
  <2>2. count' = count - want[th] /\ UNCHANGED <<input, output>>
    BY <1>9 DEF Commit
  <2>3. Free' = Free
    BY <1>b, <2>1, <2>2 DEF Free
  <2>4. Waiting' = Waiting
    BY <2>2 DEF Waiting
  <2> QED BY <2>3, <2>4 DEF QueueSteps
<1>10. CASE Destroy(th)
  <2>1. input' = <<>> /\ output' = <<>> /\ UNCHANGED <<count, pending>>
    BY <1>10 DEF Destroy
  <2>2. Free' = Free
    BY <2>1 DEF Free, InHand
  <2>3. Waiting' = <<>>
    <3>1. Reverse(<<>>) \in Seq(Tasks) /\ Len(Reverse(<<>>)) = 0
      <4>1. <<>> \in Seq(Tasks) /\ Len(<<>>) = 0
        OBVIOUS
      <4> QED BY <4>1, ReverseFacts
    <3>2. Waiting' = <<>> \o Reverse(<<>>)
      BY <2>1 DEF Waiting
    <3> QED BY <3>1, <3>2
  <2> QED BY <2>2, <2>3 DEF QueueSteps
<1>11. ASSUME NEW m \in Modes, Give(th, m) PROVE QueueSteps(th)
  <2>1. UNCHANGED <<input, output, pending>> /\ count' \in Nat
    BY <1>11 DEF Give
  <2>2. Waiting' = Waiting /\ InHand' = InHand
    BY <2>1 DEF Waiting, InHand
  <2>3. Free' = Free + (count' - count)
    BY <1>b, <2>1, <2>2 DEF Free
  <2> QED BY <1>11, <2>2, <2>3 DEF QueueSteps
<1> QED BY <1>3, <1>4, <1>5, <1>6, <1>7, <1>8, <1>9, <1>10, <1>11 DEF UserStep, CommonStep

-----------------------------------------------------------------------------
(* The mutex.                                                              *)

\* A permit is in exactly one place: free in the word, or with one task.
PermitInv == count \in {0, 1} /\ MutualExclusion
MutexInv == WInv /\ PermitInv

LEMMA InitMutex == Init => MutexInv
<1> SUFFICES ASSUME Init PROVE MutexInv
  OBVIOUS
<1>1. UNLOCKED \in Nat /\ InitWith(UNLOCKED)
  BY DEF Init, UNLOCKED
<1>2. WInv
  BY <1>1, InitWInv
<1>3. PermitInv
  BY <1>1 DEF InitWith, UNLOCKED, PermitInv, MutualExclusion
<1> QED BY <1>2, <1>3 DEF MutexInv

\* try_acquire of lock and try_lock: with the permit free nobody holds it.
LEMMA Acquires ==
  ASSUME MutexInv, NEW th \in Threads, Lock(th) \/ TryLock(th)
  PROVE  /\ pc[th] = "user" /\ self[th] \in Tasks /\ rounds' \in [Tasks -> 0..MaxRounds]
         /\ \/ count = 1 /\ own = {} /\ CanAcquire /\ count' = 0 /\ own' = {self[th]}
            \/ UNCHANGED <<count, own>>
<1>1. pc[th] = "user" /\ rounds[self[th]] < MaxRounds
      /\ rounds' = [rounds EXCEPT ![self[th]] = @ + 1]
  BY DEF Lock, TryLock, Await, BeginRound
<1>2. self[th] \in Tasks /\ rounds \in [Tasks -> 0..MaxRounds] /\ count \in Nat /\ waiters \in Nat
  BY <1>1 DEF MutexInv, WInv, ControlInv, SelfInv, TypeOK
<1>3. rounds' \in [Tasks -> 0..MaxRounds]
  BY <1>1, <1>2, RoundsAssumption
<1>4. (CanAcquire /\ TakePermit(self[th])) \/ UNCHANGED <<count, own>>
  BY DEF Lock, TryLock, Await
<1>5. ASSUME CanAcquire, TakePermit(self[th])
      PROVE  count = 1 /\ own = {} /\ count' = 0 /\ own' = {self[th]}
  <2>1. count = 1
    BY <1>2, <1>5 DEF CanAcquire, MutexInv, PermitInv
  <2>2. own = {}
    BY <2>1 DEF MutexInv, PermitInv, MutualExclusion
  <2> QED BY <1>5, <2>1, <2>2 DEF TakePermit
<1> QED BY <1>1, <1>2, <1>3, <1>4, <1>5

\* A mutex does to the waiter queue what any user may do.
LEMMA MutexStep ==
  ASSUME MutexInv, NEW th \in Threads, Step(th)
  PROVE  UserStep(th)
<1>1. CASE CommonStep(th)
  BY <1>1 DEF UserStep
<1>2. CASE EndTask(th)
  BY <1>2 DEF EndTask, UserStep
<1>3. CASE Lock(th)
  BY <1>3 DEF Lock, UserStep
<1>4. CASE TryLock(th)
  <2>1. /\ pc[th] = "user" /\ alive
        /\ UNCHANGED <<waiters, input, output, alive, tstate, locals>>
    BY <1>4 DEF TryLock, BeginRound
  <2>2. /\ self[th] \in Tasks /\ rounds' \in [Tasks -> 0..MaxRounds]
        /\ \/ count = 1 /\ CanAcquire /\ count' = 0 /\ own' = {self[th]}
           \/ UNCHANGED <<count, own>>
    BY <1>4, Acquires
  <2>3. count' = count \/ (CanAcquire /\ count' = count - 1)
    BY <2>2
  <2>4. own' \subseteq Tasks
    BY <2>2 DEF MutexInv, WInv, TypeOK
  <2>5. Try(th)
    BY <2>1, <2>2, <2>3, <2>4 DEF Try
  <2> QED BY <2>5 DEF UserStep
<1>5. ASSUME NEW m \in Modes, Unlock(th, m) PROVE UserStep(th)
  <2>1. count' \in Nat /\ count' >= count
    BY <1>5 DEF Unlock, UNLOCKED, MutexInv, PermitInv
  <2>2. own' \subseteq Tasks
    BY <1>5 DEF Unlock, MutexInv, WInv, TypeOK
  <2>3. Give(th, m)
    BY <1>5, <2>1, <2>2 DEF Unlock, Give
  <2> QED BY <2>3 DEF UserStep
<1> QED BY <1>1, <1>2, <1>3, <1>4, <1>5 DEF Step

\* The commit moves the only permit from the word to the only task that was taken.
LEMMA CommitPermit ==
  ASSUME MutexInv, NEW th \in Threads, Commit(th)
  PROVE  PermitInv'
<1>1. /\ Len(pending[th]) = want[th] /\ count >= want[th] /\ want[th] >= 1
      /\ want[th] \in Nat /\ pending[th] \in Seq(Tasks)
  <2>1. TypeOK /\ SectionPart /\ InSection(th)
    BY DEF MutexInv, WInv, ControlInv, Commit, InSection
  <2>2. Len(pending[th]) = want[th] /\ count >= want[th]
    BY <2>1, CommitSection
  <2> QED BY <2>1, <2>2 DEF SectionPart, SectionInv, TypeOK
<1>2. count = 1 /\ want[th] = 1 /\ own = {}
  BY <1>1 DEF MutexInv, PermitInv, MutualExclusion
<1>3. count' = 0 /\ own' = ToSet(pending[th])
  BY <1>2 DEF Commit
<1>4. PICK t : ToSet(pending[th]) = {t}
  <2>1. ToSet(pending[th]) = {pending[th][1]}
    BY <1>1, <1>2 DEF ToSet
  <2> QED BY <2>1
<1> QED BY <1>3, <1>4 DEF PermitInv, MutualExclusion

LEMMA MutexStepPermit ==
  ASSUME MutexInv, NEW th \in Threads, Step(th)
  PROVE  PermitInv'
<1>a. PermitInv
  BY DEF MutexInv
<1>1. ASSUME UNCHANGED <<count, own>> PROVE PermitInv'
  BY <1>1, <1>a DEF PermitInv, MutualExclusion
<1>2. ASSUME NEW t \in Tasks, Dispatch(th, t) PROVE PermitInv'
  BY <1>2, <1>1 DEF Dispatch, shared
<1>3. CASE Push(th) \/ AddWaiter(th) \/ MustTake1(th) \/ Resume(th) \/ Transfer(th) \/ Destroy(th)
  BY <1>3, <1>1 DEF Push, AddWaiter, MustTake1, Resume, Transfer, Destroy, shared, sched
<1>4. CASE EndTask(th)
  BY <1>4, <1>1 DEF EndTask, Complete, shared
<1>5. CASE Lock(th) \/ TryLock(th)
  BY <1>5, <1>1, Acquires DEF PermitInv, MutualExclusion
<1>6. ASSUME NEW m \in Modes, Unlock(th, m) PROVE PermitInv'
  BY <1>6, <1>a DEF Unlock, UNLOCKED, PermitInv, MutualExclusion
<1> QED BY <1>2, <1>3, <1>4, <1>5, <1>6, CommitPermit DEF Step, CommonStep

LEMMA NextMutex == MutexInv /\ [Next]_vars => MutexInv'
<1> SUFFICES ASSUME MutexInv, [Next]_vars PROVE MutexInv'
  OBVIOUS
<1>1. ASSUME NEW th \in Threads, Step(th) PROVE MutexInv'
  <2>1. UserStep(th) /\ WInv
    BY <1>1, MutexStep DEF MutexInv
  <2> QED BY <1>1, <2>1, StepWInv, MutexStepPermit DEF MutexInv
<1>2. CASE UNCHANGED vars
  <2>1. WInv' /\ UNCHANGED <<count, own>>
    BY <1>2, StutterWInv DEF MutexInv, vars, shared, sched
  <2> QED BY <2>1 DEF MutexInv, PermitInv, MutualExclusion
<1> QED BY <1>1, <1>2 DEF Next, Terminated

\* The invariant that carries everything below: the waiter queue's, with one permit.
THEOREM MutexInvariant == Spec => []MutexInv
BY InitMutex, NextMutex, PTL DEF Spec

\* Every variable keeps its type, for any numbers of tasks, threads and rounds.
THEOREM MutexTypes == Spec => []TypeOK
<1>1. MutexInv => TypeOK
  BY DEF MutexInv, WInv
<1> QED BY <1>1, MutexInvariant, PTL

\* At most one task holds the mutex at any time, and then the word says locked:
\* no order of suspensions, unlocks and wakes duplicates the permit.
THEOREM MutexIsExclusive == Spec => []MutualExclusion
<1>1. MutexInv => MutualExclusion
  BY DEF MutexInv, PermitInv
<1> QED BY <1>1, MutexInvariant, PTL

\* At most one thread takes nodes from the lists.
THEOREM MutexOneWaker == Spec => []SingleWaker
<1>1. MutexInv => SingleWaker
  BY DEF MutexInv, WInv, ControlInv, SectionPart
<1> QED BY <1>1, MutexInvariant, PTL

\* While a thread takes nodes the word and the lists hold what it is about to take,
\* whatever other threads do to them: must_take_1 finds its node.
THEOREM MutexWakesCovered == Spec => []WakeIsCovered
<1>1. MutexInv => WakeIsCovered
  BY CoveredFromInv DEF MutexInv
<1> QED BY <1>1, MutexInvariant, PTL

\* Once every task has ended no thread touches the mutex any more, also not one that is
\* still in the suspend() of a task that another thread resumed and ended.
THEOREM MutexDestroyedLast == Spec => []NoLateTouch
<1>1. MutexInv => NoLateTouch
  BY NoLateTouchFromInv DEF MutexInv
<1> QED BY <1>1, MutexInvariant, PTL

\* While no call is in progress a free mutex has no waiter, and whoever is registered is
\* listed: no order of suspend() and unlock() leaves a waiter behind.
THEOREM MutexLosesNoWakeup == Spec => []NoLostWakeup
<1>1. MutexInv => NoLostWakeup
  BY NoLostWakeupFromInv DEF MutexInv
<1> QED BY <1>1, MutexInvariant, PTL

-----------------------------------------------------------------------------
(* Refinement. *)

LEMMA MutexInitQueue == Init => PQ!Init
<1> SUFFICES ASSUME Init PROVE count - InHand = UNLOCKED /\ Waiting = <<>>
  BY DEF PQ!Init
<1>1. WInv /\ UNLOCKED \in Nat
  BY InitMutex DEF MutexInv, UNLOCKED
<1>2. InHand = 0
  <2>1. \A th \in Threads : ~InSection(th)
    BY DEF Init, InitWith, InSection
  <2> QED BY <1>1, <2>1, InHandFacts DEF WInv
<1>3. Waiting = <<>>
  <2>1. Len(Waiting) = Len(output) + Len(input) /\ Waiting \in Seq(Tasks)
    BY <1>1, WaitingFacts DEF WInv
  <2>2. Len(Waiting) = 0
    BY <2>1 DEF Init, InitWith
  <2> QED BY <2>1, <2>2
<1>4. count = UNLOCKED
  BY DEF Init, InitWith
<1> QED BY <1>1, <1>2, <1>3, <1>4

LEMMA MutexNextQueue == MutexInv /\ [Next]_vars => [PQ!Next]_(PQ!pqVars)
<1> SUFFICES ASSUME MutexInv, [Next]_vars PROVE [PQ!Next]_(PQ!pqVars)
  OBVIOUS
<1> USE DEF PQ!Next, PQ!pqVars
<1>1. ASSUME Free' = Free, Waiting' = Waiting PROVE [PQ!Next]_(PQ!pqVars)
  BY <1>1 DEF Free
<1>2. CASE UNCHANGED vars
  BY <1>1, <1>2 DEF vars, shared, locals, Free, InHand, Waiting
<1>3. ASSUME NEW th \in Threads, Step(th) PROVE [PQ!Next]_(PQ!pqVars)
  <2>1. QueueSteps(th)
    BY <1>3, MutexStep, QueueStep DEF MutexInv
  <2>2. CASE Free > 0 /\ Free' = Free - 1 /\ Waiting' = Waiting
    BY <2>2 DEF PQ!Acquire, Free
  <2>3. CASE Free > 0 /\ Waiting # <<>> /\ Free' = Free - 1 /\ Waiting' = Tail(Waiting)
    BY <2>3 DEF PQ!Grant, Free
  <2>4. CASE Free' = Free /\ Waiting' = <<>>
    BY <2>4 DEF PQ!Close, Free
  <2>5. CASE \E t \in Tasks :
               t \notin ToSet(Waiting) /\ Waiting' = Append(Waiting, t) /\ Free' = Free
    <3>1. PICK t \in Tasks :
            t \notin ToSet(Waiting) /\ Waiting' = Append(Waiting, t) /\ Free' = Free
      BY <2>5
    <3>2. PQ!Enqueue(t)
      BY <3>1 DEF PQ!Enqueue, PQ!ToSet, ToSet, Free
    <3> QED BY <3>2
  <2>6. CASE /\ \E m \in Modes : Give(th, m)
             /\ Free' = Free + (count' - count) /\ Waiting' = Waiting
    <3>1. Free \in Int /\ count \in {0, 1}
      BY HandWithin DEF MutexInv, PermitInv
    <3>2. count' \in {0, 1} /\ count' >= count
      BY <1>3, <2>6, MutexStepPermit DEF PermitInv, Give
    <3>3. CASE count' = count
      BY <1>1, <2>6, <3>1, <3>3
    <3>4. CASE count' # count
      <4>1. count = 0 /\ count' = 1
        BY <3>1, <3>2, <3>4
      <4>2. Free' = Free + 1 /\ Waiting' = Waiting
        BY <2>6, <3>1, <4>1
      <4>3. PQ!Put(1) /\ 1 \in 1..1
        BY <4>2 DEF PQ!Put, Free
      <4> QED BY <4>3
    <3> QED BY <3>3, <3>4
  <2> QED BY <1>1, <2>1, <2>2, <2>3, <2>4, <2>5, <2>6 DEF QueueSteps
<1> QED BY <1>2, <1>3 DEF Next, Terminated

\* Seen from outside a mutex is a queue of one permit: the permit is neither lost nor
\* duplicated, and once it reaches the queue it goes to whoever suspended first.
THEOREM MutexIsAPermitQueue == Spec => IsPermitQueue
BY MutexInitQueue, MutexNextQueue, MutexInvariant, PTL DEF Spec, IsPermitQueue, PQ!Spec

-----------------------------------------------------------------------------
(* The semaphore.                                                          *)

\* The three begin alike.
LEMMA InitSame ==
  ASSUME NEW n
  PROVE  (S!InitWith(n) <=> InitWith(n)) /\ (A!InitWith(n) <=> InitWith(n))
BY DEF S!InitWith, A!InitWith, InitWith

\* What a semaphore takes over from the waiter queue unchanged.
LEMMA SemaphoreWake ==
  ASSUME NEW th, NEW m
  PROVE  S!MaybeWake(th, m) <=> MaybeWake(th, m)
BY DEF S!MaybeWake, MaybeWake, S!EntersSection, EntersSection, S!Lesser, Lesser, S!ReturnNull, ReturnNull, S!FinishTask, FinishTask

LEMMA SemaphoreCommon ==
  ASSUME NEW th \in Threads
  PROVE  /\ S!CommonStep(th) => CommonStep(th)
         /\ S!Complete(th) => Complete(th)
         /\ S!Await(th) => Await(th)
<1>1. ASSUME NEW t \in Tasks, S!Dispatch(th, t) PROVE CommonStep(th)
  <2>1. Dispatch(th, t)
    BY <1>1 DEF S!Dispatch, Dispatch, S!shared, shared
  <2> QED BY <2>1 DEF CommonStep
<1>2. ASSUME S!Push(th) PROVE CommonStep(th)
  <2>1. Push(th)
    BY <1>2 DEF S!Push, Push
  <2> QED BY <2>1 DEF CommonStep
<1>3. ASSUME S!AddWaiter(th) PROVE CommonStep(th)
  <2>1. AddWaiter(th)
    BY <1>3, SemaphoreWake DEF S!AddWaiter, AddWaiter
  <2> QED BY <2>1 DEF CommonStep
<1>4. ASSUME S!MustTake1(th) PROVE CommonStep(th)
  <2>1. MustTake1(th)
    BY <1>4 DEF S!MustTake1, MustTake1, S!Refilled, Refilled, S!Reverse, Reverse, S!sched, sched
  <2> QED BY <2>1 DEF CommonStep
<1>5. ASSUME S!Commit(th) PROVE CommonStep(th)
  <2>1. Commit(th)
    BY <1>5 DEF S!Commit, Commit, S!Lesser, Lesser, S!ToSet, ToSet
  <2> QED BY <2>1 DEF CommonStep
<1>6. ASSUME S!Resume(th) PROVE CommonStep(th)
  <2>1. Resume(th)
    BY <1>6 DEF S!Resume, Resume, S!RemoveAt, RemoveAt, S!shared, shared
  <2> QED BY <2>1 DEF CommonStep
<1>7. ASSUME S!Transfer(th) PROVE CommonStep(th)
  <2>1. Transfer(th)
    BY <1>7 DEF S!Transfer, Transfer, S!shared, shared
  <2> QED BY <2>1 DEF CommonStep
<1>8. ASSUME S!Destroy(th) PROVE CommonStep(th)
  <2>1. Destroy(th)
    BY <1>8 DEF S!Destroy, Destroy, S!sched, sched
  <2> QED BY <2>1 DEF CommonStep
<1>9. S!CommonStep(th) => CommonStep(th)
  BY <1>1, <1>2, <1>3, <1>4, <1>5, <1>6, <1>7, <1>8 DEF S!CommonStep
<1>10. S!Complete(th) => Complete(th)
  BY DEF S!Complete, Complete, S!FinishTask, FinishTask, S!shared, shared
<1>11. S!Await(th) => Await(th)
  BY DEF S!Await, Await, S!BeginRound, BeginRound, S!CanAcquire, CanAcquire, S!TakePermit, TakePermit
<1> QED BY <1>9, <1>10, <1>11

\* The constructor's and the releases' counts are numbers.
Counts == InitialCount \in Nat /\ MaxRelease \in Nat /\ MaxPermits \in Nat

\* A semaphore does to the waiter queue what any user may do.
LEMMA SemaphoreStep ==
  ASSUME Counts, WInv, NEW th \in Threads, S!Step(th)
  PROVE  UserStep(th)
<1>a. /\ count \in Nat /\ own \subseteq Tasks /\ rounds \in [Tasks -> 0..MaxRounds]
      /\ pc[th] = "user" => self[th] \in Tasks
  BY DEF WInv, TypeOK, ControlInv, SelfInv
<1>1. CASE S!CommonStep(th) \/ S!Complete(th)
  BY <1>1, SemaphoreCommon DEF UserStep
<1>2. CASE S!Acquire(th)
  BY <1>2, SemaphoreCommon DEF S!Acquire, UserStep
<1>3. CASE S!TryAcquire(th)
  <2>1. /\ pc[th] = "user" /\ alive /\ rounds[self[th]] < MaxRounds
        /\ rounds' = [rounds EXCEPT ![self[th]] = @ + 1]
        /\ UNCHANGED <<waiters, input, output, alive, tstate, locals>>
    BY <1>3 DEF S!TryAcquire, S!BeginRound, S!locals, locals
  <2>2. rounds' \in [Tasks -> 0..MaxRounds]
    BY <1>a, <2>1, RoundsAssumption
  <2>3. (CanAcquire /\ TakePermit(self[th])) \/ UNCHANGED <<count, own>>
    BY <1>3 DEF S!TryAcquire, S!CanAcquire, CanAcquire, S!TakePermit, TakePermit
  <2>4. own' \subseteq Tasks /\ (count' = count \/ (CanAcquire /\ count' = count - 1))
    BY <1>a, <2>1, <2>3 DEF TakePermit
  <2>5. Try(th)
    BY <2>1, <2>2, <2>4 DEF Try
  <2> QED BY <2>5 DEF UserStep
<1>4. ASSUME NEW m \in S!Modes, NEW n \in 1..MaxRelease, S!Release(th, m, n) PROVE UserStep(th)
  <2>1. count' \in Nat /\ count' >= count /\ own' \subseteq Tasks /\ m \in Modes
    BY <1>4, <1>a DEF S!Release, Counts, S!Modes, Modes
  <2>2. Give(th, m)
    BY <1>4, <2>1, SemaphoreWake DEF S!Release, Give
  <2> QED BY <2>1, <2>2 DEF UserStep
<1> QED BY <1>1, <1>2, <1>3, <1>4 DEF S!Step

LEMMA InitSemaphore ==
  ASSUME Counts, S!Init
  PROVE  WInv /\ InitWith(InitialCount) /\ InitialCount \in Nat
BY SemaphoreCommon, InitSame, InitWInv DEF S!Init, Counts

LEMMA NextSemaphore == ASSUME Counts PROVE WInv /\ [S!Next]_(S!vars) => WInv'
<1> SUFFICES ASSUME WInv, [S!Next]_(S!vars) PROVE WInv'
  OBVIOUS
<1>1. ASSUME NEW th \in Threads, S!Step(th) PROVE WInv'
  BY <1>1, SemaphoreStep, StepWInv
<1>2. CASE UNCHANGED S!vars
  <2>1. UNCHANGED vars
    BY <1>2 DEF S!vars, S!shared, S!sched, S!locals, vars, shared, sched, locals
  <2> QED BY <2>1, StutterWInv
<1> QED BY <1>1, <1>2 DEF S!Next, S!Terminated

\* The waiter queue's invariant holds of a semaphore: its types, at most one waker, which
\* finds what it takes, no lost wakeup, and no thread that touches it too late.
THEOREM SemaphoreInvariant == ASSUME Counts PROVE S!Spec => []WInv
BY InitSemaphore, NextSemaphore, PTL DEF S!Spec

\* While no call is in progress resources and waiters are not both left.
THEOREM SemaphoreLosesNoWakeup == ASSUME Counts PROVE S!Spec => []NoLostWakeup
BY NoLostWakeupFromInv, SemaphoreInvariant, PTL

-----------------------------------------------------------------------------
(* Refinement of PermitQueue by a semaphore. *)

LEMMA SView ==
  /\ S!Waiting = Waiting /\ S!InHand = InHand
  /\ (S!Waiting)' = Waiting' /\ (S!InHand)' = InHand'
<1>1. \A s : S!Reverse(s) = Reverse(s)
  BY DEF S!Reverse, Reverse
<1>2. S!Waiting = Waiting /\ (S!Waiting)' = Waiting'
  BY <1>1 DEF S!Waiting, Waiting
<1>3. \A s : S!ToSet(s) = ToSet(s)
  BY DEF S!ToSet, ToSet
<1>4. \A X : S!Cardinality(X) = Cardinality(X)
  BY DEF S!Cardinality, Cardinality
<1>5. S!InHand = InHand /\ (S!InHand)' = InHand'
  BY <1>3, <1>4 DEF S!InHand, InHand
<1> QED BY <1>2, <1>5

LEMMA SemaphoreInitQueue == ASSUME Counts PROVE S!Init => S!PQ!Init
<1> SUFFICES ASSUME S!Init PROVE count - InHand = InitialCount /\ Waiting = <<>>
  BY SView DEF S!PQ!Init
<1>1. WInv /\ InitialCount \in Nat /\ InitWith(InitialCount)
  BY InitSemaphore
<1>2. InHand = 0
  <2>1. \A th \in Threads : ~InSection(th)
    BY <1>1 DEF InitWith, InSection
  <2> QED BY <1>1, <2>1, InHandFacts DEF WInv
<1>3. Waiting = <<>>
  <2>1. Len(Waiting) = Len(output) + Len(input) /\ Waiting \in Seq(Tasks)
    BY <1>1, WaitingFacts DEF WInv
  <2>2. Len(Waiting) = 0
    BY <1>1, <2>1 DEF InitWith
  <2> QED BY <2>1, <2>2
<1>4. count = InitialCount
  BY <1>1 DEF InitWith
<1> QED BY <1>1, <1>2, <1>3, <1>4

LEMMA SemaphoreNextQueue ==
  ASSUME Counts PROVE WInv /\ [S!Next]_(S!vars) => [S!PQ!Next]_(S!PQ!pqVars)
<1> SUFFICES ASSUME WInv, [S!Next]_(S!vars) PROVE [S!PQ!Next]_(S!PQ!pqVars)
  OBVIOUS
<1> USE DEF S!PQ!Next, S!PQ!pqVars
<1>1. ASSUME Free' = Free, Waiting' = Waiting PROVE [S!PQ!Next]_(S!PQ!pqVars)
  BY <1>1, SView DEF Free
<1>2. CASE UNCHANGED S!vars
  BY <1>1, <1>2 DEF S!vars, S!shared, S!locals, Free, InHand, Waiting
<1>3. ASSUME NEW th \in Threads, NEW m \in S!Modes, NEW n \in 1..MaxRelease, S!Release(th, m, n)
      PROVE  [S!PQ!Next]_(S!PQ!pqVars)
  <2>1. count' = count + n /\ UNCHANGED <<input, output, pending>>
    BY <1>3 DEF S!Release
  <2>2. Waiting' = Waiting /\ InHand' = InHand
    BY <2>1 DEF Waiting, InHand
  <2>3. count \in Nat /\ InHand \in Nat /\ n \in Int
    BY HandWithin DEF Counts
  <2>4. S!PQ!Put(n)
    <3>1. count' - InHand' = count - InHand + n
      BY <2>1, <2>2, <2>3
    <3> QED BY <2>2, <3>1, SView DEF S!PQ!Put
  <2> QED BY <2>4
<1>4. ASSUME NEW th \in Threads, S!Step(th) PROVE [S!PQ!Next]_(S!PQ!pqVars)
  <2>1. QueueSteps(th)
    BY <1>4, SemaphoreStep, QueueStep
  <2>2. CASE Free > 0 /\ Free' = Free - 1 /\ Waiting' = Waiting
    BY <2>2, SView DEF S!PQ!Acquire, Free
  <2>3. CASE Free > 0 /\ Waiting # <<>> /\ Free' = Free - 1 /\ Waiting' = Tail(Waiting)
    BY <2>3, SView DEF S!PQ!Grant, Free
  <2>4. CASE Free' = Free /\ Waiting' = <<>>
    BY <2>4, SView DEF S!PQ!Close, Free
  <2>5. CASE \E t \in Tasks :
               t \notin ToSet(Waiting) /\ Waiting' = Append(Waiting, t) /\ Free' = Free
    <3>1. PICK t \in Tasks :
            t \notin ToSet(Waiting) /\ Waiting' = Append(Waiting, t) /\ Free' = Free
      BY <2>5
    <3>2. S!PQ!Enqueue(t)
      BY <3>1, SView DEF S!PQ!Enqueue, S!PQ!ToSet, ToSet, Free
    <3> QED BY <3>2
  <2>6. CASE /\ \E m \in Modes : Give(th, m)
             /\ Free' = Free + (count' - count) /\ Waiting' = Waiting
    <3>1. Free \in Int /\ count \in Nat /\ count' \in Nat /\ count' >= count
      BY <2>6, HandWithin DEF Give
    <3>2. CASE count' = count
      BY <1>1, <2>6, <3>1, <3>2
    <3>3. CASE count' # count
      <4>1. count' > count
        BY <3>1, <3>3
      <4>2. CASE \E m \in S!Modes, n \in 1..MaxRelease : S!Release(th, m, n)
        BY <1>3, <4>2
      <4>3. CASE S!Acquire(th) \/ S!TryAcquire(th)
        <5>1. count' = count \/ count' = count - 1
          BY <4>3 DEF S!Acquire, S!TryAcquire, S!Await, S!TakePermit
        <5> QED BY <3>1, <4>1, <5>1
      <4>4. CASE S!CommonStep(th) \/ S!Complete(th)
        <5>1. count' = count \/ count' = count - want[th]
          BY <4>4, SemaphoreCommon DEF CommonStep, Dispatch, Push, AddWaiter, MustTake1, Commit, Resume,
                      Transfer, Destroy, Complete, shared
        <5>2. want[th] \in Nat
          BY DEF WInv, TypeOK
        <5> QED BY <3>1, <4>1, <5>1, <5>2
      <4> QED BY <1>4, <4>2, <4>3, <4>4 DEF S!Step
    <3> QED BY <3>2, <3>3
  <2> QED BY <1>1, <2>1, <2>2, <2>3, <2>4, <2>5, <2>6 DEF QueueSteps
<1> QED BY <1>2, <1>4 DEF S!Next, S!Terminated

\* Seen from outside a semaphore is a counted pool of permits and a queue: no resource
\* is lost or duplicated, and those that reach the queue are granted in the order of
\* suspension, also when one release wakes several waiters.
THEOREM SemaphoreIsAPermitQueue == ASSUME Counts PROVE S!Spec => S!IsPermitQueue
BY SemaphoreInitQueue, SemaphoreNextQueue, SemaphoreInvariant, PTL
   DEF S!Spec, S!IsPermitQueue, S!PQ!Spec

-----------------------------------------------------------------------------
(* The auto_reset_event.                                                   *)

\* What an event takes over from the waiter queue unchanged.
LEMMA EventWake ==
  ASSUME NEW th, NEW m
  PROVE  A!MaybeWake(th, m) <=> MaybeWake(th, m)
BY DEF A!MaybeWake, MaybeWake, A!EntersSection, EntersSection, A!Lesser, Lesser, A!ReturnNull, ReturnNull, A!FinishTask, FinishTask

LEMMA EventCommon ==
  ASSUME NEW th \in Threads
  PROVE  /\ A!CommonStep(th) => CommonStep(th)
         /\ A!Complete(th) => Complete(th)
         /\ A!Await(th) => Await(th)
<1>1. ASSUME NEW t \in Tasks, A!Dispatch(th, t) PROVE CommonStep(th)
  <2>1. Dispatch(th, t)
    BY <1>1 DEF A!Dispatch, Dispatch, A!shared, shared
  <2> QED BY <2>1 DEF CommonStep
<1>2. ASSUME A!Push(th) PROVE CommonStep(th)
  <2>1. Push(th)
    BY <1>2 DEF A!Push, Push
  <2> QED BY <2>1 DEF CommonStep
<1>3. ASSUME A!AddWaiter(th) PROVE CommonStep(th)
  <2>1. AddWaiter(th)
    BY <1>3, EventWake DEF A!AddWaiter, AddWaiter
  <2> QED BY <2>1 DEF CommonStep
<1>4. ASSUME A!MustTake1(th) PROVE CommonStep(th)
  <2>1. MustTake1(th)
    BY <1>4 DEF A!MustTake1, MustTake1, A!Refilled, Refilled, A!Reverse, Reverse, A!sched, sched
  <2> QED BY <2>1 DEF CommonStep
<1>5. ASSUME A!Commit(th) PROVE CommonStep(th)
  <2>1. Commit(th)
    BY <1>5 DEF A!Commit, Commit, A!Lesser, Lesser, A!ToSet, ToSet
  <2> QED BY <2>1 DEF CommonStep
<1>6. ASSUME A!Resume(th) PROVE CommonStep(th)
  <2>1. Resume(th)
    BY <1>6 DEF A!Resume, Resume, A!RemoveAt, RemoveAt, A!shared, shared
  <2> QED BY <2>1 DEF CommonStep
<1>7. ASSUME A!Transfer(th) PROVE CommonStep(th)
  <2>1. Transfer(th)
    BY <1>7 DEF A!Transfer, Transfer, A!shared, shared
  <2> QED BY <2>1 DEF CommonStep
<1>8. ASSUME A!Destroy(th) PROVE CommonStep(th)
  <2>1. Destroy(th)
    BY <1>8 DEF A!Destroy, Destroy, A!sched, sched
  <2> QED BY <2>1 DEF CommonStep
<1>9. A!CommonStep(th) => CommonStep(th)
  BY <1>1, <1>2, <1>3, <1>4, <1>5, <1>6, <1>7, <1>8 DEF A!CommonStep
<1>10. A!Complete(th) => Complete(th)
  BY DEF A!Complete, Complete, A!FinishTask, FinishTask, A!shared, shared
<1>11. A!Await(th) => Await(th)
  BY DEF A!Await, Await, A!BeginRound, BeginRound, A!CanAcquire, CanAcquire, A!TakePermit, TakePermit
<1> QED BY <1>9, <1>10, <1>11

\* At most one set is stored beyond those owed to registered waiters.
StoredInv == count <= waiters + 1
EventInv == WInv /\ StoredInv

LEMMA InitEvent ==
  ASSUME A!Init
  PROVE  EventInv /\ InitWith(A!StartCount) /\ A!StartCount \in Nat
<1>1. A!StartCount \in Nat /\ A!StartCount <= 1
  BY DEF A!StartCount
<1>2. InitWith(A!StartCount)
  BY InitSame DEF A!Init
<1>3. WInv
  BY <1>1, <1>2, InitWInv
<1> QED BY <1>1, <1>2, <1>3 DEF EventInv, StoredInv, InitWith

\* An event does to the waiter queue what any user may do.
LEMMA EventStep ==
  ASSUME WInv, NEW th \in Threads, A!Step(th)
  PROVE  UserStep(th)
<1>a. count \in Nat /\ own \subseteq Tasks /\ rounds \in [Tasks -> 0..MaxRounds]
  BY DEF WInv, TypeOK
<1>1. CASE A!CommonStep(th) \/ A!Complete(th) \/ A!Await(th)
  BY <1>1, EventCommon DEF UserStep
<1>2. CASE A!Reset(th)
  BY <1>2, <1>a DEF A!Reset, A!CanAcquire, CanAcquire, A!sched, A!locals, locals, UserStep, Try
<1>3. ASSUME NEW m \in A!Modes, A!Set(th, m) PROVE UserStep(th)
  <2>1. Give(th, m) /\ m \in Modes
    BY <1>3, <1>a, EventWake DEF A!Set, Give, A!Modes, Modes
  <2> QED BY <2>1 DEF UserStep
<1> QED BY <1>1, <1>2, <1>3 DEF A!Step

\* A set is added only below the bound, waiters register before they wait for it, and the
\* commit takes as many waiters as sets.
LEMMA EventStored ==
  ASSUME EventInv, NEW th \in Threads, A!Step(th)
  PROVE  StoredInv'
<1>a. WInv /\ StoredInv /\ count \in Nat /\ waiters \in Nat /\ want[th] \in Nat
  BY DEF EventInv, WInv, TypeOK
<1>1. ASSUME UNCHANGED <<count, waiters>> PROVE StoredInv'
  BY <1>1, <1>a DEF StoredInv
<1>2. ASSUME CommonStep(th) \/ Complete(th) PROVE StoredInv'
  <2>1. ASSUME NEW t \in Tasks, Dispatch(th, t) PROVE StoredInv'
    BY <2>1, <1>1 DEF Dispatch, shared
  <2>2. CASE Push(th) \/ MustTake1(th) \/ Resume(th) \/ Transfer(th) \/ Destroy(th) \/ Complete(th)
    BY <2>2, <1>1 DEF Push, MustTake1, Resume, Transfer, Destroy, Complete, shared
  <2>3. CASE AddWaiter(th)
    BY <2>3, <1>a DEF AddWaiter, StoredInv
  <2>4. CASE Commit(th)
    BY <2>4, <1>a DEF Commit, StoredInv
  <2> QED BY <1>2, <2>1, <2>2, <2>3, <2>4 DEF CommonStep
<1>3. CASE Await(th) \/ A!Reset(th)
  <2>1. waiters' = waiters /\ (count' = count \/ count' = count - 1)
    BY <1>3 DEF Await, TakePermit, A!Reset
  <2> QED BY <1>a, <2>1 DEF StoredInv
<1>4. ASSUME NEW m \in A!Modes, A!Set(th, m) PROVE StoredInv'
  BY <1>4, <1>a DEF A!Set, A!AlreadySet, StoredInv
<1> QED BY <1>2, <1>3, <1>4, EventCommon DEF A!Step

LEMMA NextEvent == EventInv /\ [A!Next]_(A!vars) => EventInv'
<1> SUFFICES ASSUME EventInv, [A!Next]_(A!vars) PROVE EventInv'
  OBVIOUS
<1>1. ASSUME NEW th \in Threads, A!Step(th) PROVE EventInv'
  BY <1>1, EventStep, StepWInv, EventStored DEF EventInv
<1>2. CASE UNCHANGED A!vars
  <2>1. UNCHANGED vars
    BY <1>2 DEF A!vars, A!shared, A!sched, A!locals, vars, shared, sched, locals
  <2> QED BY <2>1, StutterWInv DEF EventInv, StoredInv, vars, shared
<1> QED BY <1>1, <1>2 DEF A!Next, A!Terminated

\* The waiter queue's invariant holds of an event, and so does the bound on stored sets.
THEOREM EventInvariant == A!Spec => []EventInv
BY InitEvent, NextEvent, PTL DEF A!Spec

LEMMA OverSetFromInv == EventInv => A!NeverOverSet
<1> SUFFICES ASSUME EventInv PROVE A!NeverOverSet
  OBVIOUS
<1>1. count \in Nat /\ waiters \in Nat /\ count <= waiters + 1
  BY DEF EventInv, WInv, TypeOK, StoredInv
<1>2. Quiet /\ alive => count = 0 \/ waiters = 0
  BY NoLostWakeupFromInv DEF EventInv, NoLostWakeup
<1>3. A!Quiet <=> Quiet
  BY DEF A!Quiet, Quiet, A!Touching, Touching
<1>4. Quiet /\ alive => count <= 1
  BY <1>1, <1>2
<1> QED BY <1>1, <1>3, <1>4 DEF A!NeverOverSet

\* However many sets run at a time, at most one is remembered beyond those owed to
\* registered waiters; once no call is in progress the event is set at most once.
THEOREM EventSetOnce == A!Spec => []A!NeverOverSet
BY OverSetFromInv, EventInvariant, PTL

\* While no call is in progress a set event has no waiter.
THEOREM EventLosesNoWakeup == A!Spec => []NoLostWakeup
<1>1. EventInv => NoLostWakeup
  BY NoLostWakeupFromInv DEF EventInv
<1> QED BY <1>1, EventInvariant, PTL

-----------------------------------------------------------------------------
(* Refinement of PermitQueue by an event. *)

LEMMA AView ==
  /\ A!Waiting = Waiting /\ A!InHand = InHand
  /\ (A!Waiting)' = Waiting' /\ (A!InHand)' = InHand'
<1>1. \A s : A!Reverse(s) = Reverse(s)
  BY DEF A!Reverse, Reverse
<1>2. A!Waiting = Waiting /\ (A!Waiting)' = Waiting'
  BY <1>1 DEF A!Waiting, Waiting
<1>3. \A s : A!ToSet(s) = ToSet(s)
  BY DEF A!ToSet, ToSet
<1>4. \A X : A!Cardinality(X) = Cardinality(X)
  BY DEF A!Cardinality, Cardinality
<1>5. A!InHand = InHand /\ (A!InHand)' = InHand'
  BY <1>3, <1>4 DEF A!InHand, InHand
<1> QED BY <1>2, <1>5

LEMMA EventInitQueue == A!Init => A!PQ!Init
<1> SUFFICES ASSUME A!Init PROVE count - InHand = A!StartCount /\ Waiting = <<>>
  BY AView DEF A!PQ!Init
<1>1. WInv /\ A!StartCount \in Nat /\ InitWith(A!StartCount)
  BY InitEvent DEF EventInv
<1>2. InHand = 0
  <2>1. \A th \in Threads : ~InSection(th)
    BY <1>1 DEF InitWith, InSection
  <2> QED BY <1>1, <2>1, InHandFacts DEF WInv
<1>3. Waiting = <<>>
  <2>1. Len(Waiting) = Len(output) + Len(input) /\ Waiting \in Seq(Tasks)
    BY <1>1, WaitingFacts DEF WInv
  <2>2. Len(Waiting) = 0
    BY <1>1, <2>1 DEF InitWith
  <2> QED BY <2>1, <2>2
<1>4. count = A!StartCount
  BY <1>1 DEF InitWith
<1> QED BY <1>1, <1>2, <1>3, <1>4

LEMMA EventNextQueue ==
  WInv /\ [A!Next]_(A!vars) => [A!PQ!Next]_(A!PQ!pqVars)
<1> SUFFICES ASSUME WInv, [A!Next]_(A!vars) PROVE [A!PQ!Next]_(A!PQ!pqVars)
  OBVIOUS
<1> USE DEF A!PQ!Next, A!PQ!pqVars
<1>1. ASSUME Free' = Free, Waiting' = Waiting PROVE [A!PQ!Next]_(A!PQ!pqVars)
  BY <1>1, AView DEF Free
<1>2. CASE UNCHANGED A!vars
  BY <1>1, <1>2 DEF A!vars, A!shared, A!locals, Free, InHand, Waiting
<1>3. ASSUME NEW th \in Threads, NEW m \in A!Modes, A!Set(th, m) PROVE [A!PQ!Next]_(A!PQ!pqVars)
  <2>1. count' = count + 1 /\ UNCHANGED <<input, output, pending>>
    BY <1>3 DEF A!Set
  <2>2. Waiting' = Waiting /\ InHand' = InHand
    BY <2>1 DEF Waiting, InHand
  <2>3. count \in Nat /\ InHand \in Nat
    BY HandWithin
  <2>4. A!PQ!Put(1) /\ 1 \in 1..1
    <3>1. count' - InHand' = count - InHand + 1
      BY <2>1, <2>2, <2>3
    <3> QED BY <2>2, <3>1, AView DEF A!PQ!Put
  <2> QED BY <2>4
<1>4. ASSUME NEW th \in Threads, A!Step(th) PROVE [A!PQ!Next]_(A!PQ!pqVars)
  <2>1. QueueSteps(th)
    BY <1>4, EventStep, QueueStep
  <2>2. CASE Free > 0 /\ Free' = Free - 1 /\ Waiting' = Waiting
    BY <2>2, AView DEF A!PQ!Acquire, Free
  <2>3. CASE Free > 0 /\ Waiting # <<>> /\ Free' = Free - 1 /\ Waiting' = Tail(Waiting)
    BY <2>3, AView DEF A!PQ!Grant, Free
  <2>4. CASE Free' = Free /\ Waiting' = <<>>
    BY <2>4, AView DEF A!PQ!Close, Free
  <2>5. CASE \E t \in Tasks :
               t \notin ToSet(Waiting) /\ Waiting' = Append(Waiting, t) /\ Free' = Free
    <3>1. PICK t \in Tasks :
            t \notin ToSet(Waiting) /\ Waiting' = Append(Waiting, t) /\ Free' = Free
      BY <2>5
    <3>2. A!PQ!Enqueue(t)
      BY <3>1, AView DEF A!PQ!Enqueue, A!PQ!ToSet, ToSet, Free
    <3> QED BY <3>2
  <2>6. CASE /\ \E m \in Modes : Give(th, m)
             /\ Free' = Free + (count' - count) /\ Waiting' = Waiting
    <3>1. Free \in Int /\ count \in Nat /\ count' \in Nat /\ count' >= count
      BY <2>6, HandWithin DEF Give
    <3>2. CASE count' = count
      BY <1>1, <2>6, <3>1, <3>2
    <3>3. CASE count' # count
      <4>1. count' > count
        BY <3>1, <3>3
      <4>2. CASE \E m \in A!Modes : A!Set(th, m)
        BY <1>3, <4>2
      <4>3. CASE A!Await(th) \/ A!Reset(th)
        <5>1. count' = count \/ count' = count - 1
          BY <4>3 DEF A!Reset, A!Await, A!TakePermit
        <5> QED BY <3>1, <4>1, <5>1
      <4>4. CASE A!CommonStep(th) \/ A!Complete(th)
        <5>1. count' = count \/ count' = count - want[th]
          BY <4>4, EventCommon DEF CommonStep, Dispatch, Push, AddWaiter, MustTake1, Commit, Resume,
                      Transfer, Destroy, Complete, shared
        <5>2. want[th] \in Nat
          BY DEF WInv, TypeOK
        <5> QED BY <3>1, <4>1, <5>1, <5>2
      <4> QED BY <1>4, <4>2, <4>3, <4>4 DEF A!Step
    <3> QED BY <3>2, <3>3
  <2> QED BY <1>1, <2>1, <2>2, <2>3, <2>4, <2>5, <2>6 DEF QueueSteps
<1> QED BY <1>2, <1>4 DEF A!Next, A!Terminated

\* Seen from outside an auto_reset_event is a queue to which permits come one set at a
\* time: one set resumes one awaiter, in the order in which they suspended.
THEOREM EventIsAPermitQueue == A!Spec => A!IsPermitQueue
<1>1. EventInv => WInv
  BY DEF EventInv
<1> QED BY <1>1, EventInitQueue, EventNextQueue, EventInvariant, PTL
        DEF A!Spec, A!IsPermitQueue, A!PQ!Spec

-----------------------------------------------------------------------------
(* Any of the three, as MCWaiterQueue composes them.                       *)

AnyInv ==
  /\ prim \in {"mutex", "semaphore", "event"}
  /\ WInv
  /\ prim = "mutex" => MutexInv
  /\ prim = "event" => EventInv

LEMMA InitAny == ASSUME Counts PROVE MCInit => AnyInv
BY InitMutex, InitSemaphore, InitEvent DEF MCInit, AnyInv, MutexInv, EventInv

LEMMA NextAny == ASSUME Counts PROVE AnyInv /\ [MCNext]_mcVars => AnyInv'
<1> SUFFICES ASSUME AnyInv, [MCNext]_mcVars PROVE AnyInv'
  OBVIOUS
<1>1. CASE prim = "mutex" /\ Next /\ prim' = prim
  BY <1>1, NextMutex DEF AnyInv, MutexInv
<1>2. CASE prim = "semaphore" /\ S!Next /\ prim' = prim
  BY <1>2, NextSemaphore DEF AnyInv
<1>3. CASE prim = "event" /\ A!Next /\ prim' = prim
  BY <1>3, NextEvent DEF AnyInv, EventInv
<1>4. CASE UNCHANGED mcVars
  <2>1. UNCHANGED vars /\ prim' = prim
    BY <1>4 DEF mcVars
  <2>2. WInv'
    BY <2>1, StutterWInv DEF AnyInv
  <2>3. prim = "mutex" => MutexInv'
    BY <2>1, NextMutex DEF AnyInv
  <2>4. prim = "event" => EventInv'
    BY <2>1, <2>2 DEF AnyInv, EventInv, StoredInv, vars, shared
  <2> QED BY <2>1, <2>2, <2>3, <2>4 DEF AnyInv
<1> QED BY <1>1, <1>2, <1>3, <1>4 DEF MCNext

\* The inductive invariant of the three together.
THEOREM AnyInvariant == ASSUME Counts PROVE MCSpec => []AnyInv
BY InitAny, NextAny, PTL DEF MCSpec

\* A mutex has at most one holder, and an event remembers at most one set beyond those
\* it owes: neither is duplicated by any order of suspensions, unlocks, sets and wakes.
THEOREM PermitIsSingle == ASSUME Counts PROVE MCSpec => []OnePermit
<1>1. AnyInv => OnePermit
  BY OverSetFromInv DEF AnyInv, MutexInv, PermitInv, OnePermit
<1> QED BY <1>1, AnyInvariant, PTL

\* In each of the three at most one thread takes nodes from the lists.
THEOREM OneWaker == ASSUME Counts PROVE MCSpec => []SingleWaker
<1>1. AnyInv => SingleWaker
  BY DEF AnyInv, WInv, ControlInv, SectionPart
<1> QED BY <1>1, AnyInvariant, PTL

\* While a thread takes several nodes the word and the lists hold all it is about to
\* take, whatever other threads acquire, release, set or suspend meanwhile.
THEOREM WakesAreCovered == ASSUME Counts PROVE MCSpec => []WakeIsCovered
<1>1. AnyInv => WakeIsCovered
  BY CoveredFromInv DEF AnyInv
<1> QED BY <1>1, AnyInvariant, PTL

\* Once every task has ended no thread touches the object any more, also not one that is
\* still in the suspend() of a task that another thread resumed and ended.
THEOREM DestroyedAfterLastTouch == ASSUME Counts PROVE MCSpec => []NoLateTouch
<1>1. AnyInv => NoLateTouch
  BY NoLateTouchFromInv DEF AnyInv
<1> QED BY <1>1, AnyInvariant, PTL

\* In each of the three the permits that reach the queue are granted in the order of
\* suspension, and none is lost or granted twice.
THEOREM EachIsFIFO == ASSUME Counts PROVE MCSpec => IsFIFO
<1> DEFINE
  Start == CASE prim = "mutex" -> PQ!Init
             [] prim = "semaphore" -> S!PQ!Init
             [] prim = "event" -> A!PQ!Init
  Grants == CASE prim = "mutex" -> [PQ!Next]_(PQ!pqVars)
              [] prim = "semaphore" -> [S!PQ!Next]_(S!PQ!pqVars)
              [] prim = "event" -> [A!PQ!Next]_(A!PQ!pqVars)
<1>1. MCInit => Start
  BY MutexInitQueue, SemaphoreInitQueue, EventInitQueue DEF MCInit
<1>2. AnyInv /\ [MCNext]_mcVars => [Grants]_mcVars
  <2> SUFFICES ASSUME AnyInv, [MCNext]_mcVars PROVE Grants \/ UNCHANGED mcVars
    OBVIOUS
  <2>1. CASE prim = "mutex" /\ Next
    BY <2>1, MutexNextQueue DEF AnyInv
  <2>2. CASE prim = "semaphore" /\ S!Next
    BY <2>2, SemaphoreNextQueue DEF AnyInv
  <2>3. CASE prim = "event" /\ A!Next
    BY <2>3, EventNextQueue DEF AnyInv
  <2> QED BY <2>1, <2>2, <2>3 DEF MCNext
<1> HIDE DEF Start, Grants
<1>3. MCSpec => Start /\ [][Grants]_mcVars
  BY <1>1, <1>2, AnyInvariant, PTL DEF MCSpec
<1> QED BY <1>3 DEF IsFIFO, Start, Grants
=============================================================================
