-------------------------- MODULE Scheduler_proofs --------------------------
(***************************************************************************)
(* The bookkeeping of the scheduler, for every set of threads, tasks and   *)
(* setups: what m_active_thread_count counts, and where every entry ever   *)
(* queued is.                                                              *)
(*                                                                         *)
(* Both are sums over the threads, so that it is not enough to know what a *)
(* step does to one of them: the proofs follow the set of threads between  *)
(* taking an entry and coming back, and for each task the set of its       *)
(* places in the queue and the set of threads that hold it.                *)
(***************************************************************************)
EXTENDS Scheduler, SequenceTheorems, FiniteSetTheorems, WellFoundedInduction, TLAPS

Places == {"out", "loop", "taken", "swapin", "enter", "inside", "swapout", "leave", "back",
           "settle", "hold"}
Entry == [task : Tasks, pin : Threads \cup {Caller, AnyThread}]

RunTypeOK ==
    /\ pool \in SUBSET Threads /\ IsFiniteSet(pool) /\ useCaller \in BOOLEAN
    /\ pc \in [Runners -> Places]
    /\ hand \in [Runners -> Entry \cup {NoEntry}]
    /\ queue \in Seq(Entry)
    /\ scheduled \in [Tasks -> Nat]
    /\ begun \in [Tasks -> Nat]
    /\ refused \in [Tasks -> Nat]

\* A runner that is not looking for work has an entry, and only fibers are
\* swapped in and settled.
HandsHold ==
    \A r \in Runners :
        /\ pc[r] \notin {"out", "loop"} => hand[r].task \in Tasks
        /\ pc[r] \in {"swapin", "enter", "settle", "hold"} => hand[r].task \in Fibers

\* The caller's root fiber runs from stop() on.
CallerWaits == useCaller /\ main # "called" => pc[Caller] = "out"

\* The runners that m_active_thread_count counts.
Resting == {"out", "loop", "settle", "hold"}
Working == {r \in Runners : pc[r] \notin Resting}

IInv == RunTypeOK /\ HandsHold /\ CallerWaits /\ ActiveMatches /\ EntriesAccounted

----------------------------------------------------------------------------
(* Counting. *)

LEMMA RunnersFinite == RunTypeOK => IsFiniteSet(Runners)
<1> SUFFICES ASSUME RunTypeOK PROVE IsFiniteSet(Runners)
  OBVIOUS
<1>1. IsFiniteSet(pool) /\ IsFiniteSet(pool \cup {Caller})
  BY FS_AddElement DEF RunTypeOK
<1>2. Runners = pool \/ Runners = pool \cup {Caller}
  BY DEF Runners
<1> QED
  BY <1>1, <1>2

\* One element more or less is one more or less to count.
LEMMA CountChanges ==
    ASSUME NEW A, NEW B, NEW r, IsFiniteSet(A), A \ {r} = B \ {r}
    PROVE  /\ IsFiniteSet(B) /\ Cardinality(A) \in Nat /\ Cardinality(B) \in Nat
           /\ (r \in A <=> r \in B) => Cardinality(B) = Cardinality(A)
           /\ r \notin A /\ r \in B => Cardinality(B) = Cardinality(A) + 1
           /\ r \in A /\ r \notin B => Cardinality(A) = Cardinality(B) + 1
<1>1. IsFiniteSet(A \ {r}) /\ Cardinality(A \ {r}) \in Nat
  BY FS_RemoveElement, FS_CardinalityType
<1> DEFINE C == A \ {r}
<1>2. /\ IsFiniteSet(C \cup {r}) /\ Cardinality(C \cup {r}) = Cardinality(C) + 1
  BY <1>1, FS_AddElement
<1>3. (A = C \/ A = C \cup {r}) /\ (B = C \/ B = C \cup {r})
  OBVIOUS
<1>4. r \notin C
  OBVIOUS
<1> HIDE DEF C
<1>5. (r \in A <=> A = C \cup {r}) /\ (r \in B <=> B = C \cup {r}) /\ (r \notin A <=> A = C) /\ (r \notin B <=> B = C)
  BY <1>3, <1>4
<1>6. IsFiniteSet(C) /\ Cardinality(C) \in Nat
  BY <1>1 DEF C
<1> QED
  BY <1>2, <1>3, <1>5, <1>6

\* What one runner does changes the counts by it alone.
LEMMA OneRunner ==
    ASSUME RunTypeOK, NEW r \in Runners, UNCHANGED setup,
           \A s \in Runners \ {r} : pc'[s] = pc[s] /\ hand'[s] = hand[s]
    PROVE  /\ Runners' = Runners
           /\ Cardinality(Working) \in Nat /\ Cardinality(Working)' \in Nat
           /\ (r \in Working <=> r \in Working') => Cardinality(Working)' = Cardinality(Working)
           /\ r \notin Working /\ r \in Working' => Cardinality(Working)' = Cardinality(Working) + 1
           /\ r \in Working /\ r \notin Working' => Cardinality(Working) = Cardinality(Working)' + 1
           /\ \A x \in Tasks :
                /\ Cardinality(Holding(x)) \in Nat /\ Cardinality(Holding(x)') \in Nat
                /\ (r \in Holding(x) <=> r \in Holding(x)') =>
                        Cardinality(Holding(x)') = Cardinality(Holding(x))
                /\ r \notin Holding(x) /\ r \in Holding(x)' =>
                        Cardinality(Holding(x)') = Cardinality(Holding(x)) + 1
                /\ r \in Holding(x) /\ r \notin Holding(x)' =>
                        Cardinality(Holding(x)) = Cardinality(Holding(x)') + 1
<1>1. IsFiniteSet(Runners) /\ Runners' = Runners
  BY RunnersFinite DEF Runners, setup
<1>2. IsFiniteSet(Working) /\ Working \ {r} = Working' \ {r}
  <2>1. Working \in SUBSET Runners
    BY DEF Working
  <2>2. Working \ {r} = Working' \ {r}
    BY <1>1 DEF Working
  <2> QED
    BY <1>1, <2>1, <2>2, FS_Subset
<1>3. ASSUME NEW x \in Tasks
      PROVE  IsFiniteSet(Holding(x)) /\ Holding(x) \ {r} = Holding(x)' \ {r}
  <2>1. Holding(x) \in SUBSET Runners
    BY DEF Holding
  <2>2. Holding(x) \ {r} = Holding(x)' \ {r}
    BY <1>1 DEF Holding
  <2> QED
    BY <1>1, <2>1, <2>2, FS_Subset
<1>4. /\ Cardinality(Working) \in Nat /\ Cardinality(Working)' \in Nat
      /\ (r \in Working <=> r \in Working') => Cardinality(Working)' = Cardinality(Working)
      /\ r \notin Working /\ r \in Working' => Cardinality(Working)' = Cardinality(Working) + 1
      /\ r \in Working /\ r \notin Working' => Cardinality(Working) = Cardinality(Working)' + 1
  BY <1>2, CountChanges
<1>5. ASSUME NEW x \in Tasks
      PROVE  /\ Cardinality(Holding(x)) \in Nat /\ Cardinality(Holding(x)') \in Nat
             /\ (r \in Holding(x) <=> r \in Holding(x)') =>
                        Cardinality(Holding(x)') = Cardinality(Holding(x))
             /\ r \notin Holding(x) /\ r \in Holding(x)' =>
                        Cardinality(Holding(x)') = Cardinality(Holding(x)) + 1
             /\ r \in Holding(x) /\ r \notin Holding(x)' =>
                        Cardinality(Holding(x)) = Cardinality(Holding(x)') + 1
  BY <1>3, CountChanges
<1> QED
  BY <1>1, <1>4, <1>5

\* The places of a task in a list of entries.
At(s, x) == {i \in DOMAIN s : s[i].task = x}

LEMMA AtFinite ==
    ASSUME NEW s \in Seq(Entry), NEW x
    PROVE  IsFiniteSet(At(s, x)) /\ Cardinality(At(s, x)) \in Nat
<1>1. Len(s) \in Nat /\ DOMAIN s = 1..Len(s)
  OBVIOUS
<1>2. IsFiniteSet(1..Len(s))
  BY <1>1, FS_Interval
<1> QED
  BY <1>1, <1>2, FS_Subset, FS_CardinalityType DEF At

\* schedule() adds one place behind the others.
LEMMA AtAppend ==
    ASSUME NEW s \in Seq(Entry), NEW e \in Entry, NEW x
    PROVE  /\ Append(s, e) \in Seq(Entry)
           /\ Cardinality(At(Append(s, e), x)) = Cardinality(At(s, x)) + (IF e.task = x THEN 1 ELSE 0)
<1> DEFINE t == Append(s, e)
           n == Len(s) + 1
<1>1. /\ t \in Seq(Entry) /\ Len(t) = n /\ t[n] = e /\ \A i \in 1..Len(s) : t[i] = s[i]
      /\ Len(s) \in Nat /\ DOMAIN s = 1..Len(s) /\ DOMAIN t = 1..Len(t)
  OBVIOUS
<1> HIDE DEF t
<1>2. At(s, x) \ {n} = At(t, x) \ {n}
  BY <1>1 DEF At
<1>3. n \notin At(s, x) /\ (n \in At(t, x) <=> e.task = x)
  BY <1>1 DEF At
<1>4. IsFiniteSet(At(s, x)) /\ Cardinality(At(s, x)) \in Nat
  BY AtFinite
<1> HIDE DEF n
<1>5. Cardinality(At(t, x)) = Cardinality(At(s, x)) + (IF e.task = x THEN 1 ELSE 0)
  BY <1>2, <1>3, <1>4, CountChanges
<1> QED
  BY <1>1, <1>5 DEF t

\* The scan takes one place out and moves those behind it up by one.
LEMMA AtRemove ==
    ASSUME NEW s \in Seq(Entry), NEW k \in DOMAIN s, NEW x
    PROVE  /\ RemoveAt(s, k) \in Seq(Entry)
           /\ Cardinality(At(s, x)) = Cardinality(At(RemoveAt(s, k), x)) + (IF s[k].task = x THEN 1 ELSE 0)
<1> DEFINE t == RemoveAt(s, k)
           up(i) == IF i < k THEN i ELSE i + 1
           f == [i \in At(t, x) |-> up(i)]
<1>1. /\ Len(s) \in Nat /\ DOMAIN s = 1..Len(s) /\ k \in 1..Len(s) /\ \A i \in 1..Len(s) : s[i] \in Entry
  OBVIOUS
<1>2. /\ t \in Seq(Entry) /\ Len(t) = Len(s) - 1 /\ \A i \in 1..Len(t) : t[i] = s[up(i)]
  <2> DEFINE a == SubSeq(s, 1, k - 1)
             b == SubSeq(s, k + 1, Len(s))
  <2>1. /\ a \in Seq(Entry) /\ Len(a) = k - 1 /\ \A i \in 1..k - 1 : a[i] = s[i]
    <3>1. 1 \in Int /\ k - 1 \in Int /\ \A i \in 1..k - 1 : s[i] \in Entry
      BY <1>1
    <3>2. /\ a \in Seq(Entry) /\ Len(a) = (IF 1 <= k - 1 THEN k - 1 - 1 + 1 ELSE 0)
          /\ \A i \in 1..k - 1 - 1 + 1 : a[i] = s[1 + i - 1]
      BY <3>1, SubSeqProperties
    <3> HIDE DEF a
    <3> QED
      BY <1>1, <3>2
  <2>2. /\ b \in Seq(Entry) /\ Len(b) = Len(s) - k /\ \A i \in 1..Len(s) - k : b[i] = s[k + i]
    <3>1. k + 1 \in Int /\ Len(s) \in Int /\ \A i \in k + 1..Len(s) : s[i] \in Entry
      BY <1>1
    <3>2. /\ b \in Seq(Entry) /\ Len(b) = (IF k + 1 <= Len(s) THEN Len(s) - (k + 1) + 1 ELSE 0)
          /\ \A i \in 1..Len(s) - (k + 1) + 1 : b[i] = s[k + 1 + i - 1]
      BY <3>1, SubSeqProperties
    <3> HIDE DEF b
    <3>3. Len(b) = Len(s) - k
      BY <1>1, <3>2
    <3>4. ASSUME NEW i \in 1..Len(s) - k PROVE b[i] = s[k + i]
      <4>1. i \in 1..Len(s) - (k + 1) + 1 /\ k + 1 + i - 1 = k + i
        BY <1>1
      <4>2. b[i] = s[k + 1 + i - 1]
        BY <3>2, <4>1
      <4> QED
        BY <4>1, <4>2
    <3> QED
      BY <3>2, <3>3, <3>4
  <2>3. t = a \o b
    BY DEF RemoveAt
  <2> HIDE DEF a, b, t
  <2>4. /\ t \in Seq(Entry) /\ Len(t) = Len(a) + Len(b)
        /\ \A i \in 1..Len(a) + Len(b) : t[i] = IF i <= Len(a) THEN a[i] ELSE b[i - Len(a)]
    BY <2>1, <2>2, <2>3, ConcatProperties
  <2>5. Len(t) = Len(s) - 1
    BY <1>1, <2>1, <2>2, <2>4
  <2>6. ASSUME NEW i \in 1..Len(t) PROVE t[i] = s[up(i)]
    <3>1. CASE i < k
      BY <1>1, <2>1, <2>2, <2>4, <3>1
    <3>2. CASE ~(i < k)
      <4>1. i - Len(a) \in 1..Len(s) - k /\ k + (i - Len(a)) = i + 1 /\ ~(i <= Len(a))
        BY <1>1, <2>1, <2>5, <3>2
      <4>2. t[i] = b[i - Len(a)] /\ b[i - Len(a)] = s[k + (i - Len(a))]
        BY <2>2, <2>4, <4>1
      <4> QED
        BY <3>2, <4>1, <4>2
    <3> QED
      BY <3>1, <3>2
  <2> QED
    BY <2>4, <2>5, <2>6
<1> HIDE DEF t
<1>3. DOMAIN t = 1..Len(t)
  BY <1>2
<1>4. f \in Bijection(At(t, x), At(s, x) \ {k})
  <2>1. f \in [At(t, x) -> At(s, x) \ {k}]
    BY <1>1, <1>2, <1>3 DEF At
  <2>2. \A i, j \in At(t, x) : f[i] = f[j] => i = j
    BY <1>1, <1>2, <1>3 DEF At
  <2>3. ASSUME NEW j \in At(s, x) \ {k} PROVE \E i \in At(t, x) : f[i] = j
    <3>1. CASE j < k
      <4>1. j \in At(t, x)
        BY <1>1, <1>2, <1>3, <3>1 DEF At
      <4> QED
        BY <3>1, <4>1
    <3>2. CASE j > k
      <4>1. j - 1 \in At(t, x) /\ up(j - 1) = j
        BY <1>1, <1>2, <1>3, <3>2 DEF At
      <4> QED
        BY <4>1
    <3> QED
      BY <1>1, <3>1, <3>2 DEF At
  <2> HIDE DEF f
  <2> QED
    BY <2>1, <2>2, <2>3 DEF Bijection, Injection, Surjection, IsInjective
<1>5. IsFiniteSet(At(t, x)) /\ IsFiniteSet(At(s, x)) /\ Cardinality(At(t, x)) \in Nat
  BY <1>2, AtFinite
<1>6. Cardinality(At(s, x) \ {k}) = Cardinality(At(t, x))
  <2>1. ExistsBijection(At(t, x), At(s, x) \ {k})
    BY <1>4 DEF ExistsBijection
  <2> QED
    BY <1>5, <2>1, FS_Bijection
<1>7. k \in At(s, x) <=> s[k].task = x
  BY <1>1 DEF At
<1>8. Cardinality(At(s, x)) \in Nat /\ Cardinality(At(s, x) \ {k}) =
         IF k \in At(s, x) THEN Cardinality(At(s, x)) - 1 ELSE Cardinality(At(s, x))
  BY <1>5, FS_RemoveElement, FS_CardinalityType
<1>9. Cardinality(At(s, x)) = Cardinality(At(t, x)) + (IF s[k].task = x THEN 1 ELSE 0)
  BY <1>6, <1>7, <1>8
<1> QED
  BY <1>2, <1>9 DEF t

----------------------------------------------------------------------------
(* The steps. *)

\* Whether a runner has a task it took and did not enter yet.
Held(r, x) == pc[r] \in {"taken", "swapin", "enter"} /\ hand[r].task = x
One(p) == IF p THEN 1 ELSE 0

LEMMA FirstEligible ==
    ASSUME RunTypeOK, NEW r, Eligible(r) # {}
    PROVE  Min(Eligible(r)) \in DOMAIN queue
<1>1. Eligible(r) \in SUBSET Nat /\ Eligible(r) \subseteq DOMAIN queue
  BY DEF Eligible, RunTypeOK
<1>2. PICK n \in Eligible(r) : \A m \in Eligible(r) : ~(<<m, n>> \in OpToRel(<, Nat))
  BY <1>1, NatLessThanWellFounded, WFMin
<1>3. \A m \in Eligible(r) : n <= m
  <2> SUFFICES ASSUME NEW m \in Eligible(r), m < n PROVE FALSE
    BY <1>1
  <2>1. <<m, n>> \in OpToRel(<, Nat)
    BY <1>1 DEF OpToRel
  <2> QED
    BY <1>2, <2>1
<1> QED
  BY <1>1, <1>3 DEF Min

\* A step of run() in one runner keeps the books if it keeps them there.
LEMMA BooksKept ==
    ASSUME IInv, NEW r \in Runners, UNCHANGED <<setup, main>>, pc[r] # "out",
           pc' \in [Runners -> Places], hand' \in [Runners -> Entry \cup {NoEntry}],
           \A s \in Runners \ {r} : pc'[s] = pc[s] /\ hand'[s] = hand[s],
           pc'[r] \notin {"out", "loop"} => hand'[r].task \in Tasks,
           pc'[r] \in {"swapin", "enter", "settle", "hold"} => hand'[r].task \in Fibers,
           queue' \in Seq(Entry), scheduled' \in [Tasks -> Nat],
           begun' \in [Tasks -> Nat], refused' \in [Tasks -> Nat],
           active' + One(pc[r] \notin Resting) = active + One(pc'[r] \notin Resting),
           active' \in Int,
           \A x \in Tasks :
              scheduled'[x] + Cardinality(At(queue, x)) + One(Held(r, x)) + begun[x] + refused[x]
              = scheduled[x] + Cardinality(At(queue', x)) + One(Held(r, x)') + begun'[x] + refused'[x]
    PROVE  IInv'
<1>1. RunTypeOK /\ HandsHold /\ CallerWaits /\ ActiveMatches /\ EntriesAccounted
  BY DEF IInv
<1>2. Runners' = Runners
  BY DEF Runners, setup
<1>3. RunTypeOK'
  BY <1>1, <1>2 DEF RunTypeOK, setup
<1>4. HandsHold' /\ CallerWaits'
  <2>1. HandsHold'
    BY <1>1, <1>2 DEF HandsHold
  <2>2. useCaller => Caller \in Runners
    BY DEF Runners
  <2>3. CallerWaits'
    BY <1>1, <2>2 DEF CallerWaits, setup
  <2> QED
    BY <2>1, <2>3
<1>5. /\ Cardinality(Working) \in Nat /\ Cardinality(Working)' \in Nat
      /\ (r \in Working <=> r \in Working') => Cardinality(Working)' = Cardinality(Working)
      /\ r \notin Working /\ r \in Working' => Cardinality(Working)' = Cardinality(Working) + 1
      /\ r \in Working /\ r \notin Working' => Cardinality(Working) = Cardinality(Working)' + 1
  BY <1>1, OneRunner
<1>6. ActiveMatches'
  <2>1. active = Cardinality(Working)
    BY <1>1 DEF ActiveMatches, Working, Resting
  <2>2. (r \in Working <=> pc[r] \notin Resting) /\ (r \in Working' <=> pc'[r] \notin Resting)
    BY <1>2 DEF Working, Resting
  <2>3. active' = Cardinality(Working)'
    BY <1>5, <2>1, <2>2 DEF One
  <2> QED
    BY <1>2, <2>3 DEF ActiveMatches, Working, Resting
<1>7. EntriesAccounted'
  <2> SUFFICES ASSUME NEW x \in Tasks
               PROVE  scheduled'[x] = Cardinality(Queued(x)') + Cardinality(Holding(x)') + begun'[x] + refused'[x]
    BY DEF EntriesAccounted
  <2>1. scheduled[x] = Cardinality(At(queue, x)) + Cardinality(Holding(x)) + begun[x] + refused[x]
    BY <1>1 DEF EntriesAccounted, Queued, At
  <2>2. /\ Cardinality(Holding(x)) \in Nat /\ Cardinality(Holding(x)') \in Nat
        /\ (r \in Holding(x) <=> r \in Holding(x)') =>
              Cardinality(Holding(x)') = Cardinality(Holding(x))
        /\ r \notin Holding(x) /\ r \in Holding(x)' =>
              Cardinality(Holding(x)') = Cardinality(Holding(x)) + 1
        /\ r \in Holding(x) /\ r \notin Holding(x)' =>
              Cardinality(Holding(x)) = Cardinality(Holding(x)') + 1
    BY <1>1, OneRunner
  <2>3. (r \in Holding(x) <=> Held(r, x)) /\ (r \in Holding(x)' <=> Held(r, x)')
    BY <1>2 DEF Holding, Held
  <2>4. Cardinality(Holding(x)') + One(Held(r, x)) = Cardinality(Holding(x)) + One(Held(r, x)')
    BY <2>2, <2>3 DEF One
  <2>5. /\ Cardinality(At(queue, x)) \in Nat /\ Cardinality(At(queue', x)) \in Nat
        /\ begun[x] \in Nat /\ refused[x] \in Nat /\ begun'[x] \in Nat /\ refused'[x] \in Nat
        /\ scheduled[x] \in Nat /\ scheduled'[x] \in Nat
    BY <1>1, AtFinite DEF RunTypeOK
  <2>6. scheduled'[x] + Cardinality(At(queue, x)) + One(Held(r, x)) + begun[x] + refused[x]
        = scheduled[x] + Cardinality(At(queue', x)) + One(Held(r, x)') + begun'[x] + refused'[x]
    OBVIOUS
  <2>7. One(Held(r, x)) \in Nat /\ One(Held(r, x)') \in Nat
    BY DEF One
  <2>8. scheduled'[x] = Cardinality(At(queue', x)) + Cardinality(Holding(x)') + begun'[x] + refused'[x]
    <3>1. PICK q \in Nat, q1 \in Nat, h \in Nat, h1 \in Nat, o \in Nat, o1 \in Nat :
             /\ q = Cardinality(At(queue, x)) /\ q1 = Cardinality(At(queue', x))
             /\ h = Cardinality(Holding(x)) /\ h1 = Cardinality(Holding(x)')
             /\ o = One(Held(r, x)) /\ o1 = One(Held(r, x)')
      BY <2>2, <2>5, <2>7
    <3>2. PICK s \in Nat, s1 \in Nat, b \in Nat, b1 \in Nat, f \in Nat, f1 \in Nat :
             /\ s = scheduled[x] /\ s1 = scheduled'[x] /\ b = begun[x] /\ b1 = begun'[x]
             /\ f = refused[x] /\ f1 = refused'[x]
      BY <2>5
    <3>3. s = q + h + b + f
      BY <2>1, <3>1, <3>2
    <3>4. h1 + o = h + o1
      BY <2>4, <3>1
    <3>5. s1 + q + o + b + f = s + q1 + o1 + b1 + f1
      BY <2>6, <3>1, <3>2
    <3>6. s1 = q1 + h1 + b1 + f1
      <4>1. q \in Nat /\ q1 \in Nat /\ h \in Nat /\ h1 \in Nat /\ o \in Nat /\ o1 \in Nat
            /\ s \in Nat /\ s1 \in Nat /\ b \in Nat /\ b1 \in Nat /\ f \in Nat /\ f1 \in Nat
        BY <3>1, <3>2
      <4>2. s1 + q + o + b + f = (q + h + b + f) + q1 + o1 + b1 + f1
        BY <3>3, <3>5
      <4> QED
        BY <3>4, <4>1, <4>2
    <3> QED
      BY <3>1, <3>2, <3>6
  <2> QED
    BY <2>8 DEF Queued, At
<1> QED
  BY <1>3, <1>4, <1>6, <1>7 DEF IInv

\* What every step of run() leaves alone, in the caller and in the other runners.
LEMMA RunFrame ==
    ASSUME IInv, NEW r \in Runners, RunStep(r)
    PROVE  /\ UNCHANGED <<setup, main>> /\ pc[r] # "out"
           /\ pc' \in [Runners -> Places] /\ hand' \in [Runners -> Entry \cup {NoEntry}]
           /\ \A s \in Runners \ {r} : pc'[s] = pc[s] /\ hand'[s] = hand[s]
<1>1. RunTypeOK
  BY DEF IInv
<1>2. UNCHANGED <<setup, main>>
  BY DEF RunStep, Take, Idle, RunCallback, Refuse, Accept, SwapInBusy, SwapIn, Enter, Yield, SwapOut,
     Leave, Finish, Back, SettleReady, Settle, SettleHold, mainVars
<1>3. ASSUME NEW from \in Places, NEW to \in Places, from # "out", Goes(r, from, to)
      PROVE  /\ pc[r] # "out" /\ pc' \in [Runners -> Places]
             /\ \A s \in Runners \ {r} : pc'[s] = pc[s]
  BY <1>1, <1>3 DEF Goes, RunTypeOK
<1>4. /\ pc[r] # "out" /\ pc' \in [Runners -> Places]
      /\ \A s \in Runners \ {r} : pc'[s] = pc[s]
  <2>1. CASE Finish(r)
    BY <1>1, <2>1 DEF Finish, RunTypeOK
  <2>2. CASE ~Finish(r)
    <3>1. \E from, to \in Places : from # "out" /\ Goes(r, from, to)
      BY <2>2 DEF RunStep, Take, Idle, RunCallback, Refuse, Accept, SwapInBusy, SwapIn, Enter, Yield,
         SwapOut, Leave, Back, SettleReady, Settle, SettleHold, Rests, Places
    <3> QED
      BY <1>3, <3>1
  <2> QED
    BY <2>1, <2>2
<1>5. \E e \in Entry \cup {NoEntry} : hand' = [hand EXCEPT ![r] = e]
  <2>1. CASE Take(r)
    <3>1. Min(Eligible(r)) \in DOMAIN queue
      BY <1>1, <2>1, FirstEligible DEF Take
    <3>2. queue[Min(Eligible(r))] \in Entry
      BY <1>1, <3>1 DEF RunTypeOK
    <3> QED
      BY <2>1, <3>2 DEF Take
  <2>2. CASE hand' = [hand EXCEPT ![r] = NoEntry]
    BY <2>2
  <2>3. CASE hand' = hand
    BY <1>1, <2>3 DEF RunTypeOK
  <2> QED
    BY <2>1, <2>2, <2>3 DEF RunStep, Idle, RunCallback, Refuse, Accept, SwapInBusy, SwapIn, Enter, Yield,
       SwapOut, Leave, Finish, Back, SettleReady, Settle, SettleHold, Rests
<1>6. /\ hand' \in [Runners -> Entry \cup {NoEntry}]
      /\ \A s \in Runners \ {r} : hand'[s] = hand[s]
  BY <1>1, <1>5 DEF RunTypeOK
<1> QED
  BY <1>2, <1>4, <1>6

\* An entry is queued once more.
LEMMA ScheduleCounts ==
    ASSUME NEW e \in Entry, NEW x, queue \in Seq(Entry), scheduled \in [Tasks -> Nat], Enqueue(<<e>>)
    PROVE  /\ queue' \in Seq(Entry) /\ scheduled' \in [Tasks -> Nat]
           /\ Cardinality(At(queue', x)) = Cardinality(At(queue, x)) + One(e.task = x)
           /\ x \in Tasks => scheduled'[x] = scheduled[x] + One(e.task = x)
<1>1. queue' = Append(queue, e)
  BY AppendIsConcat DEF Enqueue
<1>2. \A y \in Tasks : Cardinality({i \in DOMAIN <<e>> : <<e>>[i].task = y}) = One(e.task = y)
  <2> SUFFICES ASSUME NEW y \in Tasks
               PROVE  Cardinality({i \in DOMAIN <<e>> : <<e>>[i].task = y}) = One(e.task = y)
    OBVIOUS
  <2>1. {i \in DOMAIN <<e>> : <<e>>[i].task = y} = IF e.task = y THEN {1} ELSE {}
    <3>1. DOMAIN <<e>> = {1} /\ <<e>>[1] = e
      OBVIOUS
    <3> QED
      BY <3>1
  <2> QED
    BY <2>1, FS_Singleton, FS_EmptySet DEF One
<1>3. scheduled' = [y \in Tasks |-> scheduled[y] + One(e.task = y)]
  BY <1>2 DEF Enqueue
<1>4. scheduled' \in [Tasks -> Nat]
  BY <1>3 DEF One
<1> QED
  BY <1>1, <1>3, <1>4, AtAppend DEF One

(* Every step of run() keeps the books.                                     *)
LEMMA RunKeeps ==
    ASSUME IInv, NEW r \in Runners, RunStep(r)
    PROVE  IInv'
<1>1. /\ UNCHANGED <<setup, main>> /\ pc[r] # "out"
      /\ pc' \in [Runners -> Places] /\ hand' \in [Runners -> Entry \cup {NoEntry}]
      /\ \A s \in Runners \ {r} : pc'[s] = pc[s] /\ hand'[s] = hand[s]
  BY RunFrame
<1>2. RunTypeOK /\ HandsHold
  BY DEF IInv
<1>3. active \in Int
  <2>1. IsFiniteSet(Working) /\ Working \in SUBSET Runners
    BY <1>2, RunnersFinite, FS_Subset DEF Working
  <2>2. active = Cardinality(Working)
    BY DEF IInv, ActiveMatches, Working, Resting
  <2> QED
    BY <2>1, <2>2, FS_CardinalityType
<1>4. NoEntry.task \notin Tasks /\ Fibers \cap Callbacks = {}
  BY SchedulerAssumption DEF NoEntry, Tasks
<1> DEFINE Tidy ==
        /\ pc'[r] \notin {"out", "loop"} => hand'[r].task \in Tasks
        /\ pc'[r] \in {"swapin", "enter", "settle", "hold"} => hand'[r].task \in Fibers
        /\ active' \in Int
        /\ active' + One(pc[r] \notin Resting) = active + One(pc'[r] \notin Resting)
\* Steps that touch neither the queue nor a count of what became of the entries.
<1>5. ASSUME UNCHANGED <<queue, scheduled>>, Tidy,
             begun' \in [Tasks -> Nat], refused' \in [Tasks -> Nat],
             \A x \in Tasks : One(Held(r, x)) + begun[x] + refused[x]
                             = One(Held(r, x)') + begun'[x] + refused'[x]
      PROVE  IInv'
  <2>1. ASSUME NEW x \in Tasks
        PROVE  scheduled'[x] + Cardinality(At(queue, x)) + One(Held(r, x)) + begun[x] + refused[x]
               = scheduled[x] + Cardinality(At(queue', x)) + One(Held(r, x)') + begun'[x] + refused'[x]
    <3>1. PICK n \in Nat, o \in Nat, o1 \in Nat, b \in Nat, b1 \in Nat, f \in Nat, f1 \in Nat :
            /\ n = scheduled[x] + Cardinality(At(queue, x))
            /\ o = One(Held(r, x)) /\ o1 = One(Held(r, x)')
            /\ b = begun[x] /\ b1 = begun'[x] /\ f = refused[x] /\ f1 = refused'[x]
      <4>1. scheduled[x] + Cardinality(At(queue, x)) \in Nat
        BY <1>2, AtFinite DEF RunTypeOK
      <4>2. /\ begun[x] \in Nat /\ begun'[x] \in Nat /\ refused[x] \in Nat /\ refused'[x] \in Nat
            /\ One(Held(r, x)) \in Nat /\ One(Held(r, x)') \in Nat
        BY <1>2, <1>5 DEF RunTypeOK, One
      <4> QED
        BY <4>1, <4>2
    <3>2. scheduled'[x] + Cardinality(At(queue', x)) = n
      BY <1>5, <3>1
    <3>3. n + o + b + f = n + o1 + b1 + f1
      BY <1>5, <3>1
    <3> QED
      BY <1>5, <3>1, <3>2, <3>3
  <2>2. queue' \in Seq(Entry) /\ scheduled' \in [Tasks -> Nat]
    BY <1>2, <1>5 DEF RunTypeOK
  <2> QED
    BY <1>1, <1>5, <2>1, <2>2, BooksKept
<1>6. CASE Take(r)
  <2>1. PICK k : k = Min(Eligible(r))
    OBVIOUS
  <2>2. /\ pc[r] = "loop" /\ pc'[r] = "taken" /\ active' = active + 1
        /\ queue' = RemoveAt(queue, k) /\ hand'[r] = queue[k]
        /\ UNCHANGED <<scheduled, begun, refused>>
    BY <1>2, <1>6, <2>1 DEF Take, Goes, RunTypeOK
  <2>3. k \in DOMAIN queue
    BY <1>2, <1>6, <2>1, FirstEligible DEF Take
  <2>4. queue' \in Seq(Entry) /\ queue[k] \in Entry
    <3>1. queue \in Seq(Entry)
      BY <1>2 DEF RunTypeOK
    <3>2. queue[k] \in Entry
      BY <2>3, <3>1
    <3>3. RemoveAt(queue, k) \in Seq(Entry)
      BY <2>3, <3>1, AtRemove
    <3> QED
      BY <2>2, <3>2, <3>3
  <2>5. ASSUME NEW x \in Tasks
        PROVE  scheduled'[x] + Cardinality(At(queue, x)) + One(Held(r, x)) + begun[x] + refused[x]
               = scheduled[x] + Cardinality(At(queue', x)) + One(Held(r, x)') + begun'[x] + refused'[x]
    <3>1. One(Held(r, x)) = 0 /\ One(Held(r, x)') = One(queue[k].task = x) /\ One(queue[k].task = x) \in Nat
      BY <2>2 DEF Held, One
    <3>2. Cardinality(At(queue, x)) = Cardinality(At(queue', x)) + One(queue[k].task = x)
      BY <1>2, <2>2, <2>3, AtRemove DEF RunTypeOK, One
    <3>3. Cardinality(At(queue', x)) \in Nat /\ scheduled[x] \in Nat /\ begun[x] \in Nat /\ refused[x] \in Nat
      BY <1>2, <2>4, AtFinite DEF RunTypeOK
    <3> QED
      BY <2>2, <3>1, <3>2, <3>3
  <2>6. Tidy
    BY <1>3, <2>2, <2>4 DEF Entry, One, Resting
  <2> QED
    BY <1>1, <1>2, <2>2, <2>4, <2>5, <2>6, BooksKept DEF RunTypeOK
<1>7. CASE Idle(r)
  <2>1. pc[r] = "loop" /\ pc'[r] = "loop"
        /\ UNCHANGED <<queue, scheduled, hand, active, begun, refused>>
    BY <1>2, <1>7 DEF Idle, Goes, RunTypeOK, queueVars
  <2> QED
    BY <1>2, <1>3, <1>5, <2>1 DEF RunTypeOK, Held, One, Resting
\* A callback begins; the entry is no longer in the runner's hand.
<1>8. CASE RunCallback(r)
  <2>1. /\ pc[r] = "taken" /\ pc'[r] = "inside" /\ hand[r].task \in Tasks
        /\ begun' = [begun EXCEPT ![hand[r].task] = begun[hand[r].task] + 1]
        /\ UNCHANGED <<queue, scheduled, hand, active, refused>>
    BY <1>2, <1>8 DEF RunCallback, Goes, RunTypeOK, queueVars, Tasks
  <2>2. Tidy
    BY <1>3, <2>1 DEF One, Resting
  <2>3. \A x \in Tasks : /\ One(Held(r, x)) = One(hand[r].task = x) /\ One(Held(r, x)') = 0
                         /\ begun'[x] = begun[x] + One(hand[r].task = x)
    BY <1>2, <2>1 DEF Held, One, RunTypeOK
  <2> QED
    BY <1>2, <1>5, <2>1, <2>2, <2>3 DEF RunTypeOK, One
\* An ended fiber is turned away.
<1>9. CASE Refuse(r)
  <2>1. /\ pc[r] = "taken" /\ pc'[r] = "loop" /\ hand[r].task \in Tasks /\ active' = active - 1
        /\ refused' = [refused EXCEPT ![hand[r].task] = refused[hand[r].task] + 1]
        /\ UNCHANGED <<queue, scheduled, begun>>
    BY <1>2, <1>9 DEF Refuse, Rests, Goes, RunTypeOK, queueVars, Tasks
  <2>2. Tidy
    BY <1>3, <2>1 DEF One, Resting
  <2>3. \A x \in Tasks : /\ One(Held(r, x)) = One(hand[r].task = x) /\ One(Held(r, x)') = 0
                         /\ refused'[x] = refused[x] + One(hand[r].task = x)
    BY <1>2, <2>1 DEF Held, One, RunTypeOK
  <2>4. refused' \in [Tasks -> Nat]
    BY <1>2, <2>1 DEF RunTypeOK
  <2>5. ASSUME NEW x \in Tasks
        PROVE  One(Held(r, x)) + begun[x] + refused[x] = One(Held(r, x)') + begun'[x] + refused'[x]
    <3>1. begun[x] \in Nat /\ refused[x] \in Nat /\ One(hand[r].task = x) \in Nat
      BY <1>2 DEF RunTypeOK, One
    <3> QED
      BY <2>1, <2>3, <3>1
  <2> QED
    BY <1>2, <1>5, <2>1, <2>2, <2>4, <2>5 DEF RunTypeOK
<1>10. CASE Accept(r) \/ SwapIn(r)
  <2>1. /\ pc[r] \in {"taken", "swapin"} /\ pc'[r] \in {"swapin", "enter"} /\ hand[r].task \in Fibers
        /\ UNCHANGED <<queue, scheduled, hand, active, begun, refused>>
    BY <1>2, <1>10 DEF Accept, SwapIn, Goes, RunTypeOK, queueVars, HandsHold
  <2>2. Tidy
    BY <1>3, <2>1 DEF One, Resting, Tasks
  <2> QED
    BY <1>2, <1>5, <2>1, <2>2 DEF RunTypeOK, Held, One
\* So is a fiber that another runner entered meanwhile ...
<1>11. CASE SwapInBusy(r)
  <2>1. /\ pc[r] = "swapin" /\ pc'[r] = "back" /\ hand[r].task \in Tasks
        /\ refused' = [refused EXCEPT ![hand[r].task] = refused[hand[r].task] + 1]
        /\ UNCHANGED <<queue, scheduled, hand, active, begun>>
    BY <1>2, <1>11 DEF SwapInBusy, Goes, RunTypeOK, queueVars, HandsHold
  <2>2. Tidy
    BY <1>3, <2>1 DEF One, Resting
  <2>3. \A x \in Tasks : /\ One(Held(r, x)) = One(hand[r].task = x) /\ One(Held(r, x)') = 0
                         /\ refused'[x] = refused[x] + One(hand[r].task = x)
    BY <1>2, <2>1 DEF Held, One, RunTypeOK
  <2>4. refused' \in [Tasks -> Nat]
    BY <1>2, <2>1 DEF RunTypeOK
  <2>5. ASSUME NEW x \in Tasks
        PROVE  One(Held(r, x)) + begun[x] + refused[x] = One(Held(r, x)') + begun'[x] + refused'[x]
    <3>1. begun[x] \in Nat /\ refused[x] \in Nat /\ One(hand[r].task = x) \in Nat
      BY <1>2 DEF RunTypeOK, One
    <3> QED
      BY <2>1, <2>3, <3>1
  <2> QED
    BY <1>2, <1>5, <2>1, <2>2, <2>4, <2>5 DEF RunTypeOK
\* ... or it begins.
<1>12. CASE Enter(r)
  <2>1. /\ pc[r] = "enter" /\ pc'[r] = "inside" /\ hand[r].task \in Tasks
        /\ begun' = [begun EXCEPT ![hand[r].task] = begun[hand[r].task] + 1]
        /\ UNCHANGED <<queue, scheduled, hand, active, refused>>
    BY <1>2, <1>12 DEF Enter, Goes, RunTypeOK, queueVars, HandsHold
  <2>2. Tidy
    BY <1>3, <2>1 DEF One, Resting
  <2>3. \A x \in Tasks : /\ One(Held(r, x)) = One(hand[r].task = x) /\ One(Held(r, x)') = 0
                         /\ begun'[x] = begun[x] + One(hand[r].task = x)
    BY <1>2, <2>1 DEF Held, One, RunTypeOK
  <2> QED
    BY <1>2, <1>5, <2>1, <2>2, <2>3 DEF RunTypeOK, One
\* Inside the task and on the way out nothing is counted.
<1>13. CASE Yield(r) \/ SwapOut(r) \/ Leave(r) \/ Finish(r)
  <2>1. /\ pc[r] \in {"inside", "swapout", "leave"} /\ pc'[r] \in {"inside", "swapout", "leave", "back"}
        /\ hand[r].task \in Tasks
        /\ UNCHANGED <<queue, scheduled, hand, active, begun, refused>>
    BY <1>2, <1>13 DEF Yield, SwapOut, Leave, Finish, Goes, RunTypeOK, queueVars, HandsHold
  <2>2. Tidy
    BY <1>3, <2>1 DEF One, Resting
  <2> QED
    BY <1>2, <1>5, <2>1, <2>2 DEF RunTypeOK, Held, One
\* Back from the task, which counted as active.
<1>14. CASE Back(r)
  <2>1. /\ pc[r] = "back" /\ active' = active - 1
        /\ \/ pc'[r] = "settle" /\ hand' = hand /\ hand[r].task \in Fibers
           \/ pc'[r] = "loop"
        /\ UNCHANGED <<queue, scheduled, begun, refused>>
    BY <1>2, <1>14 DEF Back, Rests, Goes, RunTypeOK, queueVars
  <2>2. Tidy
    BY <1>3, <2>1 DEF One, Resting, Tasks
  <2> QED
    BY <1>2, <1>5, <2>1, <2>2 DEF RunTypeOK, Held, One
\* A fiber found READY is queued once more.
<1>15. CASE SettleReady(r)
  <2>1. PICK e \in Entry : e = [task |-> hand[r].task, pin |-> AnyThread]
    BY <1>2, <1>15 DEF SettleReady, Rests, Goes, HandsHold, Entry, Tasks
  <2>2. /\ pc[r] = "settle" /\ pc'[r] = "loop" /\ Enqueue(<<e>>)
        /\ UNCHANGED <<active, begun, refused>>
    BY <1>2, <1>15, <2>1 DEF SettleReady, Rests, Goes, RunTypeOK
  <2>3. queue' \in Seq(Entry) /\ scheduled' \in [Tasks -> Nat]
    BY <1>2, <2>2, ScheduleCounts DEF RunTypeOK
  <2>4. ASSUME NEW x \in Tasks
        PROVE  scheduled'[x] + Cardinality(At(queue, x)) + One(Held(r, x)) + begun[x] + refused[x]
               = scheduled[x] + Cardinality(At(queue', x)) + One(Held(r, x)') + begun'[x] + refused'[x]
    <3>1. One(Held(r, x)) = 0 /\ One(Held(r, x)') = 0 /\ One(e.task = x) \in Nat
      BY <2>2 DEF Held, One
    <3>2. /\ Cardinality(At(queue', x)) = Cardinality(At(queue, x)) + One(e.task = x)
          /\ scheduled'[x] = scheduled[x] + One(e.task = x)
      BY <1>2, <2>2, ScheduleCounts DEF RunTypeOK
    <3>3. Cardinality(At(queue, x)) \in Nat /\ scheduled[x] \in Nat /\ begun[x] \in Nat /\ refused[x] \in Nat
      BY <1>2, AtFinite DEF RunTypeOK
    <3> QED
      BY <2>2, <3>1, <3>2, <3>3
  <2>5. Tidy
    BY <1>3, <2>2 DEF One, Resting
  <2> QED
    BY <1>1, <1>2, <2>2, <2>3, <2>4, <2>5, BooksKept DEF RunTypeOK
<1>16. CASE Settle(r) \/ SettleHold(r)
  <2>1. /\ pc[r] \in {"settle", "hold"} /\ (pc'[r] = "loop" \/ (pc'[r] = "hold" /\ hand' = hand))
        /\ hand[r].task \in Fibers
        /\ UNCHANGED <<queue, scheduled, active, begun, refused>>
    <3>1. pc \in [Runners -> Places] /\ (pc[r] \in {"settle", "hold"} => hand[r].task \in Fibers)
      BY <1>2 DEF RunTypeOK, HandsHold
    <3>2. CASE Settle(r)
      <4>1. pc[r] = "settle" /\ UNCHANGED <<queue, scheduled, active, begun, refused>>
        BY <3>2 DEF Settle, Rests, Goes, queueVars
      <4>2. pc'[r] = "loop" \/ (pc'[r] = "hold" /\ hand' = hand)
        BY <3>1, <3>2 DEF Settle, Rests, Goes
      <4> QED
        BY <3>1, <4>1, <4>2
    <3>3. CASE SettleHold(r)
      <4>1. pc[r] = "hold" /\ UNCHANGED <<queue, scheduled, active, begun, refused>>
        BY <3>3 DEF SettleHold, Rests, Goes, queueVars
      <4>2. pc'[r] = "loop"
        BY <3>1, <3>3 DEF SettleHold, Rests, Goes
      <4> QED
        BY <3>1, <4>1, <4>2
    <3> QED
      BY <1>16, <3>2, <3>3
  <2>2. Tidy
    BY <1>3, <2>1 DEF One, Resting, Tasks
  <2> QED
    BY <1>2, <1>5, <2>1, <2>2 DEF RunTypeOK, Held, One
<1> QED
  BY <1>6, <1>7, <1>8, <1>9, <1>10, <1>11, <1>12, <1>13, <1>14, <1>15, <1>16 DEF RunStep

\* schedule() from outside queues one entry, or two of different tasks.
LEMMA ScheduleKeeps ==
    ASSUME IInv, Schedule \/ ScheduleRange
    PROVE  IInv'
<1>1. RunTypeOK /\ EntriesAccounted
  BY DEF IInv
<1>2. UNCHANGED <<setup, main, pc, hand, active, begun, refused>>
  BY DEF Schedule, ScheduleRange, mainVars, runVars
<1>3. Runners' = Runners
  BY <1>2 DEF Runners, setup
<1>4. HandsHold' /\ CallerWaits' /\ ActiveMatches' /\ \A x \in Tasks : Holding(x)' = Holding(x)
  BY <1>2, <1>3 DEF IInv, HandsHold, CallerWaits, ActiveMatches, Holding, setup
<1>5. ASSUME queue' \in Seq(Entry), scheduled' \in [Tasks -> Nat],
             \A x \in Tasks : scheduled'[x] + Cardinality(At(queue, x))
                              = scheduled[x] + Cardinality(At(queue', x))
      PROVE  IInv'
  <2>1. RunTypeOK'
    BY <1>1, <1>2, <1>3, <1>5 DEF RunTypeOK, setup
  <2>2. EntriesAccounted'
    <3> SUFFICES ASSUME NEW x \in Tasks
                 PROVE  scheduled'[x] = Cardinality(Queued(x)') + Cardinality(Holding(x)') + begun'[x] + refused'[x]
      BY DEF EntriesAccounted
    <3>1. scheduled[x] = Cardinality(At(queue, x)) + Cardinality(Holding(x)) + begun[x] + refused[x]
      BY <1>1 DEF EntriesAccounted, Queued, At
    <3>2. Holding(x) \in SUBSET Runners /\ IsFiniteSet(Runners)
      BY <1>1, RunnersFinite DEF Holding
    <3>3. Cardinality(Holding(x)) \in Nat
      BY <3>2, FS_Subset, FS_CardinalityType
    <3>4. /\ Cardinality(At(queue, x)) \in Nat /\ Cardinality(At(queue', x)) \in Nat
          /\ begun[x] \in Nat /\ refused[x] \in Nat /\ scheduled[x] \in Nat /\ scheduled'[x] \in Nat
      BY <1>1, <1>5, AtFinite DEF RunTypeOK
    <3>5. scheduled'[x] + Cardinality(At(queue, x)) = scheduled[x] + Cardinality(At(queue', x))
      BY <1>5
    <3>6. scheduled'[x] = Cardinality(At(queue', x)) + Cardinality(Holding(x)) + begun[x] + refused[x]
      BY <3>1, <3>3, <3>4, <3>5
    <3> QED
      BY <1>2, <1>4, <3>6 DEF Queued, At
  <2> QED
    BY <1>4, <2>1, <2>2 DEF IInv
<1>6. CASE Schedule
  <2>1. PICK e \in Entry : Enqueue(<<e>>)
    BY <1>1, <1>6 DEF Schedule, Entry, Pins, Runners, RunTypeOK
  <2>4. queue \in Seq(Entry) /\ scheduled \in [Tasks -> Nat]
    BY <1>1 DEF RunTypeOK
  <2>2. queue' \in Seq(Entry) /\ scheduled' \in [Tasks -> Nat]
    BY <1>1, <2>1, ScheduleCounts DEF RunTypeOK
  <2>3. ASSUME NEW x \in Tasks
        PROVE  scheduled'[x] + Cardinality(At(queue, x)) = scheduled[x] + Cardinality(At(queue', x))
    <3>1. /\ Cardinality(At(queue', x)) = Cardinality(At(queue, x)) + One(e.task = x)
          /\ scheduled'[x] = scheduled[x] + One(e.task = x)
      BY <2>4, <2>1, ScheduleCounts
    <3>2. Cardinality(At(queue, x)) \in Nat /\ scheduled[x] \in Nat /\ One(e.task = x) \in Nat
      BY <1>1, AtFinite DEF RunTypeOK, One
    <3> QED
      BY <3>1, <3>2
  <2> QED
    BY <1>5, <2>2, <2>3
<1>7. CASE ScheduleRange
  <2>1. PICK d \in Entry, e \in Entry : d.task # e.task /\ Enqueue(<<d, e>>)
    BY <1>7 DEF ScheduleRange, Entry
  <2>2. queue \in Seq(Entry) /\ Append(queue, d) \in Seq(Entry)
    BY <1>1 DEF RunTypeOK
  <2>3. queue' = Append(Append(queue, d), e)
    BY <2>1, <2>2 DEF Enqueue
  <2>4. queue' \in Seq(Entry)
    BY <2>2, <2>3
  <2>5. \A y \in Tasks : Cardinality({i \in DOMAIN <<d, e>> : <<d, e>>[i].task = y})
                         = One(d.task = y) + One(e.task = y)
    <3> SUFFICES ASSUME NEW y \in Tasks
                 PROVE  Cardinality({i \in DOMAIN <<d, e>> : <<d, e>>[i].task = y})
                        = One(d.task = y) + One(e.task = y)
      OBVIOUS
    <3>1. DOMAIN <<d, e>> = {1, 2} /\ <<d, e>>[1] = d /\ <<d, e>>[2] = e
      OBVIOUS
    <3>2. {i \in DOMAIN <<d, e>> : <<d, e>>[i].task = y}
          = IF d.task = y THEN {1} ELSE IF e.task = y THEN {2} ELSE {}
      BY <2>1, <3>1
    <3>3. Cardinality({1}) = 1 /\ Cardinality({2}) = 1 /\ Cardinality({}) = 0
      BY FS_Singleton, FS_EmptySet
    <3>4. CASE d.task = y
      BY <2>1, <3>2, <3>3, <3>4 DEF One
    <3>5. CASE d.task # y /\ e.task = y
      BY <3>2, <3>3, <3>5 DEF One
    <3>6. CASE d.task # y /\ e.task # y
      BY <3>2, <3>3, <3>6 DEF One
    <3> QED
      BY <3>4, <3>5, <3>6
  <2>6. scheduled' = [y \in Tasks |-> scheduled[y] + (One(d.task = y) + One(e.task = y))]
    BY <2>1, <2>5 DEF Enqueue
  <2>7. scheduled' \in [Tasks -> Nat]
    BY <1>1, <2>6 DEF One, RunTypeOK
  <2>8. ASSUME NEW x \in Tasks
        PROVE  scheduled'[x] + Cardinality(At(queue, x)) = scheduled[x] + Cardinality(At(queue', x))
    <3>1. Cardinality(At(Append(queue, d), x)) = Cardinality(At(queue, x)) + One(d.task = x)
      BY <2>2, AtAppend DEF One
    <3>2. Cardinality(At(queue', x)) = Cardinality(At(Append(queue, d), x)) + One(e.task = x)
      BY <2>2, <2>3, AtAppend DEF One
    <3>3. /\ Cardinality(At(queue, x)) \in Nat /\ scheduled[x] \in Nat
          /\ One(d.task = x) \in Nat /\ One(e.task = x) \in Nat
      BY <1>1, AtFinite DEF RunTypeOK, One
    <3> QED
      BY <2>6, <3>1, <3>2, <3>3
  <2> QED
    BY <1>5, <2>4, <2>7, <2>8
<1> QED
  BY <1>6, <1>7

\* start(), stop() and the threads' beginnings move no entry; stop() lets the
\* caller into the loop, where it does not count as active.
LEMMA MainKeeps ==
    ASSUME IInv, MainStep \/ \E t \in Threads : PoolStep(t)
    PROVE  IInv'
<1>1. UNCHANGED <<setup, hand, active, begun, refused, queue, scheduled>>
  BY DEF MainStep, StartBegin, StartThread, StartRecord, StartEnd, StopBegin, StopEarly, StopMark,
     StopCall, PoolStep, mainVars, runVars, queueVars
<1>2. Runners' = Runners
  BY <1>1 DEF Runners, setup
<1>3. RunTypeOK /\ HandsHold /\ CallerWaits /\ ActiveMatches /\ EntriesAccounted
  BY DEF IInv
<1>4. CASE pc' = pc /\ main # "called" 
  <2>1. RunTypeOK' /\ HandsHold'
    BY <1>1, <1>2, <1>3, <1>4 DEF RunTypeOK, HandsHold, setup
  <2>2. CallerWaits'
    BY <1>1, <1>3, <1>4 DEF CallerWaits, setup
  <2>3. ActiveMatches' /\ EntriesAccounted'
    BY <1>1, <1>2, <1>3, <1>4 DEF ActiveMatches, EntriesAccounted, Queued, Holding
  <2> QED
    BY <2>1, <2>2, <2>3 DEF IInv
<1>5. CASE pc' = pc /\ main' = main
  <2>1. RunTypeOK' /\ HandsHold'
    BY <1>1, <1>2, <1>3, <1>5 DEF RunTypeOK, HandsHold, setup
  <2>2. CallerWaits'
    BY <1>1, <1>3, <1>5 DEF CallerWaits, setup
  <2>3. ActiveMatches' /\ EntriesAccounted'
    BY <1>1, <1>2, <1>3, <1>5 DEF ActiveMatches, EntriesAccounted, Queued, Holding
  <2> QED
    BY <2>1, <2>2, <2>3 DEF IInv
<1>6. CASE StopCall /\ pc' # pc
  <2>1. pc' = [pc EXCEPT ![Caller] = "loop"] /\ main = "test" /\ main' = "called"
    <3>1. pc' = [pc EXCEPT ![Caller] = IF Stoppable THEN @ ELSE "loop"] /\ main = "test"
          /\ main' = IF Stoppable THEN "joining" ELSE "called"
      BY <1>6 DEF StopCall, MainAt
    <3>2. CASE Stoppable
      BY <1>3, <1>6, <3>1, <3>2 DEF RunTypeOK
    <3> QED
      BY <3>1, <3>2
  <2>2. Caller \in Runners
    BY <1>3, <1>6, <2>1 DEF RunTypeOK
  <2>3. useCaller
    BY <1>3, <2>2, SchedulerAssumption DEF Runners, RunTypeOK
  <2>4. pc[Caller] = "out"
    BY <1>3, <2>1, <2>3 DEF CallerWaits
  <2>5. pc'[Caller] = "loop" /\ \A s \in Runners : s # Caller => pc'[s] = pc[s]
    BY <1>3, <2>1, <2>2 DEF RunTypeOK
  <2>6. RunTypeOK' /\ HandsHold'
    BY <1>1, <1>2, <1>3, <2>1, <2>5 DEF RunTypeOK, HandsHold, Places, setup
  <2>7. CallerWaits'
    BY <2>1 DEF CallerWaits
  <2>8. ActiveMatches'
    <3>1. {r \in Runners : pc'[r] \notin Resting} = {r \in Runners : pc[r] \notin Resting}
      BY <2>4, <2>5 DEF Resting
    <3> QED
      BY <1>1, <1>2, <1>3, <3>1 DEF ActiveMatches, Resting
  <2>9. EntriesAccounted'
    <3>1. \A x : Holding(x)' = Holding(x)
      BY <1>1, <1>2, <2>4, <2>5 DEF Holding
    <3> QED
      BY <1>1, <1>3, <3>1 DEF EntriesAccounted, Queued
  <2> QED
    BY <2>6, <2>7, <2>8, <2>9 DEF IInv
<1>7. (pc' = pc /\ main # "called") \/ (pc' = pc /\ main' = main) \/ (StopCall /\ pc' # pc)
  <2>1. CASE StartBegin \/ StartEnd \/ StopBegin \/ StopEarly \/ StopMark
    BY <2>1 DEF MainMoves, MainAt, StartBegin, StartEnd, StopBegin, StopEarly, StopMark, runVars
  <2>2. CASE StartThread \/ StartRecord
    BY <2>2 DEF StartThread, StartRecord, mainVars, runVars
  <2>3. CASE StopCall
    BY <2>3 DEF StopCall, MainAt
  <2>4. CASE \E t \in Threads : PoolStep(t)
    BY <2>4 DEF PoolStep, mainVars, runVars
  <2> QED
    BY <2>1, <2>2, <2>3, <2>4 DEF MainStep
<1> QED
  BY <1>4, <1>5, <1>6, <1>7

THEOREM InitIInv == Init => IInv
<1> SUFFICES ASSUME Init PROVE IInv
  OBVIOUS
<1>1. RunTypeOK
  <2>1. pool \in SUBSET Threads /\ IsFiniteSet(pool) /\ useCaller \in BOOLEAN
    BY SchedulerAssumption DEF Init
  <2> QED
    BY <2>1 DEF Init, RunTypeOK, Places
<1>2. HandsHold /\ CallerWaits
  BY DEF Init, HandsHold, CallerWaits, Runners
<1>3. ActiveMatches
  <2>1. {r \in Runners : pc[r] \notin {"out", "loop", "settle", "hold"}} = {}
    BY DEF Init
  <2> QED
    BY <2>1, FS_EmptySet DEF Init, ActiveMatches
<1>4. EntriesAccounted
  <2> SUFFICES ASSUME NEW x \in Tasks
               PROVE  scheduled[x] = Cardinality(Queued(x)) + Cardinality(Holding(x)) + begun[x] + refused[x]
    BY DEF EntriesAccounted
  <2>1. Queued(x) = {} /\ Holding(x) = {}
    BY DEF Init, Queued, Holding
  <2>2. Cardinality(Queued(x)) = 0 /\ Cardinality(Holding(x)) = 0
    BY <2>1, FS_EmptySet
  <2>3. scheduled[x] = 0 /\ begun[x] = 0 /\ refused[x] = 0
    BY DEF Init
  <2> QED
    BY <2>2, <2>3
<1> QED
  BY <1>1, <1>2, <1>3, <1>4 DEF IInv

THEOREM NextIInv == IInv /\ [Next]_vars => IInv'
<1> SUFFICES ASSUME IInv, [Next]_vars PROVE IInv'
  OBVIOUS
<1>1. CASE Next
  BY <1>1, MainKeeps, ScheduleKeeps, RunKeeps DEF Next
<1>2. CASE UNCHANGED vars
  <2>1. UNCHANGED <<setup, main, pc, hand, active, begun, refused, queue, scheduled>>
    BY <1>2 DEF vars, mainVars, runVars, queueVars
  <2>2. Runners' = Runners
    BY <2>1 DEF Runners, setup
  <2> QED
    BY <2>1, <2>2 DEF IInv, RunTypeOK, HandsHold, CallerWaits, ActiveMatches, EntriesAccounted, Queued,
       Holding, setup
<1> QED
  BY <1>1, <1>2

(* For any number of threads: m_active_thread_count, which stopping()       *)
(* relies on, is the number of threads between taking an entry and coming   *)
(* back from it, whichever way they come back.                              *)
THEOREM ActiveIsCounted == Spec => []ActiveMatches
BY InitIInv, NextIInv, PTL DEF Spec, IInv

(* For any threads and tasks: no entry is lost and none is run twice,       *)
(* whichever threads scan the queue, whatever is pinned, yields or is       *)
(* turned away.                                                             *)
THEOREM EveryEntryAccounted == Spec => []EntriesAccounted
BY InitIInv, NextIInv, PTL DEF Spec, IInv
=============================================================================
