---------------------------- MODULE CyclesProofs ----------------------------
(***************************************************************************)
(* Proofs about Cycles, for every value of its constants: every length of   *)
(* list and of spectrum, every energy, PLV, threshold and limit.            *)
(*                                                                         *)
(* Every property of Cycles is about one stage, and the step into the stage *)
(* establishes it from Inv, which says what the stages before have left.    *)
(* The work is in the loops.  Each is a recursive function: a lemma ...Runs *)
(* says that it has a value at every index and what the next is, another    *)
(* that one turn of the loop preserves what holds so far (KeptSoFar,        *)
(* ChosenSoFar, ShownSoFar), and Climbs carries that up to the last turn.   *)
(***************************************************************************)
EXTENDS Cycles, SequenceTheorems, FiniteSetTheorems, WellFoundedInduction, TLAPS

-----------------------------------------------------------------------------
(* Induction, and finite sets of integers *)

Less == {p \in Nat \X Nat : p[1] < p[2]}

LEMMA LessIsWellFounded == IsWellFoundedOn(Less, Nat)
<1>1. OpToRel(<, Nat) = Less
  BY DEF OpToRel, Less
<1> QED
  BY <1>1, NatLessThanWellFounded

\* A set that holds 0, and with every number the next, holds all up to n.
LEMMA Climbs ==
    ASSUME NEW n \in Nat, NEW S, 0 \in S, \A i \in 1 .. n : i - 1 \in S => i \in S
    PROVE  \A i \in 0 .. n : i \in S
<1> SUFFICES ASSUME NEW x \in 0 .. n, x \notin S PROVE FALSE
  OBVIOUS
<1> DEFINE T == {i \in 0 .. n : i \notin S}
<1>1. T \subseteq Nat /\ T # {}
  OBVIOUS
<1>2. PICK m \in T : \A y \in T : <<y, m>> \notin Less
  <2> HIDE DEF T
  <2> QED
    BY <1>1, LessIsWellFounded, WFMin
<1>3. m \in 1 .. n /\ m - 1 \in 0 .. n /\ m - 1 < m
  BY <1>2
<1>4. m - 1 \notin T
  <2>1. <<m - 1, m>> \in Less
    BY <1>3 DEF Less
  <2> QED
    BY <1>2, <2>1
<1> QED
  BY <1>2, <1>3, <1>4

LEMMA ImageIsFinite ==
    ASSUME NEW S, IsFiniteSet(S), NEW f, f = [x \in S |-> f[x]]
    PROVE  IsFiniteSet({f[x] : x \in S}) /\ Cardinality({f[x] : x \in S}) <= Cardinality(S)
<1> DEFINE T == {f[x] : x \in S}
<1>1. f \in Surjection(S, T)
  BY DEF Surjection
<1> HIDE DEF T
<1>2. IsFiniteSet(T) /\ Cardinality(T) <= Cardinality(S)
  BY <1>1, FS_Surjection
<1> QED
  BY <1>2 DEF T

LEMMA GreatestOf ==
    ASSUME NEW S \in SUBSET Int, IsFiniteSet(S), S # {}
    PROVE  \E m \in S : \A x \in S : x <= m
<1> DEFINE n == Cardinality(S)
           D == {k \in 0 .. n : \A T \in SUBSET S : Cardinality(T) = k /\ T # {} => \E m \in T : \A x \in T : x <= m}
<1>1. n \in Nat /\ \A T \in SUBSET S : IsFiniteSet(T) /\ Cardinality(T) \in Nat /\ Cardinality(T) <= n
  BY FS_CardinalityType, FS_Subset
<1>2. 0 \in D
  BY <1>1, FS_EmptySet
<1>3. ASSUME NEW k \in 1 .. n, k - 1 \in D PROVE k \in D
  <2> SUFFICES ASSUME NEW T \in SUBSET S, Cardinality(T) = k, T # {} PROVE \E m \in T : \A x \in T : x <= m
    BY <1>1
  <2>1. PICK t \in T : TRUE
    OBVIOUS
  <2>2. T \ {t} \in SUBSET S /\ Cardinality(T \ {t}) = k - 1
    BY <1>1, <2>1, FS_RemoveElement
  <2>3. CASE T \ {t} = {}
    BY <2>1, <2>3
  <2>4. CASE T \ {t} # {}
    <3>1. PICK m \in T \ {t} : \A x \in T \ {t} : x <= m
      BY <1>3, <2>2, <2>4
    <3>2. t \in Int /\ m \in Int /\ \A x \in T : x \in Int
      BY <2>1
    <3>3. CASE t <= m
      BY <3>1, <3>3
    <3>4. CASE m < t
      BY <2>1, <3>1, <3>2, <3>4
    <3> QED
      BY <3>2, <3>3, <3>4
  <2> QED
    BY <2>3, <2>4
<1>4. n \in D
  <2> HIDE DEF D, n
  <2> QED
    BY <1>1, <1>2, <1>3, Climbs
<1> QED
  BY <1>4

\* A finite set of integers has its ascending sequence.
LEMMA AscendingIs ==
    ASSUME NEW S \in SUBSET Int, IsFiniteSet(S)
    PROVE  /\ Ascending(S) \in [1 .. Cardinality(S) -> S]
           /\ {Ascending(S)[i] : i \in DOMAIN Ascending(S)} = S
           /\ \A i, j \in DOMAIN Ascending(S) : i < j => Ascending(S)[i] < Ascending(S)[j]
<1> DEFINE n == Cardinality(S)
           Lists(T, k) == \E s \in [1 .. k -> T] : /\ {s[i] : i \in DOMAIN s} = T
                                                   /\ \A i, j \in DOMAIN s : i < j => s[i] < s[j]
           D == {k \in 0 .. n : \A T \in SUBSET S : Cardinality(T) = k => Lists(T, k)}
<1>1. n \in Nat /\ \A T \in SUBSET S : IsFiniteSet(T) /\ Cardinality(T) \in Nat /\ Cardinality(T) <= n
  BY FS_CardinalityType, FS_Subset
<1>2. 0 \in D
  <2> SUFFICES ASSUME NEW T \in SUBSET S, Cardinality(T) = 0 PROVE Lists(T, 0)
    BY <1>1
  <2>1. T = {}
    BY <1>1, FS_EmptySet
  <2> DEFINE s == [i \in 1 .. 0 |-> 0]
  <2>2. s \in [1 .. 0 -> T] /\ DOMAIN s = {} /\ {s[i] : i \in DOMAIN s} = T
    BY <2>1
  <2> QED
    BY <2>2
<1>3. ASSUME NEW k \in 1 .. n, k - 1 \in D PROVE k \in D
  <2> SUFFICES ASSUME NEW T \in SUBSET S, Cardinality(T) = k PROVE Lists(T, k)
    BY <1>1
  <2>1. T # {} /\ IsFiniteSet(T) /\ T \in SUBSET Int
    BY <1>1, FS_EmptySet
  <2>2. PICK m \in T : \A x \in T : x <= m
    BY <2>1, GreatestOf
  <2>3. T \ {m} \in SUBSET S /\ Cardinality(T \ {m}) = k - 1
    BY <2>1, <2>2, FS_RemoveElement
  <2>4. PICK r \in [1 .. (k - 1) -> T \ {m}] :
           /\ {r[i] : i \in DOMAIN r} = T \ {m}
           /\ \A i, j \in DOMAIN r : i < j => r[i] < r[j]
    BY <1>3, <2>3
  <2> DEFINE s == [i \in 1 .. k |-> IF i = k THEN m ELSE r[i]]
  <2>5. s \in [1 .. k -> T] /\ DOMAIN s = 1 .. k /\ s[k] = m /\ \A i \in 1 .. (k - 1) : s[i] = r[i] /\ i \in DOMAIN r
    BY <2>2, <2>4
  <2> HIDE DEF s
  <2>6. \A i, j \in DOMAIN s : i < j => s[i] < s[j]
    <3> SUFFICES ASSUME NEW i \in 1 .. k, NEW j \in 1 .. k, i < j PROVE s[i] < s[j]
      BY <2>5
    <3>1. i \in 1 .. (k - 1) /\ s[i] = r[i] /\ r[i] \in T \ {m}
      BY <2>4, <2>5
    <3>2. CASE j = k
      <4>1. r[i] <= m /\ r[i] # m /\ r[i] \in Int /\ m \in Int
        BY <2>1, <2>2, <3>1
      <4> QED
        BY <2>5, <3>1, <3>2, <4>1
    <3>3. CASE j # k
      BY <2>4, <2>5, <3>1, <3>3
    <3> QED
      BY <3>2, <3>3
  <2>7. {s[i] : i \in DOMAIN s} = T
    <3>1. ASSUME NEW x \in T PROVE \E i \in DOMAIN s : x = s[i]
      <4>1. CASE x = m
        BY <2>5, <4>1
      <4>2. CASE x # m
        <5>1. PICK i \in DOMAIN r : x = r[i]
          BY <2>4, <4>2
        <5> QED
          BY <2>4, <2>5, <5>1
      <4> QED
        BY <4>1, <4>2
    <3>2. \A i \in DOMAIN s : s[i] \in T
      BY <2>5
    <3> QED
      BY <3>1, <3>2
  <2> QED
    BY <2>5, <2>6, <2>7
<1>4. n \in D
  <2> HIDE DEF D, n
  <2> QED
    BY <1>1, <1>2, <1>3, Climbs
<1>5. \E s \in [1 .. n -> S] : /\ {s[i] : i \in DOMAIN s} = S
                               /\ \A i, j \in DOMAIN s : i < j => s[i] < s[j]
  BY <1>4
<1> QED
  BY <1>5, Zenon DEF Ascending

LEMMA FirstBestIs ==
    ASSUME NEW s \in SUBSET Int, IsFiniteSet(s), s # {}, NEW value, \A c \in s : value[c] \in Int
    PROVE  /\ FirstBest(s, value) \in s
           /\ \A d \in s : \/ value[d] < value[FirstBest(s, value)]
                           \/ value[d] = value[FirstBest(s, value)] /\ FirstBest(s, value) <= d
<1> DEFINE V == {value[c] : c \in s}
<1>1. V \in SUBSET Int /\ V # {} /\ IsFiniteSet(V)
  <2> DEFINE f == [c \in s |-> value[c]]
  <2>1. IsFiniteSet({f[c] : c \in s})
    <3>1. f = [c \in s |-> f[c]]
      OBVIOUS
    <3> HIDE DEF f
    <3> QED
      BY <3>1, ImageIsFinite
  <2>2. {f[c] : c \in s} = V
    OBVIOUS
  <2> QED
    BY <2>1, <2>2
<1>2. PICK v \in V : \A x \in V : x <= v
  <2> HIDE DEF V
  <2> QED
    BY <1>1, GreatestOf
<1> DEFINE B == {c \in s : value[c] = v}
           N == {0 - c : c \in B}
<1>3. B # {} /\ IsFiniteSet(B) /\ B \in SUBSET Int
  BY <1>2, FS_Subset
<1>4. N \in SUBSET Int /\ N # {} /\ IsFiniteSet(N)
  <2> HIDE DEF B
  <2> DEFINE f == [c \in B |-> 0 - c]
  <2>1. IsFiniteSet({f[c] : c \in B})
    <3>1. f = [c \in B |-> f[c]]
      OBVIOUS
    <3> HIDE DEF f
    <3> QED
      BY <1>3, <3>1, ImageIsFinite
  <2>2. {f[c] : c \in B} = N
    OBVIOUS
  <2>3. N \in SUBSET Int /\ N # {}
    <3>1. \A c \in B : 0 - c \in Int
      BY <1>3
    <3> QED
      BY <1>3, <3>1
  <2> HIDE DEF f, N
  <2> QED
    BY <2>1, <2>2, <2>3
<1>5. PICK y \in N : \A x \in N : x <= y
  <2> HIDE DEF N
  <2> QED
    BY <1>4, GreatestOf
<1>6. PICK c \in B : y = 0 - c
  BY <1>5
<1>7. \A d \in B : c <= d
  <2> SUFFICES ASSUME NEW d \in B PROVE c <= d
    OBVIOUS
  <2>1. 0 - d <= 0 - c
    BY <1>5, <1>6
  <2> QED
    BY <1>3, <1>6, <2>1
<1>8. \A d \in s : value[d] < value[c] \/ (value[d] = value[c] /\ c <= d)
  <2> SUFFICES ASSUME NEW d \in s PROVE value[d] < value[c] \/ (value[d] = value[c] /\ c <= d)
    OBVIOUS
  <2>1. value[d] <= v /\ value[c] = v /\ value[d] \in Int /\ v \in Int
    BY <1>1, <1>2, <1>6
  <2>2. value[d] = v => c <= d
    BY <1>7
  <2> QED
    BY <2>1, <2>2
<1>9. c \in s
  BY <1>6
<1> HIDE DEF B
<1> QED
  BY <1>8, <1>9, Zenon DEF FirstBest

-----------------------------------------------------------------------------
(* The list of given periods, refilled while it is read *)

RunOfKeep(f, list, m) ==
    f = [i \in 0 .. m |-> IF i = 0 THEN [mem |-> list, len |-> 0] ELSE Keep(f[i - 1], i)]

LEMMA KeepRunIs ==
    ASSUME NEW list, NEW m \in Nat, NEW f, f = [i \in 0 .. m |-> f[i]], f[0] = [mem |-> list, len |-> 0],
           \A i \in 1 .. m : f[i] = Keep(f[i - 1], i)
    PROVE  RunOfKeep(f, list, m)
<1> DEFINE F(i) == IF i = 0 THEN [mem |-> list, len |-> 0] ELSE Keep(f[i - 1], i)
<1>1. \A i \in 0 .. m : f[i] = F(i)
  <2> SUFFICES ASSUME NEW i \in 0 .. m PROVE f[i] = F(i)
    OBVIOUS
  <2>1. i = 0 \/ i \in 1 .. m
    OBVIOUS
  <2> QED
    BY <2>1
<1> HIDE DEF F
<1>2. f = [i \in 0 .. m |-> F(i)]
  BY <1>1
<1> QED
  BY <1>2 DEF RunOfKeep, F

LEMMA KeepRuns ==
    ASSUME NEW list, NEW n \in Nat, Len(list) = n
    PROVE  \E f : /\ f[0] = [mem |-> list, len |-> 0]
                  /\ \A i \in 1 .. n : f[i] = Keep(f[i - 1], i)
                  /\ KeptInPlace(list) = SubSeq(f[n].mem, 1, f[n].len)
<1> DEFINE first == [mem |-> list, len |-> 0]
           D == {m \in 0 .. n : \E f : RunOfKeep(f, list, m)}
<1>1. 0 \in D
  <2> DEFINE f == [i \in 0 .. 0 |-> first]
  <2>1. f = [i \in 0 .. 0 |-> f[i]] /\ f[0] = first
    OBVIOUS
  <2> HIDE DEF f
  <2>2. 0 \in Nat /\ \A i \in 1 .. 0 : f[i] = Keep(f[i - 1], i)
    OBVIOUS
  <2>3. RunOfKeep(f, list, 0)
    BY <2>1, <2>2, KeepRunIs, Zenon
  <2> QED
    BY <2>3
<1>2. ASSUME NEW m \in 1 .. n, m - 1 \in D PROVE m \in D
  <2>1. PICK f : RunOfKeep(f, list, m - 1)
    BY <1>2
  <2> DEFINE g == [i \in 0 .. m |-> IF i = m THEN Keep(f[m - 1], m) ELSE f[i]]
  <2>2. \A i \in 0 .. (m - 1) : g[i] = f[i] /\ f[i] = (IF i = 0 THEN first ELSE Keep(f[i - 1], i))
    BY <2>1 DEF RunOfKeep
  <2>3. g = [i \in 0 .. m |-> g[i]] /\ g[m] = Keep(f[m - 1], m)
    OBVIOUS
  <2> HIDE DEF g
  <2>4. g[0] = first /\ \A i \in 1 .. m : g[i] = Keep(g[i - 1], i)
    <3>1. g[0] = first
      BY <2>2
    <3>2. ASSUME NEW i \in 1 .. m PROVE g[i] = Keep(g[i - 1], i)
      <4>1. i - 1 \in 0 .. (m - 1) /\ (i # m => i \in 0 .. (m - 1))
        OBVIOUS
      <4>2. CASE i = m
        BY <2>2, <2>3, <4>1, <4>2
      <4>3. CASE i # m
        BY <2>2, <4>1, <4>3
      <4> QED
        BY <4>2, <4>3
    <3> QED
      BY <3>1, <3>2
  <2>5. RunOfKeep(g, list, m)
    <3>1. m \in Nat
      OBVIOUS
    <3> QED
      BY <2>3, <2>4, <3>1, KeepRunIs, Zenon
  <2> QED
    BY <2>5
<1>3. n \in D
  <2> HIDE DEF D
  <2> QED
    BY <1>1, <1>2, Climbs
<1> DEFINE st == CHOOSE f : f = [i \in 0 .. n |-> IF i = 0 THEN first ELSE Keep(f[i - 1], i)]
<1>4. st = [i \in 0 .. n |-> IF i = 0 THEN first ELSE Keep(st[i - 1], i)]
  <2>1. \E f : f = [i \in 0 .. n |-> IF i = 0 THEN first ELSE Keep(f[i - 1], i)]
    BY <1>3, Zenon DEF RunOfKeep
  <2> QED
    BY <2>1, Zenon
<1>5. KeptInPlace(list) = SubSeq(st[n].mem, 1, st[n].len)
  BY Zenon DEF KeptInPlace
<1>6. st[0] = first /\ \A i \in 1 .. n : st[i] = Keep(st[i - 1], i)
  <2> HIDE DEF st, first
  <2> QED
    BY <1>4
<1> QED
  BY <1>5, <1>6

\* The l elements kept of the first i: all periods, in their order.
Gathers(at, list, mem, l, i) ==
    /\ at \in [1 .. l -> 1 .. i]
    /\ \A j \in 1 .. i : list[j] > 0 => \E k \in 1 .. l : at[k] = j
    /\ \A j, k \in 1 .. l : j < k => at[j] < at[k]
    /\ \A k \in 1 .. l : mem[k] = list[at[k]] /\ list[at[k]] > 0

\* After i elements: those kept are the first of the memory, the rest unread.
KeptSoFar(list, n, st, i) ==
    /\ st.mem \in [1 .. n -> Nat] /\ st.len \in 0 .. i
    /\ \A j \in (i + 1) .. n : st.mem[j] = list[j]
    /\ \E at : Gathers(at, list, st.mem, st.len, i)

LEMMA KeepsOne ==
    ASSUME NEW n \in Nat, NEW list \in [1 .. n -> Nat], NEW i \in 1 .. n, NEW st, KeptSoFar(list, n, st, i - 1)
    PROVE  KeptSoFar(list, n, Keep(st, i), i)
<1> DEFINE l == st.len
<1>1. /\ st.mem \in [1 .. n -> Nat] /\ l \in 0 .. (i - 1)
      /\ \A j \in i .. n : st.mem[j] = list[j]
      /\ i \in i .. n
  BY DEF KeptSoFar
<1>2. PICK at : Gathers(at, list, st.mem, l, i - 1)
  BY DEF KeptSoFar
<1>3. /\ at \in [1 .. l -> 1 .. (i - 1)]
      /\ \A j \in 1 .. (i - 1) : list[j] > 0 => \E k \in 1 .. l : at[k] = j
      /\ \A j, k \in 1 .. l : j < k => at[j] < at[k]
      /\ \A k \in 1 .. l : st.mem[k] = list[at[k]] /\ list[at[k]] > 0
  BY <1>2 DEF Gathers
<1> HIDE DEF l
<1>4. CASE st.mem[i] > 0
  <2> DEFINE mem == [st.mem EXCEPT ![l + 1] = st.mem[i]]
             to  == [k \in 1 .. (l + 1) |-> IF k = l + 1 THEN i ELSE at[k]]
  <2>1. Keep(st, i).mem = mem /\ Keep(st, i).len = l + 1
    BY <1>4 DEF Keep, l
  <2>2. /\ mem \in [1 .. n -> Nat] /\ mem[l + 1] = list[i] /\ l + 1 \in 0 .. i
        /\ \A k \in 1 .. n : k # l + 1 => mem[k] = st.mem[k]
    BY <1>1
  <2>3. \A k \in 1 .. l : at[k] \in 1 .. i /\ at[k] < i /\ at[k] \in Nat
    BY <1>3
  <2>4. /\ to \in [1 .. (l + 1) -> 1 .. i] /\ to[l + 1] = i
        /\ \A k \in 1 .. l : to[k] = at[k] /\ k \in 1 .. (l + 1) /\ k # l + 1 /\ k \in 1 .. n
        /\ \A k \in 1 .. (l + 1) : k \in 1 .. l \/ k = l + 1
    BY <1>1, <2>3
  <2> HIDE DEF mem, to
  <2>5. \A j \in 1 .. i : list[j] > 0 => \E k \in 1 .. (l + 1) : to[k] = j
    <3> SUFFICES ASSUME NEW j \in 1 .. i, list[j] > 0 PROVE \E k \in 1 .. (l + 1) : to[k] = j
      OBVIOUS
    <3>1. CASE j = i
      BY <1>1, <2>4, <3>1
    <3>2. CASE j # i
      <4>1. PICK k \in 1 .. l : at[k] = j
        BY <1>3, <3>2
      <4> QED
        BY <2>4, <4>1
    <3> QED
      BY <3>1, <3>2
  <2>6. \A j, k \in 1 .. (l + 1) : j < k => to[j] < to[k]
    <3> SUFFICES ASSUME NEW j \in 1 .. (l + 1), NEW k \in 1 .. (l + 1), j < k PROVE to[j] < to[k]
      OBVIOUS
    <3>1. j \in 1 .. l
      BY <1>1
    <3> QED
      BY <1>3, <2>3, <2>4, <3>1
  <2>7. \A k \in 1 .. (l + 1) : mem[k] = list[to[k]] /\ list[to[k]] > 0
    BY <1>1, <1>3, <1>4, <2>2, <2>4
  <2>8. \A j \in (i + 1) .. n : mem[j] = list[j]
    <3> SUFFICES ASSUME NEW j \in (i + 1) .. n PROVE mem[j] = list[j]
      OBVIOUS
    <3>1. j \in i .. n /\ j \in 1 .. n /\ j # l + 1
      BY <1>1
    <3> QED
      BY <1>1, <2>2, <3>1
  <2>9. Gathers(to, list, mem, l + 1, i)
    BY <2>4, <2>5, <2>6, <2>7 DEF Gathers
  <2> QED
    BY <2>1, <2>2, <2>8, <2>9 DEF KeptSoFar
<1>5. CASE ~ (st.mem[i] > 0)
  <2>1. Keep(st, i) = st
    BY <1>5 DEF Keep
  <2>2. at \in [1 .. l -> 1 .. i] /\ l \in 0 .. i /\ ~ (list[i] > 0)
    BY <1>1, <1>3, <1>5
  <2>3. \A j \in 1 .. i : list[j] > 0 => \E k \in 1 .. l : at[k] = j
    <3> SUFFICES ASSUME NEW j \in 1 .. i, list[j] > 0 PROVE \E k \in 1 .. l : at[k] = j
      OBVIOUS
    <3>1. j \in 1 .. (i - 1)
      BY <2>2
    <3> QED
      BY <1>3, <3>1
  <2>4. \A j \in (i + 1) .. n : st.mem[j] = list[j]
    BY <1>1
  <2>5. Gathers(at, list, st.mem, l, i)
    BY <1>3, <2>2, <2>3 DEF Gathers
  <2> QED
    BY <1>1, <2>1, <2>2, <2>4, <2>5 DEF KeptSoFar, l
<1> QED
  BY <1>4, <1>5

LEMMA KeptInPlaceIs ==
    ASSUME NEW n \in Nat, NEW list \in [1 .. n -> Nat]
    PROVE  LET kept == KeptInPlace(list)
           IN /\ kept \in Seq(Nat) /\ Len(kept) <= n
              /\ \E at \in [1 .. Len(kept) -> DOMAIN list] :
                    /\ {at[k] : k \in DOMAIN at} = {i \in DOMAIN list : list[i] > 0}
                    /\ \A j, k \in DOMAIN at : j < k => at[j] < at[k]
                    /\ \A k \in DOMAIN at : kept[k] = list[at[k]]
<1>1. Len(list) = n /\ list \in Seq(Nat) /\ DOMAIN list = 1 .. n
  OBVIOUS
<1>2. PICK f : /\ f[0] = [mem |-> list, len |-> 0]
               /\ \A i \in 1 .. n : f[i] = Keep(f[i - 1], i)
               /\ KeptInPlace(list) = SubSeq(f[n].mem, 1, f[n].len)
  BY <1>1, KeepRuns
<1>3. KeptSoFar(list, n, f[n], n)
  <2> DEFINE D == {i \in 0 .. n : KeptSoFar(list, n, f[i], i)}
  <2>1. 0 \in D
    <3> DEFINE at == [k \in 1 .. 0 |-> 0]
    <3>1. Gathers(at, list, list, 0, 0)
      BY DEF Gathers
    <3>2. KeptSoFar(list, n, f[0], 0)
      BY <1>2, <3>1 DEF KeptSoFar
    <3> QED
      BY <3>2
  <2>2. ASSUME NEW i \in 1 .. n, i - 1 \in D PROVE i \in D
    BY <1>2, <2>2, KeepsOne
  <2> HIDE DEF D
  <2>3. \A i \in 1 .. n : i - 1 \in D => i \in D
    BY <2>2
  <2>4. \A i \in 0 .. n : i \in D
    BY <2>1, <2>3, Climbs, Zenon
  <2> QED
    BY <2>4 DEF D
<1> DEFINE l    == f[n].len
           mem  == f[n].mem
           kept == KeptInPlace(list)
<1>4. mem \in [1 .. n -> Nat] /\ l \in 0 .. n /\ \E at : Gathers(at, list, mem, l, n)
  BY <1>3 DEF KeptSoFar
<1>5. kept = SubSeq(mem, 1, l)
  BY <1>2
<1> HIDE DEF l, mem, kept
<1>6. kept \in Seq(Nat) /\ Len(kept) = l /\ \A k \in 1 .. l : kept[k] = mem[k]
  <2>1. mem \in Seq(Nat) /\ Len(mem) = n
    BY <1>4
  <2> QED
    BY <1>4, <1>5, <2>1
<1>7. PICK at \in [1 .. l -> 1 .. n] :
          /\ \A j \in 1 .. n : list[j] > 0 => \E k \in 1 .. l : at[k] = j
          /\ \A j, k \in 1 .. l : j < k => at[j] < at[k]
          /\ \A k \in 1 .. l : mem[k] = list[at[k]] /\ list[at[k]] > 0
  BY <1>4 DEF Gathers
<1>8. {at[k] : k \in DOMAIN at} = {i \in DOMAIN list : list[i] > 0}
  <2>1. \A k \in 1 .. l : at[k] \in DOMAIN list /\ list[at[k]] > 0
    BY <1>1, <1>7
  <2>2. \A i \in DOMAIN list : list[i] > 0 => \E k \in DOMAIN at : i = at[k]
    BY <1>1, <1>7
  <2>3. DOMAIN at = 1 .. l
    OBVIOUS
  <2> QED
    BY <2>1, <2>2, <2>3
<1>9. /\ at \in [1 .. Len(kept) -> DOMAIN list] /\ DOMAIN at = 1 .. l
      /\ \A j, k \in DOMAIN at : j < k => at[j] < at[k]
      /\ \A k \in DOMAIN at : kept[k] = list[at[k]]
  BY <1>1, <1>6, <1>7
<1>10. Len(kept) <= n
  BY <1>4, <1>6
<1> QED
  BY <1>6, <1>8, <1>9, <1>10 DEF kept

-----------------------------------------------------------------------------
(* The bins chosen down the sorted list *)

RunOfChoose(f, order, m) ==
    f = [i \in 0 .. m |-> IF i = 0 THEN {} ELSE Choose(f[i - 1], order[i])]

LEMMA ChooseRunIs ==
    ASSUME NEW order, NEW m \in Nat, NEW f, f = [i \in 0 .. m |-> f[i]], f[0] = {},
           \A i \in 1 .. m : f[i] = Choose(f[i - 1], order[i])
    PROVE  RunOfChoose(f, order, m)
<1> DEFINE F(i) == IF i = 0 THEN {} ELSE Choose(f[i - 1], order[i])
<1>1. \A i \in 0 .. m : f[i] = F(i)
  <2> SUFFICES ASSUME NEW i \in 0 .. m PROVE f[i] = F(i)
    OBVIOUS
  <2>1. i = 0 \/ i \in 1 .. m
    OBVIOUS
  <2> QED
    BY <2>1
<1> HIDE DEF F
<1>2. f = [i \in 0 .. m |-> F(i)]
  BY <1>1
<1> QED
  BY <1>2 DEF RunOfChoose, F

LEMMA ChooseRuns ==
    ASSUME NEW order, NEW n \in Nat, Len(order) = n
    PROVE  \E f : /\ f[0] = {}
                  /\ \A i \in 1 .. n : f[i] = Choose(f[i - 1], order[i])
                  /\ ChooseBins(order) = f[n]
<1> DEFINE first == {}
           D == {m \in 0 .. n : \E f : RunOfChoose(f, order, m)}
<1>1. 0 \in D
  <2> DEFINE f == [i \in 0 .. 0 |-> {}]
  <2>1. f = [i \in 0 .. 0 |-> f[i]] /\ f[0] = {}
    OBVIOUS
  <2> HIDE DEF f
  <2>2. 0 \in Nat /\ \A i \in 1 .. 0 : f[i] = Choose(f[i - 1], order[i])
    OBVIOUS
  <2>3. RunOfChoose(f, order, 0)
    BY <2>1, <2>2, ChooseRunIs, Zenon
  <2> QED
    BY <2>3
<1>2. ASSUME NEW m \in 1 .. n, m - 1 \in D PROVE m \in D
  <2>1. PICK f : RunOfChoose(f, order, m - 1)
    BY <1>2
  <2> DEFINE g == [i \in 0 .. m |-> IF i = m THEN Choose(f[m - 1], order[m]) ELSE f[i]]
  <2>2. \A i \in 0 .. (m - 1) : g[i] = f[i] /\ f[i] = (IF i = 0 THEN first ELSE Choose(f[i - 1], order[i]))
    <3>1. f = [i \in 0 .. (m - 1) |-> IF i = 0 THEN first ELSE Choose(f[i - 1], order[i])]
      BY <2>1 DEF RunOfChoose
    <3> HIDE DEF first
    <3> QED
      BY <3>1
  <2>3. g = [i \in 0 .. m |-> g[i]] /\ g[m] = Choose(f[m - 1], order[m])
    OBVIOUS
  <2> HIDE DEF g
  <2>4. g[0] = {} /\ \A i \in 1 .. m : g[i] = Choose(g[i - 1], order[i])
    <3>1. g[0] = {}
      <4>1. 0 \in 0 .. (m - 1)
        OBVIOUS
      <4> QED
        BY <2>2, <4>1
    <3>2. ASSUME NEW i \in 1 .. m PROVE g[i] = Choose(g[i - 1], order[i])
      <4>1. i - 1 \in 0 .. (m - 1) /\ (i # m => i \in 0 .. (m - 1))
        OBVIOUS
      <4>2. CASE i = m
        BY <2>2, <2>3, <4>1, <4>2
      <4>3. CASE i # m
        BY <2>2, <4>1, <4>3
      <4> QED
        BY <4>2, <4>3
    <3> QED
      BY <3>1, <3>2
  <2>5. RunOfChoose(g, order, m)
    <3>1. m \in Nat
      OBVIOUS
    <3> QED
      BY <2>3, <2>4, <3>1, ChooseRunIs, Zenon
  <2> QED
    BY <2>5
<1>3. n \in D
  <2> HIDE DEF D
  <2> QED
    BY <1>1, <1>2, Climbs
<1> DEFINE st == CHOOSE f : f = [i \in 0 .. n |-> IF i = 0 THEN {} ELSE Choose(f[i - 1], order[i])]
<1>4. st = [i \in 0 .. n |-> IF i = 0 THEN first ELSE Choose(st[i - 1], order[i])]
  <2>1. \E f : f = [i \in 0 .. n |-> IF i = 0 THEN {} ELSE Choose(f[i - 1], order[i])]
    BY <1>3, Zenon DEF RunOfChoose
  <2> QED
    BY <2>1, Zenon
<1>5. ChooseBins(order) = st[n]
  BY Zenon DEF ChooseBins
<1>6. st[0] = first /\ \A i \in 1 .. n : st[i] = Choose(st[i - 1], order[i])
  <2> HIDE DEF st, first
  <2> QED
    BY <1>4
<1> QED
  BY <1>5, <1>6

\* A bin is passed over for a neighbour as strong, or for enough as strong.
PassedOver(b, e, chosen) ==
    \/ \E c \in chosen : Abs(c - b) = 1 /\ EnergyOf(e, c) >= EnergyOf(e, b)
    \/ Cardinality(chosen) = Target /\ \A c \in chosen : EnergyOf(e, c) >= EnergyOf(e, b)

ChosenSoFar(order, e, chosen, i) ==
    /\ IsFiniteSet(chosen) /\ Cardinality(chosen) <= Target
    /\ \A c \in chosen : \E l \in 1 .. i : c = order[l]
    /\ \A b \in chosen : b + 1 \notin chosen
    /\ \A j \in 1 .. i : order[j] \in chosen \/ PassedOver(order[j], e, chosen)

LEMMA ChoosesOne ==
    ASSUME Target \in Nat, NEW e \in [Bins -> Nat], NEW n \in Nat, NEW order \in [1 .. n -> Bins],
           \A i, j \in 1 .. n : i < j => EnergyOf(e, order[i]) >= EnergyOf(e, order[j]),
           NEW i \in 1 .. n, NEW chosen, ChosenSoFar(order, e, chosen, i - 1)
    PROVE  ChosenSoFar(order, e, Choose(chosen, order[i]), i)
<1> DEFINE b == order[i]
<1>1. /\ IsFiniteSet(chosen) /\ Cardinality(chosen) \in Nat /\ Cardinality(chosen) <= Target
      /\ \A c \in chosen : \E l \in 1 .. (i - 1) : c = order[l]
      /\ \A c \in chosen : c + 1 \notin chosen
      /\ \A j \in 1 .. (i - 1) : order[j] \in chosen \/ PassedOver(order[j], e, chosen)
  BY FS_CardinalityType DEF ChosenSoFar
<1>2. b \in Bins /\ b \in Int /\ i \in 1 .. i
  BY DEF Bins
<1>3. \A c \in chosen : c \in Bins /\ c \in Int /\ EnergyOf(e, c) >= EnergyOf(e, b) /\ \E l \in 1 .. i : c = order[l]
  <2> SUFFICES ASSUME NEW c \in chosen
               PROVE  c \in Bins /\ c \in Int /\ EnergyOf(e, c) >= EnergyOf(e, b) /\ \E l \in 1 .. i : c = order[l]
    OBVIOUS
  <2>1. PICK l \in 1 .. (i - 1) : c = order[l]
    BY <1>1
  <2>2. l \in 1 .. n /\ l < i /\ l \in 1 .. i
    OBVIOUS
  <2> QED
    BY <2>1, <2>2 DEF Bins
<1> HIDE DEF b
<1>4. CASE Cardinality(chosen) >= Target \/ \E c \in chosen : Abs(c - b) <= 1
  <2>1. Choose(chosen, b) = chosen
    BY <1>4 DEF Choose
  <2>2. b \in chosen \/ PassedOver(b, e, chosen)
    <3>1. CASE Cardinality(chosen) >= Target
      BY <1>1, <1>3, <3>1 DEF PassedOver
    <3>2. CASE \E c \in chosen : Abs(c - b) <= 1
      <4>1. PICK c \in chosen : Abs(c - b) <= 1
        BY <3>2
      <4>2. c = b \/ Abs(c - b) = 1
        BY <1>2, <1>3, <4>1 DEF Abs
      <4> QED
        BY <1>3, <4>2 DEF PassedOver
    <3> QED
      BY <1>4, <3>1, <3>2
  <2>3. \A j \in 1 .. i : order[j] \in chosen \/ PassedOver(order[j], e, chosen)
    <3> SUFFICES ASSUME NEW j \in 1 .. i PROVE order[j] \in chosen \/ PassedOver(order[j], e, chosen)
      OBVIOUS
    <3>1. CASE j = i
      BY <2>2, <3>1 DEF b
    <3>2. CASE j # i
      BY <1>1, <3>2
    <3> QED
      BY <3>1, <3>2
  <2>4. ChosenSoFar(order, e, chosen, i)
    BY <1>1, <1>3, <2>3 DEF ChosenSoFar
  <2> QED
    BY <2>1, <2>4 DEF b
<1>5. CASE ~ (Cardinality(chosen) >= Target) /\ \A c \in chosen : ~ (Abs(c - b) <= 1)
  <2> DEFINE more == chosen \cup {b}
  <2>1. Choose(chosen, b) = more
    BY <1>5 DEF Choose
  <2>2. \A c \in chosen : c # b /\ c + 1 # b /\ b + 1 # c
    BY <1>2, <1>3, <1>5 DEF Abs
  <2>3. IsFiniteSet(more) /\ Cardinality(more) = Cardinality(chosen) + 1
    BY <1>1, <2>2, FS_AddElement
  <2>4. Cardinality(more) <= Target
    BY <1>1, <1>5, <2>3
  <2>5. \A c \in more : c + 1 \notin more
    BY <1>1, <1>2, <2>2
  <2>6. \A c \in more : \E l \in 1 .. i : c = order[l]
    BY <1>2, <1>3 DEF b
  <2>7. \A j \in 1 .. i : order[j] \in more \/ PassedOver(order[j], e, more)
    <3> SUFFICES ASSUME NEW j \in 1 .. i, order[j] \notin more PROVE PassedOver(order[j], e, more)
      OBVIOUS
    <3>1. j \in 1 .. (i - 1)
      BY DEF b
    <3>2. PassedOver(order[j], e, chosen)
      BY <1>1, <3>1
    <3>3. Cardinality(chosen) # Target
      BY <1>1, <1>5
    <3> QED
      BY <3>2, <3>3 DEF PassedOver
  <2> HIDE DEF more
  <2>8. ChosenSoFar(order, e, more, i)
    BY <2>3, <2>4, <2>5, <2>6, <2>7 DEF ChosenSoFar
  <2> QED
    BY <2>1, <2>8 DEF b
<1> QED
  BY <1>4, <1>5

LEMMA ChosenAre ==
    ASSUME Target \in Nat, NEW e \in [Bins -> Nat], NEW order \in Sorted(e)
    PROVE  LET chosen == ChooseBins(order)
           IN /\ chosen \subseteq Candidates(e) /\ IsFiniteSet(chosen) /\ Cardinality(chosen) <= Target
              /\ \A b \in chosen : b + 1 \notin chosen
              /\ \A b \in Candidates(e) \ chosen : PassedOver(b, e, chosen)
<1> DEFINE n == Cardinality(Candidates(e))
<1>1. Candidates(e) \subseteq Bins
  BY DEF Candidates
<1>2. IsFiniteSet(Candidates(e)) /\ n \in Nat
  <2>1. FrameLen \div 2 \in Int
    BY SizesAssumption
  <2>2. IsFiniteSet(Bins)
    BY <2>1, FS_Interval DEF Bins
  <2> QED
    BY <1>1, <2>2, FS_Subset, FS_CardinalityType
<1>3. /\ order \in [1 .. n -> Candidates(e)] /\ {order[i] : i \in DOMAIN order} = Candidates(e)
      /\ \A i, j \in DOMAIN order : i < j => EnergyOf(e, order[i]) >= EnergyOf(e, order[j])
  BY DEF Sorted
<1> HIDE DEF n
<1>4. order \in [1 .. n -> Bins] /\ DOMAIN order = 1 .. n /\ Len(order) = n
  BY <1>1, <1>2, <1>3
<1>5. PICK f : /\ f[0] = {}
               /\ \A i \in 1 .. n : f[i] = Choose(f[i - 1], order[i])
               /\ ChooseBins(order) = f[n]
  BY <1>2, <1>4, ChooseRuns
<1>6. ChosenSoFar(order, e, f[n], n)
  <2> DEFINE D == {i \in 0 .. n : ChosenSoFar(order, e, f[i], i)}
  <2>1. 0 \in D
    <3>1. IsFiniteSet({}) /\ Cardinality({}) = 0
      BY FS_EmptySet
    <3>2. ChosenSoFar(order, e, f[0], 0)
      BY <1>5, <3>1 DEF ChosenSoFar
    <3> QED
      BY <1>2, <3>2
  <2>2. ASSUME NEW i \in 1 .. n, i - 1 \in D PROVE i \in D
    <3>1. ChosenSoFar(order, e, Choose(f[i - 1], order[i]), i)
      BY <1>2, <1>3, <1>4, <2>2, ChoosesOne
    <3> QED
      BY <1>2, <1>5, <3>1
  <2> HIDE DEF D
  <2>3. \A i \in 1 .. n : i - 1 \in D => i \in D
    BY <2>2
  <2>4. \A i \in 0 .. n : i \in D
    BY <1>2, <2>1, <2>3, Climbs, Zenon
  <2> QED
    BY <1>2, <2>4 DEF D
<1> DEFINE chosen == ChooseBins(order)
<1>7. /\ IsFiniteSet(chosen) /\ Cardinality(chosen) <= Target
      /\ \A c \in chosen : \E l \in 1 .. n : c = order[l]
      /\ \A b \in chosen : b + 1 \notin chosen
      /\ \A j \in 1 .. n : order[j] \in chosen \/ PassedOver(order[j], e, chosen)
  BY <1>5, <1>6 DEF ChosenSoFar
<1> HIDE DEF chosen
<1>8. chosen \subseteq Candidates(e)
  BY <1>3, <1>7
<1>9. \A b \in Candidates(e) \ chosen : PassedOver(b, e, chosen)
  <2> SUFFICES ASSUME NEW b \in Candidates(e) \ chosen PROVE PassedOver(b, e, chosen)
    OBVIOUS
  <2>1. PICK j \in 1 .. n : b = order[j]
    BY <1>3, <1>4
  <2> QED
    BY <1>7, <2>1
<1> QED
  BY <1>7, <1>8, <1>9 DEF chosen

-----------------------------------------------------------------------------
(* The ranking of the indicator *)

RunOfRank(f, plv, m) ==
    f = [k \in 0 .. m |-> IF k = 0 THEN <<>> ELSE ShowNext(plv, f[k - 1])]

LEMMA RankRunIs ==
    ASSUME NEW plv, NEW m \in Nat, NEW f, f = [k \in 0 .. m |-> f[k]], f[0] = <<>>,
           \A k \in 1 .. m : f[k] = ShowNext(plv, f[k - 1])
    PROVE  RunOfRank(f, plv, m)
<1> DEFINE F(k) == IF k = 0 THEN <<>> ELSE ShowNext(plv, f[k - 1])
<1>1. \A k \in 0 .. m : f[k] = F(k)
  <2> SUFFICES ASSUME NEW k \in 0 .. m PROVE f[k] = F(k)
    OBVIOUS
  <2>1. k = 0 \/ k \in 1 .. m
    OBVIOUS
  <2> QED
    BY <2>1
<1> HIDE DEF F
<1>2. f = [k \in 0 .. m |-> F(k)]
  BY <1>1
<1> QED
  BY <1>2 DEF RunOfRank, F

LEMMA RankRuns ==
    ASSUME NEW plv, NEW n \in Nat
    PROVE  \E f : /\ f[0] = <<>>
                  /\ \A k \in 1 .. n : f[k] = ShowNext(plv, f[k - 1])
                  /\ Rank(plv, n) = f[n]
<1> DEFINE first == <<>>
           D == {m \in 0 .. n : \E f : RunOfRank(f, plv, m)}
<1>1. 0 \in D
  <2> DEFINE f == [k \in 0 .. 0 |-> <<>>]
  <2>1. f = [k \in 0 .. 0 |-> f[k]] /\ f[0] = <<>>
    OBVIOUS
  <2> HIDE DEF f
  <2>2. 0 \in Nat /\ \A k \in 1 .. 0 : f[k] = ShowNext(plv, f[k - 1])
    OBVIOUS
  <2>3. RunOfRank(f, plv, 0)
    BY <2>1, <2>2, RankRunIs, Zenon
  <2> QED
    BY <2>3
<1>2. ASSUME NEW m \in 1 .. n, m - 1 \in D PROVE m \in D
  <2>1. PICK f : RunOfRank(f, plv, m - 1)
    BY <1>2
  <2> DEFINE g == [k \in 0 .. m |-> IF k = m THEN ShowNext(plv, f[m - 1]) ELSE f[k]]
  <2>2. \A k \in 0 .. (m - 1) : g[k] = f[k] /\ f[k] = (IF k = 0 THEN first ELSE ShowNext(plv, f[k - 1]))
    <3>1. f = [k \in 0 .. (m - 1) |-> IF k = 0 THEN first ELSE ShowNext(plv, f[k - 1])]
      BY <2>1 DEF RunOfRank
    <3> HIDE DEF first
    <3> QED
      BY <3>1
  <2>3. g = [k \in 0 .. m |-> g[k]] /\ g[m] = ShowNext(plv, f[m - 1])
    OBVIOUS
  <2> HIDE DEF g
  <2>4. g[0] = <<>> /\ \A k \in 1 .. m : g[k] = ShowNext(plv, g[k - 1])
    <3>1. g[0] = <<>>
      <4>1. 0 \in 0 .. (m - 1)
        OBVIOUS
      <4> QED
        BY <2>2, <4>1
    <3>2. ASSUME NEW k \in 1 .. m PROVE g[k] = ShowNext(plv, g[k - 1])
      <4>1. k - 1 \in 0 .. (m - 1) /\ (k # m => k \in 0 .. (m - 1))
        OBVIOUS
      <4>2. CASE k = m
        BY <2>2, <2>3, <4>1, <4>2
      <4>3. CASE k # m
        BY <2>2, <4>1, <4>3
      <4> QED
        BY <4>2, <4>3
    <3> QED
      BY <3>1, <3>2
  <2>5. RunOfRank(g, plv, m)
    <3>1. m \in Nat
      OBVIOUS
    <3> QED
      BY <2>3, <2>4, <3>1, RankRunIs, Zenon
  <2> QED
    BY <2>5
<1>3. n \in D
  <2> HIDE DEF D
  <2> QED
    BY <1>1, <1>2, Climbs
<1> DEFINE st == CHOOSE f : f = [k \in 0 .. n |-> IF k = 0 THEN <<>> ELSE ShowNext(plv, f[k - 1])]
<1>4. st = [k \in 0 .. n |-> IF k = 0 THEN first ELSE ShowNext(plv, st[k - 1])]
  <2>1. \E f : f = [k \in 0 .. n |-> IF k = 0 THEN <<>> ELSE ShowNext(plv, f[k - 1])]
    BY <1>3, Zenon DEF RunOfRank
  <2> QED
    BY <2>1, Zenon
<1>5. Rank(plv, n) = st[n]
  BY Zenon DEF Rank
<1>6. st[0] = first /\ \A k \in 1 .. n : st[k] = ShowNext(plv, st[k - 1])
  <2> HIDE DEF st, first
  <2> QED
    BY <1>4
<1> QED
  BY <1>5, <1>6

\* Each of the first k is the best of those that were hidden when it was shown.
ShownSoFar(plv, m, shown, k) ==
    /\ shown \in [1 .. k -> 1 .. m]
    /\ \A i \in 1 .. k, c \in 1 .. m :
          (\A j \in 1 .. (i - 1) : shown[j] # c) => plv[c] <= plv[shown[i]]
    /\ \A i, j \in 1 .. k : i < j => shown[i] # shown[j]
    /\ k > 0 => shown[1] = FirstBest(1 .. m, plv)

LEMMA ShowsOne ==
    ASSUME NEW m \in Nat, NEW plv \in [1 .. m -> Int], NEW k \in 1 .. m, NEW shown,
           ShownSoFar(plv, m, shown, k - 1)
    PROVE  ShownSoFar(plv, m, ShowNext(plv, shown), k)
<1> DEFINE T == {shown[i] : i \in 1 .. (k - 1)}
           H == Hidden(plv, shown)
           b == FirstBest(H, plv)
           more == ShowNext(plv, shown)
<1>1. /\ shown \in [1 .. (k - 1) -> 1 .. m]
      /\ \A i \in 1 .. (k - 1), c \in 1 .. m :
            (\A j \in 1 .. (i - 1) : shown[j] # c) => plv[c] <= plv[shown[i]]
      /\ \A i, j \in 1 .. (k - 1) : i < j => shown[i] # shown[j]
      /\ k - 1 > 0 => shown[1] = FirstBest(1 .. m, plv)
  BY DEF ShownSoFar
<1>2. shown \in Seq(1 .. m) /\ Len(shown) = k - 1 /\ DOMAIN shown = 1 .. (k - 1)
  BY <1>1
<1>3. H = (1 .. m) \ T
  BY <1>2 DEF Hidden
<1>4. IsFiniteSet(1 .. m) /\ Cardinality(1 .. m) = m
  BY FS_Interval
<1>5. H # {}
  <2>1. IsFiniteSet(1 .. (k - 1)) /\ Cardinality(1 .. (k - 1)) = k - 1
    BY FS_Interval
  <2>2. shown = [i \in 1 .. (k - 1) |-> shown[i]]
    BY <1>1
  <2>3. IsFiniteSet(T) /\ Cardinality(T) <= k - 1
    BY <2>1, <2>2, ImageIsFinite
  <2>4. T \subseteq 1 .. m
    BY <1>1
  <2>5. Cardinality(T) # m
    BY <2>3, FS_CardinalityType
  <2> HIDE DEF T
  <2> QED
    BY <1>3, <1>4, <2>4, <2>5
<1>6. IsFiniteSet(H) /\ H \in SUBSET Int /\ H \subseteq 1 .. m
  BY <1>3, <1>4, FS_Subset
<1> HIDE DEF H
<1>7. b \in H /\ \A d \in H : plv[d] < plv[b] \/ (plv[d] = plv[b] /\ b <= d)
  BY <1>5, <1>6, FirstBestIs
<1> HIDE DEF b
<1>8. /\ more = Append(shown, b) /\ b \in 1 .. m
      /\ \A j \in 1 .. (k - 1) : shown[j] # b
      /\ \A d \in 1 .. m : (\A j \in 1 .. (k - 1) : shown[j] # d) => plv[d] <= plv[b]
  <2>1. \A d \in 1 .. m : (\A j \in 1 .. (k - 1) : shown[j] # d) => d \in H
    BY <1>3
  <2>2. \A d \in 1 .. m : plv[d] \in Int
    OBVIOUS
  <2>3. b \in 1 .. m /\ \A j \in 1 .. (k - 1) : shown[j] # b
    BY <1>3, <1>7
  <2> QED
    BY <1>6, <1>7, <2>1, <2>2, <2>3 DEF ShowNext, H, b
<1> HIDE DEF more
<1>9. /\ more \in [1 .. k -> 1 .. m] /\ more[k] = b
      /\ \A j \in 1 .. (k - 1) : more[j] = shown[j]
  <2>1. Append(shown, b) \in Seq(1 .. m) /\ Len(Append(shown, b)) = k
    BY <1>2, <1>8
  <2>2. Append(shown, b)[k] = b /\ \A j \in 1 .. (k - 1) : Append(shown, b)[j] = shown[j]
    BY <1>2, <1>8
  <2>3. \A q \in Seq(1 .. m) : Len(q) = k => q \in [1 .. k -> 1 .. m]
    OBVIOUS
  <2> QED
    BY <1>8, <2>1, <2>2, <2>3
<1>10. \A i \in 1 .. k, c \in 1 .. m : (\A j \in 1 .. (i - 1) : more[j] # c) => plv[c] <= plv[more[i]]
  <2> SUFFICES ASSUME NEW i \in 1 .. k, NEW c \in 1 .. m, \A j \in 1 .. (i - 1) : more[j] # c
               PROVE  plv[c] <= plv[more[i]]
    OBVIOUS
  <2>1. \A j \in 1 .. (i - 1) : j \in 1 .. (k - 1) /\ shown[j] # c
    BY <1>9
  <2>2. CASE i = k
    BY <1>8, <1>9, <2>1, <2>2
  <2>3. CASE i # k
    BY <1>1, <1>9, <2>1, <2>3
  <2> QED
    BY <2>2, <2>3
<1>11. \A i, j \in 1 .. k : i < j => more[i] # more[j]
  <2> SUFFICES ASSUME NEW i \in 1 .. k, NEW j \in 1 .. k, i < j PROVE more[i] # more[j]
    OBVIOUS
  <2>1. i \in 1 .. (k - 1)
    OBVIOUS
  <2>2. CASE j = k
    BY <1>8, <1>9, <2>1, <2>2
  <2>3. CASE j # k
    <3>1. j \in 1 .. (k - 1)
      BY <2>3
    <3> QED
      BY <1>1, <1>9, <2>1, <3>1
  <2> QED
    BY <2>2, <2>3
<1>12. more[1] = FirstBest(1 .. m, plv)
  <2>1. CASE k = 1
    <3>1. H = 1 .. m
      BY <1>3, <2>1
    <3> QED
      BY <1>9, <2>1, <3>1 DEF b
  <2>2. CASE k # 1
    BY <1>1, <1>9, <2>2
  <2> QED
    BY <2>1, <2>2
<1>13. ShownSoFar(plv, m, more, k)
  BY <1>9, <1>10, <1>11, <1>12 DEF ShownSoFar
<1> QED
  BY <1>13 DEF more

LEMMA RankIs ==
    ASSUME NEW m \in Nat, NEW plv \in [1 .. m -> Int], NEW n \in 0 .. m
    PROVE  LET shown == Rank(plv, n)
           IN /\ shown \in [1 .. n -> 1 .. m]
              /\ n > 0 => shown[1] = FirstBest(1 .. m, plv)
              /\ \A i, j \in 1 .. n : i < j => shown[i] # shown[j] /\ plv[shown[i]] >= plv[shown[j]]
              /\ \A c \in 1 .. m : n > 0 => (\E i \in 1 .. n : c = shown[i]) \/ plv[c] <= plv[shown[n]]
<1>1. PICK f : /\ f[0] = <<>>
               /\ \A k \in 1 .. n : f[k] = ShowNext(plv, f[k - 1])
               /\ Rank(plv, n) = f[n]
  BY RankRuns
<1>2. ShownSoFar(plv, m, f[n], n)
  <2> DEFINE D == {k \in 0 .. n : ShownSoFar(plv, m, f[k], k)}
  <2>1. 0 \in D
    <3>1. <<>> \in [1 .. 0 -> 1 .. m]
      OBVIOUS
    <3>2. ShownSoFar(plv, m, f[0], 0)
      BY <1>1, <3>1 DEF ShownSoFar
    <3> QED
      BY <3>2
  <2>2. ASSUME NEW k \in 1 .. n, k - 1 \in D PROVE k \in D
    <3>1. k \in 1 .. m
      OBVIOUS
    <3>2. ShownSoFar(plv, m, ShowNext(plv, f[k - 1]), k)
      BY <2>2, <3>1, ShowsOne
    <3> QED
      BY <1>1, <3>2
  <2> HIDE DEF D
  <2>3. \A k \in 1 .. n : k - 1 \in D => k \in D
    BY <2>2
  <2>4. n \in Nat
    OBVIOUS
  <2>5. \A k \in 0 .. n : k \in D
    BY <2>1, <2>3, <2>4, Climbs, Zenon
  <2> QED
    BY <2>5 DEF D
<1> DEFINE shown == Rank(plv, n)
<1>3. /\ shown \in [1 .. n -> 1 .. m]
      /\ \A i \in 1 .. n, c \in 1 .. m :
            (\A j \in 1 .. (i - 1) : shown[j] # c) => plv[c] <= plv[shown[i]]
      /\ \A i, j \in 1 .. n : i < j => shown[i] # shown[j]
      /\ n > 0 => shown[1] = FirstBest(1 .. m, plv)
  BY <1>1, <1>2 DEF ShownSoFar
<1> HIDE DEF shown
<1>4. \A i, j \in 1 .. n : i < j => shown[i] # shown[j] /\ plv[shown[i]] >= plv[shown[j]]
  <2> SUFFICES ASSUME NEW i \in 1 .. n, NEW j \in 1 .. n, i < j
               PROVE  shown[i] # shown[j] /\ plv[shown[i]] >= plv[shown[j]]
    OBVIOUS
  <2>1. \A l \in 1 .. (i - 1) : l \in 1 .. n /\ shown[l] # shown[j]
    BY <1>3
  <2>2. plv[shown[j]] <= plv[shown[i]] /\ plv[shown[j]] \in Int /\ plv[shown[i]] \in Int
    BY <1>3, <2>1
  <2> QED
    BY <1>3, <2>2
<1>5. \A c \in 1 .. m : n > 0 => (\E i \in 1 .. n : c = shown[i]) \/ plv[c] <= plv[shown[n]]
  <2> SUFFICES ASSUME NEW c \in 1 .. m, n > 0, ~ \E i \in 1 .. n : c = shown[i] PROVE plv[c] <= plv[shown[n]]
    OBVIOUS
  <2>1. n \in 1 .. n /\ \A j \in 1 .. (n - 1) : shown[j] # c
    OBVIOUS
  <2> QED
    BY <1>3, <2>1
<1> QED
  BY <1>3, <1>4, <1>5 DEF shown

-----------------------------------------------------------------------------
(* What the stages know *)

RequestKnown ==
    /\ pc \in {"submit", "refused", "process", "track", "fetch", "done"}
    /\ request.count \in Nat /\ request.threshold \in Nat
    /\ energy \in [Bins -> Nat]
    /\ pc = "process" => /\ request.count <= MaxCycles
                         /\ request.source = "list" => request.list \in [1 .. request.count -> Nat]

PeriodsKnown ==
    pc \in {"track", "fetch"} =>
        /\ periods \in Seq(Nat) /\ Len(periods) <= MaxCycles
        /\ request.count > 0 => Len(periods) <= request.count

\* The dominant cycle, if any, is the first of the greatest PLV.
ResultKnown ==
    pc = "fetch" =>
        /\ result.count \in Nat /\ result.count <= Len(periods)
        /\ result.plv \in [1 .. result.count -> Nat]
        /\ result.dominant = 0 \/ result.dominant = FirstBest(1 .. result.count, result.plv)

Inv == RequestKnown /\ PeriodsKnown /\ ResultKnown

LEMMA TargetIs ==
    ASSUME request.count \in Nat
    PROVE  /\ Target \in Nat /\ Target <= MaxCycles
           /\ request.count > 0 => Target <= request.count
  BY SizesAssumption DEF Target, Lower

LEMMA PeriodIs == \A b \in Bins : PeriodOf(b) \in Nat
<1> SUFFICES ASSUME NEW b \in Bins PROVE PeriodOf(b) \in Nat
  OBVIOUS
<1>1. FrameLen * Grain \in Nat
  BY SizesAssumption
<1>2. b \in Nat \ {0}
  <2>1. FrameLen \div 2 \in Int
    BY SizesAssumption
  <2> QED
    BY <2>1 DEF Bins
<1>3. \A x \in Nat, y \in Nat \ {0} : x \div y \in Nat
  OBVIOUS
<1> QED
  BY <1>1, <1>2, <1>3 DEF PeriodOf

-----------------------------------------------------------------------------
(* The periods *)

LEMMA GivenTaken ==
    ASSUME Inv, TakeGiven PROVE PeriodsKnown' /\ GivenPeriodsKept'
<1> DEFINE n == request.count
           list == request.list
           kept == KeptInPlace(list)
<1>1. n \in Nat /\ n <= MaxCycles /\ list \in [1 .. n -> Nat]
  BY DEF Inv, RequestKnown, TakeGiven
<1>2. periods' = kept /\ request' = request /\ pc' = "track"
  BY DEF TakeGiven
<1>3. /\ kept \in Seq(Nat) /\ Len(kept) <= n
      /\ \E at \in [1 .. Len(kept) -> DOMAIN list] :
            /\ {at[k] : k \in DOMAIN at} = {i \in DOMAIN list : list[i] > 0}
            /\ \A j, k \in DOMAIN at : j < k => at[j] < at[k]
            /\ \A k \in DOMAIN at : kept[k] = list[at[k]]
  <2> HIDE DEF n, list
  <2> QED
    BY <1>1, KeptInPlaceIs
<1> HIDE DEF kept
<1>4. PeriodsKnown'
  <2>1. Len(kept) \in Nat
    BY <1>3
  <2> QED
    BY <1>1, <1>2, <1>3, <2>1, SizesAssumption DEF PeriodsKnown
<1>5. GivenPeriodsKept'
  BY <1>2, <1>3 DEF GivenPeriodsKept
<1> QED
  BY <1>4, <1>5

LEMMA StrongestTaken ==
    ASSUME Inv, TakeStrongest PROVE PeriodsKnown' /\ StrongestBinsChosen' /\ RequestKnown'
<1>1. energy' \in [Bins -> Nat]
  BY ValuesAssumption DEF TakeStrongest
<1>2. request' = request /\ pc' = "track" /\ request.count \in Nat
  BY DEF TakeStrongest, Inv, RequestKnown
<1> DEFINE e == energy'
<1>3. PICK order \in Sorted(e) : periods' = PeriodsOf(ChooseBins(order))
  BY DEF TakeStrongest
<1> DEFINE chosen == ChooseBins(order)
           given  == {PeriodOf(b) : b \in chosen}
           loud   == {b \in Bins : EnergyOf(e, b) > 0}
<1>4. /\ Target \in Nat /\ Target <= MaxCycles
      /\ request.count > 0 => Target <= request.count
  BY <1>2, TargetIs
<1>5. /\ chosen \subseteq Candidates(e) /\ IsFiniteSet(chosen) /\ Cardinality(chosen) <= Target
      /\ \A b \in chosen : b + 1 \notin chosen
      /\ \A b \in Candidates(e) \ chosen : PassedOver(b, e, chosen)
  <2> HIDE DEF e
  <2> QED
    BY <1>1, <1>3, <1>4, ChosenAre DEF e
<1>6. /\ Candidates(e) \subseteq Bins /\ loud \subseteq Candidates(e)
      /\ loud # {} => Candidates(e) = loud
  BY DEF Candidates
<1> HIDE DEF chosen, loud, e
<1>7. given \in SUBSET Int /\ IsFiniteSet(given) /\ Cardinality(given) <= Cardinality(chosen)
  <2>1. \A b \in chosen : PeriodOf(b) \in Int
    BY <1>5, <1>6, PeriodIs
  <2> DEFINE f == [b \in chosen |-> PeriodOf(b)]
  <2>2. f = [b \in chosen |-> f[b]]
    OBVIOUS
  <2>3. {f[b] : b \in chosen} = given
    OBVIOUS
  <2> HIDE DEF f
  <2>4. IsFiniteSet({f[b] : b \in chosen}) /\ Cardinality({f[b] : b \in chosen}) <= Cardinality(chosen)
    BY <1>5, <2>2, ImageIsFinite
  <2> QED
    BY <2>1, <2>3, <2>4
<1> DEFINE m == Cardinality(given)
<1>8. m \in Nat /\ m <= Target
  BY <1>4, <1>5, <1>7, FS_CardinalityType
<1>9. periods' \in [1 .. m -> given] /\ {periods'[i] : i \in DOMAIN periods'} = given
  <2> HIDE DEF given
  <2>1. periods' = Ascending(given)
    BY <1>3 DEF PeriodsOf, given, chosen
  <2> QED
    BY <1>7, <2>1, AscendingIs
<1>10. given \subseteq Nat
  BY <1>5, <1>6, PeriodIs
<1> HIDE DEF m
<1>11. periods' \in Seq(Nat) /\ Len(periods') = m /\ DOMAIN periods' = 1 .. m
  <2>1. periods' \in [1 .. m -> Nat]
    BY <1>9, <1>10
  <2>2. \A q \in [1 .. m -> Nat] : q \in Seq(Nat) /\ Len(q) = m /\ DOMAIN q = 1 .. m
    BY <1>8
  <2> QED
    BY <2>1, <2>2
<1>12. PeriodsKnown'
  BY <1>2, <1>4, <1>8, <1>11, SizesAssumption DEF PeriodsKnown
<1>13. {b \in Bins : PeriodOf(b) \in {periods'[k] : k \in 1 .. Len(periods')}} = chosen
  <2>1. {periods'[k] : k \in 1 .. Len(periods')} = given
    BY <1>9, <1>11
  <2>2. \A b \in Bins : PeriodOf(b) \in given => b \in chosen
    BY <1>5, <1>6, GrainAssumption
  <2>3. \A b \in chosen : b \in Bins /\ PeriodOf(b) \in given
    BY <1>5, <1>6
  <2> QED
    BY <2>1, <2>2, <2>3
<1>14. /\ \A b \in chosen : b + 1 \notin chosen
       /\ loud # {} => chosen \subseteq loud
       /\ \A b \in loud \ chosen :
             \/ \E c \in chosen : Abs(c - b) = 1 /\ EnergyOf(e, c) >= EnergyOf(e, b)
             \/ Cardinality(chosen) = Target /\ \A c \in chosen : EnergyOf(e, c) >= EnergyOf(e, b)
  BY <1>5, <1>6 DEF PassedOver
<1>15. StrongestBinsChosen'
  <2>1. Target' = Target
    BY <1>2 DEF Target
  <2>2. \A b : EnergyOf(energy, b)' = EnergyOf(e, b)
    BY <1>2 DEF EnergyOf, InBand, e
  <2>3. {b \in Bins : EnergyOf(energy, b)' > 0} = loud
    BY <2>2 DEF loud
  <2> QED
    BY <1>2, <1>13, <1>14, <2>1, <2>2, <2>3 DEF StrongestBinsChosen, Found
<1>16. RequestKnown'
  BY <1>1, <1>2 DEF Inv, RequestKnown
<1> QED
  BY <1>12, <1>15, <1>16

-----------------------------------------------------------------------------
(* The result *)

FoundIs == Len(periods) \in Nat /\ Found = 1 .. Len(periods) /\ IsFiniteSet(Found)

LEMMA TracksWhat ==
    ASSUME Inv, Tracks
    PROVE  /\ pc' = "fetch" /\ periods' = periods /\ request' = request
           /\ periods \in Seq(Nat) /\ FoundIs /\ request.threshold \in Nat
           /\ \A lk \in Outcomes : lk \in [Found -> Int] /\ \A c \in Found : lk[c] # Invalid => lk[c] \in Nat
           /\ RequestKnown' /\ PeriodsKnown'
<1>1. /\ pc = "track" /\ pc' = "fetch" /\ periods' = periods /\ request' = request /\ energy' = Silence
      /\ periods \in Seq(Nat) /\ request.threshold \in Nat
  BY DEF Inv, RequestKnown, PeriodsKnown, Tracks
<1>2. FoundIs
  <2>1. Len(periods) \in Nat
    BY <1>1
  <2> QED
    BY <2>1, FS_Interval DEF FoundIs, Found
<1>3. \A lk \in Outcomes : lk \in [Found -> Int] /\ \A c \in Found : lk[c] # Invalid => lk[c] \in Nat
  BY ValuesAssumption DEF Outcomes, Invalid
<1>4. RequestKnown'
  BY <1>1 DEF Inv, RequestKnown, Silence
<1>5. PeriodsKnown'
  BY <1>1 DEF Inv, PeriodsKnown
<1> QED
  BY <1>1, <1>2, <1>3, <1>4, <1>5

\* The accepted cycles in their order.
LEMMA AcceptedIs ==
    ASSUME Inv, Tracks, NEW lk \in Outcomes
    PROVE  LET kept == Accepted(lk)
           IN /\ kept \in Seq(Found) /\ Len(kept) <= Len(periods)
              /\ DOMAIN kept = 1 .. Len(kept)
              /\ \A c \in Found : lk[c] # Invalid /\ lk[c] >= request.threshold => \E k \in DOMAIN kept : kept[k] = c
              /\ \A k \in DOMAIN kept : lk[kept[k]] # Invalid /\ lk[kept[k]] >= request.threshold
<1> DEFINE S == {c \in Found : lk[c] # Invalid /\ lk[c] >= request.threshold}
           m == Cardinality(S)
           kept == Accepted(lk)
<1>1. Len(periods) \in Nat /\ Found = 1 .. Len(periods) /\ IsFiniteSet(Found)
  BY TracksWhat DEF FoundIs
<1>2. S \in SUBSET Int /\ IsFiniteSet(S) /\ m \in Nat /\ m <= Len(periods)
  <2>1. S \subseteq Found /\ Found \subseteq Int
    BY <1>1
  <2> HIDE DEF S
  <2>2. IsFiniteSet(S) /\ Cardinality(S) <= Cardinality(Found)
    BY <1>1, <2>1, FS_Subset
  <2>3. Cardinality(Found) = Len(periods)
    BY <1>1, FS_Interval
  <2> QED
    BY <2>1, <2>2, <2>3, FS_CardinalityType
<1>3. kept = Ascending(S)
  BY DEF Accepted
<1>4. S \subseteq Found /\ \A c \in S : lk[c] # Invalid /\ lk[c] >= request.threshold
  OBVIOUS
<1>5. \A c \in Found : lk[c] # Invalid /\ lk[c] >= request.threshold => c \in S
  OBVIOUS
<1> HIDE DEF S, kept
<1>6. kept \in [1 .. m -> S] /\ {kept[i] : i \in DOMAIN kept} = S
  BY <1>2, <1>3, AscendingIs
<1> HIDE DEF m
<1>7. kept \in Seq(Found) /\ Len(kept) = m /\ DOMAIN kept = 1 .. m
  <2>1. kept \in [1 .. m -> Found]
    BY <1>4, <1>6
  <2>2. \A q \in [1 .. m -> Found] : q \in Seq(Found) /\ Len(q) = m /\ DOMAIN q = 1 .. m
    BY <1>2
  <2> QED
    BY <2>1, <2>2
<1>8. \A c \in Found : lk[c] # Invalid /\ lk[c] >= request.threshold => \E k \in DOMAIN kept : kept[k] = c
  BY <1>5, <1>6
<1>9. \A k \in DOMAIN kept : lk[kept[k]] # Invalid /\ lk[kept[k]] >= request.threshold
  BY <1>4, <1>6
<1>10. Len(kept) <= Len(periods)
  BY <1>2, <1>7
<1> QED
  BY <1>7, <1>8, <1>9, <1>10 DEF kept

LEMMA NothingTracked ==
    ASSUME Inv, TrackNothing PROVE ResultKnown' /\ ArraysAreParallel' /\ DominantIsBest'
<1>1. Tracks /\ Found = {} /\ result' = NoResult /\ lock' = <<>>
  BY DEF TrackNothing
<1>2. pc' = "fetch" /\ periods' = periods /\ Len(periods) \in Nat
  BY <1>1, TracksWhat DEF FoundIs
<1>3. ResultKnown'
  <2>1. <<>> \in [1 .. 0 -> Nat]
    OBVIOUS
  <2> QED
    BY <1>1, <1>2, <2>1 DEF ResultKnown, NoResult
<1>4. ArraysAreParallel'
  BY <1>1, <1>2 DEF ArraysAreParallel, NoResult
<1>5. DominantIsBest'
  BY <1>1, <1>2 DEF DominantIsBest, NoResult, Found
<1> QED
  BY <1>3, <1>4, <1>5

LEMMA OriginalKept ==
    ASSUME Inv, KeepOriginal PROVE ResultKnown' /\ ArraysAreParallel' /\ DominantIsBest'
<1>1. Tracks
  BY DEF KeepOriginal
<1>2. /\ pc' = "fetch" /\ periods' = periods /\ Len(periods) \in Nat
      /\ Found = 1 .. Len(periods) /\ Found' = Found
  BY <1>1, TracksWhat DEF FoundIs, Found
<1>3. PICK lk \in Outcomes :
          /\ \A c \in Found : lk[c] <= 0
          /\ lock' = lk
          /\ result' = [NoResult EXCEPT !.count = Len(periods), !.periods = periods,
                                        !.plv = [c \in Found |-> 0], !.cycles = [c \in Found |-> c]]
  BY DEF KeepOriginal
<1>4. \A c \in Found : lk[c] \in Int /\ (lk[c] # Invalid => lk[c] = 0)
  <2>1. \A c \in Found : lk[c] \in Int /\ (lk[c] # Invalid => lk[c] \in Nat)
    BY <1>1, TracksWhat
  <2> QED
    BY <1>3, <2>1
<1>5. /\ result'.count = Len(periods) /\ result'.periods = periods
      /\ result'.plv = [c \in Found |-> 0] /\ result'.cycles = [c \in Found |-> c]
      /\ result'.all = <<>> /\ result'.dominant = 0 /\ result'.line = 0
  BY <1>3 DEF NoResult
<1>6. ResultKnown'
  BY <1>2, <1>5 DEF ResultKnown
<1>7. ArraysAreParallel'
  BY <1>2, <1>3, <1>4, <1>5 DEF ArraysAreParallel
<1>8. DominantIsBest'
  BY <1>2, <1>3, <1>5 DEF DominantIsBest
<1> QED
  BY <1>6, <1>7, <1>8

LEMMA OnePromoted ==
    ASSUME Inv, Promote PROVE ResultKnown' /\ ArraysAreParallel' /\ DominantIsBest'
<1>1. Tracks
  BY DEF Promote
<1>2. /\ pc' = "fetch" /\ periods' = periods /\ Len(periods) \in Nat /\ IsFiniteSet(Found)
      /\ Found = 1 .. Len(periods) /\ Found' = Found
  BY <1>1, TracksWhat DEF FoundIs, Found
<1> DEFINE tried(l) == {c \in Found : l[c] > 0}
           best(l)  == FirstBest(tried(l), l)
<1>3. PICK lk \in Outcomes :
          /\ tried(lk) # {}
          /\ lock' = lk
          /\ result' = [count |-> 1, periods |-> <<periods[best(lk)]>>, plv |-> <<lk[best(lk)]>>,
                        cycles |-> <<best(lk)>>, all |-> <<best(lk)>>, dominant |-> 1, line |-> best(lk)]
  BY DEF Promote
<1> DEFINE b == best(lk)
<1>4. \A c \in Found : lk[c] \in Int /\ (lk[c] # Invalid => lk[c] \in Nat)
  BY <1>1, TracksWhat
<1>5. b \in tried(lk) /\ \A d \in tried(lk) : lk[d] <= lk[b]
  <2> DEFINE s == tried(lk)
  <2>1. s \in SUBSET Int /\ IsFiniteSet(s) /\ s # {} /\ \A c \in s : lk[c] \in Int
    <3>1. s \subseteq Found
      OBVIOUS
    <3> QED
      BY <1>2, <1>3, <1>4, <3>1, FS_Subset
  <2>2. b = FirstBest(s, lk)
    OBVIOUS
  <2> HIDE DEF s, b
  <2>3. b \in s /\ \A d \in s : lk[d] < lk[b] \/ (lk[d] = lk[b] /\ b <= d)
    BY <2>1, <2>2, FirstBestIs
  <2> QED
    BY <2>1, <2>3 DEF s
<1>6. b \in Found /\ lk[b] \in Nat /\ lk[b] > 0 /\ \A d \in Found : lk[d] <= lk[b]
  <2>1. b \in Found /\ lk[b] > 0
    BY <1>5
  <2>2. \A d \in Found : lk[d] > 0 => lk[d] <= lk[b]
    BY <1>5
  <2> HIDE DEF b
  <2> QED
    BY <1>4, <2>1, <2>2
<1>7. result' = [count |-> 1, periods |-> <<periods[b]>>, plv |-> <<lk[b]>>,
                 cycles |-> <<b>>, all |-> <<b>>, dominant |-> 1, line |-> b]
  BY <1>3
<1> HIDE DEF b
<1>8. /\ result'.count = 1 /\ result'.periods = <<periods[b]>> /\ result'.plv = <<lk[b]>>
      /\ result'.cycles = <<b>> /\ result'.all = <<b>> /\ result'.dominant = 1 /\ result'.line = b
  BY <1>7
<1>9. ResultKnown'
  <2>1. <<lk[b]>> \in [1 .. 1 -> Nat]
    BY <1>6
  <2>2. FirstBest(1 .. 1, <<lk[b]>>) = 1
    <3>1. 1 .. 1 \in SUBSET Int /\ IsFiniteSet(1 .. 1) /\ 1 .. 1 # {}
      <4>1. 1 .. 1 = {1}
        OBVIOUS
      <4>2. IsFiniteSet({1})
        BY FS_Singleton, Zenon
      <4> QED
        BY <4>1, <4>2
    <3>2. \A c \in 1 .. 1 : <<lk[b]>>[c] \in Int
      BY <1>6
    <3>3. FirstBest(1 .. 1, <<lk[b]>>) \in 1 .. 1
      BY <3>1, <3>2, FirstBestIs
    <3> QED
      BY <3>3
  <2>3. 1 <= Len(periods)
    BY <1>2, <1>6
  <2> QED
    BY <1>2, <1>8, <2>1, <2>2, <2>3 DEF ResultKnown
<1>10. ArraysAreParallel'
  <2>1. lk[b] # Invalid
    BY <1>6 DEF Invalid
  <2>2. lock' = lk
    BY <1>3
  <2>3. \A k \in 1 .. result'.count : /\ k = 1 /\ result'.cycles[k] = b
                                      /\ result'.periods[k] = periods[b] /\ result'.plv[k] = lk[b]
    BY <1>8
  <2>4. Len(result'.periods) = 1 /\ result'.all = result'.cycles
    BY <1>8
  <2> QED
    BY <1>2, <1>8, <2>1, <2>2, <2>3, <2>4 DEF ArraysAreParallel
<1>11. DominantIsBest'
  <2>1. lock' = lk
    BY <1>3
  <2>2. /\ result'.dominant > 0 /\ result'.plv[result'.dominant] = lk[b]
        /\ result'.line = result'.cycles[result'.dominant]
    BY <1>8
  <2> QED
    BY <1>2, <1>6, <2>1, <2>2 DEF DominantIsBest
<1> QED
  BY <1>9, <1>10, <1>11

LEMMA SomeAccepted ==
    ASSUME Inv, TrackAccepted PROVE ResultKnown' /\ ArraysAreParallel' /\ DominantIsBest'
<1>1. Tracks
  BY DEF TrackAccepted
<1>2. /\ pc' = "fetch" /\ periods' = periods /\ Len(periods) \in Nat /\ request.threshold \in Nat
      /\ Found = 1 .. Len(periods) /\ Found' = Found
  BY <1>1, TracksWhat DEF FoundIs, Found
<1> DEFINE of(l)   == [i \in DOMAIN Accepted(l) |-> l[Accepted(l)[i]]]
           best(l) == FirstBest(DOMAIN Accepted(l), of(l))
<1>3. PICK lk \in Outcomes :
          /\ Accepted(lk) # <<>>
          /\ lock' = lk
          /\ result' = [count    |-> Len(Accepted(lk)),
                        periods  |-> [i \in DOMAIN Accepted(lk) |-> periods[Accepted(lk)[i]]],
                        plv      |-> of(lk),
                        cycles   |-> Accepted(lk), all |-> Accepted(lk),
                        dominant |-> best(lk), line |-> Accepted(lk)[best(lk)]]
  BY DEF TrackAccepted
<1> DEFINE kept == Accepted(lk)
           plv  == of(lk)
           b    == best(lk)
           n    == Len(kept)
<1>4. \A c \in Found : lk[c] \in Int /\ (lk[c] # Invalid => lk[c] \in Nat)
  BY <1>1, TracksWhat
<1>5. /\ kept \in Seq(Found) /\ n <= Len(periods) /\ DOMAIN kept = 1 .. n
      /\ \A c \in Found : lk[c] # Invalid /\ lk[c] >= request.threshold => \E k \in DOMAIN kept : kept[k] = c
      /\ \A k \in DOMAIN kept : lk[kept[k]] # Invalid /\ lk[kept[k]] >= request.threshold
  BY <1>1, AcceptedIs
<1>6. /\ result'.count = n /\ result'.periods = [i \in DOMAIN kept |-> periods[kept[i]]]
      /\ result'.plv = plv /\ result'.cycles = kept /\ result'.all = kept
      /\ result'.dominant = b /\ result'.line = kept[b]
  BY <1>3
<1>7. kept # <<>> /\ lock' = lk
  BY <1>3
<1>8. plv = [i \in DOMAIN kept |-> lk[kept[i]]] /\ b = FirstBest(DOMAIN kept, plv)
  OBVIOUS
<1> HIDE DEF kept, plv, b
<1>9. n \in Nat /\ n > 0 /\ \A k \in 1 .. n : kept[k] \in Found
  BY <1>5, <1>7
<1> HIDE DEF n
<1>10. plv \in [1 .. n -> Nat] /\ \A k \in 1 .. n : plv[k] = lk[kept[k]]
  BY <1>4, <1>5, <1>8, <1>9
<1>11. b \in 1 .. n /\ \A k \in 1 .. n : plv[k] <= plv[b]
  <2>1. 1 .. n \in SUBSET Int /\ IsFiniteSet(1 .. n) /\ 1 .. n # {}
    <3>1. IsFiniteSet(1 .. n)
      BY <1>9, FS_Interval
    <3> QED
      BY <1>9, <3>1
  <2>2. \A k \in 1 .. n : plv[k] \in Int
    BY <1>10
  <2>3. b = FirstBest(1 .. n, plv)
    BY <1>5, <1>8
  <2>4. b \in 1 .. n /\ \A k \in 1 .. n : plv[k] < plv[b] \/ (plv[k] = plv[b] /\ b <= k)
    BY <2>1, <2>2, <2>3, FirstBestIs
  <2> QED
    BY <2>2, <2>4
<1>12. ResultKnown'
  <2>1. b = FirstBest(1 .. n, plv)
    BY <1>5, <1>8
  <2> QED
    BY <1>2, <1>5, <1>6, <1>9, <1>10, <2>1 DEF ResultKnown
<1>13. ArraysAreParallel'
  <2>1. Len(result'.periods) = n
    <3>1. result'.periods = [i \in 1 .. n |-> periods[kept[i]]]
      BY <1>5, <1>6
    <3> QED
      BY <1>9, <3>1
  <2>2. \A k \in 1 .. n : /\ result'.cycles[k] = kept[k] /\ result'.periods[k] = periods[kept[k]]
                          /\ result'.plv[k] = lk[kept[k]] /\ lk[kept[k]] # Invalid
    BY <1>5, <1>6, <1>10
  <2> QED
    BY <1>2, <1>6, <1>7, <2>1, <2>2 DEF ArraysAreParallel
<1>14. DominantIsBest'
  <2>1. \A c \in Found : lk[c] <= plv[b]
    <3> SUFFICES ASSUME NEW c \in Found PROVE lk[c] <= plv[b]
      OBVIOUS
    <3>1. plv[b] \in Nat /\ plv[b] >= request.threshold
      BY <1>5, <1>10, <1>11
    <3>2. CASE lk[c] = Invalid
      BY <3>1, <3>2 DEF Invalid
    <3>3. CASE lk[c] # Invalid /\ lk[c] >= request.threshold
      <4>1. PICK k \in 1 .. n : kept[k] = c
        BY <1>5, <3>3
      <4> QED
        BY <1>10, <1>11, <4>1
    <3>4. CASE lk[c] # Invalid /\ ~ (lk[c] >= request.threshold)
      BY <1>2, <1>4, <3>1, <3>4
    <3> QED
      BY <3>2, <3>3, <3>4
  <2>2. b > 0
    BY <1>11
  <2> QED
    BY <1>2, <1>6, <1>7, <2>1, <2>2 DEF DominantIsBest
<1> QED
  BY <1>12, <1>13, <1>14

-----------------------------------------------------------------------------
(* The drawing *)

LEMMA BestDrawn ==
    ASSUME Inv, Draw PROVE TopIsDominant'
<1> DEFINE m == result.count
           plv == result.plv
<1>1. /\ m \in Nat /\ plv \in [1 .. m -> Nat]
      /\ result.dominant \in {0, FirstBest(1 .. m, plv)}
  BY DEF Inv, ResultKnown, Draw
<1>2. PICK limit \in Shown : drawn' = Rank(plv, Lower(Lower(limit, 12), m))
  BY DEF Draw
<1> DEFINE n == Lower(Lower(limit, 12), m)
<1>3. n \in 0 .. m
  <2>1. limit \in Nat
    BY ValuesAssumption
  <2> HIDE DEF m
  <2> QED
    BY <1>1, <2>1 DEF Lower
<1>4. drawn' = Rank(plv, n) /\ result' = result
  BY <1>2 DEF Draw
<1> HIDE DEF m, plv, n
<1>5. /\ drawn' \in [1 .. n -> 1 .. m]
      /\ n > 0 => drawn'[1] = FirstBest(1 .. m, plv)
      /\ \A i, j \in 1 .. n : i < j => drawn'[i] # drawn'[j] /\ plv[drawn'[i]] >= plv[drawn'[j]]
      /\ \A c \in 1 .. m : n > 0 => (\E i \in 1 .. n : c = drawn'[i]) \/ plv[c] <= plv[drawn'[n]]
  <2>1. plv \in [1 .. m -> Int]
    BY <1>1
  <2> QED
    BY <1>1, <1>3, <1>4, <2>1, RankIs
<1>6. DOMAIN drawn' = 1 .. n /\ Len(drawn') = n
  BY <1>3, <1>5
<1>7. drawn' # <<>> => n > 0
  BY <1>3, <1>5
<1>8. ASSUME drawn' # <<>>
      PROVE  /\ result'.dominant \in {0, drawn'[1]}
             /\ \A i, j \in DOMAIN drawn' : i < j => /\ drawn'[i] # drawn'[j]
                                                     /\ result'.plv[drawn'[i]] >= result'.plv[drawn'[j]]
             /\ \A c \in 1 .. result'.count :
                   c \in {drawn'[i] : i \in DOMAIN drawn'}
                   \/ result'.plv[c] <= result'.plv[drawn'[Len(drawn')]]
  <2>1. result'.dominant \in {0, drawn'[1]}
    BY <1>1, <1>4, <1>5, <1>7, <1>8
  <2>2. result'.plv = plv /\ result'.count = m
    BY <1>4 DEF plv, m
  <2> QED
    BY <1>5, <1>6, <1>7, <1>8, <2>1, <2>2
<1> QED
  BY <1>8 DEF TopIsDominant

-----------------------------------------------------------------------------
(* The theorems *)

\* The properties; FitsTheRequest follows from Inv.
Promises ==
    /\ GivenPeriodsKept /\ StrongestBinsChosen
    /\ ArraysAreParallel /\ DominantIsBest /\ TopIsDominant

LEMMA InvFits == Inv => FitsTheRequest
<1> SUFFICES ASSUME Inv PROVE FitsTheRequest
  OBVIOUS
<1>1. CASE pc = "track"
  BY <1>1 DEF Inv, PeriodsKnown, FitsTheRequest
<1>2. CASE pc = "fetch"
  <2>1. /\ result.count \in Nat /\ Len(periods) \in Nat /\ result.count <= Len(periods)
        /\ Len(periods) <= MaxCycles
        /\ request.count > 0 => Len(periods) <= request.count
        /\ request.count \in Nat
    BY <1>2 DEF Inv, PeriodsKnown, ResultKnown, RequestKnown
  <2> QED
    BY <1>2, <2>1, SizesAssumption DEF FitsTheRequest
<1> QED
  BY <1>1, <1>2 DEF FitsTheRequest

LEMMA Begins == Init => Inv /\ Promises
<1> SUFFICES ASSUME Init PROVE Inv /\ Promises
  OBVIOUS
<1>1. Inv
  BY DEF Init, Inv, RequestKnown, PeriodsKnown, ResultKnown, NoRequest, Silence
<1> QED
  BY <1>1 DEF Init, Promises, GivenPeriodsKept, StrongestBinsChosen, ArraysAreParallel,
                       DominantIsBest, TopIsDominant

LEMMA Submitted == ASSUME Inv, Submit PROVE Inv'
<1>1. PICK n \in Counts, source \in Sources, band \in Bands, threshold \in Thresholds :
        \E list \in IF source = "list" /\ n \in 1 .. MaxCycles
                    THEN [1 .. n -> GivenPeriods] ELSE {<<>>} :
          request' = [count |-> n,
                      source |-> IF n = 0 THEN "null" ELSE source,
                      list |-> list,
                      band |-> <<band[1], IF band[2] < band[1] THEN band[1] ELSE band[2]>>,
                      threshold |-> threshold]
  BY DEF Submit
<1>2. PICK list \in IF source = "list" /\ n \in 1 .. MaxCycles
                    THEN [1 .. n -> GivenPeriods] ELSE {<<>>} :
          request' = [count |-> n,
                      source |-> IF n = 0 THEN "null" ELSE source,
                      list |-> list,
                      band |-> <<band[1], IF band[2] < band[1] THEN band[1] ELSE band[2]>>,
                      threshold |-> threshold]
  BY <1>1
<1>3. request'.count = n /\ request'.source = (IF n = 0 THEN "null" ELSE source)
      /\ request'.list = list /\ request'.threshold = threshold
  BY <1>2
<1>4. n \in Nat /\ threshold \in Nat
  BY ValuesAssumption
<1>5. /\ pc' \in {"refused", "process"} /\ energy' = energy
      /\ pc' = "process" => n <= MaxCycles
  BY <1>3, <1>4, SizesAssumption DEF Submit
<1>6. pc' = "process" /\ request'.source = "list" => list \in [1 .. n -> Nat]
  <2> SUFFICES ASSUME pc' = "process", request'.source = "list" PROVE list \in [1 .. n -> Nat]
    OBVIOUS
  <2>1. n # 0 /\ source = "list"
    BY <1>3
  <2>2. n \in 1 .. MaxCycles
    BY <1>4, <1>5, <2>1, SizesAssumption
  <2>3. list \in [1 .. n -> GivenPeriods]
    BY <2>1, <2>2
  <2> QED
    BY <2>3, ValuesAssumption
<1> QED
  BY <1>3, <1>4, <1>5, <1>6 DEF Inv, RequestKnown, PeriodsKnown, ResultKnown

LEMMA Preserved == ASSUME Inv, Promises, [Next]_vars PROVE Inv' /\ Promises'
<1>1. CASE Submit
  <2>1. Inv'
    BY <1>1, Submitted
  <2>2. pc' \in {"refused", "process"}
    BY <1>1 DEF Submit
  <2> QED
    BY <2>1, <2>2 DEF Promises, GivenPeriodsKept, StrongestBinsChosen, ArraysAreParallel,
                      DominantIsBest, TopIsDominant
<1>2. CASE TakeGiven
  <2>1. pc' = "track" /\ request' = request /\ energy' = energy /\ request.source = "list"
    BY <1>2 DEF TakeGiven
  <2>2. PeriodsKnown' /\ GivenPeriodsKept'
    BY <1>2, GivenTaken
  <2>3. RequestKnown' /\ ResultKnown'
    BY <2>1 DEF Inv, RequestKnown, ResultKnown
  <2> QED
    BY <2>1, <2>2, <2>3 DEF Inv, Promises, StrongestBinsChosen, ArraysAreParallel, DominantIsBest, TopIsDominant
<1>3. CASE TakeStrongest
  <2>1. pc' = "track" /\ request' = request /\ request.source # "list"
    BY <1>3 DEF TakeStrongest
  <2>2. PeriodsKnown' /\ StrongestBinsChosen' /\ RequestKnown'
    BY <1>3, StrongestTaken
  <2>3. ResultKnown'
    BY <2>1 DEF ResultKnown
  <2> QED
    BY <2>1, <2>2, <2>3 DEF Inv, Promises, GivenPeriodsKept, ArraysAreParallel, DominantIsBest, TopIsDominant
<1>4. CASE TrackNothing \/ TrackAccepted \/ Promote \/ KeepOriginal
  <2>1. Tracks
    BY <1>4 DEF TrackNothing, TrackAccepted, Promote, KeepOriginal
  <2>2. pc' = "fetch" /\ RequestKnown' /\ PeriodsKnown'
    BY <2>1, TracksWhat
  <2>3. ResultKnown' /\ ArraysAreParallel' /\ DominantIsBest'
    BY <1>4, NothingTracked, SomeAccepted, OnePromoted, OriginalKept
  <2> QED
    BY <2>2, <2>3 DEF Inv, Promises, GivenPeriodsKept, StrongestBinsChosen, TopIsDominant
<1>5. CASE Draw
  <2>1. pc' = "done" /\ request' = request /\ energy' = energy
    BY <1>5 DEF Draw
  <2>2. TopIsDominant'
    BY <1>5, BestDrawn
  <2> QED
    BY <2>1, <2>2 DEF Inv, RequestKnown, PeriodsKnown, ResultKnown, Promises, GivenPeriodsKept,
                      StrongestBinsChosen, ArraysAreParallel, DominantIsBest
<1>6. CASE UNCHANGED vars
  <2>1. /\ pc' = pc /\ request' = request /\ energy' = energy /\ periods' = periods
        /\ result' = result /\ lock' = lock /\ drawn' = drawn
    BY <1>6 DEF vars
  <2>2. Inv'
    BY <2>1 DEF Inv, RequestKnown, PeriodsKnown, ResultKnown
  <2>3. GivenPeriodsKept' /\ ArraysAreParallel' /\ DominantIsBest' /\ TopIsDominant'
    BY <2>1 DEF Promises, GivenPeriodsKept, ArraysAreParallel, DominantIsBest, TopIsDominant, Found
  <2>4. StrongestBinsChosen'
    <3>1. Found' = Found /\ Target' = Target
      BY <2>1 DEF Found, Target
    <3>2. \A b : EnergyOf(energy, b)' = EnergyOf(energy, b)
      BY <2>1 DEF EnergyOf, InBand
    <3>3. {b \in Bins : EnergyOf(energy, b)' > 0} = {b \in Bins : EnergyOf(energy, b) > 0}
      BY <3>2
    <3> QED
      BY <2>1, <3>1, <3>2, <3>3 DEF Promises, StrongestBinsChosen
  <2> QED
    BY <2>2, <2>3, <2>4 DEF Promises
<1> QED
  BY <1>1, <1>2, <1>3, <1>4, <1>5, <1>6 DEF Next

LEMMA AlwaysPromised == Spec => [](Inv /\ Promises)
<1>1. Inv /\ Promises /\ [Next]_vars => (Inv /\ Promises)'
  BY Preserved
<1> QED
  BY Begins, <1>1, PTL DEF Spec

\* For any list of periods: TakeGiven, which refills the list it reads, keeps
\* exactly the entries that are periods, in their order.
THEOREM GivenSurvive == Spec => []GivenPeriodsKept
  BY AlwaysPromised, PTL DEF Promises

\* For any spectrum and any order std::sort leaves bins of equal energy in,
\* TakeStrongest takes bins of which no two are neighbours, none out of a band
\* with any energy, and leaves a loud one out only for as strong ones.
THEOREM StrongestAreTaken == Spec => []StrongestBinsChosen
  BY AlwaysPromised, PTL DEF Promises

\* No request gets more cycles than it names, or than the engine has room for.
THEOREM RoomForAll == Spec => []FitsTheRequest
  BY AlwaysPromised, InvFits, PTL

\* Selection and its fallbacks leave the arrays of the result parallel.
THEOREM ResultsParallel == Spec => []ArraysAreParallel
  BY AlwaysPromised, PTL DEF Promises

\* The dominant cycle is the best locked of all the filters tried.
THEOREM BestIsDominant == Spec => []DominantIsBest
  BY AlwaysPromised, PTL DEF Promises

\* The cycle the indicator ranks first is the engine's dominant one.
THEOREM DominantIsDrawnFirst == Spec => []TopIsDominant
  BY AlwaysPromised, PTL DEF Promises
=============================================================================
