------------------------- MODULE TrackASourceLemmas -------------------------
(***************************************************************************)
(* What the operators of the assembly compute: the rows of a mask, and     *)
(* sequences laid end to end.  The claims are about every length, so each  *)
(* is an induction over the naturals; an induction theorem that takes a    *)
(* predicate cannot be instantiated here, and NatSetInduction says the     *)
(* same of a set, from the least element of its complement.                *)
(***************************************************************************)
EXTENDS TrackASource, FiniteSetTheorems, SequenceTheorems, WellFoundedInduction, TLAPS

LEMMA Monotone ==
    ASSUME NEW m \in Nat, NEW a \in Nat, NEW b \in Nat, a <= b
    PROVE  a * m <= b * m
<1>1. PICK d \in Nat : b = a + d
    <2>1. b - a \in Nat /\ b = a + (b - a)
        OBVIOUS
    <2> QED
        BY <2>1
<1>2. b * m = a * m + d * m
    BY <1>1
<1>3. a * m \in Nat /\ d * m \in Nat
    BY <1>1
<1> QED
    BY <1>2, <1>3

-----------------------------------------------------------------------------
(* Induction over the naturals, for a set in place of a predicate.          *)
LEMMA NatSetInduction ==
    ASSUME NEW T, 0 \in T, \A n \in Nat : n \in T => n + 1 \in T
    PROVE  Nat \subseteq T
<1> DEFINE S == Nat \ T
           R == {pair \in Nat \X Nat : pair[1] < pair[2]}
<1>1. SUFFICES ASSUME S # {} PROVE FALSE
    OBVIOUS
<1>2. IsWellFoundedOn(R, Nat)
    BY NatLessThanWellFounded DEF OpToRel
<1>3. S \subseteq Nat
    OBVIOUS
<1> HIDE DEF R
<1>4. PICK n \in S : \A m \in S : ~ (<<m, n>> \in R)
    <2> HIDE DEF S
    <2> QED
        BY <1>1, <1>2, <1>3, WFMin
<1>5. \A m \in S : ~(m < n)
    BY <1>4 DEF R
<1>6. n # 0 /\ n - 1 \in Nat /\ n - 1 \in T
    BY <1>4, <1>5
<1> QED
    BY <1>4, <1>6

-----------------------------------------------------------------------------
(* The places of a mask in order. *)

Ascending(f) == \A i, j \in DOMAIN f : i < j => f[i] < f[j]

(* A set of places can be listed in order. *)
LEMMA Listed ==
    ASSUME NEW n \in Nat
    PROVE  \A P \in SUBSET (1..n) : \E f \in [1..Cardinality(P) -> P] : Ascending(f)
<1> DEFINE Ok(k) == \A P \in SUBSET (1..k) : \E f \in [1..Cardinality(P) -> P] : Ascending(f)
           T == {k \in Nat : Ok(k)}
<1>1. 0 \in T
    <2> SUFFICES ASSUME NEW P \in SUBSET (1..0)
                 PROVE  \E f \in [1..Cardinality(P) -> P] : Ascending(f)
        OBVIOUS
    <2>0. P = {}
        <3>1. \A x \in P : x \in 1..0
            OBVIOUS
        <3> QED
            BY <3>1
    <2>1. 1..Cardinality(P) = {}
        BY <2>0, FS_EmptySet
    <2>2. PICK f : f = [i \in {} |-> i]
        OBVIOUS
    <2>3. f \in [{} -> P] /\ Ascending(f)
        BY <2>2 DEF Ascending
    <2> QED
        BY <2>1, <2>3
<1>2. ASSUME NEW k \in Nat, Ok(k) PROVE Ok(k + 1)
    <2> SUFFICES ASSUME NEW P \in SUBSET (1..(k + 1))
                 PROVE  \E f \in [1..Cardinality(P) -> P] : Ascending(f)
        OBVIOUS
    <2>1. CASE k + 1 \notin P
        <3>1. P \in SUBSET (1..k)
            BY <2>1
        <3> QED
            BY <1>2, <3>1
    <2>2. CASE k + 1 \in P
        <3>1. PICK Q : Q = P \ {k + 1}
            OBVIOUS
        <3>2. Q \in SUBSET (1..k) /\ P = Q \cup {k + 1} /\ k + 1 \notin Q
            BY <2>2, <3>1
        <3>3. IsFiniteSet(Q)
            <4>1. IsFiniteSet(1..k)
                BY FS_Interval
            <4> QED
                BY <3>2, <4>1, FS_Subset
        <3>4. PICK c : c = Cardinality(Q)
            OBVIOUS
        <3>5. c \in Nat /\ Cardinality(P) = c + 1
            BY <3>2, <3>3, <3>4, FS_CardinalityType, FS_AddElement
        <3>6. PICK f \in [1..c -> Q] : Ascending(f)
            BY <1>2, <3>2, <3>4
        <3>7. PICK g : g = [i \in 1..(c + 1) |-> IF i <= c THEN f[i] ELSE k + 1]
            OBVIOUS
        <3>8. ASSUME NEW i \in 1..c PROVE f[i] \in P /\ f[i] \in 1..k /\ g[i] = f[i]
            <4>1. f[i] \in Q
                BY <3>6, <3>8
            <4>2. f[i] \in P /\ f[i] \in 1..k
                BY <3>2, <4>1
            <4>3. i \in 1..(c + 1) /\ i <= c
                BY <3>5, <3>8
            <4> QED
                BY <3>7, <4>2, <4>3
        <3>9. g[c + 1] = k + 1
            BY <3>5, <3>7
        <3>10. g \in [1..(c + 1) -> P]
            BY <2>2, <3>5, <3>7, <3>8
        <3>11. ASSUME NEW i \in 1..(c + 1), NEW j \in 1..(c + 1), i < j
               PROVE  g[i] < g[j]
            <4>1. i \in 1..c
                BY <3>5, <3>11
            <4>2. CASE j \in 1..c
                BY <3>6, <3>8, <3>11, <4>1, <4>2 DEF Ascending
            <4>3. CASE j = c + 1
                BY <3>8, <3>9, <4>1, <4>3
            <4> QED
                BY <3>5, <4>2, <4>3
        <3> QED
            BY <3>5, <3>10, <3>11 DEF Ascending
    <2> QED
        BY <2>1, <2>2
<1>3. Nat \subseteq T
    <2> HIDE DEF Ok
    <2>1. \A k \in Nat : k \in T => k + 1 \in T
        BY <1>2
    <2> HIDE DEF T
    <2> QED
        BY <1>1, <2>1, NatSetInduction
<1> QED
    BY <1>3

(* InOrder lists all the places, each once and in order.                    *)
LEMMA InOrderLists ==
    ASSUME NEW n \in Nat, NEW P \in SUBSET (1..n)
    PROVE  /\ Cardinality(P) \in Nat
           /\ InOrder(P) \in [1..Cardinality(P) -> P] /\ Ascending(InOrder(P))
           /\ \A x \in P : \E i \in 1..Cardinality(P) : InOrder(P)[i] = x
<1>1. IsFiniteSet(P)
    <2>1. IsFiniteSet(1..n)
        BY FS_Interval
    <2> QED
        BY <2>1, FS_Subset
<1>2. PICK c : c = Cardinality(P)
    OBVIOUS
<1>3. c \in Nat
    BY <1>1, <1>2, FS_CardinalityType
<1>4. PICK f : f = InOrder(P)
    OBVIOUS
<1>5. f \in [1..c -> P] /\ Ascending(f)
    BY <1>2, <1>4, Listed DEF InOrder, Ascending
<1>6. IsInjective(f)
    <2>1. ASSUME NEW i \in 1..c, NEW j \in 1..c, f[i] = f[j] PROVE i = j
        <3>1. (i < j => f[i] < f[j]) /\ (j < i => f[j] < f[i])
            BY <1>5 DEF Ascending
        <3>2. f[i] \in P
            BY <1>5
        <3>3. f[i] \in Nat
            <4>1. f[i] \in 1..n
                BY <3>2
            <4> QED
                BY <4>1
        <3>4. ~(i < j) /\ ~(j < i)
            BY <2>1, <3>1, <3>3
        <3> QED
            BY <1>3, <3>4
    <2> QED
        BY <1>5, <2>1 DEF IsInjective
<1>7. IsFiniteSet(1..c) /\ Cardinality(1..c) = c
    BY <1>3, FS_Interval
<1>8. f \in Surjection(1..c, P)
    <2>1. f \in Injection(1..c, P)
        BY <1>5, <1>6 DEF Injection
    <2> QED
        BY <1>1, <1>2, <1>7, <2>1, FS_Injection
<1> QED
    BY <1>2, <1>3, <1>4, <1>5, <1>8 DEF Surjection

(* There is only one way to list a set in order.                            *)
Lists(f, n, S) ==
    /\ n \in Nat /\ f \in [1..n -> S] /\ Ascending(f)
    /\ \A x \in S : \E i \in 1..n : f[i] = x

LEMMA ListedAlike ==
    ASSUME NEW S \in SUBSET Nat, NEW m, NEW n, NEW f, NEW g, Lists(f, m, S), Lists(g, n, S)
    PROVE  m <= n /\ \A i \in 1..m : f[i] = g[i]
<1>0. /\ m \in Nat /\ f \in [1..m -> S] /\ Ascending(f) /\ \A x \in S : \E i \in 1..m : f[i] = x
      /\ n \in Nat /\ g \in [1..n -> S] /\ Ascending(g) /\ \A x \in S : \E i \in 1..n : g[i] = x
    BY DEF Lists
<1> DEFINE Ok(k) == \A i \in 1..k : i <= m => i <= n /\ f[i] = g[i]
           T == {k \in Nat : Ok(k)}
<1>1. 0 \in T
    OBVIOUS
<1>2. ASSUME NEW k \in Nat, Ok(k), k + 1 <= m PROVE k + 1 <= n /\ f[k + 1] = g[k + 1]
    <2>1. k + 1 \in 1..m /\ f[k + 1] \in S
        BY <1>0, <1>2
    <2>2. PICK a \in 1..n : g[a] = f[k + 1]
        BY <1>0, <2>1
    <2>3. a >= k + 1
        <3> SUFFICES ASSUME a <= k PROVE FALSE
            OBVIOUS
        <3>1. a \in 1..k /\ a \in 1..m /\ f[a] = g[a]
            BY <1>0, <1>2
        <3>2. f[a] < f[k + 1]
            <4>1. a \in DOMAIN f /\ k + 1 \in DOMAIN f /\ a < k + 1
                BY <1>0, <2>1, <3>1
            <4> QED
                BY <1>0, <4>1 DEF Ascending
        <3>3. f[a] \in Nat
            BY <1>0, <3>1
        <3> QED
            BY <1>0, <2>2, <3>1, <3>2, <3>3
    <2>4. k + 1 \in 1..n /\ g[k + 1] \in S
        BY <1>0, <2>3
    <2>5. PICK b \in 1..m : f[b] = g[k + 1]
        BY <1>0, <2>4
    <2>6. b >= k + 1
        <3> SUFFICES ASSUME b <= k PROVE FALSE
            OBVIOUS
        <3>1. b \in 1..k /\ b \in 1..n /\ f[b] = g[b]
            BY <1>0, <1>2
        <3>2. g[b] < g[k + 1]
            <4>1. b \in DOMAIN g /\ k + 1 \in DOMAIN g /\ b < k + 1
                BY <1>0, <2>4, <3>1
            <4> QED
                BY <1>0, <4>1 DEF Ascending
        <3>3. g[b] \in Nat
            BY <1>0, <3>1
        <3> QED
            BY <1>0, <2>5, <3>1, <3>2, <3>3
    <2>7. f[k + 1] <= f[b] /\ g[k + 1] <= g[a] /\ f[k + 1] \in Nat /\ g[k + 1] \in Nat
        <3>1. f[k + 1] \in Nat /\ f[b] \in Nat /\ g[k + 1] \in Nat /\ g[a] \in Nat
            BY <1>0, <2>1, <2>4
        <3>2. (k + 1 < b => f[k + 1] < f[b]) /\ (k + 1 < a => g[k + 1] < g[a])
            BY <1>0, <2>1, <2>4 DEF Ascending
        <3>3. f[k + 1] <= f[b]
            BY <2>6, <3>1, <3>2
        <3>4. g[k + 1] <= g[a]
            BY <2>3, <3>1, <3>2
        <3> QED
            BY <3>1, <3>3, <3>4
    <2>8. f[k + 1] <= g[k + 1] /\ g[k + 1] <= f[k + 1]
        BY <1>0, <2>2, <2>5, <2>7
    <2> QED
        BY <1>0, <2>4, <2>7, <2>8
<1>3. \A k \in Nat : k \in T => k + 1 \in T
    <2>1. ASSUME NEW k \in Nat, Ok(k), NEW i \in 1..(k + 1), i <= m
          PROVE  i <= n /\ f[i] = g[i]
        <3>1. i \in 1..k \/ i = k + 1
            BY <1>0, <2>1
        <3> QED
            BY <1>0, <1>2, <2>1, <3>1
    <2>2. \A k \in Nat : Ok(k) => Ok(k + 1)
        BY <1>0, <2>1
    <2> HIDE DEF Ok
    <2> QED
        BY <1>0, <2>2
<1>4. m \in T
    <2> HIDE DEF T
    <2> QED
        BY <1>0, <1>1, <1>3, NatSetInduction
<1> QED
    BY <1>0, <1>4

LEMMA OneOrder ==
    ASSUME NEW S \in SUBSET Nat, NEW m, NEW n, NEW f, NEW g, Lists(f, m, S), Lists(g, n, S)
    PROVE  f = g
<1>1. m <= n /\ \A i \in 1..m : f[i] = g[i]
    BY ListedAlike
<1>2. n <= m
    BY ListedAlike
<1>3. m \in Nat /\ n \in Nat /\ f \in [1..m -> S] /\ g \in [1..n -> S]
    BY DEF Lists
<1>4. m = n
    BY <1>1, <1>2, <1>3
<1> QED
    BY <1>1, <1>3, <1>4

LEMMA InOrderIsTheList ==
    ASSUME NEW n \in Nat, NEW P \in SUBSET (1..n)
    PROVE  Lists(InOrder(P), Cardinality(P), P)
BY InOrderLists DEF Lists

Places(P, n) == n \in Nat /\ P \in SUBSET (1..n)

Selects(out, rows, V, P, c, f) ==
    /\ c \in Nat /\ out \in [1..c -> V]
    /\ \A i \in 1..c : f[i] \in P /\ out[i] = rows[f[i]]
    /\ \A x \in P : \E i \in 1..c : f[i] = x /\ out[i] = rows[x]

(* The rows of a mask are those at its places, each once and in order.      *)
LEMMA MaskedRows ==
    ASSUME NEW n, NEW P, Places(P, n), NEW V, NEW rows \in [1..n -> V]
    PROVE  Selects(Masked(rows, P), rows, V, P, Cardinality(P), InOrder(P))
<1>0. n \in Nat /\ P \in SUBSET (1..n)
    BY DEF Places
<1>1. PICK c, f : c = Cardinality(P) /\ f = InOrder(P)
    OBVIOUS
<1>2. /\ c \in Nat /\ f \in [1..c -> P] /\ \A x \in P : \E i \in 1..c : f[i] = x
    BY <1>0, <1>1, InOrderLists
<1>3. Masked(rows, P) = [i \in 1..c |-> rows[f[i]]]
    BY <1>1, <1>2 DEF Masked
<1>4. ASSUME NEW i \in 1..c PROVE f[i] \in P /\ rows[f[i]] \in V
    <2>1. f[i] \in P
        BY <1>2
    <2>2. f[i] \in 1..n
        BY <1>0, <2>1
    <2> QED
        BY <2>1, <2>2
<1>5. [i \in 1..c |-> rows[f[i]]] \in [1..c -> V]
    BY <1>4
<1>6. Selects([i \in 1..c |-> rows[f[i]]], rows, V, P, c, f)
    BY <1>2, <1>4, <1>5 DEF Selects
<1> QED
    BY <1>1, <1>3, <1>6

LEMMA MaskedOnce ==
    ASSUME NEW n, NEW P, Places(P, n), NEW V, NEW rows \in [1..n -> V], IsInjective(rows)
    PROVE  IsInjective(Masked(rows, P))
<1>1. PICK c, f, out : c = Cardinality(P) /\ f = InOrder(P) /\ out = Masked(rows, P)
    OBVIOUS
<1>2. Selects(out, rows, V, P, c, f)
    BY <1>1, MaskedRows
<1>3. c \in Nat /\ f \in [1..c -> P] /\ Ascending(f) /\ P \in SUBSET (1..n)
    BY <1>1, InOrderLists DEF Places
<1>4. /\ DOMAIN out = 1..c
      /\ \A i \in 1..c : f[i] \in 1..n /\ f[i] \in Nat /\ out[i] = rows[f[i]]
    <2>1. \A x \in P : x \in 1..n /\ x \in Nat
        BY <1>3
    <2> QED
        BY <1>2, <2>1 DEF Selects
<1>5. ASSUME NEW i \in 1..c, NEW j \in 1..c, out[i] = out[j] PROVE i = j
    <2>1. f[i] = f[j]
        BY <1>4, <1>5 DEF IsInjective
    <2>2. (i < j => f[i] < f[j]) /\ (j < i => f[j] < f[i])
        BY <1>3 DEF Ascending
    <2>3. ~(i < j) /\ ~(j < i)
        BY <1>4, <2>1, <2>2
    <2> QED
        BY <1>3, <2>3
<1> QED
    BY <1>1, <1>4, <1>5 DEF IsInjective

(* Any list of the places in order gives the same rows.                     *)
Picked(rows, f, c) == [i \in 1..c |-> rows[f[i]]]

LEMMA MaskedAs ==
    ASSUME NEW rows, NEW n, NEW P, Places(P, n), NEW f, NEW c, Lists(f, c, P)
    PROVE  Masked(rows, P) = Picked(rows, f, c)
<1> USE DEF Places
<1>1. Lists(InOrder(P), Cardinality(P), P)
    BY InOrderIsTheList
<1>2. P \in SUBSET Nat
    <2>1. \A x \in 1..n : x \in Nat
        OBVIOUS
    <2> QED
        BY <2>1
<1>3. f = InOrder(P)
    BY <1>1, <1>2, OneOrder
<1>4. DOMAIN f = 1..c
    BY DEF Lists
<1> QED
    BY <1>3, <1>4 DEF Masked, Picked

(* A mask of a mask is a mask.                                              *)
LEMMA MaskedTwice ==
    ASSUME NEW n, NEW rows, NEW P, NEW Q,
           Places(P, n), Places(Q, Cardinality(P))
    PROVE  Masked(Masked(rows, P), Q) = Masked(rows, {InOrder(P)[i] : i \in Q})
<1>0. n \in Nat /\ P \in SUBSET (1..n) /\ Q \in SUBSET (1..Cardinality(P))
    BY DEF Places
<1>1. PICK f, g, c, d, S, m :
          /\ f = InOrder(P) /\ c = Cardinality(P) /\ m = Masked(rows, P)
          /\ g = InOrder(Q) /\ d = Cardinality(Q) /\ S = {f[i] : i \in Q}
    OBVIOUS
<1>2. /\ c \in Nat /\ f \in [1..c -> P] /\ Ascending(f)
    BY <1>0, <1>1, InOrderLists
<1>3. Q \in SUBSET (1..c)
    BY <1>0, <1>1
<1>4. Lists(g, d, Q)
    BY <1>1, <1>2, <1>3, InOrderIsTheList
<1>5. /\ d \in Nat /\ g \in [1..d -> Q] /\ Ascending(g)
      /\ \A x \in Q : \E i \in 1..d : g[i] = x
    BY <1>4 DEF Lists
<1>6. \A i \in 1..d : g[i] \in Q /\ g[i] \in 1..c /\ g[i] \in DOMAIN f
    BY <1>2, <1>3, <1>5
<1>7. PICK h : h = [i \in 1..d |-> f[g[i]]]
    OBVIOUS
<1>8. Lists(h, d, S)
    <2>1. h \in [1..d -> S]
        BY <1>1, <1>6, <1>7
    <2>2. ASSUME NEW i \in 1..d, NEW j \in 1..d, i < j PROVE h[i] < h[j]
        <3>1. g[i] < g[j]
            BY <1>5, <2>2 DEF Ascending
        <3> QED
            BY <1>2, <1>6, <1>7, <3>1 DEF Ascending
    <2>3. ASSUME NEW x \in S PROVE \E i \in 1..d : h[i] = x
        <3>1. PICK q \in Q : x = f[q]
            BY <1>1
        <3> QED
            BY <1>5, <1>7, <3>1
    <2> QED
        BY <1>5, <2>1, <2>2, <2>3 DEF Lists, Ascending
<1>9. S \in SUBSET (1..n)
    BY <1>0, <1>1, <1>2, <1>3
<1>10. Places(S, n) /\ Places(Q, c)
    BY <1>0, <1>2, <1>3, <1>9 DEF Places
<1>11. Masked(rows, S) = Picked(rows, h, d) /\ Masked(m, Q) = Picked(m, g, d)
    BY <1>4, <1>8, <1>10, MaskedAs
<1>12. m = [i \in 1..c |-> rows[f[i]]]
    BY <1>1, <1>2 DEF Masked
<1>13. \A i \in 1..d : m[g[i]] = rows[h[i]]
    BY <1>6, <1>7, <1>12
<1>14. Picked(rows, h, d) = Picked(m, g, d)
    BY <1>13 DEF Picked
<1>15. Masked(m, Q) = Masked(rows, S)
    BY <1>11, <1>14
<1> QED
    BY <1>1, <1>15

(* A mask of a part is the mask of the whole, moved to the part's place.    *)
PartAt(part, rows, o, m, n) ==
    /\ n \in Nat /\ o \in Nat /\ m \in Nat /\ o + m <= n
    /\ \A j \in 1..m : part[j] = rows[o + j]

LEMMA MaskedPart ==
    ASSUME NEW n, NEW rows, NEW o, NEW m, NEW part, PartAt(part, rows, o, m, n),
           NEW P, Places(P, m)
    PROVE  Masked(part, P) = Masked(rows, {o + j : j \in P})
<1>0. /\ n \in Nat /\ o \in Nat /\ m \in Nat /\ o + m <= n /\ P \in SUBSET (1..m)
      /\ \A j \in 1..m : part[j] = rows[o + j]
    BY DEF PartAt, Places
<1>1. PICK f, c, S : f = InOrder(P) /\ c = Cardinality(P) /\ S = {o + j : j \in P}
    OBVIOUS
<1>2. Lists(f, c, P)
    BY <1>0, <1>1, InOrderIsTheList
<1>3. /\ c \in Nat /\ f \in [1..c -> P] /\ Ascending(f)
      /\ \A x \in P : \E i \in 1..c : f[i] = x
    BY <1>2 DEF Lists
<1>4. \A i \in 1..c : f[i] \in P /\ f[i] \in 1..m
    BY <1>0, <1>3
<1>5. PICK h : h = [i \in 1..c |-> o + f[i]]
    OBVIOUS
<1>6. Lists(h, c, S)
    <2>1. h \in [1..c -> S]
        BY <1>0, <1>1, <1>4, <1>5
    <2>2. ASSUME NEW i \in 1..c, NEW j \in 1..c, i < j PROVE h[i] < h[j]
        <3>1. f[i] < f[j] /\ f[i] \in Nat /\ f[j] \in Nat
            BY <1>0, <1>3, <1>4, <2>2 DEF Ascending
        <3> QED
            BY <1>0, <1>5, <3>1
    <2>3. ASSUME NEW x \in S PROVE \E i \in 1..c : h[i] = x
        <3>1. PICK q \in P : x = o + q
            BY <1>1
        <3> QED
            BY <1>3, <1>5, <3>1
    <2> QED
        BY <1>3, <2>1, <2>2, <2>3 DEF Lists, Ascending
<1>7. S \in SUBSET (1..n)
    <2>1. ASSUME NEW j \in P PROVE o + j \in 1..n
        <3>1. j \in 1..m
            BY <1>0
        <3> QED
            BY <1>0, <3>1
    <2> QED
        BY <1>1, <2>1
<1>8. Masked(rows, S) = Picked(rows, h, c)
    <2>1. Places(S, n)
        BY <1>0, <1>7 DEF Places
    <2> QED
        BY ONLY <1>6, <2>1, MaskedAs
<1>9. Masked(part, P) = Picked(part, f, c)
    BY ONLY <1>2, Places(P, m), MaskedAs
<1>10. \A i \in 1..c : part[f[i]] = rows[h[i]]
    BY <1>0, <1>4, <1>5
<1>11. Picked(rows, h, c) = Picked(part, f, c)
    BY <1>10 DEF Picked
<1>12. Masked(part, P) = Masked(rows, S)
    BY <1>8, <1>9, <1>11
<1> QED
    BY <1>1, <1>12

-----------------------------------------------------------------------------
(* Sequences laid end to end. *)

Flattens(f, seqs, n) ==
    f = [i \in 1..n |-> IF i = 1 THEN seqs[i] ELSE f[i - 1] \o seqs[i]]

LEMMA FlattenExists ==
    ASSUME NEW seqs, NEW n \in Nat
    PROVE  \E f : Flattens(f, seqs, n)
<1> DEFINE T == {k \in Nat : \E f : Flattens(f, seqs, k)}
<1>1. 0 \in T
    <2>1. PICK f : f = [i \in {} |-> i]
        OBVIOUS
    <2>2. 1..0 = {}
        OBVIOUS
    <2>3. Flattens(f, seqs, 0)
        BY <2>1, <2>2 DEF Flattens
    <2> QED
        BY <2>3
<1>2. ASSUME NEW k \in Nat, NEW f, Flattens(f, seqs, k)
      PROVE  \E g : Flattens(g, seqs, k + 1)
    <2>1. PICK g : g = [i \in 1..(k + 1) |-> IF i <= k THEN f[i]
                                             ELSE IF i = 1 THEN seqs[i] ELSE f[k] \o seqs[i]]
        OBVIOUS
    <2>2. \A i \in 1..(k + 1) :
              g[i] = IF i = 1 THEN seqs[i] ELSE g[i - 1] \o seqs[i]
        <3>1. ASSUME NEW i \in 1..k PROVE g[i] = IF i = 1 THEN seqs[i] ELSE g[i - 1] \o seqs[i]
            <4>0. f[i] = IF i = 1 THEN seqs[i] ELSE f[i - 1] \o seqs[i]
                BY <1>2 DEF Flattens
            <4>1. g[i] = f[i]
                BY <2>1
            <4>2. i # 1 => g[i - 1] = f[i - 1]
                BY <2>1
            <4> QED
                BY <4>0, <4>1, <4>2
        <3>2. ASSUME NEW i \in 1..(k + 1), i = k + 1
              PROVE  g[i] = IF i = 1 THEN seqs[i] ELSE g[i - 1] \o seqs[i]
            <4>1. g[i] = IF i = 1 THEN seqs[i] ELSE f[k] \o seqs[i]
                BY <2>1, <3>2
            <4>2. i # 1 => g[i - 1] = f[k]
                BY <2>1, <3>2
            <4> QED
                BY <4>1, <4>2
        <3>3. \A i \in 1..(k + 1) : i \in 1..k \/ i = k + 1
            OBVIOUS
        <3> QED
            BY <3>1, <3>2, <3>3
    <2>3. g = [i \in 1..(k + 1) |-> IF i = 1 THEN seqs[i] ELSE g[i - 1] \o seqs[i]]
        BY <2>1, <2>2
    <2> QED
        BY <2>3 DEF Flattens
<1>3. \A k \in Nat : k \in T => k + 1 \in T
    BY <1>2
<1> QED
    <2> HIDE DEF T
    <2>1. n \in T
        BY <1>1, <1>3, NatSetInduction
    <2> QED
        BY <2>1 DEF T

Unfolded(f, seqs, n) ==
    /\ f[1] = seqs[1]
    /\ \A i \in 1..n : i + 1 \in 1..n => f[i + 1] = f[i] \o seqs[i + 1]
    /\ FlattenSeq(seqs) = f[n]

LEMMA FlattenUnfolds ==
    ASSUME NEW seqs, NEW n \in Nat, n = Len(seqs), n # 0
    PROVE  \E f : Unfolded(f, seqs, n)
<1>1. \E f : f = [i \in 1..n |-> IF i = 1 THEN seqs[i] ELSE f[i - 1] \o seqs[i]]
    BY FlattenExists DEF Flattens
<1>2. PICK f : /\ f = [i \in 1..n |-> IF i = 1 THEN seqs[i] ELSE f[i - 1] \o seqs[i]]
               /\ FlattenSeq(seqs) = f[n]
    BY <1>1 DEF FlattenSeq
<1>3. f[1] = seqs[1]
    BY <1>2
<1>4. ASSUME NEW i \in 1..n, i + 1 \in 1..n PROVE f[i + 1] = f[i] \o seqs[i + 1]
    <2>1. i + 1 # 1 /\ (i + 1) - 1 = i
        OBVIOUS
    <2>2. f[i + 1] = IF i + 1 = 1 THEN seqs[i + 1] ELSE f[(i + 1) - 1] \o seqs[i + 1]
        BY <1>2, <1>4
    <2> QED
        BY <2>1, <2>2
<1> QED
    BY <1>2, <1>3, <1>4 DEF Unfolded

(* Sequences of one length: where each element is.                          *)
OneLength(seqs, n, V, m) ==
    /\ m \in Nat /\ n \in Nat /\ n # 0 /\ n = Len(seqs)
    /\ \A k \in 1..n : seqs[k] \in Seq(V) /\ Len(seqs[k]) = m

LEMMA FlattenEqual ==
    ASSUME NEW V, NEW m, NEW n, NEW seqs, OneLength(seqs, n, V, m)
    PROVE  /\ FlattenSeq(seqs) \in Seq(V) /\ Len(FlattenSeq(seqs)) = n * m
           /\ \A k \in 1..n : \A j \in 1..m : FlattenSeq(seqs)[(k - 1) * m + j] = seqs[k][j]
<1> USE DEF OneLength
<1>0. PICK f : Unfolded(f, seqs, n)
    BY FlattenUnfolds
<1>1. /\ f[1] = seqs[1]
      /\ \A i \in 1..n : i + 1 \in 1..n => f[i + 1] = f[i] \o seqs[i + 1]
      /\ FlattenSeq(seqs) = f[n]
    BY <1>0 DEF Unfolded
<1> DEFINE Ok(i) == /\ f[i] \in Seq(V) /\ Len(f[i]) = i * m
                    /\ \A k \in 1..i : \A j \in 1..m : f[i][(k - 1) * m + j] = seqs[k][j]
           T == {i \in Nat : i + 1 \in 1..n => Ok(i + 1)}
<1>2. Ok(1)
    <2>1. 1 \in 1..n
        OBVIOUS
    <2>2. f[1] \in Seq(V) /\ Len(f[1]) = 1 * m
        BY <1>1, <2>1
    <2>3. ASSUME NEW k \in 1..1, NEW j \in 1..m PROVE f[1][(k - 1) * m + j] = seqs[k][j]
        <3>1. k = 1 /\ (1 - 1) * m + j = j
            OBVIOUS
        <3> QED
            BY <1>1, <3>1
    <2> QED
        BY <2>2, <2>3
<1>3. ASSUME NEW i \in 1..n, i + 1 \in 1..n, Ok(i) PROVE Ok(i + 1)
    <2>1. PICK a, b : a = f[i] /\ b = seqs[i + 1]
        OBVIOUS
    <2>2. f[i + 1] = a \o b
        BY <1>1, <1>3, <2>1
    <2>3. a \in Seq(V) /\ Len(a) = i * m /\ b \in Seq(V) /\ Len(b) = m
        BY <1>3, <2>1
    <2>4. PICK q \in Nat : q = i * m /\ (i + 1) * m = q + m
        <3>1. i * m \in Nat /\ (i + 1) * m = i * m + m
            OBVIOUS
        <3> QED
            BY <3>1
    <2>5. /\ a \o b \in Seq(V) /\ Len(a \o b) = q + m
          /\ \A j \in 1..q : (a \o b)[j] = a[j]
          /\ \A j \in 1..m : (a \o b)[q + j] = b[j]
        <3>1. a \in Seq(V) /\ Len(a) = q /\ b \in Seq(V) /\ Len(b) = m
            BY <2>3, <2>4
        <3>2. a \o b \in Seq(V) /\ Len(a \o b) = q + m
            BY <3>1, ConcatProperties
        <3>3. ASSUME NEW j \in 1..q PROVE (a \o b)[j] = a[j]
            BY <3>1, ConcatProperties
        <3>4. ASSUME NEW j \in 1..m PROVE (a \o b)[q + j] = b[j]
            BY <3>1, ConcatProperties
        <3> QED
            BY <3>2, <3>3, <3>4
    <2>6. ASSUME NEW k \in 1..(i + 1), NEW j \in 1..m
          PROVE  (a \o b)[(k - 1) * m + j] = seqs[k][j]
        <3>1. CASE k = i + 1
            <4>1. (k - 1) * m = q
                BY <2>4, <3>1
            <4> QED
                BY <2>1, <2>5, <3>1, <4>1
        <3>2. CASE k \in 1..i
            <4>1. PICK h : h = (k - 1) * m /\ h \in Nat /\ h + m <= q
                <5>1. PICK d \in Nat : d = k - 1
                    BY <3>2
                <5>2. (d + 1) * m = d * m + m /\ d * m \in Nat
                    OBVIOUS
                <5>3. (d + 1) * m <= i * m
                    BY <3>2, <5>1, Monotone
                <5> QED
                    BY <2>4, <5>1, <5>2, <5>3
            <4>2. h + j \in 1..q
                <5>1. j \in Nat /\ 1 <= j /\ j <= m
                    OBVIOUS
                <5>2. h \in Nat /\ h + m <= q
                    BY <4>1
                <5> QED
                    BY <5>1, <5>2
            <4>3. a[h + j] = seqs[k][j]
                BY <1>3, <2>1, <3>2, <4>1
            <4> QED
                BY <2>5, <4>1, <4>2, <4>3
        <3>3. k \in 1..i \/ k = i + 1
            OBVIOUS
        <3> QED
            BY <3>1, <3>2, <3>3
    <2> QED
        BY <2>2, <2>4, <2>5, <2>6
<1>4. Ok(n)
    <2> HIDE DEF Ok
    <2>1. 0 \in T
        BY <1>2
    <2>2. \A i \in Nat : i \in T => i + 1 \in T
        <3> SUFFICES ASSUME NEW i \in Nat, i \in T, (i + 1) + 1 \in 1..n
                     PROVE  Ok((i + 1) + 1)
            OBVIOUS
        <3>1. i + 1 \in 1..n /\ Ok(i + 1)
            OBVIOUS
        <3> QED
            BY <1>3, <3>1
    <2>3. n - 1 \in Nat
        OBVIOUS
    <2>4. n - 1 \in T
        <3> HIDE DEF T
        <3> QED
            BY <2>1, <2>2, <2>3, NatSetInduction
    <2>5. (n - 1) + 1 = n /\ n \in 1..n
        OBVIOUS
    <2> QED
        BY <2>4, <2>5
<1> QED
    BY <1>1, <1>4

(* Sequences without a value in common, laid end to end: no value repeats.  *)
Disjoint(seqs, n, V) ==
    /\ n \in Nat /\ n # 0 /\ n = Len(seqs)
    /\ \A k \in 1..n : seqs[k] \in Seq(V) /\ IsInjective(seqs[k])
    /\ \A k, q \in 1..n : \A i \in DOMAIN seqs[k], j \in DOMAIN seqs[q] :
           seqs[k][i] = seqs[q][j] => k = q

LEMMA FlattenOnce ==
    ASSUME NEW V, NEW n, NEW seqs, Disjoint(seqs, n, V)
    PROVE  IsInjective(FlattenSeq(seqs))
<1> USE DEF Disjoint
<1>0. PICK f : Unfolded(f, seqs, n)
    BY FlattenUnfolds
<1>1. /\ f[1] = seqs[1]
      /\ \A i \in 1..n : i + 1 \in 1..n => f[i + 1] = f[i] \o seqs[i + 1]
      /\ FlattenSeq(seqs) = f[n]
    BY <1>0 DEF Unfolded
<1> DEFINE Ok(i) == /\ f[i] \in Seq(V) /\ IsInjective(f[i])
                    /\ \A x \in DOMAIN f[i] : \E k \in 1..i : \E j \in DOMAIN seqs[k] :
                           f[i][x] = seqs[k][j]
           T == {i \in Nat : i + 1 \in 1..n => Ok(i + 1)}
<1>2. Ok(1)
    <2>1. 1 \in 1..n
        OBVIOUS
    <2>2. f[1] \in Seq(V) /\ IsInjective(f[1])
        BY <1>1, <2>1
    <2>3. ASSUME NEW x \in DOMAIN f[1]
          PROVE  \E k \in 1..1 : \E j \in DOMAIN seqs[k] : f[1][x] = seqs[k][j]
        BY <1>1
    <2> QED
        BY <2>2, <2>3
<1>3. ASSUME NEW i \in 1..n, i + 1 \in 1..n, Ok(i) PROVE Ok(i + 1)
    <2>1. PICK a, b, p, q : a = f[i] /\ b = seqs[i + 1] /\ p = Len(a) /\ q = Len(b)
        OBVIOUS
    <2>2. f[i + 1] = a \o b
        BY <1>1, <1>3, <2>1
    <2>3. /\ a \in Seq(V) /\ IsInjective(a) /\ b \in Seq(V) /\ IsInjective(b)
        BY <1>3, <2>1
    <2>4. p \in Nat /\ q \in Nat /\ DOMAIN a = 1..p /\ DOMAIN b = 1..q
        BY <2>1, <2>3
    <2>5. a \o b \in Seq(V) /\ Len(a \o b) = p + q /\ DOMAIN (a \o b) = 1..(p + q)
        BY <2>1, <2>3, <2>4, ConcatProperties
    <2>6. \A x \in 1..(p + q) : (a \o b)[x] = IF x <= p THEN a[x] ELSE b[x - p]
        BY <2>1, <2>3, ConcatProperties
    <2>7. ASSUME NEW x \in 1..p
          PROVE  \E k \in 1..i : \E j \in DOMAIN seqs[k] : a[x] = seqs[k][j]
        <3>1. \A y \in DOMAIN f[i] : \E k \in 1..i : \E j \in DOMAIN seqs[k] : f[i][y] = seqs[k][j]
            BY <1>3
        <3>2. x \in DOMAIN f[i]
            BY <2>1, <2>4
        <3>3. PICK k \in 1..i : \E j \in DOMAIN seqs[k] : f[i][x] = seqs[k][j]
            BY <3>1, <3>2
        <3> QED
            BY <2>1, <3>3
    <2>8. \A x \in 1..p, y \in 1..q : a[x] # b[y]
        <3> SUFFICES ASSUME NEW x \in 1..p, NEW y \in 1..q, a[x] = b[y] PROVE FALSE
            OBVIOUS
        <3>0. PICK k \in 1..i : \E j \in DOMAIN seqs[k] : a[x] = seqs[k][j]
            BY <2>7
        <3>1. PICK j \in DOMAIN seqs[k] : a[x] = seqs[k][j]
            BY <3>0
        <3>2. k = i + 1
            <4>1. k \in 1..n /\ i + 1 \in 1..n
                BY <1>3
            <4>2. y \in DOMAIN seqs[i + 1] /\ seqs[k][j] = seqs[i + 1][y]
                BY <2>1, <2>4, <3>1
            <4> QED
                BY <4>1, <4>2
        <3> QED
            BY <3>2
    <2>9. IsInjective(a \o b)
        <3>1. ASSUME NEW x \in 1..(p + q), NEW y \in 1..(p + q), (a \o b)[x] = (a \o b)[y]
              PROVE  x = y
            <4>1. CASE x <= p /\ y <= p
                <5>1. x \in 1..p /\ y \in 1..p /\ a[x] = a[y]
                    BY <2>4, <2>6, <3>1, <4>1
                <5> QED
                    BY <2>3, <2>4, <5>1 DEF IsInjective
            <4>2. CASE ~(x <= p) /\ ~(y <= p)
                <5>1. x - p \in 1..q /\ y - p \in 1..q
                    BY <2>4, <4>2
                <5>2. b[x - p] = b[y - p]
                    BY <2>6, <3>1, <4>2
                <5>3. x - p = y - p
                    BY <2>3, <2>4, <5>1, <5>2 DEF IsInjective
                <5> QED
                    BY <2>4, <5>3
            <4>3. CASE x <= p /\ ~(y <= p)
                <5>1. x \in 1..p /\ y - p \in 1..q /\ a[x] = b[y - p]
                    BY <2>4, <2>6, <3>1, <4>3
                <5> QED
                    BY <2>8, <5>1
            <4>4. CASE ~(x <= p) /\ y <= p
                <5>1. y \in 1..p /\ x - p \in 1..q /\ a[y] = b[x - p]
                    BY <2>4, <2>6, <3>1, <4>4
                <5> QED
                    BY <2>8, <5>1
            <4> QED
                BY <4>1, <4>2, <4>3, <4>4
        <3> QED
            BY <2>5, <3>1 DEF IsInjective
    <2>10. ASSUME NEW x \in 1..(p + q)
           PROVE  \E k \in 1..(i + 1) : \E j \in DOMAIN seqs[k] : (a \o b)[x] = seqs[k][j]
        <3>1. CASE x <= p
            <4>1. x \in 1..p /\ (a \o b)[x] = a[x]
                BY <2>4, <2>6, <3>1
            <4>2. PICK k \in 1..i : \E j \in DOMAIN seqs[k] : a[x] = seqs[k][j]
                BY <2>7, <4>1
            <4>3. k \in 1..(i + 1)
                OBVIOUS
            <4> QED
                BY <4>1, <4>2, <4>3
        <3>2. CASE ~(x <= p)
            <4>1. x - p \in 1..q /\ (a \o b)[x] = b[x - p]
                BY <2>4, <2>6, <3>2
            <4>2. i + 1 \in 1..(i + 1)
                OBVIOUS
            <4> QED
                BY <2>1, <2>4, <4>1, <4>2
        <3> QED
            BY <3>1, <3>2
    <2>11. \A x \in DOMAIN (a \o b) : \E k \in 1..(i + 1) : \E j \in DOMAIN seqs[k] :
               (a \o b)[x] = seqs[k][j]
        BY <2>5, <2>10
    <2>12. f[i + 1] \in Seq(V) /\ IsInjective(f[i + 1])
        BY <2>2, <2>5, <2>9
    <2>13. \A x \in DOMAIN f[i + 1] : \E k \in 1..(i + 1) : \E j \in DOMAIN seqs[k] :
               f[i + 1][x] = seqs[k][j]
        <3>1. PICK e : e = a \o b
            OBVIOUS
        <3>2. f[i + 1] = e
            BY <2>2, <3>1
        <3>3. \A x \in DOMAIN e : \E k \in 1..(i + 1) : \E j \in DOMAIN seqs[k] : e[x] = seqs[k][j]
            BY <2>11, <3>1
        <3> QED
            BY ONLY <3>2, <3>3
    <2> QED
        BY <2>12, <2>13
<1>4. Ok(n)
    <2> HIDE DEF Ok
    <2>1. 0 \in T
        BY <1>2
    <2>2. \A i \in Nat : i \in T => i + 1 \in T
        <3> SUFFICES ASSUME NEW i \in Nat, i \in T, (i + 1) + 1 \in 1..n
                     PROVE  Ok((i + 1) + 1)
            OBVIOUS
        <3>1. i + 1 \in 1..n /\ Ok(i + 1)
            OBVIOUS
        <3> QED
            BY <1>3, <3>1
    <2>3. n - 1 \in Nat
        OBVIOUS
    <2>4. n - 1 \in T
        <3> HIDE DEF T
        <3> QED
            BY <2>1, <2>2, <2>3, NatSetInduction
    <2>5. (n - 1) + 1 = n /\ n \in 1..n
        OBVIOUS
    <2> QED
        BY <2>4, <2>5
<1> QED
    BY <1>1, <1>4
=============================================================================
