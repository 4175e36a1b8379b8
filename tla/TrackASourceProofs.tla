------------------------- MODULE TrackASourceProofs -------------------------
(***************************************************************************)
(* The assembly, for shards of any number and size.  AssemblyInv says what *)
(* has been checked of the shards taken so far, EverySlotIsItsShards what  *)
(* each slot of the buffer holds, SliceInv what the lease established of   *)
(* the product and what has been cut from it.  Slots are products of two   *)
(* unknowns, so the arithmetic of their places is in lemmas of its own.    *)
(***************************************************************************)
EXTENDS TrackASourceLemmas

Size == manifest.count * Len(shards)

Rows == UNION {UNION {ToSet(list[k].rows) : k \in DOMAIN list} : list \in ShardLists}

(* Every row of a shard taken is in its own slot, and no later slot has     *)
(* been written: no shard has touched a slot of another (register C-101).   *)
EverySlotIsItsShards ==
    /\ \A k \in 1..position : \A j \in 1..manifest.count :
          buffer[(k - 1) * manifest.count + j] = shards[k].rows[j]
    /\ \A i \in DOMAIN buffer : i > position * manifest.count => buffer[i] = Garbage

(* What frames_for_target has checked of the shards it has taken. *)
Taken(k) ==
    /\ shards[k].readable /\ shards[k].ours
    /\ Len(shards[k].rows) = manifest.count
    /\ shards[k].draws = width

AssemblyInv ==
    /\ manifest \in Manifests /\ shards \in ShardLists
    /\ position \in 0..Len(shards)
    /\ verdict \in {"assembling", "assembled", "leased", "sliced", "refused"}
    /\ IF position = 0
       THEN width = None /\ buffer = <<>>
       ELSE /\ Sized /\ width = shards[1].draws
            /\ buffer \in [1..Size -> Rows \cup {Garbage}]
    /\ \A k \in 1..position : Taken(k)
    /\ monthsSeen \in Seq({shards[k].month : k \in DOMAIN shards}) /\ Len(monthsSeen) = position
    /\ \A k \in 1..position : monthsSeen[k] = shards[k].month
    /\ verdict \in {"assembled", "leased", "sliced"} =>
          position = Len(shards) /\ Sized /\ SameMonths(monthsSeen, manifest.expected)

-----------------------------------------------------------------------------
(* The inputs. *)

LEMMA Inputs ==
    ASSUME manifest \in Manifests, shards \in ShardLists
    PROVE  /\ manifest.count \in Nat
           /\ Len(manifest.expected) \in Nat
           /\ DOMAIN manifest.expected = 1..Len(manifest.expected)
           /\ Len(shards) \in Nat /\ DOMAIN shards = 1..Len(shards)
           /\ Size \in Nat
<1>1. /\ manifest.count \in Nat /\ manifest.expected \in Seq(ToSet(manifest.expected))
      /\ shards \in Seq(ToSet(shards))
    BY AssemblyAssumption
<1>2. Len(shards) \in Nat /\ DOMAIN shards = 1..Len(shards)
    BY <1>1
<1>3. /\ Len(manifest.expected) \in Nat
      /\ DOMAIN manifest.expected = 1..Len(manifest.expected)
    BY <1>1
<1>4. \A m, n \in Nat : m * n \in Nat
    OBVIOUS
<1> QED
    BY <1>1, <1>2, <1>3, <1>4 DEF Size

LEMMA ShardTyped ==
    ASSUME shards \in ShardLists, NEW k \in DOMAIN shards
    PROVE  /\ shards[k].draws \in Nat /\ shards[k].draws # None
           /\ Len(shards[k].rows) \in Nat
           /\ \A j \in 1..Len(shards[k].rows) : shards[k].rows[j] \in Rows
<1>1. shards[k].draws \in Nat /\ shards[k].rows \in Seq(ToSet(shards[k].rows)) /\ None \notin Nat
    BY AssemblyAssumption
<1>2. PICK rows : rows = shards[k].rows
    OBVIOUS
<1>3. rows \in Seq(ToSet(rows))
    BY <1>1, <1>2
<1>4. Len(rows) \in Nat /\ \A j \in 1..Len(rows) : rows[j] \in ToSet(rows)
    BY <1>3
<1>5. ToSet(rows) \subseteq Rows
    BY <1>2 DEF Rows
<1> QED
    BY <1>1, <1>2, <1>4, <1>5

-----------------------------------------------------------------------------
(* Where the slots of a shard are. *)

(* The slots of shard p + 1 follow those of the first p and fit the buffer. *)
LEMMA SlotsOf ==
    ASSUME NEW m \in Nat, NEW n \in Nat, NEW p \in Nat, p < n
    PROVE  /\ p * m \in Nat /\ (p + 1) * m = p * m + m
           /\ p * m + m <= m * n
           /\ \A k \in 1..p : (k - 1) * m \in Nat /\ (k - 1) * m + m <= p * m
<1>1. p * m \in Nat /\ m * n = n * m
    OBVIOUS
<1>2. (p + 1) * m = p * m + m
    OBVIOUS
<1>3. (p + 1) * m <= n * m
    BY Monotone
<1>4. ASSUME NEW k \in 1..p PROVE (k - 1) * m \in Nat /\ (k - 1) * m + m <= p * m
    <2>1. PICK h \in Nat : h = k - 1
        BY <1>4
    <2>2. (h + 1) * m = h * m + m /\ h * m \in Nat
        OBVIOUS
    <2>3. (h + 1) * m <= p * m
        BY <2>1, Monotone
    <2> QED
        BY <2>1, <2>2, <2>3
<1> QED
    BY <1>1, <1>2, <1>3, <1>4

-----------------------------------------------------------------------------
LEMMA InitAssembly == Init => AssemblyInv /\ EverySlotIsItsShards
<1> SUFFICES ASSUME Init PROVE AssemblyInv /\ EverySlotIsItsShards
    OBVIOUS
<1>1. /\ manifest \in Manifests /\ shards \in ShardLists /\ position = 0 /\ buffer = <<>>
      /\ width = None /\ monthsSeen = <<>> /\ verdict = "assembling"
    BY DEF Init
<1>2. AssemblyInv
    BY <1>1, Inputs DEF AssemblyInv
<1>3. EverySlotIsItsShards
    BY <1>1 DEF EverySlotIsItsShards
<1> QED
    BY <1>2, <1>3

(* One shard goes into its slots. *)
LEMMA AssembleKeeps ==
    ASSUME AssemblyInv, EverySlotIsItsShards, Assemble
    PROVE  AssemblyInv' /\ EverySlotIsItsShards'
<1>1. PICK m, n, p, s : /\ m = manifest.count /\ n = Len(shards) /\ p = position
                        /\ s = shards[position + 1]
    OBVIOUS
<1>2. /\ verdict = "assembling" /\ Sized /\ p < n /\ Fits(s)
      /\ buffer' = [i \in DOMAIN Allocated |->
                       IF i \in FirstSlot(p)..LastSlot(p)
                       THEN s.rows[i - FirstSlot(p) + 1] ELSE Allocated[i]]
      /\ width' = s.draws /\ monthsSeen' = Append(monthsSeen, s.month) /\ position' = p + 1
      /\ UNCHANGED <<manifest, shards, verdict>>
    BY <1>1 DEF Assemble, inputs
<1>3. m \in Nat /\ n \in Nat /\ p \in Nat /\ DOMAIN shards = 1..n /\ Size = m * n
    BY <1>1, Inputs DEF AssemblyInv, Size
<1>4. /\ p * m \in Nat /\ (p + 1) * m = p * m + m /\ p * m + m <= m * n
      /\ \A k \in 1..p : (k - 1) * m \in Nat /\ (k - 1) * m + m <= p * m
    BY <1>2, <1>3, SlotsOf
<1>5. /\ p + 1 \in DOMAIN shards /\ s.draws \in Nat /\ s.draws # None
      /\ Len(s.rows) = m /\ \A j \in 1..m : s.rows[j] \in Rows
      /\ s.readable /\ s.ours /\ width \in {None, s.draws}
    BY <1>1, <1>2, <1>3, ShardTyped DEF AssemblyInv, Fits
<1>6. FirstSlot(p) = p * m + 1 /\ LastSlot(p) = p * m + m
    BY <1>1, <1>4 DEF FirstSlot, LastSlot
<1>7. (p = 0 <=> width = None) /\ (p # 0 => width = shards[1].draws /\ width = s.draws)
    <2>1. p # 0 => width = shards[1].draws /\ width # None
        <3>1. p # 0 => 1 \in DOMAIN shards
            BY <1>2, <1>3
        <3> QED
            BY <1>1, <3>1, ShardTyped DEF AssemblyInv
    <2>2. p = 0 => width = None
        BY <1>1 DEF AssemblyInv
    <2> QED
        BY <1>5, <2>1, <2>2
<1>8. /\ Allocated \in [1..(m * n) -> Rows \cup {Garbage}]
      /\ \A i \in 1..(m * n) : i > p * m => Allocated[i] = Garbage
      /\ p # 0 => Allocated = buffer
    <2>1. CASE p = 0
        <3>1. Allocated = [i \in 1..(m * n) |-> Garbage]
            BY <1>1, <1>7, <2>1 DEF Allocated
        <3> QED
            BY <2>1, <3>1
    <2>2. CASE p # 0
        <3>1. Allocated = buffer /\ buffer \in [1..(m * n) -> Rows \cup {Garbage}]
            BY <1>1, <1>3, <1>7, <2>2 DEF Allocated, AssemblyInv
        <3> QED
            BY <1>1, <3>1 DEF EverySlotIsItsShards
    <2> QED
        BY <2>1, <2>2
<1>9. /\ DOMAIN buffer' = 1..(m * n)
      /\ \A i \in 1..(m * n) :
            buffer'[i] = IF i \in (p * m + 1)..(p * m + m)
                         THEN s.rows[i - (p * m + 1) + 1] ELSE Allocated[i]
    BY <1>2, <1>6, <1>8
<1>10. buffer' \in [1..(m * n) -> Rows \cup {Garbage}]
    <2>1. \A i \in (p * m + 1)..(p * m + m) : i - (p * m + 1) + 1 \in 1..m
        BY <1>3, <1>4
    <2>2. \A i \in 1..(m * n) : buffer'[i] \in Rows \cup {Garbage}
        BY <1>5, <1>8, <1>9, <2>1
    <2>3. \E f : buffer' = [i \in 1..(m * n) |-> f[i]]
        BY <1>2, <1>8, <1>9
    <2> QED
        BY <2>2, <2>3
<1>11. EverySlotIsItsShards'
    <2>1. ASSUME NEW k \in 1..(p + 1), NEW j \in 1..m
          PROVE  buffer'[(k - 1) * m + j] = shards[k].rows[j]
        <3>1. CASE k = p + 1
            <4>1. (k - 1) * m + j = p * m + j /\ p * m + j \in (p * m + 1)..(p * m + m)
                BY <1>3, <1>4, <3>1
            <4>2. p * m + j \in 1..(m * n) /\ (p * m + j) - (p * m + 1) + 1 = j
                BY <1>3, <1>4, <4>1
            <4> QED
                BY <1>1, <1>9, <3>1, <4>1, <4>2
        <3>2. CASE k \in 1..p
            <4>1. PICK h \in Nat : h = (k - 1) * m /\ h + m <= p * m
                BY <1>4, <3>2
            <4>2. h + j \in 1..(m * n) /\ h + j \notin (p * m + 1)..(p * m + m)
                BY <1>3, <1>4, <4>1
            <4>3. buffer'[h + j] = buffer[h + j]
                BY <1>3, <1>8, <1>9, <3>2, <4>2
            <4>4. buffer[h + j] = shards[k].rows[j]
                BY <1>1, <3>2, <4>1 DEF EverySlotIsItsShards
            <4> QED
                BY <4>1, <4>3, <4>4
        <3> QED
            BY <1>3, <3>1, <3>2
    <2>2. ASSUME NEW i \in 1..(m * n), i > (p + 1) * m PROVE buffer'[i] = Garbage
        <3>1. i > p * m + m
            BY <1>4, <2>2
        <3>2. i > p * m /\ i \notin (p * m + 1)..(p * m + m)
            BY <1>3, <1>4, <3>1
        <3> QED
            BY <1>8, <1>9, <3>2
    <2>3. position' = p + 1 /\ manifest'.count = m /\ shards' = shards
        BY <1>1, <1>2
    <2> QED
        BY <1>9, <2>1, <2>2, <2>3 DEF EverySlotIsItsShards
<1>12. AssemblyInv'
    <2>1. \A k \in 1..(p + 1) : Taken(k)'
        <3>1. \A k \in 1..p : Taken(k)'
            BY <1>1, <1>2, <1>7 DEF AssemblyInv, Taken
        <3>2. Taken(p + 1)'
            BY <1>1, <1>2, <1>5 DEF Taken
        <3> QED
            BY <1>3, <3>1, <3>2
    <2>2. /\ monthsSeen' \in Seq({shards[k].month : k \in DOMAIN shards})
          /\ Len(monthsSeen') = p + 1
          /\ \A k \in 1..(p + 1) : monthsSeen'[k] = shards[k].month
        <3>1. s.month \in {shards[k].month : k \in DOMAIN shards}
            BY <1>1, <1>5
        <3> QED
            BY <1>1, <1>2, <1>3, <3>1 DEF AssemblyInv
    <2>3. width' = shards[1].draws
        BY <1>1, <1>2, <1>7
    <2>4. position' \in 0..Len(shards) /\ position' # 0
        BY <1>1, <1>2, <1>3
    <2>5. Sized' /\ Size' = m * n
        BY <1>2, <1>3 DEF Sized, Size
    <2> QED
        BY <1>2, <1>10, <2>1, <2>2, <2>3, <2>4, <2>5 DEF AssemblyInv
<1> QED
    BY <1>11, <1>12

(* The later steps leave the buffer as it is. *)
LEMMA BufferStands ==
    ASSUME AssemblyInv, EverySlotIsItsShards,
           UNCHANGED <<manifest, shards, position, buffer, width, monthsSeen>>,
           verdict' \in {"assembling", "assembled", "leased", "sliced", "refused"},
           verdict' \in {"assembled", "leased", "sliced"} =>
               position = Len(shards) /\ Sized /\ SameMonths(monthsSeen, manifest.expected)
    PROVE  AssemblyInv' /\ EverySlotIsItsShards'
<1>1. Size' = Size /\ (Sized' <=> Sized) /\ \A k : Taken(k)' <=> Taken(k)
    BY DEF Size, Sized, Taken
<1>2. AssemblyInv'
    BY <1>1 DEF AssemblyInv
<1>3. EverySlotIsItsShards'
    BY DEF EverySlotIsItsShards
<1> QED
    BY <1>2, <1>3

(* Everything that is checked of a shard holds of all that were taken, and  *)
(* every slot holds the row of its own shard.                               *)
THEOREM AssemblyHolds == Spec => [](AssemblyInv /\ EverySlotIsItsShards)
<1>1. ASSUME AssemblyInv, EverySlotIsItsShards, [Next]_vars
      PROVE  AssemblyInv' /\ EverySlotIsItsShards'
    <2>1. CASE Assemble
        BY <1>1, <2>1, AssembleKeeps
    <2>2. CASE Complete
        <3>1. /\ UNCHANGED <<manifest, shards, position, buffer, width, monthsSeen>>
              /\ Sized /\ position = Len(shards) /\ SameMonths(monthsSeen, manifest.expected)
              /\ verdict' = "assembled"
            BY <2>2 DEF Complete, inputs, assembly
        <3> QED
            BY <1>1, <3>1, BufferStands
    <2>3. CASE \/ RefuseManifest \/ RefuseShard \/ RefuseMonths \/ RefuseProduct \/ RefuseMonth
               \/ Curate \/ Slice \/ UNCHANGED vars
        <3>1. UNCHANGED <<manifest, shards, position, buffer, width, monthsSeen>>
            BY <2>3 DEF RefuseManifest, RefuseShard, RefuseMonths, RefuseProduct, RefuseMonth, Refuse,
                        Curate, Slice, vars, inputs, assembly
        <3>2. \/ verdict' \in {"refused", verdict}
              \/ /\ verdict \in {"assembled", "leased"}
                 /\ verdict' \in {"leased", "sliced"}
            BY <2>3 DEF RefuseManifest, RefuseShard, RefuseMonths, RefuseProduct, RefuseMonth, Refuse,
                        Curate, Slice, vars
        <3>3. /\ verdict' \in {"assembling", "assembled", "leased", "sliced", "refused"}
              /\ verdict' \in {"assembled", "leased", "sliced"} =>
                    position = Len(shards) /\ Sized /\ SameMonths(monthsSeen, manifest.expected)
            BY <1>1, <3>2 DEF AssemblyInv
        <3> QED
            BY <1>1, <3>1, <3>3, BufferStands
    <2> QED
        BY <1>1, <2>1, <2>2, <2>3 DEF Next
<1> QED
    BY <1>1, InitAssembly, PTL DEF Spec

(* The types of the assembly. *)
THEOREM AssemblyTypes == Spec => []TypeOK
<1>1. ASSUME AssemblyInv PROVE TypeOK
    <2>1. /\ Len(shards) \in Nat /\ DOMAIN shards = 1..Len(shards) /\ Size \in Nat
          /\ position \in 0..Len(shards)
        BY <1>1, Inputs DEF AssemblyInv
    <2>2. width \in Nat \cup {None}
        <3>1. CASE position = 0
            BY <1>1, <3>1 DEF AssemblyInv
        <3>2. CASE position # 0
            <4>1. 1 \in DOMAIN shards
                BY <2>1, <3>2
            <4>2. width = shards[1].draws /\ shards \in ShardLists
                BY <1>1, <3>2 DEF AssemblyInv
            <4> QED
                BY <4>1, <4>2, ShardTyped
        <3> QED
            BY <3>1, <3>2
    <2>3. Len(buffer) \in {0, Size}
        <3>1. CASE position = 0
            BY <1>1, <3>1 DEF AssemblyInv
        <3>2. CASE position # 0
            <4>1. buffer \in [1..Size -> Rows \cup {Garbage}]
                BY <1>1, <3>2 DEF AssemblyInv
            <4> QED
                BY <2>1, <4>1
        <3> QED
            BY <3>1, <3>2
    <2> QED
        BY <1>1, <2>1, <2>2, <2>3 DEF TypeOK, AssemblyInv, Size
<1> QED
    BY <1>1, AssemblyHolds, PTL

-----------------------------------------------------------------------------
(* Distinct declared months are distinct headers. *)

LEMMA DistinctMonths ==
    ASSUME AssemblyInv, verdict \in {"assembled", "leased", "sliced"},
           IsInjective(manifest.expected),
           NEW k \in DOMAIN shards, NEW q \in DOMAIN shards, shards[k].month = shards[q].month
    PROVE  k = q
<1>1. PICK month, seen, declared :
          /\ month = shards[k].month
          /\ seen = {i \in DOMAIN monthsSeen : monthsSeen[i] = month}
          /\ declared = {i \in DOMAIN manifest.expected : manifest.expected[i] = month}
    OBVIOUS
<1>2. /\ DOMAIN shards = 1..Len(shards) /\ position = Len(shards) /\ Len(shards) \in Nat
      /\ DOMAIN manifest.expected = 1..Len(manifest.expected) /\ Len(manifest.expected) \in Nat
      /\ SameMonths(monthsSeen, manifest.expected)
    BY Inputs DEF AssemblyInv
<1>3. DOMAIN monthsSeen = 1..Len(shards) /\ \A i \in 1..Len(shards) : monthsSeen[i] = shards[i].month
    BY <1>2 DEF AssemblyInv
<1>4. k \in seen /\ q \in seen
    BY <1>1, <1>2, <1>3
<1>5. IsFiniteSet(seen) /\ IsFiniteSet(declared)
    <2>1. IsFiniteSet(1..Len(shards)) /\ IsFiniteSet(1..Len(manifest.expected))
        <3>1. \A i \in Nat : IsFiniteSet(1..i)
            BY FS_Interval
        <3> QED
            BY <1>2, <3>1
    <2>2. seen \subseteq 1..Len(shards) /\ declared \subseteq 1..Len(manifest.expected)
        BY <1>1, <1>2, <1>3
    <2> QED
        BY <2>1, <2>2, FS_Subset
<1>6. Cardinality(seen) = Cardinality(declared)
    <2>1. month \in ToSet(monthsSeen)
        BY <1>1, <1>4 DEF ToSet
    <2> QED
        BY <1>1, <1>2, <2>1 DEF SameMonths
<1>7. declared # {}
    BY <1>4, <1>5, <1>6, FS_EmptySet
<1>8. PICK x : declared = {x}
    <2>1. \A i, j \in declared : i = j
        BY <1>1 DEF IsInjective
    <2> QED
        BY <1>7, <2>1
<1>9. Cardinality(seen) = 1
    BY <1>6, <1>8, FS_Singleton
<1>10. PICK y : seen = {y}
    BY <1>5, <1>9, FS_Singleton
<1> QED
    BY <1>4, <1>10

(* A manifest's run is assembled only when it has as many headers as the    *)
(* manifest lists months, each listed month has a header, and just one when *)
(* the listed months are distinct, and every shard is readable, of the      *)
(* target, of the declared number of rows and of one width.                 *)
THEOREM EveryMonthIsThere == Spec => []DeclaredMonthsOnce
<1>1. ASSUME AssemblyInv PROVE DeclaredMonthsOnce
    <2> SUFFICES ASSUME verdict \in {"assembled", "leased", "sliced"}
                 PROVE  /\ Len(shards) = Len(manifest.expected)
                        /\ \A m \in ToSet(manifest.expected) :
                              \E k \in DOMAIN shards : shards[k].month = m
                        /\ IsInjective(manifest.expected) =>
                              \A j, k \in DOMAIN shards :
                                  shards[j].month = shards[k].month => j = k
                        /\ \A k \in DOMAIN shards :
                              /\ shards[k].readable /\ shards[k].ours
                              /\ Len(shards[k].rows) = manifest.count
                              /\ shards[k].draws = shards[1].draws
        BY DEF DeclaredMonthsOnce
    <2>1. /\ position = Len(shards) /\ Len(monthsSeen) = position
          /\ SameMonths(monthsSeen, manifest.expected) /\ Sized
        BY <1>1 DEF AssemblyInv
    <2>2. /\ DOMAIN shards = 1..Len(shards) /\ Len(shards) \in Nat
          /\ DOMAIN manifest.expected = 1..Len(manifest.expected)
          /\ Len(manifest.expected) \in Nat
        BY <1>1, Inputs DEF AssemblyInv
    <2>3. Len(shards) = Len(manifest.expected)
        BY <2>1 DEF SameMonths
    <2>4. DOMAIN monthsSeen = 1..Len(shards)
        BY <1>1, <2>1 DEF AssemblyInv
    <2>5. ASSUME NEW m \in ToSet(manifest.expected)
          PROVE  \E k \in DOMAIN shards : shards[k].month = m
        <3>1. PICK seen, declared :
                  /\ seen = {i \in DOMAIN monthsSeen : monthsSeen[i] = m}
                  /\ declared = {i \in DOMAIN manifest.expected : manifest.expected[i] = m}
            OBVIOUS
        <3>2. Cardinality(seen) = Cardinality(declared)
            BY <2>1, <2>5, <3>1 DEF SameMonths
        <3>3. IsFiniteSet(seen) /\ IsFiniteSet(declared)
            <4>1. IsFiniteSet(1..Len(shards))
                BY <2>2, FS_Interval
            <4> QED
                BY <2>2, <2>3, <2>4, <3>1, <4>1, FS_Subset
        <3>4. declared # {}
            BY <2>5, <3>1 DEF ToSet
        <3>5. seen # {}
            BY <3>2, <3>3, <3>4, FS_EmptySet
        <3> QED
            BY <1>1, <2>1, <2>2, <2>4, <3>1, <3>5 DEF AssemblyInv
    <2>6. ASSUME NEW k \in DOMAIN shards
          PROVE  /\ shards[k].readable /\ shards[k].ours
                 /\ Len(shards[k].rows) = manifest.count
                 /\ shards[k].draws = shards[1].draws
        <3>1. Taken(k) /\ Taken(1)
            BY <1>1, <2>1, <2>2, <2>6 DEF AssemblyInv
        <3> QED
            BY <3>1 DEF Taken
    <2>7. ASSUME IsInjective(manifest.expected)
          PROVE  \A j, k \in DOMAIN shards : shards[j].month = shards[k].month => j = k
        BY <1>1, <2>7, DistinctMonths
    <2> QED
        BY <2>3, <2>5, <2>6, <2>7
<1> QED
    BY <1>1, AssemblyHolds, PTL

-----------------------------------------------------------------------------
(* The shards stacked. *)

LEMMA SlotFound ==
    ASSUME NEW m \in Nat, NEW p \in Nat
    PROVE  \A i \in 1..(p * m) : \E k \in 1..p : \E j \in 1..m : i = (k - 1) * m + j
<1> DEFINE Ok(q) == \A i \in 1..(q * m) : \E k \in 1..q : \E j \in 1..m : i = (k - 1) * m + j
           T == {q \in Nat : Ok(q)}
<1>1. 0 \in T
    <2>1. 0 * m = 0 /\ 1..0 = {}
        OBVIOUS
    <2> QED
        BY <2>1
<1>2. ASSUME NEW q \in Nat, Ok(q) PROVE Ok(q + 1)
    <2>1. PICK h \in Nat : h = q * m /\ (q + 1) * m = h + m /\ ((q + 1) - 1) * m = h
        <3>1. q * m \in Nat /\ (q + 1) * m = q * m + m /\ (q + 1) - 1 = q
            OBVIOUS
        <3> QED
            BY <3>1
    <2>2. ASSUME NEW i \in 1..(h + m)
          PROVE  \E k \in 1..(q + 1) : \E j \in 1..m : i = (k - 1) * m + j
        <3>1. CASE i <= h
            <4>1. i \in 1..(q * m)
                BY <2>1, <3>1
            <4>2. PICK k \in 1..q : \E j \in 1..m : i = (k - 1) * m + j
                BY <1>2, <4>1
            <4>3. k \in 1..(q + 1)
                OBVIOUS
            <4> QED
                BY <4>2, <4>3
        <3>2. CASE i > h
            <4>1. i - h \in 1..m /\ i = h + (i - h) /\ q + 1 \in 1..(q + 1)
                BY <3>2
            <4>2. i = ((q + 1) - 1) * m + (i - h)
                BY <2>1, <4>1
            <4> QED
                BY <4>1, <4>2
        <3>3. i <= h \/ i > h
            OBVIOUS
        <3> QED
            BY <3>1, <3>2, <3>3
    <2> QED
        BY <2>1, <2>2
<1>3. p \in T
    <2> HIDE DEF Ok
    <2>1. \A q \in Nat : q \in T => q + 1 \in T
        BY <1>2
    <2> HIDE DEF T
    <2> QED
        BY <1>1, <2>1, NatSetInduction
<1> QED
    BY <1>3

LEMMA StackedRows ==
    ASSUME AssemblyInv, NEW p \in 1..position
    PROVE  /\ Stacked(p) \in Seq(Rows) /\ Len(Stacked(p)) = p * manifest.count
           /\ \A k \in 1..p : \A j \in 1..manifest.count :
                 Stacked(p)[(k - 1) * manifest.count + j] = shards[k].rows[j]
<1>1. PICK m, seqs : m = manifest.count /\ seqs = [k \in 1..p |-> shards[k].rows]
    OBVIOUS
<1>2. m \in Nat /\ p \in Nat /\ p # 0 /\ \A k \in 1..p : k \in 1..position /\ k \in DOMAIN shards
    <2>1. /\ manifest.count \in Nat /\ Len(shards) \in Nat /\ DOMAIN shards = 1..Len(shards)
          /\ position \in 0..Len(shards)
        BY Inputs DEF AssemblyInv
    <2>2. p \in Nat /\ p # 0 /\ \A k \in 1..p : k \in 1..position /\ k \in 1..Len(shards)
        BY <2>1
    <2> QED
        BY <1>1, <2>1, <2>2
<1>3. Len(seqs) = p
    BY <1>1, <1>2
<1>4. ASSUME NEW k \in 1..p PROVE seqs[k] \in Seq(Rows) /\ Len(seqs[k]) = m
    <2>1. seqs[k] = shards[k].rows /\ Len(shards[k].rows) = m
        BY <1>1, <1>2 DEF AssemblyInv, Taken
    <2>2. shards[k].rows \in Seq(ToSet(shards[k].rows))
        BY <1>2, AssemblyAssumption DEF AssemblyInv
    <2>3. \A j \in 1..m : shards[k].rows[j] \in Rows
        BY <1>2, <2>1, ShardTyped DEF AssemblyInv
    <2>4. PICK rows : rows = shards[k].rows
        OBVIOUS
    <2>5. rows \in [1..m -> ToSet(rows)]
        BY <2>1, <2>2, <2>4
    <2>6. rows \in [1..m -> Rows]
        BY <2>3, <2>4, <2>5
    <2> QED
        BY <1>2, <2>1, <2>4, <2>6
<1>5. /\ FlattenSeq(seqs) \in Seq(Rows) /\ Len(FlattenSeq(seqs)) = p * m
      /\ \A k \in 1..p : \A j \in 1..m : FlattenSeq(seqs)[(k - 1) * m + j] = seqs[k][j]
    <2>1. OneLength(seqs, p, Rows, m)
        BY <1>2, <1>3, <1>4 DEF OneLength
    <2> QED
        BY ONLY <2>1, FlattenEqual
<1> QED
    BY <1>1, <1>5 DEF Stacked

(* Where the buffer has been written, it is the stack.                      *)
LEMMA BufferIsTheStack ==
    ASSUME AssemblyInv, EverySlotIsItsShards, position # 0
    PROVE  /\ Stacked(position) \in [1..(position * manifest.count) -> Rows]
           /\ Len(Stacked(position)) = position * manifest.count
           /\ \A i \in 1..(position * manifest.count) : buffer[i] = Stacked(position)[i]
<1>1. PICK m, p, stack : m = manifest.count /\ p = position /\ stack = Stacked(position)
    OBVIOUS
<1>2. m \in Nat /\ p \in Nat /\ p \in 1..position
    <2>1. manifest.count \in Nat /\ Len(shards) \in Nat /\ position \in 0..Len(shards)
        BY Inputs DEF AssemblyInv
    <2>2. position \in Nat /\ position \in 1..position
        BY <2>1
    <2> QED
        BY <1>1, <2>1, <2>2
<1>3. /\ stack \in Seq(Rows) /\ Len(stack) = p * m
      /\ \A k \in 1..p : \A j \in 1..m : stack[(k - 1) * m + j] = shards[k].rows[j]
    BY <1>1, <1>2, StackedRows
<1>4. ASSUME NEW i \in 1..(p * m) PROVE buffer[i] = stack[i]
    <2>1. PICK k \in 1..p : \E j \in 1..m : i = (k - 1) * m + j
        BY <1>2, SlotFound
    <2>2. PICK j \in 1..m : i = (k - 1) * m + j
        BY <2>1
    <2>3. buffer[(k - 1) * m + j] = shards[k].rows[j]
        BY <1>1 DEF EverySlotIsItsShards
    <2> QED
        BY <1>3, <2>2, <2>3
<1>5. stack \in [1..(p * m) -> Rows]
    BY <1>3
<1> QED
    BY <1>1, <1>3, <1>4, <1>5

LEMMA BufferWhole ==
    ASSUME AssemblyInv, EverySlotIsItsShards, verdict \in {"assembled", "leased", "sliced"}
    PROVE  /\ position = Len(shards) /\ position # 0 /\ Size \in Nat
           /\ Size = position * manifest.count
           /\ buffer \in [1..Size -> Rows] /\ buffer = Stacked(Len(shards))
<1>1. PICK m, n : m = manifest.count /\ n = Len(shards)
    OBVIOUS
<1>2. /\ position = n /\ Sized /\ m \in Nat /\ n \in Nat
      /\ shards \in Seq(ToSet(shards))
    BY <1>1, Inputs, AssemblyAssumption DEF AssemblyInv
<1>3. n # 0
    <2>1. \A s \in Seq(ToSet(shards)) : Len(s) = 0 => s = <<>>
        OBVIOUS
    <2> QED
        BY <1>1, <1>2, <2>1 DEF Sized
<1>4. Size = m * n /\ m * n = n * m /\ Size \in Nat
    BY <1>1, <1>2, Inputs DEF Size, AssemblyInv
<1>5. PICK stack : stack = Stacked(n)
    OBVIOUS
<1>6. stack \in [1..Size -> Rows] /\ \A i \in 1..Size : buffer[i] = stack[i]
    BY <1>1, <1>2, <1>3, <1>4, <1>5, BufferIsTheStack
<1>7. buffer \in [1..Size -> Rows \cup {Garbage}]
    BY <1>2, <1>3 DEF AssemblyInv
<1>8. buffer = stack
    <2>1. buffer = [i \in 1..Size |-> buffer[i]] /\ stack = [i \in 1..Size |-> stack[i]]
        BY <1>6, <1>7
    <2>2. [i \in 1..Size |-> buffer[i]] = [i \in 1..Size |-> stack[i]]
        BY <1>6
    <2> QED
        BY <2>1, <2>2
<1> QED
    BY <1>1, <1>2, <1>3, <1>4, <1>5, <1>6, <1>8

(* The buffer filled in place is the shards stacked, at every step and when *)
(* the assembly ends (register C-101).                                      *)
THEOREM BufferFillsLikeStacking == Spec => []FilledLikeStacking
<1>1. ASSUME AssemblyInv, EverySlotIsItsShards PROVE FilledLikeStacking
    <2>1. verdict \in {"assembled", "leased", "sliced"} => buffer = Stacked(Len(shards))
        BY <1>1, BufferWhole
    <2>2. ASSUME NEW i \in DOMAIN buffer
          PROVE  buffer[i] = IF i <= Len(Stacked(position)) THEN Stacked(position)[i] ELSE Garbage
        <3>1. position # 0
            <4>1. \A j \in DOMAIN <<>> : FALSE
                OBVIOUS
            <4> QED
                BY <1>1, <2>2, <4>1 DEF AssemblyInv
        <3>2. i \in 1..Size /\ Size \in Nat
            BY <1>1, <2>2, <3>1, Inputs DEF AssemblyInv
        <3>3. PICK q : q = position * manifest.count
            OBVIOUS
        <3>4. q \in Nat
            <4>1. \A a, b \in Nat : a * b \in Nat
                OBVIOUS
            <4>2. position \in Nat /\ manifest.count \in Nat
                <5>1. Len(shards) \in Nat /\ position \in 0..Len(shards)
                    BY <1>1, Inputs DEF AssemblyInv
                <5>2. manifest.count \in Nat
                    BY <1>1, Inputs DEF AssemblyInv
                <5>3. position \in Nat
                    BY <5>1
                <5> QED
                    BY <5>2, <5>3
            <4> QED
                BY <3>3, <4>1, <4>2
        <3>5. Len(Stacked(position)) = q /\ \A x \in 1..q : buffer[x] = Stacked(position)[x]
            BY <1>1, <3>1, <3>3, BufferIsTheStack
        <3>6. i > q => buffer[i] = Garbage
            BY <1>1, <2>2, <3>3 DEF EverySlotIsItsShards
        <3> QED
            BY <3>2, <3>4, <3>5, <3>6
    <2> QED
        BY <2>1, <2>2 DEF FilledLikeStacking
<1> QED
    BY <1>1, AssemblyHolds, PTL

-----------------------------------------------------------------------------
(* The product and what is cut from it. *)

Cut(k) == [month |-> HeaderMonth(k), rows |-> MonthSlice(product, HeaderMonth(k))]

(* What the lease has established of the product, and that each partner     *)
(* shard so far is the cut of its own header's month.                       *)
SliceInv ==
    /\ verdict \in {"assembling", "assembled"} => delivered = <<>>
    /\ verdict \in {"leased", "sliced"} =>
          /\ product = Curated /\ Identified /\ Covers(product)
          /\ delivered \in Seq({Cut(k) : k \in DOMAIN shards})
          /\ \A k \in 1..Len(delivered) : delivered[k] = Cut(k)
    /\ verdict = "leased" => Len(delivered) < Len(shards)
    /\ verdict = "sliced" => Len(delivered) = Len(shards)

LEMMA SliceKeeps ==
    ASSUME AssemblyInv, SliceInv, Slice
    PROVE  SliceInv'
<1>1. PICK n, d, c, D : /\ n = Len(shards) /\ d = delivered /\ c = Cut(Pending)
                        /\ D = {Cut(k) : k \in DOMAIN shards}
    OBVIOUS
<1>2. /\ verdict = "leased" /\ delivered' = Append(d, c)
      /\ verdict' = IF Pending = n THEN "sliced" ELSE "leased"
      /\ UNCHANGED <<manifest, shards, position, buffer, product>>
    BY <1>1 DEF Slice, Cut, inputs, assembly
<1>3. n \in Nat /\ DOMAIN shards = 1..n
    BY <1>1, Inputs DEF AssemblyInv
<1>4. /\ d \in Seq(D) /\ Len(d) < n /\ \A k \in 1..Len(d) : d[k] = Cut(k)
      /\ product = Curated /\ Identified /\ Covers(product)
    BY <1>1, <1>2 DEF SliceInv
<1>5. Len(d) \in Nat /\ Pending = Len(d) + 1 /\ Pending \in 1..n /\ c \in D
    <2>1. Len(d) \in Nat /\ Pending = Len(d) + 1
        BY <1>1, <1>4 DEF Pending
    <2>2. Pending \in 1..n
        BY <1>3, <1>4, <2>1
    <2> QED
        BY <1>1, <1>3, <2>1, <2>2
<1>6. /\ Append(d, c) \in Seq(D) /\ Len(Append(d, c)) = Pending
      /\ \A k \in 1..Pending : Append(d, c)[k] = IF k = Pending THEN c ELSE d[k]
    BY <1>4, <1>5
<1>7. ASSUME NEW k \in 1..Pending PROVE Append(d, c)[k] = Cut(k)
    <2>1. k # Pending => k \in 1..Len(d)
        BY <1>5
    <2> QED
        BY <1>1, <1>4, <1>6, <2>1
<1>8. \A k : Cut(k)' = Cut(k)
    BY <1>2 DEF Cut, HeaderMonth, MonthSlice
<1>9. /\ Curated' = Curated /\ (Identified' <=> Identified)
      /\ (Covers(product)' <=> Covers(product))
    BY <1>2 DEF Curated, WithoutExcluded, Identified, Covers, CellsIn
<1>10. {Cut(k) : k \in DOMAIN shards}' = D
    BY <1>1, <1>2, <1>8
<1>11. /\ delivered' \in Seq(D) /\ Len(delivered') = Pending
       /\ \A k \in 1..Pending : delivered'[k] = Cut(k)
    BY <1>2, <1>6, <1>7
<1>12. Pending # n => Pending < n
    BY <1>3, <1>5
<1>13. /\ product' = Curated' /\ Identified' /\ Covers(product)'
       /\ delivered' \in Seq({Cut(k) : k \in DOMAIN shards}')
       /\ \A k \in 1..Len(delivered') : delivered'[k] = Cut(k)'
    BY <1>2, <1>4, <1>8, <1>9, <1>10, <1>11
<1>14. /\ verdict' \in {"leased", "sliced"} /\ n = Len(shards')
       /\ verdict' = "leased" => Len(delivered') < n
       /\ verdict' = "sliced" => Len(delivered') = n
    BY <1>1, <1>2, <1>11, <1>12
<1> QED
    BY <1>13, <1>14 DEF SliceInv

LEMMA SliceStands ==
    ASSUME SliceInv, UNCHANGED <<manifest, shards, buffer, product, delivered, verdict>>
    PROVE  SliceInv'
<1>1. \A k : Cut(k)' = Cut(k)
    BY DEF Cut, HeaderMonth, MonthSlice
<1>2. /\ Curated' = Curated /\ (Identified' <=> Identified)
      /\ (Covers(product)' <=> Covers(product))
    BY DEF Curated, WithoutExcluded, Identified, Covers, CellsIn
<1>3. {Cut(k) : k \in DOMAIN shards}' = {Cut(k) : k \in DOMAIN shards}
    BY <1>1
<1> QED
    BY <1>1, <1>2, <1>3 DEF SliceInv

(* The product is the curated stack, and each partner shard the cut of its  *)
(* own header's month.                                                      *)
THEOREM SlicesHold == Spec => [](AssemblyInv /\ EverySlotIsItsShards /\ SliceInv)
<1>1. Init => SliceInv
    BY DEF Init, SliceInv
<1>2. ASSUME AssemblyInv, SliceInv, [Next]_vars PROVE SliceInv'
    <2>1. CASE Slice
        BY <1>2, <2>1, SliceKeeps
    <2>2. CASE Curate
        <3>1. /\ product' = Curated' /\ Identified' /\ Covers(product)' /\ verdict' = "leased"
              /\ delivered' = <<>> /\ shards' = shards
            BY <1>2, <2>2 DEF Curate, SliceInv, inputs, assembly, Curated, WithoutExcluded,
                              Identified, Covers, CellsIn
        <3>2. Len(shards) \in Nat /\ Len(shards) # 0
            <4>1. Len(shards) \in Nat /\ shards \in Seq(ToSet(shards)) /\ shards # <<>>
                BY <1>2, <2>2, Inputs, AssemblyAssumption DEF AssemblyInv, Sized, Curate
            <4>2. \A s \in Seq(ToSet(shards)) : Len(s) = 0 => s = <<>>
                OBVIOUS
            <4> QED
                BY <4>1, <4>2
        <3>3. /\ \A S : <<>> \in Seq(S) /\ Len(<<>>) = 0 /\ 1..0 = {}
            OBVIOUS
        <3> QED
            BY <3>1, <3>2, <3>3 DEF SliceInv
    <2>3. CASE RefuseManifest \/ RefuseShard \/ RefuseMonths \/ RefuseProduct \/ RefuseMonth
        BY <2>3 DEF RefuseManifest, RefuseShard, RefuseMonths, RefuseProduct, RefuseMonth, Refuse,
                    SliceInv
    <2>4. CASE Assemble \/ Complete
        BY <1>2, <2>4 DEF Assemble, Complete, SliceInv
    <2>5. CASE UNCHANGED vars
        <3>1. UNCHANGED <<manifest, shards, buffer, product, delivered, verdict>>
            BY <2>5 DEF vars, inputs, assembly
        <3> QED
            BY <1>2, <3>1, SliceStands
    <2> QED
        BY <1>2, <2>1, <2>2, <2>3, <2>4, <2>5 DEF Next
<1> QED
    BY <1>1, <1>2, AssemblyHolds, PTL DEF Spec

(* The product lists the places of the stack that the region keeps.         *)
LEMMA ProductListed ==
    ASSUME AssemblyInv, EverySlotIsItsShards, verdict \in {"assembled", "leased", "sliced"}
    PROVE  \E n, c, f :
              /\ Places(InRegion, n) /\ buffer = Stacked(Len(shards))
              /\ InRegion = {i \in 1..n : buffer[i][2] \notin Excluded}
              /\ Lists(f, c, InRegion)
              /\ Selects(Curated, buffer, Rows, InRegion, c, f)
<1>1. PICK b, n, P, c, f : /\ b = buffer /\ n = Size /\ P = InRegion
                           /\ c = Cardinality(P) /\ f = InOrder(P)
    OBVIOUS
<1>2. n \in Nat /\ b \in [1..n -> Rows] /\ Stacked(Len(shards)) = b
    BY <1>1, BufferWhole
<1>3. P = {i \in 1..n : b[i][2] \notin Excluded} /\ P \in SUBSET (1..n)
    BY <1>1, <1>2 DEF InRegion
<1>4. Places(P, n)
    BY <1>2, <1>3 DEF Places
<1>5. Curated = Masked(b, P)
    BY <1>1, <1>2, <1>3 DEF Curated, WithoutExcluded
<1>6. Selects(Curated, b, Rows, P, c, f)
    BY <1>1, <1>2, <1>4, <1>5, MaskedRows
<1>7. Lists(f, c, P)
    BY <1>1, <1>2, <1>3, InOrderIsTheList
<1> QED
    BY <1>1, <1>2, <1>3, <1>4, <1>6, <1>7

(* The product is the stack less the excluded cells, row for row and in     *)
(* order, and covers the region.                                            *)
THEOREM LeaseGivesTheRegion == Spec => []ProductIsTheRegion
<1>1. ASSUME AssemblyInv, EverySlotIsItsShards, SliceInv PROVE ProductIsTheRegion
    <2> SUFFICES ASSUME verdict \in {"leased", "sliced"}
                 PROVE  /\ Keeps(product, Stacked(Len(shards)), InRegion)
                        /\ ExpectedCells # None => Cardinality(CellsIn(product)) = ExpectedCells
                        /\ Identified
        BY DEF ProductIsTheRegion
    <2>1. PICK P, b, c, f :
              /\ P = InRegion /\ b = buffer /\ b = Stacked(Len(shards))
              /\ Lists(f, c, P) /\ Selects(Curated, b, Rows, P, c, f)
        BY <1>1, ProductListed
    <2>2. product = Curated /\ Identified /\ Covers(product)
        BY <1>1 DEF SliceInv
    <2>3. PICK out : out = product
        OBVIOUS
    <2>4. /\ c \in Nat /\ DOMAIN out = 1..c /\ f \in [1..c -> P]
          /\ \A i \in 1..c : out[i] = b[f[i]]
          /\ \A x \in P : \E i \in 1..c : f[i] = x
          /\ \A i, j \in 1..c : i < j => f[i] < f[j]
        BY <2>1, <2>2, <2>3 DEF Selects, Lists, Ascending
    <2>5. Keeps(out, b, P)
        BY <2>4 DEF Keeps
    <2>6. ExpectedCells # None => Cardinality(CellsIn(product)) = ExpectedCells
        BY <2>2 DEF Covers
    <2> QED
        BY <2>1, <2>2, <2>3, <2>5, <2>6
<1> QED
    BY <1>1, SlicesHold, PTL

-----------------------------------------------------------------------------
(* What is deliverable is not refused. *)

LEMMA DeliverableShards ==
    ASSUME AssemblyInv, Deliverable, verdict = "assembling"
    PROVE  ~RefuseManifest /\ ~RefuseShard /\ ~RefuseMonths
<1>1. ~RefuseManifest
    BY DEF RefuseManifest, Deliverable
<1>2. ASSUME RefuseShard PROVE FALSE
    <2>1. position < Len(shards) /\ ~Fits(shards[position + 1])
        BY <1>2 DEF RefuseShard
    <2>2. position + 1 \in DOMAIN shards
        <3>1. position \in 0..Len(shards) /\ Len(shards) \in Nat /\ DOMAIN shards = 1..Len(shards)
            BY Inputs DEF AssemblyInv
        <3> QED
            BY <2>1, <3>1
    <2>3. width = None \/ width = shards[1].draws
        BY DEF AssemblyInv
    <2> QED
        BY <2>1, <2>2, <2>3 DEF Fits, Deliverable
<1>3. ASSUME RefuseMonths PROVE FALSE
    <2>1. position = Len(shards) /\ ~SameMonths(monthsSeen, manifest.expected)
        BY <1>3 DEF RefuseMonths
    <2>2. PICK n, S, headers : /\ n = Len(shards) /\ S = {shards[k].month : k \in DOMAIN shards}
                               /\ headers = [k \in DOMAIN shards |-> shards[k].month]
        OBVIOUS
    <2>3. n \in Nat /\ DOMAIN shards = 1..n
        BY <2>2, Inputs DEF AssemblyInv
    <2>4. /\ monthsSeen \in Seq(S) /\ Len(monthsSeen) = n
          /\ \A k \in 1..n : monthsSeen[k] = shards[k].month
        BY <2>1, <2>2 DEF AssemblyInv
    <2>5. monthsSeen = [k \in 1..n |-> monthsSeen[k]]
        BY <2>3, <2>4
    <2>6. monthsSeen = headers
        BY <2>2, <2>3, <2>4, <2>5
    <2> QED
        BY <2>1, <2>2, <2>6 DEF Deliverable
<1> QED
    BY <1>1, <1>2, <1>3

(* The cells of the product are those the region keeps of the stack.        *)
LEMMA DeliverableCells ==
    ASSUME AssemblyInv, EverySlotIsItsShards, Deliverable, verdict = "assembled"
    PROVE  ~RefuseProduct
<1>1. PICK P, b, c, f, out, n :
          /\ P = InRegion /\ b = buffer /\ b = Stacked(Len(shards)) /\ out = Curated
          /\ P = {i \in 1..n : b[i][2] \notin Excluded}
          /\ Selects(out, b, Rows, P, c, f)
    BY ProductListed
<1>2. /\ DOMAIN out = 1..c /\ \A i \in 1..c : f[i] \in P /\ out[i] = b[f[i]]
      /\ \A x \in P : \E i \in 1..c : f[i] = x /\ out[i] = b[x]
    BY <1>1 DEF Selects
<1>3. CellsIn(out) = {b[i][2] : i \in P}
    BY <1>2 DEF CellsIn
<1>4. CellsIn(out) \cap Excluded = {}
    BY <1>1, <1>3
<1>5. ExpectedCells # None => Cardinality(CellsIn(out)) = ExpectedCells
    BY <1>1, <1>3 DEF Deliverable
<1>6. Identified /\ Covers(Curated)
    BY <1>1, <1>4, <1>5 DEF Covers, Deliverable
<1> QED
    BY <1>6 DEF RefuseProduct

LEMMA DeliverableMonths ==
    ASSUME AssemblyInv, EverySlotIsItsShards, SliceInv, Deliverable, verdict = "leased"
    PROVE  ~RefuseMonth
<1>1. PICK P, b, c, f, out, n, k, month :
          /\ P = InRegion /\ b = buffer /\ b = Stacked(Len(shards)) /\ out = Curated
          /\ k = Pending /\ month = HeaderMonth(k)
          /\ Selects(out, b, Rows, P, c, f)
    BY ProductListed
<1>2. out = product /\ k \in DOMAIN shards
    <2>1. /\ delivered \in Seq({Cut(q) : q \in DOMAIN shards}) /\ Len(delivered) < Len(shards)
          /\ product = Curated
        BY DEF SliceInv
    <2>2. Len(shards) \in Nat /\ DOMAIN shards = 1..Len(shards)
        BY Inputs DEF AssemblyInv
    <2>3. Len(delivered) \in Nat
        BY <2>1
    <2> QED
        BY <1>1, <2>1, <2>2, <2>3 DEF Pending
<1>3. PICK x \in P : b[x][1] = month
    BY <1>1, <1>2 DEF Deliverable, HeaderMonth
<1>4. /\ c \in Nat /\ out \in [1..c -> Rows]
      /\ \A y \in P : \E i \in 1..c : out[i] = b[y]
    BY <1>1 DEF Selects
<1>5. PICK i \in 1..c : out[i] = b[x]
    BY <1>3, <1>4
<1>6. PICK Q, e, g : /\ Q = {j \in DOMAIN out : out[j][1] = month}
                     /\ e = Cardinality(Q) /\ g = InOrder(Q)
    OBVIOUS
<1>7. i \in Q /\ Places(Q, c)
    BY <1>3, <1>4, <1>5, <1>6 DEF Places
<1>8. Selects(Masked(out, Q), out, Rows, Q, e, g)
    BY <1>4, <1>6, <1>7, MaskedRows
<1>9. PICK j \in 1..e : Masked(out, Q)[j] = out[i] /\ DOMAIN Masked(out, Q) = 1..e
    BY <1>7, <1>8 DEF Selects
<1>10. Masked(out, Q) # <<>>
    <2>1. DOMAIN <<>> = {}
        OBVIOUS
    <2> QED
        BY <1>9, <2>1
<1> QED
    BY <1>1, <1>2, <1>6, <1>10 DEF RefuseMonth, MonthSlice

(* A producer's full grid is accepted: what is what its manifest declares,  *)
(* and is the region once the excluded cells are dropped, no step refuses   *)
(* (C-30).                                                                  *)
THEOREM FullGridAccepted == Spec => []FullGridIsAccepted
<1>1. Init => FullGridIsAccepted
    BY DEF Init, FullGridIsAccepted
<1>2. ASSUME AssemblyInv, EverySlotIsItsShards, SliceInv, FullGridIsAccepted, [Next]_vars
      PROVE  FullGridIsAccepted'
    <2>1. shards' = shards /\ manifest' = manifest
        BY <1>2 DEF Next, RefuseManifest, Assemble, RefuseShard, Complete, RefuseMonths, Curate,
                    RefuseProduct, Slice, RefuseMonth, Refuse, vars, inputs
    <2>2. Deliverable' <=> Deliverable
        BY <2>1 DEF Deliverable, Sized, Identified, InRegion, Stacked
    <2>3. ASSUME Deliverable PROVE verdict' # "refused"
        <3>1. verdict # "refused"
            BY <1>2, <2>3 DEF FullGridIsAccepted
        <3>2. ~RefuseManifest /\ ~RefuseShard /\ ~RefuseMonths
            BY <1>2, <2>3, DeliverableShards DEF RefuseManifest, RefuseShard, RefuseMonths
        <3>3. ~RefuseProduct
            BY <1>2, <2>3, DeliverableCells DEF RefuseProduct
        <3>4. ~RefuseMonth
            BY <1>2, <2>3, DeliverableMonths DEF RefuseMonth
        <3> QED
            BY <1>2, <3>1, <3>2, <3>3, <3>4 DEF Next, Assemble, Complete, Curate, Slice, vars
    <2> QED
        BY <2>2, <2>3 DEF FullGridIsAccepted
<1> QED
    BY <1>1, <1>2, SlicesHold, PTL DEF Spec

-----------------------------------------------------------------------------
(* The way back out. *)

(* No row ships twice. *)
LEMMA NoRowTwice ==
    ASSUME AssemblyInv, EverySlotIsItsShards, SliceInv, verdict = "sliced",
           IsInjective(manifest.expected), IsInjective(product)
    PROVE  IsInjective(FlattenSeq([k \in DOMAIN delivered |-> delivered[k].rows]))
<1>1. PICK n, seqs, L, P, c :
          /\ n = Len(shards) /\ L = Size /\ seqs = [k \in DOMAIN delivered |-> delivered[k].rows]
          /\ P = {i \in DOMAIN buffer : buffer[i][2] \notin Excluded} /\ c = Cardinality(P)
    OBVIOUS
<1>2. /\ n \in Nat /\ n # 0 /\ DOMAIN shards = 1..n
      /\ L \in Nat /\ buffer \in [1..L -> Rows] /\ P \in SUBSET (1..L)
    BY <1>1, BufferWhole, Inputs DEF AssemblyInv
<1>3. c \in Nat /\ product \in [1..c -> Rows]
    <2>1. product = Masked(buffer, P)
        BY <1>1 DEF SliceInv, Curated, WithoutExcluded
    <2> QED
        <3>1. Places(P, L)
            BY <1>2 DEF Places
        <3>2. Selects(product, buffer, Rows, P, c, InOrder(P))
            BY <1>1, <1>2, <2>1, <3>1, MaskedRows
        <3> QED
            BY <3>2 DEF Selects
<1>4. DOMAIN delivered = 1..n /\ \A k \in 1..n : delivered[k] = Cut(k)
    <2>1. /\ delivered \in Seq({Cut(k) : k \in DOMAIN shards}) /\ Len(delivered) = n
          /\ \A k \in 1..Len(delivered) : delivered[k] = Cut(k)
        BY <1>1 DEF SliceInv
    <2> QED
        BY <2>1
<1>5. Len(seqs) = n
    BY <1>1, <1>2, <1>4
<1>6. ASSUME NEW k \in 1..n
      PROVE  /\ seqs[k] \in Seq(Rows) /\ IsInjective(seqs[k])
             /\ \A i \in DOMAIN seqs[k] : seqs[k][i][1] = shards[k].month
    <2>1. PICK Q, month : month = shards[k].month /\ Q = {i \in DOMAIN product : product[i][1] = month}
        OBVIOUS
    <2>2. seqs[k] = Masked(product, Q)
        <3>1. seqs[k] = Cut(k).rows
            BY <1>1, <1>4
        <3> QED
            BY <2>1, <3>1 DEF Cut, HeaderMonth, MonthSlice
    <2>3. Q \in SUBSET (1..c)
        BY <1>3, <2>1
    <2>4. PICK e, f : e = Cardinality(Q) /\ f = InOrder(Q)
        OBVIOUS
    <2>5. /\ e \in Nat /\ Masked(product, Q) \in [1..e -> Rows]
          /\ \A i \in 1..e : f[i] \in Q /\ Masked(product, Q)[i] = product[f[i]]
        <3>1. Places(Q, c)
            BY <1>3, <2>3 DEF Places
        <3>2. Selects(Masked(product, Q), product, Rows, Q, e, f)
            BY <1>3, <2>4, <3>1, MaskedRows
        <3> QED
            BY <3>2 DEF Selects
    <2>6. IsInjective(Masked(product, Q))
        BY <1>3, <2>3, MaskedOnce DEF Places
    <2>7. Masked(product, Q) \in Seq(Rows)
        BY <2>5
    <2>8. \A i \in 1..e : Masked(product, Q)[i][1] = month
        BY <2>1, <2>5
    <2>9. DOMAIN Masked(product, Q) = 1..e
        BY <2>5
    <2> QED
        BY <2>1, <2>2, <2>6, <2>7, <2>8, <2>9
<1>7. ASSUME NEW k \in 1..n, NEW q \in 1..n, NEW i \in DOMAIN seqs[k], NEW j \in DOMAIN seqs[q],
             seqs[k][i] = seqs[q][j]
      PROVE  k = q
    <2>1. seqs[k][i][1] = shards[k].month /\ seqs[q][j][1] = shards[q].month
        BY <1>6
    <2>2. shards[k].month = shards[q].month
        BY <1>7, <2>1
    <2> QED
        BY <1>2, <2>2, DistinctMonths
<1>8. Disjoint(seqs, n, Rows)
    BY <1>2, <1>5, <1>6, <1>7 DEF Disjoint
<1>9. IsInjective(FlattenSeq(seqs))
    BY ONLY <1>8, FlattenOnce
<1> QED
    BY <1>1, <1>9

(* The cut of a header's month is its own shard without the excluded cells. *)
LEMMA CutIsTheShard ==
    ASSUME AssemblyInv, EverySlotIsItsShards, SliceInv, verdict = "sliced",
           IsInjective(manifest.expected), Honest, NEW k \in DOMAIN shards
    PROVE  MonthSlice(product, shards[k].month) = WithoutExcluded(shards[k].rows)
<1>1. PICK n, m, L, b, P, f, c, o, month, part :
          /\ n = Len(shards) /\ m = manifest.count /\ L = Size /\ b = buffer
          /\ P = {i \in DOMAIN b : b[i][2] \notin Excluded} /\ f = InOrder(P) /\ c = Cardinality(P)
          /\ o = (k - 1) * m /\ month = shards[k].month /\ part = shards[k].rows
    OBVIOUS
<1>2. /\ n \in Nat /\ m \in Nat /\ DOMAIN shards = 1..n /\ position = n
      /\ L \in Nat /\ L = n * m /\ b \in [1..L -> Rows] /\ P \in SUBSET (1..L)
      /\ P = {i \in 1..L : b[i][2] \notin Excluded}
    BY <1>1, BufferWhole, Inputs DEF AssemblyInv
<1>3. /\ o \in Nat /\ o + m <= L
    <2>1. PICK h \in Nat : h = k - 1 /\ h < n
        BY <1>2
    <2>2. h * m \in Nat /\ h * m + m <= m * n /\ m * n = n * m
        BY <1>2, <2>1, SlotsOf
    <2> QED
        BY <1>1, <1>2, <2>1, <2>2
<1>4. ASSUME NEW q \in 1..n
      PROVE  /\ Len(shards[q].rows) = m /\ DOMAIN shards[q].rows = 1..m
             /\ \A j \in 1..m : /\ b[(q - 1) * m + j] = shards[q].rows[j]
                                /\ shards[q].rows[j][1] = shards[q].month
    <2>1. Len(shards[q].rows) = m
        BY <1>1, <1>2 DEF AssemblyInv, Taken
    <2>2. shards[q].rows \in Seq(ToSet(shards[q].rows))
        BY <1>2, AssemblyAssumption DEF AssemblyInv
    <2>3. DOMAIN shards[q].rows = 1..m
        BY <2>1, <2>2
    <2>4. \A j \in 1..m : b[(q - 1) * m + j] = shards[q].rows[j]
        BY <1>1, <1>2 DEF EverySlotIsItsShards
    <2> QED
        BY <1>2, <2>1, <2>3, <2>4 DEF Honest
<1>5. PICK R : R = {j \in DOMAIN part : part[j][2] \notin Excluded}
    OBVIOUS
<1>6. /\ DOMAIN part = 1..m /\ R \in SUBSET (1..m) /\ R = {j \in 1..m : part[j][2] \notin Excluded}
      /\ \A j \in 1..m : b[o + j] = part[j] /\ part[j][1] = month
    BY <1>1, <1>2, <1>4, <1>5
<1>7. /\ c \in Nat /\ product = Masked(b, P) /\ product \in [1..c -> Rows]
      /\ \A i \in 1..c : f[i] \in P /\ product[i] = b[f[i]]
      /\ \A x \in P : \E i \in 1..c : f[i] = x /\ product[i] = b[x]
    <2>1. product = Masked(b, P)
        BY <1>1 DEF SliceInv, Curated, WithoutExcluded
    <2> QED
        <3>1. Places(P, L)
            BY <1>2 DEF Places
        <3>2. Selects(Masked(b, P), b, Rows, P, c, f)
            BY <1>1, <1>2, <3>1, MaskedRows
        <3> QED
            BY <2>1, <3>2 DEF Selects
<1>8. PICK Q : Q = {i \in DOMAIN product : product[i][1] = month}
    OBVIOUS
<1>9. Q \in SUBSET (1..c)
    BY <1>7, <1>8
<1>10. ASSUME NEW j \in R PROVE \E i \in Q : f[i] = o + j
    <2>1. j \in 1..m /\ part[j][2] \notin Excluded
        BY <1>6
    <2>2. o + j \in 1..L
        BY <1>2, <1>3, <2>1
    <2>3. b[o + j] = part[j] /\ part[j][1] = month
        BY <1>6, <2>1
    <2>4. o + j \in P
        BY <1>2, <2>1, <2>2, <2>3
    <2>5. PICK i \in 1..c : f[i] = o + j /\ product[i] = b[o + j]
        BY <1>7, <2>4
    <2>6. i \in Q
        BY <1>7, <1>8, <2>3, <2>5
    <2> QED
        BY <2>5, <2>6
<1>11. ASSUME NEW i \in Q PROVE \E j \in R : f[i] = o + j
    <2>1. i \in 1..c /\ product[i][1] = month /\ product[i] = b[f[i]] /\ f[i] \in P
        BY <1>7, <1>8
    <2>2. f[i] \in 1..L /\ b[f[i]][2] \notin Excluded /\ b[f[i]][1] = month
        BY <1>2, <2>1
    <2>3. PICK x : x = f[i]
        OBVIOUS
    <2>4. x \in 1..(n * m)
        BY <1>2, <2>2, <2>3
    <2>5. PICK q \in 1..n : \E j \in 1..m : x = (q - 1) * m + j
        BY <1>2, <2>4, SlotFound
    <2>6. PICK j \in 1..m : x = (q - 1) * m + j
        BY <2>5
    <2>7. b[x] = shards[q].rows[j] /\ b[x][1] = shards[q].month
        BY <1>4, <2>6
    <2>8. shards[q].month = shards[k].month
        BY <1>1, <2>2, <2>3, <2>7
    <2>9. q = k
        BY <1>2, <2>8, DistinctMonths
    <2>10. x = o + j /\ b[x] = part[j]
        BY <1>1, <2>6, <2>7, <2>9
    <2>11. j \in R
        BY <1>6, <2>2, <2>3, <2>10
    <2> QED
        BY <2>3, <2>10, <2>11
<1>12. {f[i] : i \in Q} = {o + j : j \in R}
    BY <1>10, <1>11
<1>13. Masked(product, Q) = Masked(b, {f[i] : i \in Q})
    <2>1. Places(P, L) /\ Places(Q, Cardinality(P))
        BY <1>1, <1>2, <1>7, <1>9 DEF Places
    <2>2. Masked(Masked(b, P), Q) = Masked(b, {InOrder(P)[i] : i \in Q})
        BY ONLY <2>1, MaskedTwice
    <2> QED
        BY <1>1, <1>7, <2>2
<1>14. Masked(part, R) = Masked(b, {o + j : j \in R})
    <2>1. PartAt(part, b, o, m, L)
        BY <1>2, <1>3, <1>6 DEF PartAt
    <2>2. Places(R, m)
        BY <1>2, <1>6 DEF Places
    <2> QED
        BY ONLY <2>1, <2>2, MaskedPart
<1> QED
    BY <1>1, <1>5, <1>8, <1>12, <1>13, <1>14 DEF MonthSlice, WithoutExcluded

(* The way back out is the inverse of the way in: no row ships twice, and   *)
(* each partner shard is the producer's shard of its month without the      *)
(* excluded cells, row for row, though it is cut by month and not by slot.  *)
THEOREM SlicesReturnTheShards == Spec => []SlicesAreTheShards
<1>1. ASSUME AssemblyInv, EverySlotIsItsShards, SliceInv PROVE SlicesAreTheShards
    <2> SUFFICES ASSUME verdict = "sliced", IsInjective(manifest.expected)
                 PROVE  /\ IsInjective(product) =>
                              IsInjective(FlattenSeq([k \in DOMAIN delivered |-> delivered[k].rows]))
                        /\ Honest => delivered = [k \in DOMAIN shards |->
                              [month |-> shards[k].month,
                               rows |-> WithoutExcluded(shards[k].rows)]]
        BY DEF SlicesAreTheShards
    <2>1. IsInjective(product) =>
              IsInjective(FlattenSeq([k \in DOMAIN delivered |-> delivered[k].rows]))
        BY <1>1, NoRowTwice
    <2>2. ASSUME Honest
          PROVE  delivered = [k \in DOMAIN shards |->
                     [month |-> shards[k].month, rows |-> WithoutExcluded(shards[k].rows)]]
        <3>1. PICK n, D : n = Len(shards) /\ D = {Cut(k) : k \in DOMAIN shards}
            OBVIOUS
        <3>2. /\ delivered \in Seq(D) /\ Len(delivered) = n /\ DOMAIN shards = 1..n
              /\ \A k \in 1..n : delivered[k] = Cut(k)
            BY <1>1, <3>1, Inputs DEF SliceInv, AssemblyInv
        <3>3. ASSUME NEW k \in 1..n
              PROVE  delivered[k] = [month |-> shards[k].month,
                                     rows |-> WithoutExcluded(shards[k].rows)]
            <4>1. MonthSlice(product, shards[k].month) = WithoutExcluded(shards[k].rows)
                BY <1>1, <2>2, <3>2, CutIsTheShard
            <4>2. delivered[k] = [month |-> shards[k].month,
                                  rows |-> MonthSlice(product, shards[k].month)]
                BY <3>2 DEF Cut, HeaderMonth
            <4> QED
                BY <4>1, <4>2
        <3>4. delivered = [k \in 1..n |-> delivered[k]]
            BY <3>2
        <3> QED
            BY <3>2, <3>3, <3>4
    <2> QED
        BY <2>1, <2>2
<1> QED
    BY <1>1, SlicesHold, PTL
=============================================================================
