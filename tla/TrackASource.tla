---------------------------- MODULE TrackASource ----------------------------
(***************************************************************************)
(* frames_for_target (contract/track_a_source.py) assembling one target's  *)
(* shards into a buffer sized from the manifest, and what the lease does   *)
(* with the frame afterwards: the declared ensemble, the region's          *)
(* exclusion and the coverage gate (source_selection.TargetLease.load);    *)
(* then the cut of the product into one partner shard a header, by         *)
(* month_slice (deliver_run, step 3).                                      *)
(*                                                                         *)
(* The shards are what a producer may upload: their payload need not agree *)
(* with their header, nor the header with the manifest.  A row is its      *)
(* <<month, cell>>; draws do not matter beyond their number.  The buffer   *)
(* comes from np.empty: a slot nobody has written holds Garbage.           *)
(***************************************************************************)
EXTENDS Naturals, Sequences, FiniteSets, SequencesExt

CONSTANTS
    Manifests,       \* [count, expected]: expected_cell_count and expected_months (a sequence)
    ShardLists,      \* the sequences of shards a manifest may list
    Excluded,        \* the region's excluded cells
    ExpectedCells,   \* the region's pinned count; None when it is not pinned
    Garbage, None

(* readable: the bytes have the listed hash and are a well-formed archive;  *)
(* draws: columns of the payload; month: the header's time_id; ours: the    *)
(* header names the manifest's target; declared: it names the launch's      *)
(* ensemble.                                                                *)
ASSUME AssemblyAssumption ==
    /\ \A m \in Manifests : m.count \in Nat /\ m.expected \in Seq(ToSet(m.expected))
    /\ \A list \in ShardLists :
          /\ list \in Seq(ToSet(list))
          /\ \A k \in DOMAIN list :
                /\ list[k].readable \in BOOLEAN /\ list[k].ours \in BOOLEAN
                /\ list[k].declared \in BOOLEAN
                /\ list[k].draws \in Nat /\ list[k].rows \in Seq(ToSet(list[k].rows))
    /\ None \notin Nat

VARIABLES
    manifest, shards,   \* the inputs
    position,           \* how many shards are in the buffer
    buffer,             \* values, time and unit, one row a slot
    width,              \* its columns, fixed by the first shard
    monthsSeen,
    verdict,            \* "assembling", "assembled", "leased", "sliced" or "refused"
    product,            \* the rows load() returns
    delivered           \* the partner shards cut from it: [month, rows]

inputs == <<manifest, shards>>
assembly == <<position, buffer, width, monthsSeen>>
vars == <<inputs, assembly, verdict, product, delivered>>

Init ==
    /\ manifest \in Manifests
    /\ shards \in ShardLists
    /\ position = 0
    /\ buffer = <<>>
    /\ width = None
    /\ monthsSeen = <<>>
    /\ verdict = "assembling"
    /\ product = <<>>
    /\ delivered = <<>>

Refuse == verdict' = "refused" /\ UNCHANGED <<inputs, assembly, product, delivered>>

-----------------------------------------------------------------------------
(* An empty run, or a count that cannot size an array. *)
Sized == shards # <<>> /\ manifest.count >= 1

RefuseManifest ==
    /\ verdict = "assembling" /\ position = 0
    /\ ~Sized
    /\ Refuse

(* One shard: verified, of this target, with the declared number of rows    *)
(* and the draws of the first; then written to its slots.                   *)
Fits(s) ==
    /\ s.readable
    /\ s.ours
    /\ Len(s.rows) = manifest.count
    /\ width \in {None, s.draws}

AllocatedByMonth ==            \* mutant: sized by the declared months, not by the shards
    IF width = None THEN [i \in 1..(manifest.count * Len(manifest.expected)) |-> Garbage]
                    ELSE buffer

Allocated == IF width = None THEN [i \in 1..(manifest.count * Len(shards)) |-> Garbage]
                             ELSE buffer

FirstSlot(k) == k * manifest.count + 1
LastSlotShort(k) == (k + 1) * manifest.count - 1    \* mutant: off by one

LastSlot(k)  == (k + 1) * manifest.count

Assemble ==
    LET s == shards[position + 1]
        slots == FirstSlot(position)..LastSlot(position)
    IN  /\ verdict = "assembling" /\ Sized /\ position < Len(shards)
        /\ Fits(s)
        /\ buffer' = [i \in DOMAIN Allocated |->
                         IF i \in slots THEN s.rows[i - FirstSlot(position) + 1] ELSE Allocated[i]]
        /\ width' = s.draws
        /\ monthsSeen' = Append(monthsSeen, s.month)
        /\ position' = position + 1
        /\ UNCHANGED <<inputs, verdict, product, delivered>>

RefuseShard ==
    /\ verdict = "assembling" /\ Sized /\ position < Len(shards)
    /\ ~Fits(shards[position + 1])
    /\ Refuse

SameMonthSet(a, b) == ToSet(a) = ToSet(b)    \* mutant: a repeated month passes

(* The months of the headers, compared as sorted lists. *)
SameMonths(a, b) ==
    /\ Len(a) = Len(b)
    /\ \A m \in ToSet(a) \cup ToSet(b) :
          Cardinality({i \in DOMAIN a : a[i] = m}) = Cardinality({i \in DOMAIN b : b[i] = m})

Complete ==
    /\ verdict = "assembling" /\ Sized /\ position = Len(shards)
    /\ SameMonths(monthsSeen, manifest.expected)
    /\ verdict' = "assembled"
    /\ UNCHANGED <<inputs, assembly, product, delivered>>

RefuseMonths ==
    /\ verdict = "assembling" /\ Sized /\ position = Len(shards)
    /\ ~SameMonths(monthsSeen, manifest.expected)
    /\ Refuse

-----------------------------------------------------------------------------
(* TargetLease.load, after the assembly. *)

CellsIn(rows) == {rows[i][2] : i \in DOMAIN rows}

(* numpy's rows[mask]: the rows at the places of the mask, in order. *)
InOrder(places) ==
    CHOOSE order \in [1..Cardinality(places) -> places] :
        \A i, j \in DOMAIN order : i < j => order[i] < order[j]

Masked(rows, places) ==
    LET order == InOrder(places) IN [i \in DOMAIN order |-> rows[order[i]]]

Identified == \A k \in DOMAIN shards : shards[k].declared

(* drop_units *)
WithoutExcluded(rows) == Masked(rows, {i \in DOMAIN rows : rows[i][2] \notin Excluded})

Curated == WithoutExcluded(buffer)

CoversUncounted(rows) == CellsIn(rows) \cap Excluded = {}    \* mutant: no count gate

CoversOfTheGrid(rows) ==       \* mutant: the gates come before the exclusion
    /\ CellsIn(buffer) \cap Excluded = {}
    /\ ExpectedCells # None => Cardinality(CellsIn(buffer)) = ExpectedCells

Covers(rows) ==
    /\ CellsIn(rows) \cap Excluded = {}
    /\ ExpectedCells # None => Cardinality(CellsIn(rows)) = ExpectedCells

Curate ==
    /\ verdict = "assembled"
    /\ Identified /\ Covers(Curated)
    /\ product' = Curated
    /\ verdict' = "leased"
    /\ UNCHANGED <<inputs, assembly, delivered>>

RefuseProduct ==
    /\ verdict = "assembled"
    /\ ~(Identified /\ Covers(Curated))
    /\ Refuse

-----------------------------------------------------------------------------
(* deliver_run's step 3: each header, in manifest order, cuts its month out *)
(* of the whole product.  The draws gate and the comparison with the other  *)
(* targets, which come between, are WireSink's.                             *)

MonthSlice(rows, month) == Masked(rows, {i \in DOMAIN rows : rows[i][1] = month})

MonthExpected(k) == manifest.expected[k]    \* mutant: the manifest's list, not the header

HeaderMonth(k) == shards[k].month

Pending == Len(delivered) + 1

Slice ==
    LET month == HeaderMonth(Pending)
        rows == MonthSlice(product, month)
    IN  /\ verdict = "leased"
        /\ rows # <<>>
        /\ delivered' = Append(delivered, [month |-> month, rows |-> rows])
        /\ verdict' = IF Pending = Len(shards) THEN "sliced" ELSE "leased"
        /\ UNCHANGED <<inputs, assembly, product>>

RefuseMonth ==
    /\ verdict = "leased"
    /\ MonthSlice(product, HeaderMonth(Pending)) = <<>>
    /\ Refuse

Next ==
    \/ RefuseManifest \/ Assemble \/ RefuseShard \/ Complete \/ RefuseMonths
    \/ Curate \/ RefuseProduct \/ Slice \/ RefuseMonth

Spec == Init /\ [][Next]_vars

-----------------------------------------------------------------------------
TypeOK ==
    /\ position \in 0..Len(shards)
    /\ width \in Nat \cup {None}
    /\ verdict \in {"assembling", "assembled", "leased", "sliced", "refused"}
    /\ Len(monthsSeen) = position
    /\ Len(buffer) \in {0, manifest.count * Len(shards)}

(* The buffer filled in place equals the shards stacked (register C-101):   *)
(* at every step the slots written are exactly the rows of the shards       *)
(* taken, in order, and no shard has touched a slot of another.             *)
Stacked(n) == FlattenSeq([k \in 1..n |-> shards[k].rows])

FilledLikeStacking ==
    /\ \A i \in DOMAIN buffer :
          buffer[i] = IF i <= Len(Stacked(position)) THEN Stacked(position)[i] ELSE Garbage
    /\ verdict \in {"assembled", "leased", "sliced"} => buffer = Stacked(Len(shards))

(* What the manifest declares is what was assembled: as many headers as it  *)
(* lists months, a header for each of them and, when it lists distinct      *)
(* months, one; every shard readable, of the target, of the declared number *)
(* of rows and of one width.  A list that repeats a month is taken as it is.*)
DeclaredMonthsOnce ==
    verdict \in {"assembled", "leased", "sliced"} =>
        /\ Len(shards) = Len(manifest.expected)
        /\ \A m \in ToSet(manifest.expected) : \E k \in DOMAIN shards : shards[k].month = m
        /\ IsInjective(manifest.expected) =>
              \A j, k \in DOMAIN shards : shards[j].month = shards[k].month => j = k
        /\ \A k \in DOMAIN shards :
              /\ shards[k].readable /\ shards[k].ours
              /\ Len(shards[k].rows) = manifest.count
              /\ shards[k].draws = shards[1].draws

(* The places of the producer's stack that the region keeps, and what it is *)
(* to keep them: kept lists the rows of those places and no other, in the   *)
(* stack's order.                                                           *)
InRegion == {i \in DOMAIN Stacked(Len(shards)) : Stacked(Len(shards))[i][2] \notin Excluded}

Keeps(kept, rows, places) ==
    \E order \in [DOMAIN kept -> places] :
        /\ \A i, j \in DOMAIN kept : i < j => order[i] < order[j]
        /\ \A place \in places : \E i \in DOMAIN kept : order[i] = place
        /\ \A i \in DOMAIN kept : kept[i] = rows[order[i]]

(* The product is the shards stacked, row for row and in order, less the    *)
(* rows of the excluded cells; it has the region's pinned number of cells,  *)
(* and every header is of the declared ensemble.                            *)
ProductIsTheRegion ==
    verdict \in {"leased", "sliced"} =>
        /\ Keeps(product, Stacked(Len(shards)), InRegion)
        /\ ExpectedCells # None => Cardinality(CellsIn(product)) = ExpectedCells
        /\ Identified

(* A producer that publishes its full model grid is not refused for the     *)
(* cells the region excludes (C-30): whenever the shards are what the       *)
(* manifest declares, the cells left after the exclusion are the region's,  *)
(* and each header's month has a row left, no step refuses.                 *)
Deliverable ==
    /\ Sized /\ Identified
    /\ \A k \in DOMAIN shards :
          /\ shards[k].readable /\ shards[k].ours
          /\ Len(shards[k].rows) = manifest.count
          /\ shards[k].draws = shards[1].draws
          /\ \E i \in InRegion : Stacked(Len(shards))[i][1] = shards[k].month
    /\ SameMonths([k \in DOMAIN shards |-> shards[k].month], manifest.expected)
    /\ ExpectedCells # None =>
          Cardinality({Stacked(Len(shards))[i][2] : i \in InRegion}) = ExpectedCells

FullGridIsAccepted == verdict = "refused" => ~Deliverable

(* The way back out is the inverse of the way in: the partner's shards are  *)
(* cut from the stack by month, not by slot, yet when the declared months   *)
(* are distinct no row ships twice, and when moreover the payloads hold the *)
(* months their headers name each partner shard is the producer's shard of  *)
(* that month without the excluded cells, row for row.                      *)
Honest == \A k \in DOMAIN shards : \A i \in DOMAIN shards[k].rows :
              shards[k].rows[i][1] = shards[k].month

SlicesAreTheShards ==
    verdict = "sliced" /\ IsInjective(manifest.expected) =>
        /\ IsInjective(product) =>
              IsInjective(FlattenSeq([k \in DOMAIN delivered |-> delivered[k].rows]))
        /\ Honest =>
              delivered = [k \in DOMAIN shards |->
                  [month |-> shards[k].month,
                   rows |-> WithoutExcluded(shards[k].rows)]]

=============================================================================
