--------------------------- MODULE AssumedPartition ---------------------------
(***************************************************************************)
(* hier::AssumedPartition: a division of boxes among processes that every  *)
(* process works out for itself, without messages.  A box becomes a grid   *)
(* of equal parts, numbered and dealt out to an interval of ranks in       *)
(* order; several boxes share the ranks in proportion to their cells.      *)
(*                                                                         *)
(* A box is [lower, size] in two dimensions, a part [lower, upper].  The   *)
(* parts are assigned contiguously; no caller asks for the other way.      *)
(* Fractions of the cells are rounded by integer arithmetic.               *)
(***************************************************************************)
EXTENDS Integers, Sequences

Dims == 1 .. 2

Product(v) == v[1] * v[2]

AtMost(a, b) == IF a <= b THEN a ELSE b

Ceiling(a, b) == (a + b - 1) \div b

ceilingDivide(v, w) == [d \in Dims |-> Ceiling(v[d], w[d])]

-----------------------------------------------------------------------------
(* AssumedPartitionBox::computeLayout().                                   *)

\* The longest side that can still be cut, the last of equal ones.
Longest(v, sides) ==
    CHOOSE d \in sides : \A e \in sides : v[e] < v[d] \/ (v[e] = v[d] /\ e <= d)

\* Twice as many parts along the side, or just enough where that is too many.
CutMore(grid, side, target) ==
    [grid EXCEPT ![side] =
        IF 2 * Product(grid) > target
        THEN Ceiling(target, Product(grid) \div @)
        ELSE 2 * @]

CutGrid(size, target) ==
    LET cut[grid \in [Dims -> Nat], sides \in SUBSET Dims] ==
            IF Product(grid) >= target \/ sides = {} THEN grid
            ELSE LET side == Longest(ceilingDivide(size, grid), sides)
                     more == CutMore(grid, side, target)
                 IN  cut[more, IF Ceiling(size[side], more[side]) > 1
                               THEN sides \cup {side} ELSE sides \ {side}]
    IN  cut[<<1, 1>>, Dims]

\* Cells per part; the grid is then without the parts outside of the box.
PartSize(size, target) ==
    IF size = <<0, 0>> THEN size ELSE ceilingDivide(size, CutGrid(size, target))

GridSize(size, target) ==
    IF size = <<0, 0>> THEN size ELSE ceilingDivide(size, PartSize(size, target))

\* The numbers run along the shorter side of the grid first.
IndexStride(grid) ==
    IF grid[1] > grid[2] THEN <<grid[2], 1>> ELSE <<1, grid[1]>>

-----------------------------------------------------------------------------
(* AssumedPartitionBox::assignToRanks_contiguous(): n parts, numbered from *)
(* index, over the ranks from first to before last.  A rank has one more   *)
(* than parts_per_rank, parts_per_rank or no parts, in this order.         *)

\* The first part of a rank without an extra one.
\* Variant: the extra ones before it are forgotten.
FirstIndexWith1_NoExtra(index, each, extra) == index + each * extra

FirstIndexWith1(index, each, extra) == index + (1 + each) * extra

assignToRanks(n, index, first, last) ==
    LET ranks == last - first
        each  == IF n <= ranks THEN 1 ELSE n \div ranks
        extra == IF n <= ranks THEN 0 ELSE n % ranks
    IN  [index_begin |-> index, index_end |-> index + n, rank_begin |-> first,
         parts_per_rank |-> each,
         first_rank_with_1 |-> first + extra,
         first_rank_with_0 |-> IF n <= ranks THEN first + n ELSE last,
         first_index_with_1 |-> FirstIndexWith1(index, each, extra)]

beginOfRank(a, rank) ==
    IF rank < a.rank_begin THEN a.index_begin
    ELSE IF rank < a.first_rank_with_1
    THEN a.index_begin + (rank - a.rank_begin) * (1 + a.parts_per_rank)
    ELSE IF rank < a.first_rank_with_0
    THEN a.first_index_with_1 + (rank - a.first_rank_with_1) * a.parts_per_rank
    ELSE a.index_end

endOfRank(a, rank) ==
    IF rank < a.rank_begin THEN a.index_begin
    ELSE IF rank < a.first_rank_with_1
    THEN a.index_begin + (1 + rank - a.rank_begin) * (1 + a.parts_per_rank)
    ELSE IF rank < a.first_rank_with_0
    THEN a.first_index_with_1 + (1 + rank - a.first_rank_with_1) * a.parts_per_rank
    ELSE a.index_end

ownerOf(a, index) ==
    IF index < a.first_index_with_1
    THEN a.rank_begin + (index - a.index_begin) \div (1 + a.parts_per_rank)
    ELSE a.first_rank_with_1 + (index - a.first_index_with_1) \div a.parts_per_rank

-----------------------------------------------------------------------------
(* AssumedPartitionBox: the box, its layout and its ranks.                 *)

\* target is the number of ranks times avg_parts_per_rank = avg[1] / avg[2].
PartedBox(box, index, first, last, avg) ==
    LET target == (2 * (last - first) * avg[1] + avg[2]) \div (2 * avg[2])
        grid   == GridSize(box.size, target)
    IN  [box |-> box, size |-> PartSize(box.size, target), grid |-> grid,
         ranks |-> assignToRanks(Product(grid), index, first, last)]

Indices(p) == p.ranks.index_begin .. p.ranks.index_end - 1

PartAt(p, position) ==
    LET lower == [d \in Dims |-> p.box.lower[d] + position[d] * p.size[d]]
    IN  [lower |-> lower,
         upper |-> [d \in Dims |-> AtMost(lower[d] + p.size[d] - 1,
                                          p.box.lower[d] + p.box.size[d] - 1)]]

\* getBox() of a number: its position, along the longer side first.
partOf(p, index) ==
    LET n      == index - p.ranks.index_begin
        stride == IndexStride(p.grid)
        along  == IF p.grid[1] > p.grid[2] THEN 1 ELSE 2
        far    == n \div stride[along]
        near   == n - far * stride[along]
    IN  PartAt(p, [d \in Dims |-> IF d = along THEN far ELSE near \div stride[d]])

\* getBox() of a position: its number.
indexAt(p, position) ==
    p.ranks.index_begin + position[1] * IndexStride(p.grid)[1]
                        + position[2] * IndexStride(p.grid)[2]

\* findOverlaps(): the query in units of parts, within the grid.  The lower
\* corner of the box is not subtracted first.
\* Variant: the last column of the grid is left out.
Within_Short(p, d) == 0 .. p.grid[d] - 2

Within(p, d) == 0 .. p.grid[d] - 1

findOverlaps(p, query) ==
    LET Coarsened(d) == query.lower[d] \div p.size[d] .. query.upper[d] \div p.size[d]
    IN  {indexAt(p, <<x, y>>) : x \in Coarsened(1) \cap Within(p, 1),
                                y \in Coarsened(2) \cap Within(p, 2)}

-----------------------------------------------------------------------------
(* AssumedPartition: several boxes over the ranks before rank_end.         *)

Cells(boxes, k) ==
    LET sum[i \in Nat] == IF i = 0 THEN 0 ELSE sum[i - 1] + Product(boxes[i].size)
    IN  sum[k]

\* A fraction of the ranks, rounded; the interval of ranks of box k.
Rounded(part, whole, ranks) == (2 * part * ranks + whole) \div (2 * whole)

RanksOf(boxes, k, ranks) ==
    LET all      == Cells(boxes, Len(boxes))
        below    == Cells(boxes, k - 1)
        upto     == Cells(boxes, k)
        lo       == Rounded(below, all, ranks)
        hi       == Rounded(upto, all, ranks)
        midpoint == AtMost(Rounded(below + upto, 2 * all, ranks), ranks - 1)
    IN  IF lo = hi THEN <<midpoint, midpoint + 1>> ELSE <<lo, hi>>

\* partition().
PartedBoxes(boxes, ranks, index_begin, avg) ==
    LET parted[k \in Nat] ==
            LET r == RanksOf(boxes, k, ranks)
            IN  PartedBox(boxes[k],
                          IF k = 1 THEN index_begin ELSE parted[k - 1].ranks.index_end,
                          r[1], r[2], avg)
    IN  [k \in 1 .. Len(boxes) |-> parted[k]]

\* getAllBoxes() of a rank: from its first part in any box to its last in any.
PartsOfRank(parted, rank) ==
    LET Has == {k \in DOMAIN parted :
                   beginOfRank(parted[k].ranks, rank) < endOfRank(parted[k].ranks, rank)}
        first == CHOOSE k \in Has : \A j \in Has : k <= j
        last  == CHOOSE k \in Has : \A j \in Has : k >= j
    IN  IF Has = {} THEN {}
        ELSE beginOfRank(parted[first].ranks, rank)
                .. endOfRank(parted[last].ranks, rank) - 1

=============================================================================
