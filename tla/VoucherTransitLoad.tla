------------------------- MODULE VoucherTransitLoad -------------------------
(***************************************************************************)
(* mesh::VoucherTransitLoad as a container of work in transit.  A voucher  *)
(* stands for an amount of the work of the process that issued it; a       *)
(* container has at most one voucher of an issuer, so it is a function     *)
(* from issuers to amounts, 0 where it has no voucher.                     *)
(*                                                                         *)
(* Inserting a voucher next to one of the same issuer ends the program     *)
(* (TBOX_ERROR), unless the caller asks for the two to be combined; the    *)
(* results of moving vouchers say whether that happened ("clash").         *)
(***************************************************************************)
EXTENDS Integers, FiniteSets, FiniteSetsExt, Functions

CONSTANTS
    Ranks,          \* processes
    Tolerance       \* getLoadComparisonTol(): smaller than any amount of work

ASSUME VoucherAssumption ==
    /\ IsFiniteSet(Ranks) /\ Ranks \subseteq Nat
    /\ Tolerance \in Nat \ {0}

Containers == [Ranks -> Nat]

Empty == [r \in Ranks |-> 0]

Issuers(load) == {r \in Ranks : load[r] > 0}

SumLoad(load) == MapThenSumSet(LAMBDA r : load[r], Ranks)

\* insertAll(), which combines vouchers of the same issuer.
Combined(a, b) == [r \in Ranks |-> a[r] + b[r]]

-----------------------------------------------------------------------------
(* Moving work from src to dst until dst has what is ideal for it: whole   *)
(* vouchers, and at last a part of one.                                    *)

Distance(a, b) == IF a > b THEN a - b ELSE b - a

\* The end of src whose issuers are nearer to those of dst.
FromEnd(src, dst) ==
    \/ Issuers(dst) = {}
    \/ Distance(Max(Issuers(src)), Min(Issuers(dst)))
          < Distance(Max(Issuers(dst)), Min(Issuers(src)))

\* A voucher that would leave too small a rest, in itself or still to give.
Awkward(amount, give) ==
    \/ give < amount /\ 2 * give > amount
    \/ amount < give /\ 2 * (give - amount) < give

NextToMove(src, give, from_end) ==
    LET handy == {r \in Issuers(src) : ~Awkward(src[r], give)}
    IN  IF from_end /\ handy # {} THEN Max(handy) ELSE Min(Issuers(src))

Moved(s, ideal, from_end) ==
    LET give   == ideal - SumLoad(s.dst)
        issuer == NextToMove(s.src, give, from_end)
        amount == IF s.src[issuer] < give + Tolerance THEN s.src[issuer] ELSE give
    IN  [src   |-> [s.src EXCEPT ![issuer] = @ - amount],
         dst   |-> [s.dst EXCEPT ![issuer] = @ + amount],
         clash |-> s.clash \/ s.dst[issuer] > 0]

raiseDstLoad(src, dst, ideal) ==
    LET from_end == FromEnd(src, dst)
        raise[s \in [src : Containers, dst : Containers, clash : BOOLEAN]] ==
            IF SumLoad(s.dst) < ideal - Tolerance /\ Issuers(s.src) # {}
            THEN raise[Moved(s, ideal, from_end)]
            ELSE s
    IN  IF Issuers(src) = {} THEN [src |-> src, dst |-> dst, clash |-> FALSE]
        ELSE raise[[src |-> src, dst |-> dst, clash |-> FALSE]]

\* Brings main to its ideal load with what is in hold, or gives hold what is
\* too much.  The acceptable range is for boxes, which cannot be cut anywhere.
adjustLoad(main, hold, ideal) ==
    LET change == ideal - SumLoad(main)
        up     == raiseDstLoad(hold, main, ideal)
        down   == raiseDstLoad(main, hold, SumLoad(hold) - change)
    IN  CASE change > 0 -> [main |-> up.dst, hold |-> up.src, clash |-> up.clash]
          [] change < 0 -> [main |-> down.src, hold |-> down.dst, clash |-> down.clash]
          [] change = 0 -> [main |-> main, hold |-> hold, clash |-> FALSE]

=============================================================================
