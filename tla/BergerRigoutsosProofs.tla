------------------------ MODULE BergerRigoutsosProofs ------------------------
(***************************************************************************)
(* The clustering algorithm, for any number of processes, any tree of      *)
(* nodes, whatever is split, accepted and recombined, and however MPI      *)
(* behaves: no process loses a node it works on, tags are unique as long   *)
(* as the processes have tags of their own left, the processes agree on    *)
(* the boxes and the neighborhoods found, and each knows which others have *)
(* relationships for it.                                                   *)
(***************************************************************************)
EXTENDS BergerRigoutsos, SequenceTheorems, FiniteSetTheorems,
        WellFoundedInduction, TLAPS

(***************************************************************************)
(* No process claims the first tag of the next one's pool, which the code  *)
(* allows before it ends the program.                                      *)
(***************************************************************************)
PoolsLast == \A p \in Ranks : self[p].next_tag <= Pool * (p + 1)

-----------------------------------------------------------------------------
(* Types.                                                                  *)

AllPhases == {"none", "for_data_only", "to_be_launched", "run_children",
              "completed", "deallocated"} \cup Ops

ProcessType ==
    [pos        : {"loop", "barrier"} \cup Sharing,
     at         : Nodes \cup {NoNode},
     relaunch   : Seq(Nodes),
     completed  : Seq(Nodes),
     phase      : [Nodes -> AllPhases],
     acceptance : [Nodes -> Int],
     told       : [Nodes -> Int],
     boxes      : SUBSET Nodes,
     computed   : SUBSET Nodes,
     next_tag   : Nat,
     received   : SUBSET Ranks]

NodeType == [group : SUBSET Ranks, owner : Ranks, tag : Int]

Typed ==
    /\ input \in Inputs
    /\ node \in [Nodes -> NodeType]
    /\ self \in [Ranks -> ProcessType]

-----------------------------------------------------------------------------
(* The invariant of one process, of its state s.                           *)

\* The list q has the elements of D, once each.
Lists(q, D) ==
    /\ \A i, j \in 1 .. Len(q) : q[i] = q[j] => i = j
    /\ \A i \in 1 .. Len(q) : q[i] \in D
    /\ \A x \in D : \E i \in 1 .. Len(q) : q[i] = x

Elements(q) == {q[i] : i \in 1 .. Len(q)}

\* Phases of a node that the process has begun, its parent not past its end.
Live(ph) == Active(ph) \/ ph = "completed"

IsChild(m, n) == ~IsRoot(m) /\ ParentOf(m) = n

\* Children of node n are in use while the process runs them.
ChildrenOK(s, n) ==
    \A m \in Nodes : IsChild(m, n) => (Live(s.phase[m]) <=> s.phase[n] = "run_children")

\* Boxes that are rejected are those of the nodes that are split.
DecisionOK(s, n, split) ==
    /\ s.phase[n] \in {"gather_grouping_criteria", "bcast_child_groups",
                       "run_children"} => n \in split
    /\ s.phase[n] \in {"none", "for_data_only", "to_be_launched", "reduce_histogram",
                       "bcast_acceptability", "deallocated"} =>
            (Rejected(s.acceptance[n]) => n \in split)

\* Nodes that the relaunch queue is to hold.
Ready(s) ==
    {n \in Nodes :
        \/ s.phase[n] = "to_be_launched"
        \/ /\ s.phase[n] = "run_children"
           /\ \A c \in ChildrenOf(n) : s.phase[c] = "completed"}

\* The queue of completed Members has nodes whose operations ended, once each.
CompletedOK(s) ==
    /\ Lists(s.completed, Elements(s.completed))
    /\ \A n \in Elements(s.completed) : s.phase[n] \in Ops /\ n # s.at

ProcessOK(s, split) ==
    /\ \A n \in Nodes : ChildrenOK(s, n) /\ DecisionOK(s, n, split)
    /\ Lists(s.relaunch, Ready(s))
    /\ CompletedOK(s)
    /\ s.at # NoNode => s.phase[s.at] \in Ops
    /\ s.pos # "loop" => \A n \in Nodes : ~Active(s.phase[n])

ClusterInv == Typed /\ \A p \in Ranks : ProcessOK(self[p], input.split)

(***************************************************************************)
(* A process inside continueAlgorithm() of node n: Taken when it begins,   *)
(* Working when the node has no children in use (it has none yet, or they  *)
(* have been deleted), and its own phase is still to be changed.           *)
(***************************************************************************)
Taken(s, n, split) ==
    /\ s \in ProcessType /\ n \in Nodes
    /\ s.at = n /\ s.pos = "loop" /\ Active(s.phase[n])
    /\ s.phase[n] = "run_children" => n \in Ready(s)
    /\ \A m \in Nodes : ChildrenOK(s, m) /\ DecisionOK(s, m, split)
    /\ Lists(s.relaunch, Ready(s) \ {n})
    /\ CompletedOK(s)

Working(s, n, split) ==
    /\ s \in ProcessType /\ n \in Nodes
    /\ s.at = n /\ s.pos = "loop" /\ Active(s.phase[n])
    /\ \A m \in Nodes : IsChild(m, n) => ~Live(s.phase[m])
    /\ \A m \in Nodes \ {n} : ChildrenOK(s, m) /\ DecisionOK(s, m, split)
    /\ Lists(s.relaunch, Ready(s) \ {n})
    /\ CompletedOK(s)

-----------------------------------------------------------------------------
(* Lists.                                                                  *)

LEMMA ListsItsElements ==
    ASSUME NEW q, NEW D, Lists(q, D)
    PROVE  Elements(q) = D
BY DEF Lists, Elements

LEMMA HeadOfList ==
    ASSUME NEW q \in Seq(Nodes), NEW D, Lists(q, D), q # <<>>
    PROVE  /\ Head(q) \in D /\ Head(q) \in Nodes
           /\ Tail(q) \in Seq(Nodes) /\ Lists(Tail(q), D \ {Head(q)})
<1>1. /\ Len(q) \in Nat /\ Len(q) >= 1
      /\ Tail(q) \in Seq(Nodes) /\ Len(Tail(q)) = Len(q) - 1
      /\ \A i \in 1 .. Len(Tail(q)) : Tail(q)[i] = q[i + 1]
      /\ Head(q) = q[1] /\ q[1] \in Nodes
  BY EmptySeq, HeadTailProperties
<1>2. 1 \in 1 .. Len(q) /\ Head(q) \in D
  BY <1>1 DEF Lists
<1> DEFINE t == Tail(q)
<1>3. \A i \in 1 .. Len(t) : i + 1 \in 1 .. Len(q) /\ i + 1 # 1 /\ t[i] = q[i + 1]
  BY <1>1
<1>4. \A i \in 1 .. Len(t) : t[i] \in D \ {Head(q)}
  BY <1>1, <1>2, <1>3 DEF Lists
<1>5. \A i, j \in 1 .. Len(t) : t[i] = t[j] => i = j
  <2> TAKE i, j \in 1 .. Len(t)
  <2>1. t[i] = t[j] => i + 1 = j + 1
    BY <1>3 DEF Lists
  <2> QED
    BY <2>1, <1>1
<1>6. ASSUME NEW x \in D \ {Head(q)} PROVE \E i \in 1 .. Len(t) : t[i] = x
  <2>1. PICK j \in 1 .. Len(q) : q[j] = x
    BY <1>6 DEF Lists
  <2>2. j # 1
    BY <2>1, <1>1, <1>6
  <2>3. j - 1 \in 1 .. Len(t) /\ t[j - 1] = x
    BY <2>1, <2>2, <1>1
  <2> QED
    BY <2>3
<1> QED
  BY <1>1, <1>2, <1>4, <1>5, <1>6 DEF Lists

LEMMA PutInFront ==
    ASSUME NEW q \in Seq(Nodes), NEW D, Lists(q, D), NEW x \in Nodes, x \notin D
    PROVE  <<x>> \o q \in Seq(Nodes) /\ Lists(<<x>> \o q, D \cup {x})
<1> DEFINE t == <<x>> \o q
<1>1. /\ t \in Seq(Nodes) /\ Len(q) \in Nat /\ Len(t) = Len(q) + 1
      /\ t[1] = x /\ \A i \in 1 .. Len(q) : t[i + 1] = q[i]
  <2>1. <<x>> \in Seq(Nodes) /\ Len(<<x>>) = 1 /\ <<x>>[1] = x /\ Len(q) \in Nat
    OBVIOUS
  <2>2. /\ t \in Seq(Nodes) /\ Len(t) = 1 + Len(q)
        /\ \A i \in 1 .. 1 + Len(q) : t[i] = IF i <= 1 THEN <<x>>[i] ELSE q[i - 1]
    BY <2>1, ConcatProperties
  <2> HIDE DEF t
  <2> QED
    BY <2>1, <2>2
<1> HIDE DEF t
<1>2. ASSUME NEW i \in 1 .. Len(t)
      PROVE  \/ i = 1 /\ t[i] = x
             \/ i - 1 \in 1 .. Len(q) /\ t[i] = q[i - 1] /\ t[i] \in D
  <2>1. CASE i = 1
    BY <2>1, <1>1
  <2>2. CASE i # 1
    <3>1. PICK j \in 1 .. Len(q) : j = i - 1 /\ j + 1 = i
      BY <2>2, <1>1
    <3>2. t[j + 1] = q[j] /\ q[j] \in D
      BY <3>1, <1>1 DEF Lists
    <3> QED
      BY <3>1, <3>2
  <2> QED
    BY <2>1, <2>2
<1>3. ASSUME NEW i \in 1 .. Len(t), NEW j \in 1 .. Len(t), t[i] = t[j]
      PROVE  i = j
  <2>1. CASE i - 1 \in 1 .. Len(q) /\ j - 1 \in 1 .. Len(q)
             /\ q[i - 1] = q[j - 1]
    <3>1. i - 1 = j - 1
      BY <2>1 DEF Lists
    <3> QED
      BY <3>1, <1>1
  <2> QED
    BY <1>2, <1>3, <2>1
<1>4. ASSUME NEW y \in D \cup {x} PROVE \E i \in 1 .. Len(t) : t[i] = y
  <2>1. CASE y = x
    <3>1. 1 \in 1 .. Len(t)
      BY <1>1
    <3> QED
      BY <2>1, <3>1, <1>1
  <2>2. CASE y \in D
    <3>1. PICK j \in 1 .. Len(q) : q[j] = y
      BY <2>2 DEF Lists
    <3>2. j + 1 \in 1 .. Len(t) /\ t[j + 1] = y
      BY <3>1, <1>1
    <3> QED
      BY <3>2
  <2> QED
    BY <2>1, <2>2
<1> QED
  BY <1>1, <1>2, <1>3, <1>4 DEF Lists, t

LEMMA TwoInFront ==
    ASSUME NEW q \in Seq(Nodes), NEW a \in Nodes, NEW b \in Nodes
    PROVE  <<a>> \o (<<b>> \o q) = <<a, b>> \o q
<1>1. PICK s, t : s = <<a>> /\ t = <<b>>
  OBVIOUS
<1>2. s \in Seq(Nodes) /\ Len(s) = 1 /\ s[1] = a
  BY <1>1
<1>3. t \in Seq(Nodes) /\ Len(t) = 1 /\ t[1] = b
  BY <1>1
<1>4. PICK st : st = s \o t
  OBVIOUS
<1>5. /\ st \in Seq(Nodes) /\ Len(st) = 2
      /\ \A i \in 1 .. 2 : st[i] = IF i <= 1 THEN s[i] ELSE t[i - 1]
  <2>1. /\ st \in Seq(Nodes) /\ Len(st) = Len(s) + Len(t)
        /\ \A i \in 1 .. Len(s) + Len(t) : st[i] = IF i <= Len(s) THEN s[i] ELSE t[i - Len(s)]
    BY <1>2, <1>3, <1>4, ConcatProperties
  <2> QED
    BY <2>1, <1>2, <1>3
<1>6. PICK ab : ab = <<a, b>>
  OBVIOUS
<1>7. ab \in Seq(Nodes) /\ Len(ab) = 2 /\ ab[1] = a /\ ab[2] = b
  BY <1>6
<1>8. st[1] = a /\ st[2] = b
  BY <1>2, <1>3, <1>5
<1>9. st = ab
  <2>1. \A i \in 1 .. 2 : i = 1 \/ i = 2
    OBVIOUS
  <2>2. Len(st) = Len(ab) /\ \A i \in 1 .. Len(st) : st[i] = ab[i]
    BY <2>1, <1>5, <1>7, <1>8
  <2> QED
    BY <2>2, <1>5, <1>7, SeqEqual
<1>10. (s \o t) \o q = s \o (t \o q)
  BY <1>2, <1>3, ConcatAssociative
<1> QED
  BY <1>1, <1>4, <1>6, <1>9, <1>10

\* How often an element occurs in a list.
LEMMA ListsOnce ==
    ASSUME NEW q \in Seq(Nodes), NEW D, Lists(q, D), NEW x
    PROVE  Cardinality({i \in DOMAIN q : q[i] = x}) = IF x \in D THEN 1 ELSE 0
<1>1. DOMAIN q = 1 .. Len(q)
  OBVIOUS
<1>2. CASE x \in D
  <2>1. PICK i \in 1 .. Len(q) : q[i] = x
    BY <1>2 DEF Lists
  <2>2. {j \in DOMAIN q : q[j] = x} = {i}
    BY <1>1, <2>1 DEF Lists
  <2> QED
    BY <1>2, <2>2, FS_Singleton
<1>3. CASE x \notin D
  <2>1. {j \in DOMAIN q : q[j] = x} = {}
    BY <1>1, <1>3 DEF Lists
  <2> QED
    BY <1>3, <2>1, FS_EmptySet
<1> QED
  BY <1>2, <1>3

-----------------------------------------------------------------------------
(* The tree of nodes.                                                      *)

\* What is assumed of the nodes and of the inputs, apart.
LEMMA TreeAssumption ==
    ASSUME NEW n \in Nodes
    PROVE  /\ n \in Seq(Nat) /\ n # <<>> /\ n[1] \in 1 .. Roots
           /\ Len(n) > 1 =>
                /\ n[Len(n)] \in {1, 2}
                /\ ParentOf(n) \in Nodes
                /\ SiblingOf(n) \in Nodes
<1>1. /\ n \in Seq(Nat) /\ n # <<>> /\ n[1] \in 1 .. Roots
      /\ Len(n) > 1 =>
           /\ n[Len(n)] \in {1, 2}
           /\ SubSeq(n, 1, Len(n) - 1) \in Nodes
           /\ Append(SubSeq(n, 1, Len(n) - 1), 3 - n[Len(n)]) \in Nodes
  BY BergerRigoutsosAssumption, Zenon
<1> QED
  BY <1>1, Zenon DEF ParentOf, SiblingOf

LEMMA InputFacts ==
    ASSUME NEW i \in Inputs
    PROVE  /\ i.split \subseteq {n \in Nodes : Append(n, 1) \in Nodes}
           /\ i.overlap \in [Nodes -> (SUBSET Ranks) \ {{}}]
BY BergerRigoutsosAssumption, Zenon

LEMMA NodeFacts ==
    ASSUME NEW n \in Nodes
    PROVE  /\ n \in Seq(Nat) /\ n # NoNode /\ Len(n) \in Nat /\ Len(n) >= 1
           /\ n[1] \in 1 .. Roots
           /\ IsRoot(n) => n = <<n[1]>>
           /\ ~IsRoot(n) => Len(n) > 1
<1>1. n \in Seq(Nat) /\ n # <<>> /\ n[1] \in 1 .. Roots
  BY TreeAssumption
<1>2. Len(n) \in Nat /\ Len(n) >= 1
  BY <1>1, EmptySeq
<1>3. IsRoot(n) => n = <<n[1]>>
  BY <1>1 DEF IsRoot
<1>4. ASSUME ~IsRoot(n) PROVE Len(n) > 1
  <2>1. PICK k : k = Len(n)
    OBVIOUS
  <2>2. k \in Nat /\ k >= 1 /\ k # 1
    BY <1>2, <1>4, <2>1 DEF IsRoot
  <2>3. k > 1
    BY <2>2
  <2> QED
    BY <2>1, <2>3
<1> QED
  BY <1>1, <1>2, <1>3, <1>4 DEF NoNode

\* The children of a path.
LEMMA BelowFacts ==
    ASSUME NEW n \in Seq(Nat), Len(n) >= 1
    PROVE  /\ \A c \in ChildrenOf(n) :
                  ~IsRoot(c) /\ ParentOf(c) = n /\ c # n /\ Len(c) = Len(n) + 1
           /\ Lft(n) # Rht(n)
           /\ SiblingOf(Lft(n)) = Rht(n) /\ SiblingOf(Rht(n)) = Lft(n)
<1>1. ASSUME NEW i \in {1, 2}
      PROVE  LET m == Append(n, i)
             IN  /\ Len(m) = Len(n) + 1 /\ m[Len(n) + 1] = i
                 /\ m \in Seq(Nat) /\ SubSeq(m, 1, Len(n)) = n /\ m # n
  <2> DEFINE m == Append(n, i)
  <2>1. /\ m \in Seq(Nat) /\ Len(m) = Len(n) + 1 /\ m[Len(n) + 1] = i
        /\ \A j \in 1 .. Len(n) : m[j] = n[j]
    BY AppendProperties
  <2>2. Len(n) \in Nat
    OBVIOUS
  <2>3. SubSeq(m, 1, Len(n)) = n
    <3> DEFINE t == SubSeq(m, 1, Len(n))
    <3>1. \A j \in 1 .. Len(n) : m[j] \in Nat
      BY <2>1
    <3>2. /\ t \in Seq(Nat) /\ Len(t) = Len(n)
          /\ \A j \in 1 .. Len(n) : t[j] = m[j]
      BY <3>1, <2>2, SubSeqProperties
    <3> QED
      BY <3>2, <2>1, SeqEqual
  <2>4. m # n
    BY <2>1, <2>2
  <2> HIDE DEF m
  <2> QED
    BY <2>1, <2>2, <2>3, <2>4 DEF m
<1>2. Len(n) \in Nat /\ (Len(n) + 1) - 1 = Len(n) /\ Len(n) + 1 # 1
  OBVIOUS
<1>3. ASSUME NEW i \in {1, 2}
      PROVE  /\ ~IsRoot(Append(n, i)) /\ ParentOf(Append(n, i)) = n
             /\ SiblingOf(Append(n, i)) = Append(n, 3 - i)
             /\ Len(Append(n, i)) = Len(n) + 1
  <2>1. PICK m : m = Append(n, i)
    OBVIOUS
  <2>2. /\ Len(m) = Len(n) + 1 /\ m[Len(n) + 1] = i
        /\ m \in Seq(Nat) /\ SubSeq(m, 1, Len(n)) = n
    BY <1>1, <2>1
  <2>3. ~IsRoot(m)
    BY <2>2, <1>2 DEF IsRoot
  <2>4. ParentOf(m) = n
    BY <2>2, <1>2 DEF ParentOf
  <2>5. SiblingOf(m) = Append(n, 3 - i)
    BY <2>2, <2>4, <1>2 DEF SiblingOf
  <2> QED
    BY <2>1, <2>2, <2>3, <2>4, <2>5
<1>4. /\ Append(n, 1) # Append(n, 2)
      /\ Append(n, 1) # n /\ Append(n, 2) # n
  <2>1. PICK m : m = Append(n, 1)
    OBVIOUS
  <2>2. PICK k : k = Append(n, 2)
    OBVIOUS
  <2>3. m[Len(n) + 1] = 1 /\ m # n
    BY <1>1, <2>1
  <2>4. k[Len(n) + 1] = 2 /\ k # n
    BY <1>1, <2>2
  <2> QED
    BY <2>1, <2>2, <2>3, <2>4
<1>5. 3 - 1 = 2 /\ 3 - 2 = 1
  OBVIOUS
<1> QED
  BY <1>3, <1>4, <1>5 DEF ChildrenOf, Lft, Rht

\* The halves of a node that is split.
LEMMA HalvesFacts ==
    ASSUME input \in Inputs, NEW n \in input.split
    PROVE  n \in Nodes /\ Lft(n) \in Nodes /\ Rht(n) \in Nodes
<1>1. n \in Nodes /\ Lft(n) \in Nodes
  BY InputFacts DEF Lft
<1>2. n \in Seq(Nat) /\ Len(n) >= 1
  BY <1>1, NodeFacts
<1>3. ~IsRoot(Lft(n)) /\ SiblingOf(Lft(n)) = Rht(n)
  BY <1>2, BelowFacts DEF ChildrenOf
<1>4. Rht(n) \in Nodes
  <2>1. Len(Lft(n)) > 1
    BY <1>1, <1>3, NodeFacts
  <2> QED
    BY <1>1, <1>3, <2>1, TreeAssumption
<1> QED
  BY <1>1, <1>4

\* Above a node that is not a root.
LEMMA AboveFacts ==
    ASSUME NEW n \in Nodes, ~IsRoot(n)
    PROVE  /\ ParentOf(n) \in Nodes /\ SiblingOf(n) \in Nodes
           /\ ChildrenOf(ParentOf(n)) = {n, SiblingOf(n)}
           /\ SiblingOf(n) # n /\ ~IsRoot(SiblingOf(n))
           /\ ParentOf(SiblingOf(n)) = ParentOf(n)
           /\ ParentOf(n) # n
<1> DEFINE p == ParentOf(n)
<1>1. /\ n \in Seq(Nat) /\ Len(n) \in Nat /\ Len(n) > 1
      /\ n[Len(n)] \in {1, 2} /\ p \in Nodes /\ SiblingOf(n) \in Nodes
  <2>1. n \in Seq(Nat) /\ Len(n) \in Nat /\ Len(n) > 1
    BY NodeFacts
  <2> QED
    BY <2>1, TreeAssumption
<1>2. p \in Seq(Nat) /\ Len(p) \in Nat /\ Len(p) >= 1
  BY <1>1, NodeFacts
<1>3. n = Append(p, n[Len(n)])
  <2> DEFINE m == Append(p, n[Len(n)])
  <2>1. \A j \in 1 .. Len(n) - 1 : n[j] \in Nat
    BY <1>1
  <2>2. /\ Len(p) = Len(n) - 1 /\ \A j \in 1 .. Len(n) - 1 : p[j] = n[j]
    BY <1>1, <2>1, SubSeqProperties DEF ParentOf
  <2>3. n[Len(n)] \in Nat
    BY <1>1
  <2> HIDE DEF p
  <2>4. /\ m \in Seq(Nat) /\ Len(m) = Len(p) + 1 /\ m[Len(p) + 1] = n[Len(n)]
        /\ \A j \in 1 .. Len(p) : m[j] = p[j]
    BY <1>2, <2>3, AppendProperties
  <2> HIDE DEF m
  <2>5. Len(m) = Len(n) /\ \A j \in 1 .. Len(n) : m[j] = n[j]
    BY <1>1, <2>2, <2>4
  <2>6. n = m
    BY <1>1, <2>4, <2>5, SeqEqual
  <2> QED
    BY <2>6 DEF m
<1> HIDE DEF p
<1>4. n = Lft(p) \/ n = Rht(p)
  BY <1>1, <1>3 DEF Lft, Rht
<1>5. /\ \A c \in ChildrenOf(p) : ~IsRoot(c) /\ ParentOf(c) = p /\ c # p
      /\ Lft(p) # Rht(p)
      /\ SiblingOf(Lft(p)) = Rht(p) /\ SiblingOf(Rht(p)) = Lft(p)
  BY <1>2, BelowFacts
<1> QED
  BY <1>1, <1>4, <1>5 DEF ChildrenOf, p

-----------------------------------------------------------------------------
(* Steps of a process that works on node n.                                *)

LEMMA QueuedNodes ==
    ASSUME NEW s \in ProcessType
    PROVE  Elements(s.completed) \subseteq Nodes
<1>1. PICK q \in Seq(Nodes) : q = s.completed
  BY DEF ProcessType
<1>2. \A i \in 1 .. Len(q) : q[i] \in Nodes
  OBVIOUS
<1> QED
  BY <1>1, <1>2 DEF Elements

LEMMA PhaseFacts ==
    /\ \A ph \in Ops : /\ Active(ph) /\ Live(ph)
                       /\ ph \notin {"none", "for_data_only", "to_be_launched",
                                    "run_children", "completed", "deallocated"}
    /\ \A ph : Active(ph) => Live(ph) /\ ph # "completed"
    /\ Ops \subseteq AllPhases
BY DEF Ops, InGroupOps, Bcasts, Active, Live, AllPhases

\* What a process finds out of a node does not move it.
LEMMA AlikeWorking ==
    ASSUME NEW split, NEW u, NEW n, Working(u, n, split), NEW v \in ProcessType,
           v.at = u.at, v.pos = u.pos, v.relaunch = u.relaunch,
           v.completed = u.completed, v.phase = u.phase,
           \A m \in Nodes \ {n} : v.acceptance[m] = u.acceptance[m]
    PROVE  Working(v, n, split)
<1>1. Ready(v) = Ready(u) /\ (CompletedOK(u) => CompletedOK(v))
  BY DEF Ready, CompletedOK
<1>2. ASSUME NEW m \in Nodes \ {n}
      PROVE  ChildrenOK(v, m) /\ DecisionOK(v, m, split)
  <2>1. ChildrenOK(u, m) /\ DecisionOK(u, m, split)
    BY DEF Working
  <2> QED
    BY <2>1 DEF ChildrenOK, DecisionOK
<1> QED
  BY <1>1, <1>2 DEF Working

\* An operation on node n begins, or goes on.
LEMMA Keeps ==
    ASSUME NEW split, NEW u, NEW n, Working(u, n, split), NEW v \in ProcessType,
           NEW ph \in Ops, v.at \in {n, NoNode}, v.pos = u.pos,
           v.relaunch = u.relaunch, v.completed = u.completed,
           v.phase = [u.phase EXCEPT ![n] = ph],
           \A m \in Nodes \ {n} : v.acceptance[m] = u.acceptance[m],
           DecisionOK(v, n, split)
    PROVE  ProcessOK(v, split)
<1>1. /\ n \in Nodes /\ u.at = n /\ u.pos = "loop" /\ u.phase \in [Nodes -> AllPhases]
      /\ u.phase[n] # "completed" /\ Live(u.phase[n])
      /\ \A m \in Nodes : IsChild(m, n) => ~Live(u.phase[m])
      /\ Lists(u.relaunch, Ready(u) \ {n}) /\ CompletedOK(u)
  BY PhaseFacts DEF Working, ProcessType
<1>2. v.phase[n] = ph /\ \A m \in Nodes \ {n} : v.phase[m] = u.phase[m]
  BY <1>1
<1>3. Live(ph) /\ ph \notin {"to_be_launched", "run_children", "completed"}
  BY PhaseFacts
<1>4. ASSUME NEW m \in Nodes
      PROVE  ChildrenOK(v, m) /\ DecisionOK(v, m, split)
  <2>1. CASE m = n
    <3>1. ASSUME NEW k \in Nodes, IsChild(k, n) PROVE ~Live(v.phase[k])
      <4>1. k # n
        BY <3>1, AboveFacts DEF IsChild
      <4> QED
        BY <4>1, <3>1, <1>1, <1>2
    <3> QED
      BY <2>1, <3>1, <1>2, <1>3 DEF ChildrenOK
  <2>2. CASE m # n
    <3>1. ChildrenOK(u, m) /\ DecisionOK(u, m, split)
      BY <2>2 DEF Working
    <3>2. v.phase[m] = u.phase[m] /\ v.acceptance[m] = u.acceptance[m]
      BY <2>2, <1>2
    <3>3. \A k \in Nodes : Live(v.phase[k]) <=> Live(u.phase[k])
      BY <1>1, <1>2, <1>3
    <3> QED
      BY <3>1, <3>2, <3>3 DEF ChildrenOK, DecisionOK
  <2> QED
    BY <2>1, <2>2
<1>5. Ready(v) = Ready(u) \ {n}
  <2>1. \A k : v.phase[k] = "completed" <=> u.phase[k] = "completed"
    BY <1>1, <1>2, <1>3
  <2> QED
    BY <2>1, <1>2, <1>3 DEF Ready
<1>6. CompletedOK(v)
  <2>1. ASSUME NEW m \in Elements(v.completed) PROVE v.phase[m] \in Ops /\ m # v.at
    <3>1. m \in Elements(u.completed) /\ u.phase[m] \in Ops /\ m # n
      BY <1>1 DEF CompletedOK
    <3>2. m \in Nodes
      BY <3>1, QueuedNodes DEF Working
    <3> QED
      BY <3>1, <3>2, <1>2, NodeFacts
  <2> QED
    BY <2>1, <1>1 DEF CompletedOK
<1> QED
  BY <1>1, <1>2, <1>4, <1>5, <1>6 DEF ProcessOK

\* The node is completed, and may put its parent in front of the queue.
LEMMA Completes ==
    ASSUME NEW split, NEW u, NEW n, Working(u, n, split)
    PROVE  Complete(u, n) \in ProcessType /\ ProcessOK(Complete(u, n), split)
<1> DEFINE P == ParentOf(n)
           wakes == WakesParent(u, n)
           queue == IF wakes THEN <<P>> \o u.relaunch ELSE u.relaunch
           v == [[u EXCEPT !.phase[n] = "completed", !.relaunch = queue]
                    EXCEPT !.at = NoNode]
<1>1. /\ n \in Nodes /\ u.at = n /\ u.pos = "loop" /\ u \in ProcessType
      /\ u.phase \in [Nodes -> AllPhases] /\ u.relaunch \in Seq(Nodes)
      /\ u.phase[n] # "completed" /\ Active(u.phase[n]) /\ Live(u.phase[n])
      /\ \A m \in Nodes : IsChild(m, n) => ~Live(u.phase[m])
      /\ Lists(u.relaunch, Ready(u) \ {n}) /\ CompletedOK(u)
  BY PhaseFacts DEF Working, ProcessType
<1>2. Complete(u, n) = v
  BY DEF Complete, Leave
<1> HIDE DEF wakes
<1>3. ASSUME ~IsRoot(n)
      PROVE  /\ P \in Nodes /\ P # n /\ u.phase[P] = "run_children"
             /\ ChildrenOf(P) = {n, SiblingOf(n)} /\ SiblingOf(n) # n
             /\ SiblingOf(n) \in Nodes
  <2>1. P \in Nodes /\ P # n /\ IsChild(n, P)
    BY <1>1, <1>3, AboveFacts DEF IsChild
  <2>2. ChildrenOK(u, P)
    BY <2>1 DEF Working
  <2> QED
    BY <2>1, <2>2, <1>1, <1>3, AboveFacts DEF ChildrenOK
<1>4. wakes => ~IsRoot(n) /\ u.phase[SiblingOf(n)] = "completed"
  BY DEF wakes, WakesParent
<1>5. queue \in Seq(Nodes) /\ Lists(queue, (Ready(u) \ {n}) \cup (IF wakes THEN {P} ELSE {}))
  <2>1. CASE wakes
    <3>1. P \in Nodes /\ P \notin Ready(u) \ {n}
      BY <2>1, <1>1, <1>3, <1>4 DEF Ready
    <3> QED
      BY <2>1, <3>1, <1>1, PutInFront
  <2>2. CASE ~wakes
    <3>1. (Ready(u) \ {n}) \cup {} = Ready(u) \ {n}
      OBVIOUS
    <3> QED
      BY <2>2, <3>1, <1>1
  <2> QED
    BY <2>1, <2>2
<1> HIDE DEF queue
<1>6. /\ v \in ProcessType /\ v.at = NoNode /\ v.pos = "loop" /\ v.relaunch = queue
      /\ v.completed = u.completed /\ v.acceptance = u.acceptance
      /\ v.phase = [u.phase EXCEPT ![n] = "completed"]
  BY <1>1, <1>5 DEF ProcessType, AllPhases
<1> HIDE DEF v
<1>7. v.phase[n] = "completed" /\ \A m \in Nodes \ {n} : v.phase[m] = u.phase[m]
  BY <1>1, <1>6
<1>8. ASSUME NEW m \in Nodes
      PROVE  ChildrenOK(v, m) /\ DecisionOK(v, m, split)
  <2>1. Live("completed")
    BY DEF Live
  <2>2. CASE m = n
    <3>1. ASSUME NEW k \in Nodes, IsChild(k, n) PROVE ~Live(v.phase[k])
      <4>1. k # n
        BY <3>1, AboveFacts DEF IsChild
      <4> QED
        BY <4>1, <3>1, <1>1, <1>7
    <3> QED
      BY <2>2, <3>1, <1>7 DEF ChildrenOK, DecisionOK
  <2>3. CASE m # n
    <3>1. ChildrenOK(u, m) /\ DecisionOK(u, m, split)
      BY <2>3 DEF Working
    <3>2. v.phase[m] = u.phase[m] /\ v.acceptance[m] = u.acceptance[m]
      BY <2>3, <1>6, <1>7
    <3>3. \A k \in Nodes : Live(v.phase[k]) <=> Live(u.phase[k])
      BY <1>1, <1>7, <2>1
    <3> QED
      BY <3>1, <3>2, <3>3 DEF ChildrenOK, DecisionOK
  <2> QED
    BY <2>2, <2>3
<1>9. ASSUME NEW m \in Nodes
      PROVE  m \in Ready(v) <=> m \in (Ready(u) \ {n}) \cup (IF wakes THEN {P} ELSE {})
  <2>1. CASE m = n
    BY <2>1, <1>3, <1>4, <1>7 DEF Ready
  <2>2. CASE m # n /\ ~IsRoot(n) /\ m = P
    <3>1. /\ v.phase[m] = "run_children" /\ u.phase[m] = "run_children"
          /\ ChildrenOf(m) = {n, SiblingOf(n)}
          /\ v.phase[n] = "completed" /\ u.phase[n] # "completed"
          /\ v.phase[SiblingOf(n)] = u.phase[SiblingOf(n)]
      BY <2>2, <1>1, <1>3, <1>7
    <3>2. m \notin Ready(u)
      BY <3>1 DEF Ready
    <3>3. m \in Ready(v) <=> u.phase[SiblingOf(n)] = "completed"
      BY <3>1 DEF Ready
    <3>4. wakes <=> u.phase[SiblingOf(n)] = "completed"
      BY <2>2 DEF wakes, WakesParent
    <3> QED
      BY <2>2, <3>2, <3>3, <3>4
  <2>3. CASE m # n /\ (IsRoot(n) \/ m # P)
    <3>1. n \notin ChildrenOf(m)
      <4>1. m \in Seq(Nat) /\ Len(m) >= 1
        BY NodeFacts
      <4> QED
        BY <4>1, <2>3, BelowFacts
    <3>2. \A c \in ChildrenOf(m) : v.phase[c] = "completed" <=> u.phase[c] = "completed"
      BY <3>1, <1>1, <1>6
    <3>3. m \in Ready(v) <=> m \in Ready(u)
      BY <3>2, <2>3, <1>7 DEF Ready
    <3> QED
      BY <3>3, <2>3, <1>4
  <2> QED
    BY <2>1, <2>2, <2>3
<1>10. Lists(v.relaunch, Ready(v))
  <2>1. Ready(v) = (Ready(u) \ {n}) \cup (IF wakes THEN {P} ELSE {})
    <3>1. (IF wakes THEN {P} ELSE {}) \subseteq Nodes
      BY <1>3, <1>4
    <3>2. Ready(v) \subseteq Nodes /\ Ready(u) \subseteq Nodes
      BY DEF Ready
    <3> QED
      BY <1>9, <3>1, <3>2
  <2> QED
    BY <2>1, <1>5, <1>6
<1>11. CompletedOK(v)
  <2>1. ASSUME NEW m \in Elements(v.completed) PROVE v.phase[m] \in Ops /\ m # v.at
    <3>1. m \in Elements(u.completed) /\ u.phase[m] \in Ops /\ m # n
      BY <1>1, <1>6 DEF CompletedOK
    <3>2. m \in Nodes
      BY <3>1, <1>1, QueuedNodes
    <3> QED
      BY <3>1, <3>2, <1>6, <1>7, NodeFacts
  <2> QED
    BY <2>1, <1>1, <1>6 DEF CompletedOK
<1>12. ProcessOK(v, split)
  BY <1>6, <1>8, <1>10, <1>11 DEF ProcessOK
<1> QED
  BY <1>2, <1>6, <1>12

LEMMA Finishes ==
    ASSUME NEW split, NEW p \in Ranks, NEW u, NEW n, Working(u, n, split)
    PROVE  Finish(p, u, n) \in ProcessType /\ ProcessOK(Finish(p, u, n), split)
<1> DEFINE t == IF IsRoot(n) /\ Accepted(u.acceptance[n])
                THEN computeNewNeighborhoodSets(u, n) ELSE u
           drops == HasDropouts(n) /\ InDropoutGroup(p, n)
           told == IF IsOwner(p, n) THEN u.acceptance[n] ELSE t.told[n]
           v == [t EXCEPT !.phase[n] = "bcast_to_dropouts", !.told[n] = told]
<1>1. /\ t \in ProcessType /\ n \in Nodes /\ t.at = u.at /\ t.pos = u.pos
      /\ t.relaunch = u.relaunch /\ t.completed = u.completed /\ t.phase = u.phase
      /\ t.acceptance = u.acceptance
  BY DEF computeNewNeighborhoodSets, Working, ProcessType
<1>2. Finish(p, u, n) = IF drops THEN v ELSE Complete(t, n)
  <2>1. drops => Finish(p, u, n) = [t EXCEPT !.phase[n] = "bcast_to_dropouts",
                   !.told[n] = IF IsOwner(p, n) THEN u.acceptance[n] ELSE @]
    BY DEF Finish
  <2>2. ~drops => Finish(p, u, n) = Complete(t, n)
    BY DEF Finish
  <2>3. v = [t EXCEPT !.phase[n] = "bcast_to_dropouts",
                      !.told[n] = IF IsOwner(p, n) THEN u.acceptance[n] ELSE @]
    BY <1>1 DEF ProcessType
  <2> QED
    BY <2>1, <2>2, <2>3
<1>3. told \in Int
  BY <1>1 DEF ProcessType, Working
<1> HIDE DEF t, drops, told
<1>4. Working(t, n, split)
  BY <1>1, AlikeWorking
<1>5. v \in ProcessType /\ ProcessOK(v, split)
  <2>1. /\ v \in ProcessType /\ v.at = n /\ v.pos = t.pos
        /\ v.relaunch = t.relaunch /\ v.completed = t.completed
        /\ v.phase = [t.phase EXCEPT ![n] = "bcast_to_dropouts"]
        /\ v.acceptance = t.acceptance
    BY <1>1, <1>3, <1>4 DEF ProcessType, AllPhases, Ops, Bcasts, Working
  <2>2. "bcast_to_dropouts" \in Ops
    BY DEF Ops, Bcasts
  <2> HIDE DEF v
  <2>3. DecisionOK(v, n, split)
    BY <2>1, <1>1 DEF DecisionOK, ProcessType
  <2> QED
    BY <2>1, <2>2, <2>3, <1>4, Keeps
<1> QED
  BY <1>2, <1>4, <1>5, Completes

-----------------------------------------------------------------------------
(* The children of node n come and go.                                     *)

Halves(split) == \A n \in split : n \in Nodes /\ ChildrenOf(n) \subseteq Nodes

LEMMA ChildrenAreIt ==
    ASSUME NEW n \in Nodes, NEW m \in Nodes
    PROVE  /\ IsChild(m, n) <=> m \in ChildrenOf(n)
           /\ m \in ChildrenOf(n) => m # n
<1>1. IsChild(m, n) => m \in ChildrenOf(n)
  BY AboveFacts DEF IsChild
<1>2. n \in Seq(Nat) /\ Len(n) >= 1
  BY NodeFacts
<1> QED
  BY <1>1, <1>2, BelowFacts DEF IsChild

\* Where the phases of children not in use are changed to other such phases.
LEMMA Reclaims ==
    ASSUME NEW split, NEW u, NEW n, NEW v \in ProcessType, NEW ph,
           u \in ProcessType, n \in Nodes, u.at = n, u.pos = "loop",
           Active(u.phase[n]),
           \/ \A m \in Nodes : IsChild(m, n) => ~Live(u.phase[m])
           \/ \A m \in Nodes : IsChild(m, n) => u.phase[m] = "completed",
           \A m \in Nodes \ {n} : ChildrenOK(u, m) /\ DecisionOK(u, m, split),
           Lists(u.relaunch, Ready(u) \ {n}), CompletedOK(u),
           v.at = n, v.pos = "loop", v.relaunch = u.relaunch, v.completed = u.completed,
           \A m \in Nodes : v.phase[m] = IF m \in ChildrenOf(n) THEN ph ELSE u.phase[m],
           ph \in {"for_data_only", "deallocated"}, Halves(split),
           \A m \in Nodes \ {n} : m \notin ChildrenOf(n) => v.acceptance[m] = u.acceptance[m],
           \A m \in ChildrenOf(n) \cap Nodes : Rejected(v.acceptance[m]) => m \in split
    PROVE  Working(v, n, split)
<1>1. ~Live(ph) /\ ph \notin {"to_be_launched", "run_children", "completed"}
  BY DEF Live, Active
<1>2. v.phase[n] = u.phase[n] /\ Live(u.phase[n])
  BY ChildrenAreIt, PhaseFacts
<1>3. ASSUME NEW m \in ChildrenOf(n) \cap Nodes
      PROVE  /\ v.phase[m] = ph /\ u.phase[m] \notin Ops
             /\ u.phase[m] # "to_be_launched" /\ u.phase[m] # "run_children"
  <2>1. ~Live(u.phase[m]) \/ u.phase[m] = "completed"
    BY ChildrenAreIt
  <2> QED
    BY <2>1, PhaseFacts DEF Live, Active
<1>4. ASSUME NEW m \in Nodes \ {n}
      PROVE  ChildrenOK(v, m) /\ DecisionOK(v, m, split)
  <2>1. ChildrenOK(u, m) /\ DecisionOK(u, m, split)
    OBVIOUS
  <2>2. \A k \in Nodes : IsChild(k, m) => v.phase[k] = u.phase[k]
    BY ChildrenAreIt DEF IsChild
  <2>3. CASE m \in ChildrenOf(n)
    <3>1. \A k \in Nodes : IsChild(k, m) => ~Live(u.phase[k])
      BY <2>1, <2>3, <1>3 DEF ChildrenOK
    <3>2. v.phase[m] = ph /\ (Rejected(v.acceptance[m]) => m \in split)
      BY <2>3
    <3> QED
      BY <3>1, <3>2, <2>2, <1>1 DEF ChildrenOK, DecisionOK
  <2>4. CASE m \notin ChildrenOf(n)
    BY <2>1, <2>2, <2>4 DEF ChildrenOK, DecisionOK
  <2> QED
    BY <2>3, <2>4
<1>5. Ready(v) \ {n} = Ready(u) \ {n}
  <2>1. ASSUME NEW m \in Nodes \ {n} PROVE m \in Ready(v) <=> m \in Ready(u)
    <3>1. CASE m \in ChildrenOf(n)
      BY <3>1, <1>1, <1>3 DEF Ready
    <3>2. CASE m \notin ChildrenOf(n)
      <4>1. v.phase[m] = u.phase[m]
        BY <3>2
      <4>2. \A c \in ChildrenOf(m) \cap Nodes : v.phase[c] = u.phase[c]
        BY ChildrenAreIt DEF IsChild
      <4>3. u.phase[m] = "run_children" => ChildrenOf(m) \subseteq Nodes
        <5>1. DecisionOK(u, m, split)
          OBVIOUS
        <5> QED
          BY <5>1 DEF DecisionOK, Halves
      <4> QED
        BY <4>1, <4>2, <4>3 DEF Ready
    <3> QED
      BY <3>1, <3>2
  <2> QED
    BY <2>1 DEF Ready
<1>6. CompletedOK(v)
  <2>1. ASSUME NEW m \in Elements(v.completed) PROVE v.phase[m] \in Ops /\ m # v.at
    <3>1. m \in Elements(u.completed) /\ u.phase[m] \in Ops /\ m # n
      BY DEF CompletedOK
    <3>2. m \in Nodes
      BY <3>1, QueuedNodes
    <3>3. m \notin ChildrenOf(n)
      BY <3>1, <3>2, <1>3
    <3> QED
      BY <3>1, <3>2, <3>3
  <2> QED
    BY <2>1 DEF CompletedOK
<1>7. \A m \in Nodes : IsChild(m, n) => ~Live(v.phase[m])
  BY <1>1, <1>3, ChildrenAreIt
<1> QED
  BY <1>2, <1>4, <1>5, <1>6, <1>7 DEF Working

\* The halves are launched, and the node waits for them.
LEMMA Launches ==
    ASSUME NEW split, Halves(split), NEW u, NEW n \in split, Working(u, n, split),
           NEW v, v = Leave([u EXCEPT
                        !.phase[n] = "run_children",
                        !.phase[Lft(n)] = "to_be_launched",
                        !.phase[Rht(n)] = "to_be_launched",
                        !.relaunch = <<Lft(n), Rht(n)>> \o @])
    PROVE  v \in ProcessType /\ ProcessOK(v, split)
<1>1. PICK a, b : a = Lft(n) /\ b = Rht(n)
  OBVIOUS
<1>2. /\ n \in Nodes /\ u.at = n /\ u.pos = "loop" /\ u \in ProcessType
      /\ u.phase \in [Nodes -> AllPhases] /\ u.relaunch \in Seq(Nodes)
      /\ Live(u.phase[n]) /\ u.phase[n] # "completed"
      /\ \A m \in Nodes : IsChild(m, n) => ~Live(u.phase[m])
      /\ Lists(u.relaunch, Ready(u) \ {n}) /\ CompletedOK(u)
  BY PhaseFacts DEF Working, ProcessType
<1>3. a \in Nodes /\ b \in Nodes /\ a # b /\ a # n /\ b # n /\ ChildrenOf(n) = {a, b}
  <2>1. n \in Seq(Nat) /\ Len(n) >= 1
    BY <1>2, NodeFacts
  <2> QED
    BY <2>1, <1>1, BelowFacts DEF Halves, ChildrenOf
<1>4. \A m \in Nodes : IsChild(m, n) <=> m \in {a, b}
  BY <1>2, <1>3, ChildrenAreIt
<1>5. /\ <<a, b>> \o u.relaunch \in Seq(Nodes)
      /\ Lists(<<a, b>> \o u.relaunch, (Ready(u) \ {n}) \cup {a, b})
  <2>1. a \notin Ready(u) /\ b \notin Ready(u)
    BY <1>2, <1>3, <1>4 DEF Ready, Live, Active
  <2>2. PICK q : q = <<b>> \o u.relaunch
    OBVIOUS
  <2>3. q \in Seq(Nodes) /\ Lists(q, (Ready(u) \ {n}) \cup {b})
    BY <2>1, <2>2, <1>2, <1>3, PutInFront
  <2>4. a \notin (Ready(u) \ {n}) \cup {b}
    BY <2>1, <1>3
  <2>5. <<a>> \o q \in Seq(Nodes) /\ Lists(<<a>> \o q, ((Ready(u) \ {n}) \cup {b}) \cup {a})
    BY <2>3, <2>4, <1>3, PutInFront
  <2>6. <<a>> \o q = <<a, b>> \o u.relaunch
    <3> QED
      BY <2>2, <1>2, <1>3, TwoInFront
  <2>7. ((Ready(u) \ {n}) \cup {b}) \cup {a} = (Ready(u) \ {n}) \cup {a, b}
    OBVIOUS
  <2> QED
    BY <2>5, <2>6, <2>7
<1> DEFINE queue == <<a, b>> \o u.relaunch
           phase == [u.phase EXCEPT ![n] = "run_children", ![a] = "to_be_launched",
                                    ![b] = "to_be_launched"]
<1>6. v = [u EXCEPT !.phase = phase, !.relaunch = queue, !.at = NoNode]
  BY <1>1, <1>2 DEF Leave, ProcessType
<1>7. phase \in [Nodes -> AllPhases]
  BY <1>2 DEF AllPhases
<1> HIDE DEF queue
<1>8. /\ v \in ProcessType /\ v.at = NoNode /\ v.pos = "loop" /\ v.relaunch = queue
      /\ v.completed = u.completed /\ v.acceptance = u.acceptance /\ v.phase = phase
  <2> HIDE DEF phase
  <2> QED
    BY <1>2, <1>5, <1>6, <1>7 DEF ProcessType, queue
<1>9. /\ v.phase[n] = "run_children"
      /\ v.phase[a] = "to_be_launched" /\ v.phase[b] = "to_be_launched"
      /\ \A m \in Nodes \ {n, a, b} : v.phase[m] = u.phase[m]
  BY <1>2, <1>3, <1>8
<1> HIDE DEF phase
<1>10. \A m \in Nodes \ {a, b} :
          /\ Live(v.phase[m]) <=> Live(u.phase[m])
          /\ v.phase[m] = "completed" <=> u.phase[m] = "completed"
  BY <1>2, <1>9 DEF Live, Active
<1>11. ASSUME NEW m \in {a, b}
       PROVE  /\ ~Live(u.phase[m]) /\ u.phase[m] # "run_children" /\ u.phase[m] \notin Ops
              /\ u.phase[m] # "to_be_launched" /\ m \in Nodes /\ m # n
              /\ ChildrenOK(u, m) /\ DecisionOK(u, m, split)
  <2>1. ~Live(u.phase[m]) /\ m \in Nodes \ {n}
    BY <1>2, <1>3, <1>4
  <2> QED
    BY <2>1, PhaseFacts DEF Working, Live, Active
<1>12. ASSUME NEW m \in Nodes
       PROVE  ChildrenOK(v, m) /\ DecisionOK(v, m, split)
  <2>1. CASE m = n
    <3>1. Live("to_be_launched")
      BY DEF Live, Active
    <3>2. \A k \in Nodes : IsChild(k, n) => Live(v.phase[k])
      BY <3>1, <1>4, <1>9
    <3> QED
      BY <2>1, <3>2, <1>9 DEF ChildrenOK, DecisionOK
  <2>2. CASE m \in {a, b}
    <3>1. ASSUME NEW k \in Nodes, IsChild(k, m) PROVE ~Live(v.phase[k])
      <4>1. ~Live(u.phase[k])
        BY <2>2, <3>1, <1>11 DEF ChildrenOK
      <4>2. k \notin {a, b}
        BY <3>1, <2>2, <1>3, <1>4 DEF IsChild
      <4> QED
        BY <4>1, <4>2, <1>10
    <3>2. v.phase[m] = "to_be_launched" /\ v.acceptance[m] = u.acceptance[m]
      BY <2>2, <1>8, <1>9
    <3>3. Rejected(u.acceptance[m]) => m \in split
      <4>1. u.phase[m] \in {"none", "for_data_only", "deallocated"}
        BY <2>2, <1>11 DEF Live, Active
      <4> QED
        BY <4>1, <2>2, <1>11 DEF DecisionOK
    <3> QED
      BY <3>1, <3>2, <3>3 DEF ChildrenOK, DecisionOK
  <2>3. CASE m \notin {n, a, b}
    <3>1. ChildrenOK(u, m) /\ DecisionOK(u, m, split)
      BY <2>3 DEF Working
    <3>2. v.phase[m] = u.phase[m] /\ v.acceptance[m] = u.acceptance[m]
      BY <2>3, <1>8, <1>9
    <3>3. \A k \in Nodes : IsChild(k, m) => (Live(v.phase[k]) <=> Live(u.phase[k]))
      BY <2>3, <1>3, <1>4, <1>10 DEF IsChild
    <3> QED
      BY <3>1, <3>2, <3>3 DEF ChildrenOK, DecisionOK
  <2> QED
    BY <2>1, <2>2, <2>3
<1>13. ASSUME NEW m \in Nodes
       PROVE  m \in Ready(v) <=> m \in (Ready(u) \ {n}) \cup {a, b}
  <2>1. CASE m = n
    <3>1. v.phase[a] # "completed" /\ v.phase[n] # "to_be_launched"
      BY <1>9
    <3> QED
      BY <2>1, <3>1, <1>3 DEF Ready
  <2>2. CASE m \in {a, b}
    BY <2>2, <1>9 DEF Ready
  <2>3. CASE m \notin {n, a, b}
    <3>1. v.phase[m] = u.phase[m]
      BY <2>3, <1>9
    <3>2. \A c \in ChildrenOf(m) \cap Nodes :
              v.phase[c] = "completed" <=> u.phase[c] = "completed"
      <4> TAKE c \in ChildrenOf(m) \cap Nodes
      <4>1. c \notin {a, b}
        BY <2>3, <1>3, <1>4, ChildrenAreIt DEF IsChild
      <4> QED
        BY <4>1, <1>10
    <3>3. u.phase[m] = "run_children" => ChildrenOf(m) \subseteq Nodes
      <4>1. DecisionOK(u, m, split)
        BY <2>3 DEF Working
      <4> QED
        BY <4>1 DEF DecisionOK, Halves
    <3>4. m \in Ready(v) <=> m \in Ready(u)
      BY <3>1, <3>2, <3>3 DEF Ready
    <3> QED
      BY <3>4, <2>3
  <2> QED
    BY <2>1, <2>2, <2>3
<1>14. Lists(v.relaunch, Ready(v))
  <2>1. Ready(v) = (Ready(u) \ {n}) \cup {a, b}
    BY <1>3, <1>13 DEF Ready
  <2> QED
    BY <2>1, <1>5, <1>8 DEF queue
<1>15. CompletedOK(v)
  <2>1. ASSUME NEW m \in Elements(v.completed) PROVE v.phase[m] \in Ops /\ m # v.at
    <3>1. m \in Elements(u.completed) /\ u.phase[m] \in Ops /\ m # n
      BY <1>2, <1>8 DEF CompletedOK
    <3>2. m \in Nodes /\ m \notin {a, b}
      BY <3>1, <1>2, <1>11, QueuedNodes
    <3> QED
      BY <3>1, <3>2, <1>8, <1>9, NodeFacts
  <2> QED
    BY <2>1, <1>2, <1>8 DEF CompletedOK
<1> QED
  BY <1>8, <1>12, <1>14, <1>15 DEF ProcessOK

-----------------------------------------------------------------------------
(* A process goes on with its current node.                                *)

LEMMA SelfFacts ==
    ASSUME ClusterInv, NEW p \in Ranks
    PROVE  /\ self[p] \in ProcessType /\ ProcessOK(self[p], input.split)
           /\ self[p].relaunch \in Seq(Nodes) /\ self[p].completed \in Seq(Nodes)
           /\ self[p].phase \in [Nodes -> AllPhases]
           /\ self[p].at \in Nodes \cup {NoNode}
           /\ input \in Inputs /\ Halves(input.split)
<1>1. input \in Inputs /\ self[p] \in ProcessType /\ ProcessOK(self[p], input.split)
  BY DEF ClusterInv, Typed
<1>2. Halves(input.split)
  BY <1>1, HalvesFacts DEF Halves, ChildrenOf
<1> QED
  BY <1>1, <1>2 DEF ProcessType

\* The queues: that of the stage first.
LEMMA QueuedFacts ==
    ASSUME NEW p, self[p].relaunch \in Seq(Nodes), self[p].completed \in Seq(Nodes)
    PROVE  /\ Queued(p) = <<>> <=> self[p].completed = <<>> /\ self[p].relaunch = <<>>
           /\ self[p].completed # <<>> => Head(Queued(p)) = Head(self[p].completed)
           /\ self[p].completed = <<>> => Queued(p) = self[p].relaunch
<1>1. PICK c \in Seq(Nodes) : c = self[p].completed
  OBVIOUS
<1>2. PICK r \in Seq(Nodes) : r = self[p].relaunch
  OBVIOUS
<1>3. Queued(p) = c \o r
  BY <1>1, <1>2 DEF Queued
<1>4. c \o r = <<>> <=> c = <<>> /\ r = <<>>
  BY ConcatEqualIffEmpty
<1>5. c = <<>> => c \o r = r
  BY ConcatEmptySeq
<1>6. c # <<>> => Head(c \o r) = Head(c)
  <2> SUFFICES ASSUME c # <<>> PROVE Head(c \o r) = Head(c)
    OBVIOUS
  <2>1. /\ c \o r \in Seq(Nodes) /\ Len(c \o r) = Len(c) + Len(r)
        /\ \A i \in 1 .. Len(c) + Len(r) : (c \o r)[i] = IF i <= Len(c) THEN c[i] ELSE r[i - Len(c)]
    BY ConcatProperties
  <2>2. Len(c) \in Nat /\ Len(c) >= 1 /\ Len(r) \in Nat /\ Head(c) = c[1]
    BY EmptySeq, HeadTailProperties
  <2>3. 1 \in 1 .. Len(c) + Len(r) /\ 1 <= Len(c)
    BY <2>2
  <2>4. (c \o r)[1] = c[1]
    BY <2>1, <2>3
  <2>5. c \o r # <<>>
    BY <1>4
  <2>6. Head(c \o r) = (c \o r)[1]
    BY <2>1, <2>5, HeadTailProperties
  <2> QED
    BY <2>2, <2>4, <2>6
<1> QED
  BY <1>1, <1>2, <1>3, <1>4, <1>5, <1>6

LEMMA Takes ==
    ASSUME ClusterInv, NEW p \in Ranks, NEW n \in Nodes, Current(p) = n
    PROVE  /\ Taken(Popped(p), n, input.split)
           /\ Popped(p).phase = self[p].phase
           /\ Popped(p).acceptance = self[p].acceptance
           /\ Popped(p).next_tag = self[p].next_tag
           /\ self[p].pos = "loop"
<1> DEFINE s == self[p]
<1>1. /\ s \in ProcessType /\ ProcessOK(s, input.split)
      /\ s.relaunch \in Seq(Nodes) /\ s.completed \in Seq(Nodes)
      /\ s.phase \in [Nodes -> AllPhases] /\ n # NoNode
  BY SelfFacts, NodeFacts
<1>2. /\ \A m \in Nodes : ChildrenOK(s, m) /\ DecisionOK(s, m, input.split)
      /\ Lists(s.relaunch, Ready(s)) /\ CompletedOK(s)
      /\ s.at # NoNode => s.phase[s.at] \in Ops
      /\ s.pos # "loop" => \A m \in Nodes : ~Active(s.phase[m])
      /\ s.pos \in {"loop", "barrier"} \cup Sharing
  BY <1>1 DEF ProcessOK, ProcessType
<1>3. CASE s.at # NoNode
  <2>1. s.at = n /\ Popped(p) = s
    BY <1>3 DEF Current, Popped
  <2>2. s.phase[n] \in Ops /\ Active(s.phase[n]) /\ s.phase[n] # "run_children"
    BY <2>1, <1>2, <1>3, PhaseFacts
  <2>3. n \notin Ready(s)
    BY <2>2, PhaseFacts DEF Ready
  <2>4. Ready(s) \ {n} = Ready(s)
    BY <2>3
  <2> HIDE DEF s
  <2>5. Taken(s, n, input.split)
    BY <2>1, <2>2, <2>4, <1>1, <1>2 DEF Taken
  <2> QED
    BY <2>1, <2>2, <2>5, <1>2 DEF s
<1>4. CASE s.at = NoNode /\ s.completed # <<>>
  <2>1. n = Head(s.completed) /\ Popped(p) = [s EXCEPT !.at = n, !.completed = Tail(s.completed)]
    <3>1. Queued(p) # <<>> /\ Head(Queued(p)) = Head(s.completed)
      BY <1>1, <1>4, QueuedFacts
    <3>2. n = Head(s.completed)
      BY <3>1, <1>4 DEF Current
    <3>3. Popped(p) = [s EXCEPT !.at = Current(p), !.completed = Tail(@)]
      BY <1>4 DEF Popped
    <3> QED
      BY <3>2, <3>3, <1>1 DEF ProcessType
  <2> DEFINE v == Popped(p)
             t == Tail(s.completed)
  <2>2. /\ n \in Elements(s.completed) /\ t \in Seq(Nodes)
        /\ Lists(t, Elements(s.completed) \ {n})
    <3>0. PICK q \in Seq(Nodes) : q = s.completed
      BY <1>1
    <3>1. PICK D : q = s.completed /\ D = Elements(s.completed)
      BY <3>0
    <3>2. Lists(q, D) /\ q # <<>>
      BY <3>1, <1>2, <1>4 DEF CompletedOK
    <3>3. Head(q) \in D /\ Tail(q) \in Seq(Nodes) /\ Lists(Tail(q), D \ {Head(q)})
      BY <3>2, HeadOfList
    <3> QED
      BY <3>1, <3>3, <2>1
  <2> HIDE DEF t
  <2>3. /\ v \in ProcessType /\ v.at = n /\ v.pos = s.pos /\ v.relaunch = s.relaunch
        /\ v.completed = t /\ v.phase = s.phase /\ v.acceptance = s.acceptance
        /\ v.next_tag = s.next_tag
    BY <2>1, <2>2, <1>1 DEF ProcessType, t
  <2> HIDE DEF v, s
  <2>4. s.phase[n] \in Ops /\ Active(s.phase[n]) /\ s.phase[n] # "run_children"
    BY <2>2, <1>2, PhaseFacts DEF CompletedOK
  <2>5. Ready(v) = Ready(s) /\ n \notin Ready(s)
    BY <2>3, <2>4, PhaseFacts DEF Ready
  <2>6. CompletedOK(v)
    <3>1. Elements(t) = Elements(s.completed) \ {n}
      BY <2>2, ListsItsElements
    <3>2. \A m \in Elements(t) : s.phase[m] \in Ops /\ m # n
      BY <3>1, <1>2 DEF CompletedOK
    <3> QED
      BY <3>1, <3>2, <2>2, <2>3 DEF CompletedOK
  <2>7. \A m \in Nodes : ChildrenOK(v, m) /\ DecisionOK(v, m, input.split)
    BY <2>3, <1>2 DEF ChildrenOK, DecisionOK
  <2>8. Ready(s) \ {n} = Ready(s)
    BY <2>5
  <2>9. Taken(v, n, input.split)
    BY <2>3, <2>4, <2>5, <2>6, <2>7, <2>8, <1>2 DEF Taken
  <2> QED
    BY <2>3, <2>4, <2>9, <1>2 DEF v, s
<1>5. CASE s.at = NoNode /\ s.completed = <<>>
  <2>1. /\ n = Head(s.relaunch) /\ s.relaunch # <<>>
        /\ Popped(p) = [s EXCEPT !.at = n, !.relaunch = Tail(s.relaunch)]
    <3>1. Queued(p) = s.relaunch
      BY <1>1, <1>5, QueuedFacts
    <3>2. n = Head(s.relaunch) /\ s.relaunch # <<>>
      BY <3>1, <1>1, <1>5 DEF Current
    <3>3. Popped(p) = [s EXCEPT !.at = Current(p), !.relaunch = Tail(@)]
      BY <1>5 DEF Popped
    <3> QED
      BY <3>2, <3>3, <1>1 DEF ProcessType
  <2> DEFINE v == Popped(p)
             t == Tail(s.relaunch)
  <2>2. n \in Ready(s) /\ t \in Seq(Nodes) /\ Lists(t, Ready(s) \ {n})
    BY <2>1, <1>1, <1>2, HeadOfList
  <2> HIDE DEF t
  <2>3. /\ v \in ProcessType /\ v.at = n /\ v.pos = s.pos /\ v.relaunch = t
        /\ v.completed = <<>> /\ v.phase = s.phase /\ v.acceptance = s.acceptance
        /\ v.next_tag = s.next_tag
    BY <2>1, <2>2, <1>1, <1>5 DEF ProcessType, t
  <2> HIDE DEF v, s
  <2>4. Active(s.phase[n])
    BY <2>2 DEF Ready, Active
  <2>5. Ready(v) = Ready(s)
    BY <2>3 DEF Ready
  <2>6. CompletedOK(v)
    <3>1. Elements(v.completed) = {} /\ 1 .. Len(v.completed) = {}
      BY <2>3 DEF Elements
    <3> QED
      BY <3>1 DEF CompletedOK, Lists
  <2>7. \A m \in Nodes : ChildrenOK(v, m) /\ DecisionOK(v, m, input.split)
    BY <2>3, <1>2 DEF ChildrenOK, DecisionOK
  <2>8. Taken(v, n, input.split)
    BY <2>2, <2>3, <2>4, <2>5, <2>6, <2>7, <1>2 DEF Taken
  <2> QED
    BY <2>3, <2>4, <2>8, <1>2 DEF v, s
<1> QED
  BY <1>3, <1>4, <1>5

\* Any node but one that runs its children has none in use.
LEMMA TakenWorks ==
    ASSUME NEW split, NEW u, NEW n, Taken(u, n, split), u.phase[n] # "run_children"
    PROVE  Working(u, n, split)
BY DEF Taken, Working, ChildrenOK

-----------------------------------------------------------------------------
(* The actions.                                                            *)

LEMMA StepsOK ==
    ASSUME ClusterInv, NEW p \in Ranks, NEW v, v \in ProcessType /\ ProcessOK(v, input.split),
           Step(p, v), input' = input, node' \in [Nodes -> NodeType]
    PROVE  ClusterInv'
<1>1. /\ self \in [Ranks -> ProcessType] /\ input \in Inputs
      /\ \A q \in Ranks : ProcessOK(self[q], input.split)
  BY DEF ClusterInv, Typed
<1>2. self' = [self EXCEPT ![p] = v]
  BY DEF Step
<1>3. self' \in [Ranks -> ProcessType]
  BY <1>1, <1>2
<1>4. ASSUME NEW q \in Ranks PROVE ProcessOK(self'[q], input'.split)
  <2>1. self'[q] = v \/ self'[q] = self[q]
    BY <1>1, <1>2
  <2> QED
    BY <2>1, <1>1
<1> QED
  BY <1>1, <1>3, <1>4 DEF ClusterInv, Typed

LEMMA NodesKept ==
    ASSUME ClusterInv, UNCHANGED <<input, node>>
    PROVE  input' = input /\ node' \in [Nodes -> NodeType]
BY DEF ClusterInv, Typed

LEMMA Launched ==
    ASSUME ClusterInv, NEW p \in Ranks, NEW n \in Nodes, toBeLaunched(p, n)
    PROVE  ClusterInv'
<1> DEFINE u == Popped(p)
           v == [u EXCEPT !.phase[n] = "reduce_histogram"]
<1>1. Current(p) = n /\ self[p].phase[n] = "to_be_launched" /\ UNCHANGED <<input, node>>
  BY DEF toBeLaunched, Continuing, PhaseOf
<1>2. /\ Taken(u, n, input.split) /\ u.phase[n] = "to_be_launched"
      /\ Working(u, n, input.split)
  BY <1>1, Takes, TakenWorks
<1>3. Step(p, IF Participates(p, n) THEN v ELSE Finish(p, u, n))
  BY DEF toBeLaunched
<1> HIDE DEF u
<1>4. v \in ProcessType /\ ProcessOK(v, input.split)
  <2>1. u \in ProcessType /\ u.at = n /\ n \in Nodes /\ DecisionOK(u, n, input.split)
    BY <1>2 DEF Taken
  <2>2. "reduce_histogram" \in Ops
    BY DEF Ops, InGroupOps
  <2>3. /\ v \in ProcessType /\ v.at = n /\ v.pos = u.pos
        /\ v.relaunch = u.relaunch /\ v.completed = u.completed
        /\ v.phase = [u.phase EXCEPT ![n] = "reduce_histogram"]
        /\ v.acceptance = u.acceptance
    BY <2>1, <2>2, PhaseFacts DEF ProcessType
  <2> HIDE DEF v
  <2>4. v.phase[n] = "reduce_histogram"
    BY <2>1, <2>3 DEF ProcessType
  <2>5. DecisionOK(v, n, input.split)
    BY <2>1, <2>3, <2>4, <1>2 DEF DecisionOK
  <2> QED
    BY <2>2, <2>3, <2>5, <1>2, Keeps
<1>5. Finish(p, u, n) \in ProcessType /\ ProcessOK(Finish(p, u, n), input.split)
  BY <1>2, Finishes
<1> QED
  BY <1>1, <1>3, <1>4, <1>5, StepsOK, NodesKept

LEMMA LeftUnfinished ==
    ASSUME ClusterInv, NEW p \in Ranks, NEW n \in Nodes, Unfinished(p, n)
    PROVE  ClusterInv'
<1> DEFINE u == Popped(p)
           v == Leave(u)
<1>1. Current(p) = n /\ self[p].phase[n] \in Ops /\ UNCHANGED <<input, node>> /\ Step(p, v)
  BY DEF Unfinished, PhaseOf
<1>2. Taken(u, n, input.split) /\ u.phase[n] \in Ops /\ u.phase[n] # "run_children"
  BY <1>1, Takes, PhaseFacts
<1> HIDE DEF u
<1>3. Working(u, n, input.split)
  BY <1>2, TakenWorks
<1>4. u \in ProcessType /\ u.at = n /\ n \in Nodes /\ DecisionOK(u, n, input.split)
  BY <1>2 DEF Taken
<1>5. /\ v \in ProcessType /\ v.at = NoNode /\ v.pos = u.pos
      /\ v.relaunch = u.relaunch /\ v.completed = u.completed
      /\ v.phase = [u.phase EXCEPT ![n] = u.phase[n]]
      /\ v.phase = u.phase /\ v.acceptance = u.acceptance
  BY <1>4 DEF ProcessType, Leave
<1> HIDE DEF v
<1>6. DecisionOK(v, n, input.split)
  BY <1>4, <1>5 DEF DecisionOK
<1>7. ProcessOK(v, input.split)
  BY <1>2, <1>3, <1>5, <1>6, Keeps
<1> QED
  BY <1>1, <1>5, <1>7, StepsOK, NodesKept

\* The children of node n are created: when its next operation has begun, or before.
LEMMA Creates ==
    ASSUME NEW split, Halves(split), NEW u, NEW n \in split, Working(u, n, split),
           NEW v,
           \/ v = CreatedChildren(u, n) /\ u.phase[n] \in Ops
           \/ v = [CreatedChildren(u, n) EXCEPT !.phase[n] = "gather_grouping_criteria"]
    PROVE  v \in ProcessType /\ ProcessOK(v, split)
<1>0. PICK ph \in Ops :
         \/ v = CreatedChildren(u, n) /\ u.phase[n] = ph
         \/ v = [CreatedChildren(u, n) EXCEPT !.phase[n] = ph]
  <2>1. "gather_grouping_criteria" \in Ops
    BY DEF Ops, InGroupOps
  <2> QED
    BY <2>1
<1> DEFINE w == CreatedChildren(u, n)
<1>1. /\ u \in ProcessType /\ n \in Nodes /\ u.at = n /\ u.pos = "loop" /\ Active(u.phase[n])
      /\ \A m \in Nodes : IsChild(m, n) => ~Live(u.phase[m])
      /\ \A m \in Nodes \ {n} : ChildrenOK(u, m) /\ DecisionOK(u, m, split)
      /\ Lists(u.relaunch, Ready(u) \ {n}) /\ CompletedOK(u)
  BY DEF Working
<1>2. /\ w \in ProcessType /\ w.at = n /\ w.pos = "loop"
      /\ w.relaunch = u.relaunch /\ w.completed = u.completed
      /\ w.acceptance = u.acceptance
      /\ \A m \in Nodes : w.phase[m] =
            IF m \in ChildrenOf(n) THEN "for_data_only" ELSE u.phase[m]
  BY <1>1 DEF CreatedChildren, ProcessType, AllPhases
<1> HIDE DEF w
<1>3. \A m \in ChildrenOf(n) \cap Nodes : Rejected(w.acceptance[m]) => m \in split
  <2> TAKE m \in ChildrenOf(n) \cap Nodes
  <2>1. m # n /\ ~Live(u.phase[m])
    BY <1>1, ChildrenAreIt
  <2>2. u.phase[m] \in {"none", "for_data_only", "deallocated"}
    BY <2>1 DEF Live, Active
  <2> QED
    BY <2>1, <2>2, <1>1, <1>2 DEF DecisionOK
<1>4. Working(w, n, split)
  BY <1>1, <1>2, <1>3, Reclaims
<1>5. w.phase[n] = u.phase[n] /\ w.phase \in [Nodes -> AllPhases]
  BY <1>1, <1>2, ChildrenAreIt DEF ProcessType
<1>6. /\ v \in ProcessType /\ v.at = n /\ v.pos = w.pos
      /\ v.relaunch = w.relaunch /\ v.completed = w.completed
      /\ v.phase = [w.phase EXCEPT ![n] = ph] /\ v.acceptance = w.acceptance
  <2>1. CASE v = [w EXCEPT !.phase[n] = ph]
    BY <2>1, <1>1, <1>2, PhaseFacts DEF ProcessType
  <2>2. CASE v = w /\ u.phase[n] = ph
    BY <2>2, <1>1, <1>2, <1>5
  <2> QED
    BY <2>1, <2>2, <1>0 DEF w
<1>7. DecisionOK(v, n, split)
  BY DEF DecisionOK
<1> QED
  BY <1>4, <1>6, <1>7, Keeps

\* So does the phase of the node itself, as long as its operations go on.
LEMMA RephasedWorking ==
    ASSUME NEW split, NEW u, NEW n, Working(u, n, split), NEW v \in ProcessType,
           NEW ph \in Ops, v.at = u.at, v.pos = u.pos, v.relaunch = u.relaunch,
           v.completed = u.completed, v.phase = [u.phase EXCEPT ![n] = ph],
           \A m \in Nodes \ {n} : v.acceptance[m] = u.acceptance[m]
    PROVE  Working(v, n, split)
<1>1. /\ n \in Nodes /\ u.at = n /\ u.pos = "loop" /\ u.phase \in [Nodes -> AllPhases]
      /\ u \in ProcessType /\ u.phase[n] # "completed" /\ Live(u.phase[n])
      /\ \A m \in Nodes : IsChild(m, n) => ~Live(u.phase[m])
      /\ Lists(u.relaunch, Ready(u) \ {n}) /\ CompletedOK(u)
  BY PhaseFacts DEF Working, ProcessType
<1>2. v.phase[n] = ph /\ \A m \in Nodes \ {n} : v.phase[m] = u.phase[m]
  BY <1>1
<1>3. /\ Active(ph) /\ Live(ph)
      /\ ph \notin {"to_be_launched", "run_children", "completed"}
  BY PhaseFacts
<1>4. ASSUME NEW m \in Nodes \ {n}
      PROVE  ChildrenOK(v, m) /\ DecisionOK(v, m, split)
  <2>1. ChildrenOK(u, m) /\ DecisionOK(u, m, split)
    BY DEF Working
  <2>2. \A k \in Nodes : Live(v.phase[k]) <=> Live(u.phase[k])
    BY <1>1, <1>2, <1>3
  <2> QED
    BY <2>1, <2>2, <1>2 DEF ChildrenOK, DecisionOK
<1>5. Ready(v) \ {n} = Ready(u) \ {n}
  <2>1. \A k : v.phase[k] = "completed" <=> u.phase[k] = "completed"
    BY <1>1, <1>2, <1>3
  <2> QED
    BY <2>1, <1>2 DEF Ready
<1>6. CompletedOK(v)
  <2>1. ASSUME NEW m \in Elements(v.completed) PROVE v.phase[m] \in Ops /\ m # v.at
    <3>1. m \in Elements(u.completed) /\ u.phase[m] \in Ops /\ m # n
      BY <1>1 DEF CompletedOK
    <3>2. m \in Nodes
      BY <3>1, <1>1, QueuedNodes
    <3> QED
      BY <3>1, <3>2, <1>1, <1>2
  <2> QED
    BY <2>1, <1>1 DEF CompletedOK
<1>7. \A m \in Nodes : IsChild(m, n) => ~Live(v.phase[m])
  BY <1>1, <1>2, ChildrenAreIt
<1> QED
  BY <1>1, <1>2, <1>3, <1>4, <1>5, <1>6, <1>7 DEF Working

LEMMA HistogramReduced ==
    ASSUME ClusterInv, NEW p \in Ranks, NEW n \in Nodes, reduceHistogram_check(p, n)
    PROVE  ClusterInv'
<1> DEFINE u == Popped(p)
           split == input.split
           t == self[p].next_tag
           s == [u EXCEPT !.acceptance[n] = Decision(n),
                          !.boxes = IF n \in input.untagged THEN @ ELSE @ \cup {n},
                          !.phase[n] = "bcast_acceptability"]
           w == [s EXCEPT !.next_tag = NextTag(NextTag(t))]
           v == [u EXCEPT !.phase[n] = "bcast_acceptability"]
<1>1. Current(p) = n /\ self[p].phase[n] = "reduce_histogram" /\ input' = input
  BY DEF reduceHistogram_check, Continuing, PhaseOf
<1>2. /\ Taken(u, n, split) /\ u.phase[n] = "reduce_histogram"
      /\ Working(u, n, split) /\ u.next_tag = t
  BY <1>1, Takes, TakenWorks
<1>3. /\ self[p] \in ProcessType /\ input \in Inputs /\ Halves(split)
      /\ node \in [Nodes -> NodeType]
  BY SelfFacts DEF ClusterInv, Typed
<1>4. /\ Decision(n) \in Int
      /\ Rejected(Decision(n)) => n \in split
  BY DEF Decision, Rejected, rejected_by_calculation, hasnotag_by_owner,
         accepted_by_calculation
<1>5. "bcast_acceptability" \in Ops
  BY DEF Ops, InGroupOps
<1>6. \/ acceptOrSplitBox(p, n)
      \/ Step(p, v) /\ UNCHANGED node
  BY DEF reduceHistogram_check
<1>7. u \in ProcessType /\ u.at = n /\ n \in Nodes /\ DecisionOK(u, n, split)
  BY <1>2 DEF Taken
<1>8. CASE acceptOrSplitBox(p, n)
  <2>1. \/ n \in split /\ Step(p, CreatedChildren(w, n))
           /\ node' = [node EXCEPT ![Lft(n)].tag = t, ![Rht(n)].tag = NextTag(t)]
        \/ Step(p, s) /\ UNCHANGED node
    BY <1>8 DEF acceptOrSplitBox
  <2> HIDE DEF u
  <2>2. /\ s \in ProcessType /\ s.at = u.at /\ s.pos = u.pos /\ s.relaunch = u.relaunch
        /\ s.completed = u.completed /\ s.phase = [u.phase EXCEPT ![n] = "bcast_acceptability"]
        /\ s.acceptance = [u.acceptance EXCEPT ![n] = Decision(n)]
    BY <1>4, <1>5, <1>7, PhaseFacts DEF ProcessType
  <2>3. s.acceptance[n] = Decision(n)
        /\ \A m \in Nodes \ {n} : s.acceptance[m] = u.acceptance[m]
    BY <2>2, <1>7 DEF ProcessType
  <2> HIDE DEF s
  <2>4. ASSUME n \in split
        PROVE  CreatedChildren(w, n) \in ProcessType /\ ProcessOK(CreatedChildren(w, n), split)
    <3>a. NextTag(NextTag(t)) \in Nat
      <4>1. t \in Nat
        BY <1>3 DEF ProcessType
      <4> HIDE DEF t
      <4> QED
        BY <4>1 DEF NextTag
    <3>1. /\ w \in ProcessType /\ w.at = s.at /\ w.pos = s.pos /\ w.relaunch = s.relaunch
          /\ w.completed = s.completed /\ w.phase = s.phase /\ w.acceptance = s.acceptance
      <4>1. PICK k \in Nat : k = NextTag(NextTag(t))
        BY <3>a
      <4> QED
        BY <2>2, <4>1 DEF ProcessType
    <3> HIDE DEF w
    <3>2. Working(w, n, split)
      <4>1. /\ w.at = u.at /\ w.pos = u.pos /\ w.relaunch = u.relaunch
            /\ w.completed = u.completed
            /\ w.phase = [u.phase EXCEPT ![n] = "bcast_acceptability"]
            /\ \A m \in Nodes \ {n} : w.acceptance[m] = u.acceptance[m]
        BY <3>1, <2>2, <2>3
      <4> HIDE DEF split
      <4> QED
        BY <3>1, <4>1, <1>2, <1>5, RephasedWorking
    <3>3. w.phase[n] = "bcast_acceptability"
      BY <3>1, <2>2, <1>7 DEF ProcessType
    <3> QED
      BY <3>2, <3>3, <2>4, <1>3, <1>5, Creates
  <2>5. ProcessOK(s, split)
    <3>1. DecisionOK(s, n, split)
      <4>1. s.phase[n] = "bcast_acceptability"
        BY <2>2, <1>7 DEF ProcessType
      <4> QED
        BY <4>1, <2>3, <1>4 DEF DecisionOK
    <3>2. /\ s.at \in {n, NoNode} /\ \A m \in Nodes \ {n} : s.acceptance[m] = u.acceptance[m]
      BY <2>2, <2>3, <1>7
    <3> HIDE DEF split
    <3> QED
      BY <3>1, <3>2, <2>2, <1>2, <1>5, Keeps
  <2>6. [node EXCEPT ![Lft(n)].tag = t, ![Rht(n)].tag = NextTag(t)] \in [Nodes -> NodeType]
    <3>1. t \in Int /\ NextTag(t) \in Int
      BY <1>3 DEF ProcessType, NextTag
    <3>2. PICK a, b : a = Lft(n) /\ b = Rht(n)
      OBVIOUS
    <3>3. [node EXCEPT ![a].tag = t] \in [Nodes -> NodeType]
      BY <3>1, <1>3 DEF NodeType
    <3>4. PICK nn \in [Nodes -> NodeType] : nn = [node EXCEPT ![a].tag = t]
      BY <3>3
    <3>5. [nn EXCEPT ![b].tag = NextTag(t)] \in [Nodes -> NodeType]
      BY <3>1 DEF NodeType
    <3> QED
      BY <3>2, <3>4, <3>5
  <2> QED
    BY <2>1, <2>2, <2>4, <2>5, <2>6, <1>1, <1>3, StepsOK
<1>9. CASE Step(p, v) /\ UNCHANGED node
  <2> HIDE DEF u
  <2>1. /\ v \in ProcessType /\ v.at = n /\ v.pos = u.pos /\ v.relaunch = u.relaunch
        /\ v.completed = u.completed /\ v.phase = [u.phase EXCEPT ![n] = "bcast_acceptability"]
        /\ v.acceptance = u.acceptance
    BY <1>5, <1>7, PhaseFacts DEF ProcessType
  <2> HIDE DEF v
  <2>2. DecisionOK(v, n, split)
    <3>1. v.phase[n] = "bcast_acceptability"
      BY <2>1, <1>7 DEF ProcessType
    <3> QED
      BY <3>1, <2>1, <1>2, <1>7 DEF DecisionOK
  <2>3. ProcessOK(v, split)
    BY <2>1, <2>2, <1>2, <1>5, Keeps
  <2> QED
    BY <2>1, <2>3, <1>1, <1>3, <1>9, StepsOK
<1> QED
  BY <1>6, <1>8, <1>9

LEMMA AcceptabilityBroadcast ==
    ASSUME ClusterInv, NEW p \in Ranks, NEW n \in Nodes, broadcastAcceptability_check(p, n)
    PROVE  ClusterInv'
<1> DEFINE u == Popped(p)
           split == input.split
           a == IF IsOwner(p, n) THEN self[p].acceptance[n] ELSE Remote(Decision(n))
           s == [u EXCEPT !.acceptance[n] = a]
           v == [CreatedChildren(s, n) EXCEPT !.phase[n] = "gather_grouping_criteria"]
<1>1. /\ Current(p) = n /\ self[p].phase[n] = "bcast_acceptability"
      /\ UNCHANGED <<input, node>>
      /\ Step(p, IF Rejected(a) THEN v ELSE Finish(p, s, n))
  BY DEF broadcastAcceptability_check, Continuing, PhaseOf
<1>2. /\ Taken(u, n, split) /\ u.phase[n] = "bcast_acceptability"
      /\ u.acceptance = self[p].acceptance /\ Working(u, n, split)
  BY <1>1, Takes, TakenWorks
<1>3. Halves(split) /\ u \in ProcessType /\ u.at = n /\ DecisionOK(u, n, split)
  BY <1>2, SelfFacts DEF Taken
<1>4. a \in Int /\ (Rejected(a) => n \in split)
  <2>1. CASE IsOwner(p, n)
    <3>1. a = u.acceptance[n]
      BY <2>1, <1>2
    <3> QED
      BY <3>1, <1>2, <1>3 DEF DecisionOK, ProcessType
  <2>2. CASE ~IsOwner(p, n)
    <3>1. a = Remote(Decision(n))
      BY <2>2
    <3> QED
      BY <3>1 DEF Remote, Decision, Rejected, rejected_by_calculation,
                  hasnotag_by_owner, accepted_by_calculation
  <2> QED
    BY <2>1, <2>2
<1> HIDE DEF u, a
<1>5. /\ s \in ProcessType /\ s.at = u.at /\ s.pos = u.pos /\ s.relaunch = u.relaunch
      /\ s.completed = u.completed /\ s.phase = u.phase
      /\ s.acceptance = [u.acceptance EXCEPT ![n] = a]
  BY <1>3, <1>4 DEF ProcessType
<1>6. \A m \in Nodes \ {n} : s.acceptance[m] = u.acceptance[m]
  BY <1>3, <1>5 DEF ProcessType
<1> HIDE DEF s
<1>7. Working(s, n, split)
  <2> HIDE DEF split
  <2> QED
    BY <1>2, <1>5, <1>6, AlikeWorking
<1>8. Rejected(a) => v \in ProcessType /\ ProcessOK(v, split)
  <2> SUFFICES ASSUME Rejected(a) PROVE v \in ProcessType /\ ProcessOK(v, split)
    OBVIOUS
  <2>1. "gather_grouping_criteria" \in Ops
    BY DEF Ops, InGroupOps
  <2>2. n \in split
    BY <1>4
  <2>3. v = [CreatedChildren(s, n) EXCEPT !.phase[n] = "gather_grouping_criteria"]
    OBVIOUS
  <2> HIDE DEF split, v
  <2> QED
    BY <2>1, <2>2, <2>3, <1>3, <1>7, Creates
<1>9. Finish(p, s, n) \in ProcessType /\ ProcessOK(Finish(p, s, n), split)
  BY <1>7, Finishes
<1> QED
  BY <1>1, <1>8, <1>9, StepsOK, NodesKept

LEMMA CriteriaGathered ==
    ASSUME ClusterInv, NEW p \in Ranks, NEW n \in Nodes, gatherGroupingCriteria_check(p, n)
    PROVE  ClusterInv'
<1> DEFINE u == Popped(p)
           split == input.split
           v == [u EXCEPT !.phase[n] = "bcast_child_groups"]
<1>1. /\ Current(p) = n /\ self[p].phase[n] = "gather_grouping_criteria"
      /\ input' = input /\ Step(p, v)
      /\ formChildGroups(p, n) \/ UNCHANGED node
  BY DEF gatherGroupingCriteria_check, Continuing, PhaseOf
<1>2. /\ Taken(u, n, split) /\ u.phase[n] = "gather_grouping_criteria"
      /\ Working(u, n, split)
  BY <1>1, Takes, TakenWorks
<1>3. /\ Halves(split) /\ u \in ProcessType /\ u.at = n /\ DecisionOK(u, n, split)
      /\ input \in Inputs /\ node \in [Nodes -> NodeType]
  BY <1>2, SelfFacts DEF Taken, ClusterInv, Typed
<1>4. n \in split /\ Lft(n) \in Nodes /\ Rht(n) \in Nodes
  BY <1>2, <1>3, HalvesFacts DEF DecisionOK
<1> HIDE DEF u
<1>5. "bcast_child_groups" \in Ops
  BY DEF Ops, InGroupOps
<1>6. /\ v \in ProcessType /\ v.at = n /\ v.pos = u.pos /\ v.relaunch = u.relaunch
      /\ v.completed = u.completed /\ v.phase = [u.phase EXCEPT ![n] = "bcast_child_groups"]
      /\ v.acceptance = u.acceptance
  BY <1>3, <1>5, PhaseFacts DEF ProcessType
<1> HIDE DEF v
<1>7. DecisionOK(v, n, split)
  <2>1. v.phase[n] = "bcast_child_groups"
    BY <1>3, <1>6 DEF ProcessType
  <2> QED
    BY <2>1, <1>4 DEF DecisionOK
<1>8. ProcessOK(v, split)
  <2> HIDE DEF split
  <2> QED
    BY <1>2, <1>5, <1>6, <1>7, Keeps
<1>9. node' \in [Nodes -> NodeType]
  <2>1. CASE formChildGroups(p, n)
    <3>1. ASSUME NEW c \in Nodes
          PROVE  ChildGroup(p, n, c) \subseteq Ranks /\ ChildOwners(p, n, c) \subseteq Ranks
      <4>1. input.overlap[c] \subseteq Ranks
        BY <1>3, InputFacts
      <4> QED
        BY <4>1 DEF ChildGroup, ChildOwners
    <3>2. PICK lft \in ChildOwners(p, n, Lft(n)), rht \in ChildOwners(p, n, Rht(n)) :
            node' = [node EXCEPT
                ![Lft(n)].owner = lft, ![Lft(n)].group = ChildGroup(p, n, Lft(n)),
                ![Rht(n)].owner = rht, ![Rht(n)].group = ChildGroup(p, n, Rht(n))]
      BY <2>1 DEF formChildGroups
    <3>3. PICK a \in Nodes, b \in Nodes : a = Lft(n) /\ b = Rht(n)
      BY <1>4
    <3>4. PICK ga \in SUBSET Ranks, gb \in SUBSET Ranks :
            ga = ChildGroup(p, n, a) /\ gb = ChildGroup(p, n, b)
      BY <3>1
    <3>5. lft \in Ranks /\ rht \in Ranks
      BY <3>1, <3>2, <1>4
    <3>6. node' = [node EXCEPT ![a].owner = lft, ![a].group = ga,
                               ![b].owner = rht, ![b].group = gb]
      BY <3>2, <3>3, <3>4
    <3>7. PICK nn : nn = [node EXCEPT ![a].owner = lft, ![a].group = ga]
      OBVIOUS
    <3>8. nn \in [Nodes -> NodeType]
      BY <3>5, <3>7, <1>3 DEF NodeType
    <3>9. [nn EXCEPT ![b].owner = rht, ![b].group = gb] \in [Nodes -> NodeType]
      BY <3>5, <3>8 DEF NodeType
    <3> QED
      BY <3>6, <3>7, <3>9
  <2> QED
    BY <2>1, <1>1, <1>3
<1> QED
  BY <1>1, <1>6, <1>8, <1>9, StepsOK

LEMMA ChildGroupsBroadcast ==
    ASSUME ClusterInv, NEW p \in Ranks, NEW n \in Nodes, broadcastChildGroups_check(p, n)
    PROVE  ClusterInv'
<1> DEFINE u == Popped(p)
           split == input.split
<1>1. PICK v :
         /\ Current(p) = n /\ self[p].phase[n] = "bcast_child_groups"
         /\ UNCHANGED <<input, node>> /\ Step(p, v)
         /\ v = Leave([u EXCEPT !.phase[n] = "run_children",
                                !.phase[Lft(n)] = "to_be_launched",
                                !.phase[Rht(n)] = "to_be_launched",
                                !.relaunch = <<Lft(n), Rht(n)>> \o @])
  BY DEF broadcastChildGroups_check, Continuing, PhaseOf
<1>2. /\ Taken(u, n, split) /\ u.phase[n] = "bcast_child_groups"
      /\ Working(u, n, split)
  BY <1>1, Takes, TakenWorks
<1>3. Halves(split) /\ n \in split
  BY <1>2, SelfFacts DEF Taken, DecisionOK
<1>4. v \in ProcessType /\ ProcessOK(v, split)
  <2> HIDE DEF u, split
  <2> QED
    BY <1>1, <1>2, <1>3, Launches
<1> QED
  BY <1>1, <1>4, StepsOK, NodesKept

LEMMA ChildrenRun ==
    ASSUME ClusterInv, NEW p \in Ranks, NEW n \in Nodes, runChildren_check(p, n)
    PROVE  ClusterInv'
<1> DEFINE u == Popped(p)
           split == input.split
           s == IF Recombines(self[p], n) THEN Recombined(p, u, n) ELSE Kept(p, u, n)
           w == DeletedChildren(s, n)
<1>1. /\ Current(p) = n /\ self[p].phase[n] = "run_children"
      /\ UNCHANGED <<input, node>>
      /\ Step(p, IF ChildrenCompleted(p, n) THEN Finish(p, w, n) ELSE Leave(u))
  BY DEF runChildren_check, Continuing, PhaseOf
<1>2. Taken(u, n, split) /\ u.phase = self[p].phase
  BY <1>1, Takes
<1>3. /\ Halves(split) /\ u \in ProcessType /\ u.at = n /\ u.pos = "loop"
      /\ u.phase[n] = "run_children" /\ n \in Ready(u) /\ Active(u.phase[n])
      /\ \A m \in Nodes : ChildrenOK(u, m) /\ DecisionOK(u, m, split)
      /\ Lists(u.relaunch, Ready(u) \ {n}) /\ CompletedOK(u)
  BY <1>1, <1>2, SelfFacts DEF Taken
<1>4. n \in split /\ ChildrenOf(n) \subseteq Nodes
  BY <1>3 DEF DecisionOK, Halves
<1>5. /\ \A c \in ChildrenOf(n) : u.phase[c] = "completed"
      /\ ChildrenCompleted(p, n)
  BY <1>2, <1>3 DEF Ready, ChildrenCompleted, PhaseOf
<1> HIDE DEF u
<1>6. /\ s \in ProcessType /\ s.at = u.at /\ s.pos = u.pos /\ s.relaunch = u.relaunch
      /\ s.completed = u.completed /\ s.phase = u.phase
      /\ \A m \in Nodes \ {n} : s.acceptance[m] = u.acceptance[m]
  <2>1. LET r == Recombined(p, u, n)
        IN  /\ r \in ProcessType /\ r.at = u.at /\ r.pos = u.pos /\ r.relaunch = u.relaunch
            /\ r.completed = u.completed /\ r.phase = u.phase
            /\ \A m \in Nodes \ {n} : r.acceptance[m] = u.acceptance[m]
    <3>1. PICK B : B = u.boxes \ Own(p, ChildrenOf(n))
      OBVIOUS
    <3>2. B \in SUBSET Nodes
      BY <3>1, <1>3 DEF ProcessType
    <3>a. PICK acceptance : acceptance = [u.acceptance EXCEPT ![n] = accepted_by_recombination]
      OBVIOUS
    <3>b. acceptance \in [Nodes -> Int]
      BY <3>a, <1>3 DEF ProcessType, accepted_by_recombination
    <3>3. Recombined(p, u, n) = [u EXCEPT !.acceptance = acceptance, !.boxes = B]
      BY <3>1, <3>a, <1>3 DEF Recombined, ProcessType
    <3>4. PICK r : r = [u EXCEPT !.acceptance = acceptance, !.boxes = B]
      OBVIOUS
    <3>5. /\ r \in ProcessType /\ r.at = u.at /\ r.pos = u.pos /\ r.relaunch = u.relaunch
          /\ r.completed = u.completed /\ r.phase = u.phase
          /\ r.acceptance = [u.acceptance EXCEPT ![n] = accepted_by_recombination]
      BY <3>2, <3>a, <3>b, <3>4, <1>3 DEF ProcessType
    <3>6. \A m \in Nodes \ {n} : r.acceptance[m] = u.acceptance[m]
      BY <3>5, <1>3 DEF ProcessType
    <3> QED
      BY <3>3, <3>4, <3>5, <3>6
  <2>2. LET r == Kept(p, u, n)
        IN  /\ r \in ProcessType /\ r.at = u.at /\ r.pos = u.pos /\ r.relaunch = u.relaunch
            /\ r.completed = u.completed /\ r.phase = u.phase
            /\ \A m \in Nodes \ {n} : r.acceptance[m] = u.acceptance[m]
    BY <1>3, <1>4 DEF Kept, ProcessType
  <2> QED
    BY <2>1, <2>2
<1> HIDE DEF s
<1>7. /\ w \in ProcessType /\ w.at = n /\ w.pos = "loop" /\ w.relaunch = s.relaunch
      /\ w.completed = s.completed
      /\ \A m \in Nodes : w.phase[m] =
            IF m \in ChildrenOf(n) THEN "deallocated" ELSE s.phase[m]
      /\ \A m \in Nodes : w.acceptance[m] =
            IF m \in ChildrenOf(n) THEN undetermined ELSE s.acceptance[m]
  <2> DEFINE phase == [m \in Nodes |-> IF m \in ChildrenOf(n) THEN "deallocated" ELSE s.phase[m]]
             acceptance == [m \in Nodes |->
                              IF m \in ChildrenOf(n) THEN undetermined ELSE s.acceptance[m]]
  <2>1. phase \in [Nodes -> AllPhases]
    <3>1. s.phase \in [Nodes -> AllPhases] /\ "deallocated" \in AllPhases
      BY <1>6 DEF ProcessType, AllPhases
    <3> QED
      BY <3>1
  <2>2. acceptance \in [Nodes -> Int]
    <3>1. s.acceptance \in [Nodes -> Int] /\ undetermined \in Int
      BY <1>6 DEF ProcessType, undetermined
    <3> QED
      BY <3>1
  <2>3. w = [s EXCEPT !.phase = phase, !.acceptance = acceptance]
    BY <1>6 DEF w, DeletedChildren, ProcessType
  <2>4. /\ \A m \in Nodes : phase[m] = IF m \in ChildrenOf(n) THEN "deallocated" ELSE s.phase[m]
        /\ \A m \in Nodes : acceptance[m] =
              IF m \in ChildrenOf(n) THEN undetermined ELSE s.acceptance[m]
    OBVIOUS
  <2> HIDE DEF phase, acceptance, w
  <2>5. /\ w \in ProcessType /\ w.at = s.at /\ w.pos = s.pos /\ w.relaunch = s.relaunch
        /\ w.completed = s.completed /\ w.phase = phase /\ w.acceptance = acceptance
    BY <2>1, <2>2, <2>3, <1>6 DEF ProcessType
  <2> QED
    BY <2>4, <2>5, <1>3, <1>6
<1> HIDE DEF w
<1>8. Working(w, n, split)
  <2>1. Ready(s) = Ready(u) /\ CompletedOK(s)
    BY <1>3, <1>6 DEF Ready, CompletedOK
  <2>2. \A m \in Nodes \ {n} : ChildrenOK(s, m) /\ DecisionOK(s, m, split)
    <3> TAKE m \in Nodes \ {n}
    <3>1. ChildrenOK(u, m) /\ DecisionOK(u, m, split)
      BY <1>3
    <3> QED
      BY <3>1, <1>6 DEF ChildrenOK, DecisionOK
  <2>3. \A m \in Nodes : IsChild(m, n) => s.phase[m] = "completed"
    BY <1>5, <1>6, ChildrenAreIt
  <2>4. \A m \in ChildrenOf(n) \cap Nodes : Rejected(w.acceptance[m]) => m \in split
    BY <1>7 DEF Rejected, undetermined
  <2>5. \A m \in Nodes \ {n} : m \notin ChildrenOf(n) => w.acceptance[m] = s.acceptance[m]
    BY <1>7
  <2>6. /\ s.at = n /\ s.pos = "loop" /\ Active(s.phase[n])
        /\ Lists(s.relaunch, Ready(s) \ {n})
    BY <2>1, <1>3, <1>6
  <2> HIDE DEF split
  <2> QED
    BY <2>1, <2>2, <2>3, <2>4, <2>5, <2>6, <1>3, <1>6, <1>7, Reclaims
<1>9. Finish(p, w, n) \in ProcessType /\ ProcessOK(Finish(p, w, n), split)
  BY <1>8, Finishes
<1> QED
  BY <1>1, <1>5, <1>9, StepsOK, NodesKept

LEMMA DropoutsTold ==
    ASSUME ClusterInv, NEW p \in Ranks, NEW n \in Nodes, broadcastToDropouts_check(p, n)
    PROVE  ClusterInv'
<1> DEFINE u == Popped(p)
           split == input.split
           a == FromDropoutBcast(self[node[n].owner].told[n])
           s == IF IsOwner(p, n) THEN u ELSE [u EXCEPT !.acceptance[n] = a]
<1>1. /\ Current(p) = n /\ self[p].phase[n] = "bcast_to_dropouts"
      /\ UNCHANGED <<input, node>> /\ Step(p, Complete(s, n))
  BY DEF broadcastToDropouts_check, Continuing, PhaseOf
<1>2. Taken(u, n, split) /\ Working(u, n, split) /\ u \in ProcessType
  BY <1>1, Takes, TakenWorks DEF Taken
<1>3. a \in Int
  <2>1. node[n].owner \in Ranks
    BY DEF ClusterInv, Typed, NodeType
  <2>2. self[node[n].owner].told[n] \in Int
    BY <2>1, SelfFacts DEF ProcessType
  <2> QED
    BY <2>2 DEF FromDropoutBcast, rejected_by_dropout_bcast
<1> HIDE DEF u, a
<1>4. /\ s \in ProcessType /\ s.at = u.at /\ s.pos = u.pos /\ s.relaunch = u.relaunch
      /\ s.completed = u.completed /\ s.phase = u.phase
      /\ \A m \in Nodes \ {n} : s.acceptance[m] = u.acceptance[m]
  BY <1>2, <1>3 DEF ProcessType
<1> HIDE DEF s
<1>5. Working(s, n, split)
  <2> HIDE DEF split
  <2> QED
    BY <1>2, <1>4, AlikeWorking
<1>6. Complete(s, n) \in ProcessType /\ ProcessOK(Complete(s, n), split)
  BY <1>5, Completes
<1> QED
  BY <1>1, <1>6, StepsOK, NodesKept

-----------------------------------------------------------------------------
(* The loop: what it waits for, and when it ends.                          *)

LEMMA LeastNumber ==
    ASSUME NEW T \in SUBSET Nat, T # {}
    PROVE  \E x \in T : \A y \in T : x <= y
<1>1. \E x \in T : \A y \in T : <<y, x>> \notin OpToRel(<, Nat)
  BY WFMin, NatLessThanWellFounded, Zenon
<1>2. \A x, y \in T : <<y, x>> \in OpToRel(<, Nat) <=> y < x
  BY DEF OpToRel
<1>3. \E x \in T : \A y \in T : ~ (y < x)
  BY <1>1, <1>2, Zenon
<1> QED
  BY <1>3

\* With empty queues and no operation there is nothing left to do: the deepest
\* of the nodes that are not completed has no child to wait for.
LEMMA NothingLeft ==
    ASSUME NEW split, Halves(split), NEW s \in ProcessType, ProcessOK(s, split),
           s.relaunch = <<>>, \A n \in Nodes : s.phase[n] \notin Ops
    PROVE  \A n \in Nodes : ~Active(s.phase[n])
<1> DEFINE A == {n \in Nodes : Active(s.phase[n])}
           Deeper(n) == {m \in Nodes : Len(m) > Len(n)}
           T == {Cardinality(Deeper(n)) : n \in A}
<1> SUFFICES ASSUME A # {} PROVE FALSE
  OBVIOUS
<1>1. ASSUME NEW n \in Nodes
      PROVE  IsFiniteSet(Deeper(n)) /\ Cardinality(Deeper(n)) \in Nat
  BY BergerRigoutsosAssumption, FS_Subset, FS_CardinalityType
<1>2. T \in SUBSET Nat /\ T # {}
  BY <1>1
<1>3. PICK x \in T : \A y \in T : x <= y
  <2> HIDE DEF T
  <2> QED
    BY <1>2, LeastNumber
<1>4. PICK n \in A : x = Cardinality(Deeper(n))
  OBVIOUS
<1>5. \A m \in Nodes : ChildrenOK(s, m) /\ DecisionOK(s, m, split)
  BY DEF ProcessOK
<1>6. n \notin Ready(s)
  <2>1. Lists(<<>>, Ready(s))
    BY DEF ProcessOK
  <2>2. 1 .. Len(<<>>) = {}
    OBVIOUS
  <2> QED
    BY <2>1, <2>2 DEF Lists
<1>7. s.phase[n] = "run_children"
  <2>1. s.phase[n] \in AllPhases /\ Active(s.phase[n]) /\ s.phase[n] \notin Ops
    BY DEF ProcessType
  <2>2. s.phase[n] # "to_be_launched"
    BY <1>6 DEF Ready
  <2> QED
    BY <2>1, <2>2 DEF Active, AllPhases
<1>8. PICK c \in ChildrenOf(n) : s.phase[c] # "completed"
  BY <1>6, <1>7 DEF Ready
<1>9. c \in Nodes
  BY <1>5, <1>7 DEF DecisionOK, Halves
<1>10. c \in A
  <2>1. IsChild(c, n)
    BY <1>9, ChildrenAreIt
  <2>2. Live(s.phase[c])
    BY <2>1, <1>5, <1>7, <1>9 DEF ChildrenOK
  <2> QED
    BY <2>2, <1>8, <1>9 DEF Live
<1>11. /\ Len(c) = Len(n) + 1 /\ Len(n) \in Nat
       /\ \A m \in Nodes : Len(m) \in Nat
  <2>1. n \in Nodes
    OBVIOUS
  <2>2. n \in Seq(Nat) /\ Len(n) >= 1
    BY <2>1, NodeFacts
  <2> QED
    BY <2>1, <2>2, BelowFacts, NodeFacts
<1>12. Deeper(c) \subseteq Deeper(n) \ {c} /\ c \in Deeper(n)
  BY <1>9, <1>11
<1>13. Cardinality(Deeper(c)) < Cardinality(Deeper(n))
  <2>1. IsFiniteSet(Deeper(n)) /\ Cardinality(Deeper(n)) \in Nat
    BY <1>1
  <2>2. Cardinality(Deeper(c)) \in Nat
    BY <1>1, <1>9
  <2> HIDE DEF Deeper
  <2>3. /\ IsFiniteSet(Deeper(n) \ {c})
        /\ Cardinality(Deeper(n) \ {c}) = Cardinality(Deeper(n)) - 1
    BY <2>1, <1>12, FS_RemoveElement
  <2>4. Cardinality(Deeper(c)) <= Cardinality(Deeper(n) \ {c})
    BY <2>3, <1>12, FS_Subset
  <2> QED
    BY <2>1, <2>2, <2>3, <2>4
<1>14. Cardinality(Deeper(c)) \in Nat /\ Cardinality(Deeper(n)) \in Nat
  BY <1>1, <1>9
<1>15. Cardinality(Deeper(c)) \in T
  BY <1>10
<1>16. x <= Cardinality(Deeper(c))
  <2> HIDE DEF T
  <2> QED
    BY <1>3, <1>15
<1> HIDE DEF Deeper, T
<1> QED
  BY <1>4, <1>13, <1>14, <1>16

LEMMA IdleFacts ==
    ASSUME ClusterInv, NEW p \in Ranks, Idle(p)
    PROVE  /\ self[p].pos = "loop" /\ self[p].at = NoNode
           /\ self[p].completed = <<>> /\ self[p].relaunch = <<>>
           /\ \A n \in Nodes : n \in Pending(p) <=> self[p].phase[n] \in Ops
<1>1. self[p].relaunch \in Seq(Nodes) /\ self[p].completed \in Seq(Nodes)
  BY SelfFacts
<1>2. self[p].pos = "loop" /\ Current(p) = NoNode
  BY DEF Idle
<1>3. self[p].at = NoNode
  BY <1>2 DEF Current
<1>4. ASSUME Queued(p) # <<>> PROVE FALSE
  <2>1. Head(Queued(p)) = NoNode
    BY <1>2, <1>3, <1>4 DEF Current
  <2>2. Queued(p) \in Seq(Nodes)
    BY <1>1, ConcatProperties DEF Queued
  <2>3. Head(Queued(p)) \in Nodes
    BY <2>2, <1>4, HeadTailProperties
  <2> QED
    BY <2>1, <2>3, NodeFacts
<1>5. self[p].completed = <<>> /\ self[p].relaunch = <<>>
  BY <1>1, <1>4, QueuedFacts
<1>6. ASSUME NEW n \in Nodes PROVE n \in Pending(p) <=> self[p].phase[n] \in Ops
  <2>1. DOMAIN self[p].completed = {}
    BY <1>5
  <2>2. n # self[p].at
    BY <1>3, NodeFacts
  <2> QED
    BY <2>1, <2>2 DEF Pending, PhaseOf
<1> QED
  BY <1>2, <1>3, <1>5, <1>6

LEMMA SomeAdvanced ==
    ASSUME ClusterInv, NEW p \in Ranks, advanceSome(p)
    PROVE  ClusterInv'
<1>0. PICK S \in SUBSET Pending(p) :
         \E q \in Orders(S) : Step(p, [self[p] EXCEPT !.completed = q])
  BY DEF advanceSome
<1>1. PICK q \in Orders(S) : Step(p, [self[p] EXCEPT !.completed = q])
  BY <1>0
<1>2. Idle(p) /\ UNCHANGED <<input, node>>
  BY DEF advanceSome
<1> DEFINE s == self[p]
           v == [s EXCEPT !.completed = q]
<1>3. /\ s.at = NoNode /\ s.pos = "loop" /\ s \in ProcessType
      /\ ProcessOK(s, input.split)
      /\ \A n \in Nodes : n \in Pending(p) <=> s.phase[n] \in Ops
  BY <1>2, IdleFacts, SelfFacts
<1>4. S \subseteq Nodes /\ \A n \in S : s.phase[n] \in Ops
  BY <1>1, <1>3 DEF Pending
<1>5. q \in Seq(Nodes) /\ \A i \in 1 .. Len(q) : q[i] \in S
  <2>1. PICK k : k = Cardinality(S)
    OBVIOUS
  <2>2. k \in Nat
    BY <2>1, <1>4, BergerRigoutsosAssumption, FS_Subset, FS_CardinalityType
  <2>3. q \in [1 .. k -> S]
    BY <2>1, <1>1 DEF Orders
  <2>4. Len(q) = k /\ q \in Seq(S)
    BY <2>2, <2>3
  <2>5. q \in Seq(Nodes)
    BY <2>2, <2>3, <1>4
  <2> QED
    BY <2>3, <2>4, <2>5
<1>6. \A i, j \in 1 .. Len(q) : q[i] = q[j] => i = j
  <2>1. \A i, j \in DOMAIN q : q[i] = q[j] => i = j
    BY <1>1 DEF Orders
  <2>2. DOMAIN q = 1 .. Len(q)
    BY <1>5
  <2> QED
    BY <2>1, <2>2
<1> HIDE DEF s
<1>7. /\ v \in ProcessType /\ v.at = NoNode /\ v.pos = "loop" /\ v.relaunch = s.relaunch
      /\ v.completed = q /\ v.phase = s.phase /\ v.acceptance = s.acceptance
  BY <1>3, <1>5 DEF ProcessType
<1> HIDE DEF v
<1>8. CompletedOK(v)
  <2>1. Lists(q, Elements(q))
    BY <1>6 DEF Lists, Elements
  <2>2. \A n \in Elements(q) : n \in S
    BY <1>5 DEF Elements
  <2>3. \A n \in Elements(q) : s.phase[n] \in Ops /\ n # NoNode
    BY <2>2, <1>4, NodeFacts
  <2> QED
    BY <2>1, <2>3, <1>7 DEF CompletedOK
<1>9. ProcessOK(v, input.split)
  <2>1. Ready(v) = Ready(s)
    BY <1>7 DEF Ready
  <2>2. \A n \in Nodes : ChildrenOK(v, n) /\ DecisionOK(v, n, input.split)
    <3> TAKE n \in Nodes
    <3>1. ChildrenOK(s, n) /\ DecisionOK(s, n, input.split)
      BY <1>3 DEF ProcessOK
    <3> QED
      BY <3>1, <1>7 DEF ChildrenOK, DecisionOK
  <2> QED
    BY <2>1, <2>2, <1>3, <1>7, <1>8 DEF ProcessOK
<1> QED
  BY <1>1, <1>2, <1>7, <1>9, StepsOK, NodesKept DEF s, v

\* Steps after the loop, and out of it.
LEMMA Moves ==
    ASSUME ClusterInv, NEW p \in Ranks, NEW v \in ProcessType, Step(p, v),
           UNCHANGED <<input, node>>,
           v.at = self[p].at, v.relaunch = self[p].relaunch,
           v.completed = self[p].completed, v.phase = self[p].phase,
           v.acceptance = self[p].acceptance,
           \A n \in Nodes : ~Active(self[p].phase[n])
    PROVE  ClusterInv'
<1> DEFINE s == self[p]
<1>1. ProcessOK(s, input.split)
  BY SelfFacts
<1>2. Ready(v) = Ready(s) /\ (CompletedOK(s) => CompletedOK(v))
  BY DEF Ready, CompletedOK
<1>3. \A n \in Nodes : ChildrenOK(v, n) /\ DecisionOK(v, n, input.split)
  <2> TAKE n \in Nodes
  <2>1. ChildrenOK(s, n) /\ DecisionOK(s, n, input.split)
    BY <1>1 DEF ProcessOK
  <2> QED
    BY <2>1 DEF ChildrenOK, DecisionOK
<1>4. ProcessOK(v, input.split)
  BY <1>1, <1>2, <1>3 DEF ProcessOK
<1> QED
  BY <1>4, StepsOK, NodesKept

LEMMA LoopEnded ==
    ASSUME ClusterInv, NEW p \in Ranks, LoopEnds(p)
    PROVE  ClusterInv'
<1> DEFINE v == [self[p] EXCEPT !.pos = "barrier"]
<1>1. Idle(p) /\ Pending(p) = {} /\ UNCHANGED <<input, node>> /\ Step(p, v)
  BY DEF LoopEnds
<1>2. /\ self[p] \in ProcessType /\ ProcessOK(self[p], input.split) /\ Halves(input.split)
      /\ self[p].relaunch = <<>> /\ \A n \in Nodes : self[p].phase[n] \notin Ops
  BY <1>1, IdleFacts, SelfFacts
<1>3. \A n \in Nodes : ~Active(self[p].phase[n])
  BY <1>2, NothingLeft
<1>4. v \in ProcessType
  BY <1>2 DEF ProcessType
<1> QED
  BY <1>1, <1>2, <1>3, <1>4, Moves DEF ProcessType

LEMMA Shares ==
    ASSUME ClusterInv, NEW p \in Ranks,
           Barrier(p) \/ ReceiveRelationships(p) \/ ShareEnds(p)
    PROVE  ClusterInv'
<1>1. self[p] \in ProcessType /\ ProcessOK(self[p], input.split)
  BY SelfFacts
<1>2. PICK v :
         /\ Step(p, v) /\ UNCHANGED <<input, node>> /\ self[p].pos # "loop"
         /\ \/ v = [self[p] EXCEPT !.pos = "share"]
            \/ \E q \in Incoming(p) : v = [self[p] EXCEPT !.received = @ \cup {q}]
            \/ v = [self[p] EXCEPT !.pos = "done"]
  BY DEF Barrier, ReceiveRelationships, ShareEnds
<1>3. /\ v \in ProcessType /\ v.at = self[p].at /\ v.relaunch = self[p].relaunch
      /\ v.completed = self[p].completed /\ v.phase = self[p].phase
      /\ v.acceptance = self[p].acceptance
  <2>1. CASE v = [self[p] EXCEPT !.pos = "share"]
    BY <2>1, <1>1 DEF ProcessType, Sharing
  <2>2. CASE v = [self[p] EXCEPT !.pos = "done"]
    BY <2>2, <1>1 DEF ProcessType, Sharing
  <2>3. CASE \E q \in Incoming(p) : v = [self[p] EXCEPT !.received = @ \cup {q}]
    <3>1. PICK q \in Incoming(p) : v = [self[p] EXCEPT !.received = @ \cup {q}]
      BY <2>3
    <3>2. q \in Ranks
      BY DEF Incoming
    <3>3. self[p].received \cup {q} \in SUBSET Ranks
      BY <3>2, <1>1 DEF ProcessType
    <3>4. PICK R : R = self[p].received \cup {q}
      OBVIOUS
    <3>5. v = [self[p] EXCEPT !.received = R]
      BY <3>1, <3>4, <1>1 DEF ProcessType
    <3> QED
      BY <3>3, <3>4, <3>5, <1>1 DEF ProcessType
  <2> QED
    BY <1>2, <2>1, <2>2, <2>3
<1>4. \A n \in Nodes : ~Active(self[p].phase[n])
  BY <1>1, <1>2 DEF ProcessOK
<1> QED
  BY <1>2, <1>3, <1>4, Moves

-----------------------------------------------------------------------------
(* The invariant.                                                          *)

LEMMA PoolFacts == Pool \in Nat /\ Pool * Size <= TagUpperBound
<1>1. Size \in Nat \ {0} /\ TagUpperBound \in Nat
  BY BergerRigoutsosAssumption
<1> QED
  BY <1>1 DEF Pool

LEMMA PoolsInOrder ==
    ASSUME NEW p \in Nat, NEW q \in Nat
    PROVE  /\ Pool * p \in Nat
           /\ Pool * (p + 1) = Pool * p + Pool
           /\ p <= q => Pool * p <= Pool * q
<1>1. PICK k \in Nat : k = Pool
  BY PoolFacts
<1>2. k * p \in Nat /\ k * (p + 1) = k * p + k /\ (p <= q => k * p <= k * q)
  OBVIOUS
<1> QED
  BY <1>1, <1>2

LEMMA RanksFacts ==
    /\ Size \in Nat /\ Size >= 1 /\ Ranks \subseteq Nat /\ 0 \in Ranks /\ Roots \in Nat
    /\ \A p \in Ranks : p + 1 <= Size
BY BergerRigoutsosAssumption DEF Ranks

LEMMA StartsOK ==
    ASSUME Init
    PROVE  ClusterInv
<1>1. input \in Inputs /\ 0 \in Ranks /\ Roots \in Nat /\ Ranks \subseteq Nat
  BY RanksFacts DEF Init
<1>2. node \in [Nodes -> NodeType]
  <2>1. ASSUME NEW n \in Nodes
        PROVE  Unset \in NodeType /\ (IsRoot(n) => RootNode(n) \in NodeType)
    <3>1. n[1] - 1 \in Int
      BY NodeFacts
    <3>2. PICK t \in Int : t = n[1] - 1
      BY <3>1
    <3>3. Unset \in NodeType
      BY <1>1 DEF Unset, NodeType, NoTag
    <3>4. RootNode(n) = [Unset EXCEPT !.group = Ranks, !.tag = t]
      BY <3>2 DEF RootNode
    <3>5. RootNode(n) \in NodeType
      BY <3>3, <3>4 DEF NodeType
    <3> QED
      BY <3>3, <3>5
  <2> QED
    BY <2>1 DEF Init
<1>3. ASSUME NEW p \in Ranks
      PROVE  self[p] \in ProcessType /\ ProcessOK(self[p], input.split)
  <2> DEFINE s == self[p]
  <2>1. s = [pos        |-> "loop",
             at         |-> NoNode,
             relaunch   |-> [r \in 1 .. Roots |-> <<r>>],
             completed  |-> <<>>,
             phase      |-> [n \in Nodes |-> IF IsRoot(n) THEN "to_be_launched" ELSE "none"],
             acceptance |-> [n \in Nodes |-> undetermined],
             told       |-> [n \in Nodes |-> undetermined],
             boxes      |-> {},
             computed   |-> {},
             next_tag   |-> Pool * p + (IF p = 0 THEN Roots ELSE 0),
             received   |-> {}]
    BY DEF Init
  <2>2. Pool * p + (IF p = 0 THEN Roots ELSE 0) \in Nat
    <3>1. PICK k \in Nat : k = Pool * p
      BY PoolsInOrder, <1>1
    <3> QED
      BY <3>1, <1>1
  <2> DEFINE queue == [r \in 1 .. Roots |-> <<r>>]
  <2>3. queue \in Seq(Nodes) /\ Len(queue) = Roots
        /\ \A i \in 1 .. Roots : queue[i] = <<i>> /\ queue[i] \in Nodes
    <3>1. \A i \in 1 .. Roots : <<i>> \in Nodes
      BY BergerRigoutsosAssumption
    <3> QED
      BY <3>1, <1>1
  <2> HIDE DEF queue
  <2>4. /\ s \in ProcessType /\ s.pos = "loop" /\ s.at = NoNode /\ s.relaunch = queue
        /\ s.completed = <<>>
        /\ \A n \in Nodes : /\ s.phase[n] = IF IsRoot(n) THEN "to_be_launched" ELSE "none"
                            /\ s.acceptance[n] = undetermined
    <3>1. PICK t \in Nat : t = Pool * p + (IF p = 0 THEN Roots ELSE 0)
      BY <2>2
    <3>2. undetermined \in Int
      BY DEF undetermined
    <3> QED
      BY <3>1, <3>2, <2>1, <2>3 DEF ProcessType, AllPhases, queue
  <2> HIDE DEF s
  <2>5. \A n \in Nodes : ChildrenOK(s, n) /\ DecisionOK(s, n, input.split)
    <3>1. ~Live("none") /\ ~Rejected(undetermined)
      BY DEF Live, Active, Rejected, undetermined
    <3> QED
      BY <3>1, <2>4 DEF ChildrenOK, DecisionOK, IsChild
  <2>6. Lists(queue, Ready(s))
    <3>1. Ready(s) = {n \in Nodes : IsRoot(n)}
      BY <2>4 DEF Ready
    <3>2. ASSUME NEW n \in Nodes, IsRoot(n)
          PROVE  \E i \in 1 .. Len(queue) : queue[i] = n
      BY <2>3, <3>2, NodeFacts
    <3>3. \A i, j \in 1 .. Len(queue) : queue[i] = queue[j] => i = j
      <4>1. \A i, j \in 1 .. Roots : <<i>> = <<j>> => i = j
        OBVIOUS
      <4> QED
        BY <4>1, <2>3
    <3>4. \A i \in 1 .. Len(queue) : IsRoot(queue[i])
      <4>1. \A i \in 1 .. Roots : Len(<<i>>) = 1
        OBVIOUS
      <4> QED
        BY <4>1, <2>3 DEF IsRoot
    <3> QED
      BY <3>1, <3>2, <3>3, <3>4, <2>3 DEF Lists
  <2>7. CompletedOK(s)
    <3>1. Elements(s.completed) = {} /\ 1 .. Len(s.completed) = {}
      BY <2>4 DEF Elements
    <3> QED
      BY <3>1 DEF CompletedOK, Lists
  <2>8. ProcessOK(s, input.split)
    BY <2>4, <2>5, <2>6, <2>7 DEF ProcessOK
  <2> QED
    BY <2>4, <2>8 DEF s
<1>4. self \in [Ranks -> ProcessType]
  <2>1. \E f : self = [p \in Ranks |-> f[p]]
    <3>1. self = [p \in Ranks |-> self[p]]
      BY DEF Init
    <3> QED
      BY <3>1
  <2> QED
    BY <2>1, <1>3
<1> QED
  BY <1>1, <1>2, <1>3, <1>4 DEF ClusterInv, Typed

LEMMA ClusterInvKept ==
    ASSUME ClusterInv, [Next]_vars
    PROVE  ClusterInv'
<1>1. ASSUME NEW p \in Ranks, NEW n \in Nodes, continueAlgorithm(p, n)
      PROVE  ClusterInv'
  BY <1>1, Launched, LeftUnfinished, HistogramReduced, AcceptabilityBroadcast,
     CriteriaGathered, ChildGroupsBroadcast, ChildrenRun, DropoutsTold
     DEF continueAlgorithm
<1>2. CASE Progress
  BY <1>1, <1>2, SomeAdvanced, LoopEnded, Shares DEF Progress
<1>3. CASE UNCHANGED vars
  BY <1>3 DEF vars, ClusterInv, Typed
<1> QED
  BY <1>2, <1>3 DEF Next, Terminated

(***************************************************************************)
(* Every node that a process has begun and not completed is in exactly one *)
(* place it will be continued from: current, in one of the queues, waiting *)
(* for a request of the stage or for a child; and a process that has left  *)
(* the loop of clusterAndComputeRelationships() has no such node.          *)
(***************************************************************************)
THEOREM NeverStranded == Spec => []NoneStranded
<1>1. ASSUME ClusterInv PROVE NoneStranded
  <2> SUFFICES ASSUME NEW p \in Ranks, NEW n \in Nodes
               PROVE  /\ Places(p, n) = (IF Active(self[p].phase[n]) THEN 1 ELSE 0)
                      /\ self[p].pos \in {"barrier"} \cup Sharing
                            => ~Active(self[p].phase[n])
    BY DEF NoneStranded, PhaseOf
  <2> DEFINE s == self[p]
             split == input.split
  <2>1. /\ s \in ProcessType /\ ProcessOK(s, split)
        /\ s.relaunch \in Seq(Nodes) /\ s.completed \in Seq(Nodes)
        /\ s.phase[n] \in AllPhases
    BY <1>1, SelfFacts
  <2>2. /\ DecisionOK(s, n, split) /\ ChildrenOK(s, n)
        /\ Lists(s.relaunch, Ready(s)) /\ Lists(s.completed, Elements(s.completed))
        /\ \A m \in Elements(s.completed) : s.phase[m] \in Ops /\ m # s.at
        /\ s.at # NoNode => s.phase[s.at] \in Ops
        /\ s.pos # "loop" => ~Active(s.phase[n])
    BY <2>1 DEF ProcessOK, CompletedOK
  <2> DEFINE at == IF s.at = n THEN 1 ELSE 0
             relaunched == IF n \in Ready(s) THEN 1 ELSE 0
             completed == IF n \in Elements(s.completed) THEN 1 ELSE 0
             pending == IF n \in Pending(p) THEN 1 ELSE 0
             waits == IF s.phase[n] = "run_children" /\ ~ChildrenCompleted(p, n)
                      THEN 1 ELSE 0
  <2>3. Places(p, n) = at + relaunched + completed + pending + waits
    <3>1. Cardinality({i \in DOMAIN s.relaunch : s.relaunch[i] = n}) = relaunched
      BY <2>1, <2>2, ListsOnce
    <3>2. Cardinality({i \in DOMAIN s.completed : s.completed[i] = n}) = completed
      BY <2>1, <2>2, ListsOnce
    <3> QED
      BY <3>1, <3>2 DEF Places, PhaseOf
  <2>4. CASE s.phase[n] \in Ops
    <3>1. relaunched = 0 /\ waits = 0 /\ Active(s.phase[n])
      BY <2>4, PhaseFacts DEF Ready
    <3>2. n \in Pending(p) <=> n # s.at /\ n \notin Elements(s.completed)
      <4>1. DOMAIN s.completed = 1 .. Len(s.completed)
        BY <2>1
      <4> QED
        BY <4>1, <2>4 DEF Pending, PhaseOf, Elements
    <3>3. n \in Elements(s.completed) => n # s.at
      BY <2>2
    <3>4. at + completed + pending = 1
      BY <3>2, <3>3
    <3> HIDE DEF at, relaunched, completed, pending, waits
    <3>5. at + 0 + completed + pending + 0 = 1
      <4>1. at \in Int /\ completed \in Int /\ pending \in Int
        BY DEF at, completed, pending
      <4> QED
        BY <4>1, <3>4
    <3> QED
      BY <2>2, <2>3, <3>1, <3>5 DEF Sharing
  <2>5. CASE s.phase[n] \notin Ops
    <3>1. at = 0 /\ completed = 0 /\ pending = 0
      BY <2>2, <2>5, NodeFacts DEF Pending, PhaseOf
    <3>2. relaunched + waits = IF Active(s.phase[n]) THEN 1 ELSE 0
      <4>1. ChildrenCompleted(p, n) <=> \A c \in ChildrenOf(n) : s.phase[c] = "completed"
        BY DEF ChildrenCompleted, PhaseOf
      <4>2. Active(s.phase[n]) <=> s.phase[n] \in {"to_be_launched", "run_children"}
        BY <2>1, <2>5 DEF Active, AllPhases
      <4> QED
        BY <4>1, <4>2 DEF Ready
    <3> HIDE DEF at, relaunched, completed, pending, waits
    <3>3. 0 + relaunched + 0 + 0 + waits = relaunched + waits
      <4>1. relaunched \in Int /\ waits \in Int
        BY DEF relaunched, waits
      <4> QED
        BY <4>1
    <3> QED
      BY <2>2, <2>3, <3>1, <3>2, <3>3 DEF Sharing
  <2> QED
    BY <2>4, <2>5
<1> QED
  BY <1>1, StartsOK, ClusterInvKept, PTL DEF Spec

-----------------------------------------------------------------------------
(* Tags.                                                                   *)

\* Every tag is one that a process has claimed from its own pool.
Claimed(t, p, next) == Pool * p <= t /\ t < next

TagsInv ==
    /\ \A p \in Ranks : Pool * p <= self[p].next_tag
    /\ \A n \in Nodes : node[n].tag # NoTag =>
          /\ \E p \in Ranks : Claimed(node[n].tag, p, self[p].next_tag)
          /\ \A m \in Nodes \ {n} : node[m].tag # node[n].tag

LEMMA TagsTypes ==
    ASSUME ClusterInv
    PROVE  /\ node \in [Nodes -> NodeType] /\ self \in [Ranks -> ProcessType]
           /\ \A n \in Nodes : node[n].tag \in Int
           /\ \A p \in Ranks : self[p].next_tag \in Nat
BY DEF ClusterInv, Typed, NodeType, ProcessType

LEMMA TagsUniqueFrom ==
    ASSUME ClusterInv, TagsInv, PoolsLast
    PROVE  TagsUnique
<1> SUFFICES ASSUME NEW n \in Nodes, node[n].tag # NoTag
             PROVE  node[n].tag # TagUpperBound
  BY DEF TagsUnique, TagsInv
<1>1. PICK p \in Ranks : Claimed(node[n].tag, p, self[p].next_tag)
  BY DEF TagsInv
<1>2. /\ p \in Nat /\ p + 1 \in Nat /\ Size \in Nat /\ p + 1 <= Size
      /\ self[p].next_tag \in Nat /\ self[p].next_tag <= Pool * (p + 1)
      /\ node[n].tag \in Int
  BY TagsTypes, RanksFacts DEF PoolsLast
<1>3. Pool * (p + 1) <= Pool * Size /\ Pool * (p + 1) \in Nat /\ Pool * Size \in Nat
  BY <1>2, PoolsInOrder
<1>4. Pool * Size <= TagUpperBound /\ TagUpperBound \in Nat
  BY PoolFacts, BergerRigoutsosAssumption
<1> QED
  BY <1>1, <1>2, <1>3, <1>4 DEF Claimed

LEMMA TagsStart ==
    ASSUME Init
    PROVE  TagsInv
<1>1. ClusterInv /\ Ranks \subseteq Nat /\ 0 \in Ranks /\ Roots \in Nat
  BY StartsOK, RanksFacts
<1>2. ASSUME NEW p \in Ranks
      PROVE  /\ Pool * p \in Nat
             /\ self[p].next_tag = Pool * p + (IF p = 0 THEN Roots ELSE 0)
  BY <1>1, PoolsInOrder DEF Init
<1>3. ASSUME NEW n \in Nodes
      PROVE  /\ n[1] \in 1 .. Roots /\ (IsRoot(n) => n = <<n[1]>>)
             /\ node[n].tag = IF IsRoot(n) THEN n[1] - 1 ELSE NoTag
  <2>1. node[n].tag = IF IsRoot(n) THEN n[1] - 1 ELSE NoTag
    BY DEF Init, RootNode, Unset
  <2> QED
    BY <2>1, NodeFacts
<1>4. \A p \in Ranks : Pool * p <= self[p].next_tag
  BY <1>1, <1>2
<1>5. ASSUME NEW n \in Nodes, node[n].tag # NoTag
      PROVE  /\ \E p \in Ranks : Claimed(node[n].tag, p, self[p].next_tag)
             /\ \A m \in Nodes \ {n} : node[m].tag # node[n].tag
  <2>1. IsRoot(n) /\ node[n].tag = n[1] - 1 /\ n[1] \in 1 .. Roots /\ n = <<n[1]>>
    BY <1>3, <1>5
  <2>2. Pool * 0 = 0
    BY PoolFacts
  <2>3. self[0].next_tag = Roots
    BY <2>2, <1>1, <1>2
  <2>4. Claimed(node[n].tag, 0, self[0].next_tag)
    BY <2>1, <2>2, <2>3, <1>1 DEF Claimed
  <2>5. ASSUME NEW m \in Nodes \ {n} PROVE node[m].tag # node[n].tag
    <3>1. CASE IsRoot(m)
      <4>1. m = <<m[1]>> /\ m[1] \in 1 .. Roots /\ node[m].tag = m[1] - 1
        BY <3>1, <1>3
      <4>2. m[1] # n[1]
        BY <4>1, <2>1
      <4> QED
        BY <4>1, <4>2, <2>1, <1>1
    <3>2. CASE ~IsRoot(m)
      BY <3>2, <1>3, <1>5
    <3> QED
      BY <3>1, <3>2
  <2> QED
    BY <2>4, <2>5, <1>1
<1> QED
  BY <1>4, <1>5 DEF TagsInv

\* Where no tag is claimed.
LEMMA TagsStay ==
    ASSUME ClusterInv, TagsInv, NEW p \in Ranks, NEW v, Step(p, v),
           v.next_tag = self[p].next_tag,
           \A n \in Nodes : node'[n].tag = node[n].tag
    PROVE  TagsInv'
<1>1. \A q \in Ranks : self'[q].next_tag = self[q].next_tag
  BY TagsTypes DEF Step
<1> QED
  BY <1>1 DEF TagsInv

Fields == {"pos", "at", "relaunch", "completed", "phase", "acceptance", "told",
           "boxes", "computed", "next_tag", "received"}

LEMMA FinishTakesNoTag ==
    ASSUME NEW p, NEW n, NEW s, DOMAIN s = Fields
    PROVE  /\ Finish(p, s, n).next_tag = s.next_tag
           /\ Complete(s, n).next_tag = s.next_tag
           /\ Leave(s).next_tag = s.next_tag
<1>1. Leave(s).next_tag = s.next_tag
  BY DEF Leave, Fields
<1>2. ASSUME NEW t, DOMAIN t = Fields
      PROVE  Complete(t, n).next_tag = t.next_tag
  BY <1>2 DEF Complete, Leave, Fields
<1> DEFINE t == IF IsRoot(n) /\ Accepted(s.acceptance[n])
                THEN computeNewNeighborhoodSets(s, n) ELSE s
<1>3. DOMAIN t = Fields /\ t.next_tag = s.next_tag
  BY DEF computeNewNeighborhoodSets, Fields
<1>4. Finish(p, s, n) =
        IF HasDropouts(n) /\ InDropoutGroup(p, n)
        THEN [t EXCEPT !.phase[n] = "bcast_to_dropouts",
                       !.told[n] = IF IsOwner(p, n) THEN s.acceptance[n] ELSE @]
        ELSE Complete(t, n)
  BY DEF Finish
<1> HIDE DEF t
<1>5. [t EXCEPT !.phase[n] = "bcast_to_dropouts",
                !.told[n] = IF IsOwner(p, n) THEN s.acceptance[n] ELSE @].next_tag = t.next_tag
  BY <1>3 DEF Fields
<1> QED
  BY <1>1, <1>2, <1>3, <1>4, <1>5

LEMMA ProcessFields ==
    ASSUME NEW s \in ProcessType
    PROVE  DOMAIN s = Fields
BY DEF ProcessType, Fields

LEMMA WorkTakesNoTag ==
    ASSUME ClusterInv, TagsInv, NEW p \in Ranks, NEW n \in Nodes,
           \/ toBeLaunched(p, n)
           \/ Unfinished(p, n)
           \/ broadcastAcceptability_check(p, n)
           \/ gatherGroupingCriteria_check(p, n)
           \/ broadcastChildGroups_check(p, n)
           \/ runChildren_check(p, n)
           \/ broadcastToDropouts_check(p, n)
    PROVE  TagsInv'
<1> DEFINE u == Popped(p)
<1>1. Current(p) = n
  BY DEF toBeLaunched, Unfinished, broadcastAcceptability_check,
         gatherGroupingCriteria_check, broadcastChildGroups_check,
         runChildren_check, broadcastToDropouts_check, Continuing
<1>2. u \in ProcessType /\ DOMAIN u = Fields /\ u.next_tag = self[p].next_tag
  BY <1>1, Takes, ProcessFields DEF Taken
<1>3. ASSUME NEW s, DOMAIN s = Fields, s.next_tag = self[p].next_tag, NEW v,
             v \in {s, Finish(p, s, n), Complete(s, n), Leave(s)},
             Step(p, v), \A m \in Nodes : node'[m].tag = node[m].tag
      PROVE  TagsInv'
  <2>1. v.next_tag = self[p].next_tag
    BY <1>3, FinishTakesNoTag
  <2> QED
    BY <2>1, <1>3, TagsStay
<1>4. UNCHANGED node => \A m \in Nodes : node'[m].tag = node[m].tag
  OBVIOUS
<1>5. CASE toBeLaunched(p, n)
  <2>1. LET v == [u EXCEPT !.phase[n] = "reduce_histogram"]
        IN  DOMAIN v = Fields /\ v.next_tag = u.next_tag
    BY <1>2 DEF Fields
  <2>2. /\ Step(p, IF Participates(p, n)
                   THEN [u EXCEPT !.phase[n] = "reduce_histogram"] ELSE Finish(p, u, n))
        /\ UNCHANGED node
    BY <1>5 DEF toBeLaunched
  <2> HIDE DEF u
  <2> QED
    BY <2>1, <2>2, <1>2, <1>3, <1>4
<1>6. CASE Unfinished(p, n)
  BY <1>2, <1>3, <1>4, <1>6 DEF Unfinished
<1>7. CASE broadcastAcceptability_check(p, n)
  <2> DEFINE a == IF IsOwner(p, n) THEN self[p].acceptance[n] ELSE Remote(Decision(n))
             s == [u EXCEPT !.acceptance[n] = a]
             v == [CreatedChildren(s, n) EXCEPT !.phase[n] = "gather_grouping_criteria"]
  <2>1. Step(p, IF Rejected(a) THEN v ELSE Finish(p, s, n)) /\ UNCHANGED node
    BY <1>7 DEF broadcastAcceptability_check
  <2> HIDE DEF a, u
  <2>3. DOMAIN s = Fields /\ s.next_tag = u.next_tag
    BY <1>2 DEF Fields
  <2> HIDE DEF s
  <2>4. v.next_tag = s.next_tag
    BY <2>3 DEF CreatedChildren, Fields
  <2>5. CASE Rejected(a)
    BY <2>1, <2>3, <2>4, <2>5, <1>2, <1>4, TagsStay
  <2>6. CASE ~Rejected(a)
    BY <2>1, <2>3, <2>6, <1>2, <1>3, <1>4
  <2> QED
    BY <2>5, <2>6
<1>8. CASE gatherGroupingCriteria_check(p, n)
  <2> DEFINE v == [u EXCEPT !.phase[n] = "bcast_child_groups"]
  <2>1. Step(p, v) /\ (formChildGroups(p, n) \/ UNCHANGED node)
    BY <1>8 DEF gatherGroupingCriteria_check
  <2>2. \A m \in Nodes : node'[m].tag = node[m].tag
    <3>1. CASE formChildGroups(p, n)
      <4> DEFINE a == Lft(n)
                 b == Rht(n)
                 ga == ChildGroup(p, n, a)
                 gb == ChildGroup(p, n, b)
      <4>1. PICK x \in ChildOwners(p, n, a), y \in ChildOwners(p, n, b) :
              node' = [node EXCEPT ![a].owner = x, ![a].group = ga,
                                   ![b].owner = y, ![b].group = gb]
        BY <3>1 DEF formChildGroups
      <4> HIDE DEF a, b, ga, gb
      <4>2. PICK nn : nn = [node EXCEPT ![a].owner = x, ![a].group = ga]
        OBVIOUS
      <4>3. node' = [nn EXCEPT ![b].owner = y, ![b].group = gb]
        BY <4>1, <4>2
      <4>4. \A m \in Nodes : nn[m].tag = node[m].tag /\ DOMAIN nn[m] = DOMAIN node[m]
        BY <4>2, TagsTypes DEF NodeType
      <4>5. DOMAIN nn = Nodes
        BY <4>2, TagsTypes
      <4>6. \A m \in Nodes : node'[m].tag = nn[m].tag
        BY <4>3, <4>4, <4>5, TagsTypes DEF NodeType
      <4> QED
        BY <4>4, <4>6
    <3> QED
      BY <3>1, <2>1
  <2> HIDE DEF u
  <2>3. v.next_tag = u.next_tag
    BY <1>2 DEF Fields
  <2> QED
    BY <2>1, <2>2, <2>3, <1>2, TagsStay
<1>9. CASE broadcastChildGroups_check(p, n)
  <2>1. PICK v :
          /\ v = Leave([u EXCEPT !.phase[n] = "run_children",
                                 !.phase[Lft(n)] = "to_be_launched",
                                 !.phase[Rht(n)] = "to_be_launched",
                                 !.relaunch = <<Lft(n), Rht(n)>> \o @])
          /\ Step(p, v) /\ UNCHANGED node
    BY <1>9 DEF broadcastChildGroups_check
  <2> HIDE DEF u
  <2>2. v.next_tag = u.next_tag
    BY <2>1, <1>2 DEF Leave, Fields
  <2> QED
    BY <2>1, <2>2, <1>2, <1>4, TagsStay
<1>10. CASE runChildren_check(p, n)
  <2> DEFINE s == IF Recombines(self[p], n) THEN Recombined(p, u, n) ELSE Kept(p, u, n)
             w == DeletedChildren(s, n)
  <2>1. /\ Step(p, IF ChildrenCompleted(p, n) THEN Finish(p, w, n) ELSE Leave(u))
        /\ UNCHANGED node
    BY <1>10 DEF runChildren_check
  <2> HIDE DEF u
  <2>2. DOMAIN s = DOMAIN u /\ s.next_tag = u.next_tag
    <3>1. /\ DOMAIN Recombined(p, u, n) = DOMAIN u
          /\ Recombined(p, u, n).next_tag = u.next_tag
      BY <1>2 DEF Recombined, Fields
    <3>2. DOMAIN Kept(p, u, n) = DOMAIN u /\ Kept(p, u, n).next_tag = u.next_tag
      BY <1>2 DEF Kept, Fields
    <3> QED
      BY <3>1, <3>2
  <2> HIDE DEF s
  <2>3. DOMAIN w = DOMAIN u /\ w.next_tag = u.next_tag
    BY <2>2, <1>2 DEF DeletedChildren, Fields
  <2> HIDE DEF w
  <2> QED
    BY <2>1, <2>3, <1>2, <1>3, <1>4
<1>11. CASE broadcastToDropouts_check(p, n)
  <2> DEFINE a == FromDropoutBcast(self[node[n].owner].told[n])
             s == IF IsOwner(p, n) THEN u ELSE [u EXCEPT !.acceptance[n] = a]
  <2>1. Step(p, Complete(s, n)) /\ UNCHANGED node
    BY <1>11 DEF broadcastToDropouts_check
  <2> HIDE DEF u, a
  <2>2. s.next_tag = u.next_tag /\ DOMAIN s = DOMAIN u
    BY <1>2 DEF Fields
  <2> HIDE DEF s
  <2> QED
    BY <2>1, <2>2, <1>2, <1>3, <1>4
<1> QED
  BY <1>5, <1>6, <1>7, <1>8, <1>9, <1>10, <1>11

\* The owner that splits a node claims the next two tags of its pool.
LEMMA HistogramTags ==
    ASSUME ClusterInv, TagsInv, PoolsLast', ClusterInv',
           NEW p \in Ranks, NEW n \in Nodes, reduceHistogram_check(p, n)
    PROVE  TagsInv'
<1> DEFINE u == Popped(p)
           t == self[p].next_tag
           s == [u EXCEPT !.acceptance[n] = Decision(n),
                          !.boxes = IF n \in input.untagged THEN @ ELSE @ \cup {n},
                          !.phase[n] = "bcast_acceptability"]
           w == [s EXCEPT !.next_tag = NextTag(NextTag(t))]
           v == [u EXCEPT !.phase[n] = "bcast_acceptability"]
<1>1. Current(p) = n
  BY DEF reduceHistogram_check, Continuing
<1>2. DOMAIN u = Fields /\ u.next_tag = self[p].next_tag
  BY <1>1, Takes, ProcessFields DEF Taken
<1>3. \/ n \in input.split /\ Step(p, CreatedChildren(w, n))
         /\ node' = [node EXCEPT ![Lft(n)].tag = t, ![Rht(n)].tag = NextTag(t)]
      \/ Step(p, s) /\ UNCHANGED node
      \/ Step(p, v) /\ UNCHANGED node
  BY DEF reduceHistogram_check, acceptOrSplitBox
<1> HIDE DEF u
<1>4. v.next_tag = u.next_tag /\ s.next_tag = u.next_tag /\ DOMAIN s = Fields
  BY <1>2 DEF Fields
<1>5. CASE Step(p, s) /\ UNCHANGED node
  <2> HIDE DEF s
  <2> QED
    BY <1>2, <1>4, <1>5, TagsStay
<1>6. CASE Step(p, v) /\ UNCHANGED node
  <2> HIDE DEF v
  <2> QED
    BY <1>2, <1>4, <1>6, TagsStay
<1>7. CASE n \in input.split /\ Step(p, CreatedChildren(w, n))
           /\ node' = [node EXCEPT ![Lft(n)].tag = t, ![Rht(n)].tag = NextTag(t)]
  <2> HIDE DEF s
  <2>1. CreatedChildren(w, n).next_tag = NextTag(NextTag(t))
    BY <1>4 DEF CreatedChildren, Fields
  <2>2. /\ t \in Nat /\ NextTag(t) = t + 1 /\ NextTag(NextTag(t)) = t + 2
        /\ p \in Nat /\ Pool * p \in Nat /\ Pool * p <= t
        /\ node \in [Nodes -> NodeType] /\ self \in [Ranks -> ProcessType]
    <3>1. t \in Nat /\ p \in Nat
      BY TagsTypes, RanksFacts
    <3>2. Pool * p \in Nat /\ Pool * p <= t
      BY <3>1, PoolsInOrder DEF TagsInv
    <3>3. PICK k \in Nat : k = t
      BY <3>1
    <3>4. NextTag(k) = k + 1 /\ NextTag(NextTag(k)) = k + 2
      BY DEF NextTag
    <3> QED
      BY <3>1, <3>2, <3>3, <3>4, TagsTypes
  <2>3. /\ self'[p].next_tag = t + 2
        /\ \A q \in Ranks \ {p} : self'[q].next_tag = self[q].next_tag
    BY <2>1, <2>2, <1>7 DEF Step
  <2> HIDE DEF t
  <2>4. t = self[p].next_tag /\ t + 2 <= Pool * (p + 1) /\ Pool * (p + 1) \in Nat
    BY <2>2, <2>3, PoolsInOrder DEF PoolsLast, t
  <2>5. PICK a, b : a = Lft(n) /\ b = Rht(n)
    OBVIOUS
  <2>6. a # b /\ a \in Nodes /\ b \in Nodes
    <3>1. n \in Seq(Nat) /\ Len(n) >= 1
      BY NodeFacts
    <3>2. input \in Inputs
      BY DEF ClusterInv, Typed
    <3> QED
      BY <3>1, <3>2, <2>5, <1>7, BelowFacts, HalvesFacts
  <2>7. /\ node'[a].tag = t /\ node'[b].tag = t + 1
        /\ \A m \in Nodes \ {a, b} : node'[m].tag = node[m].tag
    <3>1. node' = [node EXCEPT ![a].tag = t, ![b].tag = t + 1]
      BY <1>7, <2>2, <2>5
    <3> QED
      BY <3>1, <2>2, <2>6 DEF NodeType
  <2>8. \A q \in Ranks : Pool * q <= self'[q].next_tag
    <3> TAKE q \in Ranks
    <3>1. CASE q = p
      BY <3>1, <2>2, <2>3
    <3>2. CASE q # p
      BY <3>2, <2>3 DEF TagsInv
    <3> QED
      BY <3>1, <3>2
  <2>9. Claimed(t, p, t + 2) /\ Claimed(t + 1, p, t + 2)
    BY <2>2 DEF Claimed
  \* A tag there was is neither of the new ones.
  <2>10. ASSUME NEW m \in Nodes, node[m].tag # NoTag
         PROVE  node[m].tag # t /\ node[m].tag # t + 1
    <3>1. PICK q \in Ranks : Claimed(node[m].tag, q, self[q].next_tag)
      BY <2>10 DEF TagsInv
    <3>2. node[m].tag \in Int
      BY TagsTypes
    <3>3. CASE q = p
      BY <3>1, <3>2, <3>3, <2>2, <2>4 DEF Claimed
    <3>4. CASE q # p
      <4>1. q \in Nat /\ self[q].next_tag <= Pool * (q + 1) /\ self[q].next_tag \in Nat
        BY <3>4, <2>3, TagsTypes, RanksFacts DEF PoolsLast
      <4>2. /\ Pool * q \in Nat /\ Pool * (q + 1) \in Nat
            /\ q + 1 <= p => Pool * (q + 1) <= Pool * p
            /\ p + 1 <= q => Pool * (p + 1) <= Pool * q
        BY <4>1, <2>2, PoolsInOrder
      <4>3. q + 1 <= p \/ p + 1 <= q
        BY <4>1, <3>4, <2>2
      <4> QED
        BY <4>1, <4>2, <4>3, <3>1, <3>2, <2>2, <2>4 DEF Claimed
    <3> QED
      BY <3>3, <3>4
  <2>11. ASSUME NEW m \in Nodes, node'[m].tag # NoTag
         PROVE  /\ \E q \in Ranks : Claimed(node'[m].tag, q, self'[q].next_tag)
                /\ \A k \in Nodes \ {m} : node'[k].tag # node'[m].tag
    <3>1. CASE m \in {a, b}
      <4>1. Claimed(node'[m].tag, p, self'[p].next_tag)
        BY <3>1, <2>3, <2>7, <2>9
      <4>2. ASSUME NEW k \in Nodes \ {m} PROVE node'[k].tag # node'[m].tag
        <5>1. CASE k \in {a, b}
          BY <5>1, <3>1, <2>2, <2>7
        <5>2. CASE k \notin {a, b}
          BY <5>2, <3>1, <2>7, <2>10, <2>11
        <5> QED
          BY <5>1, <5>2
      <4> QED
        BY <4>1, <4>2
    <3>2. CASE m \notin {a, b}
      <4>1. node'[m].tag = node[m].tag /\ node[m].tag # NoTag
        BY <3>2, <2>7, <2>11
      <4>2. PICK q \in Ranks : Claimed(node[m].tag, q, self[q].next_tag)
        BY <4>1 DEF TagsInv
      <4>3. Claimed(node[m].tag, q, self'[q].next_tag)
        <5>1. CASE q = p
          BY <5>1, <4>2, <2>2, <2>3, <2>4, TagsTypes DEF Claimed
        <5>2. CASE q # p
          BY <5>2, <4>2, <2>3
        <5> QED
          BY <5>1, <5>2
      <4>4. ASSUME NEW k \in Nodes \ {m} PROVE node'[k].tag # node[m].tag
        <5>1. CASE k \in {a, b}
          BY <5>1, <4>1, <2>7, <2>10
        <5>2. CASE k \notin {a, b}
          BY <5>2, <4>1, <2>7 DEF TagsInv
        <5> QED
          BY <5>1, <5>2
      <4> QED
        BY <4>1, <4>3, <4>4
    <3> QED
      BY <3>1, <3>2
  <2> QED
    BY <2>8, <2>11 DEF TagsInv
<1> QED
  BY <1>3, <1>5, <1>6, <1>7

LEMMA TagsKept ==
    ASSUME ClusterInv, TagsInv, PoolsLast', [Next]_vars
    PROVE  TagsInv'
<1>1. ClusterInv'
  BY ClusterInvKept
<1>2. CASE UNCHANGED vars
  BY <1>2 DEF vars, TagsInv
<1>3. ASSUME NEW p \in Ranks, NEW n \in Nodes, continueAlgorithm(p, n)
      PROVE  TagsInv'
  BY <1>1, <1>3, WorkTakesNoTag, HistogramTags DEF continueAlgorithm
<1>4. ASSUME NEW p \in Ranks, NEW v, Step(p, v), UNCHANGED node,
             v.next_tag = self[p].next_tag
      PROVE  TagsInv'
  BY <1>4, TagsStay
<1>5. ASSUME NEW p \in Ranks,
             \/ advanceSome(p) \/ LoopEnds(p) \/ Barrier(p)
             \/ ReceiveRelationships(p) \/ ShareEnds(p)
      PROVE  TagsInv'
  <2>1. DOMAIN self[p] = Fields
    BY SelfFacts, ProcessFields
  <2>2. \A x : /\ [self[p] EXCEPT !.completed = x].next_tag = self[p].next_tag
               /\ [self[p] EXCEPT !.pos = x].next_tag = self[p].next_tag
               /\ [self[p] EXCEPT !.received = x].next_tag = self[p].next_tag
    BY <2>1 DEF Fields
  <2>3. CASE advanceSome(p)
    <3>1. PICK S \in SUBSET Pending(p) :
             \E q \in Orders(S) : Step(p, [self[p] EXCEPT !.completed = q])
      BY <2>3 DEF advanceSome
    <3>2. PICK q \in Orders(S) : Step(p, [self[p] EXCEPT !.completed = q])
      BY <3>1
    <3> QED
      BY <3>2, <2>2, <2>3, <1>4 DEF advanceSome
  <2>4. CASE LoopEnds(p) \/ Barrier(p) \/ ShareEnds(p)
    BY <2>2, <2>4, <1>4 DEF LoopEnds, Barrier, ShareEnds
  <2>5. CASE ReceiveRelationships(p)
    <3>1. PICK q \in Incoming(p) : Step(p, [self[p] EXCEPT !.received = @ \cup {q}])
      BY <2>5 DEF ReceiveRelationships
    <3>2. [self[p] EXCEPT !.received = @ \cup {q}].next_tag = self[p].next_tag
      BY <2>2
    <3> QED
      BY <3>1, <3>2, <2>5, <1>4 DEF ReceiveRelationships
  <2> QED
    BY <1>5, <2>3, <2>4, <2>5
<1> QED
  BY <1>2, <1>3, <1>5 DEF Next, Progress, Terminated

(***************************************************************************)
(* MPI tags: as long as no process has claimed more tags than its pool     *)
(* holds, no two nodes have the same one, whoever created them and in      *)
(* whatever order, and none has the tag of the relationship messages.      *)
(***************************************************************************)
THEOREM TagsAreUnique == Spec /\ []PoolsLast => []TagsUnique
BY StartsOK, ClusterInvKept, TagsStart, TagsKept, TagsUniqueFrom, PTL DEF Spec

-----------------------------------------------------------------------------
(* The boxes to be found.                                                  *)

LEMMA PrefixFacts ==
    ASSUME NEW m \in Seq(Nat), NEW k \in 1 .. Len(m)
    PROVE  /\ SubSeq(m, 1, k) \in Seq(Nat) /\ Len(SubSeq(m, 1, k)) = k
           /\ \A j \in 1 .. k : SubSeq(SubSeq(m, 1, k), 1, j) = SubSeq(m, 1, j)
           /\ k = Len(m) => SubSeq(m, 1, k) = m
<1>1. \A i \in 1 .. Len(m) : m[i] \in Nat
  OBVIOUS
<1>2. ASSUME NEW S \in Seq(Nat), NEW j \in 1 .. Len(S)
      PROVE  /\ SubSeq(S, 1, j) \in Seq(Nat) /\ Len(SubSeq(S, 1, j)) = j
             /\ \A i \in 1 .. j : SubSeq(S, 1, j)[i] = S[i]
  <2>1. \A i \in 1 .. j : S[i] \in Nat
    OBVIOUS
  <2>2. /\ SubSeq(S, 1, j) \in Seq(Nat)
        /\ Len(SubSeq(S, 1, j)) = IF 1 <= j THEN j - 1 + 1 ELSE 0
        /\ \A i \in 1 .. j - 1 + 1 : SubSeq(S, 1, j)[i] = S[1 + i - 1]
    BY <2>1, SubSeqProperties
  <2>3. j \in Nat /\ 1 <= j
    OBVIOUS
  <2> QED
    BY <2>2, <2>3
<1> DEFINE p == SubSeq(m, 1, k)
<1>3. p \in Seq(Nat) /\ Len(p) = k /\ \A i \in 1 .. k : p[i] = m[i]
  BY <1>2
<1> HIDE DEF p
<1>4. ASSUME NEW j \in 1 .. k PROVE SubSeq(p, 1, j) = SubSeq(m, 1, j)
  <2>1. j \in 1 .. Len(p) /\ j \in 1 .. Len(m)
    BY <1>3
  <2>2. /\ SubSeq(p, 1, j) \in Seq(Nat) /\ Len(SubSeq(p, 1, j)) = j
        /\ \A i \in 1 .. j : SubSeq(p, 1, j)[i] = p[i]
    BY <1>2, <1>3, <2>1
  <2>3. /\ SubSeq(m, 1, j) \in Seq(Nat) /\ Len(SubSeq(m, 1, j)) = j
        /\ \A i \in 1 .. j : SubSeq(m, 1, j)[i] = m[i]
    BY <1>2, <2>1
  <2>4. \A i \in 1 .. j : SubSeq(p, 1, j)[i] = SubSeq(m, 1, j)[i]
    BY <2>2, <2>3, <1>3
  <2> QED
    BY <2>2, <2>3, <2>4, SeqEqual
<1>5. ASSUME k = Len(m) PROVE p = m
  BY <1>3, <1>5, SeqEqual
<1> QED
  BY <1>3, <1>4, <1>5 DEF p

LEMMA ReachedBelow ==
    ASSUME NEW n \in Nodes, NEW c \in ChildrenOf(n), c \in Nodes
    PROVE  Reached(c) <=> Reached(n) /\ n \in input.split
<1>1. n \in Seq(Nat) /\ Len(n) \in Nat /\ Len(n) >= 1 /\ c \in Seq(Nat)
  BY NodeFacts
<1>2. Len(c) = Len(n) + 1 /\ SubSeq(c, 1, Len(n)) = n
  <2>1. Len(c) = Len(n) + 1 /\ ParentOf(c) = n
    BY <1>1, BelowFacts
  <2>2. Len(n) + 1 - 1 = Len(n)
    BY <1>1
  <2> QED
    BY <2>1, <2>2 DEF ParentOf
<1>3. Len(n) \in 1 .. Len(c) /\ Len(c) - 1 = Len(n)
  BY <1>1, <1>2
<1>4. \A k \in 1 .. Len(n) : SubSeq(n, 1, k) = SubSeq(c, 1, k)
  BY <1>1, <1>2, <1>3, PrefixFacts
<1>5. Reached(c) <=> \A k \in 1 .. Len(n) : SubSeq(n, 1, k) \in input.split
  BY <1>3, <1>4 DEF Reached
<1>6. \A k \in 1 .. Len(n) : k = Len(n) \/ k \in 1 .. Len(n) - 1
  BY <1>1
<1>7. SubSeq(n, 1, Len(n)) = n /\ Len(n) \in 1 .. Len(n)
      /\ \A k \in 1 .. Len(n) - 1 : k \in 1 .. Len(n)
  BY <1>1, PrefixFacts
<1> QED
  BY <1>5, <1>6, <1>7 DEF Reached

LEMMA UntaggedFacts ==
    ASSUME input \in Inputs, NEW n \in input.untagged
    PROVE  n \notin input.split /\ (n \in Nodes => IsRoot(n))
<1>1. input.untagged \subseteq {<<r>> : r \in 1 .. Roots} \ input.split
  BY BergerRigoutsosAssumption, Zenon
<1>2. PICK r \in 1 .. Roots : n = <<r>>
  BY <1>1
<1>3. Len(n) = 1
  BY <1>2
<1> QED
  BY <1>1, <1>3 DEF IsRoot

\* A box that is not split is whole when it has tags.
LEMMA WholeLeaf ==
    ASSUME input \in Inputs, NEW n \in Nodes, n \notin input.split
    PROVE  Whole(n) <=> n \notin input.untagged
<1> SUFFICES ASSUME NEW m \in input.split, Within(m, n), Reached(m)
             PROVE  FALSE
  BY DEF Whole
<1>1. m \in Nodes
  BY InputFacts
<1>2. m \in Seq(Nat) /\ Len(m) \in Nat /\ n \in Seq(Nat) /\ Len(n) \in Nat /\ Len(n) >= 1
  BY <1>1, NodeFacts
<1>3. Len(n) <= Len(m) /\ SubSeq(m, 1, Len(n)) = n
  BY DEF Within
<1>4. CASE Len(n) = Len(m)
  <2>1. SubSeq(m, 1, Len(m)) = m
    <3>1. Len(m) \in 1 .. Len(m)
      BY <1>2, <1>4
    <3> QED
      BY <1>2, <3>1, PrefixFacts
  <2> QED
    BY <2>1, <1>3, <1>4
<1>5. CASE Len(n) < Len(m)
  <2>1. Len(n) \in 1 .. Len(m) - 1
    BY <1>2, <1>5
  <2> QED
    BY <2>1, <1>3 DEF Reached
<1> QED
  BY <1>2, <1>3, <1>4, <1>5

\* One that is split is when its halves are, and do not reduce it enough.
LEMMA WholeSplit ==
    ASSUME input \in Inputs, NEW n \in input.split, Reached(n)
    PROVE  Whole(n) <=> n \in input.small_gain /\ \A c \in ChildrenOf(n) : Whole(c)
<1>1. n \in Nodes /\ ChildrenOf(n) \subseteq Nodes
  BY HalvesFacts DEF ChildrenOf
<1>2. n \in Seq(Nat) /\ Len(n) \in Nat /\ Len(n) >= 1
  BY <1>1, NodeFacts
<1>3. ASSUME NEW c \in ChildrenOf(n)
      PROVE  /\ c \in Seq(Nat) /\ Len(c) = Len(n) + 1 /\ SubSeq(c, 1, Len(n)) = n
             /\ ~IsRoot(c) /\ c \in Nodes
  <2>1. Len(c) = Len(n) + 1 /\ ParentOf(c) = n /\ ~IsRoot(c) /\ c \in Nodes /\ c \in Seq(Nat)
    BY <1>1, <1>2, BelowFacts, NodeFacts
  <2>2. Len(n) + 1 - 1 = Len(n)
    BY <1>2
  <2> QED
    BY <2>1, <2>2 DEF ParentOf
<1>4. ASSUME Whole(n) PROVE n \in input.small_gain
  <2>1. SubSeq(n, 1, Len(n)) = n
    <3>1. Len(n) \in 1 .. Len(n)
      BY <1>2
    <3> QED
      BY <3>1, <1>2, PrefixFacts
  <2>2. Within(n, n)
    BY <2>1, <1>2 DEF Within
  <2> QED
    BY <2>2, <1>4 DEF Whole
<1>5. ASSUME Whole(n), NEW c \in ChildrenOf(n) PROVE Whole(c)
  <2>1. c \notin input.untagged
    BY <1>3, UntaggedFacts
  <2>2. ASSUME NEW m \in input.split, Within(m, c) PROVE Within(m, n)
    <3>1. m \in Seq(Nat) /\ Len(m) \in Nat
      BY InputFacts, NodeFacts
    <3>2. Len(c) <= Len(m) /\ SubSeq(m, 1, Len(c)) = c
      BY <2>2 DEF Within
    <3>3. Len(c) \in 1 .. Len(m) /\ Len(n) \in 1 .. Len(c) /\ Len(n) <= Len(m)
      BY <1>2, <1>3, <3>1, <3>2
    <3>4. SubSeq(SubSeq(m, 1, Len(c)), 1, Len(n)) = SubSeq(m, 1, Len(n))
      BY <3>1, <3>3, PrefixFacts
    <3> QED
      BY <3>2, <3>3, <3>4, <1>3 DEF Within
  <2> QED
    BY <2>1, <2>2, <1>5 DEF Whole
<1>6. ASSUME n \in input.small_gain, \A c \in ChildrenOf(n) : Whole(c) PROVE Whole(n)
  <2>1. n \notin input.untagged
    BY UntaggedFacts
  <2>2. ASSUME NEW m \in input.split, Within(m, n), Reached(m), m # n
        PROVE  m \in input.small_gain
    <3>1. m \in Nodes /\ m \in Seq(Nat) /\ Len(m) \in Nat
      BY InputFacts, NodeFacts
    <3>2. Len(n) <= Len(m) /\ SubSeq(m, 1, Len(n)) = n
      BY <2>2 DEF Within
    <3>3. Len(n) # Len(m)
      <4> SUFFICES ASSUME Len(n) = Len(m) PROVE FALSE
        OBVIOUS
      <4>1. Len(m) \in 1 .. Len(m)
        BY <1>2, <3>1
      <4> QED
        BY <4>1, <3>1, <3>2, <2>2, PrefixFacts
    <3>4. PICK j : j = Len(n) + 1
      OBVIOUS
    <3>5. /\ j \in 1 .. Len(m) /\ j \in Nat /\ j > 1 /\ j - 1 = Len(n)
          /\ Len(n) \in 1 .. j
      BY <3>1, <3>2, <3>3, <3>4, <1>2
    <3>6. PICK c : c = SubSeq(m, 1, j)
      OBVIOUS
    <3>7. /\ c \in Seq(Nat) /\ Len(c) = j /\ SubSeq(c, 1, Len(n)) = SubSeq(m, 1, Len(n))
          /\ (j = Len(m) => c = m)
      BY <3>1, <3>5, <3>6, PrefixFacts
    <3>8. c \in Nodes
      <4>1. CASE j = Len(m)
        BY <4>1, <3>1, <3>7
      <4>2. CASE j # Len(m)
        <5>1. j \in 1 .. Len(m) - 1
          BY <4>2, <3>1, <3>5
        <5>2. c \in input.split
          BY <5>1, <3>6, <2>2 DEF Reached
        <5> QED
          BY <5>2, InputFacts
      <4> QED
        BY <4>1, <4>2
    <3>9. ~IsRoot(c) /\ ParentOf(c) = n
      BY <3>2, <3>5, <3>7 DEF IsRoot, ParentOf
    <3>10. c \in ChildrenOf(n)
      BY <3>8, <3>9, <1>1, ChildrenAreIt DEF IsChild
    <3>11. Within(m, c)
      BY <3>1, <3>5, <3>6, <3>7 DEF Within
    <3> QED
      BY <3>10, <3>11, <1>6, <2>2 DEF Whole
  <2> QED
    BY <2>1, <2>2, <1>6 DEF Whole
<1> QED
  BY <1>4, <1>5, <1>6

-----------------------------------------------------------------------------
(* What a process knows of a node n, in its state s, by the phase it is in *)
(* and whether it is in the group of the node.                             *)

Ended == {"bcast_to_dropouts", "completed"}
Splitting == {"gather_grouping_criteria", "bcast_child_groups", "run_children"}
Unsettled == {"none", "for_data_only", "to_be_launched", "reduce_histogram"}

Started(ph) == ph \notin {"none", "for_data_only"}
Gone(ph) == ph \in Ended \cup {"deallocated"}

PhaseOK(s, p, n) ==
    /\ s.phase[n] # "none" => Reached(n)
    /\ IsRoot(n) => Started(s.phase[n]) /\ s.phase[n] # "deallocated"
    /\ Started(s.phase[n]) /\ ~IsRoot(n) => Participates(p, ParentOf(n))
    /\ s.phase[n] \in InGroupOps \cup {"run_children"} => Participates(p, n)
    /\ s.phase[n] = "bcast_to_dropouts" =>
          HasDropouts(n) /\ (Participates(p, n) => IsOwner(p, n))

\* The halves of a box are deallocated by its group.
HalfOK(s, p, n) ==
    ~IsRoot(n) =>
        (s.phase[n] = "deallocated" <=>
            /\ ParentOf(n) \in input.split
            /\ Participates(p, ParentOf(n))
            /\ Gone(s.phase[ParentOf(n)]))

\* A member's final acceptance of a node.
Settled(a, n) ==
    /\ a \in {hasnotag_by_owner, rejected_by_calculation, accepted_by_calculation,
              Remote(rejected_by_calculation), Remote(accepted_by_calculation),
              accepted_by_recombination}
    /\ IsRoot(n) \/ a # hasnotag_by_owner
    /\ Accepted(a) <=> Whole(n)

AcceptanceOK(s, p, n) ==
    LET ph == s.phase[n]
        a  == s.acceptance[n]
    IN  /\ ph \in Unsettled \cup {"deallocated"} => a = undetermined
        /\ ph = "bcast_acceptability" =>
              a = IF IsOwner(p, n) THEN Decision(n) ELSE undetermined
        /\ ph \in Splitting =>
              /\ n \in input.split
              /\ a \in {rejected_by_calculation, Remote(rejected_by_calculation)}
        /\ ph \in Ended /\ Participates(p, n) => Settled(a, n)
        /\ ph = "completed" /\ ~Participates(p, n) =>
              a = IF Whole(n) THEN accepted_by_dropout_bcast ELSE rejected_by_dropout_bcast

ToldOK(s, p, n) ==
    IsOwner(p, n) /\ HasDropouts(n) /\ Gone(s.phase[n]) => Settled(s.told[n], n)

BoxesOK(s, p, n) ==
    n \in s.boxes <=>
        /\ IsOwner(p, n) /\ n \notin input.untagged
        /\ \/ s.phase[n] \in {"bcast_acceptability"} \cup Splitting
           \/ s.phase[n] \in Ended /\ Whole(n)
           \/ s.phase[n] = "deallocated" /\ Whole(n) /\ ~Whole(ParentOf(n))

ComputedOK(s, p, n) ==
    n \in s.computed <=>
        /\ Participates(p, n) /\ Whole(n)
        /\ \/ IsRoot(n) /\ s.phase[n] = "completed"
           \/ s.phase[n] = "deallocated" /\ ~Whole(ParentOf(n))

NodeOK(s, p, n) ==
    /\ PhaseOK(s, p, n)
    /\ AcceptanceOK(s, p, n)
    /\ ToldOK(s, p, n)
    /\ BoxesOK(s, p, n)
    /\ ComputedOK(s, p, n)

KnowsAll(s, p) == \A n \in Nodes : NodeOK(s, p, n) /\ HalfOK(s, p, n)

-----------------------------------------------------------------------------
(* Steps of one process that keep it.                                      *)

\* States v and s do not differ in node n.
Alike(v, s, n) ==
    /\ v.phase[n] = s.phase[n] /\ v.acceptance[n] = s.acceptance[n]
    /\ v.told[n] = s.told[n]
    /\ n \in v.boxes <=> n \in s.boxes
    /\ n \in v.computed <=> n \in s.computed

LEMMA AlikeOK ==
    ASSUME NEW p, NEW s, NEW v, NEW n, Alike(v, s, n)
    PROVE  NodeOK(v, p, n) <=> NodeOK(s, p, n)
<1>1. PhaseOK(v, p, n) <=> PhaseOK(s, p, n)
  BY DEF PhaseOK, Alike
<1>2. AcceptanceOK(v, p, n) <=> AcceptanceOK(s, p, n)
  BY DEF AcceptanceOK, Alike
<1>3. ToldOK(v, p, n) <=> ToldOK(s, p, n)
  BY DEF ToldOK, Alike
<1>4. BoxesOK(v, p, n) <=> BoxesOK(s, p, n)
  BY DEF BoxesOK, Alike
<1>5. ComputedOK(v, p, n) <=> ComputedOK(s, p, n)
  BY DEF ComputedOK, Alike
<1> QED
  BY <1>1, <1>2, <1>3, <1>4, <1>5 DEF NodeOK

LEMMA AlikeKnows ==
    ASSUME NEW p, NEW s, KnowsAll(s, p), NEW v, \A n \in Nodes : Alike(v, s, n)
    PROVE  KnowsAll(v, p)
<1> SUFFICES ASSUME NEW n \in Nodes PROVE NodeOK(v, p, n) /\ HalfOK(v, p, n)
  BY DEF KnowsAll
<1>1. NodeOK(v, p, n)
  BY AlikeOK DEF KnowsAll
<1>2. HalfOK(v, p, n)
  <2>1. IsRoot(n) \/ ParentOf(n) \in Nodes
    BY AboveFacts
  <2> QED
    BY <2>1 DEF HalfOK, KnowsAll, Alike
<1> QED
  BY <1>1, <1>2

\* It goes on with node n.
LEMMA GoesOnAlone ==
    ASSUME NEW p, NEW s, NEW n \in Nodes, NEW v, KnowsAll(s, p),
           ~Gone(s.phase[n]), ~Gone(v.phase[n]), NodeOK(v, p, n),
           \A m \in Nodes \ {n} : Alike(v, s, m)
    PROVE  KnowsAll(v, p)
<1> SUFFICES ASSUME NEW m \in Nodes PROVE NodeOK(v, p, m) /\ HalfOK(v, p, m)
  BY DEF KnowsAll
<1>1. NodeOK(v, p, m)
  BY AlikeOK DEF KnowsAll
<1>2. ASSUME NEW k \in Nodes
      PROVE  /\ Gone(v.phase[k]) <=> Gone(s.phase[k])
             /\ v.phase[k] = "deallocated" <=> s.phase[k] = "deallocated"
  BY DEF Alike, Gone
<1>3. HalfOK(v, p, m)
  <2>1. IsRoot(m) \/ ParentOf(m) \in Nodes
    BY AboveFacts
  <2>2. HalfOK(s, p, m)
    BY DEF KnowsAll
  <2> QED
    BY <1>2, <2>1, <2>2 DEF HalfOK
<1> QED
  BY <1>1, <1>3

\* It may change others not in use, too.
Renewed(v, s, p, n) == NodeOK(v, p, n) /\ ~Gone(s.phase[n]) /\ ~Gone(v.phase[n])

LEMMA GoesOn ==
    ASSUME NEW p, NEW s, NEW v, KnowsAll(s, p),
           NEW D, \A m \in D : Renewed(v, s, p, m),
           \A m \in Nodes \ D : Alike(v, s, m)
    PROVE  KnowsAll(v, p)
<1> SUFFICES ASSUME NEW m \in Nodes PROVE NodeOK(v, p, m) /\ HalfOK(v, p, m)
  BY DEF KnowsAll
<1>1. NodeOK(v, p, m)
  BY AlikeOK DEF KnowsAll, Renewed
<1>2. ASSUME NEW k \in Nodes
      PROVE  /\ Gone(v.phase[k]) <=> Gone(s.phase[k])
             /\ v.phase[k] = "deallocated" <=> s.phase[k] = "deallocated"
  BY DEF Alike, Gone, Renewed
<1>3. HalfOK(v, p, m)
  <2>1. IsRoot(m) \/ ParentOf(m) \in Nodes
    BY AboveFacts
  <2>2. HalfOK(s, p, m)
    BY DEF KnowsAll
  <2> QED
    BY <1>2, <2>1, <2>2 DEF HalfOK
<1> QED
  BY <1>1, <1>3

LEMMA CompleteFields ==
    ASSUME NEW s \in ProcessType, NEW n \in Nodes, NEW v, v = Complete(s, n)
    PROVE  /\ v.phase = [s.phase EXCEPT ![n] = "completed"]
           /\ v.acceptance = s.acceptance /\ v.told = s.told
           /\ v.boxes = s.boxes /\ v.computed = s.computed
           /\ v.pos = s.pos /\ v.received = s.received
<1>1. PICK q : q = IF WakesParent(s, n) THEN <<ParentOf(n)>> \o s.relaunch ELSE s.relaunch
  OBVIOUS
<1>2. v = Leave([s EXCEPT !.phase[n] = "completed", !.relaunch = q])
  BY <1>1 DEF Complete
<1> QED
  BY <1>2 DEF Leave, ProcessType

LEMMA FinishFields ==
    ASSUME NEW p, NEW s \in ProcessType, NEW n \in Nodes, NEW v, v = Finish(p, s, n),
           NEW drops, drops = (HasDropouts(n) /\ InDropoutGroup(p, n))
    PROVE  /\ v.phase = [s.phase EXCEPT ![n] =
                            IF drops THEN "bcast_to_dropouts" ELSE "completed"]
           /\ v.acceptance = s.acceptance
           /\ v.told = IF drops /\ IsOwner(p, n)
                       THEN [s.told EXCEPT ![n] = s.acceptance[n]] ELSE s.told
           /\ v.boxes = s.boxes
           /\ v.computed = IF IsRoot(n) /\ Accepted(s.acceptance[n])
                           THEN s.computed \cup {n} ELSE s.computed
           /\ v.pos = s.pos /\ v.received = s.received
<1> DEFINE t == IF IsRoot(n) /\ Accepted(s.acceptance[n])
                THEN computeNewNeighborhoodSets(s, n) ELSE s
           told == IF IsOwner(p, n) THEN s.acceptance[n] ELSE t.told[n]
           d == [t EXCEPT !.phase[n] = "bcast_to_dropouts", !.told[n] = told]
<1>1. /\ t \in ProcessType /\ t.phase = s.phase /\ t.acceptance = s.acceptance
      /\ t.told = s.told /\ t.boxes = s.boxes /\ t.pos = s.pos /\ t.received = s.received
      /\ t.computed = IF IsRoot(n) /\ Accepted(s.acceptance[n])
                      THEN s.computed \cup {n} ELSE s.computed
  BY DEF computeNewNeighborhoodSets, ProcessType
<1>2. v = IF drops THEN d ELSE Complete(t, n)
  <2>1. drops => Finish(p, s, n) = [t EXCEPT !.phase[n] = "bcast_to_dropouts",
                   !.told[n] = IF IsOwner(p, n) THEN s.acceptance[n] ELSE @]
    BY DEF Finish
  <2>2. ~drops => Finish(p, s, n) = Complete(t, n)
    BY DEF Finish
  <2>3. d = [t EXCEPT !.phase[n] = "bcast_to_dropouts",
                      !.told[n] = IF IsOwner(p, n) THEN s.acceptance[n] ELSE @]
    BY <1>1 DEF ProcessType
  <2> QED
    BY <2>1, <2>2, <2>3
<1> HIDE DEF t
<1>3. CASE drops
  <2>1. /\ d.phase = [t.phase EXCEPT ![n] = "bcast_to_dropouts"]
        /\ d.acceptance = t.acceptance
        /\ d.told = [t.told EXCEPT ![n] = told]
        /\ d.boxes = t.boxes /\ d.computed = t.computed
        /\ d.pos = t.pos /\ d.received = t.received
    BY <1>1 DEF ProcessType
  <2>2. ~IsOwner(p, n) => [t.told EXCEPT ![n] = told] = t.told
    BY <1>1 DEF ProcessType
  <2> HIDE DEF d
  <2> QED
    BY <1>1, <1>2, <1>3, <2>1, <2>2
<1>4. CASE ~drops
  <2>1. v = Complete(t, n)
    BY <1>2, <1>4
  <2> QED
    BY <1>1, <1>4, <2>1, CompleteFields
<1> QED
  BY <1>2, <1>3, <1>4

(***************************************************************************)
(* A process at the end of its part of node n, the phase still to be       *)
(* changed: it is in the group and has settled the node, or dropped out    *)
(* and knows nothing.                                                      *)
(***************************************************************************)
Ending(s, p, n) ==
    /\ s \in ProcessType /\ n \in Nodes
    /\ PhaseOK(s, p, n) /\ HalfOK(s, p, n)
    /\ Started(s.phase[n]) /\ ~Gone(s.phase[n])
    /\ n \notin s.computed
    /\ IF Participates(p, n)
       THEN /\ Settled(s.acceptance[n], n)
            /\ n \in s.boxes <=> IsOwner(p, n) /\ Whole(n)
       ELSE /\ s.acceptance[n] = undetermined /\ HasDropouts(n)
            /\ n \notin s.boxes
    /\ \A m \in Nodes \ {n} : NodeOK(s, p, m) /\ (IsChild(m, n) \/ HalfOK(s, p, m))
    /\ \A m \in Nodes : IsChild(m, n) =>
          (s.phase[m] = "deallocated" <=> n \in input.split /\ Participates(p, n))

LEMMA WholeIsTagged == \A n : Whole(n) => n \notin input.untagged
BY DEF Whole

LEMMA FinishKnows ==
    ASSUME NEW p, NEW s, NEW n, Ending(s, p, n), NEW v, v = Finish(p, s, n)
    PROVE  /\ KnowsAll(v, p) /\ v.pos = s.pos /\ v.received = s.received
           /\ v.phase[n] \in Ended /\ \A m \in Nodes \ {n} : v.phase[m] = s.phase[m]
<1> PICK drops : drops = (HasDropouts(n) /\ InDropoutGroup(p, n))
  OBVIOUS
<1>1. /\ v.phase = [s.phase EXCEPT ![n] = IF drops THEN "bcast_to_dropouts" ELSE "completed"]
      /\ v.acceptance = s.acceptance
      /\ v.told = IF drops /\ IsOwner(p, n)
                  THEN [s.told EXCEPT ![n] = s.acceptance[n]] ELSE s.told
      /\ v.boxes = s.boxes
      /\ v.computed = IF IsRoot(n) /\ Accepted(s.acceptance[n])
                      THEN s.computed \cup {n} ELSE s.computed
      /\ v.pos = s.pos /\ v.received = s.received
  <2>1. s \in ProcessType /\ n \in Nodes
    BY DEF Ending
  <2> QED
    BY <2>1, FinishFields
<1>2. /\ s.phase \in [Nodes -> AllPhases] /\ s.told \in [Nodes -> Int] /\ n \in Nodes
      /\ Started(s.phase[n]) /\ ~Gone(s.phase[n]) /\ n \notin s.computed
      /\ PhaseOK(s, p, n) /\ HalfOK(s, p, n)
  BY DEF Ending, ProcessType
<1>3. ASSUME NEW m \in Nodes \ {n} PROVE Alike(v, s, m)
  BY <1>1, <1>2 DEF Alike
<1>4. /\ v.phase[n] = IF drops THEN "bcast_to_dropouts" ELSE "completed"
      /\ drops /\ IsOwner(p, n) => v.told[n] = s.acceptance[n]
  BY <1>1, <1>2
<1>5. /\ HasDropouts(n) => ~IsRoot(n)
      /\ Participates(p, n) /\ drops => IsOwner(p, n)
      /\ ~Participates(p, n) => drops
      /\ IsOwner(p, n) => Participates(p, n)
      /\ IsOwner(p, n) /\ HasDropouts(n) => drops
  BY DEF HasDropouts, Participates, InDropoutGroup, Ending
<1>6. PhaseOK(v, p, n)
  BY <1>2, <1>4, <1>5 DEF PhaseOK, Started, InGroupOps
<1>7. AcceptanceOK(v, p, n)
  BY <1>1, <1>4, <1>5 DEF AcceptanceOK, Ending, Unsettled, Splitting, Ended
<1>8. ToldOK(v, p, n)
  BY <1>4, <1>5 DEF ToldOK, Ending
<1>9. BoxesOK(v, p, n)
  BY <1>1, <1>4, <1>5, WholeIsTagged DEF BoxesOK, Ending, Splitting, Ended
<1>10. ComputedOK(v, p, n)
  <2>1. Participates(p, n) => (Accepted(s.acceptance[n]) <=> Whole(n))
    BY DEF Ending, Settled
  <2>2. ~Participates(p, n) => ~IsRoot(n)
    BY DEF Participates
  <2>3. n \in v.computed <=> IsRoot(n) /\ Accepted(s.acceptance[n])
    BY <1>1, <1>2
  <2>4. IsRoot(n) => v.phase[n] = "completed"
    BY <1>4, <1>5 DEF HasDropouts
  <2> QED
    BY <2>1, <2>2, <2>3, <2>4, <1>4 DEF ComputedOK
<1>11. ASSUME NEW m \in Nodes PROVE NodeOK(v, p, m)
  <2>1. CASE m = n
    BY <2>1, <1>6, <1>7, <1>8, <1>9, <1>10 DEF NodeOK
  <2>2. CASE m # n
    BY <2>2, <1>3, AlikeOK DEF Ending
  <2> QED
    BY <2>1, <2>2
<1>12. ASSUME NEW m \in Nodes PROVE HalfOK(v, p, m)
  <2> SUFFICES ASSUME ~IsRoot(m) PROVE HalfOK(v, p, m)
    BY DEF HalfOK
  <2>1. ParentOf(m) \in Nodes /\ ParentOf(m) # m
    BY AboveFacts
  <2>2. v.phase[m] = "deallocated" <=> s.phase[m] = "deallocated"
    <3>1. CASE m = n
      BY <3>1, <1>2, <1>4 DEF Gone
    <3>2. CASE m # n
      BY <3>2, <1>3 DEF Alike
    <3> QED
      BY <3>1, <3>2
  <2>3. CASE ParentOf(m) = n
    BY <2>2, <2>3, <1>4 DEF HalfOK, Ending, IsChild, Gone, Ended
  <2>4. CASE ParentOf(m) # n
    <3>1. v.phase[ParentOf(m)] = s.phase[ParentOf(m)]
      BY <2>1, <2>4, <1>3 DEF Alike
    <3>2. HalfOK(s, p, m)
      BY <2>4, <1>2 DEF Ending, IsChild
    <3> QED
      BY <2>2, <3>1, <3>2 DEF HalfOK
  <2> QED
    BY <2>3, <2>4
<1>13. v.phase[n] \in Ended
  BY <1>4 DEF Ended
<1> QED
  BY <1>1, <1>3, <1>11, <1>12, <1>13 DEF KnowsAll, Alike

-----------------------------------------------------------------------------
(* Groups.                                                                 *)

\* Phases in which the owner of a node that is split has formed the groups.
Formers == {"bcast_child_groups", "run_children", "deallocated"} \cup Ended

Formed(n) ==
    \/ IsRoot(n)
    \/ /\ ParentOf(n) \in input.split
       /\ self[node[ParentOf(n)].owner].phase[ParentOf(n)] \in Formers

GroupOK(n) ==
    /\ node[n].group = {p \in Ranks : Participates(p, n)}
    /\ IsRoot(n) \/ node[n].group \subseteq node[ParentOf(n)].group

GroupsInv ==
    /\ \A n \in Nodes : Formed(n) => GroupOK(n)
    /\ \A p \in Ranks, n \in Nodes : Started(self[p].phase[n]) => Formed(n)

OutcomeInv == GroupsInv /\ \A p \in Ranks : KnowsAll(self[p], p)

SameGroups(n) == node'[n].owner = node[n].owner /\ node'[n].group = node[n].group

LEMMA SameFacts ==
    ASSUME input' = input, NEW q, NEW n, SameGroups(n)
    PROVE  /\ IsOwner(q, n)' <=> IsOwner(q, n)
           /\ Participates(q, n)' <=> Participates(q, n)
           /\ SameGroups(ParentOf(n)) => (HasDropouts(n)' <=> HasDropouts(n))
           /\ Reached(n)' <=> Reached(n)
           /\ Whole(n)' <=> Whole(n)
           /\ Whole(ParentOf(n))' <=> Whole(ParentOf(n))
           /\ Decision(n)' = Decision(n)
           /\ \A a : Settled(a, n)' <=> Settled(a, n)
<1>1. /\ IsOwner(q, n)' <=> IsOwner(q, n)
      /\ Participates(q, n)' <=> Participates(q, n)
  BY DEF IsOwner, Participates, SameGroups
<1>2. SameGroups(ParentOf(n)) => (HasDropouts(n)' <=> HasDropouts(n))
  BY DEF HasDropouts, SameGroups
<1>3. \A m : (Reached(m)' <=> Reached(m)) /\ (Whole(m)' <=> Whole(m))
  BY DEF Reached, Whole
<1>4. Decision(n)' = Decision(n)
  BY DEF Decision
<1>5. \A a : Settled(a, n)' <=> Settled(a, n)
  BY <1>3 DEF Settled
<1> QED
  BY <1>1, <1>2, <1>3, <1>4, <1>5

LEMMA NodeUnmoved ==
    ASSUME input' = input, NEW q, NEW n, SameGroups(n),
           IsRoot(n) \/ SameGroups(ParentOf(n)),
           NodeOK(self'[q], q, n) /\ HalfOK(self'[q], q, n)
    PROVE  NodeOK(self[q], q, n)' /\ HalfOK(self[q], q, n)'
<1>1. HasDropouts(n)' <=> HasDropouts(n)
  BY SameFacts DEF HasDropouts
<1>2. IsRoot(n) \/ (Participates(q, ParentOf(n))' <=> Participates(q, ParentOf(n)))
  BY SameFacts
<1>3. PhaseOK(self[q], q, n)'
  BY <1>1, <1>2, SameFacts DEF PhaseOK, NodeOK
<1>4. HalfOK(self[q], q, n)'
  BY <1>2 DEF HalfOK
<1>5. AcceptanceOK(self[q], q, n)'
  BY SameFacts DEF AcceptanceOK, NodeOK
<1>6. ToldOK(self[q], q, n)'
  BY <1>1, SameFacts DEF ToldOK, NodeOK
<1>7. BoxesOK(self[q], q, n)'
  BY SameFacts DEF BoxesOK, NodeOK
<1>8. ComputedOK(self[q], q, n)'
  BY SameFacts DEF ComputedOK, NodeOK
<1> QED
  BY <1>3, <1>4, <1>5, <1>6, <1>7, <1>8 DEF NodeOK

\* A step of one process that forms no groups.
LEMMA StepKnows ==
    ASSUME ClusterInv, OutcomeInv, NEW p \in Ranks, NEW v, Step(p, v), KnowsAll(v, p),
           input' = input, \A m \in Nodes : SameGroups(m),
           \A m \in Nodes : self[p].phase[m] \in Formers => v.phase[m] \in Formers,
           \A m \in input.split : IsOwner(p, m) /\ v.phase[m] \in Formers
                                     => self[p].phase[m] \in Formers,
           \A m \in Nodes : Started(v.phase[m]) => Started(self[p].phase[m]) \/ Formed(m)
    PROVE  OutcomeInv'
<1>1. /\ self'[p] = v /\ \A q \in Ranks \ {p} : self'[q] = self[q]
  BY DEF Step, ClusterInv, Typed
<1>2. ASSUME NEW m \in Nodes
      PROVE  /\ Formed(m)' <=> Formed(m)
             /\ IsRoot(m) \/ ParentOf(m) \in Nodes
  <2>1. IsRoot(m) \/ ParentOf(m) \in Nodes
    BY AboveFacts
  <2>2. ASSUME ~IsRoot(m), ParentOf(m) \in input.split
        PROVE  self'[node'[ParentOf(m)].owner].phase[ParentOf(m)] \in Formers
                 <=> self[node[ParentOf(m)].owner].phase[ParentOf(m)] \in Formers
    <3>1. PICK k \in Nodes : k = ParentOf(m)
      BY <2>1, <2>2
    <3>2. PICK q \in Ranks : q = node[k].owner /\ q = node'[k].owner
      BY DEF SameGroups, ClusterInv, Typed, NodeType
    <3>3. self'[q].phase[k] \in Formers <=> self[q].phase[k] \in Formers
      BY <1>1, <2>2, <3>1, <3>2 DEF IsOwner
    <3> QED
      BY <3>1, <3>2, <3>3
  <2>3. Formed(m)' <=> Formed(m)
    BY <2>2 DEF Formed
  <2> QED
    BY <2>1, <2>3
<1>3. ASSUME NEW m \in Nodes, Formed(m)' PROVE GroupOK(m)'
  <2>1. GroupOK(m)
    BY <1>2, <1>3 DEF OutcomeInv, GroupsInv
  <2>2. \A q : Participates(q, m)' <=> Participates(q, m)
    BY SameFacts
  <2>3. node'[m].group = {q \in Ranks : Participates(q, m)'}
    BY <2>1, <2>2 DEF GroupOK, SameGroups
  <2>4. IsRoot(m) \/ node'[m].group \subseteq node'[ParentOf(m)].group
    BY <2>1, <1>2 DEF GroupOK, SameGroups
  <2> QED
    BY <2>3, <2>4 DEF GroupOK
<1>4. ASSUME NEW q \in Ranks, NEW m \in Nodes, Started(self'[q].phase[m]) PROVE Formed(m)'
  BY <1>1, <1>2, <1>4 DEF OutcomeInv, GroupsInv
<1>5. ASSUME NEW q \in Ranks, NEW m \in Nodes
      PROVE  NodeOK(self[q], q, m)' /\ HalfOK(self[q], q, m)'
  <2>1. KnowsAll(self'[q], q)
    BY <1>1 DEF OutcomeInv
  <2>2. NodeOK(self'[q], q, m) /\ HalfOK(self'[q], q, m)
    BY <2>1 DEF KnowsAll
  <2> QED
    BY <1>2, <2>2, NodeUnmoved
<1> QED
  BY <1>3, <1>4, <1>5 DEF OutcomeInv, GroupsInv, KnowsAll, Started

-----------------------------------------------------------------------------
(* The actions.                                                            *)

LEMMA PoppedFields ==
    ASSUME ClusterInv, OutcomeInv, NEW p \in Ranks, NEW n \in Nodes, Current(p) = n
    PROVE  /\ Popped(p) \in ProcessType /\ KnowsAll(Popped(p), p)
           /\ Popped(p).phase = self[p].phase /\ Popped(p).acceptance = self[p].acceptance
           /\ Popped(p).told = self[p].told /\ Popped(p).boxes = self[p].boxes
           /\ Popped(p).computed = self[p].computed
           /\ Popped(p).pos = "loop" /\ Popped(p).received = self[p].received
<1> DEFINE u == Popped(p)
<1>1. self[p] \in ProcessType /\ u \in ProcessType
      /\ u.phase = self[p].phase /\ u.acceptance = self[p].acceptance /\ u.pos = "loop"
  BY SelfFacts, Takes DEF Taken
<1>2. /\ u.told = self[p].told /\ u.boxes = self[p].boxes
      /\ u.computed = self[p].computed /\ u.received = self[p].received
  BY <1>1 DEF Popped, ProcessType
<1> HIDE DEF u
<1>3. \A m \in Nodes : Alike(u, self[p], m)
  BY <1>1, <1>2 DEF Alike
<1>4. KnowsAll(u, p)
  BY <1>3, AlikeKnows DEF OutcomeInv
<1> QED
  BY <1>1, <1>2, <1>4 DEF u

\* Halves of a node that its process has not come to run or has not left.
LEMMA HalvesUnused ==
    ASSUME ClusterInv, OutcomeInv, NEW p \in Ranks, NEW n \in Nodes,
           self[p].phase[n] # "run_children", ~Gone(self[p].phase[n]),
           NEW m \in Nodes, IsChild(m, n)
    PROVE  self[p].phase[m] \in {"none", "for_data_only"}
<1>1. self[p].phase[m] \in AllPhases /\ ~Live(self[p].phase[m])
  BY SelfFacts DEF ProcessOK, ChildrenOK
<1>2. self[p].phase[m] # "deallocated"
  BY DEF OutcomeInv, KnowsAll, HalfOK, IsChild
<1> QED
  BY <1>1, <1>2 DEF Live, Active

\* A member that waited has its partner.
LEMMA OwnerBegun ==
    ASSUME ClusterInv, NEW p \in Ranks, NEW n \in Nodes, MayEnd(p, n),
           ~IsOwner(p, n), self[p].phase[n] \in Bcasts
    PROVE  Order[self[node[n].owner].phase[n]] >= Order[self[p].phase[n]]
BY DEF MayEnd, Begun, PhaseOf

LEMMA OrderFacts ==
    ASSUME NEW ph \in AllPhases
    PROVE  /\ Order[ph] >= Order["bcast_child_groups"] => ph \in Formers
           /\ Order[ph] >= Order["bcast_to_dropouts"] => Gone(ph)
<1>1. /\ DOMAIN Phases = 1 .. 11
      /\ Phases[1] = "none" /\ Phases[2] = "for_data_only" /\ Phases[3] = "to_be_launched"
      /\ Phases[4] = "reduce_histogram" /\ Phases[5] = "bcast_acceptability"
      /\ Phases[6] = "gather_grouping_criteria" /\ Phases[7] = "bcast_child_groups"
      /\ Phases[8] = "run_children" /\ Phases[9] = "bcast_to_dropouts"
      /\ Phases[10] = "completed" /\ Phases[11] = "deallocated"
  BY DEF Phases
<1>2. \A i \in 1 .. 11 : i \in {1, 2, 3, 4, 5, 6, 7, 8, 9, 10, 11}
  OBVIOUS
<1>3. \A i, j \in 1 .. 11 : Phases[i] = Phases[j] => i = j
  <2> SUFFICES ASSUME NEW i \in {1, 2, 3, 4, 5, 6, 7, 8, 9, 10, 11},
                      NEW j \in {1, 2, 3, 4, 5, 6, 7, 8, 9, 10, 11}, Phases[i] = Phases[j]
               PROVE  i = j
    BY <1>2
  <2> QED
    BY <1>1
<1>4. ASSUME NEW i \in 1 .. 11 PROVE Order[Phases[i]] = i
  <2>1. Phases[i] \in {Phases[j] : j \in DOMAIN Phases}
    BY <1>1
  <2>2. Order[Phases[i]] = CHOOSE j \in DOMAIN Phases : Phases[j] = Phases[i]
    BY <2>1 DEF Order
  <2>3. \A j \in DOMAIN Phases : Phases[j] = Phases[i] <=> j = i
    BY <1>1, <1>3
  <2> QED
    BY <2>2, <2>3, <1>1
<1>5. /\ Order["none"] = 1 /\ Order["for_data_only"] = 2 /\ Order["to_be_launched"] = 3
      /\ Order["reduce_histogram"] = 4 /\ Order["bcast_acceptability"] = 5
      /\ Order["gather_grouping_criteria"] = 6 /\ Order["bcast_child_groups"] = 7
      /\ Order["run_children"] = 8 /\ Order["bcast_to_dropouts"] = 9
      /\ Order["completed"] = 10 /\ Order["deallocated"] = 11
  <2>1. /\ 1 \in 1 .. 11 /\ 2 \in 1 .. 11 /\ 3 \in 1 .. 11 /\ 4 \in 1 .. 11
        /\ 5 \in 1 .. 11 /\ 6 \in 1 .. 11 /\ 7 \in 1 .. 11 /\ 8 \in 1 .. 11
        /\ 9 \in 1 .. 11 /\ 10 \in 1 .. 11 /\ 11 \in 1 .. 11
    OBVIOUS
  <2> HIDE DEF Order
  <2> QED
    BY <1>1, <1>4, <2>1
<1>6. ph \in {"none", "for_data_only", "to_be_launched", "run_children", "completed",
              "deallocated", "reduce_histogram", "bcast_acceptability",
              "gather_grouping_criteria", "bcast_child_groups", "bcast_to_dropouts"}
  BY DEF AllPhases, Ops, InGroupOps, Bcasts
<1> QED
  BY <1>5, <1>6 DEF Formers, Gone, Ended

\* The same, where the groups of the halves are as they are.
LEMMA GroupsKept ==
    ASSUME UNCHANGED <<input, node>>
    PROVE  input' = input /\ \A m \in Nodes : SameGroups(m)
BY DEF SameGroups

\* A node is launched; by a process that dropped out it is left for the dropouts.
LEMMA LaunchKnows ==
    ASSUME ClusterInv, OutcomeInv, NEW p \in Ranks, NEW n \in Nodes, toBeLaunched(p, n)
    PROVE  OutcomeInv' /\ self'[p].pos = "loop" /\ self'[p].received = self[p].received
<1> PICK u : u = Popped(p)
  OBVIOUS
<1>1. /\ Current(p) = n /\ self[p].phase[n] = "to_be_launched" /\ UNCHANGED <<input, node>>
      /\ Step(p, IF Participates(p, n) THEN [u EXCEPT !.phase[n] = "reduce_histogram"]
                 ELSE Finish(p, u, n))
  BY DEF toBeLaunched, Continuing, PhaseOf
<1>2. /\ u \in ProcessType /\ KnowsAll(u, p)
      /\ u.phase = self[p].phase /\ u.acceptance = self[p].acceptance
      /\ u.told = self[p].told /\ u.boxes = self[p].boxes /\ u.computed = self[p].computed
      /\ u.pos = "loop" /\ u.received = self[p].received
      /\ u.phase \in [Nodes -> AllPhases]
  BY <1>1, PoppedFields DEF ProcessType
<1>3. NodeOK(u, p, n) /\ HalfOK(u, p, n) /\ u.phase[n] = "to_be_launched"
  BY <1>1, <1>2 DEF KnowsAll
<1>4. CASE Participates(p, n)
  <2>1. PICK v : v = [u EXCEPT !.phase[n] = "reduce_histogram"]
    OBVIOUS
  <2>2. /\ v.phase = [u.phase EXCEPT ![n] = "reduce_histogram"]
        /\ v.acceptance = u.acceptance /\ v.told = u.told /\ v.boxes = u.boxes
        /\ v.computed = u.computed /\ v.pos = u.pos /\ v.received = u.received
    BY <1>2, <2>1 DEF ProcessType
  <2>3. v.phase[n] = "reduce_histogram" /\ \A m \in Nodes \ {n} : Alike(v, u, m)
    BY <1>2, <2>2 DEF Alike
  <2>4. NodeOK(v, p, n)
    <3>1. PhaseOK(v, p, n)
      BY <1>3, <1>4, <2>3 DEF PhaseOK, NodeOK, Started
    <3>2. AcceptanceOK(v, p, n)
      BY <1>3, <2>2, <2>3 DEF AcceptanceOK, NodeOK, Unsettled, Splitting, Ended
    <3>3. ToldOK(v, p, n)
      BY <2>3 DEF ToldOK, Gone, Ended
    <3>4. BoxesOK(v, p, n)
      BY <1>3, <2>2, <2>3 DEF BoxesOK, NodeOK, Splitting, Ended
    <3>5. ComputedOK(v, p, n)
      BY <1>3, <2>2, <2>3 DEF ComputedOK, NodeOK
    <3> QED
      BY <3>1, <3>2, <3>3, <3>4, <3>5 DEF NodeOK
  <2>5. ~Gone(u.phase[n]) /\ ~Gone(v.phase[n])
    BY <1>3, <2>3 DEF Gone, Ended
  <2>6. KnowsAll(v, p)
    <3>1. KnowsAll(u, p)
      BY <1>2
    <3> QED
      BY <3>1, <2>3, <2>4, <2>5, GoesOnAlone
  <2>7. \A m \in Nodes : /\ u.phase[m] \in Formers <=> v.phase[m] \in Formers
                         /\ Started(u.phase[m]) <=> Started(v.phase[m])
    BY <1>3, <2>3 DEF Alike, Formers, Ended, Started
  <2>8. Step(p, v) /\ input.split \subseteq Nodes
    BY <1>1, <1>4, <2>1, InputFacts DEF ClusterInv, Typed
  <2>9. OutcomeInv'
    BY <1>1, <1>2, <2>6, <2>7, <2>8, StepKnows, GroupsKept
  <2> QED
    BY <1>2, <2>2, <2>8, <2>9 DEF Step, ClusterInv, Typed
<1>5. CASE ~Participates(p, n)
  <2>1. PICK v : v = Finish(p, u, n)
    OBVIOUS
  <2>2. ~IsRoot(n) /\ Participates(p, ParentOf(n)) /\ ParentOf(n) \in Nodes
    BY <1>3, <1>5, AboveFacts DEF Participates, NodeOK, PhaseOK, Started
  <2>3. HasDropouts(n)
    <3>1. Formed(n) /\ GroupOK(n)
      BY <1>1, <1>3, <1>2 DEF OutcomeInv, GroupsInv, Started
    <3>2. Formed(ParentOf(n)) /\ GroupOK(ParentOf(n))
      <4>1. node[ParentOf(n)].owner \in Ranks
        BY <2>2 DEF ClusterInv, Typed, NodeType
      <4>2. Started(self[node[ParentOf(n)].owner].phase[ParentOf(n)])
        BY <3>1, <2>2 DEF Formed, Formers, Ended, Started
      <4> QED
        BY <4>1, <4>2, <2>2 DEF OutcomeInv, GroupsInv
    <3>3. /\ p \in node[ParentOf(n)].group /\ p \notin node[n].group
          /\ node[n].group \subseteq node[ParentOf(n)].group
          /\ node[ParentOf(n)].group \subseteq Ranks
      BY <3>1, <3>2, <1>5, <2>2 DEF GroupOK
    <3>4. IsFiniteSet(Ranks)
      BY FS_Interval, BergerRigoutsosAssumption DEF Ranks
    <3>5. IsFiniteSet(node[ParentOf(n)].group)
      BY <3>3, <3>4, FS_Subset
    <3>6. /\ Cardinality(node[n].group) <= Cardinality(node[ParentOf(n)].group)
          /\ Cardinality(node[n].group) # Cardinality(node[ParentOf(n)].group)
          /\ Cardinality(node[n].group) \in Nat /\ Cardinality(node[ParentOf(n)].group) \in Nat
      BY <3>3, <3>5, FS_Subset, FS_CardinalityType
    <3> QED
      BY <3>6, <2>2 DEF HasDropouts
  <2>4. \A m \in Nodes : IsChild(m, n) => u.phase[m] # "deallocated"
    BY <1>1, <1>2, <1>3, HalvesUnused DEF Gone, Ended
  <2>5. Ending(u, p, n)
    <3>1. u.acceptance[n] = undetermined /\ n \notin u.boxes /\ n \notin u.computed
      BY <1>3, <1>5 DEF NodeOK, AcceptanceOK, BoxesOK, ComputedOK, Unsettled, Splitting, Ended
    <3> QED
      BY <3>1, <1>2, <1>3, <1>5, <2>3, <2>4
         DEF Ending, KnowsAll, NodeOK, Started, Gone, Ended
  <2>6. KnowsAll(v, p) /\ v.pos = u.pos /\ v.received = u.received
    BY <2>1, <2>5, FinishKnows
  <2>7. /\ \A m \in Nodes \ {n} : v.phase[m] = u.phase[m]
        /\ v.phase[n] \in Formers
    BY <2>1, <2>5, FinishKnows DEF Formers
  <2>8. Step(p, v) /\ ~IsOwner(p, n)
    BY <1>1, <1>5, <2>1 DEF Participates
  <2>9. OutcomeInv'
    <3>1. \A m \in Nodes : Started(v.phase[m]) => Started(self[p].phase[m])
      BY <1>2, <1>3, <2>7 DEF Started
    <3>2. input.split \subseteq Nodes
      BY InputFacts DEF ClusterInv, Typed
    <3> QED
      BY <1>1, <1>2, <1>3, <2>6, <2>7, <2>8, <3>1, <3>2, StepKnows, GroupsKept
  <2> QED
    BY <1>2, <2>6, <2>8, <2>9 DEF Step, ClusterInv, Typed
<1> QED
  BY <1>4, <1>5

\* The operation goes on; the process leaves the node for another one.
LEMMA UnfinishedKnows ==
    ASSUME ClusterInv, OutcomeInv, NEW p \in Ranks, NEW n \in Nodes, Unfinished(p, n)
    PROVE  OutcomeInv' /\ self'[p].pos = "loop" /\ self'[p].received = self[p].received
<1> PICK u : u = Popped(p)
  OBVIOUS
<1> PICK v : v = Leave(u)
  OBVIOUS
<1>1. Current(p) = n /\ UNCHANGED <<input, node>> /\ Step(p, v)
  BY DEF Unfinished
<1>2. /\ u \in ProcessType /\ KnowsAll(u, p) /\ u.phase = self[p].phase
      /\ u.pos = "loop" /\ u.received = self[p].received
  BY <1>1, PoppedFields
<1>3. /\ v.phase = u.phase /\ v.acceptance = u.acceptance /\ v.told = u.told
      /\ v.boxes = u.boxes /\ v.computed = u.computed
      /\ v.pos = u.pos /\ v.received = u.received
  BY <1>2 DEF Leave, ProcessType
<1>4. KnowsAll(v, p)
  <2>1. \A m \in Nodes : Alike(v, u, m)
    BY <1>3 DEF Alike
  <2> QED
    BY <1>2, <2>1, AlikeKnows
<1>5. OutcomeInv'
  BY <1>1, <1>2, <1>3, <1>4, StepKnows, GroupsKept
<1> QED
  BY <1>1, <1>2, <1>3, <1>5 DEF Step, ClusterInv, Typed

\* The owner decides, and creates the halves of a box that it splits.
LEMMA DecisionFacts ==
    ASSUME input \in Inputs, NEW n \in Nodes
    PROVE  /\ Rejected(Decision(n)) <=> n \in input.split
           /\ n \notin input.split => /\ Settled(Decision(n), n)
                                      /\ Settled(Remote(Decision(n)), n)
           /\ Decision(n) \in Int /\ Remote(Decision(n)) \in Int
           /\ n \in input.split <=> Rejected(Remote(Decision(n)))
           /\ n \in input.split => {Decision(n), Remote(Decision(n))}
                 = {rejected_by_calculation, Remote(rejected_by_calculation)}
<1>1. n \in input.split => n \notin input.untagged
  BY UntaggedFacts
<1>2. n \notin input.split => (Whole(n) <=> n \notin input.untagged)
  BY WholeLeaf
<1>3. n \in input.untagged => IsRoot(n)
  BY UntaggedFacts
<1>4. \/ n \in input.split /\ Decision(n) = 0 /\ Remote(Decision(n)) = 2
      \/ n \notin input.split /\ n \in input.untagged
         /\ Decision(n) = -1 /\ Remote(Decision(n)) = -1
      \/ n \notin input.split /\ n \notin input.untagged
         /\ Decision(n) = 1 /\ Remote(Decision(n)) = 3
  BY DEF Decision, Remote, rejected_by_calculation, hasnotag_by_owner,
         accepted_by_calculation
<1>5. /\ Rejected(0) /\ Rejected(2) /\ ~Rejected(-1) /\ ~Rejected(1) /\ ~Rejected(3)
      /\ ~Accepted(-1) /\ Accepted(1) /\ Accepted(3)
  BY DEF Accepted, Rejected
<1>6. Remote(1) = 3
  BY DEF Remote
<1>7. n \in input.split => Decision(n) = rejected_by_calculation
  BY DEF Decision
<1> QED
  BY <1>1, <1>2, <1>3, <1>4, <1>5, <1>6, <1>7
     DEF Settled, hasnotag_by_owner, accepted_by_calculation

LEMMA InUse == Bcasts \cup InGroupOps \subseteq AllPhases /\ \A ph \in InGroupOps : Started(ph)
BY DEF AllPhases, Ops, Started, InGroupOps

\* A half created for data only, or to be launched by a member.
LEMMA HalfRenewed ==
    ASSUME NEW p, NEW u, NEW v, NEW n \in input.split, NEW m \in Nodes, IsChild(m, n),
           NodeOK(u, p, m), Reached(n), u.phase[m] \in {"none", "for_data_only"},
           \/ v.phase[m] = "for_data_only"
           \/ v.phase[m] = "to_be_launched" /\ Participates(p, n),
           v.acceptance[m] = u.acceptance[m],
           v.told[m] = u.told[m], m \in v.boxes <=> m \in u.boxes,
           m \in v.computed <=> m \in u.computed, n \in Nodes
    PROVE  Renewed(v, u, p, m)
<1>1. Reached(m)
  BY ReachedBelow, ChildrenAreIt
<1>2. ~IsRoot(m) /\ ParentOf(m) = n
  BY DEF IsChild
<1>3. PhaseOK(v, p, m)
  BY <1>1, <1>2 DEF PhaseOK, Started, InGroupOps
<1>4. AcceptanceOK(v, p, m)
  BY DEF AcceptanceOK, NodeOK, Unsettled, Splitting, Ended
<1>5. ToldOK(v, p, m)
  BY DEF ToldOK, Gone, Ended
<1>6. BoxesOK(v, p, m)
  BY DEF BoxesOK, NodeOK, Splitting, Ended
<1>7. ComputedOK(v, p, m)
  BY <1>2 DEF ComputedOK, NodeOK
<1> QED
  BY <1>3, <1>4, <1>5, <1>6, <1>7 DEF Renewed, NodeOK, Gone, Ended

LEMMA HistogramKnows ==
    ASSUME ClusterInv, OutcomeInv, NEW p \in Ranks, NEW n \in Nodes,
           reduceHistogram_check(p, n)
    PROVE  OutcomeInv' /\ self'[p].pos = "loop" /\ self'[p].received = self[p].received
<1> PICK u : u = Popped(p)
  OBVIOUS
<1> PICK D : D = Decision(n)
  OBVIOUS
<1> PICK B : B = IF n \in input.untagged THEN u.boxes ELSE u.boxes \cup {n}
  OBVIOUS
<1> PICK s : s = [u EXCEPT !.acceptance[n] = D, !.boxes = B, !.phase[n] = "bcast_acceptability"]
  OBVIOUS
<1> DEFINE t == NextTag(NextTag(self[p].next_tag))
           w == CreatedChildren([s EXCEPT !.next_tag = t], n)
           o == [u EXCEPT !.phase[n] = "bcast_acceptability"]
<1>1. Current(p) = n /\ self[p].phase[n] = "reduce_histogram" /\ input' = input
  BY DEF reduceHistogram_check, Continuing, PhaseOf
<1>2. /\ u \in ProcessType /\ u.phase = self[p].phase
      /\ u.pos = "loop" /\ u.received = self[p].received
      /\ u.phase \in [Nodes -> AllPhases]
  BY <1>1, PoppedFields DEF ProcessType
<1>3. KnowsAll(u, p) /\ NodeOK(u, p, n) /\ u.phase[n] = "reduce_histogram"
  <2>1. KnowsAll(u, p)
    BY <1>1, PoppedFields
  <2> QED
    BY <2>1, <1>1, <1>2 DEF KnowsAll
<1>4. /\ input \in Inputs /\ input.split \subseteq Nodes /\ D \in Int
      /\ Participates(p, n) /\ Reached(n)
  <2>1. input \in Inputs
    BY DEF ClusterInv, Typed
  <2> QED
    BY <2>1, <1>3, DecisionFacts, InputFacts DEF NodeOK, PhaseOK, InGroupOps
<1>5. PICK v :
        /\ \/ IsOwner(p, n) /\ n \in input.split /\ v = w
              /\ node' = [node EXCEPT ![Lft(n)].tag = self[p].next_tag,
                                      ![Rht(n)].tag = NextTag(self[p].next_tag)]
           \/ IsOwner(p, n) /\ n \notin input.split /\ v = s /\ UNCHANGED node
           \/ ~IsOwner(p, n) /\ v = o /\ UNCHANGED node
        /\ Step(p, v)
  <2>1. CASE ~IsOwner(p, n)
    BY <2>1 DEF reduceHistogram_check
  <2>2. CASE IsOwner(p, n)
    <3>1. acceptOrSplitBox(p, n)
      BY <2>2 DEF reduceHistogram_check
    <3>2. s = [Popped(p) EXCEPT !.acceptance[n] = Decision(n),
                                !.boxes = IF n \in input.untagged THEN @ ELSE @ \cup {n},
                                !.phase[n] = "bcast_acceptability"]
      BY <1>2 DEF ProcessType
    <3> QED
      BY <2>2, <3>1, <3>2 DEF acceptOrSplitBox
  <2> QED
    BY <2>1, <2>2
<1>6. \A m \in Nodes : SameGroups(m)
  <2>1. node \in [Nodes -> NodeType]
    BY DEF ClusterInv, Typed
  <2>2. CASE UNCHANGED node
    BY <2>2 DEF SameGroups
  <2>3. CASE node' = [node EXCEPT ![Lft(n)].tag = self[p].next_tag,
                                  ![Rht(n)].tag = NextTag(self[p].next_tag)]
    BY <2>1, <2>3 DEF SameGroups, NodeType
  <2> QED
    BY <1>5, <2>2, <2>3
<1>7. /\ s.phase = [u.phase EXCEPT ![n] = "bcast_acceptability"]
      /\ s.acceptance = [u.acceptance EXCEPT ![n] = D] /\ s.boxes = B
      /\ s.told = u.told /\ s.computed = u.computed
      /\ s.pos = u.pos /\ s.received = u.received /\ DOMAIN s = Fields
  BY <1>2 DEF ProcessType, Fields
<1>8. /\ w.phase = [m \in Nodes |-> IF m \in ChildrenOf(n) THEN "for_data_only" ELSE s.phase[m]]
      /\ w.acceptance = s.acceptance /\ w.boxes = s.boxes
      /\ w.told = s.told /\ w.computed = s.computed
      /\ w.pos = s.pos /\ w.received = s.received
  BY <1>7 DEF CreatedChildren, Fields
<1>9. /\ o.phase = [u.phase EXCEPT ![n] = "bcast_acceptability"]
      /\ o.acceptance = u.acceptance /\ o.boxes = u.boxes
      /\ o.told = u.told /\ o.computed = u.computed
      /\ o.pos = u.pos /\ o.received = u.received
  BY <1>2 DEF ProcessType
<1> HIDE DEF w, o, t
<1>10. \A m \in Nodes : (IsChild(m, n) <=> m \in ChildrenOf(n)) /\ (m \in ChildrenOf(n) => m # n)
  BY ChildrenAreIt
<1>11. /\ v.phase[n] = "bcast_acceptability" /\ v.told = u.told /\ v.computed = u.computed
       /\ v.acceptance[n] = IF IsOwner(p, n) THEN D ELSE u.acceptance[n]
       /\ \A m \in Nodes \ {n} : v.acceptance[m] = u.acceptance[m]
       /\ v.boxes = IF IsOwner(p, n) THEN B ELSE u.boxes
       /\ v.pos = "loop" /\ v.received = self[p].received
       /\ \A m \in Nodes \ {n} :
             v.phase[m] = IF IsOwner(p, n) /\ n \in input.split /\ IsChild(m, n)
                          THEN "for_data_only" ELSE u.phase[m]
  <2>1. u.acceptance \in [Nodes -> Int]
    BY <1>2 DEF ProcessType
  <2>2. /\ s.phase[n] = "bcast_acceptability" /\ s.acceptance[n] = D
        /\ \A m \in Nodes \ {n} : /\ s.phase[m] = u.phase[m]
                                  /\ s.acceptance[m] = u.acceptance[m]
    BY <2>1, <1>2, <1>7
  <2>3. CASE IsOwner(p, n) /\ n \in input.split /\ v = w
    <3>1. /\ w.phase[n] = "bcast_acceptability"
          /\ \A m \in Nodes \ {n} :
                w.phase[m] = IF IsChild(m, n) THEN "for_data_only" ELSE u.phase[m]
      BY <2>2, <1>8, <1>10
    <3> QED
      BY <2>2, <2>3, <3>1, <1>2, <1>7, <1>8
  <2>4. CASE IsOwner(p, n) /\ n \notin input.split /\ v = s
    BY <2>2, <2>4, <1>2, <1>7
  <2>5. CASE ~IsOwner(p, n) /\ v = o
    <3>1. /\ o.phase[n] = "bcast_acceptability"
          /\ \A m \in Nodes \ {n} : o.phase[m] = u.phase[m]
      BY <1>2, <1>9
    <3> QED
      BY <2>5, <3>1, <1>2, <1>9
  <2> QED
    BY <2>3, <2>4, <2>5, <1>5
<1>12. NodeOK(v, p, n)
  <2>1. PhaseOK(v, p, n)
    BY <1>3, <1>4, <1>11 DEF PhaseOK, NodeOK, Started
  <2>2. AcceptanceOK(v, p, n)
    BY <1>3, <1>11 DEF AcceptanceOK, NodeOK, Unsettled, Splitting, Ended
  <2>3. ToldOK(v, p, n)
    BY <1>11 DEF ToldOK, Gone, Ended
  <2>4. BoxesOK(v, p, n)
    BY <1>3, <1>11 DEF BoxesOK, NodeOK, Splitting, Ended
  <2>5. ComputedOK(v, p, n)
    BY <1>3, <1>11 DEF ComputedOK, NodeOK
  <2> QED
    BY <2>1, <2>2, <2>3, <2>4, <2>5 DEF NodeOK
<1> DEFINE C == {m \in Nodes : IsChild(m, n)}
<1>13. \A m \in Nodes \ ({n} \cup C) : Alike(v, u, m)
  BY <1>11 DEF Alike
<1>14. ASSUME NEW m \in C, m # n PROVE Alike(v, u, m) \/ Renewed(v, u, p, m)
  <2>1. u.phase[m] \in {"none", "for_data_only"} /\ NodeOK(u, p, m)
    BY <1>1, <1>2, <1>3, HalvesUnused DEF KnowsAll, Gone, Ended
  <2>2. m \in v.boxes <=> m \in u.boxes
    BY <1>11, <1>14
  <2>3. CASE IsOwner(p, n) /\ n \in input.split
    BY <2>1, <2>2, <2>3, <1>4, <1>11, <1>14, HalfRenewed
  <2>4. CASE ~(IsOwner(p, n) /\ n \in input.split)
    BY <2>2, <2>4, <1>11, <1>14 DEF Alike
  <2> QED
    BY <2>3, <2>4
<1>15. Renewed(v, u, p, n)
  BY <1>3, <1>11, <1>12 DEF Renewed, Gone, Ended
<1>16. KnowsAll(v, p)
  <2>1. PICK E : E = {m \in Nodes : Renewed(v, u, p, m)}
    OBVIOUS
  <2>2. \A m \in E : Renewed(v, u, p, m)
    BY <2>1
  <2>3. \A m \in Nodes \ E : Alike(v, u, m)
    BY <2>1, <1>13, <1>14, <1>15
  <2> QED
    BY <1>3, <2>2, <2>3, GoesOn
<1>17. \A m \in Nodes : /\ u.phase[m] \in Formers => v.phase[m] \in Formers
                        /\ v.phase[m] \in Formers => u.phase[m] \in Formers
                        /\ Started(v.phase[m]) => Started(u.phase[m])
  <2> TAKE m \in Nodes
  <2>1. CASE m = n
    BY <2>1, <1>3, <1>11 DEF Formers, Ended, Started
  <2>2. CASE m # n
    <3>1. IsChild(m, n) => u.phase[m] \in {"none", "for_data_only"}
      BY <1>1, <1>2, HalvesUnused DEF Gone, Ended
    <3> QED
      BY <2>2, <3>1, <1>11 DEF Formers, Ended, Started
  <2> QED
    BY <2>1, <2>2
<1>18. OutcomeInv'
  BY <1>1, <1>2, <1>4, <1>5, <1>6, <1>16, <1>17, StepKnows
<1> QED
  BY <1>5, <1>11, <1>18 DEF Step, ClusterInv, Typed

\* Where the process ends its part of a node.
LEMMA FinishStep ==
    ASSUME ClusterInv, OutcomeInv, NEW p \in Ranks, NEW n \in Nodes, NEW s, NEW v,
           Ending(s, p, n), v = Finish(p, s, n), Step(p, v), UNCHANGED <<input, node>>,
           s.pos = "loop", s.received = self[p].received,
           Started(self[p].phase[n]),
           IsOwner(p, n) /\ n \in input.split => self[p].phase[n] \in Formers,
           \A m \in Nodes \ {n} :
              \/ s.phase[m] = self[p].phase[m]
              \/ s.phase[m] = "deallocated" /\ self[p].phase[m] = "completed"
    PROVE  OutcomeInv' /\ self'[p].pos = "loop" /\ self'[p].received = self[p].received
<1>1. /\ KnowsAll(v, p) /\ v.pos = s.pos /\ v.received = s.received
      /\ v.phase[n] \in Ended /\ \A m \in Nodes \ {n} : v.phase[m] = s.phase[m]
  BY FinishKnows
<1>2. \A m \in Nodes \ {n} : /\ self[p].phase[m] \in Formers <=> v.phase[m] \in Formers
                             /\ Started(v.phase[m]) <=> Started(self[p].phase[m])
  BY <1>1 DEF Formers, Ended, Started
<1>3. v.phase[n] \in Formers /\ input.split \subseteq Nodes
  BY <1>1, InputFacts DEF Formers, ClusterInv, Typed
<1>4. /\ \A m \in Nodes : self[p].phase[m] \in Formers => v.phase[m] \in Formers
      /\ \A m \in input.split : IsOwner(p, m) /\ v.phase[m] \in Formers
                                     => self[p].phase[m] \in Formers
      /\ \A m \in Nodes : Started(v.phase[m]) => Started(self[p].phase[m])
  BY <1>2, <1>3
<1>5. OutcomeInv'
  BY <1>1, <1>4, StepKnows, GroupsKept
<1> QED
  BY <1>1, <1>5 DEF Step, ClusterInv, Typed

LEMMA AcceptabilityKnows ==
    ASSUME ClusterInv, OutcomeInv, NEW p \in Ranks, NEW n \in Nodes,
           broadcastAcceptability_check(p, n)
    PROVE  OutcomeInv' /\ self'[p].pos = "loop" /\ self'[p].received = self[p].received
<1> PICK u : u = Popped(p)
  OBVIOUS
<1> PICK a : a = IF IsOwner(p, n) THEN self[p].acceptance[n] ELSE Remote(Decision(n))
  OBVIOUS
<1> PICK s : s = [u EXCEPT !.acceptance[n] = a]
  OBVIOUS
<1> DEFINE w == [CreatedChildren(s, n) EXCEPT !.phase[n] = "gather_grouping_criteria"]
<1>1. /\ Current(p) = n /\ self[p].phase[n] = "bcast_acceptability"
      /\ UNCHANGED <<input, node>> /\ input' = input
      /\ Step(p, IF Rejected(a) THEN w ELSE Finish(p, s, n))
  BY DEF broadcastAcceptability_check, Continuing, PhaseOf
<1>2. /\ u \in ProcessType /\ u.phase = self[p].phase /\ u.acceptance = self[p].acceptance
      /\ u.pos = "loop" /\ u.received = self[p].received
      /\ u.phase \in [Nodes -> AllPhases]
  BY <1>1, PoppedFields DEF ProcessType
<1>3. KnowsAll(u, p) /\ NodeOK(u, p, n) /\ u.phase[n] = "bcast_acceptability"
  <2>1. KnowsAll(u, p)
    BY <1>1, PoppedFields
  <2> QED
    BY <2>1, <1>1, <1>2 DEF KnowsAll
<1>4. /\ input \in Inputs /\ input.split \subseteq Nodes
      /\ Participates(p, n) /\ Reached(n)
  <2>1. input \in Inputs
    BY DEF ClusterInv, Typed
  <2> QED
    BY <2>1, <1>3, InputFacts DEF NodeOK, PhaseOK, InGroupOps
<1>5. a = IF IsOwner(p, n) THEN Decision(n) ELSE Remote(Decision(n))
  BY <1>2, <1>3 DEF NodeOK, AcceptanceOK
<1>6. /\ a \in Int /\ (Rejected(a) <=> n \in input.split)
      /\ n \notin input.split => Settled(a, n)
      /\ n \in input.split =>
            a \in {rejected_by_calculation, Remote(rejected_by_calculation)}
  BY <1>4, <1>5, DecisionFacts
<1>7. /\ s.phase = u.phase /\ s.acceptance = [u.acceptance EXCEPT ![n] = a]
      /\ s.boxes = u.boxes /\ s.told = u.told /\ s.computed = u.computed
      /\ s.pos = u.pos /\ s.received = u.received /\ s \in ProcessType
  BY <1>2, <1>6 DEF ProcessType
<1>8. s.acceptance[n] = a /\ \A m \in Nodes \ {n} : Alike(s, u, m)
  BY <1>2, <1>7 DEF Alike, ProcessType
<1>9. \A m \in Nodes : (IsChild(m, n) <=> m \in ChildrenOf(n)) /\ (m \in ChildrenOf(n) => m # n)
  BY ChildrenAreIt
<1>10. ASSUME NEW m \in Nodes, IsChild(m, n)
       PROVE  u.phase[m] \in {"none", "for_data_only"}
  BY <1>1, <1>2, <1>10, HalvesUnused DEF Gone, Ended
<1>11. CASE n \in input.split
  <2>1. PICK v : v = w
    OBVIOUS
  <2>2. PICK ph : ph = "gather_grouping_criteria"
    OBVIOUS
  <2>3. PICK x : x = CreatedChildren(s, n)
    OBVIOUS
  <2>4. v = [x EXCEPT !.phase[n] = ph]
    BY <2>1, <2>2, <2>3
  <2>5. /\ x.phase = [m \in Nodes |-> IF m \in ChildrenOf(n) THEN "for_data_only" ELSE s.phase[m]]
        /\ x.acceptance = s.acceptance /\ x.boxes = s.boxes
        /\ x.told = s.told /\ x.computed = s.computed
        /\ x.pos = s.pos /\ x.received = s.received /\ DOMAIN x = Fields
    <3>1. DOMAIN s = Fields
      BY <1>7, ProcessFields
    <3> QED
      BY <2>3, <3>1 DEF CreatedChildren, Fields
  <2>6. /\ v.phase = [x.phase EXCEPT ![n] = ph]
        /\ v.acceptance = s.acceptance /\ v.boxes = s.boxes
        /\ v.told = s.told /\ v.computed = s.computed
        /\ v.pos = s.pos /\ v.received = s.received
    BY <2>4, <2>5 DEF Fields
  <2>7. /\ v.phase[n] = "gather_grouping_criteria"
        /\ \A m \in Nodes \ {n} :
              v.phase[m] = IF IsChild(m, n) THEN "for_data_only" ELSE u.phase[m]
    BY <2>2, <2>5, <2>6, <1>7, <1>9
  <2>8. NodeOK(v, p, n)
    <3>1. PhaseOK(v, p, n)
      BY <1>3, <1>4, <2>7 DEF PhaseOK, NodeOK, Started
    <3>2. AcceptanceOK(v, p, n)
      <4>1. v.acceptance[n] = a
        BY <1>8, <2>6
      <4> QED
        BY <4>1, <1>6, <1>11, <2>7 DEF AcceptanceOK, Unsettled, Ended
    <3>3. ToldOK(v, p, n)
      BY <2>7 DEF ToldOK, Gone, Ended
    <3>4. BoxesOK(v, p, n)
      BY <1>3, <1>7, <2>6, <2>7 DEF BoxesOK, NodeOK, Splitting, Ended
    <3>5. ComputedOK(v, p, n)
      BY <1>3, <1>7, <2>6, <2>7 DEF ComputedOK, NodeOK
    <3> QED
      BY <3>1, <3>2, <3>3, <3>4, <3>5 DEF NodeOK
  <2>9. Renewed(v, u, p, n)
    BY <1>3, <2>7, <2>8 DEF Renewed, Gone, Ended
  <2>10. ASSUME NEW m \in Nodes, m # n, IsChild(m, n) PROVE Renewed(v, u, p, m)
    <3>1. /\ v.phase[m] = "for_data_only" /\ v.acceptance[m] = u.acceptance[m]
          /\ v.told[m] = u.told[m] /\ (m \in v.boxes <=> m \in u.boxes)
          /\ (m \in v.computed <=> m \in u.computed)
      BY <1>7, <1>8, <2>6, <2>7, <2>10 DEF Alike
    <3>2. u.phase[m] \in {"none", "for_data_only"} /\ NodeOK(u, p, m)
      BY <1>3, <1>10, <2>10 DEF KnowsAll
    <3> QED
      BY <3>1, <3>2, <1>4, <1>11, <2>10, HalfRenewed
  <2>11. ASSUME NEW m \in Nodes, m # n, ~IsChild(m, n) PROVE Alike(v, u, m)
    BY <1>7, <1>8, <2>6, <2>7, <2>11 DEF Alike
  <2>12. KnowsAll(v, p)
    <3>1. PICK E : E = {m \in Nodes : Renewed(v, u, p, m)}
      OBVIOUS
    <3>2. \A m \in E : Renewed(v, u, p, m)
      BY <3>1
    <3>3. \A m \in Nodes \ E : Alike(v, u, m)
      BY <3>1, <2>9, <2>10, <2>11
    <3> QED
      BY <1>3, <3>2, <3>3, GoesOn
  <2>13. ASSUME NEW m \in Nodes
         PROVE  /\ self[p].phase[m] \in Formers <=> v.phase[m] \in Formers
                /\ Started(v.phase[m]) <=> Started(self[p].phase[m])
    <3>1. CASE m = n
      BY <3>1, <1>2, <1>3, <2>7 DEF Formers, Ended, Started
    <3>2. CASE m # n
      BY <3>2, <1>2, <1>10, <2>7 DEF Formers, Ended, Started
    <3> QED
      BY <3>1, <3>2
  <2>14. Step(p, v)
    BY <1>1, <1>6, <1>11, <2>1
  <2>15. OutcomeInv'
    BY <1>1, <1>4, <2>12, <2>13, <2>14, StepKnows, GroupsKept
  <2> QED
    BY <1>2, <1>7, <2>6, <2>14, <2>15 DEF Step, ClusterInv, Typed
<1>12. CASE n \notin input.split
  <2>1. PICK v : v = Finish(p, s, n)
    OBVIOUS
  <2>2. Ending(s, p, n)
    <3>1. PhaseOK(s, p, n) /\ HalfOK(s, p, n)
      BY <1>3, <1>7 DEF KnowsAll, NodeOK, PhaseOK, HalfOK
    <3>2. Started(s.phase[n]) /\ ~Gone(s.phase[n]) /\ n \notin s.computed
      BY <1>3, <1>7 DEF NodeOK, ComputedOK, Started, Gone, Ended
    <3>3. n \in s.boxes <=> IsOwner(p, n) /\ Whole(n)
      BY <1>3, <1>4, <1>7, <1>12, WholeLeaf DEF NodeOK, BoxesOK, Splitting, Ended
    <3>4. \A m \in Nodes \ {n} : NodeOK(s, p, m) /\ HalfOK(s, p, m)
      <4> TAKE m \in Nodes \ {n}
      <4>1. NodeOK(u, p, m) /\ HalfOK(u, p, m)
        BY <1>3 DEF KnowsAll
      <4> QED
        BY <4>1, <1>7, <1>8, AlikeOK DEF HalfOK
    <3>5. \A m \in Nodes : IsChild(m, n) => s.phase[m] # "deallocated"
      BY <1>7, <1>10
    <3>6. s \in ProcessType /\ s.acceptance[n] = a
      BY <1>7, <1>8
    <3> QED
      BY <3>1, <3>2, <3>3, <3>4, <3>5, <3>6, <1>4, <1>6, <1>12 DEF Ending
  <2>3. Step(p, v)
    BY <1>1, <1>6, <1>12, <2>1
  <2>4. s.pos = "loop" /\ s.received = self[p].received /\ s.phase = self[p].phase
    BY <1>2, <1>7
  <2>5. Started(self[p].phase[n])
    BY <1>1 DEF Started
  <2> QED
    BY <1>1, <1>12, <2>1, <2>2, <2>3, <2>4, <2>5, FinishStep
<1> QED
  BY <1>11, <1>12

\* The halves are launched: their groups are formed.
LEMMA ChildGroupsKnows ==
    ASSUME ClusterInv, OutcomeInv, NEW p \in Ranks, NEW n \in Nodes,
           broadcastChildGroups_check(p, n)
    PROVE  OutcomeInv' /\ self'[p].pos = "loop" /\ self'[p].received = self[p].received
<1> PICK u : u = Popped(p)
  OBVIOUS
<1>1. /\ Current(p) = n /\ self[p].phase[n] = "bcast_child_groups" /\ Ends(p, n)
      /\ UNCHANGED <<input, node>> /\ input' = input
      /\ Step(p, Leave([u EXCEPT !.phase[n] = "run_children",
                                 !.phase[Lft(n)] = "to_be_launched",
                                 !.phase[Rht(n)] = "to_be_launched",
                                 !.relaunch = <<Lft(n), Rht(n)>> \o @]))
  BY DEF broadcastChildGroups_check, Continuing, PhaseOf
<1>2. /\ u \in ProcessType /\ u.phase = self[p].phase /\ u.acceptance = self[p].acceptance
      /\ u.pos = "loop" /\ u.received = self[p].received
      /\ u.phase \in [Nodes -> AllPhases]
  BY <1>1, PoppedFields DEF ProcessType
<1>3. KnowsAll(u, p) /\ NodeOK(u, p, n) /\ u.phase[n] = "bcast_child_groups"
  <2>1. KnowsAll(u, p)
    BY <1>1, PoppedFields
  <2> QED
    BY <2>1, <1>1, <1>2 DEF KnowsAll
<1>4. /\ input \in Inputs /\ input.split \subseteq Nodes
      /\ Participates(p, n) /\ Reached(n) /\ n \in input.split
  <2>1. input \in Inputs
    BY DEF ClusterInv, Typed
  <2> QED
    BY <2>1, <1>3, InputFacts DEF NodeOK, PhaseOK, AcceptanceOK, InGroupOps, Splitting
<1>5. PICK a \in Nodes, b \in Nodes : a = Lft(n) /\ b = Rht(n)
  BY <1>4, HalvesFacts
<1>6. /\ a # b /\ a # n /\ b # n
      /\ \A m \in Nodes : IsChild(m, n) <=> m \in {a, b}
  <2>1. n \in Seq(Nat) /\ Len(n) >= 1
    BY NodeFacts
  <2>2. a # b /\ a # n /\ b # n
    BY <2>1, <1>5, BelowFacts DEF ChildrenOf
  <2> QED
    BY <2>2, <1>5, ChildrenAreIt DEF ChildrenOf
<1>7. PICK v : v = Leave([u EXCEPT !.phase[n] = "run_children",
                                   !.phase[Lft(n)] = "to_be_launched",
                                   !.phase[Rht(n)] = "to_be_launched",
                                   !.relaunch = <<Lft(n), Rht(n)>> \o @])
  OBVIOUS
<1>8. /\ v.phase = [[[u.phase EXCEPT ![n] = "run_children"] EXCEPT ![a] = "to_be_launched"]
                        EXCEPT ![b] = "to_be_launched"]
      /\ v.acceptance = u.acceptance /\ v.boxes = u.boxes
      /\ v.told = u.told /\ v.computed = u.computed
      /\ v.pos = u.pos /\ v.received = u.received
  <2>1. PICK r : r = <<a, b>> \o u.relaunch
    OBVIOUS
  <2>2. PICK x, y : x = "run_children" /\ y = "to_be_launched"
    OBVIOUS
  <2>3. v = Leave([u EXCEPT !.phase[n] = x, !.phase[a] = y, !.phase[b] = y, !.relaunch = r])
    BY <2>1, <2>2, <1>2, <1>5, <1>7 DEF ProcessType
  <2>4. /\ v.phase = [[[u.phase EXCEPT ![n] = x] EXCEPT ![a] = y] EXCEPT ![b] = y]
        /\ v.acceptance = u.acceptance /\ v.boxes = u.boxes
        /\ v.told = u.told /\ v.computed = u.computed
        /\ v.pos = u.pos /\ v.received = u.received
    BY <2>3, <1>2 DEF Leave, ProcessType
  <2> QED
    BY <2>2, <2>4
<1>9. /\ v.phase[n] = "run_children"
      /\ \A m \in Nodes \ {n} :
            v.phase[m] = IF IsChild(m, n) THEN "to_be_launched" ELSE u.phase[m]
  <2>1. /\ v.phase[n] = "run_children" /\ v.phase[a] = "to_be_launched"
        /\ v.phase[b] = "to_be_launched"
    BY <1>2, <1>5, <1>6, <1>8
  <2>2. \A m \in Nodes \ {n, a, b} : v.phase[m] = u.phase[m]
    BY <1>2, <1>5, <1>6, <1>8
  <2> QED
    BY <2>1, <2>2, <1>6
<1>10. ASSUME NEW m \in Nodes, IsChild(m, n)
       PROVE  u.phase[m] \in {"none", "for_data_only"}
  BY <1>1, <1>2, <1>10, HalvesUnused DEF Gone, Ended
<1>11. NodeOK(v, p, n)
  <2>1. PhaseOK(v, p, n)
    BY <1>3, <1>4, <1>9 DEF PhaseOK, NodeOK, Started
  <2>2. AcceptanceOK(v, p, n)
    BY <1>3, <1>8, <1>9 DEF AcceptanceOK, NodeOK, Unsettled, Splitting, Ended
  <2>3. ToldOK(v, p, n)
    BY <1>9 DEF ToldOK, Gone, Ended
  <2>4. BoxesOK(v, p, n)
    BY <1>3, <1>8, <1>9 DEF BoxesOK, NodeOK, Splitting, Ended
  <2>5. ComputedOK(v, p, n)
    BY <1>3, <1>8, <1>9 DEF ComputedOK, NodeOK
  <2> QED
    BY <2>1, <2>2, <2>3, <2>4, <2>5 DEF NodeOK
<1>12. Renewed(v, u, p, n)
  BY <1>3, <1>9, <1>11 DEF Renewed, Gone, Ended
<1>13. ASSUME NEW m \in Nodes, m # n, IsChild(m, n) PROVE Renewed(v, u, p, m)
  <2>1. /\ v.phase[m] = "to_be_launched" /\ v.acceptance[m] = u.acceptance[m]
        /\ v.told[m] = u.told[m] /\ (m \in v.boxes <=> m \in u.boxes)
        /\ (m \in v.computed <=> m \in u.computed)
    BY <1>8, <1>9, <1>13
  <2>2. u.phase[m] \in {"none", "for_data_only"} /\ NodeOK(u, p, m)
    BY <1>3, <1>10, <1>13 DEF KnowsAll
  <2> QED
    BY <2>1, <2>2, <1>4, <1>13, HalfRenewed
<1>14. ASSUME NEW m \in Nodes, m # n, ~IsChild(m, n) PROVE Alike(v, u, m)
  BY <1>8, <1>9, <1>14 DEF Alike
<1>15. KnowsAll(v, p)
  <2>1. PICK E : E = {m \in Nodes : Renewed(v, u, p, m)}
    OBVIOUS
  <2>2. \A m \in E : Renewed(v, u, p, m)
    BY <2>1
  <2>3. \A m \in Nodes \ E : Alike(v, u, m)
    BY <2>1, <1>12, <1>13, <1>14
  <2> QED
    BY <1>3, <2>2, <2>3, GoesOn
<1>16. self[node[n].owner].phase[n] \in Formers
  <2>1. CASE IsOwner(p, n)
    BY <2>1, <1>1 DEF IsOwner, Formers
  <2>2. CASE ~IsOwner(p, n)
    <3>1. PICK q \in Ranks : q = node[n].owner
      BY DEF ClusterInv, Typed, NodeType
    <3>2. self[q].phase[n] \in AllPhases
      BY SelfFacts
    <3>3. MayEnd(p, n) /\ "bcast_child_groups" \in Bcasts
      BY <1>1 DEF Ends, Bcasts
    <3>4. Order[self[q].phase[n]] >= Order["bcast_child_groups"]
      BY <3>1, <3>3, <2>2, <1>1, OwnerBegun
    <3> QED
      BY <3>1, <3>2, <3>4, OrderFacts
  <2> QED
    BY <2>1, <2>2
<1>17. ASSUME NEW m \in Nodes
       PROVE  /\ self[p].phase[m] \in Formers <=> v.phase[m] \in Formers
              /\ Started(v.phase[m]) => Started(self[p].phase[m]) \/ Formed(m)
  <2>1. CASE m = n
    BY <2>1, <1>2, <1>3, <1>9 DEF Formers, Ended, Started
  <2>2. CASE m # n /\ IsChild(m, n)
    <3>1. Formed(m)
      BY <2>2, <1>4, <1>16 DEF Formed, IsChild
    <3> QED
      BY <2>2, <3>1, <1>2, <1>9, <1>10 DEF Formers, Ended
  <2>3. CASE m # n /\ ~IsChild(m, n)
    BY <2>3, <1>2, <1>9
  <2> QED
    BY <2>1, <2>2, <2>3
<1>18. Step(p, v)
  BY <1>1, <1>7
<1>19. OutcomeInv'
  BY <1>1, <1>4, <1>15, <1>17, <1>18, StepKnows, GroupsKept
<1> QED
  BY <1>2, <1>8, <1>18, <1>19 DEF Step, ClusterInv, Typed

LEMMA ToldFacts ==
    ASSUME NEW n, NEW a, Settled(a, n), ~IsRoot(n)
    PROVE  /\ FromDropoutBcast(a) = IF Whole(n) THEN accepted_by_dropout_bcast
                                               ELSE rejected_by_dropout_bcast
           /\ FromDropoutBcast(a) \in Int
<1>1. a \in {0, 1, 2, 3, 5} /\ (Accepted(a) <=> Whole(n))
  BY DEF Settled, Remote, rejected_by_calculation, accepted_by_calculation,
         accepted_by_recombination, hasnotag_by_owner
<1>2. Accepted(a) <=> a \in {1, 3, 5}
  BY <1>1 DEF Accepted
<1>3. a % 2 = IF a \in {1, 3, 5} THEN 1 ELSE 0
  BY <1>1
<1> QED
  BY <1>1, <1>2, <1>3
     DEF FromDropoutBcast, accepted_by_dropout_bcast, rejected_by_dropout_bcast

\* A process that dropped out is told what the owner has settled.
LEMMA DropoutsKnow ==
    ASSUME ClusterInv, OutcomeInv, NEW p \in Ranks, NEW n \in Nodes,
           broadcastToDropouts_check(p, n)
    PROVE  OutcomeInv' /\ self'[p].pos = "loop" /\ self'[p].received = self[p].received
<1> PICK u : u = Popped(p)
  OBVIOUS
<1> PICK a : a = FromDropoutBcast(self[node[n].owner].told[n])
  OBVIOUS
<1>a. PICK s : s = IF IsOwner(p, n) THEN u ELSE [u EXCEPT !.acceptance[n] = a]
  OBVIOUS
<1>b. PICK v : v = Complete(s, n)
  OBVIOUS
<1>1. /\ Current(p) = n /\ self[p].phase[n] = "bcast_to_dropouts" /\ Ends(p, n)
      /\ UNCHANGED <<input, node>> /\ input' = input /\ Step(p, v)
  BY <1>a, <1>b DEF broadcastToDropouts_check, Continuing, PhaseOf
<1>2. /\ u \in ProcessType /\ u.phase = self[p].phase /\ u.acceptance = self[p].acceptance
      /\ u.pos = "loop" /\ u.received = self[p].received
      /\ u.phase \in [Nodes -> AllPhases] /\ u.acceptance \in [Nodes -> Int]
  BY <1>1, PoppedFields DEF ProcessType
<1>3. KnowsAll(u, p) /\ NodeOK(u, p, n) /\ u.phase[n] = "bcast_to_dropouts"
  <2>1. KnowsAll(u, p)
    BY <1>1, PoppedFields
  <2> QED
    BY <2>1, <1>1, <1>2 DEF KnowsAll
<1>4. /\ HasDropouts(n) /\ ~IsRoot(n) /\ (Participates(p, n) => IsOwner(p, n))
      /\ (IsOwner(p, n) => Participates(p, n))
  BY <1>3 DEF NodeOK, PhaseOK, HasDropouts, Participates
<1>5. ~IsOwner(p, n) =>
         /\ a \in Int
         /\ a = IF Whole(n) THEN accepted_by_dropout_bcast ELSE rejected_by_dropout_bcast
  <2> SUFFICES ASSUME ~IsOwner(p, n)
               PROVE  /\ a \in Int
                      /\ a = IF Whole(n) THEN accepted_by_dropout_bcast
                                         ELSE rejected_by_dropout_bcast
    OBVIOUS
  <2>1. PICK q \in Ranks : q = node[n].owner
    BY DEF ClusterInv, Typed, NodeType
  <2>2. self[q].phase[n] \in AllPhases
    BY SelfFacts
  <2>3. MayEnd(p, n) /\ "bcast_to_dropouts" \in Bcasts
    BY <1>1 DEF Ends, Bcasts
  <2>4. Order[self[q].phase[n]] >= Order["bcast_to_dropouts"]
    BY <2>1, <2>3, <1>1, OwnerBegun
  <2>5. Gone(self[q].phase[n]) /\ IsOwner(q, n)
    BY <2>1, <2>2, <2>4, OrderFacts DEF IsOwner
  <2>6. Settled(self[q].told[n], n)
    BY <2>5, <1>4 DEF OutcomeInv, KnowsAll, NodeOK, ToldOK
  <2> QED
    BY <2>1, <2>6, <1>4, ToldFacts
<1>6. /\ s \in ProcessType /\ s.phase = u.phase /\ s.told = u.told /\ s.boxes = u.boxes
      /\ s.computed = u.computed /\ s.pos = u.pos /\ s.received = u.received
      /\ s.acceptance = IF IsOwner(p, n) THEN u.acceptance
                        ELSE [u.acceptance EXCEPT ![n] = a]
  BY <1>a, <1>2, <1>5 DEF ProcessType
<1>7. /\ v.phase = [u.phase EXCEPT ![n] = "completed"] /\ v.acceptance = s.acceptance
      /\ v.told = u.told /\ v.boxes = u.boxes /\ v.computed = u.computed
      /\ v.pos = u.pos /\ v.received = u.received
  <2>1. s \in ProcessType
    BY <1>6
  <2>2. /\ v.phase = [s.phase EXCEPT ![n] = "completed"] /\ v.acceptance = s.acceptance
        /\ v.told = s.told /\ v.boxes = s.boxes /\ v.computed = s.computed
        /\ v.pos = s.pos /\ v.received = s.received
    BY <1>b, <2>1, CompleteFields
  <2> QED
    BY <2>2, <1>6
<1>8. /\ v.phase[n] = "completed"
      /\ v.acceptance[n] = IF IsOwner(p, n) THEN u.acceptance[n] ELSE a
      /\ \A m \in Nodes \ {n} : Alike(v, u, m)
  <2>1. /\ v.phase[n] = "completed"
        /\ \A m \in Nodes \ {n} : v.phase[m] = u.phase[m]
    BY <1>2, <1>7
  <2>2. /\ v.acceptance[n] = IF IsOwner(p, n) THEN u.acceptance[n] ELSE a
        /\ \A m \in Nodes \ {n} : v.acceptance[m] = u.acceptance[m]
    BY <1>2, <1>6, <1>7
  <2> QED
    BY <2>1, <2>2, <1>7 DEF Alike
<1>9. NodeOK(v, p, n)
  <2>1. PhaseOK(v, p, n)
    BY <1>3, <1>8 DEF PhaseOK, NodeOK, Started, InGroupOps
  <2>2. AcceptanceOK(v, p, n)
    BY <1>3, <1>4, <1>5, <1>8 DEF AcceptanceOK, NodeOK, Unsettled, Splitting, Ended
  <2>3. ToldOK(v, p, n)
    BY <1>3, <1>7, <1>8 DEF ToldOK, NodeOK, Gone, Ended
  <2>4. BoxesOK(v, p, n)
    BY <1>3, <1>7, <1>8 DEF BoxesOK, NodeOK, Splitting, Ended
  <2>5. ComputedOK(v, p, n)
    BY <1>3, <1>4, <1>7, <1>8 DEF ComputedOK, NodeOK
  <2> QED
    BY <2>1, <2>2, <2>3, <2>4, <2>5 DEF NodeOK
<1>10. ASSUME NEW m \in Nodes
       PROVE  /\ Gone(v.phase[m]) <=> Gone(u.phase[m])
              /\ v.phase[m] = "deallocated" <=> u.phase[m] = "deallocated"
              /\ Started(v.phase[m]) <=> Started(self[p].phase[m])
              /\ self[p].phase[m] \in Formers <=> v.phase[m] \in Formers
  <2>1. CASE m = n
    BY <2>1, <1>1, <1>3, <1>8 DEF Gone, Ended, Started, Formers
  <2>2. CASE m # n
    BY <2>2, <1>2, <1>8 DEF Alike
  <2> QED
    BY <2>1, <2>2
<1>11. KnowsAll(v, p)
  <2> SUFFICES ASSUME NEW m \in Nodes PROVE NodeOK(v, p, m) /\ HalfOK(v, p, m)
    BY DEF KnowsAll
  <2>1. NodeOK(v, p, m)
    BY <1>3, <1>8, <1>9, AlikeOK DEF KnowsAll
  <2>2. HalfOK(v, p, m)
    <3>1. IsRoot(m) \/ ParentOf(m) \in Nodes
      BY AboveFacts
    <3>2. HalfOK(u, p, m)
      BY <1>3 DEF KnowsAll
    <3> QED
      BY <1>10, <3>1, <3>2 DEF HalfOK
  <2> QED
    BY <2>1, <2>2
<1>12. OutcomeInv'
  <2>1. input.split \subseteq Nodes
    BY InputFacts DEF ClusterInv, Typed
  <2> QED
    BY <2>1, <1>1, <1>10, <1>11, StepKnows, GroupsKept
<1> QED
  BY <1>1, <1>2, <1>7, <1>12 DEF Step, ClusterInv, Typed

LEMMA DeletedFields ==
    ASSUME NEW s \in ProcessType, NEW n, NEW w, w = DeletedChildren(s, n)
    PROVE  /\ w \in ProcessType
           /\ \A m \in Nodes : w.phase[m] =
                 IF m \in ChildrenOf(n) THEN "deallocated" ELSE s.phase[m]
           /\ \A m \in Nodes : w.acceptance[m] =
                 IF m \in ChildrenOf(n) THEN undetermined ELSE s.acceptance[m]
           /\ w.told = s.told /\ w.boxes = s.boxes /\ w.computed = s.computed
           /\ w.pos = s.pos /\ w.received = s.received
<1>1. PICK phase : phase = [m \in Nodes |->
                               IF m \in ChildrenOf(n) THEN "deallocated" ELSE s.phase[m]]
  OBVIOUS
<1>2. PICK acceptance : acceptance = [m \in Nodes |->
                               IF m \in ChildrenOf(n) THEN undetermined ELSE s.acceptance[m]]
  OBVIOUS
<1>3. phase \in [Nodes -> AllPhases]
  <2>1. s.phase \in [Nodes -> AllPhases] /\ "deallocated" \in AllPhases
    BY DEF ProcessType, AllPhases
  <2> QED
    BY <1>1, <2>1
<1>4. acceptance \in [Nodes -> Int]
  <2>1. s.acceptance \in [Nodes -> Int] /\ undetermined \in Int
    BY DEF ProcessType, undetermined
  <2> QED
    BY <1>2, <2>1
<1>5. w = [s EXCEPT !.phase = phase, !.acceptance = acceptance]
  BY <1>1, <1>2 DEF DeletedChildren, ProcessType
<1>6. /\ w \in ProcessType /\ w.phase = phase /\ w.acceptance = acceptance
      /\ w.told = s.told /\ w.boxes = s.boxes /\ w.computed = s.computed
      /\ w.pos = s.pos /\ w.received = s.received
  BY <1>3, <1>4, <1>5 DEF ProcessType
<1> QED
  BY <1>1, <1>2, <1>6

\* What the children are found to be.
LEMMA ChildVerdict ==
    ASSUME NEW u, NEW p, NEW c, NodeOK(u, p, c), u.phase[c] = "completed", ~IsRoot(c)
    PROVE  /\ Accepted(u.acceptance[c]) <=> Whole(c)
           /\ Whole(c) => (u.acceptance[c] # accepted_by_dropout_bcast <=> Participates(p, c))
<1>1. CASE Participates(p, c)
  <2>1. Settled(u.acceptance[c], c)
    BY <1>1 DEF NodeOK, AcceptanceOK, Ended
  <2> QED
    BY <1>1, <2>1 DEF Settled, accepted_by_dropout_bcast, Remote, hasnotag_by_owner,
         rejected_by_calculation, accepted_by_calculation, accepted_by_recombination
<1>2. CASE ~Participates(p, c)
  <2>1. u.acceptance[c] = IF Whole(c) THEN 7 ELSE 6
    BY <1>2 DEF NodeOK, AcceptanceOK, accepted_by_dropout_bcast, rejected_by_dropout_bcast
  <2>2. Accepted(7) /\ ~Accepted(6)
    BY DEF Accepted
  <2> QED
    BY <1>2, <2>1, <2>2 DEF accepted_by_dropout_bcast
<1> QED
  BY <1>1, <1>2

\* The state r after Recombined, and after Kept, on state u.
IsRecombined(r, p, u, n) ==
    /\ r \in ProcessType /\ r.phase = u.phase /\ r.told = u.told
    /\ r.computed = u.computed /\ r.pos = u.pos /\ r.received = u.received
    /\ \A x : x \in r.boxes <=> x \in u.boxes /\ x \notin Own(p, ChildrenOf(n))
    /\ r.acceptance[n] = accepted_by_recombination
    /\ \A m \in Nodes \ {n} : r.acceptance[m] = u.acceptance[m]

IsKept(r, p, u, n) ==
    /\ r \in ProcessType /\ r.phase = u.phase /\ r.told = u.told
    /\ r.acceptance = u.acceptance /\ r.pos = u.pos /\ r.received = u.received
    /\ \A x : x \in r.boxes <=> x \in u.boxes /\ x \notin Own(p, {n})
    /\ \A x : x \in r.computed <=>
          \/ x \in u.computed
          \/ /\ x \in ChildrenOf(n) /\ Accepted(u.acceptance[x])
             /\ u.acceptance[x] # accepted_by_dropout_bcast

LEMMA RecombinedFields ==
    ASSUME NEW p, NEW u \in ProcessType, NEW n \in Nodes, NEW r, r = Recombined(p, u, n)
    PROVE  IsRecombined(r, p, u, n)
<1>1. PICK B : B = u.boxes \ Own(p, ChildrenOf(n))
  OBVIOUS
<1>2. PICK A : A = [u.acceptance EXCEPT ![n] = accepted_by_recombination]
  OBVIOUS
<1>3. B \in SUBSET Nodes /\ A \in [Nodes -> Int]
  BY <1>1, <1>2 DEF ProcessType, accepted_by_recombination
<1>4. r = [u EXCEPT !.acceptance = A, !.boxes = B]
  BY <1>1, <1>2 DEF Recombined, ProcessType
<1>5. /\ r \in ProcessType /\ r.phase = u.phase /\ r.told = u.told
      /\ r.computed = u.computed /\ r.pos = u.pos /\ r.received = u.received
      /\ r.boxes = B /\ r.acceptance = A
  BY <1>3, <1>4 DEF ProcessType
<1>6. A[n] = accepted_by_recombination /\ \A m \in Nodes \ {n} : A[m] = u.acceptance[m]
  BY <1>2 DEF ProcessType
<1> QED
  BY <1>1, <1>5, <1>6 DEF IsRecombined

LEMMA KeptFields ==
    ASSUME NEW p, NEW u \in ProcessType, NEW n, ChildrenOf(n) \subseteq Nodes,
           NEW r, r = Kept(p, u, n)
    PROVE  IsKept(r, p, u, n)
<1>1. PICK B : B = u.boxes \ Own(p, {n})
  OBVIOUS
<1>2. PICK C : C = u.computed \cup
                 {c \in ChildrenOf(n) : /\ Accepted(u.acceptance[c])
                                        /\ u.acceptance[c] # accepted_by_dropout_bcast}
  OBVIOUS
<1>3. B \in SUBSET Nodes /\ C \in SUBSET Nodes
  BY <1>1, <1>2 DEF ProcessType
<1>4. r = [u EXCEPT !.boxes = B, !.computed = C]
  BY <1>1, <1>2 DEF Kept, ProcessType
<1>5. /\ r \in ProcessType /\ r.phase = u.phase /\ r.told = u.told
      /\ r.acceptance = u.acceptance /\ r.pos = u.pos /\ r.received = u.received
      /\ r.boxes = B /\ r.computed = C
  BY <1>3, <1>4 DEF ProcessType
<1> QED
  BY <1>1, <1>2, <1>5 DEF IsKept

\* The halves are recombined when the box is whole, and kept otherwise.
LEMMA RunKnows ==
    ASSUME ClusterInv, OutcomeInv, NEW p \in Ranks, NEW n \in Nodes, runChildren_check(p, n)
    PROVE  OutcomeInv' /\ self'[p].pos = "loop" /\ self'[p].received = self[p].received
<1>a. PICK u : u = Popped(p)
  OBVIOUS
<1>b. PICK s : s = IF Recombines(self[p], n) THEN Recombined(p, u, n) ELSE Kept(p, u, n)
  OBVIOUS
<1>c. PICK w : w = DeletedChildren(s, n)
  OBVIOUS
<1>1. /\ Current(p) = n /\ self[p].phase[n] = "run_children"
      /\ UNCHANGED <<input, node>>
      /\ Step(p, IF ChildrenCompleted(p, n) THEN Finish(p, w, n) ELSE Leave(u))
  BY <1>a, <1>b, <1>c DEF runChildren_check, Continuing, PhaseOf
<1>2. /\ u \in ProcessType /\ u.phase = self[p].phase /\ u.acceptance = self[p].acceptance
      /\ u.pos = "loop" /\ u.received = self[p].received
      /\ u.phase \in [Nodes -> AllPhases] /\ u.acceptance \in [Nodes -> Int]
  BY <1>a, <1>1, PoppedFields DEF ProcessType
<1>3. KnowsAll(u, p) /\ NodeOK(u, p, n) /\ u.phase[n] = "run_children"
  <2>1. KnowsAll(u, p)
    BY <1>a, <1>1, PoppedFields
  <2> QED
    BY <2>1, <1>1, <1>2 DEF KnowsAll
<1>4. /\ input \in Inputs /\ Participates(p, n) /\ Reached(n) /\ n \in input.split
      /\ n \in Nodes /\ ChildrenOf(n) \subseteq Nodes
  <2>1. input \in Inputs
    BY DEF ClusterInv, Typed
  <2>2. n \in input.split
    BY <1>3 DEF NodeOK, AcceptanceOK, Splitting
  <2> QED
    BY <2>1, <2>2, <1>3, HalvesFacts DEF NodeOK, PhaseOK, ChildrenOf
<1>5. /\ \A c \in ChildrenOf(n) : u.phase[c] = "completed"
      /\ ChildrenCompleted(p, n)
  <2>1. Taken(u, n, input.split)
    BY <1>a, <1>1, Takes
  <2>2. n \in Ready(u)
    BY <2>1, <1>3 DEF Taken
  <2> QED
    BY <2>2, <1>2, <1>3 DEF Ready, ChildrenCompleted, PhaseOf
<1>6. ASSUME NEW c \in ChildrenOf(n)
      PROVE  /\ c \in Nodes /\ c # n /\ IsChild(c, n) /\ ~IsRoot(c) /\ ParentOf(c) = n
             /\ u.phase[c] = "completed" /\ NodeOK(u, p, c)
             /\ Accepted(u.acceptance[c]) <=> Whole(c)
             /\ Whole(c) => (u.acceptance[c] # accepted_by_dropout_bcast <=> Participates(p, c))
  <2>1. /\ c \in Nodes /\ c # n /\ IsChild(c, n) /\ ~IsRoot(c) /\ ParentOf(c) = n
        /\ u.phase[c] = "completed"
    BY <1>4, <1>5, ChildrenAreIt DEF IsChild
  <2>2. NodeOK(u, p, c)
    BY <2>1, <1>3 DEF KnowsAll
  <2> QED
    BY <2>1, <2>2, ChildVerdict
<1>7. Recombines(self[p], n) <=> Whole(n)
  BY <1>2, <1>4, <1>6, WholeSplit DEF Recombines
<1>8. /\ s \in ProcessType /\ s.phase = u.phase /\ s.told = u.told
      /\ s.pos = u.pos /\ s.received = u.received
      /\ s.acceptance[n] = IF Whole(n) THEN accepted_by_recombination ELSE u.acceptance[n]
      /\ \A m \in Nodes \ {n} : s.acceptance[m] = u.acceptance[m]
      /\ \A x : x \in s.boxes <=>
            x \in u.boxes /\ x \notin Own(p, IF Whole(n) THEN ChildrenOf(n) ELSE {n})
      /\ \A x : x \in s.computed <=>
            \/ x \in u.computed
            \/ /\ ~Whole(n) /\ x \in ChildrenOf(n) /\ Accepted(u.acceptance[x])
               /\ u.acceptance[x] # accepted_by_dropout_bcast
  <2>1. CASE Whole(n)
    <3>1. s = Recombined(p, u, n)
      BY <2>1, <1>b, <1>7
    <3>2. u \in ProcessType
      BY <1>2
    <3>3. IsRecombined(s, p, u, n)
      BY <3>1, <3>2, RecombinedFields
    <3> QED
      BY <2>1, <3>3 DEF IsRecombined
  <2>2. CASE ~Whole(n)
    <3>1. s = Kept(p, u, n)
      BY <2>2, <1>b, <1>7
    <3>2. u \in ProcessType /\ ChildrenOf(n) \subseteq Nodes
      BY <1>2, <1>4
    <3>3. IsKept(s, p, u, n)
      BY <3>1, <3>2, KeptFields
    <3> QED
      BY <2>2, <3>3 DEF IsKept
  <2> QED
    BY <2>1, <2>2
<1>9. /\ w \in ProcessType
      /\ \A m \in Nodes : w.phase[m] =
            IF m \in ChildrenOf(n) THEN "deallocated" ELSE u.phase[m]
      /\ \A m \in Nodes : w.acceptance[m] =
            IF m \in ChildrenOf(n) THEN undetermined ELSE s.acceptance[m]
      /\ w.told = u.told /\ w.boxes = s.boxes /\ w.computed = s.computed
      /\ w.pos = u.pos /\ w.received = u.received
  <2>1. s \in ProcessType
    BY <1>8
  <2>2. /\ w \in ProcessType
        /\ \A m \in Nodes : w.phase[m] =
              IF m \in ChildrenOf(n) THEN "deallocated" ELSE s.phase[m]
        /\ \A m \in Nodes : w.acceptance[m] =
              IF m \in ChildrenOf(n) THEN undetermined ELSE s.acceptance[m]
        /\ w.told = s.told /\ w.boxes = s.boxes /\ w.computed = s.computed
        /\ w.pos = s.pos /\ w.received = s.received
    BY <1>c, <2>1, DeletedFields
  <2> QED
    BY <2>2, <1>8
<1>10. n \notin ChildrenOf(n)
  BY <1>6
<1>11. ASSUME NEW m \in Nodes \ {n}, m \notin ChildrenOf(n) PROVE Alike(w, u, m)
  <2>1. w.phase[m] = u.phase[m] /\ w.acceptance[m] = u.acceptance[m]
    BY <1>2, <1>8, <1>9, <1>11
  <2>2. (m \in w.boxes <=> m \in u.boxes) /\ (m \in w.computed <=> m \in u.computed)
    BY <1>8, <1>9, <1>11 DEF Own
  <2> QED
    BY <2>1, <2>2, <1>9 DEF Alike
<1>12. ASSUME NEW c \in ChildrenOf(n) PROVE NodeOK(w, p, c)
  <2>1. /\ c \in Nodes /\ ~IsRoot(c) /\ ParentOf(c) = n /\ u.phase[c] = "completed"
        /\ NodeOK(u, p, c) /\ c # n
    BY <1>6
  <2>2. w.phase[c] = "deallocated" /\ w.acceptance[c] = undetermined
    BY <2>1, <1>9
  <2>3. PhaseOK(w, p, c)
    BY <2>1, <2>2 DEF PhaseOK, NodeOK, Started, InGroupOps
  <2>4. AcceptanceOK(w, p, c)
    BY <2>2 DEF AcceptanceOK, Splitting, Ended
  <2>5. ToldOK(w, p, c)
    BY <2>1, <1>9 DEF ToldOK, NodeOK, Gone, Ended
  <2>6. BoxesOK(w, p, c)
    <3>1. c \in u.boxes <=> IsOwner(p, c) /\ c \notin input.untagged /\ Whole(c)
      BY <2>1 DEF BoxesOK, NodeOK, Ended, Splitting
    <3>2. c \in w.boxes <=> c \in u.boxes /\ ~(Whole(n) /\ IsOwner(p, c))
      BY <2>1, <1>8, <1>9 DEF Own
    <3> QED
      BY <2>1, <2>2, <3>1, <3>2 DEF BoxesOK, Ended, Splitting
  <2>7. ComputedOK(w, p, c)
    <3>1. c \notin u.computed
      BY <2>1 DEF ComputedOK, NodeOK
    <3>2. c \in w.computed <=> /\ ~Whole(n) /\ Accepted(u.acceptance[c])
                               /\ u.acceptance[c] # accepted_by_dropout_bcast
      BY <3>1, <1>8, <1>9
    <3>3. c \in w.computed <=> ~Whole(n) /\ Whole(c) /\ Participates(p, c)
      BY <3>2, <1>6
    <3> QED
      BY <2>1, <2>2, <3>3 DEF ComputedOK
  <2> QED
    BY <2>3, <2>4, <2>5, <2>6, <2>7 DEF NodeOK
<1>13. ASSUME NEW m \in Nodes \ {n} PROVE NodeOK(w, p, m)
  <2>1. NodeOK(u, p, m)
    BY <1>3 DEF KnowsAll
  <2> QED
    BY <2>1, <1>11, <1>12, AlikeOK
<1>14. /\ w.phase[n] = "run_children"
       /\ \A m \in Nodes : w.phase[m] = u.phase[m] \/
             (IsChild(m, n) /\ w.phase[m] = "deallocated" /\ u.phase[m] = "completed")
       /\ \A m \in Nodes : IsChild(m, n) => w.phase[m] = "deallocated"
       /\ \A m \in Nodes : ~IsChild(m, n) => w.phase[m] = u.phase[m]
  <2>1. \A m \in Nodes : IsChild(m, n) <=> m \in ChildrenOf(n)
    BY ChildrenAreIt
  <2> QED
    BY <2>1, <1>3, <1>5, <1>9, <1>10
<1>15. ASSUME NEW m \in Nodes, ~IsChild(m, n) PROVE HalfOK(w, p, m)
  <2>1. HalfOK(u, p, m) /\ w.phase[m] = u.phase[m]
    BY <1>3, <1>14, <1>15 DEF KnowsAll
  <2>2. IsRoot(m) \/ ParentOf(m) \in Nodes
    BY AboveFacts
  <2>3. ~IsRoot(m) => (Gone(w.phase[ParentOf(m)]) <=> Gone(u.phase[ParentOf(m)]))
    BY <2>2, <1>14 DEF Gone, Ended
  <2> QED
    BY <2>1, <2>3 DEF HalfOK
<1>16. Ending(w, p, n)
  <2>1. PhaseOK(w, p, n)
    BY <1>3, <1>14 DEF PhaseOK, NodeOK
  <2>2. HalfOK(w, p, n)
    <3>1. ~IsChild(n, n)
      BY ChildrenAreIt
    <3> QED
      BY <3>1, <1>15
  <2>3. Started(w.phase[n]) /\ ~Gone(w.phase[n])
    BY <1>14 DEF Started, Gone, Ended
  <2>4. n \notin w.computed
    <3>1. n \notin u.computed
      BY <1>3 DEF NodeOK, ComputedOK
    <3> QED
      BY <3>1, <1>8, <1>9, <1>10
  <2>5. n \in w.boxes <=> IsOwner(p, n) /\ Whole(n)
    <3>1. n \in u.boxes <=> IsOwner(p, n) /\ n \notin input.untagged
      BY <1>3 DEF NodeOK, BoxesOK, Splitting, Ended
    <3>2. n \notin input.untagged
      BY <1>4, UntaggedFacts
    <3>3. n \in w.boxes <=> n \in u.boxes /\ ~(~Whole(n) /\ IsOwner(p, n))
      BY <1>8, <1>9, <1>10 DEF Own
    <3> QED
      BY <3>1, <3>2, <3>3
  <2>6. Settled(w.acceptance[n], n)
    <3>1. CASE Whole(n)
      <4>1. w.acceptance[n] = accepted_by_recombination
        BY <3>1, <1>2, <1>8, <1>9, <1>10
      <4> QED
        BY <3>1, <4>1 DEF Settled, Accepted, accepted_by_recombination, hasnotag_by_owner
    <3>2. CASE ~Whole(n)
      <4>1. w.acceptance[n] = u.acceptance[n]
        BY <3>2, <1>8, <1>9, <1>10
      <4>2. u.acceptance[n] \in {rejected_by_calculation, Remote(rejected_by_calculation)}
        BY <1>3 DEF NodeOK, AcceptanceOK, Splitting
      <4>3. w.acceptance[n] \in {0, 2} /\ Remote(rejected_by_calculation) = 2
        BY <4>1, <4>2 DEF Remote, rejected_by_calculation
      <4>4. ~Accepted(w.acceptance[n])
        BY <4>3 DEF Accepted
      <4> QED
        BY <3>2, <4>3, <4>4 DEF Settled, rejected_by_calculation, hasnotag_by_owner
    <3> QED
      BY <3>1, <3>2
  <2>7. \A m \in Nodes \ {n} : NodeOK(w, p, m) /\ (IsChild(m, n) \/ HalfOK(w, p, m))
    BY <1>13, <1>15
  <2>8. \A m \in Nodes : IsChild(m, n) =>
          (w.phase[m] = "deallocated" <=> n \in input.split /\ Participates(p, n))
    BY <1>4, <1>14
  <2>9. w \in ProcessType
    BY <1>9
  <2> QED
    BY <2>1, <2>2, <2>3, <2>4, <2>5, <2>6, <2>7, <2>8, <2>9, <1>4 DEF Ending
<1>17. PICK v : v = Finish(p, w, n)
  OBVIOUS
<1>18. Step(p, v)
  BY <1>1, <1>5, <1>17
<1>19. /\ w.pos = "loop" /\ w.received = self[p].received
       /\ Started(self[p].phase[n]) /\ self[p].phase[n] \in Formers
  BY <1>1, <1>2, <1>9 DEF Started, Formers
<1>20. \A m \in Nodes \ {n} :
              \/ w.phase[m] = self[p].phase[m]
              \/ w.phase[m] = "deallocated" /\ self[p].phase[m] = "completed"
  BY <1>2, <1>14
<1> QED
  BY <1>1, <1>16, <1>17, <1>18, <1>19, <1>20, FinishStep

\* The groups of the halves: those with overlap, and the owner.
LEMMA FormFacts ==
    ASSUME ClusterInv, NEW p \in Ranks, NEW n \in input.split, formChildGroups(p, n)
    PROVE  /\ \A c \in ChildrenOf(n) :
                 /\ node'[c].group = input.overlap[c] \cup {node'[c].owner}
                 /\ node'[c].owner \in input.overlap[c] \cup {p}
                 /\ input.overlap[c] \subseteq input.overlap[n]
           /\ \A m \in Nodes : m \notin ChildrenOf(n) => SameGroups(m)
<1>1. /\ input \in Inputs /\ node \in [Nodes -> NodeType]
  BY DEF ClusterInv, Typed
<1>2. PICK lft \in ChildOwners(p, n, Lft(n)), rht \in ChildOwners(p, n, Rht(n)) :
        node' = [node EXCEPT ![Lft(n)].owner = lft, ![Lft(n)].group = ChildGroup(p, n, Lft(n)),
                             ![Rht(n)].owner = rht, ![Rht(n)].group = ChildGroup(p, n, Rht(n))]
  BY DEF formChildGroups
<1>3. PICK a \in Nodes, b \in Nodes : a = Lft(n) /\ b = Rht(n)
  BY <1>1, HalvesFacts
<1>4. a # b
  <2>1. n \in Seq(Nat) /\ Len(n) >= 1
    BY <1>1, HalvesFacts, NodeFacts
  <2> QED
    BY <2>1, <1>3, BelowFacts
<1>5. PICK ga, gb : ga = ChildGroup(p, n, a) /\ gb = ChildGroup(p, n, b)
  OBVIOUS
<1>6. /\ lft \in ChildOwners(p, n, a) /\ rht \in ChildOwners(p, n, b)
      /\ node' = [node EXCEPT ![a].owner = lft, ![a].group = ga, ![b].owner = rht, ![b].group = gb]
  BY <1>2, <1>3, <1>5
<1>7. /\ node'[a].owner = lft /\ node'[a].group = ga
      /\ node'[b].owner = rht /\ node'[b].group = gb
      /\ \A m \in Nodes \ {a, b} : node'[m] = node[m]
  <2>1. PICK x : x = [node EXCEPT ![a].owner = lft, ![a].group = ga]
    OBVIOUS
  <2>2. /\ x[a].owner = lft /\ x[a].group = ga /\ DOMAIN x = Nodes
        /\ DOMAIN x[b] = {"group", "owner", "tag"}
        /\ \A m \in Nodes \ {a} : x[m] = node[m]
    BY <2>1, <1>1, <1>4 DEF NodeType
  <2>3. node' = [x EXCEPT ![b].owner = rht, ![b].group = gb]
    BY <2>1, <1>6
  <2>4. /\ node'[b].owner = rht /\ node'[b].group = gb
        /\ \A m \in Nodes \ {b} : node'[m] = x[m]
    BY <2>2, <2>3
  <2> QED
    BY <2>2, <2>4, <1>4
<1>8. ASSUME NEW c, NEW o \in ChildOwners(p, n, c)
      PROVE  /\ ChildGroup(p, n, c) = input.overlap[c] \cup {o}
             /\ o \in input.overlap[c] \cup {p}
  BY DEF ChildGroup, ChildOwners
<1>9. input.overlap[a] \subseteq input.overlap[n] /\ input.overlap[b] \subseteq input.overlap[n]
  <2>1. \A m \in input.split, k \in {1, 2} : input.overlap[Append(m, k)] \subseteq input.overlap[m]
    BY <1>1, BergerRigoutsosAssumption, Zenon
  <2> QED
    BY <2>1, <1>3 DEF Lft, Rht
<1>10. ChildrenOf(n) = {a, b}
  BY <1>3 DEF ChildrenOf
<1>11. \A m \in Nodes : m \notin ChildrenOf(n) => SameGroups(m)
  BY <1>7, <1>10 DEF SameGroups
<1>12. \A c \in {a, b} :
          /\ node'[c].group = input.overlap[c] \cup {node'[c].owner}
          /\ node'[c].owner \in input.overlap[c] \cup {p}
  <2>1. /\ ga = input.overlap[a] \cup {lft} /\ lft \in input.overlap[a] \cup {p}
        /\ gb = input.overlap[b] \cup {rht} /\ rht \in input.overlap[b] \cup {p}
    BY <1>5, <1>6, <1>8
  <2>2. /\ node'[a].owner = lft /\ node'[a].group = ga
        /\ node'[b].owner = rht /\ node'[b].group = gb
    BY <1>7
  <2> QED
    BY <2>1, <2>2
<1> QED
  BY <1>9, <1>10, <1>11, <1>12

\* Where a process has no part yet, its knowledge does not depend on groups.
LEMMA UnstartedNode ==
    ASSUME input' = input, NEW q, NEW n, ~IsRoot(n), NodeOK(self'[q], q, n),
           ~Started(self'[q].phase[n])
    PROVE  NodeOK(self[q], q, n)'
<1>1. self'[q].phase[n] \in {"none", "for_data_only"}
  BY DEF Started
<1>2. PhaseOK(self[q], q, n)'
  BY <1>1 DEF PhaseOK, NodeOK, Reached, Started, InGroupOps
<1>3. AcceptanceOK(self[q], q, n)'
  BY <1>1 DEF AcceptanceOK, NodeOK, Unsettled, Splitting, Ended
<1>4. ToldOK(self[q], q, n)'
  BY <1>1 DEF ToldOK, Gone, Ended
<1>5. BoxesOK(self[q], q, n)'
  BY <1>1 DEF BoxesOK, NodeOK, Splitting, Ended
<1>6. ComputedOK(self[q], q, n)'
  BY <1>1 DEF ComputedOK, NodeOK
<1> QED
  BY <1>2, <1>3, <1>4, <1>5, <1>6 DEF NodeOK

\* The groups of the halves are formed while no process has begun them.
LEMMA CriteriaKnows ==
    ASSUME ClusterInv, OutcomeInv, NEW p \in Ranks, NEW n \in Nodes,
           gatherGroupingCriteria_check(p, n)
    PROVE  OutcomeInv' /\ self'[p].pos = "loop" /\ self'[p].received = self[p].received
<1>a. PICK u : u = Popped(p)
  OBVIOUS
<1>b. PICK v : v = [u EXCEPT !.phase[n] = "bcast_child_groups"]
  OBVIOUS
<1>1. /\ Current(p) = n /\ self[p].phase[n] = "gather_grouping_criteria"
      /\ input' = input /\ Step(p, v)
      /\ IF IsOwner(p, n) THEN formChildGroups(p, n) ELSE UNCHANGED node
  BY <1>a, <1>b DEF gatherGroupingCriteria_check, Continuing, PhaseOf
<1>2. /\ u \in ProcessType /\ u.phase = self[p].phase /\ u.acceptance = self[p].acceptance
      /\ u.pos = "loop" /\ u.received = self[p].received
      /\ u.phase \in [Nodes -> AllPhases]
  BY <1>a, <1>1, PoppedFields DEF ProcessType
<1>3. KnowsAll(u, p) /\ NodeOK(u, p, n) /\ u.phase[n] = "gather_grouping_criteria"
  <2>1. KnowsAll(u, p)
    BY <1>a, <1>1, PoppedFields
  <2> QED
    BY <2>1, <1>1, <1>2 DEF KnowsAll
<1>4. /\ input \in Inputs /\ input.split \subseteq Nodes
      /\ Participates(p, n) /\ Reached(n) /\ n \in input.split
      /\ input.overlap \in [Nodes -> (SUBSET Ranks) \ {{}}]
  <2>1. input \in Inputs
    BY DEF ClusterInv, Typed
  <2> QED
    BY <2>1, <1>3, InputFacts DEF NodeOK, PhaseOK, AcceptanceOK, InGroupOps, Splitting
<1>5. /\ v.phase = [u.phase EXCEPT ![n] = "bcast_child_groups"]
      /\ v.acceptance = u.acceptance /\ v.boxes = u.boxes
      /\ v.told = u.told /\ v.computed = u.computed
      /\ v.pos = u.pos /\ v.received = u.received
  BY <1>b, <1>2 DEF ProcessType
<1>6. v.phase[n] = "bcast_child_groups" /\ \A m \in Nodes \ {n} : v.phase[m] = u.phase[m]
  BY <1>2, <1>5
<1>7. NodeOK(v, p, n)
  <2>1. PhaseOK(v, p, n)
    BY <1>3, <1>4, <1>6 DEF PhaseOK, NodeOK, Started
  <2>2. AcceptanceOK(v, p, n)
    BY <1>3, <1>5, <1>6 DEF AcceptanceOK, NodeOK, Unsettled, Splitting, Ended
  <2>3. ToldOK(v, p, n)
    BY <1>6 DEF ToldOK, Gone, Ended
  <2>4. BoxesOK(v, p, n)
    BY <1>3, <1>5, <1>6 DEF BoxesOK, NodeOK, Splitting, Ended
  <2>5. ComputedOK(v, p, n)
    BY <1>3, <1>5, <1>6 DEF ComputedOK, NodeOK
  <2> QED
    BY <2>1, <2>2, <2>3, <2>4, <2>5 DEF NodeOK
<1>8. KnowsAll(v, p)
  <2>1. ~Gone(u.phase[n]) /\ ~Gone(v.phase[n])
    BY <1>3, <1>6 DEF Gone, Ended
  <2>2. \A m \in Nodes \ {n} : Alike(v, u, m)
    BY <1>5, <1>6 DEF Alike
  <2>3. KnowsAll(u, p)
    BY <1>3
  <2> QED
    BY <2>1, <2>2, <2>3, <1>7, GoesOnAlone
<1>9. \A m \in Nodes : /\ Started(v.phase[m]) <=> Started(self[p].phase[m])
                       /\ m # n => (v.phase[m] \in Formers <=> self[p].phase[m] \in Formers)
                       /\ self[p].phase[m] \in Formers => v.phase[m] \in Formers
  BY <1>1, <1>2, <1>6 DEF Started, Formers, Ended
<1>10. /\ self'[p] = v /\ \A q \in Ranks \ {p} : self'[q] = self[q]
  BY <1>1 DEF Step, ClusterInv, Typed
<1>11. CASE ~IsOwner(p, n)
  <2>1. UNCHANGED <<input, node>>
    BY <1>1, <1>11
  <2>2. \A m \in input.split : IsOwner(p, m) /\ v.phase[m] \in Formers
                                  => self[p].phase[m] \in Formers
    BY <1>4, <1>9, <1>11
  <2>3. OutcomeInv'
    BY <2>1, <2>2, <1>1, <1>8, <1>9, StepKnows, GroupsKept
  <2> QED
    BY <2>3, <1>2, <1>5, <1>10
<1>12. CASE IsOwner(p, n)
  <2> DEFINE C == ChildrenOf(n)
  <2>1. /\ \A c \in C : /\ node'[c].group = input.overlap[c] \cup {node'[c].owner}
                        /\ node'[c].owner \in input.overlap[c] \cup {p}
                        /\ input.overlap[c] \subseteq input.overlap[n]
        /\ \A m \in Nodes : m \notin C => SameGroups(m)
    BY <1>1, <1>4, <1>12, FormFacts
  <2>2. ASSUME NEW c \in C
        PROVE  c \in Nodes /\ ~IsRoot(c) /\ ParentOf(c) = n /\ c # n
    <3>1. c \in Nodes
      BY <1>4, HalvesFacts DEF ChildrenOf
    <3> QED
      BY <3>1, ChildrenAreIt DEF IsChild
  <2>3. /\ n \notin C
        /\ \A m \in Nodes : m \in C <=> ~IsRoot(m) /\ ParentOf(m) = n
    BY <2>2, ChildrenAreIt DEF IsChild
  <2> HIDE DEF C
  <2>4. ASSUME NEW c \in C, NEW q \in Ranks PROVE ~Started(self[q].phase[c])
    <3>1. ~Formed(c)
      BY <2>2, <1>1, <1>12 DEF Formed, IsOwner, Formers, Ended
    <3> QED
      BY <2>2, <3>1 DEF OutcomeInv, GroupsInv
  <2>5. ASSUME NEW q \in Ranks, NEW m \in Nodes, ~IsRoot(m), ParentOf(m) \in C
        PROVE  ~Started(self[q].phase[m])
    <3>1. PICK k \in Nodes : k = ParentOf(m) /\ k \in C
      BY <2>2, <2>5
    <3>2. self[q].phase[k] # "run_children" /\ ~Gone(self[q].phase[k])
      BY <2>4, <3>1 DEF Started, Gone, Ended
    <3>3. self[q].phase[m] \in {"none", "for_data_only"}
      BY <3>1, <3>2, <2>5, HalvesUnused DEF IsChild
    <3> QED
      BY <3>3 DEF Started
  <2>6. ASSUME NEW q \in Ranks, NEW m \in Nodes
        PROVE  Started(self'[q].phase[m]) <=> Started(self[q].phase[m])
    BY <1>9, <1>10
  <2>7. GroupOK(n)
    BY <1>1 DEF OutcomeInv, GroupsInv, Started
  <2>8. ASSUME NEW c \in C PROVE GroupOK(c)'
    <3>1. PICK o : o = node'[c].owner
      OBVIOUS
    <3>2. PICK g : g = input.overlap[c]
      OBVIOUS
    <3>3. /\ node'[c].group = g \cup {o} /\ o \in g \cup {p}
          /\ g \subseteq input.overlap[n] /\ g \subseteq Ranks
      BY <3>1, <3>2, <2>1, <2>2, <1>4
    <3>4. \A q : Participates(q, c)' <=> q \in g \/ o = q
      BY <3>1, <3>2, <2>2, <1>1 DEF Participates, IsOwner
    <3>5. node'[c].group = {q \in Ranks : Participates(q, c)'}
      BY <3>3, <3>4
    <3>6. g \cup {p} \subseteq node[n].group
      <4>1. \A q \in Ranks : q \in input.overlap[n] => q \in node[n].group
        BY <2>7 DEF GroupOK, Participates
      <4>2. p \in node[n].group
        BY <2>7, <1>4 DEF GroupOK
      <4> QED
        BY <4>1, <4>2, <3>3
    <3>7. node'[ParentOf(c)].group = node[n].group
      BY <2>1, <2>2, <2>3 DEF SameGroups
    <3>8. node'[c].group \subseteq node'[ParentOf(c)].group
      BY <3>3, <3>6, <3>7
    <3> QED
      BY <3>5, <3>8 DEF GroupOK
  <2>9. ASSUME NEW m \in Nodes, m \notin C
        PROVE  /\ Formed(m) <=> Formed(m)'
               /\ Formed(m) => GroupOK(m)'
    <3>1. CASE IsRoot(m)
      <4>1. Formed(m) /\ Formed(m)'
        BY <3>1 DEF Formed
      <4>2. GroupOK(m)
        BY <4>1 DEF OutcomeInv, GroupsInv
      <4>3. \A q : Participates(q, m)' <=> Participates(q, m)
        BY <3>1 DEF Participates
      <4>4. node'[m].group = node[m].group
        BY <2>1, <2>9 DEF SameGroups
      <4> QED
        BY <4>1, <4>2, <4>3, <4>4, <3>1 DEF GroupOK
    <3>2. CASE ~IsRoot(m) /\ ParentOf(m) \in C
      <4>1. PICK k \in Nodes : k = ParentOf(m) /\ k \in C
        BY <2>2, <3>2
      <4>2. node[k].owner \in Ranks
        BY DEF ClusterInv, Typed, NodeType
      <4>3. node'[k].owner \in Ranks
        BY <2>1, <4>1, <1>4
      <4>4. ~Started(self[node[k].owner].phase[k])
        BY <4>1, <4>2, <2>4
      <4>5. ~Started(self'[node'[k].owner].phase[k])
        BY <4>1, <4>3, <2>4, <2>6
      <4>6. \A ph : ph \in Formers => Started(ph)
        BY DEF Formers, Ended, Started
      <4> QED
        BY <4>1, <4>4, <4>5, <4>6, <3>2 DEF Formed
    <3>3. CASE ~IsRoot(m) /\ ParentOf(m) \notin C
      <4>1. PICK k \in Nodes : k = ParentOf(m)
        BY <3>3, AboveFacts
      <4>2. k # n /\ SameGroups(k) /\ SameGroups(m)
        BY <4>1, <3>3, <2>1, <2>3, <2>9
      <4>3. PICK q \in Ranks : q = node[k].owner /\ q = node'[k].owner
        BY <4>2 DEF SameGroups, ClusterInv, Typed, NodeType
      <4>4. self'[q].phase[k] \in Formers <=> self[q].phase[k] \in Formers
        BY <4>2, <1>9, <1>10
      <4>5. Formed(m) <=> Formed(m)'
        BY <4>1, <4>3, <4>4, <3>3, <1>1 DEF Formed
      <4>6. ASSUME Formed(m) PROVE GroupOK(m)'
        <5>1. GroupOK(m)
          BY <4>6 DEF OutcomeInv, GroupsInv
        <5>2. \A q1 : Participates(q1, m)' <=> Participates(q1, m)
          BY <4>2, <1>1, SameFacts
        <5>3. node'[m].group = {q1 \in Ranks : Participates(q1, m)'}
          BY <5>1, <5>2, <4>2 DEF GroupOK, SameGroups
        <5>4. IsRoot(m) \/ node'[m].group \subseteq node'[ParentOf(m)].group
          BY <5>1, <4>1, <4>2 DEF GroupOK, SameGroups
        <5> QED
          BY <5>3, <5>4 DEF GroupOK
      <4> QED
        BY <4>5, <4>6
    <3> QED
      BY <3>1, <3>2, <3>3
  <2>10. ASSUME NEW m \in Nodes, Formed(m)' PROVE GroupOK(m)'
    BY <2>8, <2>9, <2>10
  <2>11. ASSUME NEW q \in Ranks, NEW m \in Nodes, Started(self'[q].phase[m])
         PROVE  Formed(m)'
    <3>1. Started(self[q].phase[m])
      BY <2>6, <2>11
    <3>2. m \notin C /\ Formed(m)
      BY <3>1, <2>4 DEF OutcomeInv, GroupsInv
    <3> QED
      BY <3>2, <2>9
  <2>12. ASSUME NEW q \in Ranks, NEW m \in Nodes
         PROVE  NodeOK(self[q], q, m)' /\ HalfOK(self[q], q, m)'
    <3>1. NodeOK(self'[q], q, m) /\ HalfOK(self'[q], q, m)
      <4>1. KnowsAll(self'[q], q)
        BY <1>8, <1>10 DEF OutcomeInv
      <4> QED
        BY <4>1 DEF KnowsAll
    <3>2. CASE m \in C
      <4>1. ~IsRoot(m) /\ ParentOf(m) = n /\ ~Started(self'[q].phase[m])
        BY <3>2, <2>2, <2>4, <2>6
      <4>2. NodeOK(self[q], q, m)'
        BY <4>1, <3>1, <1>1, UnstartedNode
      <4>3. Participates(q, ParentOf(m))' <=> Participates(q, ParentOf(m))
        <5>1. SameGroups(n)
          BY <2>1, <2>3
        <5>2. Participates(q, n)' <=> Participates(q, n)
          BY <5>1, <1>1, SameFacts
        <5> QED
          BY <5>2, <4>1
      <4>4. HalfOK(self[q], q, m)'
        BY <4>3, <3>1, <1>1 DEF HalfOK
      <4> QED
        BY <4>2, <4>4
    <3>3. CASE ~IsRoot(m) /\ ParentOf(m) \in C
      <4>1. ~Started(self'[q].phase[m])
        BY <3>3, <2>5, <2>6
      <4>2. NodeOK(self[q], q, m)'
        BY <4>1, <3>1, <3>3, <1>1, UnstartedNode
      <4>3. ~Started(self'[q].phase[ParentOf(m)])
        BY <3>3, <2>2, <2>4, <2>6
      <4>4. HalfOK(self[q], q, m)'
        BY <4>1, <4>3 DEF HalfOK, Started, Gone, Ended
      <4> QED
        BY <4>2, <4>4
    <3>4. CASE m \notin C /\ (IsRoot(m) \/ ParentOf(m) \notin C)
      <4>1. SameGroups(m) /\ (IsRoot(m) \/ SameGroups(ParentOf(m)))
        BY <3>4, <2>1, AboveFacts
      <4> QED
        BY <4>1, <3>1, <1>1, NodeUnmoved
    <3> QED
      BY <3>2, <3>3, <3>4
  <2>13. OutcomeInv'
    BY <2>10, <2>11, <2>12 DEF OutcomeInv, GroupsInv, KnowsAll, Started
  <2> QED
    BY <2>13, <1>2, <1>5, <1>10
<1> QED
  BY <1>11, <1>12

\* Steps of the loop itself, and after it, change nothing that is known.
LEMMA MovesKnow ==
    ASSUME ClusterInv, OutcomeInv, NEW p \in Ranks, NEW v, Step(p, v),
           UNCHANGED <<input, node>>,
           v.phase = self[p].phase, v.acceptance = self[p].acceptance,
           v.told = self[p].told, v.boxes = self[p].boxes, v.computed = self[p].computed
    PROVE  OutcomeInv'
<1>1. \A m \in Nodes : Alike(v, self[p], m)
  BY DEF Alike
<1>2. KnowsAll(self[p], p)
  BY DEF OutcomeInv
<1>3. KnowsAll(v, p)
  BY <1>1, <1>2, AlikeKnows
<1> QED
  BY <1>3, StepKnows, GroupsKept

-----------------------------------------------------------------------------
(* It holds at the start, and in every step.                               *)

LEMMA OutcomeStarts ==
    ASSUME Init
    PROVE  OutcomeInv
<1>1. input \in Inputs
  BY DEF Init
<1>2. ASSUME NEW n \in Nodes
      PROVE  /\ IsRoot(n) => node[n].group = Ranks /\ Reached(n)
             /\ ~IsRoot(n) => node[n].group = {}
  <2>1. node[n] = IF IsRoot(n) THEN RootNode(n) ELSE Unset
    BY DEF Init
  <2>2. IsRoot(n) => Reached(n)
    BY DEF Reached, IsRoot
  <2> QED
    BY <2>1, <2>2 DEF RootNode, Unset
<1>3. ASSUME NEW p \in Ranks, NEW n \in Nodes
      PROVE  /\ self[p].phase[n] = IF IsRoot(n) THEN "to_be_launched" ELSE "none"
             /\ self[p].acceptance[n] = undetermined
             /\ self[p].boxes = {} /\ self[p].computed = {}
  BY DEF Init
<1>4. ASSUME NEW n \in Nodes PROVE Formed(n) <=> IsRoot(n)
  <2>1. ASSUME ~IsRoot(n), ParentOf(n) \in input.split PROVE ~Formed(n)
    <3>1. ParentOf(n) \in Nodes /\ node[ParentOf(n)].owner \in Ranks
      <4>1. ParentOf(n) \in Nodes
        BY <2>1, AboveFacts
      <4>2. node[ParentOf(n)].owner = 0 /\ 0 \in Ranks
        <5>1. node[ParentOf(n)] = IF IsRoot(ParentOf(n)) THEN RootNode(ParentOf(n)) ELSE Unset
          BY <4>1 DEF Init
        <5> QED
          BY <5>1, BergerRigoutsosAssumption DEF RootNode, Unset, Ranks
      <4> QED
        BY <4>1, <4>2
    <3>2. self[node[ParentOf(n)].owner].phase[ParentOf(n)] \in {"none", "to_be_launched"}
      BY <3>1, <1>3
    <3> QED
      BY <3>2, <2>1 DEF Formed, Formers, Ended
  <2> QED
    BY <2>1 DEF Formed
<1>5. ASSUME NEW n \in Nodes, IsRoot(n) PROVE GroupOK(n)
  BY <1>2, <1>5 DEF GroupOK, Participates
<1>6. ASSUME NEW p \in Ranks, NEW n \in Nodes PROVE NodeOK(self[p], p, n) /\ HalfOK(self[p], p, n)
  <2>1. PhaseOK(self[p], p, n)
    BY <1>2, <1>3 DEF PhaseOK, Started, InGroupOps, Participates
  <2>2. AcceptanceOK(self[p], p, n)
    BY <1>3 DEF AcceptanceOK, Unsettled, Splitting, Ended
  <2>3. ToldOK(self[p], p, n)
    BY <1>3 DEF ToldOK, Gone, Ended
  <2>4. BoxesOK(self[p], p, n)
    BY <1>3 DEF BoxesOK, Splitting, Ended
  <2>5. ComputedOK(self[p], p, n)
    BY <1>3 DEF ComputedOK
  <2>6. HalfOK(self[p], p, n)
    <3>1. IsRoot(n) \/ ParentOf(n) \in Nodes
      BY AboveFacts
    <3> QED
      BY <3>1, <1>3 DEF HalfOK, Gone, Ended
  <2> QED
    BY <2>1, <2>2, <2>3, <2>4, <2>5, <2>6 DEF NodeOK
<1> QED
  BY <1>3, <1>4, <1>5, <1>6 DEF OutcomeInv, GroupsInv, KnowsAll, Started

\* Steps of process p inside the loop.
LEMMA LoopKnows ==
    ASSUME ClusterInv, OutcomeInv, NEW p \in Ranks, NEW n \in Nodes, continueAlgorithm(p, n)
    PROVE  /\ OutcomeInv' /\ self[p].pos = "loop"
           /\ self'[p].pos = "loop" /\ self'[p].received = self[p].received
<1>1. Current(p) = n
  BY DEF continueAlgorithm, toBeLaunched, Unfinished, reduceHistogram_check,
         broadcastAcceptability_check, gatherGroupingCriteria_check,
         broadcastChildGroups_check, runChildren_check, broadcastToDropouts_check, Continuing
<1>2. self[p].pos = "loop"
  BY <1>1, Takes
<1> QED
  BY <1>2, LaunchKnows, UnfinishedKnows, HistogramKnows, AcceptabilityKnows, CriteriaKnows,
     ChildGroupsKnows, RunKnows, DropoutsKnow DEF continueAlgorithm

LEMMA MoveSteps ==
    ASSUME ClusterInv, OutcomeInv, NEW p \in Ranks,
           \/ advanceSome(p) \/ LoopEnds(p) \/ Barrier(p)
           \/ ReceiveRelationships(p) \/ ShareEnds(p)
    PROVE  OutcomeInv' /\ UNCHANGED <<input, node>>
<1>1. self[p] \in ProcessType
  BY SelfFacts
<1>2. PICK v :
        /\ Step(p, v) /\ UNCHANGED <<input, node>>
        /\ \/ \E q : v = [self[p] EXCEPT !.completed = q]
           \/ \E x : v = [self[p] EXCEPT !.pos = x]
           \/ \E x : v = [self[p] EXCEPT !.received = x]
  <2>1. CASE advanceSome(p)
    BY <2>1 DEF advanceSome
  <2>2. CASE LoopEnds(p)
    BY <2>2 DEF LoopEnds
  <2>3. CASE Barrier(p)
    BY <2>3 DEF Barrier
  <2>4. CASE ReceiveRelationships(p)
    <3>1. PICK q \in Incoming(p) : Step(p, [self[p] EXCEPT !.received = @ \cup {q}])
      BY <2>4 DEF ReceiveRelationships
    <3>2. [self[p] EXCEPT !.received = @ \cup {q}]
             = [self[p] EXCEPT !.received = self[p].received \cup {q}]
      BY <1>1 DEF ProcessType
    <3> QED
      BY <2>4, <3>1, <3>2 DEF ReceiveRelationships
  <2>5. CASE ShareEnds(p)
    BY <2>5 DEF ShareEnds
  <2> QED
    BY <2>1, <2>2, <2>3, <2>4, <2>5
<1>3. /\ v.phase = self[p].phase /\ v.acceptance = self[p].acceptance
      /\ v.told = self[p].told /\ v.boxes = self[p].boxes /\ v.computed = self[p].computed
  BY <1>1, <1>2 DEF ProcessType
<1> QED
  BY <1>2, <1>3, MovesKnow

LEMMA OutcomeKept ==
    ASSUME ClusterInv, OutcomeInv, [Next]_vars
    PROVE  OutcomeInv'
<1>1. CASE UNCHANGED vars
  <2>1. input' = input /\ node' = node /\ self' = self
    BY <1>1 DEF vars
  <2>2. ASSUME NEW m \in Nodes
        PROVE  SameGroups(m) /\ SameGroups(ParentOf(m)) /\ (Formed(m)' <=> Formed(m))
    BY <2>1 DEF SameGroups, Formed
  <2>3. ASSUME NEW m \in Nodes, Formed(m) PROVE GroupOK(m)'
    <3>1. GroupOK(m)
      BY <2>3 DEF OutcomeInv, GroupsInv
    <3> QED
      BY <3>1, <2>1 DEF GroupOK, Participates, IsOwner
  <2>4. ASSUME NEW q \in Ranks, NEW m \in Nodes
        PROVE  NodeOK(self[q], q, m)' /\ HalfOK(self[q], q, m)'
    <3>1. NodeOK(self'[q], q, m) /\ HalfOK(self'[q], q, m)
      BY <2>1 DEF OutcomeInv, KnowsAll
    <3> QED
      BY <2>1, <2>2, <3>1, NodeUnmoved
  <2> QED
    BY <2>1, <2>2, <2>3, <2>4 DEF OutcomeInv, GroupsInv, KnowsAll, Started
<1>2. ASSUME NEW p \in Ranks, NEW n \in Nodes, continueAlgorithm(p, n) PROVE OutcomeInv'
  BY <1>2, LoopKnows
<1>3. ASSUME NEW p \in Ranks,
             \/ advanceSome(p) \/ LoopEnds(p) \/ Barrier(p)
             \/ ReceiveRelationships(p) \/ ShareEnds(p)
      PROVE  OutcomeInv'
  BY <1>3, MoveSteps
<1>4. CASE Terminated
  BY <1>1, <1>4 DEF Terminated
<1>5. CASE Progress
  BY <1>2, <1>3, <1>5 DEF Progress
<1> QED
  BY <1>1, <1>4, <1>5 DEF Next

-----------------------------------------------------------------------------
(* When the loops have ended.                                              *)

\* Every box that is reached was formed, and its group has gone through it.
LEMMA ReachedGone ==
    ASSUME ClusterInv, OutcomeInv, AllLeft, NEW n \in Nodes, Reached(n)
    PROVE  /\ Formed(n)
           /\ \A p \in Ranks : Participates(p, n) =>
                 self[p].phase[n] = IF IsRoot(n) THEN "completed" ELSE "deallocated"
<1> DEFINE Met(m) ==
             /\ Formed(m)
             /\ \A p \in Ranks : Participates(p, m) =>
                   self[p].phase[m] = IF IsRoot(m) THEN "completed" ELSE "deallocated"
           T == {Len(m) : m \in {k \in Nodes : Reached(k) /\ ~Met(k)}}
<1> SUFFICES ASSUME ~Met(n) PROVE FALSE
  OBVIOUS
<1>1. T \in SUBSET Nat /\ T # {}
  BY NodeFacts
<1>2. PICK x \in T : \A y \in T : x <= y
  <2> HIDE DEF T
  <2> QED
    BY <1>1, LeastNumber
<1>3. PICK m \in Nodes : Reached(m) /\ ~Met(m) /\ Len(m) = x
  BY <1>2
<1>4. \A k \in Nodes : Reached(k) /\ Len(k) < Len(m) => Met(k)
  <2> SUFFICES ASSUME NEW k \in Nodes, Reached(k), Len(k) < Len(m), ~Met(k) PROVE FALSE
    OBVIOUS
  <2>1. Len(k) \in T /\ Len(k) \in Nat /\ Len(m) \in Nat
    BY NodeFacts
  <2>2. Len(m) <= Len(k)
    BY <2>1, <1>2, <1>3
  <2> QED
    BY <2>1, <2>2
<1>5. ASSUME NEW p \in Ranks, NEW k \in Nodes
      PROVE  self[p].phase[k] \in {"none", "for_data_only", "completed", "deallocated"}
  <2>1. self[p].pos # "loop"
    BY DEF AllLeft, Sharing
  <2>2. ~Active(self[p].phase[k])
    BY <2>1, SelfFacts DEF ProcessOK
  <2> QED
    BY <2>2 DEF Active
<1>6. CASE IsRoot(m)
  <2>1. ASSUME NEW p \in Ranks PROVE self[p].phase[m] = "completed"
    <3>1. PhaseOK(self[p], p, m)
      BY DEF OutcomeInv, KnowsAll, NodeOK
    <3> QED
      BY <3>1, <1>5, <1>6 DEF PhaseOK, Started
  <2> QED
    BY <2>1, <1>3, <1>6 DEF Formed
<1>7. CASE ~IsRoot(m)
  <2>1. PICK k \in Nodes : k = ParentOf(m)
    BY <1>7, AboveFacts
  <2>2. m \in ChildrenOf(k)
    BY <2>1, <1>7, AboveFacts
  <2>3. Reached(k) /\ k \in input.split
    BY <2>2, <1>3, ReachedBelow
  <2>4. Len(k) < Len(m)
    <3>1. k \in Seq(Nat) /\ Len(k) >= 1 /\ Len(k) \in Nat
      BY NodeFacts
    <3>2. Len(m) = Len(k) + 1
      BY <2>2, <3>1, BelowFacts
    <3> QED
      BY <3>1, <3>2
  <2>5. Met(k)
    BY <2>3, <2>4, <1>4
  <2> HIDE DEF T
  <2>6. ASSUME NEW p \in Ranks, Participates(p, k) PROVE Gone(self[p].phase[k])
    BY <2>5, <2>6 DEF Gone, Ended
  <2>7. Formed(m)
    <3>1. PICK o \in Ranks : o = node[k].owner
      BY DEF ClusterInv, Typed, NodeType
    <3>2. Gone(self[o].phase[k])
      BY <3>1, <2>6 DEF Participates, IsOwner
    <3> QED
      BY <3>1, <3>2, <2>1, <2>3 DEF Formed, Gone, Formers
  <2>8. GroupOK(m) /\ GroupOK(k)
    BY <2>5, <2>7 DEF OutcomeInv, GroupsInv
  <2>9. ASSUME NEW p \in Ranks, Participates(p, m) PROVE self[p].phase[m] = "deallocated"
    <3>1. Participates(p, k)
      BY <2>1, <2>8, <2>9, <1>7 DEF GroupOK
    <3>2. HalfOK(self[p], p, m)
      BY DEF OutcomeInv, KnowsAll
    <3> QED
      BY <3>1, <3>2, <2>1, <2>3, <2>6, <1>7 DEF HalfOK
  <2> QED
    BY <2>7, <2>9, <1>3, <1>7
<1> QED
  BY <1>6, <1>7

LEMMA FoundBoxes ==
    ASSUME ClusterInv, OutcomeInv, AllLeft, NEW p \in Ranks, NEW n \in Nodes
    PROVE  /\ n \in self[p].boxes <=> n \in KeptBoxes /\ IsOwner(p, n)
           /\ n \in self[p].computed <=> n \in KeptBoxes /\ p \in node[n].group
           /\ n \in KeptBoxes => (p \in node[n].group <=> Participates(p, n))
<1>1. NodeOK(self[p], p, n)
  BY DEF OutcomeInv, KnowsAll
<1>2. self[p].phase[n] \in {"none", "for_data_only", "completed", "deallocated"}
  <2>1. self[p].pos # "loop"
    BY DEF AllLeft, Sharing
  <2>2. ~Active(self[p].phase[n])
    BY <2>1, SelfFacts DEF ProcessOK
  <2> QED
    BY <2>2 DEF Active
<1>3. /\ self[p].phase[n] \in {"completed", "deallocated"} => Reached(n)
      /\ self[p].phase[n] = "deallocated" => ~IsRoot(n)
  BY <1>1 DEF NodeOK, PhaseOK
<1>4. self[p].phase[n] = "completed" => IsRoot(n)
  <2> SUFFICES ASSUME ~IsRoot(n), self[p].phase[n] = "completed" PROVE FALSE
    OBVIOUS
  <2>1. PICK k \in Nodes : k = ParentOf(n)
    BY AboveFacts
  <2>2. self[p].phase[k] = "run_children"
    BY <2>1, SelfFacts DEF ProcessOK, ChildrenOK, IsChild, Live
  <2>3. self[p].pos # "loop"
    BY DEF AllLeft, Sharing
  <2>4. ~Active(self[p].phase[k])
    BY <2>3, SelfFacts DEF ProcessOK
  <2> QED
    BY <2>2, <2>4 DEF Active
<1>5. Reached(n) /\ Participates(p, n) =>
         self[p].phase[n] = IF IsRoot(n) THEN "completed" ELSE "deallocated"
  BY ReachedGone
<1>6. Reached(n) => (p \in node[n].group <=> Participates(p, n))
  <2> SUFFICES ASSUME Reached(n) PROVE p \in node[n].group <=> Participates(p, n)
    OBVIOUS
  <2>1. GroupOK(n)
    BY ReachedGone DEF OutcomeInv, GroupsInv
  <2> QED
    BY <2>1 DEF GroupOK
<1>7. n \in KeptBoxes <=> Reached(n) /\ Whole(n) /\ (IsRoot(n) \/ ~Whole(ParentOf(n)))
  BY DEF KeptBoxes
<1>8. n \in self[p].boxes <=> n \in KeptBoxes /\ IsOwner(p, n)
  <2>1. n \in self[p].boxes <=>
           /\ IsOwner(p, n)
           /\ \/ self[p].phase[n] = "completed" /\ Whole(n)
              \/ self[p].phase[n] = "deallocated" /\ Whole(n) /\ ~Whole(ParentOf(n))
    BY <1>1, <1>2, WholeIsTagged DEF NodeOK, BoxesOK, Splitting, Ended
  <2>2. IsOwner(p, n) => Participates(p, n)
    BY DEF Participates
  <2> QED
    BY <2>1, <2>2, <1>3, <1>4, <1>5, <1>7
<1>9. n \in self[p].computed <=> n \in KeptBoxes /\ p \in node[n].group
  <2>1. n \in self[p].computed <=>
           /\ Participates(p, n) /\ Whole(n)
           /\ \/ IsRoot(n) /\ self[p].phase[n] = "completed"
              \/ self[p].phase[n] = "deallocated" /\ ~Whole(ParentOf(n))
    BY <1>1 DEF NodeOK, ComputedOK
  <2> QED
    BY <2>1, <1>3, <1>4, <1>5, <1>6, <1>7
<1> QED
  BY <1>6, <1>7, <1>8, <1>9

LEMMA SameBoxesFrom ==
    ASSUME ClusterInv, OutcomeInv
    PROVE  SameBoxes
<1> SUFFICES ASSUME AllLeft, NEW p \in Ranks
             PROVE  /\ self[p].boxes = Own(p, KeptBoxes)
                    /\ self[p].computed = {n \in KeptBoxes : p \in node[n].group}
  BY DEF SameBoxes
<1>1. self[p].boxes \subseteq Nodes /\ self[p].computed \subseteq Nodes
  BY SelfFacts DEF ProcessType
<1>2. KeptBoxes \subseteq Nodes
  BY DEF KeptBoxes
<1>3. self[p].boxes = Own(p, KeptBoxes)
  BY <1>1, <1>2, FoundBoxes DEF Own
<1>4. self[p].computed = {n \in KeptBoxes : p \in node[n].group}
  BY <1>1, <1>2, FoundBoxes
<1> QED
  BY <1>3, <1>4

(***************************************************************************)
(* The boxes and neighborhoods that the processes agree on: whatever is    *)
(* split, accepted and recombined, whoever drops out of which group, and   *)
(* in whatever order the processes continue their nodes, when the loops    *)
(* have ended every process has the boxes it is to have and has computed   *)
(* the neighborhoods of those in whose group it was, and no others.        *)
(***************************************************************************)
THEOREM SameBoxesFound == Spec => []SameBoxes
BY StartsOK, ClusterInvKept, OutcomeStarts, OutcomeKept, SameBoxesFrom, PTL DEF Spec

-----------------------------------------------------------------------------
(* Relationships.                                                          *)

(***************************************************************************)
(* Nobody shares before all have left the loop.  What has been received    *)
(* is from processes that have sent it, and a process that is done has     *)
(* received from all its senders.                                          *)
(***************************************************************************)
Received(p) ==
    /\ self[p].received \subseteq
          {q \in Ranks \ {p} : self[q].pos \in Sharing /\ relationship_message(q, p) # {}}
    /\ self[p].pos = "done" => self[p].received = relationship_senders(p)

SharedInv ==
    /\ (\E p \in Ranks : self[p].pos \in Sharing) => AllLeft
    /\ \A p \in Ranks : Received(p)

\* The senders are those who have a message, when the boxes are agreed on.
LEMMA SendersFacts ==
    ASSUME ClusterInv, OutcomeInv, AllLeft, NEW p \in Ranks
    PROVE  relationship_senders(p) = {q \in Ranks \ {p} : relationship_message(q, p) # {}}
<1>1. \A n \in self[p].computed : node[n].group \subseteq Ranks /\ n \in Nodes
  BY SelfFacts DEF ClusterInv, Typed, ProcessType, NodeType
<1>2. ASSUME NEW q \in relationship_senders(p)
      PROVE  q \in Ranks \ {p} /\ relationship_message(q, p) # {}
  <2>1. PICK n \in Own(p, self[p].computed) : q \in node[n].group
    BY DEF relationship_senders
  <2>2. n \in Nodes /\ n \in self[p].computed /\ node[n].owner = p /\ q \in Ranks
    BY <2>1, <1>1 DEF Own, IsOwner
  <2>3. n \in KeptBoxes
    BY <2>2, FoundBoxes
  <2>4. n \in self[q].computed
    BY <2>1, <2>2, <2>3, FoundBoxes
  <2>5. q # p
    BY DEF relationship_senders
  <2>6. n \in relationship_message(q, p)
    BY <2>2, <2>4 DEF relationship_message
  <2> QED
    BY <2>2, <2>5, <2>6
<1>3. ASSUME NEW q \in Ranks \ {p}, relationship_message(q, p) # {}
      PROVE  q \in relationship_senders(p)
  <2>1. PICK n \in self[q].computed : node[n].owner = p
    BY <1>3 DEF relationship_message
  <2>2. n \in Nodes
    BY SelfFacts DEF ProcessType
  <2>3. n \in KeptBoxes /\ q \in node[n].group
    BY <2>2, FoundBoxes
  <2>4. p \in node[n].group
    BY <2>1, <2>2, <2>3, FoundBoxes DEF Participates, IsOwner
  <2>5. n \in Own(p, self[p].computed)
    <3>1. n \in self[p].computed
      BY <2>2, <2>3, <2>4, FoundBoxes
    <3> QED
      BY <3>1, <2>1 DEF Own, IsOwner
  <2> HIDE DEF Own
  <2>6. q \in UNION {node[m].group : m \in Own(p, self[p].computed)}
    BY <2>3, <2>5
  <2>7. q # p
    BY <1>3
  <2> QED
    BY <2>6, <2>7 DEF relationship_senders
<1> QED
  BY <1>2, <1>3

LEMMA SendersKnownFrom ==
    ASSUME ClusterInv, OutcomeInv, SharedInv
    PROVE  SendersKnown
<1> SUFFICES ASSUME NEW p \in Ranks, self[p].pos \in Sharing
             PROVE  /\ Incoming(p) \cup self[p].received \subseteq relationship_senders(p)
                    /\ self[p].pos = "done" => Incoming(p) = {}
  BY DEF SendersKnown, Sharing
<1>1. AllLeft /\ Received(p)
  BY DEF SharedInv
<1>2. relationship_senders(p) = {q \in Ranks \ {p} : relationship_message(q, p) # {}}
  BY <1>1, SendersFacts
<1>3. Incoming(p) \subseteq relationship_senders(p)
  BY <1>2 DEF Incoming
<1>4. self[p].received \subseteq relationship_senders(p)
  BY <1>1, <1>2 DEF Received
<1>5. \A q \in Incoming(p) : q \notin self[p].received
  BY DEF Incoming
<1> QED
  BY <1>1, <1>3, <1>4, <1>5 DEF Received

LEMMA SharedStarts ==
    ASSUME Init
    PROVE  SharedInv
<1>1. \A p \in Ranks : self[p].pos = "loop" /\ self[p].received = {}
  BY DEF Init
<1> QED
  BY <1>1 DEF SharedInv, Received, Sharing

\* While a process is in the loop nobody has received anything.
LEMMA NobodyShares ==
    ASSUME SharedInv, NEW p \in Ranks, self[p].pos = "loop", NEW q \in Ranks
    PROVE  self[q].pos \notin Sharing /\ self[q].received = {}
<1>1. ~AllLeft
  BY DEF AllLeft, Sharing
<1>2. \A r \in Ranks : self[r].pos \notin Sharing
  BY <1>1 DEF SharedInv
<1> QED
  BY <1>2 DEF SharedInv, Received

\* A step of process p from the loop, to a place that is not one of sharing.
LEMMA SharedBefore ==
    ASSUME ClusterInv, SharedInv, NEW p \in Ranks, NEW v, Step(p, v),
           self[p].pos = "loop", v.pos \notin Sharing, v.received = self[p].received
    PROVE  SharedInv'
<1>1. /\ self'[p] = v /\ \A q \in Ranks \ {p} : self'[q] = self[q]
  BY DEF Step, ClusterInv, Typed
<1>2. \A q \in Ranks : self'[q].pos \notin Sharing /\ self'[q].received = {}
  BY <1>1, NobodyShares
<1> QED
  BY <1>2 DEF SharedInv, Received, Sharing

LEMMA SharedKept ==
    ASSUME ClusterInv, OutcomeInv, SharedInv, [Next]_vars
    PROVE  SharedInv'
<1>1. CASE UNCHANGED vars
  BY <1>1 DEF vars, SharedInv, Received, AllLeft, relationship_message, relationship_senders,
              Own, IsOwner
<1>2. ASSUME NEW p \in Ranks, NEW n \in Nodes, continueAlgorithm(p, n) PROVE SharedInv'
  <2>1. /\ self[p].pos = "loop" /\ self'[p].pos = "loop"
        /\ self'[p].received = self[p].received
    BY <1>2, LoopKnows
  <2>2. \E v : Step(p, v)
    BY <1>2 DEF continueAlgorithm, toBeLaunched, Unfinished, reduceHistogram_check,
         acceptOrSplitBox, broadcastAcceptability_check, gatherGroupingCriteria_check,
         broadcastChildGroups_check, runChildren_check, broadcastToDropouts_check
  <2>3. PICK v : Step(p, v)
    BY <2>2
  <2>4. self'[p] = v
    BY <2>3 DEF Step, ClusterInv, Typed
  <2> QED
    BY <2>1, <2>3, <2>4, SharedBefore DEF Sharing
<1>3. ASSUME NEW p \in Ranks, advanceSome(p) \/ LoopEnds(p) PROVE SharedInv'
  <2>1. self[p] \in ProcessType /\ self[p].pos = "loop"
    BY <1>3, SelfFacts DEF advanceSome, LoopEnds, Idle
  <2>2. PICK v :
          /\ Step(p, v)
          /\ (\E q : v = [self[p] EXCEPT !.completed = q]) \/ v = [self[p] EXCEPT !.pos = "barrier"]
    BY <1>3 DEF advanceSome, LoopEnds
  <2>3. v.pos \in {"loop", "barrier"} /\ v.received = self[p].received
    BY <2>1, <2>2 DEF ProcessType
  <2> QED
    BY <2>1, <2>2, <2>3, SharedBefore DEF Sharing
<1>4. ASSUME NEW p \in Ranks, NEW v, Step(p, v), UNCHANGED <<input, node>>,
             v.computed = self[p].computed, v.pos \in Sharing, AllLeft,
             self[p].pos \in Sharing => v.pos = self[p].pos \/ v.pos = "done",
             v.received \subseteq
                {q \in Ranks \ {p} : self[q].pos \in Sharing /\ relationship_message(q, p) # {}},
             v.pos = "done" => v.received = relationship_senders(p)
      PROVE  SharedInv'
  <2>1. /\ self'[p] = v /\ \A q \in Ranks \ {p} : self'[q] = self[q]
    BY <1>4 DEF Step, ClusterInv, Typed
  <2>2. \A q \in Ranks : /\ self'[q].computed = self[q].computed
                         /\ self[q].pos \in Sharing => self'[q].pos \in Sharing
    BY <2>1, <1>4
  <2>3. AllLeft'
    BY <2>1, <1>4 DEF AllLeft
  <2>4. \A q, r \in Ranks : relationship_message(q, r)' = relationship_message(q, r)
    BY <2>2, <1>4 DEF relationship_message
  <2>5. \A q \in Ranks : relationship_senders(q)' = relationship_senders(q)
    BY <2>2, <1>4 DEF relationship_senders, Own, IsOwner
  <2>6. ASSUME NEW r \in Ranks PROVE Received(r)'
    <3>1. \A q \in Ranks : self[q].pos \in Sharing /\ relationship_message(q, r) # {}
              => self'[q].pos \in Sharing /\ relationship_message(q, r)' # {}
      BY <2>2, <2>4
    <3>2. /\ self'[r].received \subseteq {q \in Ranks \ {r} : /\ self[q].pos \in Sharing
                                                             /\ relationship_message(q, r) # {}}
          /\ self'[r].pos = "done" => self'[r].received = relationship_senders(r)
      <4>1. CASE r = p
        BY <4>1, <2>1, <1>4
      <4>2. CASE r # p
        BY <4>2, <2>1 DEF SharedInv, Received
      <4> QED
        BY <4>1, <4>2
    <3>3. self'[r].received \subseteq {q \in Ranks \ {r} : /\ self'[q].pos \in Sharing
                                                          /\ relationship_message(q, r)' # {}}
      BY <3>1, <3>2
    <3>4. self'[r].pos = "done" => self'[r].received = relationship_senders(r)'
      BY <3>2, <2>5
    <3> QED
      BY <3>3, <3>4 DEF Received
  <2> QED
    BY <2>3, <2>6 DEF SharedInv
<1>5. ASSUME NEW p \in Ranks, Barrier(p) PROVE SharedInv'
  <2>1. PICK v : v = [self[p] EXCEPT !.pos = "share"]
    OBVIOUS
  <2>2. Step(p, v) /\ UNCHANGED <<input, node>> /\ AllLeft /\ self[p].pos = "barrier"
    BY <1>5, <2>1 DEF Barrier, AllLeft
  <2>3. /\ v.pos = "share" /\ v.computed = self[p].computed /\ v.received = self[p].received
    BY <2>1, SelfFacts DEF ProcessType
  <2>4. v.received \subseteq
           {q \in Ranks \ {p} : self[q].pos \in Sharing /\ relationship_message(q, p) # {}}
    BY <2>3 DEF SharedInv, Received
  <2> QED
    BY <2>2, <2>3, <2>4, <1>4 DEF Sharing
<1>6. ASSUME NEW p \in Ranks, ReceiveRelationships(p) PROVE SharedInv'
  <2>1. PICK q \in Incoming(p) : Step(p, [self[p] EXCEPT !.received = @ \cup {q}])
    BY <1>6 DEF ReceiveRelationships
  <2>2. PICK R : R = self[p].received \cup {q}
    OBVIOUS
  <2>3. PICK v : v = [self[p] EXCEPT !.received = R]
    OBVIOUS
  <2>4. self[p] \in ProcessType /\ self[p].pos = "share"
    BY <1>6, SelfFacts DEF ReceiveRelationships
  <2>5. Step(p, v) /\ UNCHANGED <<input, node>> /\ AllLeft
    <3>1. v = [self[p] EXCEPT !.received = @ \cup {q}]
      BY <2>2, <2>3, <2>4 DEF ProcessType
    <3> QED
      BY <3>1, <2>1, <2>4, <1>6 DEF ReceiveRelationships, SharedInv, Sharing
  <2>6. v.pos = "share" /\ v.computed = self[p].computed /\ v.received = R
    BY <2>3, <2>4 DEF ProcessType
  <2>7. v.received \subseteq
           {r \in Ranks \ {p} : self[r].pos \in Sharing /\ relationship_message(r, p) # {}}
    BY <2>1, <2>2, <2>6 DEF SharedInv, Received, Incoming
  <2> QED
    BY <2>4, <2>5, <2>6, <2>7, <1>4 DEF Sharing
<1>7. ASSUME NEW p \in Ranks, ShareEnds(p) PROVE SharedInv'
  <2>1. PICK v : v = [self[p] EXCEPT !.pos = "done"]
    OBVIOUS
  <2>2. self[p] \in ProcessType /\ self[p].pos = "share"
    BY <1>7, SelfFacts DEF ShareEnds
  <2>3. Step(p, v) /\ UNCHANGED <<input, node>> /\ AllLeft /\ ~WantsMore(p)
    BY <2>1, <2>2, <1>7 DEF ShareEnds, SharedInv, Sharing
  <2>4. v.pos = "done" /\ v.computed = self[p].computed /\ v.received = self[p].received
    BY <2>1, <2>2 DEF ProcessType
  <2>5. v.received \subseteq
           {r \in Ranks \ {p} : self[r].pos \in Sharing /\ relationship_message(r, p) # {}}
    BY <2>4 DEF SharedInv, Received
  <2>6. v.received = relationship_senders(p)
    <3>1. relationship_senders(p) = {q \in Ranks \ {p} : relationship_message(q, p) # {}}
      BY <2>3, SendersFacts
    <3>2. v.received \subseteq relationship_senders(p) /\ relationship_senders(p) \subseteq Ranks
      BY <3>1, <2>5
    <3>3. IsFiniteSet(Ranks)
      BY FS_Interval, BergerRigoutsosAssumption DEF Ranks
    <3>4. IsFiniteSet(relationship_senders(p))
      BY <3>2, <3>3, FS_Subset
    <3>5. /\ Cardinality(v.received) <= Cardinality(relationship_senders(p))
          /\ Cardinality(v.received) = Cardinality(relationship_senders(p))
                => v.received = relationship_senders(p)
          /\ Cardinality(v.received) \in Nat /\ Cardinality(relationship_senders(p)) \in Nat
      BY <3>2, <3>4, FS_Subset, FS_CardinalityType
    <3>6. ~(Cardinality(v.received) < Cardinality(relationship_senders(p)))
      BY <2>3, <2>4 DEF WantsMore
    <3> QED
      BY <3>5, <3>6
  <2> QED
    BY <2>2, <2>3, <2>4, <2>5, <2>6, <1>4 DEF Sharing
<1>8. CASE Terminated
  BY <1>1, <1>8 DEF Terminated
<1>9. CASE Progress
  BY <1>2, <1>3, <1>5, <1>6, <1>7, <1>9 DEF Progress
<1> QED
  BY <1>1, <1>8, <1>9 DEF Next

(***************************************************************************)
(* Messages with relationships, which have one tag and are received from   *)
(* any source: a process that counts them takes none from a sender it did  *)
(* not expect, and when it has as many as it has senders nobody has one    *)
(* for it any more.                                                        *)
(***************************************************************************)
THEOREM SendersAreKnown == Spec => []SendersKnown
BY StartsOK, ClusterInvKept, OutcomeStarts, OutcomeKept, SharedStarts, SharedKept,
   SendersKnownFrom, PTL DEF Spec

=============================================================================
