---------------------- MODULE ConnectorTransposeProofs ----------------------
(***************************************************************************)
(* The termination of ConnectorTranspose, for any number of processes, any *)
(* tree over them, any edges and any number of calls: a process leaves the *)
(* loop only when all edges of the call are delivered, and no message ever *)
(* comes unexpectedly, in this call or the next.                           *)
(*                                                                         *)
(* The exchange of one call is a matter of six values: where the processes *)
(* are (A), their acknowledgements, upward messages and flags (N, T, F),   *)
(* the channels (C) and the transpose (D).  What is said of them is stated *)
(* on these, not on the variables, so that an iteration of the loop can be *)
(* taken in two parts: the receipt of a message, and the termination       *)
(* message that becomes due.                                               *)
(***************************************************************************)
EXTENDS ConnectorTranspose, FiniteSetTheorems, SequenceTheorems, TLAPS

\* Where process r is in call k.
HasSent(k, A, r) == A[r] >= 9 * (k - 1) + 4

HasLeft(k, A, r) == A[r] >= 9 * (k - 1) + 5

\* It has sent its termination message: upward, or downward from the root.
Reported(k, A, F, r) == HasSent(k, A, r) /\ ~F[r]

\* The channel s has a message of the type.
Has(s, type) == \E i \in DOMAIN s : s[i].type = type

\* From A to B, process r has left the loop.
Leaves(k, A, B, r) ==
    /\ B \in [Ranks -> Nat]
    /\ \A x \in Ranks : HasSent(k, B, x) <=> HasSent(k, A, x)
    /\ \A x \in Ranks : HasLeft(k, B, x) <=> HasLeft(k, A, x) \/ x = r

\* Children of process q of which it has not received the upward message.
Owing(k, A, F, C, q) ==
    {c \in Children[q] : ~Reported(k, A, F, c) \/ Has(C[<<c, q>>], "upward")}

\* What process p is to get in call k.
Share(k, p) == {Transposed(e) : e \in {f \in others[k] : f.head.owner = p}}

-----------------------------------------------------------------------------
(***************************************************************************)
(* The invariant of the exchange.  A channel has at most one message of a  *)
(* type, and none of a process that has not begun.                         *)
(***************************************************************************)
Distinct(s) == \A i, j \in DOMAIN s : s[i].type = s[j].type => i = j

Bears(s, edges) == \A i \in DOMAIN s : s[i].type = "edges" => s[i].edges = edges

Orderly(k, A, C) ==
    \A q, p \in Ranks : q # p =>
        /\ Distinct(C[<<q, p>>])
        /\ Bears(C[<<q, p>>], EdgesFor(k, q, p))
        /\ ~HasSent(k, A, q) => C[<<q, p>>] = <<>>

\* An acknowledgement is needed as long as edges, or it, are on the way.
Acknowledged(k, A, N, C) ==
    \A q, p \in Ranks : q # p =>
        /\ Has(C[<<q, p>>], "edges") => p \in N[q] /\ ~Has(C[<<p, q>>], "ack")
        /\ Has(C[<<p, q>>], "ack") => HasSent(k, A, q) /\ p \in N[q]

\* Upward messages are counted, and sent when nothing below is missing.
Upward(k, A, N, T, F, C) ==
    /\ \A q, p \in Ranks : q # p /\ Has(C[<<q, p>>], "upward") =>
            q # Root /\ p = Parent[q] /\ Reported(k, A, F, q)
    /\ \A q \in Ranks \ {Root} : Reported(k, A, F, q) /\ ~HasSent(k, A, Parent[q]) =>
            Has(C[<<q, Parent[q]>>], "upward")
    /\ \A q \in Ranks : HasSent(k, A, q) => T[q] = Cardinality(Owing(k, A, F, C, q))
    /\ \A q \in Ranks : Reported(k, A, F, q) => N[q] = {} /\ Owing(k, A, F, C, q) = {}

\* Processes leave from the root downward, when it has been reported to.
Downward(k, A, F, C) ==
    /\ \A q, p \in Ranks : q # p /\ Has(C[<<q, p>>], "downward") =>
            p \in Children[q] /\ HasLeft(k, A, q) /\ ~HasLeft(k, A, p)
    /\ \A q \in Ranks \ {Root} : HasLeft(k, A, q) => HasLeft(k, A, Parent[q])
    /\ \A q \in Ranks : HasLeft(k, A, q) => Reported(k, A, F, Root)
    /\ Reported(k, A, F, Root) => HasLeft(k, A, Root)

\* What was sent is on the way or in the transpose.
Delivered(k, A, C, D) ==
    /\ \A p \in Ranks : HasSent(k, A, p) =>
            EdgesFor(k, p, p) \subseteq D[p] /\ D[p] \subseteq Share(k, p)
    /\ \A q, p \in Ranks : q # p /\ HasSent(k, A, q) /\ ~Has(C[<<q, p>>], "edges") =>
            \/ EdgesFor(k, q, p) = {}
            \/ HasSent(k, A, p) /\ EdgesFor(k, q, p) \subseteq D[p]

Typed(A, N, T, F, C, D) ==
    /\ A \in [Ranks -> Nat]
    /\ N \in [Ranks -> SUBSET Ranks]
    /\ T \in [Ranks -> Nat]
    /\ F \in [Ranks -> BOOLEAN]
    /\ C \in [Pairs -> Seq(Messages)]
    /\ D \in [Ranks -> SUBSET Edges]

Exchanging(k, A, N, T, F, C, D) ==
    /\ Typed(A, N, T, F, C, D)
    /\ Orderly(k, A, C)
    /\ Acknowledged(k, A, N, C)
    /\ Upward(k, A, N, T, F, C)
    /\ Downward(k, A, F, C)
    /\ Delivered(k, A, C, D)

-----------------------------------------------------------------------------
(***************************************************************************)
(* The invariant of the calls: nobody is beyond a barrier that another one *)
(* has not come to; between the second and the third barrier of a call its *)
(* exchange goes on, otherwise the channels are empty; and after it the    *)
(* transpose is complete.                                                  *)
(***************************************************************************)
Together ==
    \A k \in DOMAIN others, b \in {0, 2, 6, 8}, r, q \in Ranks :
        at[r] > 9 * (k - 1) + b => at[q] >= 9 * (k - 1) + b

Within(k) == \A q \in Ranks : at[q] \in 9 * (k - 1) + 2 .. 9 * (k - 1) + 6

Exchanges ==
    /\ \A k \in DOMAIN others : Within(k) =>
            Exchanging(k, at, ack_needed, child_term_needed, send_upward, chan, transposes[k])
    /\ (\A k \in DOMAIN others : ~Within(k)) => \A p \in Pairs : chan[p] = <<>>

Complete ==
    \A k \in DOMAIN others : (\E r \in Ranks : HasLeft(k, at, r)) =>
        \A p \in Ranks : transposes[k][p] = Share(k, p)

CallsInv == TypeOK /\ Together /\ Exchanges /\ Complete

-----------------------------------------------------------------------------
(* The tree.                                                               *)

LEMMA TreeFacts ==
    /\ \A r \in Ranks \ {Root} : Parent[r] \in Ranks \ {r} /\ r \in Children[Parent[r]]
    /\ \A r \in Ranks : Children[r] \subseteq Ranks \ {Root, r} /\ IsFiniteSet(Children[r])
    /\ \A r \in Ranks : \A c \in Children[r] : Parent[c] = r
<1> USE TransposeAssumption
<1>1. \A r \in Ranks \ {Root} : Parent[r] \in Ranks /\ r \in Children[Parent[r]]
    OBVIOUS
<1>2. \A r \in Ranks : /\ Children[r] \subseteq Ranks \ {Root}
                       /\ \A c \in Children[r] : Parent[c] = r
    OBVIOUS
<1>3. ASSUME NEW r \in Ranks \ {Root} PROVE Parent[r] # r
  <2> SUFFICES ASSUME Parent[r] = r PROVE FALSE
    OBVIOUS
  <2> DEFINE S == Ranks \ {r}
  <2>1. \A q \in S : Children[q] \subseteq S
    BY <1>2
  <2>2. S \in SUBSET Ranks /\ Root \in S /\ S # Ranks
    OBVIOUS
  <2> QED
    BY <2>1, <2>2
<1>4. \A r \in Ranks : IsFiniteSet(Children[r])
    BY <1>2, FS_Subset
<1> QED
    BY <1>1, <1>2, <1>3, <1>4

LEMMA Reached ==
    ASSUME NEW S \in SUBSET Ranks, Root \in S, \A r \in S : Children[r] \subseteq S
    PROVE  S = Ranks
    BY TransposeAssumption

-----------------------------------------------------------------------------
(* Channels.                                                               *)

LEMMA AppendHas ==
    ASSUME NEW s \in Seq(Messages), NEW m \in Messages
    PROVE  /\ Append(s, m) \in Seq(Messages)
           /\ Append(s, m) # <<>>
           /\ \A type : Has(Append(s, m), type) <=> Has(s, type) \/ m.type = type
           /\ Distinct(s) /\ ~Has(s, m.type) => Distinct(Append(s, m))
           /\ \A edges : Bears(Append(s, m), edges)
                            <=> Bears(s, edges) /\ (m.type = "edges" => m.edges = edges)
<1> DEFINE t == Append(s, m)
<1>1. /\ t \in Seq(Messages) /\ Len(t) = Len(s) + 1
      /\ DOMAIN t = 1 .. Len(s) + 1 /\ DOMAIN s = 1 .. Len(s)
      /\ Len(s) \in Nat
      /\ \A i \in 1 .. Len(s) : t[i] = s[i]
      /\ t[Len(s) + 1] = m
    BY AppendProperties, LenProperties
<1>2. t # <<>>
    BY AppendProperties DEF t
<1> HIDE DEF t
<1>3. ASSUME NEW i \in DOMAIN t
      PROVE  \/ i \in DOMAIN s /\ t[i] = s[i]
             \/ i = Len(s) + 1 /\ t[i] = m
  <2>1. i \in 1 .. Len(s) \/ i = Len(s) + 1
    BY <1>1
  <2> QED
    BY <1>1, <2>1
<1>4. /\ \A i \in DOMAIN s : i \in DOMAIN t /\ t[i] = s[i]
      /\ Len(s) + 1 \in DOMAIN t
    BY <1>1
<1>5. \A type : Has(t, type) <=> Has(s, type) \/ m.type = type
    BY <1>1, <1>3, <1>4 DEF Has
<1>6. ASSUME Distinct(s), ~Has(s, m.type) PROVE Distinct(t)
    BY <1>1, <1>3, <1>4, <1>6 DEF Has, Distinct
<1>7. \A edges : Bears(t, edges) <=> Bears(s, edges) /\ (m.type = "edges" => m.edges = edges)
    BY <1>1, <1>3, <1>4 DEF Bears
<1> QED
    BY <1>1, <1>2, <1>5, <1>6, <1>7 DEF t

LEMMA TailHas ==
    ASSUME NEW s \in Seq(Messages), s # <<>>, Distinct(s)
    PROVE  /\ Head(s) \in Messages
           /\ Has(s, Head(s).type)
           /\ Tail(s) \in Seq(Messages)
           /\ \A type : Has(Tail(s), type) <=> Has(s, type) /\ type # Head(s).type
           /\ Distinct(Tail(s))
           /\ \A edges : Bears(s, edges) =>
                  Bears(Tail(s), edges) /\ (Head(s).type = "edges" => Head(s).edges = edges)
<1> DEFINE t == Tail(s)
<1>1. /\ t \in Seq(Messages) /\ DOMAIN t = 1 .. Len(s) - 1 /\ DOMAIN s = 1 .. Len(s)
      /\ Len(s) \in Nat /\ Len(s) > 0
      /\ \A i \in 1 .. Len(s) - 1 : t[i] = s[i + 1]
      /\ Head(s) = s[1] /\ s[1] \in Messages
    OBVIOUS
<1> HIDE DEF t
<1>2. /\ \A i \in DOMAIN t : i + 1 \in DOMAIN s /\ t[i] = s[i + 1] /\ i + 1 # 1
      /\ 1 \in DOMAIN s
    BY <1>1
<1>8. ASSUME NEW i \in DOMAIN s, i # 1 PROVE i - 1 \in DOMAIN t /\ t[i - 1] = s[i]
  <2>1. i - 1 \in 1 .. Len(s) - 1 /\ (i - 1) + 1 = i
    BY <1>1, <1>8
  <2> QED
    BY <1>1, <2>1
<1>3. \A i, j \in DOMAIN s : s[i].type = s[j].type => i = j
    BY DEF Distinct
<1>4. ASSUME NEW type PROVE Has(t, type) <=> Has(s, type) /\ type # Head(s).type
  <2>1. ASSUME NEW i \in DOMAIN t, t[i].type = type
        PROVE  Has(s, type) /\ type # Head(s).type
    BY <1>1, <1>2, <1>3, <2>1 DEF Has
  <2>2. ASSUME NEW i \in DOMAIN s, s[i].type = type, type # Head(s).type
        PROVE  Has(t, type)
    BY <1>1, <1>8, <2>2 DEF Has
  <2> QED
    BY <2>1, <2>2 DEF Has
<1>5. Distinct(t)
  <2> SUFFICES ASSUME NEW i \in DOMAIN t, NEW j \in DOMAIN t, t[i].type = t[j].type
               PROVE  i = j
    BY DEF Distinct
  <2>1. i + 1 = j + 1
    BY <1>2, <1>3
  <2> QED
    BY <1>1, <2>1
<1>6. ASSUME NEW edges, Bears(s, edges)
      PROVE  Bears(t, edges) /\ (Head(s).type = "edges" => Head(s).edges = edges)
  <2>1. Head(s).type = "edges" => Head(s).edges = edges
    BY <1>1, <1>2, <1>6 DEF Bears
  <2>2. Bears(t, edges)
    BY <1>2, <1>6 DEF Bears
  <2> QED
    BY <2>1, <2>2
<1>7. Has(s, Head(s).type)
    BY <1>1, <1>2 DEF Has
<1> QED
    BY <1>1, <1>4, <1>5, <1>6, <1>7 DEF t

LEMMA EmptyHas ==
    /\ \A type : ~Has(<<>>, type)
    /\ Distinct(<<>>)
    /\ \A edges : Bears(<<>>, edges)
    /\ <<>> \in Seq(Messages)
    BY DEF Has, Distinct, Bears

\* A channel that is not empty has a message of some type.
LEMMA SomeType ==
    ASSUME NEW s \in Seq(Messages), s # <<>>
    PROVE  \E type \in TypesOfMessage : Has(s, type)
<1>1. 1 \in DOMAIN s /\ s[1] \in Messages
    OBVIOUS
<1> QED
    BY <1>1 DEF Messages, Has

-----------------------------------------------------------------------------
(* What posting and receiving do to the channels.                          *)

\* From C to E, process r has posted a message of the type to the receivers.
Adds(C, E, r, receivers, type) ==
    /\ E \in [Pairs -> Seq(Messages)]
    /\ \A q, p \in Ranks : q # p =>
           /\ \A t : Has(E[<<q, p>>], t) <=>
                        Has(C[<<q, p>>], t) \/ (q = r /\ p \in receivers /\ t = type)
           /\ Distinct(C[<<q, p>>]) => Distinct(E[<<q, p>>])
           /\ \A edges : Bears(C[<<q, p>>], edges) => Bears(E[<<q, p>>], edges)
           /\ q # r => E[<<q, p>>] = C[<<q, p>>]

\* From C to E, process r has taken the first message, of the type, of q.
Takes(C, E, q, r, type) ==
    /\ E \in [Pairs -> Seq(Messages)]
    /\ Has(C[<<q, r>>], type)
    /\ \A s, p \in Ranks : s # p =>
           /\ \A t : Has(E[<<s, p>>], t) <=>
                        Has(C[<<s, p>>], t) /\ ~(s = q /\ p = r /\ t = type)
           /\ Distinct(C[<<s, p>>]) => Distinct(E[<<s, p>>])
           /\ \A edges : Bears(C[<<s, p>>], edges) => Bears(E[<<s, p>>], edges)
           /\ C[<<s, p>>] = <<>> => E[<<s, p>>] = <<>>

LEMMA Posting ==
    ASSUME NEW C \in [Pairs -> Seq(Messages)], NEW r \in Ranks, NEW receivers,
           NEW type \in TypesOfMessage \ {"edges"},
           \A p \in receivers : ~Has(C[<<r, p>>], type)
    PROVE  Adds(C, Posted(C, r, receivers, type), r, receivers, type)
<1> DEFINE E == Posted(C, r, receivers, type)
           m == Message(type, {})
<1>1. m \in Messages /\ m.type = type
    BY DEF Messages, Message
<1>2. \A x \in Pairs : E[x] = IF x[1] = r /\ x[2] \in receivers THEN Append(C[x], m) ELSE C[x]
    BY DEF Posted
<1>3. E \in [Pairs -> Seq(Messages)]
  <2>1. \A x \in Pairs : Append(C[x], m) \in Seq(Messages)
    BY <1>1, AppendHas
  <2> QED
    BY <1>2, <2>1 DEF Posted
<1>4. ASSUME NEW q \in Ranks, NEW p \in Ranks, q # p
      PROVE  /\ \A t : Has(E[<<q, p>>], t) <=>
                        Has(C[<<q, p>>], t) \/ (q = r /\ p \in receivers /\ t = type)
             /\ Distinct(C[<<q, p>>]) => Distinct(E[<<q, p>>])
             /\ \A edges : Bears(C[<<q, p>>], edges) => Bears(E[<<q, p>>], edges)
             /\ q # r => E[<<q, p>>] = C[<<q, p>>]
  <2>1. <<q, p>> \in Pairs /\ C[<<q, p>>] \in Seq(Messages)
    BY <1>4 DEF Pairs
  <2>2. E[<<q, p>>] = IF q = r /\ p \in receivers THEN Append(C[<<q, p>>], m) ELSE C[<<q, p>>]
    BY <1>2, <2>1
  <2> DEFINE s == C[<<q, p>>]
  <2> HIDE DEF E, m, s
  <2>3. CASE q = r /\ p \in receivers
    <3>1. /\ \A t : Has(Append(s, m), t) <=> Has(s, t) \/ m.type = t
          /\ Distinct(s) /\ ~Has(s, m.type) => Distinct(Append(s, m))
          /\ \A edges : Bears(Append(s, m), edges)
                          <=> Bears(s, edges) /\ (m.type = "edges" => m.edges = edges)
      BY <1>1, <2>1, AppendHas DEF s
    <3>2. E[<<q, p>>] = Append(s, m) /\ ~Has(s, type)
      BY <2>2, <2>3 DEF s
    <3> QED
      BY <1>1, <2>3, <3>1, <3>2 DEF s
  <2>4. CASE ~(q = r /\ p \in receivers)
    <3>1. E[<<q, p>>] = C[<<q, p>>]
      BY <2>2, <2>4
    <3> QED
      BY <2>4, <3>1
  <2> QED
    BY <2>3, <2>4
<1> HIDE DEF E
<1> QED
    BY <1>3, <1>4 DEF E, Adds

LEMMA Receiving ==
    ASSUME NEW C \in [Pairs -> Seq(Messages)], NEW q \in Ranks, NEW r \in Ranks \ {q},
           C[<<q, r>>] # <<>>, Distinct(C[<<q, r>>])
    PROVE  Takes(C, [C EXCEPT ![<<q, r>>] = Tail(@)], q, r, Head(C[<<q, r>>]).type)
<1> DEFINE E    == [C EXCEPT ![<<q, r>>] = Tail(@)]
           type == Head(C[<<q, r>>]).type
<1>1. <<q, r>> \in Pairs /\ C[<<q, r>>] \in Seq(Messages)
    BY DEF Pairs
<1>2. /\ E[<<q, r>>] = Tail(C[<<q, r>>])
      /\ \A s, p \in Ranks : s # p /\ ~(s = q /\ p = r) => E[<<s, p>>] = C[<<s, p>>]
    BY <1>1 DEF Pairs
<1>3. E \in [Pairs -> Seq(Messages)]
    BY <1>1, TailHas
<1> HIDE DEF E, type
<1>4. ASSUME NEW s \in Ranks, NEW p \in Ranks, s # p
      PROVE  /\ \A t : Has(E[<<s, p>>], t) <=> Has(C[<<s, p>>], t) /\ ~(s = q /\ p = r /\ t = type)
             /\ Distinct(C[<<s, p>>]) => Distinct(E[<<s, p>>])
             /\ \A edges : Bears(C[<<s, p>>], edges) => Bears(E[<<s, p>>], edges)
             /\ C[<<s, p>>] = <<>> => E[<<s, p>>] = <<>>
  <2>1. CASE s = q /\ p = r
    <3> DEFINE ch == C[<<q, r>>]
    <3>1. /\ \A t : Has(Tail(ch), t) <=> Has(ch, t) /\ t # Head(ch).type
          /\ Distinct(Tail(ch))
          /\ \A edges : Bears(ch, edges) => Bears(Tail(ch), edges)
      <4> HIDE DEF ch
      <4>1. ch \in Seq(Messages) /\ ch # <<>> /\ Distinct(ch)
        BY <1>1 DEF ch
      <4> QED
        BY <4>1, TailHas
    <3>2. E[<<s, p>>] = Tail(ch) /\ C[<<s, p>>] = ch /\ ch # <<>>
      BY <1>2, <2>1
    <3> QED
      BY <2>1, <3>1, <3>2 DEF type
  <2>2. CASE ~(s = q /\ p = r)
    BY <1>2, <1>4, <2>2
  <2> QED
    BY <2>1, <2>2
<1>5. Has(C[<<q, r>>], type)
    BY <1>1, TailHas DEF type
<1> QED
    BY <1>3, <1>4, <1>5 DEF E, type, Takes

-----------------------------------------------------------------------------
(* What the exchange knows when the root has been reported to.             *)

LEMMA AllReported ==
    ASSUME NEW k, NEW A, NEW N, NEW T, NEW F, NEW C, NEW D,
           Exchanging(k, A, N, T, F, C, D), Reported(k, A, F, Root)
    PROVE  \A q \in Ranks : /\ HasSent(k, A, q) /\ Reported(k, A, F, q)
                            /\ N[q] = {} /\ Owing(k, A, F, C, q) = {}
<1> DEFINE S == {q \in Ranks : Reported(k, A, F, q)}
<1>1. \A q \in S : Children[q] \subseteq S
    BY TreeFacts DEF Exchanging, Upward, Owing
<1>2. Root \in S
    BY TransposeAssumption
<1>3. S = Ranks
    BY <1>1, <1>2, Reached
<1> QED
    BY <1>3 DEF Exchanging, Upward, Reported

LEMMA NothingOnTheWay ==
    ASSUME NEW k, NEW A, NEW N, NEW T, NEW F, NEW C, NEW D,
           Exchanging(k, A, N, T, F, C, D), \A q \in Ranks : HasLeft(k, A, q)
    PROVE  \A x \in Pairs : C[x] = <<>>
<1>1. Reported(k, A, F, Root)
    BY TransposeAssumption DEF Exchanging, Downward
<1>2. SUFFICES ASSUME NEW q \in Ranks, NEW p \in Ranks, q # p, C[<<q, p>>] # <<>>
               PROVE  FALSE
    BY DEF Pairs
<1>3. <<q, p>> \in Pairs /\ C[<<q, p>>] \in Seq(Messages)
    BY <1>2 DEF Pairs, Exchanging, Typed
<1>4. PICK type \in TypesOfMessage : Has(C[<<q, p>>], type)
    BY <1>2, <1>3, SomeType
<1>5. N[q] = {} /\ N[p] = {} /\ Owing(k, A, F, C, p) = {}
    BY <1>1, AllReported
<1>6. CASE type \in {"edges", "ack"}
    BY <1>2, <1>4, <1>5, <1>6 DEF Exchanging, Acknowledged
<1>7. CASE type = "upward"
  <2>1. q # Root /\ p = Parent[q]
    BY <1>2, <1>4, <1>7 DEF Exchanging, Upward
  <2>2. q \in Children[p]
    BY <2>1, TreeFacts
  <2> QED
    BY <1>4, <1>5, <1>7, <2>2 DEF Owing
<1>8. CASE type = "downward"
    BY <1>2, <1>4, <1>8 DEF Exchanging, Downward
<1> QED
    BY <1>4, <1>6, <1>7, <1>8 DEF TypesOfMessage

LEMMA ShareDelivered ==
    ASSUME NEW k \in DOMAIN others, others \in Seq(SUBSET Edges),
           NEW A, NEW N, NEW T, NEW F, NEW C, NEW D,
           Exchanging(k, A, N, T, F, C, D), Reported(k, A, F, Root)
    PROVE  \A p \in Ranks : D[p] = Share(k, p)
<1> SUFFICES ASSUME NEW p \in Ranks PROVE D[p] = Share(k, p)
    OBVIOUS
<1>1. \A q \in Ranks : HasSent(k, A, q) /\ N[q] = {}
    BY AllReported
<1>2. D[p] \subseteq Share(k, p)
    BY <1>1 DEF Exchanging, Delivered
<1>3. \A q \in Ranks : EdgesFor(k, q, p) \subseteq D[p]
  <2> SUFFICES ASSUME NEW q \in Ranks PROVE EdgesFor(k, q, p) \subseteq D[p]
    OBVIOUS
  <2>1. CASE q = p
    BY <1>1, <2>1 DEF Exchanging, Delivered
  <2>2. CASE q # p
    <3>1. ~Has(C[<<q, p>>], "edges")
      BY <1>1, <2>2 DEF Exchanging, Acknowledged
    <3> QED
      BY <1>1, <2>2, <3>1 DEF Exchanging, Delivered
  <2> QED
    BY <2>1, <2>2
<1>4. others[k] \subseteq Edges
    OBVIOUS
<1>5. \A e \in others[k] : e.base.owner \in Ranks
    BY <1>4 DEF Edges, Boxes
<1>6. Share(k, p) \subseteq D[p]
  <2> SUFFICES ASSUME NEW e \in others[k], e.head.owner = p
               PROVE  Transposed(e) \in D[p]
    BY DEF Share
  <2>1. Transposed(e) \in EdgesFor(k, e.base.owner, p)
    BY DEF EdgesFor
  <2> QED
    BY <1>3, <1>5, <2>1
<1> QED
    BY <1>2, <1>6

-----------------------------------------------------------------------------
(* A termination message is due.                                           *)

LEMMA OwingFinite ==
    ASSUME NEW k, NEW A, NEW F, NEW C, NEW q \in Ranks
    PROVE  /\ IsFiniteSet(Owing(k, A, F, C, q))
           /\ Cardinality(Owing(k, A, F, C, q)) \in Nat
           /\ Cardinality(Owing(k, A, F, C, q)) = 0 => Owing(k, A, F, C, q) = {}
<1>1. IsFiniteSet(Owing(k, A, F, C, q))
    BY TreeFacts, FS_Subset DEF Owing
<1> QED
    BY <1>1, FS_CardinalityType, FS_EmptySet

\* Termination messages do not disturb the edges and acknowledgements.
LEMMA TerminationAdded ==
    ASSUME NEW k, NEW A, NEW N, NEW C, NEW D, NEW B, NEW E, NEW r \in Ranks, NEW receivers,
           NEW type \in {"upward", "downward"}, Adds(C, E, r, receivers, type),
           HasSent(k, A, r), \A q \in Ranks : HasSent(k, B, q) <=> HasSent(k, A, q),
           Orderly(k, A, C), Acknowledged(k, A, N, C), Delivered(k, A, C, D)
    PROVE  Orderly(k, B, E) /\ Acknowledged(k, B, N, E) /\ Delivered(k, B, E, D)
<1>1. ASSUME NEW q \in Ranks, NEW p \in Ranks, q # p
      PROVE  /\ Has(E[<<q, p>>], "edges") <=> Has(C[<<q, p>>], "edges")
             /\ Has(E[<<q, p>>], "ack") <=> Has(C[<<q, p>>], "ack")
    BY <1>1 DEF Adds
<1>2. Orderly(k, B, E)
  <2> SUFFICES ASSUME NEW q \in Ranks, NEW p \in Ranks, q # p
               PROVE  /\ Distinct(E[<<q, p>>])
                      /\ Bears(E[<<q, p>>], EdgesFor(k, q, p))
                      /\ ~HasSent(k, B, q) => E[<<q, p>>] = <<>>
    BY DEF Orderly
  <2>1. /\ Distinct(C[<<q, p>>])
        /\ Bears(C[<<q, p>>], EdgesFor(k, q, p))
        /\ ~HasSent(k, A, q) => C[<<q, p>>] = <<>>
    BY DEF Orderly
  <2> QED
    BY <2>1 DEF Adds
<1>3. Acknowledged(k, B, N, E)
  <2> SUFFICES ASSUME NEW q \in Ranks, NEW p \in Ranks, q # p
               PROVE  /\ Has(E[<<q, p>>], "edges") => p \in N[q] /\ ~Has(E[<<p, q>>], "ack")
                      /\ Has(E[<<p, q>>], "ack") => HasSent(k, B, q) /\ p \in N[q]
    BY DEF Acknowledged
  <2>1. /\ Has(C[<<q, p>>], "edges") => p \in N[q] /\ ~Has(C[<<p, q>>], "ack")
        /\ Has(C[<<p, q>>], "ack") => HasSent(k, A, q) /\ p \in N[q]
    BY DEF Acknowledged
  <2> QED
    BY <1>1, <2>1
<1>4. Delivered(k, B, E, D)
    BY <1>1 DEF Delivered
<1> QED
    BY <1>2, <1>3, <1>4

LEMMA TerminationTaken ==
    ASSUME NEW k, NEW A, NEW N, NEW C, NEW D, NEW E, NEW s \in Ranks, NEW r \in Ranks,
           NEW type \in {"upward", "downward"}, Takes(C, E, s, r, type),
           Orderly(k, A, C), Acknowledged(k, A, N, C), Delivered(k, A, C, D)
    PROVE  Orderly(k, A, E) /\ Acknowledged(k, A, N, E) /\ Delivered(k, A, E, D)
<1>1. ASSUME NEW q \in Ranks, NEW p \in Ranks, q # p
      PROVE  /\ Has(E[<<q, p>>], "edges") <=> Has(C[<<q, p>>], "edges")
             /\ Has(E[<<q, p>>], "ack") <=> Has(C[<<q, p>>], "ack")
    BY <1>1 DEF Takes
<1>2. Orderly(k, A, E)
  <2> SUFFICES ASSUME NEW q \in Ranks, NEW p \in Ranks, q # p
               PROVE  /\ Distinct(E[<<q, p>>])
                      /\ Bears(E[<<q, p>>], EdgesFor(k, q, p))
                      /\ ~HasSent(k, A, q) => E[<<q, p>>] = <<>>
    BY DEF Orderly
  <2>1. /\ Distinct(C[<<q, p>>])
        /\ Bears(C[<<q, p>>], EdgesFor(k, q, p))
        /\ ~HasSent(k, A, q) => C[<<q, p>>] = <<>>
    BY DEF Orderly
  <2> QED
    BY <2>1 DEF Takes
<1>3. Acknowledged(k, A, N, E)
  <2> SUFFICES ASSUME NEW q \in Ranks, NEW p \in Ranks, q # p
               PROVE  /\ Has(E[<<q, p>>], "edges") => p \in N[q] /\ ~Has(E[<<p, q>>], "ack")
                      /\ Has(E[<<p, q>>], "ack") => HasSent(k, A, q) /\ p \in N[q]
    BY DEF Acknowledged
  <2>1. /\ Has(C[<<q, p>>], "edges") => p \in N[q] /\ ~Has(C[<<p, q>>], "ack")
        /\ Has(C[<<p, q>>], "ack") => HasSent(k, A, q) /\ p \in N[q]
    BY DEF Acknowledged
  <2> QED
    BY <1>1, <2>1
<1>4. Delivered(k, A, E, D)
    BY <1>1 DEF Delivered
<1> QED
    BY <1>2, <1>3, <1>4

LEMMA ReportKeeps ==
    ASSUME NEW k, NEW A, NEW N, NEW T, NEW F, NEW C, NEW D,
           Exchanging(k, A, N, T, F, C, D),
           NEW r \in Ranks \ {Root}, HasSent(k, A, r), F[r], N[r] = {}, T[r] = 0
    PROVE  Exchanging(k, A, N, T, [F EXCEPT ![r] = FALSE],
                      Posted(C, r, {Parent[r]}, "upward"), D)
<1> DEFINE G == [F EXCEPT ![r] = FALSE]
           E == Posted(C, r, {Parent[r]}, "upward")
<1>1. Typed(A, N, T, F, C, D)
    BY DEF Exchanging
<1>2. Parent[r] \in Ranks \ {r} /\ r \in Children[Parent[r]]
    BY TreeFacts
<1>3. /\ ~Reported(k, A, F, r) /\ Reported(k, A, G, r)
      /\ \A q \in Ranks \ {r} : Reported(k, A, G, q) <=> Reported(k, A, F, q)
    BY <1>1 DEF Reported, Typed
<1>4. ~Has(C[<<r, Parent[r]>>], "upward")
    BY <1>2, <1>3 DEF Exchanging, Upward
<1>5. Adds(C, E, r, {Parent[r]}, "upward")
  <2>1. "upward" \in TypesOfMessage \ {"edges"} /\ C \in [Pairs -> Seq(Messages)]
    BY <1>1 DEF TypesOfMessage, Typed
  <2> QED
    BY <1>4, <2>1, Posting
<1> HIDE DEF E
<1>6. Typed(A, N, T, G, E, D)
    BY <1>1, <1>5 DEF Typed, Adds
<1>7. ASSUME NEW q \in Ranks PROVE Owing(k, A, G, E, q) = Owing(k, A, F, C, q)
  <2>1. ASSUME NEW c \in Children[q]
        PROVE  (~Reported(k, A, G, c) \/ Has(E[<<c, q>>], "upward"))
                    <=> (~Reported(k, A, F, c) \/ Has(C[<<c, q>>], "upward"))
    <3>1. c \in Ranks /\ c # q /\ Parent[c] = q
      BY TreeFacts
    <3> QED
      BY <1>3, <1>5, <3>1 DEF Adds
  <2> QED
    BY <2>1 DEF Owing
<1> HIDE DEF G
<1>8. Orderly(k, A, E) /\ Acknowledged(k, A, N, E) /\ Delivered(k, A, E, D)
    BY <1>5, TerminationAdded DEF Exchanging
<1>9. Upward(k, A, N, T, G, E)
  <2>1. ASSUME NEW q \in Ranks, NEW p \in Ranks, q # p, Has(E[<<q, p>>], "upward")
        PROVE  q # Root /\ p = Parent[q] /\ Reported(k, A, G, q)
    <3>1. Has(C[<<q, p>>], "upward") \/ (q = r /\ p = Parent[r])
      BY <1>5, <2>1 DEF Adds
    <3> QED
      BY <1>3, <2>1, <3>1 DEF Upward, Exchanging
  <2>2. ASSUME NEW q \in Ranks \ {Root}, Reported(k, A, G, q), ~HasSent(k, A, Parent[q])
        PROVE  Has(E[<<q, Parent[q]>>], "upward")
    <3>1. Parent[q] \in Ranks \ {q}
      BY TreeFacts
    <3> QED
      BY <1>3, <1>5, <2>2, <3>1 DEF Upward, Exchanging, Adds
  <2>3. \A q \in Ranks : HasSent(k, A, q) => T[q] = Cardinality(Owing(k, A, G, E, q))
    BY <1>7 DEF Upward, Exchanging
  <2>4. Owing(k, A, F, C, r) = {}
    BY OwingFinite DEF Upward, Exchanging
  <2>5. \A q \in Ranks : Reported(k, A, G, q) => N[q] = {} /\ Owing(k, A, G, E, q) = {}
    BY <1>3, <1>7, <2>4 DEF Upward, Exchanging
  <2> QED
    BY <2>1, <2>2, <2>3, <2>5 DEF Upward
<1>10. Downward(k, A, G, E)
    BY <1>3, <1>5, TransposeAssumption DEF Downward, Exchanging, Adds
<1> QED
    BY <1>6, <1>8, <1>9, <1>10 DEF Exchanging, E, G

LEMMA FinishKeeps ==
    ASSUME NEW k, NEW A, NEW N, NEW T, NEW F, NEW C, NEW D,
           Exchanging(k, A, N, T, F, C, D),
           HasSent(k, A, Root), F[Root], N[Root] = {}, T[Root] = 0,
           NEW B, Leaves(k, A, B, Root)
    PROVE  Exchanging(k, B, N, T, [F EXCEPT ![Root] = FALSE],
                      Posted(C, Root, Children[Root], "downward"), D)
<1> DEFINE G == [F EXCEPT ![Root] = FALSE]
           E == Posted(C, Root, Children[Root], "downward")
<1>1. Typed(A, N, T, F, C, D) /\ Root \in Ranks
    BY TransposeAssumption DEF Exchanging
<1> USE DEF Leaves
<1>2. /\ ~Reported(k, A, F, Root) /\ Reported(k, B, G, Root)
      /\ \A q \in Ranks \ {Root} : Reported(k, B, G, q) <=> Reported(k, A, F, q)
    BY <1>1 DEF Reported, Typed
<1>3. \A q \in Ranks : ~HasLeft(k, A, q)
    BY <1>2 DEF Exchanging, Downward
<1>4. \A q, p \in Ranks : q # p => ~Has(C[<<q, p>>], "downward")
    BY <1>3 DEF Exchanging, Downward
<1>5. Adds(C, E, Root, Children[Root], "downward")
  <2>1. "downward" \in TypesOfMessage \ {"edges"} /\ C \in [Pairs -> Seq(Messages)]
    BY <1>1 DEF TypesOfMessage, Typed
  <2>2. \A p \in Children[Root] : ~Has(C[<<Root, p>>], "downward")
    BY <1>1, <1>4, TreeFacts
  <2> QED
    BY <1>1, <2>1, <2>2, Posting
<1> HIDE DEF E
<1>6. Typed(B, N, T, G, E, D)
    BY <1>1, <1>5 DEF Typed, Adds
<1>7. ASSUME NEW q \in Ranks PROVE Owing(k, B, G, E, q) = Owing(k, A, F, C, q)
  <2>1. ASSUME NEW c \in Children[q]
        PROVE  (~Reported(k, B, G, c) \/ Has(E[<<c, q>>], "upward"))
                    <=> (~Reported(k, A, F, c) \/ Has(C[<<c, q>>], "upward"))
    <3>1. c \in Ranks \ {Root} /\ c # q
      BY TreeFacts
    <3> QED
      BY <1>2, <1>5, <3>1 DEF Adds
  <2> QED
    BY <2>1 DEF Owing
<1> HIDE DEF G
<1>8. Orderly(k, B, E) /\ Acknowledged(k, B, N, E) /\ Delivered(k, B, E, D)
    BY <1>1, <1>5, TerminationAdded DEF Exchanging
<1>9. Upward(k, B, N, T, G, E)
  <2>1. ASSUME NEW q \in Ranks, NEW p \in Ranks, q # p
        PROVE  Has(E[<<q, p>>], "upward") <=> Has(C[<<q, p>>], "upward")
    BY <1>5, <2>1 DEF Adds
  <2>2. ASSUME NEW q \in Ranks, NEW p \in Ranks, q # p, Has(E[<<q, p>>], "upward")
        PROVE  q # Root /\ p = Parent[q] /\ Reported(k, B, G, q)
    BY <1>2, <2>1, <2>2 DEF Upward, Exchanging
  <2>3. ASSUME NEW q \in Ranks \ {Root}, Reported(k, B, G, q), ~HasSent(k, B, Parent[q])
        PROVE  Has(E[<<q, Parent[q]>>], "upward")
    <3>1. Parent[q] \in Ranks \ {q}
      BY TreeFacts
    <3> QED
      BY <1>2, <2>1, <2>3, <3>1 DEF Upward, Exchanging
  <2>4. \A q \in Ranks : HasSent(k, B, q) => T[q] = Cardinality(Owing(k, B, G, E, q))
    BY <1>7 DEF Upward, Exchanging
  <2>5. Owing(k, A, F, C, Root) = {}
    BY <1>1, OwingFinite DEF Upward, Exchanging
  <2>6. \A q \in Ranks : Reported(k, B, G, q) => N[q] = {} /\ Owing(k, B, G, E, q) = {}
    BY <1>2, <1>7, <2>5 DEF Upward, Exchanging
  <2> QED
    BY <2>2, <2>3, <2>4, <2>6 DEF Upward
<1>10. Downward(k, B, G, E)
  <2>1. ASSUME NEW q \in Ranks, NEW p \in Ranks, q # p, Has(E[<<q, p>>], "downward")
        PROVE  p \in Children[q] /\ HasLeft(k, B, q) /\ ~HasLeft(k, B, p)
    <3>1. q = Root /\ p \in Children[Root]
      BY <1>4, <1>5, <2>1 DEF Adds
    <3> QED
      BY <1>3, <2>1, <3>1
  <2>2. \A q \in Ranks \ {Root} : ~HasLeft(k, B, q)
    BY <1>3
  <2> QED
    BY <1>1, <1>2, <2>1, <2>2 DEF Downward
<1> QED
    BY <1>6, <1>8, <1>9, <1>10 DEF Exchanging, E, G

-----------------------------------------------------------------------------
(* A message is received.                                                  *)

LEMMA EdgesForType ==
    ASSUME NEW k \in DOMAIN others, others \in Seq(SUBSET Edges), NEW q, NEW p
    PROVE  EdgesFor(k, q, p) \in SUBSET Edges /\ EdgesFor(k, q, p) \subseteq Share(k, p)
<1>1. others[k] \subseteq Edges
    OBVIOUS
<1>2. \A e \in Edges : Transposed(e) \in Edges
    BY DEF Transposed, Edges
<1> QED
    BY <1>1, <1>2 DEF EdgesFor, Share

LEMMA EdgesTaken ==
    ASSUME NEW k \in DOMAIN others, others \in Seq(SUBSET Edges),
           NEW A, NEW N, NEW T, NEW F, NEW C, NEW D, NEW I,
           Exchanging(k, A, N, T, F, C, D),
           NEW r \in Ranks, NEW q \in Ranks \ {r}, HasSent(k, A, r),
           Takes(C, I, q, r, "edges")
    PROVE  Exchanging(k, A, N, T, F, Posted(I, r, {q}, "ack"),
                      [D EXCEPT ![r] = @ \cup EdgesFor(k, q, r)])
<1> DEFINE E == Posted(I, r, {q}, "ack")
           S == [D EXCEPT ![r] = @ \cup EdgesFor(k, q, r)]
<1>1. Typed(A, N, T, F, C, D) /\ q # r /\ Has(C[<<q, r>>], "edges")
    BY DEF Exchanging, Takes
<1>2. r \in N[q] /\ ~Has(C[<<r, q>>], "ack")
    BY <1>1 DEF Exchanging, Acknowledged
<1>3. HasSent(k, A, q)
    BY <1>1, EmptyHas DEF Exchanging, Orderly
<1>4. Adds(I, E, r, {q}, "ack")
  <2>1. "ack" \in TypesOfMessage \ {"edges"} /\ I \in [Pairs -> Seq(Messages)]
    BY DEF TypesOfMessage, Takes
  <2>2. ~Has(I[<<r, q>>], "ack")
    BY <1>1, <1>2 DEF Takes
  <2> QED
    BY <2>1, <2>2, Posting
<1> HIDE DEF E
<1>5. ASSUME NEW x \in Ranks, NEW y \in Ranks, x # y, NEW t
      PROVE  Has(E[<<x, y>>], t) <=> \/ Has(C[<<x, y>>], t) /\ ~(x = q /\ y = r /\ t = "edges")
                                     \/ x = r /\ y = q /\ t = "ack"
  <2>1. Has(I[<<x, y>>], t) <=> Has(C[<<x, y>>], t) /\ ~(x = q /\ y = r /\ t = "edges")
    BY <1>5 DEF Takes
  <2>2. Has(E[<<x, y>>], t) <=> Has(I[<<x, y>>], t) \/ (x = r /\ y \in {q} /\ t = "ack")
    BY <1>4, <1>5 DEF Adds
  <2> QED
    BY <2>1, <2>2
<1>6. Typed(A, N, T, F, E, S)
    BY <1>1, <1>4, EdgesForType DEF Typed, Adds
<1>7. Orderly(k, A, E)
  <2> SUFFICES ASSUME NEW x \in Ranks, NEW y \in Ranks, x # y
               PROVE  /\ Distinct(E[<<x, y>>])
                      /\ Bears(E[<<x, y>>], EdgesFor(k, x, y))
                      /\ ~HasSent(k, A, x) => E[<<x, y>>] = <<>>
    BY DEF Orderly
  <2>1. /\ Distinct(C[<<x, y>>])
        /\ Bears(C[<<x, y>>], EdgesFor(k, x, y))
        /\ ~HasSent(k, A, x) => C[<<x, y>>] = <<>>
    BY DEF Orderly, Exchanging
  <2>2. /\ Distinct(I[<<x, y>>])
        /\ Bears(I[<<x, y>>], EdgesFor(k, x, y))
        /\ ~HasSent(k, A, x) => I[<<x, y>>] = <<>>
    BY <2>1 DEF Takes
  <2> QED
    BY <1>4, <2>2 DEF Adds
<1>8. Acknowledged(k, A, N, E)
  <2> SUFFICES ASSUME NEW x \in Ranks, NEW y \in Ranks, x # y
               PROVE  /\ Has(E[<<x, y>>], "edges") => y \in N[x] /\ ~Has(E[<<y, x>>], "ack")
                      /\ Has(E[<<y, x>>], "ack") => HasSent(k, A, x) /\ y \in N[x]
    BY DEF Acknowledged
  <2>1. /\ Has(C[<<x, y>>], "edges") => y \in N[x] /\ ~Has(C[<<y, x>>], "ack")
        /\ Has(C[<<y, x>>], "ack") => HasSent(k, A, x) /\ y \in N[x]
    BY DEF Acknowledged, Exchanging
  <2>2. /\ Has(E[<<x, y>>], "edges") <=> Has(C[<<x, y>>], "edges") /\ ~(x = q /\ y = r)
        /\ Has(E[<<y, x>>], "ack") <=> Has(C[<<y, x>>], "ack") \/ (y = r /\ x = q)
    BY <1>5
  <2> QED
    BY <1>2, <1>3, <2>1, <2>2
<1>9. ASSUME NEW x \in Ranks, NEW y \in Ranks, x # y
      PROVE  /\ Has(E[<<x, y>>], "upward") <=> Has(C[<<x, y>>], "upward")
             /\ Has(E[<<x, y>>], "downward") <=> Has(C[<<x, y>>], "downward")
    BY <1>5, <1>9
<1>10. \A x \in Ranks : Owing(k, A, F, E, x) = Owing(k, A, F, C, x)
    BY <1>9, TreeFacts DEF Owing
<1>11. Upward(k, A, N, T, F, E)
    BY <1>9, <1>10, TreeFacts DEF Upward, Exchanging
<1>12. Downward(k, A, F, E)
    BY <1>9 DEF Downward, Exchanging
<1>13. Delivered(k, A, E, S)
  <2>1. /\ \A x \in Ranks : D[x] \subseteq S[x]
        /\ \A x \in Ranks \ {r} : S[x] = D[x]
        /\ S[r] = D[r] \cup EdgesFor(k, q, r)
    BY <1>1 DEF Typed
  <2> HIDE DEF S
  <2>2. \A x \in Ranks : HasSent(k, A, x) =>
            EdgesFor(k, x, x) \subseteq S[x] /\ S[x] \subseteq Share(k, x)
    BY <2>1, EdgesForType DEF Delivered, Exchanging
  <2>3. ASSUME NEW x \in Ranks, NEW y \in Ranks, x # y,
               HasSent(k, A, x), ~Has(E[<<x, y>>], "edges")
        PROVE  \/ EdgesFor(k, x, y) = {}
               \/ HasSent(k, A, y) /\ EdgesFor(k, x, y) \subseteq S[y]
    <3>1. CASE x = q /\ y = r
      BY <2>1, <3>1
    <3>2. CASE ~(x = q /\ y = r)
      <4>1. ~Has(C[<<x, y>>], "edges")
        BY <1>5, <2>3, <3>2
      <4> QED
        BY <2>1, <2>3, <4>1 DEF Delivered, Exchanging
    <3> QED
      BY <3>1, <3>2
  <2> QED
    BY <2>2, <2>3 DEF Delivered
<1> QED
    BY <1>6, <1>7, <1>8, <1>11, <1>12, <1>13 DEF Exchanging, E

LEMMA AckTaken ==
    ASSUME NEW k, NEW A, NEW N, NEW T, NEW F, NEW C, NEW D, NEW E,
           Exchanging(k, A, N, T, F, C, D),
           NEW r \in Ranks, NEW q \in Ranks \ {r}, Takes(C, E, q, r, "ack")
    PROVE  Exchanging(k, A, [N EXCEPT ![r] = @ \ {q}], T, F, E, D) /\ q \in N[r]
<1> DEFINE M == [N EXCEPT ![r] = @ \ {q}]
<1>1. Typed(A, N, T, F, C, D) /\ q # r /\ Has(C[<<q, r>>], "ack")
    BY DEF Exchanging, Takes
<1>2. q \in N[r] /\ ~Has(C[<<r, q>>], "edges")
    BY <1>1 DEF Exchanging, Acknowledged
<1>3. /\ Typed(A, M, T, F, E, D)
      /\ \A x \in Ranks \ {r} : M[x] = N[x]
      /\ M[r] = N[r] \ {q}
    BY <1>1 DEF Typed, Takes
<1> HIDE DEF M
<1>4. ASSUME NEW x \in Ranks, NEW y \in Ranks, x # y, NEW t
      PROVE  Has(E[<<x, y>>], t) <=> Has(C[<<x, y>>], t) /\ ~(x = q /\ y = r /\ t = "ack")
    BY <1>4 DEF Takes
<1>5. Orderly(k, A, E)
  <2> SUFFICES ASSUME NEW x \in Ranks, NEW y \in Ranks, x # y
               PROVE  /\ Distinct(E[<<x, y>>])
                      /\ Bears(E[<<x, y>>], EdgesFor(k, x, y))
                      /\ ~HasSent(k, A, x) => E[<<x, y>>] = <<>>
    BY DEF Orderly
  <2>1. /\ Distinct(C[<<x, y>>])
        /\ Bears(C[<<x, y>>], EdgesFor(k, x, y))
        /\ ~HasSent(k, A, x) => C[<<x, y>>] = <<>>
    BY DEF Orderly, Exchanging
  <2> QED
    BY <2>1 DEF Takes
<1>6. Acknowledged(k, A, M, E)
  <2> SUFFICES ASSUME NEW x \in Ranks, NEW y \in Ranks, x # y
               PROVE  /\ Has(E[<<x, y>>], "edges") => y \in M[x] /\ ~Has(E[<<y, x>>], "ack")
                      /\ Has(E[<<y, x>>], "ack") => HasSent(k, A, x) /\ y \in M[x]
    BY DEF Acknowledged
  <2>1. /\ Has(C[<<x, y>>], "edges") => y \in N[x] /\ ~Has(C[<<y, x>>], "ack")
        /\ Has(C[<<y, x>>], "ack") => HasSent(k, A, x) /\ y \in N[x]
    BY DEF Acknowledged, Exchanging
  <2>2. /\ Has(E[<<x, y>>], "edges") <=> Has(C[<<x, y>>], "edges")
        /\ Has(E[<<y, x>>], "ack") <=> Has(C[<<y, x>>], "ack") /\ ~(y = q /\ x = r)
    BY <1>4
  <2> QED
    BY <1>2, <1>3, <2>1, <2>2
<1>7. ASSUME NEW x \in Ranks, NEW y \in Ranks, x # y
      PROVE  /\ Has(E[<<x, y>>], "upward") <=> Has(C[<<x, y>>], "upward")
             /\ Has(E[<<x, y>>], "downward") <=> Has(C[<<x, y>>], "downward")
             /\ Has(E[<<x, y>>], "edges") <=> Has(C[<<x, y>>], "edges")
    BY <1>4, <1>7
<1>8. \A x \in Ranks : Owing(k, A, F, E, x) = Owing(k, A, F, C, x)
    BY <1>7, TreeFacts DEF Owing
<1>9. \A x \in Ranks : M[x] \subseteq N[x]
    BY <1>3
<1>10. Upward(k, A, M, T, F, E)
    BY <1>7, <1>8, <1>9, TreeFacts DEF Upward, Exchanging
<1>11. Downward(k, A, F, E)
    BY <1>7 DEF Downward, Exchanging
<1>12. Delivered(k, A, E, D)
    BY <1>7 DEF Delivered, Exchanging
<1> QED
    BY <1>2, <1>3, <1>5, <1>6, <1>10, <1>11, <1>12 DEF Exchanging, M

LEMMA UpwardTaken ==
    ASSUME NEW k, NEW A, NEW N, NEW T, NEW F, NEW C, NEW D, NEW E,
           Exchanging(k, A, N, T, F, C, D),
           NEW r \in Ranks, NEW q \in Ranks \ {r}, HasSent(k, A, r),
           Takes(C, E, q, r, "upward")
    PROVE  Exchanging(k, A, N, [T EXCEPT ![r] = @ - 1], F, E, D) /\ T[r] > 0
<1> DEFINE U == [T EXCEPT ![r] = @ - 1]
<1>1. Typed(A, N, T, F, C, D) /\ q # r /\ Has(C[<<q, r>>], "upward")
    BY DEF Exchanging, Takes
<1>2. q # Root /\ r = Parent[q] /\ Reported(k, A, F, q) /\ q \in Children[r]
    BY <1>1, TreeFacts DEF Exchanging, Upward
<1>3. q \in Owing(k, A, F, C, r)
    BY <1>1, <1>2 DEF Owing
<1>4. ASSUME NEW x \in Ranks, NEW y \in Ranks, x # y, NEW t
      PROVE  Has(E[<<x, y>>], t) <=> Has(C[<<x, y>>], t) /\ ~(x = q /\ y = r /\ t = "upward")
    BY <1>4 DEF Takes
<1>5. /\ Owing(k, A, F, E, r) = Owing(k, A, F, C, r) \ {q}
      /\ \A x \in Ranks \ {r} : Owing(k, A, F, E, x) = Owing(k, A, F, C, x)
  <2>1. ASSUME NEW x \in Ranks, NEW c \in Children[x]
        PROVE  (~Reported(k, A, F, c) \/ Has(E[<<c, x>>], "upward"))
                 <=> (~Reported(k, A, F, c) \/ Has(C[<<c, x>>], "upward")) /\ ~(c = q /\ x = r)
    <3>1. c \in Ranks /\ c # x
      BY TreeFacts
    <3> QED
      BY <1>2, <1>4, <3>1
  <2> QED
    BY <2>1 DEF Owing
<1>6. T[r] = Cardinality(Owing(k, A, F, C, r))
    BY DEF Exchanging, Upward
<1>7. /\ Cardinality(Owing(k, A, F, E, r)) = T[r] - 1
      /\ T[r] > 0
  <2>1. IsFiniteSet(Owing(k, A, F, C, r)) /\ IsFiniteSet(Owing(k, A, F, E, r))
    BY OwingFinite
  <2>2. Cardinality(Owing(k, A, F, E, r)) = Cardinality(Owing(k, A, F, C, r)) - 1
    BY <1>3, <1>5, <2>1, FS_RemoveElement
  <2>3. Cardinality(Owing(k, A, F, E, r)) \in Nat /\ Cardinality(Owing(k, A, F, C, r)) \in Nat
    BY OwingFinite
  <2> QED
    BY <1>6, <2>2, <2>3
<1>8. /\ Typed(A, N, U, F, E, D)
      /\ U[r] = T[r] - 1
      /\ \A x \in Ranks \ {r} : U[x] = T[x]
    BY <1>1, <1>7 DEF Typed, Takes
<1> HIDE DEF U
<1>9. Orderly(k, A, E) /\ Acknowledged(k, A, N, E) /\ Delivered(k, A, E, D)
    BY TerminationTaken DEF Exchanging
<1>10. Upward(k, A, N, U, F, E)
  <2>1. ASSUME NEW x \in Ranks, NEW y \in Ranks, x # y, Has(E[<<x, y>>], "upward")
        PROVE  x # Root /\ y = Parent[x] /\ Reported(k, A, F, x)
    BY <1>4, <2>1 DEF Upward, Exchanging
  <2>2. ASSUME NEW x \in Ranks \ {Root}, Reported(k, A, F, x), ~HasSent(k, A, Parent[x])
        PROVE  Has(E[<<x, Parent[x]>>], "upward")
    <3>1. Parent[x] \in Ranks \ {x} /\ Parent[x] # r
      BY <2>2, TreeFacts
    <3> QED
      BY <1>4, <2>2, <3>1 DEF Upward, Exchanging
  <2>3. \A x \in Ranks : HasSent(k, A, x) => U[x] = Cardinality(Owing(k, A, F, E, x))
    BY <1>5, <1>7, <1>8 DEF Upward, Exchanging
  <2>4. \A x \in Ranks : Reported(k, A, F, x) => N[x] = {} /\ Owing(k, A, F, E, x) = {}
    BY <1>5 DEF Upward, Exchanging
  <2> QED
    BY <2>1, <2>2, <2>3, <2>4 DEF Upward
<1>11. Downward(k, A, F, E)
    BY <1>4 DEF Downward, Exchanging
<1> QED
    BY <1>7, <1>8, <1>9, <1>10, <1>11 DEF Exchanging, U

LEMMA DownwardTaken ==
    ASSUME NEW k, NEW A, NEW N, NEW T, NEW F, NEW C, NEW D, NEW I,
           Exchanging(k, A, N, T, F, C, D),
           NEW r \in Ranks, NEW q \in Ranks \ {r}, Takes(C, I, q, r, "downward"),
           HasSent(k, A, r), NEW B, Leaves(k, A, B, r)
    PROVE  /\ Exchanging(k, B, N, T, F, Posted(I, r, Children[r], "downward"), D)
           /\ ~F[r] /\ T[r] = 0
<1> DEFINE E == Posted(I, r, Children[r], "downward")
<1> USE DEF Leaves
<1>1. Typed(A, N, T, F, C, D) /\ q # r /\ Has(C[<<q, r>>], "downward")
    BY DEF Exchanging, Takes
<1>2. r \in Children[q] /\ HasLeft(k, A, q) /\ ~HasLeft(k, A, r)
    BY <1>1 DEF Exchanging, Downward
<1>3. Reported(k, A, F, Root) /\ HasLeft(k, A, Root) /\ r # Root /\ q = Parent[r]
    BY <1>2, TreeFacts DEF Exchanging, Downward
<1>4. Adds(I, E, r, Children[r], "downward")
  <2>1. "downward" \in TypesOfMessage \ {"edges"} /\ I \in [Pairs -> Seq(Messages)]
    BY DEF TypesOfMessage, Takes
  <2>2. ASSUME NEW p \in Children[r] PROVE ~Has(I[<<r, p>>], "downward")
    <3>1. p \in Ranks /\ p # r
      BY TreeFacts
    <3>2. ~Has(C[<<r, p>>], "downward")
      BY <1>2, <3>1 DEF Exchanging, Downward
    <3> QED
      BY <3>1, <3>2 DEF Takes
  <2> QED
    BY <2>1, <2>2, Posting
<1> HIDE DEF E
<1>5. ASSUME NEW x \in Ranks, NEW y \in Ranks, x # y, NEW t
      PROVE  Has(E[<<x, y>>], t) <=> \/ Has(C[<<x, y>>], t) /\ ~(x = q /\ y = r /\ t = "downward")
                                     \/ x = r /\ y \in Children[r] /\ t = "downward"
  <2>1. Has(I[<<x, y>>], t) <=> Has(C[<<x, y>>], t) /\ ~(x = q /\ y = r /\ t = "downward")
    BY <1>5 DEF Takes
  <2>2. Has(E[<<x, y>>], t) <=> Has(I[<<x, y>>], t) \/ (x = r /\ y \in Children[r] /\ t = "downward")
    BY <1>4, <1>5 DEF Adds
  <2> QED
    BY <2>1, <2>2
<1>6. Typed(B, N, T, F, E, D)
    BY <1>1, <1>4 DEF Typed, Adds
<1>7. Orderly(k, A, I) /\ Acknowledged(k, A, N, I) /\ Delivered(k, A, I, D)
    BY TerminationTaken DEF Exchanging
<1>8. Orderly(k, B, E) /\ Acknowledged(k, B, N, E) /\ Delivered(k, B, E, D)
    BY <1>4, <1>7, TerminationAdded
<1>9. \A x \in Ranks : Reported(k, B, F, x) <=> Reported(k, A, F, x)
    BY DEF Reported
<1>10. ASSUME NEW x \in Ranks, NEW y \in Ranks, x # y
       PROVE  Has(E[<<x, y>>], "upward") <=> Has(C[<<x, y>>], "upward")
    BY <1>5, <1>10
<1>11. \A x \in Ranks : Owing(k, B, F, E, x) = Owing(k, A, F, C, x)
    BY <1>9, <1>10, TreeFacts DEF Owing
<1>12. Upward(k, B, N, T, F, E)
    BY <1>9, <1>10, <1>11, TreeFacts DEF Upward, Exchanging
<1>13. Downward(k, B, F, E)
  <2>1. ASSUME NEW x \in Ranks, NEW y \in Ranks, x # y, Has(E[<<x, y>>], "downward")
        PROVE  y \in Children[x] /\ HasLeft(k, B, x) /\ ~HasLeft(k, B, y)
    <3>1. CASE x = r /\ y \in Children[r]
      <4>1. ~HasLeft(k, A, y)
        BY <1>2, <3>1, TreeFacts DEF Exchanging, Downward
      <4> QED
        BY <2>1, <3>1, <4>1
    <3>2. CASE ~(x = r /\ y \in Children[r])
      <4>1. Has(C[<<x, y>>], "downward") /\ ~(x = q /\ y = r)
        BY <1>5, <2>1, <3>2
      <4>2. y \in Children[x] /\ HasLeft(k, A, x) /\ ~HasLeft(k, A, y)
        BY <2>1, <4>1 DEF Exchanging, Downward
      <4>3. y # r
        BY <1>3, <4>1, <4>2, TreeFacts
      <4> QED
        BY <4>2, <4>3
    <3> QED
      BY <3>1, <3>2
  <2>2. \A x \in Ranks \ {Root} : HasLeft(k, B, x) => HasLeft(k, B, Parent[x])
    BY <1>2, <1>3, TreeFacts DEF Exchanging, Downward
  <2>3. Reported(k, B, F, Root) /\ HasLeft(k, B, Root)
    BY <1>3, <1>9, TransposeAssumption
  <2> QED
    BY <2>1, <2>2, <2>3 DEF Downward
<1>14. Reported(k, A, F, r) /\ Owing(k, A, F, C, r) = {}
    BY <1>3, AllReported
<1>15. T[r] = 0
    BY <1>14, FS_EmptySet DEF Exchanging, Upward
<1> QED
    BY <1>6, <1>8, <1>12, <1>13, <1>14, <1>15 DEF Exchanging, E, Reported

-----------------------------------------------------------------------------
(* A process sends its edges, and first of all waits.                      *)

Receivers(k, r) == {q \in Ranks \ {r} : EdgesFor(k, r, q) # {}}

Sent(k, r, C) ==
    [p \in Pairs |-> IF p[1] = r /\ p[2] \in Receivers(k, r)
                     THEN Append(C[p], Message("edges", EdgesFor(k, r, p[2]))) ELSE C[p]]

LEMMA BeginKeeps ==
    ASSUME NEW k \in DOMAIN others, others \in Seq(SUBSET Edges),
           NEW A, NEW N, NEW T, NEW F, NEW C, NEW D,
           Exchanging(k, A, N, T, F, C, D),
           NEW r \in Ranks, ~HasSent(k, A, r), ~HasLeft(k, A, r),
           NEW B \in [Ranks -> Nat],
           \A x \in Ranks : HasSent(k, B, x) <=> HasSent(k, A, x) \/ x = r,
           \A x \in Ranks : HasLeft(k, B, x) <=> HasLeft(k, A, x)
    PROVE  Exchanging(k, B, [N EXCEPT ![r] = Receivers(k, r)],
                      [T EXCEPT ![r] = Cardinality(Children[r])],
                      [F EXCEPT ![r] = TRUE], Sent(k, r, C),
                      [D EXCEPT ![r] = EdgesFor(k, r, r)])
<1> DEFINE M == [N EXCEPT ![r] = Receivers(k, r)]
           U == [T EXCEPT ![r] = Cardinality(Children[r])]
           G == [F EXCEPT ![r] = TRUE]
           E == Sent(k, r, C)
           S == [D EXCEPT ![r] = EdgesFor(k, r, r)]
<1>1. Typed(A, N, T, F, C, D)
    BY DEF Exchanging
<1>2. /\ M \in [Ranks -> SUBSET Ranks] /\ U \in [Ranks -> Nat]
      /\ G \in [Ranks -> BOOLEAN] /\ S \in [Ranks -> SUBSET Edges]
      /\ M[r] = Receivers(k, r) /\ U[r] = Cardinality(Children[r])
      /\ G[r] = TRUE /\ S[r] = EdgesFor(k, r, r)
      /\ \A x \in Ranks \ {r} : M[x] = N[x] /\ U[x] = T[x] /\ G[x] = F[x] /\ S[x] = D[x]
  <2>1. Receivers(k, r) \in SUBSET Ranks
    BY DEF Receivers
  <2>2. Cardinality(Children[r]) \in Nat
    BY TreeFacts, FS_CardinalityType
  <2>3. EdgesFor(k, r, r) \in SUBSET Edges
    BY EdgesForType
  <2> QED
    BY <1>1, <2>1, <2>2, <2>3 DEF Typed
<1> HIDE DEF M, U, G, S
<1>3. E \in [Pairs -> Seq(Messages)]
  <2>1. \A x \in Pairs : Append(C[x], Message("edges", EdgesFor(k, r, x[2]))) \in Seq(Messages)
    <3>1. \A q : Message("edges", EdgesFor(k, r, q)) \in Messages
      BY EdgesForType DEF Messages, Message, TypesOfMessage
    <3> QED
      BY <1>1, <3>1, AppendHas DEF Typed
  <2> QED
    BY <1>1, <2>1 DEF Sent, Typed
<1>4. ASSUME NEW x \in Ranks, NEW y \in Ranks, x # y
      PROVE  /\ \A t : Has(E[<<x, y>>], t) <=>
                        Has(C[<<x, y>>], t) \/ (x = r /\ y \in Receivers(k, r) /\ t = "edges")
             /\ Distinct(E[<<x, y>>])
             /\ Bears(E[<<x, y>>], EdgesFor(k, x, y))
             /\ ~HasSent(k, B, x) => E[<<x, y>>] = <<>>
  <2> DEFINE m == Message("edges", EdgesFor(k, r, y))
  <2>1. /\ <<x, y>> \in Pairs /\ C[<<x, y>>] \in Seq(Messages)
        /\ Distinct(C[<<x, y>>])
        /\ Bears(C[<<x, y>>], EdgesFor(k, x, y))
        /\ ~HasSent(k, A, x) => C[<<x, y>>] = <<>>
    BY <1>1, <1>4 DEF Pairs, Typed, Exchanging, Orderly
  <2>2. E[<<x, y>>] = IF x = r /\ y \in Receivers(k, r) THEN Append(C[<<x, y>>], m) ELSE C[<<x, y>>]
    BY <2>1 DEF Sent
  <2>3. m \in Messages /\ m.type = "edges" /\ m.edges = EdgesFor(k, r, y)
    BY EdgesForType DEF Messages, Message, TypesOfMessage
  <2> HIDE DEF E, m
  <2>4. CASE x = r /\ y \in Receivers(k, r)
    <3>1. C[<<x, y>>] = <<>>
      BY <2>1, <2>4
    <3>2. E[<<x, y>>] = Append(<<>>, m)
      BY <2>2, <2>4, <3>1
    <3>3. /\ \A t : Has(Append(<<>>, m), t) <=> Has(<<>>, t) \/ m.type = t
          /\ Distinct(<<>>) /\ ~Has(<<>>, m.type) => Distinct(Append(<<>>, m))
          /\ \A edges : Bears(Append(<<>>, m), edges)
                            <=> Bears(<<>>, edges) /\ (m.type = "edges" => m.edges = edges)
      BY <2>3, AppendHas, EmptyHas
    <3> QED
      BY <2>3, <2>4, <3>1, <3>2, <3>3, EmptyHas
  <2>5. CASE ~(x = r /\ y \in Receivers(k, r))
    <3>1. E[<<x, y>>] = C[<<x, y>>]
      BY <2>2, <2>5
    <3> QED
      BY <2>1, <2>5, <3>1
  <2> QED
    BY <2>4, <2>5
<1> HIDE DEF E
<1>4a. ASSUME NEW x \in Ranks, NEW y \in Ranks, x # y, NEW t
       PROVE  Has(E[<<x, y>>], t) <=>
                    Has(C[<<x, y>>], t) \/ (x = r /\ y \in Receivers(k, r) /\ t = "edges")
    BY <1>4, <1>4a
<1>5. /\ ~Reported(k, A, F, r) /\ ~Reported(k, B, G, r)
      /\ \A x \in Ranks \ {r} : Reported(k, B, G, x) <=> Reported(k, A, F, x)
    BY <1>2 DEF Reported
<1>6. \A y \in Ranks \ {r} : C[<<r, y>>] = <<>> /\ \A t : ~Has(C[<<r, y>>], t)
    BY EmptyHas DEF Exchanging, Orderly
<1>7. Orderly(k, B, E)
    BY <1>4 DEF Orderly
<1>8. Acknowledged(k, B, M, E)
  <2> SUFFICES ASSUME NEW x \in Ranks, NEW y \in Ranks, x # y
               PROVE  /\ Has(E[<<x, y>>], "edges") => y \in M[x] /\ ~Has(E[<<y, x>>], "ack")
                      /\ Has(E[<<y, x>>], "ack") => HasSent(k, B, x) /\ y \in M[x]
    BY DEF Acknowledged
  <2>1. /\ Has(C[<<x, y>>], "edges") => y \in N[x] /\ ~Has(C[<<y, x>>], "ack")
        /\ Has(C[<<y, x>>], "ack") => HasSent(k, A, x) /\ y \in N[x]
    BY DEF Acknowledged, Exchanging
  <2>2. /\ Has(E[<<x, y>>], "edges") <=>
                Has(C[<<x, y>>], "edges") \/ (x = r /\ y \in Receivers(k, r))
        /\ Has(E[<<y, x>>], "ack") <=> Has(C[<<y, x>>], "ack")
    BY <1>4a
  <2>3. CASE x = r
    <3>1. ~Has(C[<<y, x>>], "ack") /\ ~Has(C[<<x, y>>], "edges") /\ M[x] = Receivers(k, r)
      BY <1>2, <1>6, <2>1, <2>3
    <3> QED
      BY <2>2, <2>3, <3>1
  <2>4. CASE x # r
    <3>1. M[x] = N[x] /\ (HasSent(k, B, x) <=> HasSent(k, A, x))
      BY <1>2, <2>4
    <3> QED
      BY <2>1, <2>2, <2>4, <3>1
  <2> QED
    BY <2>3, <2>4
<1>9. ASSUME NEW x \in Ranks, NEW y \in Ranks, x # y
      PROVE  /\ Has(E[<<x, y>>], "upward") <=> Has(C[<<x, y>>], "upward")
             /\ Has(E[<<x, y>>], "downward") <=> Has(C[<<x, y>>], "downward")
  <2>1. ASSUME NEW t, t # "edges" PROVE Has(E[<<x, y>>], t) <=> Has(C[<<x, y>>], t)
    BY <1>4a, <1>9, <2>1
  <2> QED
    BY <2>1
<1>10. \A x \in Ranks : Owing(k, B, G, E, x) = Owing(k, A, F, C, x)
  <2> SUFFICES ASSUME NEW x \in Ranks, NEW c \in Children[x]
               PROVE  (~Reported(k, B, G, c) \/ Has(E[<<c, x>>], "upward"))
                        <=> (~Reported(k, A, F, c) \/ Has(C[<<c, x>>], "upward"))
    BY DEF Owing
  <2>1. c \in Ranks /\ c # x
    BY TreeFacts
  <2> QED
    BY <1>5, <1>9, <2>1
<1>11. Upward(k, B, M, U, G, E)
  <2>1. ASSUME NEW x \in Ranks, NEW y \in Ranks, x # y, Has(E[<<x, y>>], "upward")
        PROVE  x # Root /\ y = Parent[x] /\ Reported(k, B, G, x)
    BY <1>5, <1>9, <2>1 DEF Upward, Exchanging
  <2>2. ASSUME NEW x \in Ranks \ {Root}, Reported(k, B, G, x), ~HasSent(k, B, Parent[x])
        PROVE  Has(E[<<x, Parent[x]>>], "upward")
    <3>1. Parent[x] \in Ranks \ {x}
      BY TreeFacts
    <3> QED
      BY <1>5, <1>9, <2>2, <3>1 DEF Upward, Exchanging
  <2>3. Owing(k, A, F, C, r) = Children[r]
    <3> SUFFICES ASSUME NEW c \in Children[r], Reported(k, A, F, c)
                 PROVE  Has(C[<<c, r>>], "upward")
      BY DEF Owing
    <3>1. c \in Ranks \ {Root} /\ Parent[c] = r
      BY TreeFacts
    <3> QED
      BY <3>1 DEF Upward, Exchanging
  <2>4. \A x \in Ranks : HasSent(k, B, x) => U[x] = Cardinality(Owing(k, B, G, E, x))
    BY <1>2, <1>10, <2>3 DEF Upward, Exchanging
  <2>5. \A x \in Ranks : Reported(k, B, G, x) => M[x] = {} /\ Owing(k, B, G, E, x) = {}
    BY <1>2, <1>5, <1>10 DEF Upward, Exchanging
  <2> QED
    BY <2>1, <2>2, <2>4, <2>5 DEF Upward
<1>12. Downward(k, B, G, E)
  <2>1. ~Reported(k, A, F, Root)
    BY AllReported
  <2>2. \A x \in Ranks : ~HasLeft(k, A, x)
    BY <2>1 DEF Downward, Exchanging
  <2>3. ~Reported(k, B, G, Root)
    BY <1>5, <2>1, TransposeAssumption
  <2> QED
    BY <1>9, <2>2, <2>3 DEF Downward, Exchanging
<1>13. Delivered(k, B, E, S)
  <2>1. \A x \in Ranks : HasSent(k, B, x) =>
            EdgesFor(k, x, x) \subseteq S[x] /\ S[x] \subseteq Share(k, x)
    <3>1. EdgesFor(k, r, r) \subseteq S[r] /\ S[r] \subseteq Share(k, r)
      BY <1>2, EdgesForType
    <3>2. ASSUME NEW x \in Ranks \ {r}, HasSent(k, A, x)
          PROVE  EdgesFor(k, x, x) \subseteq S[x] /\ S[x] \subseteq Share(k, x)
      BY <1>2, <3>2 DEF Delivered, Exchanging
    <3> QED
      BY <3>1, <3>2
  <2>2. ASSUME NEW x \in Ranks, NEW y \in Ranks, x # y,
               HasSent(k, B, x), ~Has(E[<<x, y>>], "edges")
        PROVE  \/ EdgesFor(k, x, y) = {}
               \/ HasSent(k, B, y) /\ EdgesFor(k, x, y) \subseteq S[y]
    <3>1. CASE x = r
      BY <1>4a, <2>2, <3>1 DEF Receivers
    <3>2. CASE x # r
      <4>1. HasSent(k, A, x) /\ ~Has(C[<<x, y>>], "edges")
        BY <1>4a, <2>2, <3>2
      <4>2. \/ EdgesFor(k, x, y) = {}
            \/ HasSent(k, A, y) /\ EdgesFor(k, x, y) \subseteq D[y]
        BY <2>2, <4>1 DEF Delivered, Exchanging
      <4> QED
        BY <1>2, <4>2
    <3> QED
      BY <3>1, <3>2
  <2> QED
    BY <2>1, <2>2 DEF Delivered
<1>14. Typed(B, M, U, G, E, S)
    BY <1>2, <1>3 DEF Typed
<1> QED
    BY <1>7, <1>8, <1>11, <1>12, <1>13, <1>14 DEF Exchanging, E, M, U, G, S

-----------------------------------------------------------------------------
(* The exchange as processes come and go.                                  *)

LEMMA Moved ==
    ASSUME NEW k, NEW A, NEW N, NEW T, NEW F, NEW C, NEW D,
           Exchanging(k, A, N, T, F, C, D), NEW B \in [Ranks -> Nat],
           \A x \in Ranks : HasSent(k, B, x) <=> HasSent(k, A, x),
           \A x \in Ranks : HasLeft(k, B, x) <=> HasLeft(k, A, x)
    PROVE  Exchanging(k, B, N, T, F, C, D)
<1>1. \A x \in Ranks : Reported(k, B, F, x) <=> Reported(k, A, F, x)
    BY DEF Reported
<1>2. \A x \in Ranks : Owing(k, B, F, C, x) = Owing(k, A, F, C, x)
    BY <1>1, TreeFacts DEF Owing
<1>3. Typed(B, N, T, F, C, D)
    BY DEF Exchanging, Typed
<1>4. Orderly(k, B, C)
    BY DEF Exchanging, Orderly
<1>5. Acknowledged(k, B, N, C)
    BY DEF Exchanging, Acknowledged
<1>6. Upward(k, B, N, T, F, C)
    BY <1>1, <1>2, TreeFacts DEF Exchanging, Upward
<1>7. Downward(k, B, F, C)
    BY <1>1, TransposeAssumption DEF Exchanging, Downward
<1>8. Delivered(k, B, C, D)
    BY DEF Exchanging, Delivered
<1> QED
    BY <1>3, <1>4, <1>5, <1>6, <1>7, <1>8 DEF Exchanging

LEMMA Started ==
    ASSUME NEW k, NEW A, NEW N, NEW T, NEW F, NEW C, NEW D, Typed(A, N, T, F, C, D),
           \A x \in Ranks : ~HasSent(k, A, x) /\ ~HasLeft(k, A, x),
           \A x \in Pairs : C[x] = <<>>
    PROVE  Exchanging(k, A, N, T, F, C, D)
<1>1. \A q, p \in Ranks : q # p => C[<<q, p>>] = <<>>
    BY DEF Pairs
<1>2. \A x \in Ranks : ~Reported(k, A, F, x)
    BY DEF Reported
<1>3. Root \in Ranks
    BY TransposeAssumption
<1>4. Orderly(k, A, C)
    BY <1>1, EmptyHas DEF Orderly
<1>5. Acknowledged(k, A, N, C)
    BY <1>1, EmptyHas DEF Acknowledged
<1>6. Upward(k, A, N, T, F, C)
    BY <1>1, <1>2, EmptyHas DEF Upward
<1>7. Downward(k, A, F, C)
    BY <1>1, <1>2, <1>3, EmptyHas DEF Downward
<1>8. Delivered(k, A, C, D)
    BY DEF Delivered
<1> QED
    BY <1>4, <1>5, <1>6, <1>7, <1>8 DEF Exchanging

\* Only a process that is alone has nobody to wait for.
LEMMA RootWaits ==
    /\ Children[Root] = {} => Ranks = {Root}
    /\ Ranks = {Root} <=> Cardinality(Ranks) = 1
    /\ Cardinality(Ranks) \in Nat
    /\ \A r \in Ranks : Cardinality(Children[r]) \in Nat
    /\ \A r \in Ranks : Cardinality(Children[r]) = 0 => Children[r] = {}
<1>1. Root \in Ranks /\ IsFiniteSet(Ranks)
    BY TransposeAssumption
<1>2. Children[Root] = {} => Ranks = {Root}
  <2> SUFFICES ASSUME Children[Root] = {} PROVE Ranks = {Root}
    OBVIOUS
  <2>1. {Root} \in SUBSET Ranks /\ Root \in {Root} /\ \A x \in {Root} : Children[x] \subseteq {Root}
    BY <1>1
  <2> QED
    BY <2>1, Reached
<1>3. Ranks = {Root} <=> Cardinality(Ranks) = 1
    BY <1>1, FS_Singleton
<1>4. \A r \in Ranks : IsFiniteSet(Children[r])
    BY TreeFacts
<1> QED
    BY <1>1, <1>2, <1>3, <1>4, FS_CardinalityType, FS_EmptySet

LEMMA Ended ==
    ASSUME TypeOK, NEW r \in Ranks, NEW k \in Nat, at[r] = 9 * (k - 1) + 4,
           NEW acks, NEW terms, NEW ch, NEW D,
           Exchanging(k, at, [ack_needed EXCEPT ![r] = acks],
                      [child_term_needed EXCEPT ![r] = terms], send_upward, ch, D),
           EndIteration(r, acks, terms, ch, FALSE)
    PROVE  /\ Exchanging(k, at', ack_needed', child_term_needed', send_upward', chan', D)
           /\ \E s \in 0 .. 1 : at' = [at EXCEPT ![r] = @ + s]
<1> DEFINE M == [ack_needed EXCEPT ![r] = acks]
           U == [child_term_needed EXCEPT ![r] = terms]
           due == TermDue(acks, terms, send_upward[r])
<1>1. /\ at \in [Ranks -> Nat] /\ send_upward \in [Ranks -> BOOLEAN]
      /\ ack_needed' = M /\ child_term_needed' = U
      /\ send_upward' = [send_upward EXCEPT ![r] = @ /\ ~due]
      /\ M[r] = acks /\ U[r] = terms
  <2>1. 0 .. End \subseteq Nat
    OBVIOUS
  <2> QED
    BY <2>1 DEF TypeOK, EndIteration
<1> HIDE DEF M, U
<1>2. HasSent(k, at, r) /\ ~HasLeft(k, at, r)
    BY <1>1 DEF HasSent, HasLeft
<1>3. ASSUME ~due
      PROVE  /\ Exchanging(k, at', M, U, send_upward', chan', D)
             /\ at' = [at EXCEPT ![r] = @ + 0]
  <2>1. at' = [at EXCEPT ![r] = @ + 0] /\ chan' = ch
    BY <1>3 DEF EndIteration, Advance
  <2>2. at' = at
    BY <1>1, <2>1
  <2>3. send_upward' = send_upward
    BY <1>1, <1>3
  <2> QED
    BY <2>1, <2>2, <2>3 DEF M, U
<1>4. ASSUME due, r # Root
      PROVE  /\ Exchanging(k, at', M, U, send_upward', chan', D)
             /\ at' = [at EXCEPT ![r] = @ + 0]
  <2>1. /\ at' = [at EXCEPT ![r] = @ + 0]
        /\ chan' = Posted(ch, r, {Parent[r]}, "upward")
    BY <1>4 DEF EndIteration, Advance
  <2>2. at' = at
    BY <1>1, <2>1
  <2>3. send_upward' = [send_upward EXCEPT ![r] = FALSE]
    BY <1>1, <1>4
  <2>4. send_upward[r] /\ M[r] = {} /\ U[r] = 0
    BY <1>1, <1>4 DEF TermDue
  <2>5. Exchanging(k, at, M, U, send_upward, ch, D)
    BY DEF M, U
  <2>6. Exchanging(k, at, M, U, [send_upward EXCEPT ![r] = FALSE],
                   Posted(ch, r, {Parent[r]}, "upward"), D)
    BY <1>2, <1>4, <2>4, <2>5, ReportKeeps
  <2> QED
    BY <2>1, <2>2, <2>3, <2>6
<1>5. ASSUME due, r = Root
      PROVE  /\ Exchanging(k, at', M, U, send_upward', chan', D)
             /\ at' = [at EXCEPT ![r] = @ + 1]
  <2>1. /\ at' = [at EXCEPT ![r] = @ + 1]
        /\ chan' = Posted(ch, Root, Children[Root], "downward")
    BY <1>5 DEF EndIteration, Advance
  <2>2. Leaves(k, at, at', Root)
    BY <1>1, <1>5, <2>1 DEF HasSent, HasLeft, Leaves
  <2>3. send_upward' = [send_upward EXCEPT ![Root] = FALSE]
    BY <1>1, <1>5
  <2>4. send_upward[Root] /\ M[Root] = {} /\ U[Root] = 0
    BY <1>1, <1>5 DEF TermDue
  <2>5. Exchanging(k, at, M, U, send_upward, ch, D) /\ HasSent(k, at, Root)
    BY <1>2, <1>5 DEF M, U
  <2>6. Exchanging(k, at', M, U, [send_upward EXCEPT ![Root] = FALSE],
                   Posted(ch, Root, Children[Root], "downward"), D)
    BY <2>2, <2>4, <2>5, FinishKeeps
  <2> QED
    BY <2>1, <2>3, <2>6
<1> QED
    BY <1>1, <1>3, <1>4, <1>5

-----------------------------------------------------------------------------
(* The place of a process, and its stage there.                            *)

LEMMA Others ==
    ASSUME TypeOK
    PROVE  /\ others \in Seq(SUBSET Edges)
           /\ Len(others) \in Nat /\ DOMAIN others = 1 .. Len(others)
           /\ End = 9 * Len(others)
           /\ at \in [Ranks -> Nat] /\ \A r \in Ranks : at[r] <= End
<1>1. others \in Seq(SUBSET Edges)
    BY TransposeAssumption DEF TypeOK
<1>2. Len(Stages) = 9
    BY DEF Stages
<1>3. Len(others) \in Nat /\ DOMAIN others = 1 .. Len(others)
    BY <1>1
<1>4. End = 9 * Len(others)
    BY <1>2 DEF End
<1> QED
    BY <1>1, <1>3, <1>4 DEF TypeOK

LEMMA Nines ==
    ASSUME NEW n \in Nat, NEW l \in Nat, n < 9 * l
    PROVE  /\ n % 9 \in 0 .. 8
           /\ (n \div 9) + 1 \in 1 .. l
           /\ n = 9 * (((n \div 9) + 1) - 1) + (n % 9)
<1> DEFINE d == n \div 9
           e == n % 9
<1>1. d \in Nat /\ e \in 0 .. 8 /\ n = 9 * d + e
    OBVIOUS
<1> HIDE DEF d, e
<1>2. d < l
    BY <1>1
<1>3. d + 1 \in 1 .. l /\ (d + 1) - 1 = d
    BY <1>1, <1>2
<1>4. e \in 0 .. 8 /\ d + 1 \in 1 .. l /\ n = 9 * ((d + 1) - 1) + e
    BY <1>1, <1>3
<1> QED
    BY <1>4 DEF d, e

LEMMA Place ==
    ASSUME TypeOK, NEW r \in Ranks, StageOf(r) # "done"
    PROVE  /\ Call(r) \in 1 .. Len(others)
           /\ at[r] < 9 * Len(others)
           /\ at[r] % 9 \in 0 .. 8
           /\ at[r] = 9 * (Call(r) - 1) + (at[r] % 9)
           /\ StageOf(r) = Stages[(at[r] % 9) + 1]
<1>1. Len(Stages) = 9
    BY DEF Stages
<1>2. at[r] < End /\ StageOf(r) = Stages[(at[r] % 9) + 1] /\ Call(r) = (at[r] \div 9) + 1
    BY <1>1 DEF StageOf, Call
<1>3. at[r] \in Nat /\ Len(others) \in Nat /\ at[r] < 9 * Len(others)
    BY <1>2, Others
<1>4. /\ at[r] % 9 \in 0 .. 8
      /\ (at[r] \div 9) + 1 \in 1 .. Len(others)
      /\ at[r] = 9 * (((at[r] \div 9) + 1) - 1) + (at[r] % 9)
    BY <1>3, Nines
<1> QED
    BY <1>2, <1>3, <1>4

LEMMA PlaceOfStage ==
    ASSUME TypeOK, NEW r \in Ranks
    PROVE  LET e == at[r] - 9 * (Call(r) - 1)
           IN  /\ StageOf(r) = "barrier" => e \in {0, 2, 6, 8}
               /\ StageOf(r) = "probe" => e \in {1, 7}
               /\ StageOf(r) = "send" => e = 3
               /\ StageOf(r) = "receive" => e = 4
               /\ StageOf(r) = "waitall" => e = 5
<1> SUFFICES ASSUME StageOf(r) # "done"
             PROVE  LET e == at[r] - 9 * (Call(r) - 1)
                    IN  /\ StageOf(r) = "barrier" => e \in {0, 2, 6, 8}
                        /\ StageOf(r) = "probe" => e \in {1, 7}
                        /\ StageOf(r) = "send" => e = 3
                        /\ StageOf(r) = "receive" => e = 4
                        /\ StageOf(r) = "waitall" => e = 5
    OBVIOUS
<1> DEFINE e == at[r] % 9
<1>1. e \in 0 .. 8 /\ at[r] = 9 * (Call(r) - 1) + e /\ StageOf(r) = Stages[e + 1]
    BY Place
<1> HIDE DEF e
<1>2. e = at[r] - 9 * (Call(r) - 1)
    BY <1>1, Place, Others
<1>3. /\ Stages[1] = "barrier" /\ Stages[2] = "probe" /\ Stages[3] = "barrier"
      /\ Stages[4] = "send" /\ Stages[5] = "receive" /\ Stages[6] = "waitall"
      /\ Stages[7] = "barrier" /\ Stages[8] = "probe" /\ Stages[9] = "barrier"
    BY DEF Stages
<1>4. e \in {0, 1, 2, 3, 4, 5, 6, 7, 8}
    BY <1>1
<1> QED
    BY <1>1, <1>2, <1>3, <1>4

-----------------------------------------------------------------------------
(* The invariant of the calls is kept.                                     *)

LEMMA SameOthers ==
    ASSUME others' = others, NEW k,
           Exchanging(k, at', ack_needed', child_term_needed', send_upward', chan', transposes'[k])
    PROVE  Exchanging(k, at, ack_needed, child_term_needed, send_upward, chan, transposes[k])'
<1>1. /\ \A q, p : EdgesFor(k, q, p)' = EdgesFor(k, q, p)
      /\ \A p : Share(k, p)' = Share(k, p)
    BY DEF EdgesFor, Share
<1>2. Typed(at, ack_needed, child_term_needed, send_upward, chan, transposes[k])'
    BY DEF Exchanging, Typed
<1>3. Orderly(k, at, chan)'
    BY <1>1 DEF Exchanging, Orderly, HasSent
<1>4. Acknowledged(k, at, ack_needed, chan)'
    BY DEF Exchanging, Acknowledged, HasSent
<1>5. Upward(k, at, ack_needed, child_term_needed, send_upward, chan)'
    BY DEF Exchanging, Upward, Reported, Owing, HasSent
<1>6. Downward(k, at, send_upward, chan)'
    BY DEF Exchanging, Downward, Reported, HasSent, HasLeft
<1>7. Delivered(k, at, chan, transposes[k])'
    BY <1>1 DEF Exchanging, Delivered, HasSent
<1> QED
    BY <1>2, <1>3, <1>4, <1>5, <1>6, <1>7 DEF Exchanging

LEMMA TogetherKept ==
    ASSUME TypeOK, Together, others' = others, NEW r \in Ranks, NEW s \in 0 .. 2,
           at' = [at EXCEPT ![r] = @ + s],
           \A k \in DOMAIN others, b \in {0, 2, 6, 8} :
               at[r] <= 9 * (k - 1) + b /\ 9 * (k - 1) + b < at[r] + s =>
                   \A q \in Ranks : at[q] >= 9 * (k - 1) + b
    PROVE  Together'
<1>1. /\ at \in [Ranks -> Nat] /\ DOMAIN others \subseteq Nat
      /\ \A x \in Ranks : at'[x] = IF x = r THEN at[x] + s ELSE at[x]
    BY Others
<1> SUFFICES ASSUME NEW k \in DOMAIN others, NEW b \in {0, 2, 6, 8},
                    NEW x \in Ranks, NEW y \in Ranks, at'[x] > 9 * (k - 1) + b
             PROVE  at'[y] >= 9 * (k - 1) + b
    BY DEF Together
<1>2. at[y] >= 9 * (k - 1) + b
  <2>1. CASE at[x] > 9 * (k - 1) + b
    BY <2>1 DEF Together
  <2>2. CASE ~(at[x] > 9 * (k - 1) + b)
    <3>1. x = r /\ at[r] <= 9 * (k - 1) + b /\ 9 * (k - 1) + b < at[r] + s
      BY <1>1, <2>2
    <3> QED
      BY <3>1
  <2> QED
    BY <2>1, <2>2
<1> QED
    BY <1>1, <1>2

LEMMA InCall ==
    ASSUME TypeOK, Together, NEW r \in Ranks, NEW k \in DOMAIN others,
           \/ at[r] \in 9 * (k - 1) + 3 .. 9 * (k - 1) + 5
           \/ at[r] = 9 * (k - 1) + 2 /\ AllEntered(r)
    PROVE  Within(k)
<1> SUFFICES ASSUME NEW q \in Ranks PROVE at[q] \in 9 * (k - 1) + 2 .. 9 * (k - 1) + 6
    BY DEF Within
<1>1. at[r] \in Nat /\ at[q] \in Nat /\ k \in Nat
    BY Others
<1>2. at[q] >= 9 * (k - 1) + 2
    BY <1>1 DEF Together, AllEntered
<1>3. at[q] <= 9 * (k - 1) + 6
    BY <1>1 DEF Together
<1> QED
    BY <1>1, <1>2, <1>3

LEMMA InKept ==
    ASSUME CallsInv, NEW r \in Ranks, NEW k \in DOMAIN others, NEW s \in 0 .. 2,
           at[r] >= 9 * (k - 1) + 2, at[r] + s <= 9 * (k - 1) + 6, Within(k),
           others' = others, at' = [at EXCEPT ![r] = @ + s], Together',
           transposes' \in [DOMAIN others -> [Ranks -> SUBSET Edges]],
           \A j \in DOMAIN others \ {k} : transposes'[j] = transposes[j],
           Exchanging(k, at', ack_needed', child_term_needed', send_upward', chan', transposes'[k])
    PROVE  CallsInv'
<1>1. /\ TypeOK /\ at \in [Ranks -> Nat] /\ k \in 1 .. Len(others) /\ End = 9 * Len(others)
      /\ others \in Seq(SUBSET Edges) /\ DOMAIN others = 1 .. Len(others)
      /\ \A x \in Ranks : at'[x] = IF x = r THEN at[x] + s ELSE at[x]
    BY Others DEF CallsInv
<1>2. Typed(at', ack_needed', child_term_needed', send_upward', chan', transposes'[k])
    BY DEF Exchanging
<1>3. TypeOK'
  <2>1. ASSUME NEW x \in Ranks PROVE at'[x] \in 0 .. End
    <3>1. at[x] \in 0 .. End /\ at[x] \in Nat
      BY <1>1 DEF TypeOK
    <3>2. at[r] + s \in Nat /\ at[r] + s <= End
      BY <1>1
    <3> QED
      BY <1>1, <3>1, <3>2
  <2>2. End' = End
    BY DEF End
  <2>3. at' \in [Ranks -> 0 .. End]
    BY <1>2, <2>1 DEF Typed
  <2> QED
    BY <1>1, <1>2, <2>2, <2>3 DEF TypeOK, Typed
<1>4. ASSUME NEW j \in DOMAIN others, Within(j)' PROVE j = k
  <2>1. at'[r] \in 9 * (j - 1) + 2 .. 9 * (j - 1) + 6
    BY <1>4 DEF Within
  <2>2. at'[r] = at[r] + s /\ at[r] \in Nat /\ j \in Nat /\ k \in Nat
    BY <1>1
  <2> QED
    BY <2>1, <2>2
<1>5. Within(k)'
  <2> SUFFICES ASSUME NEW x \in Ranks PROVE at'[x] \in 9 * (k - 1) + 2 .. 9 * (k - 1) + 6
    BY DEF Within
  <2>1. at[x] \in 9 * (k - 1) + 2 .. 9 * (k - 1) + 6
    BY DEF Within
  <2> QED
    BY <1>1, <2>1
<1>6. Exchanges'
    BY <1>4, <1>5, SameOthers DEF Exchanges
<1>7. Complete'
  <2> SUFFICES ASSUME NEW j \in DOMAIN others, NEW x \in Ranks, HasLeft(j, at', x),
                      NEW p \in Ranks
               PROVE  transposes'[j][p] = Share(j, p)
    BY DEF Complete, Share, HasLeft
  <2>1. CASE j = k
    <3>1. Reported(k, at', send_upward', Root)
      BY <2>1 DEF Exchanging, Downward
    <3> QED
      BY <1>1, <2>1, <3>1, ShareDelivered
  <2>2. CASE j # k
    <3>1. HasLeft(j, at, x)
      <4>1. j \in Nat /\ k \in Nat /\ (j < k \/ k < j)
        BY <1>1, <2>2
      <4>2. CASE x # r
        BY <1>1, <4>2 DEF HasLeft
      <4>3. CASE x = r
        <5>1. at[r] + s >= 9 * (j - 1) + 5 /\ at[r] \in Nat
          BY <1>1, <4>3 DEF HasLeft
        <5>2. at[r] >= 9 * (j - 1) + 5
          BY <4>1, <5>1
        <5> QED
          BY <4>3, <5>2 DEF HasLeft
      <4> QED
        BY <4>2, <4>3
    <3> QED
      BY <2>2, <3>1 DEF CallsInv, Complete
  <2> QED
    BY <2>1, <2>2
<1> QED
    BY <1>3, <1>6, <1>7 DEF CallsInv

LEMMA OutKept ==
    ASSUME CallsInv, NEW r \in Ranks, at[r] < End, at' = [at EXCEPT ![r] = @ + 1], Together',
           UNCHANGED <<others, transposes, ack_needed, child_term_needed, send_upward, chan>>,
           \A j \in DOMAIN others : HasLeft(j, at', r) => HasLeft(j, at, r),
           \A x \in Pairs : chan[x] = <<>>,
           \A j \in DOMAIN others : Within(j)' =>
               \A x \in Ranks : ~HasSent(j, at', x) /\ ~HasLeft(j, at', x)
    PROVE  CallsInv'
<1>1. /\ TypeOK /\ at \in [Ranks -> Nat] /\ End \in Nat
      /\ \A x \in Ranks : at'[x] = IF x = r THEN at[x] + 1 ELSE at[x]
    BY Others DEF CallsInv
<1>2. at' \in [Ranks -> 0 .. End]
    BY <1>1 DEF TypeOK
<1>3. TypeOK'
  <2>1. End' = End
    BY DEF End
  <2> QED
    BY <1>1, <1>2, <2>1 DEF TypeOK
<1>4. Exchanges'
  <2>1. ASSUME NEW k \in DOMAIN others, Within(k)'
        PROVE  Exchanging(k, at', ack_needed', child_term_needed', send_upward', chan', transposes'[k])
    <3>1. Typed(at', ack_needed', child_term_needed', send_upward', chan', transposes'[k])
      BY <1>1, <1>2 DEF Typed, TypeOK
    <3> QED
      BY <2>1, <3>1, Started
  <2>2. \A p \in Pairs : chan'[p] = <<>>
    OBVIOUS
  <2> QED
    BY <2>1, <2>2, SameOthers DEF Exchanges
<1>5. Complete'
  <2> SUFFICES ASSUME NEW j \in DOMAIN others, NEW x \in Ranks, HasLeft(j, at', x),
                      NEW p \in Ranks
               PROVE  transposes'[j][p] = Share(j, p)
    BY DEF Complete, Share, HasLeft
  <2>1. HasLeft(j, at, x)
    BY <1>1 DEF HasLeft
  <2> QED
    BY <2>1 DEF CallsInv, Complete
<1> QED
    BY <1>3, <1>4, <1>5 DEF CallsInv

\* Outside the exchange the channels are empty.
LEMMA EmptyOutside ==
    ASSUME CallsInv, NEW r \in Ranks, NEW k \in 1 .. Len(others), NEW e \in {0, 1, 7, 8},
           at[r] = 9 * (k - 1) + e
    PROVE  \A x \in Pairs : chan[x] = <<>>
<1>1. TypeOK /\ DOMAIN others = 1 .. Len(others)
    BY Others DEF CallsInv
<1>2. ASSUME NEW j \in DOMAIN others PROVE ~Within(j)
  <2> SUFFICES ASSUME at[r] \in 9 * (j - 1) + 2 .. 9 * (j - 1) + 6 PROVE FALSE
    BY DEF Within
  <2>1. j \in Nat /\ k \in Nat
    BY <1>1
  <2> QED
    BY <2>1
<1> QED
    BY <1>2 DEF CallsInv, Exchanges

LEMMA EmptyAtTheEnd ==
    ASSUME CallsInv, NEW r \in Ranks, NEW k \in 1 .. Len(others),
           at[r] = 9 * (k - 1) + 6, AllEntered(r)
    PROVE  \A x \in Pairs : chan[x] = <<>>
<1>1. TypeOK /\ DOMAIN others = 1 .. Len(others) /\ at \in [Ranks -> Nat]
    BY Others DEF CallsInv
<1>2. CASE Within(k)
  <2>1. \A q \in Ranks : HasLeft(k, at, q)
    BY <1>1 DEF AllEntered, HasLeft
  <2>2. Exchanging(k, at, ack_needed, child_term_needed, send_upward, chan, transposes[k])
    BY <1>1, <1>2 DEF CallsInv, Exchanges
  <2> QED
    BY <2>1, <2>2, NothingOnTheWay
<1>3. CASE ~Within(k)
  <2>1. ASSUME NEW j \in DOMAIN others, j # k PROVE ~Within(j)
    <3> SUFFICES ASSUME at[r] \in 9 * (j - 1) + 2 .. 9 * (j - 1) + 6 PROVE FALSE
      BY DEF Within
    <3> QED
      BY <1>1, <2>1
  <2> QED
    BY <1>3, <2>1 DEF CallsInv, Exchanges
<1> QED
    BY <1>2, <1>3

LEMMA BarrierKept ==
    ASSUME CallsInv, NEW r \in Ranks, Barrier(r)
    PROVE  CallsInv'
<1> DEFINE k == Call(r)
<1>1. /\ TypeOK /\ Together /\ at \in [Ranks -> Nat]
      /\ others \in Seq(SUBSET Edges) /\ DOMAIN others = 1 .. Len(others) /\ End = 9 * Len(others)
    BY Others DEF CallsInv
<1>2. k \in 1 .. Len(others) /\ at[r] < End
    BY <1>1, Place DEF Barrier
<1>3. PICK e \in {0, 2, 6, 8} : at[r] = 9 * (k - 1) + e
  <2>1. at[r] - 9 * (k - 1) \in {0, 2, 6, 8}
    BY <1>1, PlaceOfStage DEF Barrier
  <2> QED
    BY <1>1, <1>2, <2>1
<1> HIDE DEF k
<1>4. /\ at' = [at EXCEPT ![r] = @ + 1] /\ AllEntered(r)
      /\ UNCHANGED <<others, transposes, ack_needed, child_term_needed, send_upward, chan>>
    BY DEF Barrier, Advance
<1>5. \A x \in Ranks : at'[x] = IF x = r THEN at[x] + 1 ELSE at[x]
    BY <1>1, <1>4
<1>6. Together'
  <2>1. ASSUME NEW j \in DOMAIN others, NEW b \in {0, 2, 6, 8},
               at[r] <= 9 * (j - 1) + b, 9 * (j - 1) + b < at[r] + 1, NEW q \in Ranks
        PROVE  at[q] >= 9 * (j - 1) + b
    <3>1. 9 * (j - 1) + b = at[r]
      BY <1>1, <2>1
    <3> QED
      BY <1>4, <3>1 DEF AllEntered
  <2>2. 1 \in 0 .. 2
    OBVIOUS
  <2> QED
    BY <1>1, <1>4, <2>1, <2>2, TogetherKept
<1>7. CASE e = 2
  <2>1. Within(k)
    BY <1>1, <1>2, <1>3, <1>4, <1>7, InCall
  <2>2. Exchanging(k, at, ack_needed, child_term_needed, send_upward, chan, transposes[k])
    BY <1>1, <1>2, <2>1 DEF CallsInv, Exchanges
  <2>3. /\ at' \in [Ranks -> Nat]
        /\ \A x \in Ranks : HasSent(k, at', x) <=> HasSent(k, at, x)
        /\ \A x \in Ranks : HasLeft(k, at', x) <=> HasLeft(k, at, x)
    BY <1>1, <1>2, <1>3, <1>4, <1>5, <1>7 DEF HasSent, HasLeft
  <2>4. Exchanging(k, at', ack_needed', child_term_needed', send_upward', chan', transposes'[k])
    BY <1>4, <2>2, <2>3, Moved
  <2>5. at[r] >= 9 * (k - 1) + 2 /\ at[r] + 1 <= 9 * (k - 1) + 6 /\ 1 \in 0 .. 2
    BY <1>2, <1>3, <1>7
  <2>6. transposes' \in [DOMAIN others -> [Ranks -> SUBSET Edges]]
    BY <1>1, <1>4 DEF TypeOK
  <2> QED
    BY <1>1, <1>2, <1>4, <1>6, <2>1, <2>4, <2>5, <2>6, InKept
<1>8. CASE e # 2
  <2>1. \A x \in Pairs : chan[x] = <<>>
    BY <1>2, <1>3, <1>4, <1>8, EmptyOutside, EmptyAtTheEnd
  <2>2. \A j \in DOMAIN others : HasLeft(j, at', r) => HasLeft(j, at, r)
    BY <1>1, <1>2, <1>3, <1>5, <1>8 DEF HasLeft
  <2>3. ASSUME NEW j \in DOMAIN others PROVE ~Within(j)'
    <3>1. ~(at'[r] \in 9 * (j - 1) + 2 .. 9 * (j - 1) + 6)
      <4>1. at'[r] = 9 * (k - 1) + e + 1 /\ j \in Nat /\ k \in Nat
        BY <1>1, <1>2, <1>3, <1>5
      <4>2. e = 0 \/ e = 6 \/ e = 8
        BY <1>8
      <4> QED
        BY <4>1, <4>2
    <3> QED
      BY <3>1 DEF Within
  <2> QED
    BY <1>2, <1>4, <1>6, <2>1, <2>2, <2>3, OutKept
<1> QED
    BY <1>7, <1>8

LEMMA ProbeKept ==
    ASSUME CallsInv, NEW r \in Ranks, Probe(r)
    PROVE  CallsInv'
<1> DEFINE k == Call(r)
<1>1. /\ TypeOK /\ Together /\ at \in [Ranks -> Nat]
      /\ DOMAIN others = 1 .. Len(others) /\ End = 9 * Len(others)
    BY Others DEF CallsInv
<1>2. k \in 1 .. Len(others) /\ at[r] < End
    BY <1>1, Place DEF Probe
<1>3. PICK e \in {1, 7} : at[r] = 9 * (k - 1) + e
  <2>1. at[r] - 9 * (k - 1) \in {1, 7}
    BY <1>1, PlaceOfStage DEF Probe
  <2> QED
    BY <1>1, <1>2, <2>1
<1> HIDE DEF k
<1>4. /\ at' = [at EXCEPT ![r] = @ + 1]
      /\ UNCHANGED <<others, transposes, ack_needed, child_term_needed, send_upward, chan>>
    BY DEF Probe, Advance
<1>5. \A x \in Ranks : at'[x] = IF x = r THEN at[x] + 1 ELSE at[x]
    BY <1>1, <1>4
<1>6. Together'
  <2>1. ASSUME NEW j \in DOMAIN others, NEW b \in {0, 2, 6, 8},
               at[r] <= 9 * (j - 1) + b, 9 * (j - 1) + b < at[r] + 1
        PROVE  FALSE
    BY <1>1, <1>2, <1>3, <2>1
  <2>2. 1 \in 0 .. 2
    OBVIOUS
  <2> QED
    BY <1>1, <1>4, <2>1, <2>2, TogetherKept
<1>7. \A x \in Pairs : chan[x] = <<>>
    BY <1>2, <1>3, EmptyOutside
<1>8. \A j \in DOMAIN others : HasLeft(j, at', r) => HasLeft(j, at, r)
    BY <1>1, <1>2, <1>3, <1>5 DEF HasLeft
<1>9. ASSUME NEW j \in DOMAIN others, Within(j)', NEW x \in Ranks
      PROVE  ~HasSent(j, at', x) /\ ~HasLeft(j, at', x)
  <2>1. at'[r] \in 9 * (j - 1) + 2 .. 9 * (j - 1) + 6
    BY <1>9 DEF Within
  <2>2. j = k /\ at[r] = 9 * (k - 1) + 1
    BY <1>1, <1>2, <1>3, <1>5, <2>1
  <2>3. at[x] > 9 * (k - 1) + 2 => at[r] >= 9 * (k - 1) + 2
    BY <1>1, <1>2 DEF Together
  <2>4. k \in Nat /\ at[x] \in Nat /\ at'[x] \in {at[x], 9 * (k - 1) + 2}
    BY <1>1, <1>2, <1>5, <2>2
  <2>5. at'[x] \in Nat /\ at'[x] <= 9 * (k - 1) + 2
    BY <2>2, <2>3, <2>4
  <2> QED
    BY <2>2, <2>4, <2>5 DEF HasSent, HasLeft
<1> QED
    BY <1>2, <1>4, <1>6, <1>7, <1>8, <1>9, OutKept

\* Between two barriers nobody is overtaken.
LEMMA InTogether ==
    ASSUME TypeOK, Together, others' = others, NEW r \in Ranks, NEW k \in 1 .. Len(others),
           NEW s \in 0 .. 2, at' = [at EXCEPT ![r] = @ + s],
           at[r] >= 9 * (k - 1) + 3, at[r] + s <= 9 * (k - 1) + 6
    PROVE  Together'
<1>1. DOMAIN others = 1 .. Len(others) /\ Len(others) \in Nat /\ at[r] \in Nat
    BY Others
<1>2. ASSUME NEW j \in DOMAIN others, NEW b \in {0, 2, 6, 8},
             at[r] <= 9 * (j - 1) + b, 9 * (j - 1) + b < at[r] + s
      PROVE  FALSE
  <2>1. j \in Nat /\ k \in Nat
    BY <1>1
  <2>2. b = 0 \/ b = 2 \/ b = 6 \/ b = 8
    OBVIOUS
  <2> QED
    BY <1>1, <1>2, <2>1, <2>2
<1> QED
    BY <1>2, TogetherKept

\* What a process in the exchange of call k can rely on.
LEMMA Inside ==
    ASSUME CallsInv, NEW r \in Ranks, StageOf(r) \in {"send", "receive", "waitall"}
    PROVE  LET k == Call(r)
           IN  /\ k \in DOMAIN others /\ k \in 1 .. Len(others) /\ k \in Nat
               /\ StageOf(r) = "send" => at[r] = 9 * (k - 1) + 3
               /\ StageOf(r) = "receive" => at[r] = 9 * (k - 1) + 4
               /\ StageOf(r) = "waitall" => at[r] = 9 * (k - 1) + 5
               /\ Within(k)
               /\ Exchanging(k, at, ack_needed, child_term_needed, send_upward, chan,
                             transposes[k])
               /\ TypeOK /\ Together
               /\ at \in [Ranks -> Nat] /\ others \in Seq(SUBSET Edges)
<1> DEFINE k == Call(r)
<1>1. /\ TypeOK /\ Together /\ at \in [Ranks -> Nat] /\ others \in Seq(SUBSET Edges)
      /\ DOMAIN others = 1 .. Len(others) /\ Len(others) \in Nat
    BY Others DEF CallsInv
<1>2. k \in 1 .. Len(others)
    BY <1>1, Place
<1>3. /\ StageOf(r) = "send" => at[r] - 9 * (k - 1) = 3
      /\ StageOf(r) = "receive" => at[r] - 9 * (k - 1) = 4
      /\ StageOf(r) = "waitall" => at[r] - 9 * (k - 1) = 5
    BY <1>1, PlaceOfStage
<1> HIDE DEF k
<1>4. /\ StageOf(r) = "send" => at[r] = 9 * (k - 1) + 3
      /\ StageOf(r) = "receive" => at[r] = 9 * (k - 1) + 4
      /\ StageOf(r) = "waitall" => at[r] = 9 * (k - 1) + 5
    BY <1>1, <1>2, <1>3
<1>5. at[r] \in 9 * (k - 1) + 3 .. 9 * (k - 1) + 5
    BY <1>1, <1>2, <1>4
<1>6. Within(k)
    BY <1>1, <1>2, <1>5, InCall
<1>7. Exchanging(k, at, ack_needed, child_term_needed, send_upward, chan, transposes[k])
    BY <1>1, <1>2, <1>6 DEF CallsInv, Exchanges
<1> QED
    BY <1>1, <1>2, <1>4, <1>6, <1>7 DEF k

LEMMA WaitallKept ==
    ASSUME CallsInv, NEW r \in Ranks, Waitall(r)
    PROVE  CallsInv'
<1> DEFINE k == Call(r)
<1>1. /\ k \in DOMAIN others /\ k \in 1 .. Len(others) /\ at[r] = 9 * (k - 1) + 5 /\ Within(k)
      /\ Exchanging(k, at, ack_needed, child_term_needed, send_upward, chan, transposes[k])
      /\ TypeOK /\ Together /\ at \in [Ranks -> Nat] /\ k \in Nat
    BY Inside DEF Waitall
<1> HIDE DEF k
<1>2. /\ at' = [at EXCEPT ![r] = @ + 1]
      /\ UNCHANGED <<others, transposes, ack_needed, child_term_needed, send_upward, chan>>
    BY DEF Waitall, Advance
<1>3. /\ at' \in [Ranks -> Nat]
      /\ \A x \in Ranks : HasSent(k, at', x) <=> HasSent(k, at, x)
      /\ \A x \in Ranks : HasLeft(k, at', x) <=> HasLeft(k, at, x)
    BY <1>1, <1>2 DEF HasSent, HasLeft
<1>4. Exchanging(k, at', ack_needed', child_term_needed', send_upward', chan', transposes'[k])
    BY <1>1, <1>2, <1>3, Moved
<1>5. 1 \in 0 .. 2 /\ at[r] >= 9 * (k - 1) + 2 /\ at[r] >= 9 * (k - 1) + 3
      /\ at[r] + 1 <= 9 * (k - 1) + 6
    BY <1>1
<1>6. Together'
    BY <1>1, <1>2, <1>5, InTogether
<1>7. transposes' \in [DOMAIN others -> [Ranks -> SUBSET Edges]]
    BY <1>1, <1>2 DEF TypeOK
<1> QED
    BY <1>1, <1>2, <1>4, <1>5, <1>6, <1>7, InKept

LEMMA ReceiveKept ==
    ASSUME CallsInv, NEW r \in Ranks, Receive(r)
    PROVE  CallsInv'
<1> DEFINE k == Call(r)
           D == transposes[k]
<1>1. StageOf(r) = "receive"
    BY DEF Receive, ReceiveEdges, ReceiveAck, ReceiveUpward, ReceiveDownward, Receives
<1>2. /\ k \in DOMAIN others /\ k \in 1 .. Len(others) /\ at[r] = 9 * (k - 1) + 4 /\ Within(k)
      /\ Exchanging(k, at, ack_needed, child_term_needed, send_upward, chan, transposes[k])
      /\ TypeOK /\ Together /\ at \in [Ranks -> Nat] /\ k \in Nat
      /\ others \in Seq(SUBSET Edges)
    BY <1>1, Inside
<1>3. HasSent(k, at, r) /\ ~HasLeft(k, at, r)
    BY <1>2 DEF HasSent, HasLeft
<1>4. /\ transposes \in [DOMAIN others -> [Ranks -> SUBSET Edges]]
      /\ ack_needed \in [Ranks -> SUBSET Ranks] /\ child_term_needed \in [Ranks -> Nat]
      /\ send_upward \in [Ranks -> BOOLEAN] /\ chan \in [Pairs -> Seq(Messages)]
    BY <1>2 DEF TypeOK
\* It is enough that the exchange of this call goes on.
<1>5. ASSUME others' = others,
             \A j \in DOMAIN others \ {k} : transposes'[j] = transposes[j],
             transposes' \in [DOMAIN others -> [Ranks -> SUBSET Edges]],
             \E s \in 0 .. 1 : at' = [at EXCEPT ![r] = @ + s],
             Exchanging(k, at', ack_needed', child_term_needed', send_upward', chan', transposes'[k])
      PROVE  CallsInv'
  <2> HIDE DEF k
  <2>1. PICK s \in 0 .. 1 : at' = [at EXCEPT ![r] = @ + s]
    BY <1>5
  <2>2. s \in 0 .. 2 /\ at[r] >= 9 * (k - 1) + 2 /\ at[r] >= 9 * (k - 1) + 3
        /\ at[r] + s <= 9 * (k - 1) + 6
    <3>1. at[r] = 9 * (k - 1) + 4 /\ k \in Nat
      BY <1>2
    <3> QED
      BY <3>1
  <2>3. Together'
    BY <1>2, <1>5, <2>1, <2>2, InTogether
  <2> QED
    BY <1>2, <1>5, <2>1, <2>2, <2>3, InKept
<1> SUFFICES ASSUME NEW q \in Ranks \ {r},
                    \/ ReceiveEdges(r, q) \/ ReceiveAck(r, q)
                    \/ ReceiveUpward(r, q) \/ ReceiveDownward(r, q)
             PROVE  CallsInv'
    BY DEF Receive
<1> DEFINE I == Without(r, q)
           type == Head(chan[<<q, r>>]).type
<1>6. chan[<<q, r>>] # <<>> /\ chan[<<q, r>>] \in Seq(Messages) /\ Distinct(chan[<<q, r>>])
      /\ Bears(chan[<<q, r>>], EdgesFor(k, q, r))
  <2>1. <<q, r>> \in Pairs
    BY DEF Pairs
  <2> QED
    BY <1>2, <1>4, <2>1 DEF Exchanging, Orderly,
        ReceiveEdges, ReceiveAck, ReceiveUpward, ReceiveDownward, Receives
<1>7. Takes(chan, I, q, r, type)
    BY <1>4, <1>6, Receiving DEF Without
<1> HIDE DEF I, k, D
<1>8. CASE ReceiveEdges(r, q)
  <2> DEFINE S == [D EXCEPT ![r] = @ \cup EdgesFor(k, q, r)]
  <2>1. type = "edges" /\ Head(chan[<<q, r>>]).edges = EdgesFor(k, q, r)
    <3>1. type = "edges"
      BY <1>8 DEF ReceiveEdges, Receives
    <3> QED
      BY <1>6, <3>1, TailHas
  <2>2. Exchanging(k, at, ack_needed, child_term_needed, send_upward, Posted(I, r, {q}, "ack"), S)
    <3>1. Takes(chan, I, q, r, "edges")
      BY <1>7, <2>1
    <3> QED
      BY <1>2, <1>3, <3>1, EdgesTaken DEF D
  <2>3. Exchanging(k, at, [ack_needed EXCEPT ![r] = ack_needed[r]],
                   [child_term_needed EXCEPT ![r] = child_term_needed[r]], send_upward,
                   Posted(I, r, {q}, "ack"), S)
    <3>1. /\ [ack_needed EXCEPT ![r] = ack_needed[r]] = ack_needed
          /\ [child_term_needed EXCEPT ![r] = child_term_needed[r]] = child_term_needed
      BY <1>4
    <3> QED
      BY <2>2, <3>1
  <2>4. EndIteration(r, ack_needed[r], child_term_needed[r], Posted(I, r, {q}, "ack"), FALSE)
    BY <1>8 DEF ReceiveEdges, I
  <2>5. transposes' = [transposes EXCEPT ![k][r] = @ \cup EdgesFor(k, q, r)]
    BY <1>8, <2>1 DEF ReceiveEdges, k
  <2>6. /\ transposes'[k] = S
        /\ \A j \in DOMAIN others \ {k} : transposes'[j] = transposes[j]
        /\ transposes' \in [DOMAIN others -> [Ranks -> SUBSET Edges]]
    BY <1>2, <1>4, <2>5, EdgesForType DEF D
  <2> HIDE DEF S
  <2>7. /\ Exchanging(k, at', ack_needed', child_term_needed', send_upward', chan', S)
        /\ \E s \in 0 .. 1 : at' = [at EXCEPT ![r] = @ + s]
    BY <1>2, <2>3, <2>4, Ended
  <2>8. others' = others
    BY <2>4 DEF EndIteration
  <2> QED
    BY <1>5, <2>6, <2>7, <2>8
<1>9. ASSUME transposes' = transposes
      PROVE  /\ \A j \in DOMAIN others \ {k} : transposes'[j] = transposes[j]
             /\ transposes' \in [DOMAIN others -> [Ranks -> SUBSET Edges]]
             /\ transposes'[k] = D
    BY <1>4, <1>9 DEF D
<1>10. CASE ReceiveAck(r, q)
  <2>1. type = "ack" /\ transposes' = transposes
        /\ EndIteration(r, ack_needed[r] \ {q}, child_term_needed[r], I, FALSE)
    BY <1>10 DEF ReceiveAck, Receives, I
  <2>2. Exchanging(k, at, [ack_needed EXCEPT ![r] = @ \ {q}], child_term_needed, send_upward, I, D)
    <3>1. Takes(chan, I, q, r, "ack")
      BY <1>7, <2>1
    <3> QED
      BY <1>2, <3>1, AckTaken DEF D
  <2>3. Exchanging(k, at, [ack_needed EXCEPT ![r] = ack_needed[r] \ {q}],
                   [child_term_needed EXCEPT ![r] = child_term_needed[r]], send_upward, I, D)
    <3>1. [child_term_needed EXCEPT ![r] = child_term_needed[r]] = child_term_needed
      BY <1>4
    <3> QED
      BY <2>2, <3>1
  <2>4. /\ Exchanging(k, at', ack_needed', child_term_needed', send_upward', chan', D)
        /\ \E s \in 0 .. 1 : at' = [at EXCEPT ![r] = @ + s]
    BY <1>2, <2>1, <2>3, Ended
  <2>5. others' = others
    BY <2>1 DEF EndIteration
  <2> QED
    BY <1>5, <1>9, <2>1, <2>4, <2>5
<1>11. CASE ReceiveUpward(r, q)
  <2>1. type = "upward" /\ transposes' = transposes
        /\ EndIteration(r, ack_needed[r], child_term_needed[r] - 1, I, FALSE)
    BY <1>11 DEF ReceiveUpward, Receives, I
  <2>2. Exchanging(k, at, ack_needed, [child_term_needed EXCEPT ![r] = @ - 1], send_upward, I, D)
    <3>1. Takes(chan, I, q, r, "upward")
      BY <1>7, <2>1
    <3> QED
      BY <1>2, <1>3, <3>1, UpwardTaken DEF D
  <2>3. Exchanging(k, at, [ack_needed EXCEPT ![r] = ack_needed[r]],
                   [child_term_needed EXCEPT ![r] = child_term_needed[r] - 1], send_upward, I, D)
    <3>1. [ack_needed EXCEPT ![r] = ack_needed[r]] = ack_needed
      BY <1>4
    <3> QED
      BY <2>2, <3>1
  <2>4. /\ Exchanging(k, at', ack_needed', child_term_needed', send_upward', chan', D)
        /\ \E s \in 0 .. 1 : at' = [at EXCEPT ![r] = @ + s]
    BY <1>2, <2>1, <2>3, Ended
  <2>5. others' = others
    BY <2>1 DEF EndIteration
  <2> QED
    BY <1>5, <1>9, <2>1, <2>4, <2>5
<1>12. CASE ReceiveDownward(r, q)
  <2> DEFINE E == Posted(I, r, Children[r], "downward")
  <2>1. type = "downward" /\ transposes' = transposes
        /\ EndIteration(r, ack_needed[r], child_term_needed[r], E, TRUE)
    BY <1>12 DEF ReceiveDownward, Receives, I
  <2>2. others' = others /\ at' = [at EXCEPT ![r] = @ + 1]
    BY <2>1 DEF EndIteration, Advance
  <2>3. Leaves(k, at, at', r)
    BY <1>2, <2>2 DEF HasSent, HasLeft, Leaves
  <2>4. /\ Exchanging(k, at', ack_needed, child_term_needed, send_upward, E, D)
        /\ ~send_upward[r]
    <3>1. Takes(chan, I, q, r, "downward")
      BY <1>7, <2>1
    <3> QED
      BY <1>2, <1>3, <2>3, <3>1, DownwardTaken DEF D
  <2>5. ack_needed' = ack_needed /\ child_term_needed' = child_term_needed
        /\ send_upward' = send_upward /\ chan' = E
    BY <1>4, <2>1, <2>4 DEF EndIteration, TermDue
  <2>6. \E s \in 0 .. 1 : at' = [at EXCEPT ![r] = @ + s]
    <3>1. 1 \in 0 .. 1
      OBVIOUS
    <3> QED
      BY <2>2, <3>1
  <2> QED
    BY <1>5, <1>9, <2>1, <2>2, <2>4, <2>5, <2>6
<1> QED
    BY <1>8, <1>10, <1>11, <1>12

LEMMA SendKept ==
    ASSUME CallsInv, NEW r \in Ranks, SendEdges(r)
    PROVE  CallsInv'
<1> DEFINE k == Call(r)
           B == [at EXCEPT ![r] = @ + 1]
           M == [ack_needed EXCEPT ![r] = Receivers(k, r)]
           U == [child_term_needed EXCEPT ![r] = Cardinality(Children[r])]
           G == [send_upward EXCEPT ![r] = TRUE]
           S == [transposes[k] EXCEPT ![r] = EdgesFor(k, r, r)]
           E == Sent(k, r, chan)
           first == ReportsFirst(r, Receivers(k, r))
<1>1. /\ k \in DOMAIN others /\ k \in 1 .. Len(others) /\ at[r] = 9 * (k - 1) + 3 /\ Within(k)
      /\ Exchanging(k, at, ack_needed, child_term_needed, send_upward, chan, transposes[k])
      /\ TypeOK /\ Together /\ at \in [Ranks -> Nat] /\ k \in Nat
      /\ others \in Seq(SUBSET Edges)
    BY Inside DEF SendEdges
<1>2. /\ transposes \in [DOMAIN others -> [Ranks -> SUBSET Edges]]
      /\ ack_needed \in [Ranks -> SUBSET Ranks] /\ child_term_needed \in [Ranks -> Nat]
      /\ send_upward \in [Ranks -> BOOLEAN]
    BY <1>1 DEF TypeOK
<1>3. /\ others' = others /\ ack_needed' = M /\ child_term_needed' = U
      /\ transposes' = [transposes EXCEPT ![k][r] = EdgesFor(k, r, r)]
      /\ send_upward' = [send_upward EXCEPT ![r] = Cardinality(Ranks) > 1 /\ ~first]
      /\ chan' = IF first THEN Posted(E, r, {Parent[r]}, "upward") ELSE E
      /\ at' = [at EXCEPT ![r] = @ + (IF Cardinality(Ranks) = 1 THEN 2 ELSE 1)]
    BY DEF SendEdges, Receivers, Sent, Advance
<1>4. /\ transposes'[k] = S
      /\ \A j \in DOMAIN others \ {k} : transposes'[j] = transposes[j]
      /\ transposes' \in [DOMAIN others -> [Ranks -> SUBSET Edges]]
    BY <1>1, <1>2, <1>3, EdgesForType
<1>5. /\ M[r] = Receivers(k, r) /\ U[r] = Cardinality(Children[r]) /\ G[r]
      /\ [G EXCEPT ![r] = FALSE] = [send_upward EXCEPT ![r] = FALSE]
    BY <1>2
<1> HIDE DEF k
<1>6. /\ B \in [Ranks -> Nat] /\ ~HasSent(k, at, r) /\ ~HasLeft(k, at, r)
      /\ \A x \in Ranks : HasSent(k, B, x) <=> HasSent(k, at, x) \/ x = r
      /\ \A x \in Ranks : HasLeft(k, B, x) <=> HasLeft(k, at, x)
  <2>1. at[r] = 9 * (k - 1) + 3 /\ k \in Nat /\ at \in [Ranks -> Nat]
    BY <1>1
  <2>2. \A x \in Ranks : B[x] = IF x = r THEN at[r] + 1 ELSE at[x]
    BY <2>1
  <2> QED
    BY <2>1, <2>2 DEF HasSent, HasLeft
<1>7. Exchanging(k, B, M, U, G, E, S)
    BY <1>1, <1>6, BeginKeeps
<1>8. Cardinality(Ranks) = 1 \/ Cardinality(Ranks) > 1
  <2>1. Cardinality(Ranks) # 0
    BY <1>1, FS_EmptySet, TransposeAssumption
  <2> QED
    BY <2>1, RootWaits
<1> HIDE DEF M, U, G, S, E
\* It is enough that the exchange of this call goes on.
<1>9. ASSUME NEW s \in 1 .. 2, at' = [at EXCEPT ![r] = @ + s],
             Exchanging(k, at', M, U, send_upward', chan', S)
      PROVE  CallsInv'
  <2>1. s \in 0 .. 2 /\ at[r] >= 9 * (k - 1) + 2 /\ at[r] >= 9 * (k - 1) + 3
        /\ at[r] + s <= 9 * (k - 1) + 6
    BY <1>1
  <2>2. Together'
    BY <1>1, <1>3, <1>9, <2>1, InTogether
  <2>3. Exchanging(k, at', ack_needed', child_term_needed', send_upward', chan', transposes'[k])
    BY <1>3, <1>4, <1>9
  <2> QED
    BY <1>1, <1>3, <1>4, <1>9, <2>1, <2>2, <2>3, InKept
<1>10. CASE Cardinality(Ranks) = 1
  <2>1. Ranks = {Root} /\ r = Root /\ Children[Root] = {} /\ Receivers(k, r) = {}
    BY <1>10, RootWaits, TreeFacts DEF Receivers
  <2>2. ~first /\ at' = [at EXCEPT ![r] = @ + 2]
    BY <1>3, <1>10 DEF ReportsFirst, TermDue
  <2>3. chan' = E /\ send_upward' = [G EXCEPT ![Root] = FALSE]
    <3>1. (Cardinality(Ranks) > 1 /\ ~first) = FALSE
      BY <1>10
    <3>2. send_upward' = [send_upward EXCEPT ![r] = FALSE]
      BY <1>3, <3>1
    <3> QED
      BY <1>3, <1>5, <2>1, <2>2, <3>2
  <2>4. Posted(E, Root, Children[Root], "downward") = E
    BY <2>1 DEF Posted, E, Sent
  <2>5. HasSent(k, B, Root) /\ G[Root] /\ M[Root] = {} /\ U[Root] = 0
    BY <1>5, <1>6, <2>1, FS_EmptySet
  <2>6. Leaves(k, B, at', Root)
    BY <1>1, <2>1, <2>2 DEF HasSent, HasLeft, Leaves
  <2> HIDE DEF B
  <2>7. Exchanging(k, at', M, U, [G EXCEPT ![Root] = FALSE],
                   Posted(E, Root, Children[Root], "downward"), S)
    BY <1>7, <2>5, <2>6, FinishKeeps
  <2> QED
    BY <1>9, <2>2, <2>3, <2>4, <2>7
<1>11. CASE Cardinality(Ranks) > 1
  <2>1. at' = B
    <3>1. Cardinality(Ranks) # 1
      BY <1>11, RootWaits
    <3> QED
      BY <1>3, <3>1
  <2>2. CASE first
    <3>1. Receivers(k, r) = {} /\ Cardinality(Children[r]) = 0
      BY <2>2 DEF ReportsFirst, TermDue
    <3>2. r # Root
      BY <1>11, <3>1, RootWaits
    <3>3. /\ chan' = Posted(E, r, {Parent[r]}, "upward")
          /\ send_upward' = [G EXCEPT ![r] = FALSE]
      BY <1>3, <1>5, <2>2
    <3>4. HasSent(k, B, r) /\ G[r] /\ M[r] = {} /\ U[r] = 0
      BY <1>5, <1>6, <3>1
    <3> HIDE DEF B
    <3>5. Exchanging(k, B, M, U, [G EXCEPT ![r] = FALSE],
                     Posted(E, r, {Parent[r]}, "upward"), S)
      BY <1>7, <3>2, <3>4, ReportKeeps
    <3> QED
      BY <1>9, <2>1, <3>3, <3>5 DEF B
  <2>3. CASE ~first
    <3>1. chan' = E /\ send_upward' = G
      BY <1>3, <1>11, <2>3 DEF G
    <3> QED
      BY <1>7, <1>9, <2>1, <3>1
  <2> QED
    BY <2>2, <2>3
<1> QED
    BY <1>8, <1>10, <1>11

LEMMA InitCalls == Init => CallsInv
<1> SUFFICES ASSUME Init PROVE CallsInv
    OBVIOUS
<1>1. /\ others \in Seq(SUBSET Edges) /\ DOMAIN others = 1 .. Len(others) /\ Len(others) \in Nat
    BY TransposeAssumption DEF Init
<1>2. Len(Stages) = 9
    BY DEF Stages
<1>3. End \in Nat
    BY <1>1, <1>2 DEF End
<1>4. TypeOK
    BY <1>3 DEF Init, TypeOK
<1>5. Root \in Ranks /\ \A r \in Ranks : at[r] = 0
    BY TransposeAssumption DEF Init
<1>6. Together
    BY <1>1, <1>5 DEF Together
<1>7. \A k \in DOMAIN others : ~Within(k)
    BY <1>1, <1>5 DEF Within
<1>8. \A p \in Pairs : chan[p] = <<>>
    BY DEF Init
<1>9. \A k \in DOMAIN others, r \in Ranks : ~HasLeft(k, at, r)
    BY <1>1, <1>5 DEF HasLeft
<1> QED
    BY <1>4, <1>6, <1>7, <1>8, <1>9 DEF CallsInv, Exchanges, Complete

LEMMA NextCalls == CallsInv /\ [Next]_vars => CallsInv'
<1> SUFFICES ASSUME CallsInv, [Next]_vars PROVE CallsInv'
    OBVIOUS
<1>1. ASSUME NEW r \in Ranks, Step(r) PROVE CallsInv'
    BY <1>1, BarrierKept, ProbeKept, SendKept, ReceiveKept, WaitallKept DEF Step
<1>2. CASE UNCHANGED vars
  <2>1. TypeOK'
    BY <1>2 DEF vars, CallsInv, TypeOK, End
  <2>2. Together'
    BY <1>2 DEF vars, CallsInv, Together
  <2>3. \A k : Within(k)' <=> Within(k)
    BY <1>2 DEF vars, Within
  <2>4. Exchanges'
    <3>1. ASSUME NEW k \in DOMAIN others, Within(k)'
          PROVE  Exchanging(k, at, ack_needed, child_term_needed, send_upward, chan,
                            transposes[k])'
      <4>1. Exchanging(k, at, ack_needed, child_term_needed, send_upward, chan, transposes[k])
        BY <2>3, <3>1 DEF CallsInv, Exchanges
      <4>2. Exchanging(k, at', ack_needed', child_term_needed', send_upward', chan',
                       transposes'[k])
        BY <1>2, <4>1 DEF vars
      <4> QED
        BY <1>2, <4>2, SameOthers DEF vars
    <3>2. (\A k \in DOMAIN others : ~Within(k)') => \A p \in Pairs : chan'[p] = <<>>
      BY <1>2, <2>3 DEF vars, CallsInv, Exchanges
    <3>3. others' = others
      BY <1>2 DEF vars
    <3> QED
      BY <3>1, <3>2, <3>3 DEF Exchanges
  <2>5. Complete'
    BY <1>2 DEF vars, CallsInv, Complete, HasLeft, Share
  <2> QED
    BY <2>1, <2>2, <2>4, <2>5 DEF CallsInv
<1> QED
    BY <1>1, <1>2 DEF Next

LEMMA CallsStop == CallsInv => StopsWhenDelivered
<1> SUFFICES ASSUME CallsInv, NEW r \in Ranks, NEW k \in DOMAIN others, LeftLoop(r, k),
                    NEW q \in Ranks
             PROVE  transposes[k][q] = Share(k, q)
    BY DEF StopsWhenDelivered, Share
<1>1. at[r] \in Nat /\ k \in Nat
    BY Others DEF CallsInv
<1>2. Len(Stages) = 9
    BY DEF Stages
<1>3. HasLeft(k, at, r)
    BY <1>1, <1>2 DEF LeftLoop, HasLeft
<1> QED
    BY <1>3 DEF CallsInv, Complete

LEMMA CallsCount == CallsInv => CountsAgree
<1> SUFFICES ASSUME CallsInv, NEW r \in Ranks, NEW q \in Ranks \ {r}, chan[<<q, r>>] # <<>>
             PROVE  /\ StageOf(r) # "probe"
                    /\ StageOf(r) = "receive" => Expected(r, q, Head(chan[<<q, r>>]).type)
    BY DEF CountsAgree, NothingUnexpected, CallsInv
<1>1. TypeOK /\ <<q, r>> \in Pairs
    BY DEF CallsInv, Pairs
<1>2. ASSUME StageOf(r) = "probe" PROVE FALSE
  <2>1. Call(r) \in 1 .. Len(others) /\ at[r] - 9 * (Call(r) - 1) \in {1, 7}
    BY <1>1, <1>2, Place, PlaceOfStage
  <2>2. PICK e \in {1, 7} : at[r] = 9 * (Call(r) - 1) + e
    BY <1>1, <2>1, Others
  <2> QED
    BY <1>1, <2>1, <2>2, EmptyOutside
<1>3. ASSUME StageOf(r) = "receive" PROVE Expected(r, q, Head(chan[<<q, r>>]).type)
  <2> DEFINE k == Call(r)
             type == Head(chan[<<q, r>>]).type
  <2>1. /\ Exchanging(k, at, ack_needed, child_term_needed, send_upward, chan, transposes[k])
        /\ at[r] = 9 * (k - 1) + 4 /\ at \in [Ranks -> Nat] /\ k \in Nat
    BY <1>3, Inside
  <2> HIDE DEF k
  <2>2. chan[<<q, r>>] \in Seq(Messages) /\ Distinct(chan[<<q, r>>])
    BY <1>1, <2>1 DEF TypeOK, Exchanging, Orderly
  <2>3. Has(chan[<<q, r>>], type) /\ type \in TypesOfMessage
    BY <2>2, TailHas DEF Messages
  <2>4. HasSent(k, at, r)
    BY <2>1 DEF HasSent
  <2>5. child_term_needed[r]
            = Cardinality(Owing(k, at, send_upward, chan, r)) /\ child_term_needed[r] \in Nat
    BY <1>1, <2>1, <2>4 DEF Exchanging, Upward, TypeOK
  <2> HIDE DEF type
  <2>6. CASE type = "edges"
    BY <2>6 DEF Expected, type
  <2>7. CASE type = "ack"
    <3>1. q \in ack_needed[r]
      BY <2>1, <2>3, <2>7 DEF Exchanging, Acknowledged
    <3> QED
      BY <2>7, <3>1 DEF Expected, type
  <2>8. CASE type = "upward"
    <3>1. q \in Children[r]
      BY <2>1, <2>3, <2>8, TreeFacts DEF Exchanging, Upward
    <3>2. Owing(k, at, send_upward, chan, r) # {}
      BY <2>3, <2>8, <3>1 DEF Owing
    <3>3. child_term_needed[r] > 0
      BY <2>5, <3>2, OwingFinite
    <3> QED
      BY <2>8, <3>3 DEF Expected, type
  <2>9. CASE type = "downward"
    <3>1. Reported(k, at, send_upward, Root)
      BY <2>1, <2>3, <2>9 DEF Exchanging, Downward
    <3>2. Owing(k, at, send_upward, chan, r) = {}
      BY <2>1, <3>1, AllReported
    <3>3. child_term_needed[r] = 0
      BY <2>5, <3>2, FS_EmptySet
    <3> QED
      BY <2>9, <3>3 DEF Expected, type
  <2> QED
    BY <2>3, <2>6, <2>7, <2>8, <2>9 DEF TypesOfMessage, type
<1> QED
    BY <1>2, <1>3

-----------------------------------------------------------------------------
(***************************************************************************)
(* computeTransposeOf(): a process that leaves the loop may use its        *)
(* transpose, and so may everybody: no edge of the call is left in transit *)
(* anywhere, whatever the tree, the edges and the order of the messages.   *)
(***************************************************************************)
THEOREM TransposeStops == Spec => []StopsWhenDelivered
<1>1. Spec => []CallsInv
    BY InitCalls, NextCalls, PTL DEF Spec
<1> QED
    BY <1>1, CallsStop, PTL

(***************************************************************************)
(* computeTransposeOf(): the assertions of the loop and the checks for     *)
(* messages before and after a call never fail, with the same tag used by  *)
(* one call after another.                                                 *)
(***************************************************************************)
THEOREM TransposeCounts == Spec => []CountsAgree
<1>1. Spec => []CallsInv
    BY InitCalls, NextCalls, PTL DEF Spec
<1> QED
    BY <1>1, CallsCount, PTL

=============================================================================
