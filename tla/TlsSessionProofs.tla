-------------------------- MODULE TlsSessionProofs --------------------------
(* Proofs about TlsSession, for any connections, any cut of their messages *)
(* into records and any end of the capture.                                *)
EXTENDS TlsSession, SequenceTheorems, SumProofs

-----------------------------------------------------------------------------
(* Counting the items of some kinds.                                       *)

(* One item more is counted if it is of the kinds.                         *)
LEMMA OrdinalNext ==
    ASSUME NEW w, NEW kinds, NEW n \in Nat
    PROVE  /\ Ordinal(w, kinds, n) \in Nat
           /\ Ordinal(w, kinds, 0) = 0
           /\ Ordinal(w, kinds, n + 1) =
                  Ordinal(w, kinds, n) + (IF w[n + 1].kind \in kinds THEN 1 ELSE 0)
<1> DEFINE S(m) == {j \in 1 .. m : w[j].kind \in kinds}
<1>1. \A m \in Nat : IsFiniteSet(S(m)) /\ Cardinality(S(m)) \in Nat
  <2>1. ASSUME NEW m \in Nat PROVE IsFiniteSet(S(m)) /\ Cardinality(S(m)) \in Nat
    <3>1. IsFiniteSet(1 .. m) /\ S(m) \in SUBSET (1 .. m)
      BY FS_Interval
    <3>2. QED
      BY <3>1, FS_Subset, FS_CardinalityType
  <2>2. QED
    BY <2>1
<1>2. S(0) = {}
  OBVIOUS
<1>3. CASE w[n + 1].kind \in kinds
  <2>1. S(n + 1) = S(n) \cup {n + 1} /\ n + 1 \notin S(n)
    BY <1>3
  <2>2. Cardinality(S(n) \cup {n + 1}) = Cardinality(S(n)) + 1
    BY <1>1, <2>1, FS_AddElement
  <2>3. QED
    BY <1>1, <1>2, <1>3, <2>1, <2>2, FS_EmptySet DEF Ordinal
<1>4. CASE w[n + 1].kind \notin kinds
  <2>1. S(n + 1) = S(n)
    BY <1>4
  <2>2. Cardinality(S(n + 1)) = Cardinality(S(n)) /\ Cardinality(S(n)) \in Nat
    BY <1>1, <2>1
  <2>3. Cardinality(S(0)) = 0
    BY <1>2, FS_EmptySet
  <2>4. QED
    BY <1>4, <2>2, <2>3 DEF Ordinal
<1>5. QED
  BY <1>3, <1>4

(* An item of the kinds is one of those counted up to any later place.     *)
LEMMA OrdinalWithin ==
    ASSUME NEW w, NEW kinds, NEW n \in Nat, NEW k \in 1 .. n, w[k].kind \in kinds
    PROVE  Ordinal(w, kinds, k) \in 1 .. Ordinal(w, kinds, n)
<1> DEFINE S(m) == {j \in 1 .. m : w[j].kind \in kinds}
<1>1. IsFiniteSet(S(n)) /\ S(k) \in SUBSET S(n) /\ {k} \in SUBSET S(k)
  <2>1. IsFiniteSet(1 .. n) /\ S(n) \in SUBSET (1 .. n)
    BY FS_Interval
  <2>2. QED
    BY <2>1, FS_Subset
<1>2. IsFiniteSet(S(k)) /\ Cardinality(S(k)) <= Cardinality(S(n))
  BY <1>1, FS_Subset
<1>3. Cardinality({k}) = 1 /\ Cardinality({k}) <= Cardinality(S(k))
  BY <1>1, <1>2, FS_Subset, FS_Singleton
<1>4. Cardinality(S(k)) \in Nat /\ Cardinality(S(n)) \in Nat
  BY <1>1, <1>2, FS_CardinalityType
<1>5. QED
  BY <1>2, <1>3, <1>4 DEF Ordinal

(* Items of other kinds are not counted.                                   *)
LEMMA OrdinalSkips ==
    ASSUME NEW w, NEW kinds, NEW n \in Nat, NEW m \in Nat, n <= m,
           \A k \in n + 1 .. m : w[k].kind \notin kinds
    PROVE  Ordinal(w, kinds, m) = Ordinal(w, kinds, n)
<1>1. {j \in 1 .. m : w[j].kind \in kinds} = {j \in 1 .. n : w[j].kind \in kinds}
  <2>1. \A j \in 1 .. m : j \in 1 .. n \/ j \in n + 1 .. m
    OBVIOUS
  <2>2. QED
    BY <2>1
<1>2. QED
  BY <1>1 DEF Ordinal

(* A shown item is appended, what is not shown is passed over; the same    *)
(* for chains.                                                             *)
LEMMA EventAppended ==
    ASSUME NEW e \in Seq(Shown), NEW w, NEW n \in Nat, EventsRead(e, w, n), w[n + 1].kind \in Shown
    PROVE  EventsRead(Append(e, w[n + 1].kind), w, n + 1)
<1> DEFINE x == w[n + 1].kind
           f == Append(e, x)
<1>1. /\ Len(f) = Len(e) + 1 /\ f[Len(e) + 1] = x /\ \A k \in 1 .. Len(e) : f[k] = e[k]
  BY AppendProperties
<1>2. /\ Ordinal(w, Shown, n) \in Nat /\ Len(e) = Ordinal(w, Shown, n)
      /\ Ordinal(w, Shown, n + 1) = Len(e) + 1
  BY OrdinalNext DEF EventsRead
<1> HIDE DEF f
<1>3. ASSUME NEW k \in 1 .. n + 1, w[k].kind \in Shown
      PROVE  f[Ordinal(w, Shown, k)] = w[k].kind
  <2>1. CASE k = n + 1
    BY <1>1, <1>2, <2>1
  <2>2. CASE k \in 1 .. n
    <3>1. Ordinal(w, Shown, k) \in 1 .. Len(e)
      BY <1>2, <1>3, <2>2, OrdinalWithin
    <3>2. e[Ordinal(w, Shown, k)] = w[k].kind
      BY <1>3, <2>2 DEF EventsRead
    <3>3. QED
      BY <1>1, <3>1, <3>2
  <2>3. QED
    BY <2>1, <2>2
<1>4. EventsRead(f, w, n + 1)
  BY <1>1, <1>2, <1>3 DEF EventsRead
<1>5. QED
  BY <1>4 DEF f

(* What is not shown adds no event.                                        *)
LEMMA EventsPassed ==
    ASSUME NEW e, NEW w, NEW n \in Nat, NEW m \in Nat, n <= m, EventsRead(e, w, n),
           \A k \in n + 1 .. m : w[k].kind \notin Shown
    PROVE  EventsRead(e, w, m)
<1>1. Ordinal(w, Shown, m) = Ordinal(w, Shown, n)
  BY OrdinalSkips
<1>2. \A k \in 1 .. m : k \in 1 .. n \/ k \in n + 1 .. m
  OBVIOUS
<1>3. QED
  BY <1>1, <1>2 DEF EventsRead

(* A certificate read is the next chain.                                   *)
LEMMA ChainAppended ==
    ASSUME NEW c \in Seq(Certs), NEW w, NEW n \in Nat, ChainsRead(c, w, n),
           w[n + 1].kind = "certificate", w[n + 1].chain \in Certs
    PROVE  ChainsRead(Append(c, w[n + 1].chain), w, n + 1)
<1> DEFINE K == {"certificate"}
           x == w[n + 1].chain
           f == Append(c, x)
<1>1. /\ Len(f) = Len(c) + 1 /\ f[Len(c) + 1] = x /\ \A k \in 1 .. Len(c) : f[k] = c[k]
  BY AppendProperties
<1>2. /\ Ordinal(w, K, n) \in Nat /\ Len(c) = Ordinal(w, K, n)
      /\ Ordinal(w, K, n + 1) = Len(c) + 1
  <2>1. Len(c) = Ordinal(w, {"certificate"}, n) /\ w[n + 1].kind \in {"certificate"}
    BY DEF ChainsRead
  <2>2. QED
    BY <2>1, OrdinalNext
<1> HIDE DEF f
<1>3. ASSUME NEW k \in 1 .. n + 1, w[k].kind = "certificate"
      PROVE  f[Ordinal(w, K, k)] = w[k].chain
  <2>1. CASE k = n + 1
    BY <1>1, <1>2, <2>1
  <2>2. CASE k \in 1 .. n
    <3>1. Ordinal(w, K, k) \in 1 .. Len(c)
      BY <1>2, <1>3, <2>2, OrdinalWithin
    <3>2. c[Ordinal(w, K, k)] = w[k].chain
      BY <1>3, <2>2 DEF ChainsRead
    <3>3. QED
      BY <1>1, <3>1, <3>2
  <2>3. QED
    BY <2>1, <2>2
<1>4. ChainsRead(f, w, n + 1)
  BY <1>1, <1>2, <1>3 DEF ChainsRead
<1>5. QED
  BY <1>4 DEF f

(* What is no certificate adds no chain.                                   *)
LEMMA ChainsPassed ==
    ASSUME NEW c, NEW w, NEW n \in Nat, NEW m \in Nat, n <= m, ChainsRead(c, w, n),
           \A k \in n + 1 .. m : w[k].kind # "certificate"
    PROVE  ChainsRead(c, w, m)
<1>1. Ordinal(w, {"certificate"}, m) = Ordinal(w, {"certificate"}, n)
  BY OrdinalSkips
<1>2. \A k \in 1 .. m : k \in 1 .. n \/ k \in n + 1 .. m
  OBVIOUS
<1>3. QED
  BY <1>1, <1>2 DEF ChainsRead

-----------------------------------------------------------------------------
(* Where the parser is.                                                    *)

(* What waits on the wire is a finite sequence of items.                   *)
LEMMA WireTyped ==
    ASSUME TypeOK, NEW d \in Dirs
    PROVE  /\ wire[d] \in Seq(Item) /\ Len(wire[d]) \in Nat
           /\ \A k \in 1 .. Len(wire[d]) : wire[d][k] \in Item
<1>1. wire[d] \in Seq(Item)
  BY WiresAssumption DEF TypeOK
<1>2. QED
  BY <1>1, LenProperties, ElementOfSeq

Piece == [item : Handshake, part : {"whole", "front", "rest"}]

(* Where the parser is, in numbers, and the item that is next.             *)
LEMMA Place ==
    ASSUME TypeOK, InPlace, dir \in Dirs
    PROVE  /\ Len(left) \in Nat /\ Len(hs) \in Nat /\ Pos \in Nat /\ Began \in 0 .. 1
           /\ Pos + Len(left) = Len(wire[dir]) /\ Pos + Began <= Len(wire[dir])
           /\ Looked(dir) \in 0 .. Len(wire[dir]) /\ Len(wire[dir]) \in Nat
           /\ Looked(dir) = IF hs = <<>> THEN Pos ELSE Pos + Began - Len(hs)
           /\ hs = <<>> <=> Len(hs) = 0
           /\ left = <<>> <=> Len(left) = 0
           /\ left # <<>> => Head(left) = wire[dir][Pos + 1] /\ Pos + 1 \in 1 .. Len(wire[dir])
           /\ hs # <<>> => /\ Head(hs) \in Piece /\ Head(hs).item = wire[dir][Looked(dir) + 1]
                           /\ Looked(dir) + 1 \in 1 .. Len(wire[dir])
<1>1. /\ left \in Seq(Item) /\ Len(left) \in Nat /\ hs \in Seq(Piece) /\ Len(hs) \in Nat
      /\ Len(wire[dir]) \in Nat /\ Len(left) <= Len(wire[dir]) /\ Len(hs) <= Pos + Began
      /\ \A k \in 1 .. Len(left) : left[k] = wire[dir][Pos + k]
      /\ \A k \in 1 .. Len(hs) : hs[k].item = wire[dir][Pos + Began - Len(hs) + k]
      /\ started => left # <<>>
  BY WireTyped, LenProperties DEF InPlace, Piece
<1>2. hs = <<>> <=> Len(hs) = 0
  BY <1>1, EmptySeq
<1>3. left = <<>> <=> Len(left) = 0
  BY <1>1, EmptySeq
<1>4. Pos \in Nat /\ Began \in 0 .. 1 /\ Pos + Len(left) = Len(wire[dir]) /\ Pos + Began <= Len(wire[dir])
  BY <1>1, <1>3 DEF Pos, Began
<1>5. Looked(dir) = IF hs = <<>> THEN Pos ELSE Pos + Began - Len(hs)
  BY DEF Looked
<1>6. Looked(dir) \in 0 .. Len(wire[dir])
  BY <1>1, <1>2, <1>4, <1>5
<1>7. ASSUME left # <<>> PROVE Head(left) = wire[dir][Pos + 1] /\ Pos + 1 \in 1 .. Len(wire[dir])
  <2>1. 1 \in 1 .. Len(left) /\ Head(left) = left[1]
    BY <1>1, <1>3, <1>7
  <2>2. QED
    BY <1>1, <1>4, <2>1
<1>8. ASSUME hs # <<>>
      PROVE  /\ Head(hs) \in Piece /\ Head(hs).item = wire[dir][Looked(dir) + 1]
             /\ Looked(dir) + 1 \in 1 .. Len(wire[dir])
  <2>1. 1 \in 1 .. Len(hs) /\ Head(hs) = hs[1] /\ hs[1] \in Piece
    BY <1>1, <1>2, <1>8, ElementOfSeq
  <2>2. Looked(dir) = Pos + Began - Len(hs)
    BY <1>5, <1>8
  <2>3. QED
    BY <1>1, <1>4, <2>1, <2>2
<1>9. QED
  BY <1>1, <1>2, <1>3, <1>4, <1>5, <1>6, <1>7, <1>8

-----------------------------------------------------------------------------
(* How each step moves the place.                                          *)

(* The other stream is not looked at meanwhile.                            *)
LEMMA OtherStream ==
    ASSUME wire' = wire, dir' = dir, NEW d \in Dirs, d # dir
    PROVE  Looked(d)' = Looked(d)
BY DEF Looked

(* A record that is no handshake record is one item.                       *)
LEMMA RecordPlace ==
    ASSUME TypeOK, InPlace, AtRecord, left # <<>>, Head(left) \notin Handshake, Consumed
    PROVE  InPlace' /\ Looked(dir)' = Looked(dir) + 1
<1>1. dir \in Dirs /\ hs = <<>> /\ left' = Tail(left) /\ UNCHANGED <<wire, dir, started, hs>>
  BY DEF AtRecord, Consumed
<1>2. ~started
  BY <1>1 DEF InPlace, TypeOK
<1>3. /\ left \in Seq(Item) /\ Len(left) \in Nat /\ Len(wire[dir]) \in Nat /\ Len(left) <= Len(wire[dir])
      /\ \A k \in 1 .. Len(left) : left[k] = wire[dir][Pos + k]
      /\ Pos = Len(wire[dir]) - Len(left)
  BY <1>1, Place DEF InPlace, Pos
<1>4. /\ left' \in Seq(Item) /\ Len(left') = Len(left) - 1
      /\ \A k \in 1 .. Len(left') : left'[k] = left[k + 1]
  BY <1>1, <1>3, HeadTailProperties
<1>5. Len(left') \in Nat
  BY <1>4, LenProperties
<1>6. Pos' = Pos + 1
  BY <1>1, <1>3, <1>4 DEF Pos
<1>7. \A k \in 1 .. Len(left') : left'[k] = wire[dir][Pos' + k]
  <2>1. ASSUME NEW k \in 1 .. Len(left') PROVE left'[k] = wire[dir][Pos' + k]
    <3>1. k + 1 \in 1 .. Len(left) /\ Pos + (k + 1) = Pos' + k
      <4>1. Len(left) \in Nat /\ Len(left') = Len(left) - 1 /\ Pos \in Int /\ Pos' = Pos + 1
        BY <1>3, <1>4, <1>6
      <4>2. QED
        BY <4>1
    <3>2. QED
      BY <1>3, <1>4, <3>1
  <2>2. QED
    BY <2>1
<1>8. Pos' \in Nat /\ Began' = 0 /\ Len(hs) = 0
  BY <1>1, <1>2, <1>3, <1>4, <1>5, <1>6 DEF Began
<1>9. InPlace'
  <2>1. /\ hs' \in Seq([item : Handshake, part : {"whole", "front", "rest"}])
        /\ Len(hs') = 0 /\ hs' = <<>> /\ ~started' /\ wire' = wire /\ dir' = dir
    BY <1>1, <1>2, <1>8 DEF InPlace
  <2>2. Len(left') <= Len(wire[dir]) /\ Len(hs') <= Pos' + Began'
    <3>1. Len(left') <= Len(wire[dir])
      BY <1>3, <1>4
    <3>2. PICK p \in Nat, b \in {0} : p = Pos' /\ b = Began'
      BY <1>8
    <3>3. 0 <= p + b
      OBVIOUS
    <3>4. QED
      BY <2>1, <3>1, <3>2, <3>3
  <2>3. \A k \in 1 .. Len(left') : left'[k] = wire'[dir'][Pos' + k]
    BY <1>7, <2>1
  <2>4. \A k \in 1 .. Len(hs') : hs'[k].item = wire'[dir'][Pos' + Began' - Len(hs') + k]
    BY <2>1
  <2>5. Len(left') <= Len(wire'[dir']) /\ left' \in Seq(Item)
    BY <1>4, <2>1, <2>2
  <2>6. QED
    BY <2>1, <2>2, <2>3, <2>4, <2>5 DEF InPlace
<1>10. Looked(dir)' = Looked(dir) + 1
  BY <1>1, <1>6 DEF Looked
<1>11. QED
  BY <1>9, <1>10

(* The buffer is left up to its n-th piece.                                *)
LEMMA MessagesPlace ==
    ASSUME TypeOK, InPlace, dir \in Dirs, hs # <<>>, NEW n \in 1 .. Len(hs),
           hs' = SubSeq(hs, n + 1, Len(hs)), UNCHANGED <<wire, dir, left, started>>
    PROVE  /\ InPlace'
           /\ Looked(dir)' = IF n = Len(hs) THEN Pos ELSE Looked(dir) + n
           /\ Len(hs') = Len(hs) - n
           /\ \A k \in 1 .. Len(hs') : hs'[k] = hs[n + k]
           /\ Looked(dir)' \in Nat /\ Looked(dir) <= Looked(dir)' /\ Looked(dir)' <= Looked(dir) + n
<1>1. /\ hs \in Seq(Piece) /\ Len(hs) \in Nat /\ Pos \in Nat /\ Began \in 0 .. 1
      /\ Len(hs) <= Pos + Began
      /\ Looked(dir) = Pos + Began - Len(hs)
      /\ \A k \in 1 .. Len(hs) : hs[k].item = wire[dir][Pos + Began - Len(hs) + k]
  BY Place DEF InPlace, Piece
<1>2. \A k \in n + 1 .. Len(hs) : hs[k] \in Piece
  BY <1>1, ElementOfSeq
<1>3. /\ hs' \in Seq(Piece) /\ Len(hs') = Len(hs) - n
      /\ \A k \in 1 .. Len(hs) - n : hs'[k] = hs[n + k]
  <2>1. n + 1 \in Int /\ Len(hs) \in Int
    BY <1>1
  <2>2. /\ hs' \in Seq(Piece) /\ Len(hs') = IF n + 1 <= Len(hs) THEN Len(hs) - (n + 1) + 1 ELSE 0
        /\ \A k \in 1 .. Len(hs) - (n + 1) + 1 : hs'[k] = hs[n + 1 + k - 1]
    BY <1>2, <2>1, SubSeqProperties
  <2>3. QED
    BY <1>1, <2>2
<1>4. Pos' = Pos /\ Began' = Began
  BY DEF Pos, Began
<1>5. hs' = <<>> <=> n = Len(hs)
  <2>1. hs' = <<>> <=> Len(hs') = 0
    BY <1>3, EmptySeq
  <2>2. n \in Nat /\ Len(hs) \in Nat /\ Len(hs') = Len(hs) - n
    BY <1>1, <1>3
  <2>3. QED
    BY <2>1, <2>2
<1>6. Looked(dir)' = IF n = Len(hs) THEN Pos ELSE Looked(dir) + n
  <2>1. Looked(dir)' = IF hs' = <<>> THEN Pos' ELSE Pos' + Began' - Len(hs')
    BY DEF Looked
  <2>2. QED
    BY <1>1, <1>3, <1>4, <1>5, <2>1
<1>7. ASSUME NEW k \in 1 .. Len(hs') PROVE hs'[k].item = wire[dir][Pos' + Began' - Len(hs') + k]
  <2>a. /\ n \in Nat /\ Len(hs) \in Nat /\ Len(hs') = Len(hs) - n /\ Pos \in Nat /\ Began \in Nat
        /\ Pos' = Pos /\ Began' = Began
    BY <1>1, <1>3, <1>4
  <2>b. k \in Nat /\ k >= 1 /\ k <= Len(hs) - n
    BY <2>a
  <2>c. n + k \in 1 .. Len(hs)
    BY <2>a, <2>b
  <2>d. Pos + Began - Len(hs) + (n + k) = Pos + Began - (Len(hs) - n) + k
    BY <2>a, <2>b
  <2>1. n + k \in 1 .. Len(hs) /\ Pos + Began - Len(hs) + (n + k) = Pos' + Began' - Len(hs') + k
    BY <2>a, <2>c, <2>d
  <2>2. QED
    BY <1>1, <1>3, <2>1
<1>8. started /\ hs' # <<>> => hs'[Len(hs')].part # "whole"
  <2>1. ASSUME started, hs' # <<>> PROVE hs'[Len(hs')].part # "whole"
    <3>1. Len(hs') \in 1 .. Len(hs) - n /\ n + Len(hs') = Len(hs)
      BY <1>1, <1>3, <1>5, <2>1
    <3>2. hs'[Len(hs')] = hs[Len(hs)]
      BY <1>3, <3>1
    <3>3. QED
      BY <2>1, <3>2 DEF InPlace
  <2>2. QED
    BY <2>1
<1>9. Len(hs') <= Pos' + Began'
  BY <1>1, <1>3, <1>4
<1>10. InPlace'
  BY <1>3, <1>4, <1>7, <1>8, <1>9 DEF InPlace, Piece
<1>11. QED
  BY <1>1, <1>3, <1>6, <1>10

(* A whole message is one item.                                            *)
LEMMA MessagePlace ==
    ASSUME TypeOK, InPlace, dir \in Dirs, hs # <<>>, Head(hs).part = "whole",
           hs' = Tail(hs), UNCHANGED <<wire, dir, left, started>>
    PROVE  InPlace' /\ Looked(dir)' = Looked(dir) + 1
<1>1. hs \in Seq(Piece) /\ Len(hs) \in Nat /\ Len(hs) # 0 /\ 1 \in 1 .. Len(hs)
  BY Place DEF InPlace, Piece
<1>2. hs' = SubSeq(hs, 1 + 1, Len(hs))
  BY <1>1, TailIsSubSeq
<1>3. started => Len(hs) # 1
  BY <1>1 DEF InPlace
<1>4. InPlace' /\ Looked(dir)' = IF 1 = Len(hs) THEN Pos ELSE Looked(dir) + 1
  BY <1>1, <1>2, MessagesPlace
<1>5. ASSUME Len(hs) = 1 PROVE Pos = Looked(dir) + 1
  <2>1. ~started /\ Began = 0
    BY <1>3, <1>5 DEF Began, TypeOK
  <2>2. Looked(dir) = Pos + Began - Len(hs) /\ Pos \in Nat
    BY Place
  <2>3. QED
    BY <1>5, <2>1, <2>2
<1>6. QED
  BY <1>4, <1>5

(* The rest of the buffer is dropped.                                      *)
LEMMA BufferPlace ==
    ASSUME TypeOK, InPlace, dir \in Dirs, hs # <<>>, hs' = <<>>, UNCHANGED <<wire, dir, left, started>>
    PROVE  InPlace' /\ Looked(dir)' \in Nat /\ Looked(dir) <= Looked(dir)'
<1>1. Len(hs) \in 1 .. Len(hs) /\ Len(hs) \in Nat
  BY Place
<1>2. hs' = SubSeq(hs, Len(hs) + 1, Len(hs))
  BY <1>1, SubSeqEmpty
<1>3. QED
  BY <1>1, <1>2, MessagesPlace

(* A handshake record is put in the buffer; nothing is looked at yet.      *)
LEMMA HandshakePlace ==
    ASSUME TypeOK, InPlace, NEW n \in 0 .. Len(left), NEW more \in BOOLEAN, HandshakeRecord(n, more)
    PROVE  /\ InPlace' /\ Looked(dir)' = Looked(dir)
           /\ Len(hs') \in Nat
           /\ ~split' /\ (started => split) => ~started' /\ \A k \in 1 .. Len(hs') : hs'[k].part = "whole"
<1> DEFINE m == IF more THEN n + 1 ELSE n
           part(k) == IF k = 1 /\ started THEN "rest" ELSE IF k = n + 1 THEN "front" ELSE "whole"
<1>1. /\ dir \in Dirs /\ hs = <<>> /\ m \in 1 .. Len(left) /\ \A k \in 1 .. m : left[k] \in Handshake
      /\ hs' = [k \in 1 .. m |-> [item |-> left[k], part |-> part(k)]]
      /\ left' = SubSeq(left, n + 1, Len(left)) /\ started' = more /\ split' = (split \/ more)
      /\ wire' = wire /\ dir' = dir
  BY DEF HandshakeRecord, AtRecord
<1>2. /\ left \in Seq(Item) /\ Len(left) \in Nat /\ Len(wire[dir]) \in Nat /\ Len(left) <= Len(wire[dir])
      /\ \A k \in 1 .. Len(left) : left[k] = wire[dir][Pos + k] /\ left[k] \in Item
      /\ Pos = Len(wire[dir]) - Len(left) /\ Looked(dir) = Pos
  BY <1>1, Place, ElementOfSeq DEF InPlace, Pos
<1>3. /\ left' \in Seq(Item) /\ Len(left') = Len(left) - n
      /\ \A k \in 1 .. Len(left) - n : left'[k] = left[n + k]
  <2>1. n + 1 \in Int /\ Len(left) \in Int /\ \A k \in n + 1 .. Len(left) : left[k] \in Item
    BY <1>2
  <2>2. /\ left' \in Seq(Item) /\ Len(left') = IF n + 1 <= Len(left) THEN Len(left) - (n + 1) + 1 ELSE 0
        /\ \A k \in 1 .. Len(left) - (n + 1) + 1 : left'[k] = left[n + 1 + k - 1]
    BY <1>1, <2>1, SubSeqProperties
  <2>3. QED
    BY <1>2, <2>2, SMTT(30)
<1>4. m \in Nat /\ n \in Nat /\ m <= Len(left) /\ m = n + (IF more THEN 1 ELSE 0)
  BY <1>1, <1>2
<1>5. hs' \in Seq(Piece) /\ Len(hs') = m /\ DOMAIN hs' = 1 .. m
  <2>1. hs' \in [1 .. m -> Piece]
    <3>1. ASSUME NEW k \in 1 .. m PROVE [item |-> left[k], part |-> part(k)] \in Piece
      BY <1>1 DEF Piece
    <3>2. QED
      BY <1>1, <3>1
  <2>2. hs' \in Seq(Piece)
    BY <1>4, <2>1, SeqDef
  <2>3. Len(hs') \in Nat /\ DOMAIN hs' = 1 .. Len(hs')
    BY <2>2, LenProperties
  <2>4. DOMAIN hs' = 1 .. m
    BY <2>1
  <2>5. Len(hs') = m
    <3>1. 1 .. Len(hs') = 1 .. m
      BY <2>3, <2>4
    <3>2. Len(hs') \in Nat /\ m \in Nat
      BY <1>4, <2>3
    <3> HIDE DEF m
    <3>3. QED
      BY <3>1, <3>2
  <2>6. QED
    BY <2>2, <2>4, <2>5
<1>6. \A k \in 1 .. m : hs'[k].item = left[k] /\ hs'[k].part = part(k)
  BY <1>1
<1>7. Pos' = Pos + n /\ Began' = (IF more THEN 1 ELSE 0) /\ Pos' + Began' - Len(hs') = Pos
  <2>1. Pos' = Len(wire[dir]) - Len(left') /\ Began' = (IF more THEN 1 ELSE 0)
    BY <1>1 DEF Pos, Began
  <2>2. Pos = Len(wire[dir]) - Len(left) /\ Len(left') = Len(left) - n
        /\ Len(left) \in Nat /\ Len(wire[dir]) \in Nat /\ n \in Nat
    BY <1>2, <1>3, <1>4
  <2>3. Pos' = Pos + n /\ Pos \in Int
    BY <2>1, <2>2
  <2>4. Len(hs') = n + Began'
    BY <1>4, <1>5, <2>1
  <2>5. \E p, b \in Int : p = Pos' /\ b = Began'
    <3>1. (IF more THEN 1 ELSE 0) \in Int
      OBVIOUS
    <3>2. Pos + n \in Int
      BY <2>2, <2>3
    <3>3. QED
      BY <2>1, <2>3, <3>1, <3>2
  <2>a. PICK p \in Int, b \in Int : p = Pos' /\ b = Began'
    BY <2>5
  <2>6. p + b - (n + b) = Pos
    BY <2>2, <2>3, <2>a
  <2>7. QED
    BY <2>1, <2>3, <2>4, <2>a, <2>6
<1>8. ASSUME NEW k \in 1 .. Len(left') PROVE left'[k] = wire[dir][Pos' + k]
  <2>a. n \in Nat /\ Len(left) \in Nat /\ Len(left') = Len(left) - n /\ Pos' = Pos + n /\ Pos \in Int
    BY <1>2, <1>3, <1>4, <1>7
  <2>1. n + k \in 1 .. Len(left) /\ Pos + (n + k) = Pos' + k
    BY <2>a
  <2>2. QED
    BY <1>2, <1>3, <2>1
<1>9. ASSUME NEW k \in 1 .. Len(hs') PROVE hs'[k].item = wire[dir][Pos' + Began' - Len(hs') + k]
  <2>1. k \in 1 .. m /\ m <= Len(left) /\ m \in Nat /\ Len(left) \in Nat
    BY <1>2, <1>4, <1>5
  <2> HIDE DEF m
  <2>2. k \in 1 .. Len(left)
    BY <2>1
  <2>3. hs'[k].item = left[k] /\ left[k] = wire[dir][Pos + k]
    BY <1>2, <1>6, <2>1, <2>2
  <2>4. Pos' + Began' - Len(hs') + k = Pos + k
    BY <1>7
  <2>5. QED
    BY <2>3, <2>4
<1>10. started' => left' # <<>> /\ Head(left') \in Handshake
  <2>1. ASSUME more PROVE left' # <<>> /\ Head(left') \in Handshake
    <3>1. n + 1 \in 1 .. m /\ 1 \in 1 .. Len(left) - n
      BY <1>4, <2>1
    <3>2. left'[1] = left[n + 1] /\ Len(left') >= 1
      BY <1>3, <3>1
    <3>3. left' # <<>> /\ Head(left') = left'[1]
      BY <1>3, <3>2, EmptySeq
    <3>4. QED
      BY <1>1, <3>1, <3>2, <3>3
  <2>2. QED
    BY <1>1, <2>1
<1>11. started' /\ hs' # <<>> => hs'[Len(hs')].part # "whole"
  <2>1. ASSUME more PROVE hs'[Len(hs')].part # "whole"
    <3>1. Len(hs') = n + 1 /\ n + 1 \in 1 .. m
      BY <1>4, <1>5, <2>1
    <3>2. QED
      BY <1>6, <3>1
  <2>2. QED
    BY <1>1, <2>1
<1>12. Len(left') <= Len(wire[dir]) /\ Len(hs') <= Pos' + Began'
  <2>1. /\ n \in Nat /\ Len(left) \in Nat /\ Len(left) <= Len(wire[dir]) /\ Len(wire[dir]) \in Nat
        /\ Len(left') = Len(left) - n
    BY <1>2, <1>3, <1>4
  <2>2. Pos' + Began' - Len(hs') = Pos /\ Pos \in Nat /\ Len(hs') \in Nat /\ Pos' \in Int /\ Began' \in Int
    <3>1. Pos \in Nat
      BY <1>2
    <3>2. Len(hs') \in Nat
      BY <1>5, LenProperties
    <3>3. Began' \in Int
      BY <1>7
    <3>4. QED
      BY <1>4, <1>7, <3>1, <3>2, <3>3
  <2>3. QED
    BY <2>1, <2>2
<1>13. InPlace'
  BY <1>1, <1>3, <1>5, <1>8, <1>9, <1>10, <1>11, <1>12 DEF InPlace, Piece
<1>14. Looked(dir)' = Looked(dir)
  <2>1. hs' # <<>>
    <3>1. 1 \in DOMAIN hs'
      BY <1>1, <1>4, <1>5
    <3>2. QED
      BY <3>1
  <2>2. Looked(dir)' = Pos' + Began' - Len(hs')
    BY <1>1, <2>1 DEF Looked
  <2>3. QED
    BY <1>2, <1>7, <2>2
<1>15. ASSUME ~split', started => split PROVE ~started' /\ \A k \in 1 .. Len(hs') : hs'[k].part = "whole"
  <2>1. ~more /\ ~started
    BY <1>1, <1>15
  <2>2. QED
    BY <1>1, <1>4, <1>5, <1>6, <2>1
<1>16. QED
  BY <1>4, <1>5, <1>13, <1>14, <1>15

-----------------------------------------------------------------------------
(* What is known of the first n items of a stream, and what was read of    *)
(* them.                                                                   *)
KnownTo(i, d, n) ==
    /\ i.hellos \in Nat
    /\ i.hellos > 0 => \E k \in Sent(d, "client_hello") : k <= n
    /\ i.renegotiation => HelloTwice(d)
    /\ SuiteSent(i.cipher, d) /\ ChainSent(i.chain, d)
    /\ i.ems => EmsSent(d)
    /\ i.ri => RiSent(d)
    /\ i.tls13 => \E k \in Sent(d, "server_hello") : wire[d][k].version = "1.3"
    /\ i.complete => Answered(d)
ReadTo(i, d, n) ==
    /\ EventsRead(i.events, wire[d], n)
    /\ ChainsRead(i.chain, wire[d], n)
    /\ AlertsRead(i.alerts, wire[d], n)

(* From i to j the parser has taken the item after the first n.            *)
Takes(i, j, d, n) ==
    /\ j \in HandshakeInfo
    /\ KnownTo(i, d, n) => KnownTo(j, d, n + 1)
    /\ KnownTo(i, d, n) /\ ReadTo(i, d, n) => ReadTo(j, d, n + 1)
    /\ i.error => j.error

(* What is known of a part of a stream is known of a longer one.           *)
LEMMA KnownLater ==
    ASSUME NEW i, NEW d, NEW n \in Int, NEW m \in Int, n <= m, KnownTo(i, d, n), TypeOK, d \in Dirs
    PROVE  KnownTo(i, d, m)
<1>1. \A k \in Sent(d, "client_hello") : k \in Int
  BY WireTyped DEF Sent
<1>2. \A k \in Sent(d, "client_hello") : k <= n => k <= m
  BY <1>1
<1>3. QED
  BY <1>2 DEF KnownTo

(* What is not shown leaves no trace.                                      *)
LEMMA ReadPast ==
    ASSUME NEW i, NEW d, NEW n \in Nat, NEW m \in Nat, n <= m, ReadTo(i, d, n),
           \A k \in n + 1 .. m : wire[d][k].kind \notin Shown
    PROVE  ReadTo(i, d, m)
<1>1. \A k \in n + 1 .. m : wire[d][k].kind # "certificate" /\ wire[d][k].kind # "alert"
  BY DEF Shown
<1>2. EventsRead(i.events, wire[d], m)
  BY EventsPassed DEF ReadTo
<1>3. ChainsRead(i.chain, wire[d], m)
  BY <1>1, ChainsPassed DEF ReadTo
<1>4. AlertsRead(i.alerts, wire[d], m)
  <2>1. \A k \in 1 .. m : k \in 1 .. n \/ k \in n + 1 .. m
    OBVIOUS
  <2>2. QED
    BY <1>1, <2>1 DEF ReadTo, AlertsRead
<1>5. QED
  BY <1>2, <1>3, <1>4 DEF ReadTo

(* The fields of a record of facts.                                        *)
LEMMA InfoFields ==
    ASSUME NEW i \in HandshakeInfo
    PROVE  /\ i.hellos \in Nat /\ i.events \in Seq(Shown) /\ i.chain \in Seq(Certs)
           /\ i.alerts \in SUBSET AlertDescs /\ i.tls13 \in BOOLEAN /\ i.error \in BOOLEAN
           /\ i.complete \in BOOLEAN /\ i.ems \in BOOLEAN /\ i.ri \in BOOLEAN
           /\ i.renegotiation \in BOOLEAN /\ i.resumption \in BOOLEAN
BY DEF HandshakeInfo

(* An event is appended, and nothing else of the three is touched.         *)
LEMMA EventTaken ==
    ASSUME TypeOK, NEW i \in HandshakeInfo, NEW j \in HandshakeInfo, NEW d \in Dirs, NEW n \in Nat,
           ReadTo(i, d, n), wire[d][n + 1].kind \in Shown \ {"certificate", "alert"},
           j.events = Append(i.events, wire[d][n + 1].kind), j.chain = i.chain, j.alerts = i.alerts
    PROVE  ReadTo(j, d, n + 1)
<1>1. EventsRead(j.events, wire[d], n + 1)
  BY InfoFields, EventAppended DEF ReadTo
<1>2. ChainsRead(j.chain, wire[d], n + 1)
  <2>1. \A k \in n + 1 .. n + 1 : wire[d][k].kind # "certificate"
    OBVIOUS
  <2>2. n + 1 \in Nat /\ n <= n + 1
    OBVIOUS
  <2>3. QED
    BY <2>1, <2>2, ChainsPassed DEF ReadTo
<1>3. AlertsRead(j.alerts, wire[d], n + 1)
  <2>1. \A k \in 1 .. n + 1 : k \in 1 .. n \/ k = n + 1
    OBVIOUS
  <2>2. QED
    BY <2>1 DEF ReadTo, AlertsRead
<1>4. QED
  BY <1>1, <1>2, <1>3 DEF ReadTo

(* What the kind of an item says of its other fields.                      *)
LEMMA ItemFields ==
    ASSUME NEW x \in Item
    PROVE  /\ x.kind \in {"client_hello", "server_hello"} =>
                  /\ x.version \in Versions /\ x.sid \in Ids \cup {None}
                  /\ x.exts \in BOOLEAN /\ x.ems \in BOOLEAN /\ x.ri \in BOOLEAN
           /\ x.kind = "server_hello" => x.cipher \in Suites
           /\ x.kind = "certificate" => x.chain \in Certs
           /\ x.kind = "alert" => x.desc \in AlertDescs /\ x.sealed \in BOOLEAN
           /\ x.kind \in {"alert", "ccs", "app", "plain"} => x \notin Handshake
BY DEF Item, Handshake, ClientHello, ServerHello, Certificate, BareMessage, Alert

(* An alert is a record of its own; a sealed one is read as any.           *)
LEMMA AlertTaken ==
    ASSUME TypeOK, NEW i \in HandshakeInfo, NEW j, NEW d \in Dirs, NEW n \in Nat,
           n + 1 \in 1 .. Len(wire[d]), wire[d][n + 1].kind = "alert",
           NEW desc \in IF wire[d][n + 1].sealed THEN AlertDescs ELSE {wire[d][n + 1].desc},
           j = Event([i EXCEPT !.alerts = @ \cup {desc}], "alert")
    PROVE  Takes(i, j, d, n)
<1>1. wire[d][n + 1].desc \in AlertDescs /\ desc \in AlertDescs
  BY WireTyped, ItemFields
<1>2. /\ j.events = Append(i.events, "alert") /\ j.chain = i.chain /\ j.alerts = i.alerts \cup {desc}
      /\ j.hellos = i.hellos /\ j.renegotiation = i.renegotiation /\ j.cipher = i.cipher
      /\ j.ems = i.ems /\ j.ri = i.ri /\ j.tls13 = i.tls13 /\ j.complete = i.complete /\ j.error = i.error
  BY DEF Event, HandshakeInfo
<1>3. j \in HandshakeInfo
  <2>1. Append(i.events, "alert") \in Seq(Shown) /\ i.alerts \cup {desc} \in SUBSET AlertDescs
    BY <1>1, InfoFields, AppendProperties DEF Shown
  <2>2. QED
    BY <2>1 DEF Event, HandshakeInfo
<1>4. ASSUME KnownTo(i, d, n) PROVE KnownTo(j, d, n + 1)
  <2>1. KnownTo(i, d, n + 1)
    BY <1>4, KnownLater
  <2>2. QED
    BY <1>2, <2>1 DEF KnownTo
<1>5. ASSUME ReadTo(i, d, n) PROVE ReadTo(j, d, n + 1)
  <2>1. EventsRead(j.events, wire[d], n + 1)
    <3>1. PICK e, w : e = i.events /\ w = wire[d]
      OBVIOUS
    <3>2. e \in Seq(Shown) /\ EventsRead(e, w, n)
      BY <1>5, <3>1, InfoFields DEF ReadTo
    <3>3. w[n + 1].kind = "alert" /\ "alert" \in Shown
      BY <3>1 DEF Shown
    <3>4. EventsRead(Append(e, w[n + 1].kind), w, n + 1)
      BY <3>2, <3>3, EventAppended
    <3>5. QED
      BY <1>2, <3>1, <3>3, <3>4
  <2>2. ChainsRead(j.chain, wire[d], n + 1)
    <3>1. \A k \in n + 1 .. n + 1 : wire[d][k].kind # "certificate"
      OBVIOUS
    <3>2. n + 1 \in Nat /\ n <= n + 1
      OBVIOUS
    <3>3. QED
      BY <1>2, <1>5, <3>1, <3>2, ChainsPassed DEF ReadTo
  <2>3. AlertsRead(j.alerts, wire[d], n + 1)
    <3>1. \A k \in 1 .. n + 1 : k \in 1 .. n \/ k = n + 1
      OBVIOUS
    <3>2. wire[d][n + 1].sealed \/ wire[d][n + 1].desc \in j.alerts
      BY <1>2
    <3>3. QED
      BY <1>2, <1>5, <3>1, <3>2 DEF ReadTo, AlertsRead
  <2>4. QED
    BY <2>1, <2>2, <2>3 DEF ReadTo
<1>6. QED
  BY <1>2, <1>3, <1>4, <1>5 DEF Takes

(* A change_cipher_spec completes the handshake if the server chose a      *)
(* suite.                                                                  *)
LEMMA CcsTaken ==
    ASSUME TypeOK, NEW i \in HandshakeInfo, NEW j, NEW d \in Dirs, NEW n \in Nat,
           n + 1 \in 1 .. Len(wire[d]), wire[d][n + 1].kind = "ccs",
           j = Event([i EXCEPT !.complete = @ \/ (~i.tls13 /\ i.cipher # None)], "ccs")
    PROVE  Takes(i, j, d, n)
<1>1. /\ j.events = Append(i.events, "ccs") /\ j.chain = i.chain /\ j.alerts = i.alerts
      /\ j.hellos = i.hellos /\ j.renegotiation = i.renegotiation /\ j.cipher = i.cipher
      /\ j.ems = i.ems /\ j.ri = i.ri /\ j.tls13 = i.tls13 /\ j.error = i.error
      /\ j.complete = (i.complete \/ (~i.tls13 /\ i.cipher # None))
  BY DEF Event, HandshakeInfo
<1>2. j \in HandshakeInfo
  <2>1. Append(i.events, "ccs") \in Seq(Shown)
    BY InfoFields, AppendProperties DEF Shown
  <2>2. QED
    BY <2>1 DEF Event, HandshakeInfo
<1>3. ASSUME KnownTo(i, d, n) PROVE KnownTo(j, d, n + 1)
  <2>1. KnownTo(i, d, n + 1)
    BY <1>3, KnownLater
  <2>2. i.cipher # None => Answered(d)
    BY <1>3 DEF KnownTo, SuiteSent, Answered
  <2>3. QED
    BY <1>1, <2>1, <2>2 DEF KnownTo
<1>4. ASSUME ReadTo(i, d, n) PROVE ReadTo(j, d, n + 1)
  BY <1>1, <1>2, <1>4, EventTaken DEF Shown
<1>5. QED
  BY <1>1, <1>2, <1>3, <1>4 DEF Takes

(* Application data, a finished or a message that is not read: nothing is  *)
(* shown.                                                                  *)
LEMMA QuietTaken ==
    ASSUME TypeOK, NEW i \in HandshakeInfo, NEW j, NEW d \in Dirs, NEW n \in Nat,
           n + 1 \in 1 .. Len(wire[d]), wire[d][n + 1].kind \notin Shown,
           \/ j = i
           \/ j = [i EXCEPT !.complete = @ \/ i.tls13]
           \/ (j = [i EXCEPT !.complete = @ \/ ~i.tls13] /\ wire[d][n + 1].kind = "finished")
    PROVE  Takes(i, j, d, n)
<1>1. /\ j.events = i.events /\ j.chain = i.chain /\ j.alerts = i.alerts
      /\ j.hellos = i.hellos /\ j.renegotiation = i.renegotiation /\ j.cipher = i.cipher
      /\ j.ems = i.ems /\ j.ri = i.ri /\ j.tls13 = i.tls13 /\ j.error = i.error
      /\ j.complete => i.complete \/ i.tls13 \/ wire[d][n + 1].kind = "finished"
  BY DEF HandshakeInfo
<1>2. j \in HandshakeInfo
  BY ZenonT(40) DEF HandshakeInfo
<1>3. ASSUME KnownTo(i, d, n) PROVE KnownTo(j, d, n + 1)
  <2>1. KnownTo(i, d, n + 1)
    BY <1>3, KnownLater
  <2>2. i.tls13 \/ wire[d][n + 1].kind = "finished" => Answered(d)
    BY <1>3 DEF KnownTo, Answered, Sent
  <2>3. QED
    BY <1>1, <2>1, <2>2 DEF KnownTo
<1>4. ASSUME ReadTo(i, d, n) PROVE ReadTo(j, d, n + 1)
  <2>1. ReadTo(i, d, n + 1)
    <3>1. \A k \in n + 1 .. n + 1 : wire[d][k].kind \notin Shown
      OBVIOUS
    <3>2. n + 1 \in Nat /\ n <= n + 1
      OBVIOUS
    <3>3. QED
      BY <1>4, <3>1, <3>2, ReadPast
  <2>2. QED
    BY <1>1, <2>1 DEF ReadTo
<1>5. QED
  BY <1>1, <1>2, <1>3, <1>4 DEF Takes

(* A readable certificate is appended.  That of a 1.3 server would not be, *)
(* but is not readable.                                                    *)
LEMMA CertificateTaken ==
    ASSUME TypeOK, NEW i \in HandshakeInfo, NEW j, NEW d \in Dirs, NEW n \in Nat,
           n + 1 \in 1 .. Len(wire[d]), wire[d][n + 1].kind = "certificate",
           j = IF i.tls13 THEN i
               ELSE Event([i EXCEPT !.chain = Append(@, wire[d][n + 1].chain)], "certificate")
    PROVE  Takes(i, j, d, n)
<1>1. wire[d][n + 1].chain \in Certs
  BY WireTyped, ItemFields
<1>2. ASSUME KnownTo(i, d, n) PROVE ~i.tls13
  <2>1. wire \in Wires
    BY DEF TypeOK
  <2>2. \A k \in 1 .. Len(wire[d]) :
            ~(wire[d][k].kind = "server_hello" /\ wire[d][k].version = "1.3")
    BY <2>1, EncryptionAssumption
  <2>3. QED
    BY <1>2, <2>2 DEF KnownTo, Sent
<1>3. CASE i.tls13
  <2>1. KnownTo(i, d, n) => KnownTo(i, d, n + 1)
    BY KnownLater
  <2>2. QED
    BY <1>2, <1>3, <2>1 DEF Takes
<1>4. CASE ~i.tls13
  <2>1. /\ j.events = Append(i.events, "certificate")
        /\ j.chain = Append(i.chain, wire[d][n + 1].chain) /\ j.alerts = i.alerts
        /\ j.hellos = i.hellos /\ j.renegotiation = i.renegotiation /\ j.cipher = i.cipher
        /\ j.ems = i.ems /\ j.ri = i.ri /\ j.tls13 = i.tls13 /\ j.complete = i.complete /\ j.error = i.error
    BY <1>4 DEF Event, HandshakeInfo
  <2>2. j \in HandshakeInfo
    <3>1. Append(i.events, "certificate") \in Seq(Shown) /\ Append(i.chain, wire[d][n + 1].chain) \in Seq(Certs)
      BY <1>1, InfoFields, AppendProperties DEF Shown
    <3>2. QED
      BY <1>4, <3>1 DEF Event, HandshakeInfo
  <2>3. ASSUME KnownTo(i, d, n) PROVE KnownTo(j, d, n + 1)
    <3>1. KnownTo(i, d, n + 1)
      BY <2>3, KnownLater
    <3>2. ChainSent(j.chain, d)
      <4>1. /\ Len(j.chain) = Len(i.chain) + 1 /\ j.chain[Len(i.chain) + 1] = wire[d][n + 1].chain
            /\ \A k \in 1 .. Len(i.chain) : j.chain[k] = i.chain[k]
            /\ Len(i.chain) \in Nat
        <5>1. i.chain \in Seq(Certs)
          BY InfoFields
        <5>2. Len(i.chain) \in Nat
          BY <5>1, LenProperties
        <5> DEFINE f == Append(i.chain, wire[d][n + 1].chain)
        <5>3. /\ Len(f) = Len(i.chain) + 1 /\ f[Len(i.chain) + 1] = wire[d][n + 1].chain
              /\ \A k \in 1 .. Len(i.chain) : f[k] = i.chain[k]
          BY <1>1, <5>1, AppendProperties
        <5>4. QED
          BY <2>1, <5>2, <5>3
      <4>2. n + 1 \in Sent(d, "certificate")
        BY DEF Sent
      <4>3. \A k \in 1 .. Len(j.chain) : k \in 1 .. Len(i.chain) \/ k = Len(i.chain) + 1
        BY <4>1
      <4>4. QED
        BY <3>1, <4>1, <4>2, <4>3 DEF KnownTo, ChainSent
    <3>3. QED
      BY <2>1, <3>1, <3>2 DEF KnownTo
  <2>4. ASSUME ReadTo(i, d, n) PROVE ReadTo(j, d, n + 1)
    <3>1. EventsRead(j.events, wire[d], n + 1)
      BY <2>1, <2>4, InfoFields, EventAppended, ZenonT(40) DEF ReadTo, Shown
    <3>2. ChainsRead(j.chain, wire[d], n + 1)
      BY <1>1, <2>1, <2>4, InfoFields, ChainAppended DEF ReadTo
    <3>3. AlertsRead(j.alerts, wire[d], n + 1)
      <4>1. \A k \in 1 .. n + 1 : k \in 1 .. n \/ k = n + 1
        OBVIOUS
      <4>2. QED
        BY <2>1, <2>4, <4>1 DEF ReadTo, AlertsRead
    <3>4. QED
      BY <3>1, <3>2, <3>3 DEF ReadTo
  <2>5. QED
    BY <2>1, <2>2, <2>3, <2>4 DEF Takes
<1>5. QED
  BY <1>3, <1>4

(* A key exchange is shown.                                                *)
LEMMA KeyExchangeTaken ==
    ASSUME TypeOK, NEW i \in HandshakeInfo, NEW j, NEW d \in Dirs, NEW n \in Nat,
           n + 1 \in 1 .. Len(wire[d]),
           wire[d][n + 1].kind \in {"server_key_exchange", "client_key_exchange"},
           j = Event(i, wire[d][n + 1].kind)
    PROVE  Takes(i, j, d, n)
<1>1. /\ j.events = Append(i.events, wire[d][n + 1].kind) /\ j.chain = i.chain /\ j.alerts = i.alerts
      /\ j.hellos = i.hellos /\ j.renegotiation = i.renegotiation /\ j.cipher = i.cipher
      /\ j.ems = i.ems /\ j.ri = i.ri /\ j.tls13 = i.tls13 /\ j.complete = i.complete /\ j.error = i.error
  BY DEF Event, HandshakeInfo
<1>2. j \in HandshakeInfo
  <2>1. Append(i.events, wire[d][n + 1].kind) \in Seq(Shown)
    BY InfoFields, AppendProperties DEF Shown
  <2>2. QED
    BY <2>1 DEF Event, HandshakeInfo
<1>3. ASSUME KnownTo(i, d, n) PROVE KnownTo(j, d, n + 1)
  <2>1. KnownTo(i, d, n + 1)
    BY <1>3, KnownLater
  <2>2. QED
    BY <1>1, <2>1 DEF KnownTo
<1>4. ASSUME ReadTo(i, d, n) PROVE ReadTo(j, d, n + 1)
  BY <1>1, <1>2, <1>4, EventTaken DEF Shown
<1>5. QED
  BY <1>1, <1>2, <1>3, <1>4 DEF Takes

(* The extensions of a hello are noted, and then the hello is shown.       *)
LEMMA HelloTaken ==
    ASSUME TypeOK, NEW i \in HandshakeInfo, NEW h \in HandshakeInfo, NEW j, NEW d \in Dirs, NEW n \in Nat,
           n + 1 \in 1 .. Len(wire[d]), wire[d][n + 1].kind \in {"client_hello", "server_hello"},
           KnownTo(i, d, n) => KnownTo(h, d, n + 1),
           h.events = i.events, h.chain = i.chain, h.alerts = i.alerts, h.error = i.error,
           j = Event([h EXCEPT !.ems = @ \/ wire[d][n + 1].ems, !.ri = @ \/ wire[d][n + 1].ri],
                     wire[d][n + 1].kind)
    PROVE  Takes(i, j, d, n)
<1>1. wire[d][n + 1].ems \in BOOLEAN /\ wire[d][n + 1].ri \in BOOLEAN
  BY WireTyped, ItemFields
<1>2. /\ j.events = Append(i.events, wire[d][n + 1].kind) /\ j.chain = i.chain /\ j.alerts = i.alerts
      /\ j.hellos = h.hellos /\ j.renegotiation = h.renegotiation /\ j.cipher = h.cipher /\ j.chain = h.chain
      /\ j.ems = (h.ems \/ wire[d][n + 1].ems) /\ j.ri = (h.ri \/ wire[d][n + 1].ri)
      /\ j.tls13 = h.tls13 /\ j.complete = h.complete /\ j.error = i.error
  BY DEF Event, HandshakeInfo
<1>3. j \in HandshakeInfo
  <2> DEFINE g == [h EXCEPT !.ems = @ \/ wire[d][n + 1].ems, !.ri = @ \/ wire[d][n + 1].ri]
  <2>1. wire[d][n + 1].kind \in Shown
    BY DEF Shown
  <2>2. (h.ems \/ wire[d][n + 1].ems) \in BOOLEAN /\ (h.ri \/ wire[d][n + 1].ri) \in BOOLEAN
    OBVIOUS
  <2>a. \A a, b \in BOOLEAN : [h EXCEPT !.ems = a, !.ri = b] \in HandshakeInfo
    BY DEF HandshakeInfo
  <2>b. g = [h EXCEPT !.ems = h.ems \/ wire[d][n + 1].ems, !.ri = h.ri \/ wire[d][n + 1].ri]
    BY DEF HandshakeInfo
  <2> HIDE DEF g
  <2>3. g \in HandshakeInfo
    BY <2>2, <2>a, <2>b
  <2>4. j = [g EXCEPT !.events = Append(g.events, wire[d][n + 1].kind)]
    BY DEF Event, g
  <2>5. Append(g.events, wire[d][n + 1].kind) \in Seq(Shown)
    BY <2>1, <2>3, InfoFields, AppendProperties
  <2>6. QED
    BY <2>3, <2>4, <2>5 DEF HandshakeInfo
<1>4. ASSUME KnownTo(i, d, n) PROVE KnownTo(j, d, n + 1)
  <2>1. n + 1 \in Sent(d, "client_hello") \cup Sent(d, "server_hello")
    BY DEF Sent
  <2>2. (wire[d][n + 1].ems => EmsSent(d)) /\ (wire[d][n + 1].ri => RiSent(d))
    BY <2>1 DEF EmsSent, RiSent
  <2>3. QED
    BY <1>2, <1>4, <2>2 DEF KnownTo
<1>5. ASSUME ReadTo(i, d, n) PROVE ReadTo(j, d, n + 1)
  BY <1>2, <1>3, <1>5, EventTaken DEF Shown
<1>6. QED
  BY <1>2, <1>3, <1>4, <1>5 DEF Takes

(* What a client hello sets before its extensions.                         *)
LEMMA ClientHelloSets ==
    ASSUME TypeOK, NEW i \in HandshakeInfo, NEW h, NEW d \in Dirs, NEW n \in Nat,
           n + 1 \in 1 .. Len(wire[d]), wire[d][n + 1].kind = "client_hello",
           h = [i EXCEPT !.hellos = @ + 1,
                         !.renegotiation = @ \/ i.hellos > 0,
                         !.offered = wire[d][n + 1].version,
                         !.sid = wire[d][n + 1].sid,
                         !.resumption = @ \/ wire[d][n + 1].sid # None]
    PROVE  /\ h \in HandshakeInfo /\ (KnownTo(i, d, n) => KnownTo(h, d, n + 1))
           /\ h.events = i.events /\ h.chain = i.chain /\ h.alerts = i.alerts /\ h.error = i.error
<1>1. wire[d][n + 1].version \in Versions /\ wire[d][n + 1].sid \in Ids \cup {None}
  BY WireTyped, ItemFields
<1>2. /\ h.events = i.events /\ h.chain = i.chain /\ h.alerts = i.alerts
      /\ h.hellos = i.hellos + 1 /\ h.renegotiation = (i.renegotiation \/ i.hellos > 0)
      /\ h.cipher = i.cipher /\ h.ems = i.ems /\ h.ri = i.ri /\ h.tls13 = i.tls13
      /\ h.complete = i.complete /\ h.error = i.error
  BY DEF HandshakeInfo
<1>3. h \in HandshakeInfo
  <2>1. i.hellos + 1 \in Nat /\ (i.renegotiation \/ i.hellos > 0) \in BOOLEAN
    BY InfoFields
  <2>2. (i.resumption \/ wire[d][n + 1].sid # None) \in BOOLEAN
    OBVIOUS
  <2> DEFINE g == [i EXCEPT !.hellos = i.hellos + 1, !.renegotiation = i.renegotiation \/ i.hellos > 0]
  <2>3. g \in HandshakeInfo
    BY <2>1 DEF HandshakeInfo
  <2>4. h = [g EXCEPT !.offered = wire[d][n + 1].version, !.sid = wire[d][n + 1].sid,
                      !.resumption = i.resumption \/ wire[d][n + 1].sid # None]
    BY DEF HandshakeInfo
  <2> HIDE DEF g
  <2>5. QED
    BY <1>1, <2>2, <2>3, <2>4 DEF HandshakeInfo
<1>4. ASSUME KnownTo(i, d, n) PROVE KnownTo(h, d, n + 1)
  <2>1. n + 1 \in Sent(d, "client_hello")
    BY DEF Sent
  <2>2. \E k \in Sent(d, "client_hello") : k <= n + 1
    BY <2>1
  <2>3. i.hellos > 0 => HelloTwice(d)
    <3>1. ASSUME i.hellos > 0 PROVE HelloTwice(d)
      <4>1. PICK k \in Sent(d, "client_hello") : k <= n
        BY <1>4, <3>1 DEF KnownTo
      <4>2. k \in Int
        BY <4>1, WireTyped DEF Sent
      <4>3. k < n + 1
        BY <4>1, <4>2
      <4>4. QED
        BY <2>1, <4>3 DEF HelloTwice
    <3>2. QED
      BY <3>1
  <2>4. i.hellos + 1 \in Nat
    BY InfoFields
  <2>5. QED
    BY <1>2, <1>4, <2>2, <2>3, <2>4 DEF KnownTo
<1>5. QED
  BY <1>2, <1>3, <1>4

(* What a server hello sets before its extensions.                         *)
LEMMA ServerHelloSets ==
    ASSUME TypeOK, NEW i, NEW h, NEW d \in Dirs, NEW n \in Nat,
           n + 1 \in 1 .. Len(wire[d]), wire[d][n + 1].kind = "server_hello", KnownTo(i, d, n),
           h.cipher = wire[d][n + 1].cipher,
           h.tls13 => i.tls13 \/ wire[d][n + 1].version = "1.3",
           h.hellos = i.hellos, h.renegotiation = i.renegotiation, h.ems = i.ems, h.ri = i.ri,
           h.chain = i.chain, h.complete = i.complete
    PROVE  KnownTo(h, d, n + 1)
<1>1. n + 1 \in Sent(d, "server_hello")
  BY DEF Sent
<1>2. SuiteSent(wire[d][n + 1].cipher, d)
  BY <1>1 DEF SuiteSent
<1>3. KnownTo(i, d, n + 1)
  BY KnownLater
<1>4. QED
  BY <1>1, <1>2, <1>3 DEF KnownTo

-----------------------------------------------------------------------------
(* What a step within a stream keeps.                                      *)

(* The facts of the stream that is read are now j; the rest is as before.  *)
LEMMA FactsKept ==
    ASSUME TlsInv, dir \in Dirs, wire' = wire, dir' = dir, short' = short, split => split',
           NEW j \in HandshakeInfo, info' = [info EXCEPT ![dir] = j],
           KnownTo(j, dir, Looked(dir)'),
           ~split' /\ ~j.error /\ Sent(dir, "plain") = {} => ReadTo(j, dir, Looked(dir)')
    PROVE  /\ info' \in [Dirs -> HandshakeInfo] /\ info'[dir] = j
           /\ \A d \in Dirs : Known(info[d], d)' /\ AllRead(d)'
<1>1. info \in [Dirs -> HandshakeInfo]
  BY DEF TlsInv, TypeOK
<1>2. info' \in [Dirs -> HandshakeInfo] /\ info'[dir] = j
  BY <1>1
<1>3. \A d \in Dirs : \A k : Sent(d, k)' = Sent(d, k)
  BY DEF Sent
<1>4. ASSUME NEW d \in Dirs PROVE Known(info[d], d)' /\ AllRead(d)'
  <2>1. CASE d = dir
    <3>1. Known(info[d], d)'
      BY <1>2, <2>1 DEF Known, KnownTo, HelloTwice, SuiteSent, ChainSent, EmsSent, RiSent, Answered,
         Sent
    <3>2. AllRead(d)'
      BY <1>2, <1>3, <2>1 DEF AllRead, ReadTo
    <3>3. QED
      BY <3>1, <3>2
  <2>2. CASE d # dir
    <3>1. info'[d] = info[d] /\ Looked(d)' = Looked(d)
      BY <1>1, <2>2, OtherStream
    <3>2. Known(info[d], d) /\ AllRead(d)
      BY DEF TlsInv
    <3>3. Known(info[d], d)'
      BY <3>1, <3>2, SMTT(30) DEF Known, HelloTwice, SuiteSent, ChainSent, EmsSent, RiSent, Answered, Sent
    <3>4. AllRead(d)'
      BY <1>3, <2>2, <3>1, <3>2 DEF AllRead
    <3>5. QED
      BY <3>3, <3>4
  <2>3. QED
    BY <2>1, <2>2
<1>5. QED
  BY <1>2, <1>4

(* What was known and read of the stream before the step.                  *)
LEMMA FactsBefore ==
    ASSUME TlsInv, dir \in Dirs
    PROVE  /\ info[dir] \in HandshakeInfo /\ KnownTo(info[dir], dir, Looked(dir))
           /\ ~split /\ ~info[dir].error /\ Sent(dir, "plain") = {} => ReadTo(info[dir], dir, Looked(dir))
           /\ Looked(dir) \in Nat
<1>1. info[dir] \in HandshakeInfo
  BY DEF TlsInv, TypeOK
<1>2. KnownTo(info[dir], dir, Looked(dir))
  BY DEF TlsInv, Known, KnownTo
<1>3. ~split /\ ~info[dir].error /\ Sent(dir, "plain") = {} => ReadTo(info[dir], dir, Looked(dir))
  BY DEF TlsInv, AllRead, ReadTo
<1>4. Looked(dir) \in Nat
  BY Place DEF TlsInv
<1>5. QED
  BY <1>1, <1>2, <1>3, <1>4

(* One item is taken.                                                      *)
LEMMA FactsTaken ==
    ASSUME TlsInv, dir \in Dirs, UNCHANGED <<wire, dir, history>>,
           NEW j, info' = [info EXCEPT ![dir] = j],
           Takes(info[dir], j, dir, Looked(dir)), Looked(dir)' = Looked(dir) + 1
    PROVE  /\ info' \in [Dirs -> HandshakeInfo] /\ (info[dir].error => info'[dir].error)
           /\ \A d \in Dirs : Known(info[d], d)' /\ AllRead(d)'
<1>1. j \in HandshakeInfo /\ KnownTo(j, dir, Looked(dir)') /\ (info[dir].error => j.error)
  BY FactsBefore DEF Takes
<1>2. ~split' /\ ~j.error /\ Sent(dir, "plain") = {} => ReadTo(j, dir, Looked(dir)')
  BY FactsBefore DEF Takes, history
<1>3. QED
  BY <1>1, <1>2, FactsKept DEF history

(* Within a stream nothing is said yet in the session record.              *)
LEMMA Assembled ==
    ASSUME TlsInv, dir \in Dirs, UNCHANGED <<wire, dir, short>>, started' \in BOOLEAN,
           over' \in BOOLEAN, split' \in BOOLEAN, info' \in [Dirs -> HandshakeInfo],
           InPlace', Uncut', \A d \in Dirs : Known(info[d], d)' /\ AllRead(d)'
    PROVE  TlsInv'
<1>1. TypeOK'
  BY DEF TlsInv, TypeOK
<1>2. dir' # "done"
  BY DEF Dirs
<1>3. NothingInvented' /\ ReportExact'
  BY <1>2 DEF NothingInvented, ReportExact
<1>4. QED
  BY <1>1, <1>3 DEF TlsInv

(* After a record that is one item.                                        *)
LEMMA RecordTaken ==
    ASSUME TlsInv, AtRecord, left # <<>>, Head(left) \notin Handshake, Consumed,
           NEW j, info' = [info EXCEPT ![dir] = j], Takes(info[dir], j, dir, Looked(dir))
    PROVE  TlsInv'
<1>1. /\ TypeOK /\ InPlace /\ Uncut /\ dir \in Dirs /\ hs = <<>>
      /\ UNCHANGED <<wire, dir, started, hs, over, history>>
  BY DEF TlsInv, AtRecord, Consumed
<1>2. InPlace' /\ Looked(dir)' = Looked(dir) + 1
  BY <1>1, RecordPlace
<1>3. /\ info' \in [Dirs -> HandshakeInfo] /\ (info[dir].error => info'[dir].error)
      /\ \A d \in Dirs : Known(info[d], d)' /\ AllRead(d)'
  BY <1>1, <1>2, FactsTaken
<1>4. Uncut'
  BY <1>1, <1>3 DEF Uncut, Sent, history
<1>5. QED
  BY <1>1, <1>2, <1>3, <1>4, Assembled DEF TypeOK, history

(* The pieces that stay in the buffer are no more cut than they were.      *)
LEMMA MessagesUncut ==
    ASSUME TypeOK, InPlace, Uncut, dir \in Dirs, hs # <<>>, NEW n \in 1 .. Len(hs),
           hs' = SubSeq(hs, n + 1, Len(hs)), UNCHANGED <<wire, dir, left, started, history>>,
           over' => over \/ info'[dir].error, info[dir].error => info'[dir].error
    PROVE  Uncut'
<1>1. Len(hs') = Len(hs) - n /\ \A k \in 1 .. Len(hs') : hs'[k] = hs[n + k]
  BY MessagesPlace
<1>2. Len(hs) \in Nat
  BY Place
<1>3. \A k \in 1 .. Len(hs') : n + k \in 1 .. Len(hs)
  BY <1>1, <1>2
<1>4. started' \/ (\E k \in 1 .. Len(hs') : hs'[k].part # "whole") => split'
  BY <1>1, <1>3 DEF Uncut, history
<1>5. over' => info'[dir].error \/ Sent(dir, "plain")' # {}
  BY DEF Uncut, Sent
<1>6. QED
  BY <1>4, <1>5 DEF Uncut, history

(* After a message to its end.                                             *)
LEMMA MessageTaken ==
    ASSUME TlsInv, dir \in Dirs, hs # <<>>, Head(hs).part = "whole", NextMessage,
           NEW j, info' = [info EXCEPT ![dir] = j], Takes(info[dir], j, dir, Looked(dir))
    PROVE  TlsInv'
<1>1. /\ TypeOK /\ InPlace /\ Uncut /\ hs' = Tail(hs)
      /\ UNCHANGED <<wire, dir, left, started, over, history>>
  BY DEF TlsInv, NextMessage
<1>2. InPlace' /\ Looked(dir)' = Looked(dir) + 1
  BY <1>1, MessagePlace
<1>3. /\ info' \in [Dirs -> HandshakeInfo] /\ (info[dir].error => info'[dir].error)
      /\ \A d \in Dirs : Known(info[d], d)' /\ AllRead(d)'
  BY <1>1, <1>2, FactsTaken
<1>4. Uncut'
  <2>1. hs \in Seq(Piece) /\ Len(hs) \in Nat /\ Len(hs) # 0 /\ 1 \in 1 .. Len(hs)
    BY <1>1, Place DEF InPlace, Piece
  <2>2. hs' = SubSeq(hs, 1 + 1, Len(hs))
    BY <1>1, <2>1, TailIsSubSeq
  <2>3. QED
    BY <1>1, <1>3, <2>1, <2>2, MessagesUncut
<1>5. QED
  BY <1>1, <1>2, <1>3, <1>4, Assembled DEF TypeOK, history

(* After an exception in the middle of a message.                          *)
LEMMA MessageRefused ==
    ASSUME TlsInv, dir \in Dirs, hs # <<>>, Head(hs).part = "whole", NEW h \in HandshakeInfo, Raise(h),
           KnownTo(h, dir, Looked(dir) + 1)
    PROVE  TlsInv'
<1> DEFINE j == [h EXCEPT !.error = TRUE]
<1>1. /\ TypeOK /\ InPlace /\ Uncut /\ hs' = <<>> /\ over' /\ over' \in BOOLEAN
      /\ info' = [info EXCEPT ![dir] = j] /\ UNCHANGED <<wire, dir, left, started, history>>
  BY DEF TlsInv, Raise
<1>2. j \in HandshakeInfo /\ j.error
  BY DEF HandshakeInfo
<1>3. KnownTo(j, dir, Looked(dir) + 1)
  BY DEF KnownTo, HandshakeInfo
<1> HIDE DEF j
<1>4. /\ hs \in Seq(Piece) /\ Len(hs) \in Nat /\ Len(hs) # 0 /\ Len(hs) \in 1 .. Len(hs)
      /\ Pos \in Nat /\ Began \in 0 .. 1 /\ Looked(dir) = Pos + Began - Len(hs) /\ Looked(dir) \in Nat
  BY <1>1, Place DEF InPlace, Piece
<1>5. hs' = SubSeq(hs, Len(hs) + 1, Len(hs))
  BY <1>1, <1>4, SubSeqEmpty
<1>6. InPlace' /\ Looked(dir)' = Pos
  BY <1>1, <1>4, <1>5, MessagesPlace
<1>7. Looked(dir) + 1 <= Pos
  <2>1. CASE Len(hs) = 1
    <3>1. ~started
      <4>1. Head(hs) = hs[Len(hs)]
        BY <1>4, <2>1
      <4>2. QED
        BY <1>1, <4>1 DEF InPlace
    <3>2. QED
      BY <1>4, <2>1, <3>1 DEF Began
  <2>2. CASE Len(hs) # 1
    <3>1. PICK p, b, l \in Int : p = Pos /\ b = Began /\ l = Len(hs)
      BY <1>4
    <3>2. l > 1 /\ b <= 1
      BY <1>4, <2>2, <3>1
    <3>3. p + b - l + 1 <= p
      BY <3>2
    <3>4. QED
      BY <1>4, <3>1, <3>3
  <2>3. QED
    BY <2>1, <2>2
<1>8. KnownTo(j, dir, Looked(dir)')
  <2>1. Looked(dir) + 1 \in Int /\ Looked(dir)' \in Int /\ Looked(dir) + 1 <= Looked(dir)'
    BY <1>4, <1>6, <1>7
  <2>2. QED
    BY <1>1, <1>3, <2>1, KnownLater
<1>9. /\ info' \in [Dirs -> HandshakeInfo] /\ info'[dir] = j
      /\ \A d \in Dirs : Known(info[d], d)' /\ AllRead(d)'
  BY <1>1, <1>2, <1>8, FactsKept DEF history
<1>10. Uncut'
  BY <1>1, <1>2, <1>4, <1>5, <1>9, MessagesUncut
<1>11. QED
  BY <1>1, <1>6, <1>9, <1>10, Assembled DEF TypeOK, history

-----------------------------------------------------------------------------
(* One lemma for every step.                                               *)

(* The record that is read is the item after those looked at.              *)
LEMMA RecordAt ==
    ASSUME TlsInv, NEW k, Reading(k), k \in {"alert", "ccs", "app", "plain"}
    PROVE  /\ dir \in Dirs /\ AtRecord /\ left # <<>> /\ Head(left) \notin Handshake
           /\ Head(left) = wire[dir][Looked(dir) + 1] /\ Looked(dir) \in Nat
           /\ Looked(dir) + 1 \in 1 .. Len(wire[dir])
           /\ wire[dir][Looked(dir) + 1].kind = k /\ info[dir] \in HandshakeInfo /\ TypeOK
<1>1. /\ TypeOK /\ InPlace /\ AtRecord /\ dir \in Dirs /\ hs = <<>> /\ left # <<>> /\ Head(left).kind = k
  BY DEF TlsInv, Reading, AtRecord
<1>2. /\ Pos \in Nat /\ Looked(dir) = Pos /\ Head(left) = wire[dir][Pos + 1] /\ Pos + 1 \in 1 .. Len(wire[dir])
  BY <1>1, Place
<1>3. Head(left) \in Item
  BY <1>1, <1>2, WireTyped
<1>4. Head(left) \notin Handshake
  BY <1>1, <1>3, ItemFields
<1>5. QED
  BY <1>1, <1>2, <1>4 DEF TypeOK

(* An alert keeps the invariant.                                           *)
LEMMA AlertStep ==
    ASSUME TlsInv, ParseAlert PROVE TlsInv'
<1>1. Reading("alert") /\ Consumed
  BY DEF ParseAlert
<1>2. PICK desc \in IF Head(left).sealed THEN AlertDescs ELSE {Head(left).desc} :
          info' = [info EXCEPT ![dir] = Event([I EXCEPT !.alerts = @ \cup {desc}], "alert")]
  BY DEF ParseAlert
<1> DEFINE j == Event([info[dir] EXCEPT !.alerts = @ \cup {desc}], "alert")
<1>3. info' = [info EXCEPT ![dir] = j]
  BY <1>2 DEF I
<1>4. Takes(info[dir], j, dir, Looked(dir))
  BY <1>1, RecordAt, AlertTaken
<1> HIDE DEF j
<1>5. QED
  BY <1>1, <1>3, <1>4, RecordAt, RecordTaken

(* So does a change_cipher_spec.                                           *)
LEMMA CcsStep ==
    ASSUME TlsInv, ParseCcs PROVE TlsInv'
<1> DEFINE i == info[dir]
           j == Event([i EXCEPT !.complete = @ \/ (~i.tls13 /\ i.cipher # None)], "ccs")
<1>1. Reading("ccs") /\ Consumed /\ info' = [info EXCEPT ![dir] = j]
  BY DEF ParseCcs, I
<1>2. Takes(info[dir], j, dir, Looked(dir))
  BY <1>1, RecordAt, CcsTaken
<1> HIDE DEF j
<1>3. QED
  BY <1>1, <1>2, RecordAt, RecordTaken

(* So does application data.                                               *)
LEMMA ApplicationDataStep ==
    ASSUME TlsInv, ParseApplicationData PROVE TlsInv'
<1> DEFINE i == info[dir]
           j == [i EXCEPT !.complete = @ \/ i.tls13]
<1>1. Reading("app") /\ Consumed
  BY DEF ParseApplicationData
<1>2. info' = [info EXCEPT ![dir] = j]
  <2>1. info' = [info EXCEPT ![dir].complete = @ \/ info[dir].tls13]
    BY DEF ParseApplicationData, I
  <2>2. QED
    BY <2>1
<1>3. Takes(info[dir], j, dir, Looked(dir))
  <2>1. "app" \notin Shown
    BY DEF Shown
  <2>2. QED
    BY <1>1, <2>1, RecordAt, QuietTaken
<1> HIDE DEF j
<1>4. QED
  BY <1>1, <1>2, <1>3, RecordAt, RecordTaken

(* The loop is left at bytes that are no record: an error, unless the      *)
(* handshake was complete.                                                 *)
LEMMA NotTlsStep ==
    ASSUME TlsInv, NotTls PROVE TlsInv'
<1> DEFINE i == info[dir]
           j == [i EXCEPT !.error = @ \/ ~i.complete]
<1>1. /\ Reading("plain") /\ over' = TRUE /\ UNCHANGED <<wire, dir, left, started, hs, history>>
      /\ TypeOK /\ InPlace /\ Uncut /\ hs = <<>>
  BY DEF NotTls, TlsInv, Reading, AtRecord
<1>2. info' = [info EXCEPT ![dir] = j]
  <2>1. info' = [info EXCEPT ![dir].error = @ \/ ~info[dir].complete]
    BY DEF NotTls, I
  <2>2. QED
    BY <2>1
<1>3. Sent(dir, "plain") # {}
  BY <1>1, RecordAt DEF Sent
<1>4. j \in HandshakeInfo
  BY <1>1, RecordAt DEF HandshakeInfo
<1>5. KnownTo(j, dir, Looked(dir))
  <2>1. /\ j.hellos = i.hellos /\ j.renegotiation = i.renegotiation /\ j.cipher = i.cipher
        /\ j.chain = i.chain /\ j.ems = i.ems /\ j.ri = i.ri /\ j.tls13 = i.tls13 /\ j.complete = i.complete
    BY <1>1, RecordAt DEF HandshakeInfo
  <2>2. KnownTo(i, dir, Looked(dir))
    BY <1>1, RecordAt, FactsBefore
  <2>3. QED
    BY <2>1, <2>2 DEF KnownTo
<1> HIDE DEF j
<1>6. Looked(dir)' = Looked(dir) /\ dir \in Dirs
  BY <1>1, RecordAt DEF Looked, Pos
<1>7. \A d \in Dirs : Known(info[d], d)' /\ AllRead(d)'
  BY <1>1, <1>2, <1>3, <1>4, <1>5, <1>6, FactsKept DEF history
<1>8. info' \in [Dirs -> HandshakeInfo]
  BY <1>1, <1>2, <1>4 DEF TypeOK
<1>9. InPlace'
  BY <1>1 DEF InPlace, Pos, Began
<1>10. Uncut'
  <2>1. Sent(dir, "plain")' # {}
    BY <1>1, <1>3 DEF Sent
  <2>2. QED
    BY <1>1, <2>1 DEF Uncut, history
<1>11. QED
  BY <1>1, <1>6, <1>7, <1>8, <1>9, <1>10, Assembled DEF TypeOK, history

(* A handshake record puts pieces in the buffer; no fact changes.          *)
LEMMA HandshakeRecordStep ==
    ASSUME TlsInv, ReadHandshakeRecord PROVE TlsInv'
<1>1. PICK n \in 0 .. Len(left), more \in BOOLEAN : HandshakeRecord(n, more)
  BY DEF ReadHandshakeRecord
<1>2. /\ TypeOK /\ InPlace /\ Uncut /\ dir \in Dirs /\ ~over /\ started' = more /\ split' = (split \/ more)
      /\ UNCHANGED <<wire, dir, over, info, short>>
  BY <1>1 DEF TlsInv, HandshakeRecord, AtRecord
<1>3. InPlace' /\ Looked(dir)' = Looked(dir)
  BY <1>1, <1>2, HandshakePlace
<1>4. started => split
  BY <1>2 DEF Uncut
<1>5. ~split' => ~started' /\ \A k \in 1 .. Len(hs') : hs'[k].part = "whole"
  BY <1>1, <1>2, <1>4, HandshakePlace
<1>6. Uncut'
  BY <1>2, <1>5 DEF Uncut
<1>7. info' = [info EXCEPT ![dir] = info[dir]] /\ info' \in [Dirs -> HandshakeInfo]
  BY <1>2 DEF TypeOK
<1>8. \A d \in Dirs : Known(info[d], d)' /\ AllRead(d)'
  BY <1>2, <1>3, <1>7, FactsBefore, FactsKept
<1>9. split' \in BOOLEAN /\ started' \in BOOLEAN /\ over' \in BOOLEAN
  BY <1>2 DEF TypeOK
<1>10. QED
  BY <1>2, <1>3, <1>6, <1>7, <1>8, <1>9, Assembled

(* The message that is read is the item after those looked at.             *)
LEMMA MessageAt ==
    ASSUME TlsInv, NEW k, AtMessage(k)
    PROVE  /\ dir \in Dirs /\ hs # <<>> /\ Head(hs).part = "whole"
           /\ M = wire[dir][Looked(dir) + 1] /\ Looked(dir) \in Nat
           /\ Looked(dir) + 1 \in 1 .. Len(wire[dir])
           /\ wire[dir][Looked(dir) + 1].kind = k /\ info[dir] \in HandshakeInfo /\ TypeOK
BY Place, SMTT(30) DEF TlsInv, TypeOK, AtMessage, M

(* A hello: what it sets is h, and then come its extensions.               *)
LEMMA HelloStep ==
    ASSUME TlsInv, NEW k \in {"client_hello", "server_hello"}, AtMessage(k),
           NEW h \in HandshakeInfo, Hello(h, k),
           KnownTo(info[dir], dir, Looked(dir)) => KnownTo(h, dir, Looked(dir) + 1),
           h.events = info[dir].events, h.chain = info[dir].chain, h.alerts = info[dir].alerts,
           h.error = info[dir].error
    PROVE  TlsInv'
<1>1. CASE M.exts
  <2> DEFINE j == Event([h EXCEPT !.ems = @ \/ wire[dir][Looked(dir) + 1].ems,
                                  !.ri = @ \/ wire[dir][Looked(dir) + 1].ri],
                        wire[dir][Looked(dir) + 1].kind)
  <2>1. info' = [info EXCEPT ![dir] = j] /\ NextMessage
    BY <1>1, MessageAt DEF Hello
  <2>2. Takes(info[dir], j, dir, Looked(dir))
    BY MessageAt, HelloTaken
  <2> HIDE DEF j
  <2>3. QED
    BY <2>1, <2>2, MessageAt, MessageTaken
<1>2. CASE ~M.exts
  <2>1. Raise(h)
    BY <1>2 DEF Hello
  <2>2. KnownTo(h, dir, Looked(dir) + 1)
    BY MessageAt, FactsBefore
  <2>3. QED
    BY <2>1, <2>2, MessageAt, MessageRefused
<1>3. QED
  BY <1>1, <1>2

(* A client hello keeps the invariant.                                     *)
LEMMA ClientHelloStep ==
    ASSUME TlsInv, ParseClientHello PROVE TlsInv'
<1> DEFINE i == info[dir]
           x == wire[dir][Looked(dir) + 1]
           h == [i EXCEPT !.hellos = @ + 1,
                          !.renegotiation = @ \/ i.hellos > 0,
                          !.offered = x.version,
                          !.sid = x.sid,
                          !.resumption = @ \/ x.sid # None]
<1>1. AtMessage("client_hello")
  BY DEF ParseClientHello
<1>2. Hello(h, "client_hello")
  BY <1>1, MessageAt DEF ParseClientHello, I
<1>3. /\ h \in HandshakeInfo /\ (KnownTo(i, dir, Looked(dir)) => KnownTo(h, dir, Looked(dir) + 1))
      /\ h.events = i.events /\ h.chain = i.chain /\ h.alerts = i.alerts /\ h.error = i.error
  <2>1. /\ TypeOK /\ i \in HandshakeInfo /\ dir \in Dirs /\ Looked(dir) \in Nat
        /\ Looked(dir) + 1 \in 1 .. Len(wire[dir]) /\ x.kind = "client_hello"
    BY <1>1, MessageAt
  <2>2. h = [i EXCEPT !.hellos = @ + 1,
                      !.renegotiation = @ \/ i.hellos > 0,
                      !.offered = wire[dir][Looked(dir) + 1].version,
                      !.sid = wire[dir][Looked(dir) + 1].sid,
                      !.resumption = @ \/ wire[dir][Looked(dir) + 1].sid # None]
    OBVIOUS
  <2> HIDE DEF h, i
  <2>3. QED
    BY <2>1, <2>2, ClientHelloSets
<1> HIDE DEF h
<1>4. QED
  BY <1>1, <1>2, <1>3, HelloStep

(* So does a server hello.                                                 *)
LEMMA ServerHelloStep ==
    ASSUME TlsInv, ParseServerHello PROVE TlsInv'
<1> DEFINE i == info[dir]
           x == wire[dir][Looked(dir) + 1]
           r == CASE x.sid # None /\ x.sid = i.sid -> TRUE
                  [] x.sid = None /\ i.sid # None -> FALSE
                  [] OTHER -> i.resumption
           h == [i EXCEPT !.resumption = r,
                          !.cipher = x.cipher,
                          !.version = x.version,
                          !.tls13 = @ \/ x.version = "1.3"]
<1>1. AtMessage("server_hello")
  BY DEF ParseServerHello
<1>2. Hello(h, "server_hello")
  BY <1>1, MessageAt DEF ParseServerHello, I
<1>3. r \in BOOLEAN
  BY <1>1, MessageAt, InfoFields
<1> HIDE DEF r
<1>4. /\ h \in HandshakeInfo /\ (KnownTo(i, dir, Looked(dir)) => KnownTo(h, dir, Looked(dir) + 1))
      /\ h.events = i.events /\ h.chain = i.chain /\ h.alerts = i.alerts /\ h.error = i.error
  <2>1. /\ TypeOK /\ i \in HandshakeInfo /\ dir \in Dirs /\ Looked(dir) \in Nat
        /\ Looked(dir) + 1 \in 1 .. Len(wire[dir]) /\ x.kind = "server_hello" /\ x \in Item
    BY <1>1, MessageAt, WireTyped
  <2>2. x.version \in Versions /\ x.cipher \in Suites
    BY <2>1, ItemFields
  <2> HIDE DEF x, i
  <2>3. h \in HandshakeInfo
    BY <1>3, <2>1, <2>2 DEF HandshakeInfo
  <2>4. /\ h.events = i.events /\ h.chain = i.chain /\ h.alerts = i.alerts /\ h.error = i.error
        /\ h.hellos = i.hellos /\ h.renegotiation = i.renegotiation /\ h.ems = i.ems /\ h.ri = i.ri
        /\ h.complete = i.complete /\ h.cipher = x.cipher /\ (h.tls13 => i.tls13 \/ x.version = "1.3")
    BY <2>1 DEF HandshakeInfo
  <2> HIDE DEF h
  <2>5. KnownTo(i, dir, Looked(dir)) => KnownTo(h, dir, Looked(dir) + 1)
    BY <2>1, <2>4, ServerHelloSets DEF x
  <2>6. QED
    BY <2>3, <2>4, <2>5
<1> HIDE DEF h
<1>5. QED
  BY <1>1, <1>2, <1>4, HelloStep

(* So does a certificate.                                                  *)
LEMMA CertificateStep ==
    ASSUME TlsInv, ParseCertificate PROVE TlsInv'
<1> DEFINE i == info[dir]
           j == IF i.tls13 THEN i
                ELSE Event([i EXCEPT !.chain = Append(@, wire[dir][Looked(dir) + 1].chain)], "certificate")
<1>1. AtMessage("certificate") /\ NextMessage
  BY DEF ParseCertificate
<1>2. info' = [info EXCEPT ![dir] = j]
  BY <1>1, MessageAt DEF ParseCertificate, I
<1>3. Takes(info[dir], j, dir, Looked(dir))
  BY <1>1, MessageAt, CertificateTaken
<1> HIDE DEF j
<1>4. QED
  BY <1>1, <1>2, <1>3, MessageAt, MessageTaken

(* So does a key exchange.                                                 *)
LEMMA KeyExchangeStep ==
    ASSUME TlsInv, ParseKeyExchange PROVE TlsInv'
<1> DEFINE j == Event(info[dir], wire[dir][Looked(dir) + 1].kind)
<1>1. PICK k \in {"server_key_exchange", "client_key_exchange"} : AtMessage(k)
  BY DEF ParseKeyExchange
<1>2. NextMessage /\ info' = [info EXCEPT ![dir] = j]
  BY <1>1, MessageAt DEF ParseKeyExchange, I
<1>3. Takes(info[dir], j, dir, Looked(dir))
  BY <1>1, MessageAt, KeyExchangeTaken
<1> HIDE DEF j
<1>4. QED
  BY <1>1, <1>2, <1>3, MessageAt, MessageTaken

(* So does a finished.                                                     *)
LEMMA FinishedStep ==
    ASSUME TlsInv, ParseFinished PROVE TlsInv'
<1> DEFINE i == info[dir]
           j == [i EXCEPT !.complete = @ \/ ~i.tls13]
<1>1. AtMessage("finished") /\ NextMessage
  BY DEF ParseFinished
<1>2. info' = [info EXCEPT ![dir] = j]
  <2>1. info' = [info EXCEPT ![dir].complete = @ \/ ~info[dir].tls13]
    BY DEF ParseFinished, I
  <2>2. QED
    BY <2>1
<1>3. Takes(info[dir], j, dir, Looked(dir))
  <2>1. "finished" \notin Shown
    BY DEF Shown
  <2>2. QED
    BY <1>1, <2>1, MessageAt, QuietTaken
<1> HIDE DEF j
<1>4. QED
  BY <1>1, <1>2, <1>3, MessageAt, MessageTaken

(* So does a message that is not read.                                     *)
LEMMA SkipStep ==
    ASSUME TlsInv, SkipMessage PROVE TlsInv'
<1> DEFINE j == info[dir]
<1>1. AtMessage("other") /\ NextMessage /\ info' = info
  BY DEF SkipMessage
<1>2. info' = [info EXCEPT ![dir] = j]
  BY <1>1, MessageAt DEF TypeOK
<1>3. Takes(info[dir], j, dir, Looked(dir))
  <2>1. "other" \notin Shown
    BY DEF Shown
  <2>2. QED
    BY <1>1, <2>1, MessageAt, QuietTaken
<1>4. QED
  BY <1>1, <1>2, <1>3, MessageAt, MessageTaken

(* What a part of the buffer is left for: no fact is added.                *)
LEMMA PassedOver ==
    ASSUME TlsInv, dir \in Dirs, hs # <<>>, NEW n \in 1 .. Len(hs), hs' = SubSeq(hs, n + 1, Len(hs)),
           UNCHANGED <<wire, dir, left, started, over, info, history>>,
           ~split => \A k \in Looked(dir) + 1 .. Looked(dir) + n : wire[dir][k].kind \notin Shown
    PROVE  TlsInv'
<1>1. TypeOK /\ InPlace /\ Uncut
  BY DEF TlsInv
<1>2. /\ InPlace' /\ Looked(dir)' \in Nat /\ Looked(dir) <= Looked(dir)' /\ Looked(dir)' <= Looked(dir) + n
  BY <1>1, MessagesPlace
<1>3. Uncut'
  BY <1>1, MessagesUncut
<1>4. info' = [info EXCEPT ![dir] = info[dir]] /\ info' \in [Dirs -> HandshakeInfo]
  BY <1>1 DEF TypeOK
<1>5. KnownTo(info[dir], dir, Looked(dir)')
  <2>1. Looked(dir) \in Int /\ Looked(dir)' \in Int
    BY <1>2, FactsBefore
  <2>2. QED
    BY <1>1, <1>2, <2>1, FactsBefore, KnownLater
<1>6. ASSUME ~split', ~info[dir].error, Sent(dir, "plain") = {}
      PROVE  ReadTo(info[dir], dir, Looked(dir)')
  <2>1. ~split
    BY <1>6 DEF history
  <2>2. ReadTo(info[dir], dir, Looked(dir)) /\ Looked(dir) \in Nat
    BY <1>6, <2>1, FactsBefore
  <2>3. \A k \in Looked(dir) + 1 .. Looked(dir)' : wire[dir][k].kind \notin Shown
    <3>1. PICK a, b, e \in Int : a = Looked(dir) /\ b = Looked(dir)' /\ e = Looked(dir) + n
      BY <1>2, <2>2
    <3>2. \A k \in a + 1 .. b : k \in a + 1 .. e
      BY <1>2, <3>1
    <3>3. QED
      BY <2>1, <3>1, <3>2
  <2>4. QED
    BY <1>2, <2>2, <2>3, ReadPast
<1>7. \A d \in Dirs : Known(info[d], d)' /\ AllRead(d)'
  <2>1. ~split' /\ ~info[dir].error /\ Sent(dir, "plain") = {} => ReadTo(info[dir], dir, Looked(dir)')
    BY <1>6
  <2>2. info[dir] \in HandshakeInfo
    BY FactsBefore
  <2>3. QED
    BY <1>4, <1>5, <2>1, <2>2, FactsKept DEF history
<1>8. QED
  BY <1>1, <1>2, <1>3, <1>4, <1>7, Assembled DEF TypeOK, history

(* A front part in the buffer is dropped: then a message was cut.          *)
LEMMA WaitStep ==
    ASSUME TlsInv, WaitForMore PROVE TlsInv'
<1>1. /\ dir \in Dirs /\ hs # <<>> /\ Head(hs).part = "front" /\ hs' = <<>>
      /\ UNCHANGED <<wire, dir, left, started, over, info, history>>
  BY DEF WaitForMore
<1>2. hs \in Seq(Piece) /\ Len(hs) \in Nat /\ Len(hs) # 0 /\ Len(hs) \in 1 .. Len(hs) /\ 1 \in 1 .. Len(hs)
  BY <1>1, Place DEF TlsInv, InPlace, Piece
<1>3. hs' = SubSeq(hs, Len(hs) + 1, Len(hs))
  BY <1>1, <1>2, SubSeqEmpty
<1>4. split
  <2>1. hs[1].part # "whole"
    BY <1>1, <1>2
  <2>2. QED
    BY <1>1, <1>2, <2>1 DEF TlsInv, Uncut
<1>5. QED
  BY <1>1, <1>2, <1>3, <1>4, PassedOver

(* Of whole messages, only what is sealed is misread.                       *)
LEMMA MisreadSealed ==
    ASSUME TlsInv, Misread, ~split, NEW n \in 1 .. Len(hs),
           NEW k \in Looked(dir) + 1 .. Looked(dir) + n
    PROVE  wire[dir][k].kind = "sealed" /\ k \in 1 .. Len(wire[dir])
<1>1. /\ dir \in Dirs /\ hs # <<>> /\ (Head(hs).part = "rest" \/ M.kind = "sealed") /\ TypeOK
  BY DEF Misread, TlsInv
<1>2. /\ hs \in Seq(Piece) /\ Len(hs) \in Nat /\ Len(hs) # 0 /\ 1 \in 1 .. Len(hs)
      /\ Head(hs).item = wire[dir][Looked(dir) + 1] /\ Looked(dir) \in Nat
      /\ Looked(dir) = Pos + Began - Len(hs) /\ Pos \in Nat /\ Began \in Nat
      /\ Pos + Began <= Len(wire[dir]) /\ Len(wire[dir]) \in Nat
  <2>1. InPlace /\ hs \in Seq(Piece)
    BY <1>1 DEF TlsInv, InPlace, Piece
  <2>2. Began \in Nat
    BY DEF Began
  <2>3. QED
    BY <1>1, <2>1, <2>2, Place
<1>3. \A l \in 1 .. Len(hs) : hs[l] \in Piece /\ hs[l].item = wire[dir][Looked(dir) + l]
  BY <1>1, <1>2, ElementOfSeq DEF TlsInv, InPlace
<1>4. wire[dir][Looked(dir) + 1].kind = "sealed"
  <2>1. hs[1].part = "whole"
    BY <1>1, <1>2 DEF TlsInv, Uncut
  <2>2. Head(hs) = hs[1]
    BY <1>2
  <2>3. M.kind = "sealed"
    BY <1>1, <2>1, <2>2
  <2>4. QED
    BY <1>2, <2>3 DEF M
<1>5. k \in Nat /\ k - Looked(dir) \in 1 .. Len(hs)
  <2>1. PICK a, l \in Nat : a = Looked(dir) /\ l = Len(hs)
    BY <1>2
  <2>2. k \in Nat /\ k - a \in 1 .. l
    BY <2>1
  <2>3. QED
    BY <2>1, <2>2
<1>6. wire[dir][k] \in Handshake
  <2>1. hs[k - Looked(dir)].item = wire[dir][Looked(dir) + (k - Looked(dir))]
    BY <1>3, <1>5
  <2>2. Looked(dir) + (k - Looked(dir)) = k
    BY <1>2, <1>5
  <2>3. QED
    BY <1>3, <1>5, <2>1, <2>2 DEF Piece
<1>7. k \in 1 .. Len(wire[dir]) /\ Looked(dir) + 1 \in 1 .. Len(wire[dir]) /\ k >= Looked(dir) + 1
  <2>1. PICK a, l, p, b, w \in Nat : /\ a = Looked(dir) /\ l = Len(hs) /\ p = Pos /\ b = Began
                                     /\ w = Len(wire[dir])
    BY <1>2
  <2>2. a = p + b - l /\ p + b <= w /\ k - a <= l /\ l >= 1 /\ k >= a + 1 /\ k \in Nat
    BY <1>2, <1>5, <2>1
  <2>3. k \in 1 .. w /\ a + 1 \in 1 .. w /\ k >= a + 1
    BY <2>2
  <2>4. QED
    BY <2>1, <2>3
<1>8. wire[dir][k].kind = "sealed"
  <2>1. CASE k = Looked(dir) + 1
    BY <1>4, <2>1
  <2>2. CASE Looked(dir) + 1 < k
    <3>1. wire \in Wires
      BY <1>1 DEF TypeOK
    <3>2. QED
      BY <1>1, <1>4, <1>6, <1>7, <2>2, <3>1, EncryptionAssumption
  <2>3. QED
    BY <1>2, <1>5, <1>7, <2>1, <2>2
<1>9. QED
  BY <1>7, <1>8

(* So what is misread holds nothing that the record of a session shows.    *)
LEMMA MisreadStep ==
    ASSUME TlsInv, Misread PROVE TlsInv'
<1>1. /\ dir \in Dirs /\ hs # <<>> /\ (Head(hs).part = "rest" \/ M.kind = "sealed")
      /\ UNCHANGED <<wire, dir, left, started, over, info, history>> /\ TypeOK
  BY DEF Misread, TlsInv
<1>2. PICK n \in 1 .. Len(hs) : hs' = SubSeq(hs, n + 1, Len(hs))
  BY DEF Misread
<1>3. /\ hs \in Seq(Piece) /\ Len(hs) \in Nat /\ Len(hs) # 0 /\ 1 \in 1 .. Len(hs)
      /\ Head(hs).item = wire[dir][Looked(dir) + 1] /\ Looked(dir) \in Nat
      /\ Looked(dir) = Pos + Began - Len(hs) /\ Pos \in Nat /\ Began \in Nat
      /\ Pos + Began <= Len(wire[dir]) /\ Len(wire[dir]) \in Nat
  <2>1. InPlace /\ hs \in Seq(Piece)
    BY <1>1 DEF TlsInv, InPlace, Piece
  <2>2. Began \in Nat
    BY DEF Began
  <2>3. QED
    BY <1>1, <2>1, <2>2, Place
<1>4. ASSUME ~split, NEW k \in Looked(dir) + 1 .. Looked(dir) + n
      PROVE  wire[dir][k].kind \notin Shown
  BY <1>4, MisreadSealed DEF Shown
<1>5. QED
  BY <1>1, <1>2, <1>3, <1>4, PassedOver

(* The end of a stream.                                                    *)
LEMMA EndStep ==
    ASSUME TlsInv, EndOfStream PROVE TlsInv'
<1> DEFINE i == info[dir]
           j == [i EXCEPT !.complete = @ /\ 40 \notin i.alerts]
<1>1. /\ dir \in Dirs /\ hs = <<>>
      /\ dir' = IF dir = "c2s" THEN "s2c" ELSE "merge"
      /\ left' = IF dir = "c2s" THEN wire.s2c ELSE <<>>
      /\ started' = FALSE /\ over' = FALSE
      /\ short' = (short \/ (~over /\ left # <<>>))
      /\ UNCHANGED <<wire, hs, sess, split>>
      /\ TypeOK /\ InPlace /\ Uncut
  BY DEF EndOfStream, TlsInv
<1>2. info' = [info EXCEPT ![dir] = j]
  <2>1. info' = [info EXCEPT ![dir].complete = @ /\ 40 \notin info[dir].alerts]
    BY DEF EndOfStream, I
  <2>2. QED
    BY <2>1
<1>3. i \in HandshakeInfo /\ info \in [Dirs -> HandshakeInfo]
  BY <1>1 DEF TypeOK
<1>4. j \in HandshakeInfo
  <2> HIDE DEF i
  <2>1. \A b \in BOOLEAN : [i EXCEPT !.complete = b] \in HandshakeInfo
    BY <1>3 DEF HandshakeInfo
  <2>2. j = [i EXCEPT !.complete = i.complete /\ 40 \notin i.alerts]
    BY <1>3 DEF HandshakeInfo
  <2> HIDE DEF j
  <2>3. (i.complete /\ 40 \notin i.alerts) \in BOOLEAN
    OBVIOUS
  <2>4. QED
    BY <2>1, <2>2, <2>3
<1>5. /\ j.hellos = i.hellos /\ j.renegotiation = i.renegotiation /\ j.cipher = i.cipher
      /\ j.chain = i.chain /\ j.ems = i.ems /\ j.ri = i.ri /\ j.tls13 = i.tls13
      /\ j.events = i.events /\ j.alerts = i.alerts /\ j.error = i.error /\ (j.complete => i.complete)
  BY <1>3 DEF HandshakeInfo
<1> HIDE DEF j
<1>6. info' \in [Dirs -> HandshakeInfo] /\ info'[dir] = j /\ \A d \in Dirs : d # dir => info'[d] = info[d]
  <2>1. info \in [Dirs -> HandshakeInfo] /\ dir \in Dirs
    BY <1>1, <1>3
  <2>2. QED
    BY <1>2, <1>4, <2>1
<1>7. \A d \in Dirs : \A k : Sent(d, k)' = Sent(d, k)
  BY <1>1 DEF Sent
<1>8. Looked(dir) \in 0 .. Len(wire[dir]) /\ Len(wire[dir]) \in Nat /\ (left = <<>> => Looked(dir) = Len(wire[dir]))
  <2>1. /\ Looked(dir) = Pos /\ Len(left) \in Nat /\ Pos \in Nat /\ Pos + Len(left) = Len(wire[dir])
        /\ (left = <<>> => Len(left) = 0) /\ Looked(dir) \in 0 .. Len(wire[dir]) /\ Len(wire[dir]) \in Nat
    BY <1>1, Place
  <2>2. QED
    BY <2>1
<1>9. ASSUME NEW d \in Dirs, d # dir PROVE Known(info[d], d)' /\ AllRead(d)'
  <2>1. info'[d] = info[d]
    BY <1>6, <1>9
  <2>2. Looked(d)' = Looked(d)
    <3>1. CASE dir = "c2s"
      <4>1. d = "s2c" /\ Looked(d) = 0
        BY <1>9, <3>1 DEF Looked, Dirs
      <4>2. Len(wire["s2c"]) \in Nat
        BY <1>1, WireTyped DEF Dirs
      <4>3. Looked(d)' = Len(wire.s2c) - Len(wire.s2c)
        BY <1>1, <3>1, <4>1 DEF Looked, Pos
      <4>4. QED
        BY <4>1, <4>2, <4>3
    <3>2. CASE dir = "s2c"
      BY <1>1, <1>9, <3>2 DEF Looked, Dirs
    <3>3. QED
      BY <1>1, <3>1, <3>2 DEF Dirs
  <2>3. Known(info[d], d) /\ AllRead(d)
    BY DEF TlsInv
  <2>4. Known(info[d], d)'
    BY <1>1, <2>1, <2>2, <2>3 DEF Known, HelloTwice, SuiteSent, ChainSent, EmsSent, RiSent,
       Answered, Sent
  <2>5. short => short' \/ dir # "c2s"
    BY <1>1
  <2>6. dir = "c2s" => ~short
    BY <1>1 DEF Uncut
  <2>7. AllRead(d)'
    <3>1. CASE dir = "c2s"
      BY <1>1, <1>7, <2>1, <2>2, <2>3, <2>6, <3>1 DEF AllRead
    <3>2. CASE dir = "s2c"
      <4>1. d # dir' /\ (short => short')
        BY <1>1, <1>9, <3>2 DEF Dirs
      <4>2. QED
        BY <1>1, <1>7, <2>1, <2>2, <2>3, <4>1 DEF AllRead
    <3>3. QED
      BY <1>1, <3>1, <3>2 DEF Dirs
  <2>8. QED
    BY <2>4, <2>7
<1>10. Looked(dir) \in Int
  BY <1>8
<1>11. ASSUME NEW d \in Dirs, d = dir PROVE Known(info[d], d)' /\ AllRead(d)'
  <2>1. Looked(d)' = Len(wire[dir]) /\ d # dir'
    BY <1>1, <1>11 DEF Looked, Dirs
  <2>2. KnownTo(i, dir, Len(wire[dir]))
    <3>1. KnownTo(i, dir, Looked(dir)) /\ Looked(dir) <= Len(wire[dir]) /\ Len(wire[dir]) \in Int
      BY <1>1, <1>8, FactsBefore
    <3>2. QED
      BY <1>1, <1>10, <3>1, KnownLater
  <2>3. KnownTo(j, dir, Len(wire[dir]))
    BY <1>5, <2>2 DEF KnownTo
  <2>4. Known(info[d], d)'
    BY <1>1, <1>6, <1>11, <2>1, <2>3, SMTT(30)
       DEF Known, KnownTo, HelloTwice, SuiteSent, ChainSent, EmsSent, RiSent, Answered, Sent
  <2>5. ASSUME ~split', ~info'[d].error, Sent(d, "plain")' = {}, ~short'
        PROVE  ReadTo(j, dir, Len(wire[dir]))
    <3>1. ~split /\ ~i.error /\ Sent(dir, "plain") = {}
      BY <1>1, <1>5, <1>6, <1>7, <1>11, <2>5
    <3>2. ~over
      BY <1>1, <3>1 DEF Uncut
    <3>3. Looked(dir) = Len(wire[dir])
      BY <1>1, <1>8, <2>5, <3>2
    <3>4. ReadTo(i, dir, Looked(dir))
      BY <1>1, <3>1, FactsBefore
    <3>5. QED
      BY <1>5, <3>3, <3>4 DEF ReadTo
  <2>6. AllRead(d)'
    BY <1>1, <1>6, <1>11, <2>1, <2>5 DEF AllRead, ReadTo
  <2>7. QED
    BY <2>4, <2>6
<1>12. InPlace'
  <2>1. CASE dir = "c2s"
    <3>1. /\ dir' = "s2c" /\ left' = wire["s2c"] /\ wire' = wire /\ hs' = <<>> /\ ~started'
          /\ wire["s2c"] \in Seq(Item) /\ Len(wire["s2c"]) \in Nat
      BY <1>1, <2>1, WireTyped DEF Dirs
    <3>2. Pos' = 0 /\ Began' = 0 /\ Len(hs') = 0
      BY <3>1 DEF Pos, Began
    <3>3. \A k \in 1 .. Len(left') : left'[k] = wire["s2c"][Pos' + k]
      BY <3>1, <3>2
    <3>4. \A k \in 1 .. Len(hs') : hs'[k].item = wire'[dir'][Pos' + Began' - Len(hs') + k]
      BY <3>2
    <3>5. hs' \in Seq([item : Handshake, part : {"whole", "front", "rest"}])
      BY <1>1 DEF InPlace
    <3>6. Len(hs') <= Pos' + Began' /\ Len(left') <= Len(wire["s2c"])
      BY <3>1, <3>2
    <3>7. QED
      BY <3>1, <3>3, <3>4, <3>5, <3>6 DEF InPlace
  <2>2. CASE dir = "s2c"
    BY <1>1, <2>2 DEF InPlace, Dirs
  <2>3. QED
    BY <1>1, <2>1, <2>2 DEF Dirs
<1>13. Uncut'
  <2>1. hs' = <<>> /\ Len(hs') = 0 /\ ~started' /\ ~over' /\ dir' # "c2s"
    BY <1>1
  <2>2. QED
    BY <2>1 DEF Uncut
<1>14. TypeOK'
  BY <1>1, <1>6 DEF TypeOK, Dirs
<1>15. NothingInvented' /\ ReportExact'
  BY <1>1 DEF NothingInvented, ReportExact
<1>16. \A d \in Dirs : Known(info[d], d)' /\ AllRead(d)'
  BY <1>9, <1>11
<1>17. QED
  BY <1>12, <1>13, <1>14, <1>15, <1>16 DEF TlsInv

(* The two halves of a concatenation.                                      *)
LEMMA Halves ==
    ASSUME NEW S, NEW a \in Seq(S), NEW b \in Seq(S)
    PROVE  /\ Len(a) \in 0 .. Len(a \o b)
           /\ SubSeq(a \o b, 1, Len(a)) = a
           /\ SubSeq(a \o b, Len(a) + 1, Len(a \o b)) = b
<1> DEFINE e == a \o b
           f == SubSeq(e, 1, Len(a))
           g == SubSeq(e, Len(a) + 1, Len(e))
<1>1. Len(a) \in Nat /\ Len(b) \in Nat
  BY LenProperties
<1>2. /\ e \in Seq(S) /\ Len(e) = Len(a) + Len(b)
      /\ \A k \in 1 .. Len(a) + Len(b) : e[k] = IF k <= Len(a) THEN a[k] ELSE b[k - Len(a)]
  BY ConcatProperties
<1> HIDE DEF e
<1>3. f \in Seq(S) /\ Len(f) = Len(a) /\ \A k \in 1 .. Len(a) : f[k] = e[k]
  <2>1. 1 \in Int /\ Len(a) \in Int /\ \A k \in 1 .. Len(a) : e[k] \in S
    BY <1>1, <1>2, ElementOfSeq
  <2>2. /\ f \in Seq(S) /\ Len(f) = IF 1 <= Len(a) THEN Len(a) - 1 + 1 ELSE 0
        /\ \A k \in 1 .. Len(a) - 1 + 1 : f[k] = e[1 + k - 1]
    BY <2>1, SubSeqProperties
  <2>3. QED
    BY <1>1, <2>2
<1>4. g \in Seq(S) /\ Len(g) = Len(b) /\ \A k \in 1 .. Len(b) : g[k] = e[Len(a) + k]
  <2>1. Len(a) + 1 \in Int /\ Len(e) \in Int
    BY <1>1, <1>2
  <2>2. \A k \in Len(a) + 1 .. Len(e) : e[k] \in S
    <3>1. \A k \in Len(a) + 1 .. Len(e) : k \in 1 .. Len(e)
      BY <1>1, <1>2
    <3>2. QED
      BY <1>2, <3>1, ElementOfSeq
  <2>3. /\ g \in Seq(S) /\ Len(g) = IF Len(a) + 1 <= Len(e) THEN Len(e) - (Len(a) + 1) + 1 ELSE 0
        /\ \A k \in 1 .. Len(e) - (Len(a) + 1) + 1 : g[k] = e[Len(a) + 1 + k - 1]
    BY <2>1, <2>2, SubSeqProperties
  <2>4. QED
    BY <1>1, <1>2, <2>3
<1> HIDE DEF f, g
<1>5. f = a
  <2>1. \A k \in 1 .. Len(a) : f[k] = a[k]
    BY <1>1, <1>2, <1>3
  <2>2. QED
    BY <1>3, <2>1, SeqEqual
<1>6. g = b
  <2>1. \A k \in 1 .. Len(b) : g[k] = b[k]
    <3>1. ASSUME NEW k \in 1 .. Len(b) PROVE g[k] = b[k]
      <4>1. Len(a) + k \in 1 .. Len(a) + Len(b) /\ ~(Len(a) + k <= Len(a)) /\ Len(a) + k - Len(a) = k
        BY <1>1
      <4>2. g[k] = e[Len(a) + k]
        BY <1>4
      <4>3. e[Len(a) + k] = b[Len(a) + k - Len(a)]
        BY <1>2, <4>1
      <4>4. QED
        BY <4>1, <4>2, <4>3
    <3>2. QED
      BY <3>1
  <2>2. QED
    BY <1>4, <2>1, SeqEqual
<1>7. QED
  BY <1>1, <1>2, <1>5, <1>6 DEF e, f, g

(* The two streams are merged.                                             *)
LEMMA MergeStep ==
    ASSUME TlsInv, MergeTls PROVE TlsInv'
<1> DEFINE c == info["c2s"]
           s == info["s2c"]
<1>1. /\ dir = "merge" /\ dir' = "done" /\ UNCHANGED <<wire, left, started, hs, over, info, history>> /\ TypeOK
  BY DEF MergeTls, TlsInv
<1>2. /\ sess'.cipher = (IF s.cipher # None THEN s.cipher ELSE c.cipher)
      /\ sess'.alerts = c.alerts \cup s.alerts /\ sess'.ems = (c.ems /\ s.ems) /\ sess'.ri = (c.ri /\ s.ri)
      /\ sess'.renegotiation = (c.renegotiation \/ s.renegotiation)
      /\ sess'.complete = (c.complete \/ s.complete) /\ sess'.error = (c.error \/ s.error)
      /\ sess'.events = c.events \o s.events
      /\ sess'.chain = IF s.chain # <<>> THEN s.chain ELSE c.chain
  BY DEF MergeTls
<1>3. c \in HandshakeInfo /\ s \in HandshakeInfo
  BY <1>1 DEF TypeOK, Dirs
<1>4. \A d \in Dirs : d # dir /\ d # dir' /\ Looked(d) = Len(wire[d]) /\ Looked(d)' = Len(wire[d])
  BY <1>1 DEF Looked, Dirs
<1>5. \A d \in Dirs : Known(info[d], d) /\ AllRead(d)
  BY DEF TlsInv
<1>6. \A d \in Dirs : \A k : Sent(d, k)' = Sent(d, k)
  BY <1>1 DEF Sent
<1>7. ASSUME NEW d \in Dirs PROVE Known(info[d], d)' /\ AllRead(d)'
  <2>0. Known(info[d], d) /\ AllRead(d) /\ Looked(d)' = Looked(d) /\ wire' = wire /\ info' = info
    BY <1>1, <1>4, <1>5
  <2>1. Known(info[d], d)'
    BY <2>0 DEF Known, HelloTwice, SuiteSent, ChainSent, EmsSent, RiSent, Answered, Sent
  <2>2. AllRead(d)'
    BY <1>1, <1>4, <1>6, <2>0 DEF AllRead, history
  <2>3. QED
    BY <2>1, <2>2
<1>8. TypeOK' /\ InPlace' /\ Uncut'
  BY <1>1 DEF TypeOK, InPlace, Uncut, Dirs, history
<1>9. NothingInvented'
  <2>1. "c2s" \in Dirs /\ "s2c" \in Dirs /\ \A d \in Dirs : d = "c2s" \/ d = "s2c"
    BY DEF Dirs
  <2>2. /\ SuiteSent(c.cipher, "c2s") /\ ChainSent(c.chain, "c2s")
        /\ (c.ems => EmsSent("c2s")) /\ (c.ri => RiSent("c2s"))
        /\ (c.complete => Answered("c2s")) /\ (c.renegotiation => HelloTwice("c2s"))
    BY <1>5, <2>1 DEF Known
  <2>3. /\ SuiteSent(s.cipher, "s2c") /\ ChainSent(s.chain, "s2c")
        /\ (s.ems => EmsSent("s2c")) /\ (s.ri => RiSent("s2c"))
        /\ (s.complete => Answered("s2c")) /\ (s.renegotiation => HelloTwice("s2c"))
    BY <1>5, <2>1 DEF Known
  <2> HIDE DEF c, s
  <2>4. /\ \E d \in Dirs : SuiteSent(sess'.cipher, d)
        /\ \E d \in Dirs : ChainSent(sess'.chain, d)
        /\ sess'.ems => \A d \in Dirs : EmsSent(d)
        /\ sess'.ri => \A d \in Dirs : RiSent(d)
        /\ sess'.complete => \E d \in Dirs : Answered(d)
        /\ sess'.renegotiation => \E d \in Dirs : HelloTwice(d)
    BY <1>2, <2>1, <2>2, <2>3
  <2>5. QED
    BY <1>1, <2>4 DEF NothingInvented, HelloTwice, SuiteSent, ChainSent, EmsSent, RiSent, Answered,
       Sent
<1>10. ReportExact'
  <2>1. ASSUME ~split', ~short', ~sess'.error, \A d \in Dirs : Sent(d, "plain")' = {}
        PROVE  /\ \E n \in 0 .. Len(sess'.events) :
                      /\ EventsRead(SubSeq(sess'.events, 1, n), wire.c2s, Len(wire.c2s))
                      /\ EventsRead(SubSeq(sess'.events, n + 1, Len(sess'.events)), wire.s2c, Len(wire.s2c))
               /\ Sent("s2c", "certificate") # {} => ChainsRead(sess'.chain, wire.s2c, Len(wire.s2c))
               /\ \A d \in Dirs : AlertsRead(sess'.alerts, wire[d], Len(wire[d]))
    <3>1. ASSUME NEW d \in Dirs PROVE ReadTo(info[d], d, Len(wire[d]))
      <4>1. ~split /\ ~short /\ Sent(d, "plain") = {}
        BY <1>1, <1>6, <2>1 DEF history
      <4>2. ~info[d].error
        BY <1>2, <2>1 DEF Dirs
      <4>3. QED
        BY <1>4, <1>5, <4>1, <4>2 DEF AllRead, ReadTo
    <3>2. ReadTo(c, "c2s", Len(wire.c2s)) /\ ReadTo(s, "s2c", Len(wire.s2c))
      BY <3>1 DEF Dirs
    <3> HIDE DEF c, s
    <3>3. /\ Len(c.events) \in 0 .. Len(sess'.events)
          /\ SubSeq(sess'.events, 1, Len(c.events)) = c.events
          /\ SubSeq(sess'.events, Len(c.events) + 1, Len(sess'.events)) = s.events
      <4>1. c.events \in Seq(Shown) /\ s.events \in Seq(Shown)
        BY <1>3, InfoFields
      <4>2. /\ Len(c.events) \in 0 .. Len(c.events \o s.events)
            /\ SubSeq(c.events \o s.events, 1, Len(c.events)) = c.events
            /\ SubSeq(c.events \o s.events, Len(c.events) + 1, Len(c.events \o s.events)) = s.events
        <5>1. PICK a \in Seq(Shown), b \in Seq(Shown) : a = c.events /\ b = s.events
          BY <4>1
        <5>2. /\ Len(a) \in 0 .. Len(a \o b)
              /\ SubSeq(a \o b, 1, Len(a)) = a
              /\ SubSeq(a \o b, Len(a) + 1, Len(a \o b)) = b
          BY Halves
        <5>3. QED
          BY <5>1, <5>2
      <4>3. QED
        BY <1>2, <4>2
    <3>4. \E n \in 0 .. Len(sess'.events) :
              /\ EventsRead(SubSeq(sess'.events, 1, n), wire.c2s, Len(wire.c2s))
              /\ EventsRead(SubSeq(sess'.events, n + 1, Len(sess'.events)), wire.s2c, Len(wire.s2c))
      BY <3>2, <3>3 DEF ReadTo
    <3>5. ASSUME Sent("s2c", "certificate") # {} PROVE ChainsRead(sess'.chain, wire.s2c, Len(wire.s2c))
      <4>1. PICK k \in 1 .. Len(wire.s2c) : wire.s2c[k].kind \in {"certificate"}
        BY <3>5 DEF Sent
      <4>2. Len(wire.s2c) \in Nat
        BY <1>1, WireTyped DEF Dirs
      <4>3. /\ Ordinal(wire.s2c, {"certificate"}, Len(wire.s2c)) \in Nat
            /\ Ordinal(wire.s2c, {"certificate"}, k) \in 1 .. Ordinal(wire.s2c, {"certificate"}, Len(wire.s2c))
        BY <4>1, <4>2, OrdinalNext, OrdinalWithin
      <4>4. Len(s.chain) = Ordinal(wire.s2c, {"certificate"}, Len(wire.s2c))
        BY <3>2 DEF ReadTo, ChainsRead
      <4>5. s.chain # <<>>
        <5>1. Len(s.chain) # 0
          BY <4>3, <4>4
        <5>2. s.chain \in Seq(Certs)
          BY <1>3, InfoFields
        <5>3. QED
          BY <5>1, <5>2, EmptySeq
      <4>6. QED
        BY <1>2, <3>2, <4>5 DEF ReadTo
    <3>6. ASSUME NEW d \in Dirs PROVE AlertsRead(sess'.alerts, wire[d], Len(wire[d]))
      <4>1. AlertsRead(c.alerts, wire["c2s"], Len(wire["c2s"])) /\ AlertsRead(s.alerts, wire["s2c"], Len(wire["s2c"]))
        BY <3>2 DEF ReadTo
      <4>2. d = "c2s" \/ d = "s2c"
        BY DEF Dirs
      <4>3. QED
        BY <1>2, <4>1, <4>2 DEF AlertsRead
    <3>7. QED
      BY <3>4, <3>5, <3>6
  <2>2. wire' = wire /\ Sent("s2c", "certificate")' = Sent("s2c", "certificate")
    BY <1>1, <1>6 DEF Dirs
  <2>3. QED
    BY <2>1, <2>2 DEF ReportExact
<1>11. QED
  BY <1>7, <1>8, <1>9, <1>10 DEF TlsInv

-----------------------------------------------------------------------------
(* At first nothing is known, and nothing looked at.                       *)
LEMMA InitInv ==
    ASSUME Init PROVE TlsInv
<1>1. /\ wire \in Wires /\ dir = "c2s" /\ left = wire["c2s"] /\ started = FALSE /\ hs = <<>> /\ over = FALSE
      /\ info = [d \in Dirs |-> NoInfo] /\ split = FALSE /\ short = FALSE
  BY DEF Init
<1>2. TypeOK
  <2>1. NoInfo \in HandshakeInfo
    <3>1. <<>> \in Seq(Certs) /\ <<>> \in Seq(Shown)
      BY EmptySeq
    <3>2. QED
      BY <3>1 DEF NoInfo, HandshakeInfo
  <2>2. QED
    BY <1>1, <2>1 DEF TypeOK, Dirs
<1>3. \A d \in Dirs : wire[d] \in Seq(Item) /\ Len(wire[d]) \in Nat
  BY <1>2, WireTyped
<1>4. Pos = 0 /\ Began = 0 /\ Len(hs) = 0
  BY <1>1, <1>3 DEF Pos, Began, Dirs
<1>5. InPlace
  <2>1. hs \in Seq([item : Handshake, part : {"whole", "front", "rest"}])
    BY <1>1, EmptySeq
  <2>2. left \in Seq(Item) /\ Len(left) <= Len(wire[dir])
    BY <1>1, <1>3 DEF Dirs
  <2>3. \A k \in 1 .. Len(left) : left[k] = wire[dir][Pos + k]
    BY <1>1, <1>4
  <2>4. QED
    BY <1>1, <1>4, <2>1, <2>2, <2>3 DEF InPlace
<1>6. Uncut
  BY <1>1, <1>4 DEF Uncut
<1>7. \A d \in Dirs : Looked(d) = 0 /\ info[d] = NoInfo
  BY <1>1, <1>4 DEF Looked
<1>8. \A d \in Dirs : Known(info[d], d)
  <2>1. /\ NoInfo.hellos = 0 /\ ~NoInfo.renegotiation /\ NoInfo.cipher = None /\ NoInfo.chain = <<>>
        /\ ~NoInfo.ems /\ ~NoInfo.ri /\ ~NoInfo.tls13 /\ ~NoInfo.complete
    BY DEF NoInfo
  <2>2. QED
    BY <1>7, <2>1 DEF Known, SuiteSent, ChainSent
<1>9. \A d \in Dirs : AllRead(d)
  <2>1. \A d \in Dirs : EventsRead(<<>>, wire[d], 0) /\ ChainsRead(<<>>, wire[d], 0) /\ AlertsRead({}, wire[d], 0)
    <3>1. ASSUME NEW d \in Dirs
          PROVE  EventsRead(<<>>, wire[d], 0) /\ ChainsRead(<<>>, wire[d], 0) /\ AlertsRead({}, wire[d], 0)
      <4>1. 0 \in Nat /\ Ordinal(wire[d], Shown, 0) = 0 /\ Ordinal(wire[d], {"certificate"}, 0) = 0
        BY OrdinalNext
      <4>2. QED
        BY <4>1 DEF EventsRead, ChainsRead, AlertsRead
    <3>2. QED
      BY <3>1
  <2>2. NoInfo.events = <<>> /\ NoInfo.chain = <<>> /\ NoInfo.alerts = {}
    BY DEF NoInfo
  <2>3. QED
    BY <1>7, <2>1, <2>2 DEF AllRead
<1>10. NothingInvented /\ ReportExact
  BY <1>1 DEF NothingInvented, ReportExact
<1>11. QED
  BY <1>2, <1>5, <1>6, <1>8, <1>9, <1>10 DEF TlsInv

(* A step that changes nothing keeps the invariant.                        *)
LEMMA StutterInv ==
    ASSUME TlsInv, UNCHANGED vars PROVE TlsInv'
<1>1. /\ UNCHANGED <<wire, dir, left, started, hs, over, info, sess, split, short>>
  BY DEF vars, history
<1>2. \A d : \A k : Sent(d, k)' = Sent(d, k)
  BY <1>1 DEF Sent
<1>3. \A d : Looked(d)' = Looked(d)
  BY <1>1 DEF Looked, Pos, Began
<1>4. TypeOK' /\ InPlace' /\ Uncut'
  BY <1>1, <1>2 DEF TlsInv, TypeOK, InPlace, Uncut, Pos, Began
<1>5. \A d \in Dirs : AllRead(d)'
  BY <1>1, <1>2, <1>3 DEF TlsInv, AllRead
<1>6. \A d \in Dirs : Known(info[d], d)'
  BY <1>1, <1>2, <1>3 DEF TlsInv, Known, HelloTwice, SuiteSent, ChainSent, EmsSent, RiSent, Answered
<1>7. NothingInvented'
  BY <1>1, <1>2 DEF TlsInv, NothingInvented, HelloTwice, SuiteSent, ChainSent, EmsSent, RiSent,
     Answered
<1>8. ReportExact'
  BY <1>1, <1>2 DEF TlsInv, ReportExact
<1>9. QED
  BY <1>4, <1>5, <1>6, <1>7, <1>8 DEF TlsInv

-----------------------------------------------------------------------------
(* The parser of the analysis, read unit by unit.                          *)
UnitByUnit(g, m, stream) ==
    g = [n \in 0 .. m |->
            IF n = 0 THEN Pipeline!NoInfo ELSE Pipeline!ReadUnit(g[n - 1], stream[n])]

(* There is such a reading for every length.                               *)
LEMMA UnitsAreRead ==
    ASSUME NEW stream, NEW m \in Nat
    PROVE  \E g : UnitByUnit(g, m, stream)
<1> DEFINE Bad == {k \in Nat : ~ \E g : UnitByUnit(g, k, stream)}
<1> SUFFICES ASSUME Bad # {} PROVE FALSE
  OBVIOUS
<1>1. PICK k \in Bad : \A l \in Bad : k <= l
  BY LeastNumber
<1>2. k # 0
  <2> DEFINE g == [n \in 0 .. 0 |-> Pipeline!NoInfo]
  <2>1. g = [n \in 0 .. 0 |->
                IF n = 0 THEN Pipeline!NoInfo ELSE Pipeline!ReadUnit(g[n - 1], stream[n])]
    OBVIOUS
  <2>2. UnitByUnit(g, 0, stream)
    BY <2>1 DEF UnitByUnit
  <2> QED
    BY <2>2
<1>3. PICK g : UnitByUnit(g, k - 1, stream)
  <2>1. k - 1 \in Nat /\ k - 1 \notin Bad
    BY <1>1, <1>2
  <2> QED
    BY <2>1
<1> DEFINE h == [n \in 0 .. k |->
                    IF n = k THEN Pipeline!ReadUnit(g[k - 1], stream[k]) ELSE g[n]]
<1>4. ASSUME NEW n \in 0 .. k
      PROVE  h[n] = IF n = 0 THEN Pipeline!NoInfo ELSE Pipeline!ReadUnit(h[n - 1], stream[n])
  <2>1. k \in Nat \ {0}
    BY <1>1, <1>2
  <2>2. CASE n = k
    <3>1. h[n] = Pipeline!ReadUnit(g[k - 1], stream[k]) /\ h[n - 1] = g[k - 1]
      BY <2>1, <2>2
    <3> QED
      BY <2>1, <2>2, <3>1
  <2>3. CASE n # k
    <3>1. n \in 0 .. k - 1 /\ h[n] = g[n] /\ (n # 0 => h[n - 1] = g[n - 1])
      BY <2>1, <2>3
    <3>2. g[n] = IF n = 0 THEN Pipeline!NoInfo ELSE Pipeline!ReadUnit(g[n - 1], stream[n])
      BY <1>3, <3>1 DEF UnitByUnit
    <3> QED
      BY <3>1, <3>2
  <2> QED
    BY <2>2, <2>3
<1>5. h = [n \in 0 .. k |-> h[n]]
  OBVIOUS
<1> HIDE DEF h
<1>6. UnitByUnit(h, k, stream)
  BY <1>4, <1>5 DEF UnitByUnit
<1> QED
  BY <1>1, <1>6

(* What is known after n units of a direction.                             *)
After(d, n) == Pipeline!Reader(Units(d))[n]

(* Each item of a direction is one unit to the parser of the analysis.     *)
LEMMA UnitAfterUnit ==
    ASSUME TypeOK, NEW d \in Dirs
    PROVE  /\ After(d, 0) = Pipeline!NoInfo
           /\ \A n \in 0 .. Len(wire[d]) - 1 :
                 After(d, n + 1) = Pipeline!ReadUnit(After(d, n), UnitOf(wire[d][n + 1]))
<1> DEFINE m == Len(wire[d])
           s == Units(d)
           info0 == CHOOSE g : UnitByUnit(g, m, s)
<1>1. m \in Nat /\ Len(s) = m /\ \A n \in 1 .. m : s[n] = UnitOf(wire[d][n])
  <2>1. m \in Nat
    BY WireTyped
  <2> QED
    BY <2>1 DEF Units
<1> HIDE DEF s, m
<1>2. UnitByUnit(info0, m, s)
  BY <1>1, UnitsAreRead
<1>3. Pipeline!Reader(s) = info0
  BY <1>1 DEF Pipeline!Reader, UnitByUnit
<1> HIDE DEF info0
<1>4. \A n \in 0 .. m :
         info0[n] = IF n = 0 THEN Pipeline!NoInfo ELSE Pipeline!ReadUnit(info0[n - 1], s[n])
  BY <1>2 DEF UnitByUnit
<1>5. info0[0] = Pipeline!NoInfo
  BY <1>1, <1>4
<1>6. ASSUME NEW n \in 0 .. m - 1 PROVE info0[n + 1] = Pipeline!ReadUnit(info0[n], UnitOf(wire[d][n + 1]))
  <2>1. n + 1 \in 1 .. m /\ n + 1 # 0 /\ n + 1 - 1 = n
    BY <1>1
  <2> QED
    BY <1>1, <1>4, <2>1
<1> QED
  BY <1>3, <1>5, <1>6 DEF After, s, m

(* A unit changes no more than the fields.                                 *)
LEMMA UnitKeepsFields ==
    ASSUME NEW f, NEW u
    PROVE  DOMAIN Pipeline!ReadUnit(f, u) = DOMAIN f
BY DEF Pipeline!ReadUnit

(* So at each place all fields are there, and after bytes that are no TLS  *)
(* nothing more is read.                                                   *)
LEMMA FieldsAfter ==
    ASSUME TypeOK, NEW d \in Dirs, NEW n \in 0 .. Len(wire[d])
    PROVE  DOMAIN After(d, n) = DOMAIN Pipeline!NoInfo
<1> DEFINE m == Len(wire[d])
           Bad == {k \in 0 .. m : DOMAIN After(d, k) # DOMAIN Pipeline!NoInfo}
<1>1. m \in Nat
  BY WireTyped
<1> SUFFICES ASSUME Bad # {} PROVE FALSE
  OBVIOUS
<1>2. PICK k \in Bad : \A l \in Bad : k <= l
  <2>1. Bad \in SUBSET Nat
    BY <1>1
  <2> QED
    BY <2>1, LeastNumber
<1>3. k # 0
  BY <1>2, UnitAfterUnit
<1>4. k - 1 \in 0 .. m - 1 /\ k - 1 \in 0 .. m /\ k - 1 \notin Bad /\ k - 1 + 1 = k
  BY <1>1, <1>2, <1>3
<1>5. After(d, k) = Pipeline!ReadUnit(After(d, k - 1), UnitOf(wire[d][k]))
  BY <1>4, UnitAfterUnit
<1>6. DOMAIN After(d, k - 1) = DOMAIN Pipeline!NoInfo
  BY <1>4
<1> QED
  BY <1>2, <1>5, <1>6, UnitKeepsFields

(* After bytes that are no TLS nothing more is read.                       *)
LEMMA NothingMoreRead ==
    ASSUME TypeOK, NEW d \in Dirs, NEW n \in 0 .. Len(wire[d]), After(d, n).over
    PROVE  After(d, Len(wire[d])) = After(d, n)
<1> DEFINE m == Len(wire[d])
           Bad == {k \in n .. m : After(d, k) # After(d, n)}
<1>1. m \in Nat /\ n \in Nat
  BY WireTyped
<1> SUFFICES ASSUME Bad # {} PROVE FALSE
  BY <1>1
<1>2. PICK k \in Bad : \A l \in Bad : k <= l
  <2>1. Bad \in SUBSET Nat
    BY <1>1
  <2> QED
    BY <2>1, LeastNumber
<1>3. k - 1 \in 0 .. m - 1 /\ k - 1 \in n .. m /\ k - 1 \notin Bad /\ k - 1 + 1 = k
  <2>1. k # n
    BY <1>2
  <2> QED
    BY <1>1, <1>2, <2>1
<1>4. After(d, k) = Pipeline!ReadUnit(After(d, k - 1), UnitOf(wire[d][k]))
  BY <1>3, UnitAfterUnit
<1>5. After(d, k - 1) = After(d, n)
  BY <1>3
<1>6. \A u : Pipeline!ReadUnit(After(d, n), u) = After(d, n)
  BY DEF Pipeline!ReadUnit
<1> QED
  BY <1>2, <1>4, <1>5, <1>6

-----------------------------------------------------------------------------
(* One item, read by both.                                                 *)

(* The two agree, and neither has left its loop.                           *)
Pace(i, f, d) == Agree(i, f, d) /\ i.complete = f.complete /\ f.over = FALSE /\ f.error = FALSE

Fields == DOMAIN Pipeline!NoInfo

(* An alert: what it says, or what its ciphertext is taken for.            *)
LEMMA PaceAlert ==
    ASSUME NEW d, NEW i \in HandshakeInfo, NEW f, DOMAIN f = Fields, Pace(i, f, d),
           NEW k \in 1 .. Len(wire[d]), wire[d][k] \in Item, wire[d][k].kind = "alert",
           NEW desc \in IF wire[d][k].sealed THEN AlertDescs ELSE {wire[d][k].desc}
    PROVE  Pace(Event([i EXCEPT !.alerts = @ \cup {desc}], "alert"),
                Pipeline!ReadUnit(f, UnitOf(wire[d][k])), d)
<1> DEFINE x == wire[d][k]
           u == UnitOf(x)
           g == Pipeline!ReadUnit(f, u)
           j == Event([i EXCEPT !.alerts = @ \cup {desc}], "alert")
<1>1. x.desc \in AlertDescs /\ x.sealed \in BOOLEAN
  BY ItemFields
<1>2. u = [kind |-> "alert", desc |-> x.desc]
  BY DEF UnitOf
<1>3. u.kind = "alert" /\ u.desc = x.desc
  BY <1>2
<1> HIDE DEF u
<1>4. g = [f EXCEPT !.alerts = @ \cup {x.desc}]
  BY <1>3 DEF Pipeline!ReadUnit, Pace
<1>5. /\ g.alerts = f.alerts \cup {x.desc}
      /\ g.hellos = f.hellos /\ g.offered_version = f.offered_version
      /\ g.resumption = f.resumption /\ g.ems = f.ems /\ g.ri = f.ri /\ g.version = f.version
      /\ g.suite = f.suite /\ g.tls13 = f.tls13 /\ g.chain = f.chain /\ g.error = f.error
      /\ g.complete = f.complete /\ g.over = f.over
  BY <1>4 DEF Fields, Pipeline!NoInfo
<1>6. desc \in AlertDescs
  BY <1>1
<1>7. /\ j.alerts = i.alerts \cup {desc}
      /\ j.hellos = i.hellos /\ j.renegotiation = i.renegotiation /\ j.offered = i.offered
      /\ j.sid = i.sid /\ j.resumption = i.resumption /\ j.ems = i.ems /\ j.ri = i.ri
      /\ j.version = i.version /\ j.cipher = i.cipher /\ j.tls13 = i.tls13 /\ j.chain = i.chain
      /\ j.complete = i.complete /\ j.error = i.error
  BY DEF Event, HandshakeInfo
<1> HIDE DEF g, j
<1>8. AlertsAgree(i.alerts, f.alerts, d)
  BY DEF Pace, Agree
<1>9. AlertsAgree(j.alerts, g.alerts, d)
  <2>1. x.sealed => x.desc \in SealedDescs(d)
    BY DEF SealedDescs, Sent
  <2>2. ~x.sealed => desc = x.desc
    BY DEF x
  <2> HIDE DEF x
  <2> QED
    BY <1>1, <1>5, <1>7, <1>8, <2>1, <2>2 DEF AlertsAgree
<1>10. Pace(j, g, d)
  BY <1>5, <1>7, <1>9 DEF Pace, Agree
<1> QED
  BY <1>10 DEF g, j, u, x

(* What the two add for a change_cipher_spec.                              *)
LEMMA PaceCcs ==
    ASSUME NEW d, NEW i \in HandshakeInfo, NEW f, DOMAIN f = Fields, Pace(i, f, d),
           NEW x, x.kind = "ccs"
    PROVE  Pace(Event([i EXCEPT !.complete = @ \/ (~i.tls13 /\ i.cipher # None)], "ccs"),
                Pipeline!ReadUnit(f, UnitOf(x)), d)
<1> DEFINE u == UnitOf(x)
           g == Pipeline!ReadUnit(f, u)
           b == i.complete \/ (~i.tls13 /\ i.cipher # None)
           c == f.complete \/ (~f.tls13 /\ f.suite # Pipeline!NoSuite)
           j == Event([i EXCEPT !.complete = @ \/ (~i.tls13 /\ i.cipher # None)], "ccs")
<1>1. u.kind = "ccs"
  BY DEF UnitOf
<1> HIDE DEF u
<1>2. g = [f EXCEPT !.complete = c]
  BY <1>1 DEF Pipeline!ReadUnit, Pace, Fields, Pipeline!NoInfo
<1>3. j = Event([i EXCEPT !.complete = b], "ccs")
  BY DEF HandshakeInfo
<1>4. b = c
  <2>1. f.complete = i.complete /\ f.tls13 = i.tls13 /\ f.suite = SuiteNo(i.cipher)
    BY DEF Pace, Agree
  <2>2. i.cipher \in Suites \cup {None} /\ i.complete \in BOOLEAN /\ i.tls13 \in BOOLEAN
    BY DEF HandshakeInfo
  <2>3. i.cipher # None <=> f.suite # Pipeline!NoSuite
    BY <2>1, <2>2, SuitesAssumption DEF SuiteNo, Pipeline!NoSuite
  <2> QED
    BY <2>1, <2>2, <2>3
<1> HIDE DEF b, c, g, j
<1>5. /\ g.alerts = f.alerts
      /\ g.hellos = f.hellos /\ g.offered_version = f.offered_version
      /\ g.resumption = f.resumption /\ g.ems = f.ems /\ g.ri = f.ri /\ g.version = f.version
      /\ g.suite = f.suite /\ g.tls13 = f.tls13 /\ g.chain = f.chain /\ g.error = f.error
      /\ g.complete = c /\ g.over = f.over
  BY <1>2 DEF Fields, Pipeline!NoInfo
<1>6. /\ j.alerts = i.alerts
      /\ j.hellos = i.hellos /\ j.renegotiation = i.renegotiation /\ j.offered = i.offered
      /\ j.sid = i.sid /\ j.resumption = i.resumption /\ j.ems = i.ems /\ j.ri = i.ri
      /\ j.version = i.version /\ j.cipher = i.cipher /\ j.tls13 = i.tls13 /\ j.chain = i.chain
      /\ j.complete = b /\ j.error = i.error
  BY <1>3 DEF Event, HandshakeInfo
<1>7. Pace(j, g, d)
  BY <1>4, <1>5, <1>6 DEF Pace, Agree
<1> QED
  BY <1>7 DEF g, j, u

(* Application data, and a finished.                                       *)
LEMMA PaceComplete ==
    ASSUME NEW d, NEW i \in HandshakeInfo, NEW f, DOMAIN f = Fields, Pace(i, f, d),
           NEW x, x.kind \in {"app", "finished"}, NEW b,
           b = IF x.kind = "app" THEN i.tls13 ELSE ~i.tls13
    PROVE  Pace([i EXCEPT !.complete = @ \/ b], Pipeline!ReadUnit(f, UnitOf(x)), d)
<1> DEFINE u == UnitOf(x)
           g == Pipeline!ReadUnit(f, u)
           a == i.complete \/ b
           c == f.complete \/ (IF x.kind = "app" THEN f.tls13 ELSE ~f.tls13)
           j == [i EXCEPT !.complete = @ \/ b]
<1>1. u.kind = x.kind
  BY DEF UnitOf
<1> HIDE DEF u
<1>2. g = [f EXCEPT !.complete = c]
  <2>1. CASE x.kind = "app"
    BY <1>1, <2>1 DEF Pipeline!ReadUnit, Pace, Fields, Pipeline!NoInfo
  <2>2. CASE x.kind = "finished"
    BY <1>1, <2>2 DEF Pipeline!ReadUnit, Pace, Fields, Pipeline!NoInfo
  <2> QED
    BY <2>1, <2>2
<1>3. j = [i EXCEPT !.complete = a]
  BY DEF HandshakeInfo
<1>4. a = c
  <2>1. f.complete = i.complete /\ f.tls13 = i.tls13
    BY DEF Pace, Agree
  <2> QED
    BY <2>1
<1> HIDE DEF a, c, g, j
<1>5. /\ g.alerts = f.alerts
      /\ g.hellos = f.hellos /\ g.offered_version = f.offered_version
      /\ g.resumption = f.resumption /\ g.ems = f.ems /\ g.ri = f.ri /\ g.version = f.version
      /\ g.suite = f.suite /\ g.tls13 = f.tls13 /\ g.chain = f.chain /\ g.error = f.error
      /\ g.complete = c /\ g.over = f.over
  BY <1>2 DEF Fields, Pipeline!NoInfo
<1>6. /\ j.alerts = i.alerts
      /\ j.hellos = i.hellos /\ j.renegotiation = i.renegotiation /\ j.offered = i.offered
      /\ j.sid = i.sid /\ j.resumption = i.resumption /\ j.ems = i.ems /\ j.ri = i.ri
      /\ j.version = i.version /\ j.cipher = i.cipher /\ j.tls13 = i.tls13 /\ j.chain = i.chain
      /\ j.complete = a /\ j.error = i.error
  BY <1>3 DEF HandshakeInfo
<1>7. Pace(j, g, d)
  BY <1>4, <1>5, <1>6 DEF Pace, Agree
<1> QED
  BY <1>7 DEF g, j, u

(* A certificate is read unless the version is 1.3.                        *)
LEMMA PaceCertificate ==
    ASSUME NEW d, NEW i \in HandshakeInfo, NEW f, DOMAIN f = Fields, Pace(i, f, d),
           NEW x \in Item, x.kind = "certificate"
    PROVE  Pace(IF i.tls13 THEN i ELSE Event([i EXCEPT !.chain = Append(@, x.chain)], "certificate"),
                Pipeline!ReadUnit(f, UnitOf(x)), d)
<1> DEFINE u == UnitOf(x)
           g == Pipeline!ReadUnit(f, u)
           j == Event([i EXCEPT !.chain = Append(@, x.chain)], "certificate")
<1>1. u = [kind |-> "certificate", chain |-> <<x.chain>>]
  BY DEF UnitOf
<1>2. u.kind = "certificate" /\ u.chain = <<x.chain>>
  BY <1>1
<1> HIDE DEF u
<1>3. f.tls13 = i.tls13 /\ i.tls13 \in BOOLEAN /\ f.chain = i.chain /\ f.over = FALSE
  BY DEF Pace, Agree, HandshakeInfo
<1>4. CASE i.tls13
  <2>1. g = f
    BY <1>2, <1>3, <1>4 DEF Pipeline!ReadUnit
  <2> QED
    BY <1>4, <2>1 DEF u
<1>5. CASE ~i.tls13
  <2>1. g = [f EXCEPT !.chain = @ \o <<x.chain>>]
    BY <1>2, <1>3, <1>5 DEF Pipeline!ReadUnit
  <2>2. /\ g.alerts = f.alerts
        /\ g.hellos = f.hellos /\ g.offered_version = f.offered_version
        /\ g.resumption = f.resumption /\ g.ems = f.ems /\ g.ri = f.ri /\ g.version = f.version
        /\ g.suite = f.suite /\ g.tls13 = f.tls13 /\ g.chain = f.chain \o <<x.chain>>
        /\ g.error = f.error /\ g.complete = f.complete /\ g.over = f.over
    BY <2>1 DEF Fields, Pipeline!NoInfo
  <2>3. /\ j.alerts = i.alerts
        /\ j.hellos = i.hellos /\ j.renegotiation = i.renegotiation /\ j.offered = i.offered
        /\ j.sid = i.sid /\ j.resumption = i.resumption /\ j.ems = i.ems /\ j.ri = i.ri
        /\ j.version = i.version /\ j.cipher = i.cipher /\ j.tls13 = i.tls13
        /\ j.chain = Append(i.chain, x.chain) /\ j.complete = i.complete /\ j.error = i.error
    BY DEF Event, HandshakeInfo
  <2>4. Append(i.chain, x.chain) = i.chain \o <<x.chain>>
    <3>1. i.chain \in Seq(Certs) /\ x.chain \in Certs
      BY InfoFields, ItemFields
    <3> QED
      BY <3>1, AppendIsConcat
  <2> HIDE DEF g, j
  <2>5. Pace(j, g, d)
    BY <1>3, <2>2, <2>3, <2>4 DEF Pace, Agree
  <2> QED
    BY <1>5, <2>5 DEF g, j, u
<1> QED
  BY <1>4, <1>5

(* A key exchange is an event; its group is not compared.                  *)
LEMMA PaceKeyExchange ==
    ASSUME NEW d, NEW i \in HandshakeInfo, NEW f, DOMAIN f = Fields, Pace(i, f, d),
           NEW x, x.kind \in {"server_key_exchange", "client_key_exchange"}, NEW e
    PROVE  Pace(Event(i, e), Pipeline!ReadUnit(f, UnitOf(x)), d)
<1> DEFINE u == UnitOf(x)
           g == Pipeline!ReadUnit(f, u)
           j == Event(i, e)
<1>1. u.kind = x.kind
  <2>1. CASE x.kind = "server_key_exchange"
    BY <2>1 DEF UnitOf
  <2>2. CASE x.kind = "client_key_exchange"
    BY <2>2 DEF UnitOf
  <2> QED
    BY <2>1, <2>2
<1> HIDE DEF u
<1>2. g = f \/ g = [f EXCEPT !.group = u.group]
  BY <1>1 DEF Pipeline!ReadUnit
<1> HIDE DEF g
<1>3. /\ g.alerts = f.alerts
      /\ g.hellos = f.hellos /\ g.offered_version = f.offered_version
      /\ g.resumption = f.resumption /\ g.ems = f.ems /\ g.ri = f.ri /\ g.version = f.version
      /\ g.suite = f.suite /\ g.tls13 = f.tls13 /\ g.chain = f.chain /\ g.error = f.error
      /\ g.complete = f.complete /\ g.over = f.over
  BY <1>2 DEF Fields, Pipeline!NoInfo
<1>4. /\ j.alerts = i.alerts
      /\ j.hellos = i.hellos /\ j.renegotiation = i.renegotiation /\ j.offered = i.offered
      /\ j.sid = i.sid /\ j.resumption = i.resumption /\ j.ems = i.ems /\ j.ri = i.ri
      /\ j.version = i.version /\ j.cipher = i.cipher /\ j.tls13 = i.tls13 /\ j.chain = i.chain
      /\ j.complete = i.complete /\ j.error = i.error
  BY DEF Event, HandshakeInfo
<1> HIDE DEF j
<1>5. Pace(j, g, d)
  BY <1>3, <1>4 DEF Pace, Agree
<1> QED
  BY <1>5 DEF g, j, u

(* What neither knows.                                                     *)
LEMMA PaceOther ==
    ASSUME NEW d, NEW i, NEW f, Pace(i, f, d), NEW x, x.kind \in {"other", "sealed"}
    PROVE  Pipeline!ReadUnit(f, UnitOf(x)) = f
<1>1. UnitOf(x).kind = x.kind
  <2>1. CASE x.kind = "other"
    BY <2>1 DEF UnitOf
  <2>2. CASE x.kind = "sealed"
    BY <2>2 DEF UnitOf
  <2> QED
    BY <2>1, <2>2
<1> QED
  BY <1>1 DEF Pipeline!ReadUnit, Pace

(* A client hello whose extensions are there.                              *)
LEMMA PaceClientHello ==
    ASSUME NEW d, NEW i \in HandshakeInfo, NEW f, DOMAIN f = Fields, Pace(i, f, d),
           NEW x \in Item, x.kind = "client_hello", Sent(d, "client_hello") # {}
    PROVE  LET h == [i EXCEPT !.hellos = @ + 1,
                         !.renegotiation = @ \/ i.hellos > 0,
                         !.offered = x.version,
                         !.sid = x.sid,
                         !.resumption = @ \/ x.sid # None]
           IN  Pace(Event([h EXCEPT !.ems = @ \/ x.ems, !.ri = @ \/ x.ri], "client_hello"),
                    Pipeline!ReadUnit(f, UnitOf(x)), d)
<1> DEFINE u == UnitOf(x)
           g == Pipeline!ReadUnit(f, u)
           h == [i EXCEPT !.hellos = @ + 1,
                         !.renegotiation = @ \/ i.hellos > 0,
                         !.offered = x.version,
                         !.sid = x.sid,
                         !.resumption = @ \/ x.sid # None]
           j == Event([h EXCEPT !.ems = @ \/ x.ems, !.ri = @ \/ x.ri], "client_hello")
           s == x.sid # None
<1>1. u = [kind |-> "client_hello", version |-> Number(x.version), suites |-> {},
           sni |-> Pipeline!NoHost, sid |-> s, ems |-> x.ems, ri |-> x.ri]
  BY DEF UnitOf
<1> HIDE DEF s
<1>2. /\ u.kind = "client_hello" /\ u.version = Number(x.version) /\ u.sid = s
      /\ u.ems = x.ems /\ u.ri = x.ri
  BY <1>1
<1> HIDE DEF u
<1>3. g = [f EXCEPT !.hellos = @ + 1, !.offered_version = u.version, !.offered = @ \cup u.suites,
                    !.sni = IF u.sni = Pipeline!NoHost THEN @ ELSE u.sni,
                    !.resumption = @ \/ u.sid, !.ems = @ \/ u.ems, !.ri = @ \/ u.ri]
  BY <1>2 DEF Pipeline!ReadUnit, Pace
<1>4. /\ g.hellos = f.hellos + 1 /\ g.offered_version = u.version
      /\ g.resumption = (f.resumption \/ u.sid) /\ g.ems = (f.ems \/ u.ems) /\ g.ri = (f.ri \/ u.ri)
  BY <1>3 DEF Fields, Pipeline!NoInfo
<1>5. /\ g.alerts = f.alerts /\ g.version = f.version /\ g.suite = f.suite /\ g.tls13 = f.tls13
      /\ g.chain = f.chain /\ g.error = f.error /\ g.complete = f.complete /\ g.over = f.over
  BY <1>3 DEF Fields, Pipeline!NoInfo
<1>6. /\ h.hellos = i.hellos + 1 /\ h.renegotiation = (i.renegotiation \/ i.hellos > 0)
      /\ h.offered = x.version /\ h.sid = x.sid /\ h.resumption = (i.resumption \/ s)
      /\ h.ems = i.ems /\ h.ri = i.ri
      /\ h.alerts = i.alerts /\ h.version = i.version /\ h.cipher = i.cipher /\ h.tls13 = i.tls13
      /\ h.chain = i.chain /\ h.complete = i.complete /\ h.error = i.error
      /\ DOMAIN h = DOMAIN i
  BY DEF HandshakeInfo, s
<1> HIDE DEF h
<1>7. /\ j.ems = (h.ems \/ x.ems) /\ j.ri = (h.ri \/ x.ri)
      /\ j.hellos = h.hellos /\ j.renegotiation = h.renegotiation /\ j.offered = h.offered
      /\ j.sid = h.sid /\ j.resumption = h.resumption
      /\ j.alerts = h.alerts /\ j.version = h.version /\ j.cipher = h.cipher /\ j.tls13 = h.tls13
      /\ j.chain = h.chain /\ j.complete = h.complete /\ j.error = h.error
  BY <1>6 DEF Event, HandshakeInfo
<1> HIDE DEF g, j
<1>8. /\ f.hellos = i.hellos /\ i.renegotiation = (i.hellos > 1) /\ f.resumption = i.resumption
      /\ f.ems = i.ems /\ f.ri = i.ri /\ i.hellos \in Nat
  BY InfoFields DEF Pace, Agree
<1>9. j.hellos = g.hellos /\ j.renegotiation = (j.hellos > 1)
  <2>1. PICK n \in Nat : n = i.hellos
    BY <1>8
  <2> DEFINE a == n > 0
             b == n > 1
             c == n + 1 > 1
  <2>2. c = (b \/ a)
    BY <2>1
  <2>3. i.renegotiation = b /\ h.renegotiation = (i.renegotiation \/ a) /\ (h.hellos > 1) = c
    BY <1>6, <1>8, <2>1
  <2> HIDE DEF a, b, c
  <2>4. h.renegotiation = (h.hellos > 1)
    BY <2>2, <2>3
  <2> QED
    BY <1>4, <1>6, <1>7, <1>8, <2>4
<1>10. g.resumption = j.resumption /\ g.ems = j.ems /\ g.ri = j.ri
  BY <1>2, <1>4, <1>6, <1>7, <1>8
<1>11. g.offered_version = Number(j.offered)
  BY <1>2, <1>4, <1>6, <1>7
<1>12. Pace(j, g, d)
  BY <1>5, <1>6, <1>7, <1>9, <1>10, <1>11 DEF Pace, Agree
<1> QED
  BY <1>12 DEF g, j, u, h

(* A server hello in a stream without client hellos, so that there is no   *)
(* session id to compare with.                                             *)
LEMMA PaceServerHello ==
    ASSUME NEW d, NEW i \in HandshakeInfo, NEW f, DOMAIN f = Fields, Pace(i, f, d),
           NEW x \in Item, x.kind = "server_hello", Sent(d, "client_hello") = {}
    PROVE  LET h == [i EXCEPT !.resumption = CASE x.sid # None /\ x.sid = i.sid -> TRUE
                                          [] x.sid = None /\ i.sid # None -> FALSE
                                          [] OTHER -> @,
                         !.cipher = x.cipher,
                         !.version = x.version,
                         !.tls13 = @ \/ x.version = "1.3"]
           IN  Pace(Event([h EXCEPT !.ems = @ \/ x.ems, !.ri = @ \/ x.ri], "server_hello"),
                    Pipeline!ReadUnit(f, UnitOf(x)), d)
<1> DEFINE u == UnitOf(x)
           g == Pipeline!ReadUnit(f, u)
           h == [i EXCEPT !.resumption = CASE x.sid # None /\ x.sid = i.sid -> TRUE
                                          [] x.sid = None /\ i.sid # None -> FALSE
                                          [] OTHER -> @,
                         !.cipher = x.cipher,
                         !.version = x.version,
                         !.tls13 = @ \/ x.version = "1.3"]
           j == Event([h EXCEPT !.ems = @ \/ x.ems, !.ri = @ \/ x.ri], "server_hello")
           t == x.version = "1.3"
           v == u.version = \h0304
<1>0. i.sid = None
  BY DEF Pace, Agree
<1>1. u = [kind |-> "server_hello", version |-> Number(x.version), suite |-> SuiteNo(x.cipher),
           group |-> 0, ems |-> x.ems, ri |-> x.ri]
  BY DEF UnitOf
<1>2. /\ u.kind = "server_hello" /\ u.version = Number(x.version) /\ u.suite = SuiteNo(x.cipher)
      /\ u.ems = x.ems /\ u.ri = x.ri
  BY <1>1
<1> HIDE DEF u
<1>3. v = t
  <2>1. x.version \in Versions
    BY ItemFields
  <2> QED
    BY <1>2, <2>1 DEF Number, Versions
<1>4. g = [f EXCEPT !.version = u.version, !.suite = u.suite, !.tls13 = @ \/ v,
                    !.group = IF u.group = 0 THEN @ ELSE u.group,
                    !.ems = @ \/ u.ems, !.ri = @ \/ u.ri]
  BY <1>2 DEF Pipeline!ReadUnit, Pace
<1> HIDE DEF v
<1>5. /\ g.version = u.version /\ g.suite = u.suite
      /\ g.tls13 = (f.tls13 \/ v) /\ g.ems = (f.ems \/ u.ems) /\ g.ri = (f.ri \/ u.ri)
  BY <1>4 DEF Fields, Pipeline!NoInfo
<1>6. /\ g.alerts = f.alerts /\ g.hellos = f.hellos /\ g.offered_version = f.offered_version
      /\ g.resumption = f.resumption /\ g.chain = f.chain /\ g.error = f.error
      /\ g.complete = f.complete /\ g.over = f.over
  BY <1>4 DEF Fields, Pipeline!NoInfo
<1>7. h = [i EXCEPT !.resumption = i.resumption, !.cipher = x.cipher, !.version = x.version,
                    !.tls13 = @ \/ t]
  BY <1>0 DEF HandshakeInfo
<1> HIDE DEF h, t
<1>8. /\ h.hellos = i.hellos /\ h.renegotiation = i.renegotiation
      /\ h.offered = i.offered /\ h.sid = i.sid /\ h.resumption = i.resumption
      /\ h.ems = i.ems /\ h.ri = i.ri
      /\ h.alerts = i.alerts /\ h.version = x.version /\ h.cipher = x.cipher
      /\ h.tls13 = (i.tls13 \/ t)
      /\ h.chain = i.chain /\ h.complete = i.complete /\ h.error = i.error
      /\ DOMAIN h = DOMAIN i
  BY <1>7 DEF HandshakeInfo
<1>9. /\ j.ems = (h.ems \/ x.ems) /\ j.ri = (h.ri \/ x.ri)
      /\ j.hellos = h.hellos /\ j.renegotiation = h.renegotiation /\ j.offered = h.offered
      /\ j.sid = h.sid /\ j.resumption = h.resumption
      /\ j.alerts = h.alerts /\ j.version = h.version /\ j.cipher = h.cipher /\ j.tls13 = h.tls13
      /\ j.chain = h.chain /\ j.complete = h.complete /\ j.error = h.error
  BY <1>8 DEF Event, HandshakeInfo
<1> HIDE DEF g, j
<1>10. f.tls13 = i.tls13 /\ f.ems = i.ems /\ f.ri = i.ri
  BY DEF Pace, Agree
<1>11. g.tls13 = j.tls13 /\ g.ems = j.ems /\ g.ri = j.ri
  BY <1>2, <1>3, <1>5, <1>8, <1>9, <1>10
<1>12. g.version = Number(j.version) /\ g.suite = SuiteNo(j.cipher)
  BY <1>2, <1>5, <1>8, <1>9
<1>13. Pace(j, g, d)
  BY <1>6, <1>8, <1>9, <1>11, <1>12 DEF Pace, Agree
<1> QED
  BY <1>13 DEF g, j, u, h

(* Bytes that are no TLS: the loops are left, and not without an error     *)
(* unless the handshake is complete.                                       *)
LEMMA AgreeAtPlain ==
    ASSUME NEW d, NEW i \in HandshakeInfo, NEW f, DOMAIN f = Fields, Pace(i, f, d),
           NEW x, x.kind = "plain"
    PROVE  LET j == [i EXCEPT !.error = @ \/ ~i.complete]
               g == Pipeline!ReadUnit(f, UnitOf(x))
           IN  Agree(j, g, d) /\ j.complete = g.complete /\ g.over = TRUE
<1> DEFINE u == UnitOf(x)
           g == Pipeline!ReadUnit(f, u)
           j == [i EXCEPT !.error = @ \/ ~i.complete]
           e == ~f.complete
           b == i.error \/ ~i.complete
<1>1. u.kind = "line"
  BY DEF UnitOf
<1> HIDE DEF u
<1>2. g = [f EXCEPT !.error = e, !.over = TRUE]
  BY <1>1 DEF Pipeline!ReadUnit, Pace
<1>3. j = [i EXCEPT !.error = b]
  BY DEF HandshakeInfo
<1>4. b = e
  <2>1. f.error = i.error /\ f.error = FALSE /\ i.complete = f.complete
    BY DEF Pace, Agree
  <2> QED
    BY <2>1
<1> HIDE DEF b, e, g, j
<1>5. /\ g.alerts = f.alerts
      /\ g.hellos = f.hellos /\ g.offered_version = f.offered_version
      /\ g.resumption = f.resumption /\ g.ems = f.ems /\ g.ri = f.ri /\ g.version = f.version
      /\ g.suite = f.suite /\ g.tls13 = f.tls13 /\ g.chain = f.chain /\ g.error = e
      /\ g.complete = f.complete /\ g.over = TRUE
  BY <1>2 DEF Fields, Pipeline!NoInfo
<1>6. /\ j.alerts = i.alerts
      /\ j.hellos = i.hellos /\ j.renegotiation = i.renegotiation /\ j.offered = i.offered
      /\ j.sid = i.sid /\ j.resumption = i.resumption /\ j.ems = i.ems /\ j.ri = i.ri
      /\ j.version = i.version /\ j.cipher = i.cipher /\ j.tls13 = i.tls13 /\ j.chain = i.chain
      /\ j.complete = i.complete /\ j.error = b
  BY <1>3 DEF HandshakeInfo
<1>7. Agree(j, g, d) /\ j.complete = g.complete /\ g.over = TRUE
  BY <1>4, <1>5, <1>6 DEF Pace, Agree
<1> QED
  BY <1>7 DEF g, j, u

-----------------------------------------------------------------------------
(* The two after each step of the parser.                                  *)

(* The stream that is being read, while its loop runs.                     *)
LEMMA PaceAt ==
    ASSUME TlsInv, KeepsPace, dir \in Dirs, ~over, ~split, ~short, Ordinary(dir)
    PROVE  /\ Pace(info[dir], After(dir, Looked(dir)), dir)
           /\ DOMAIN After(dir, Looked(dir)) = Fields /\ Looked(dir) \in 0 .. Len(wire[dir])
<1>1. TypeOK /\ InPlace
  BY DEF TlsInv
<1>2. Looked(dir) \in 0 .. Len(wire[dir])
  BY <1>1, Place
<1>3. DOMAIN After(dir, Looked(dir)) = Fields
  BY <1>1, <1>2, FieldsAfter DEF Fields
<1>4. UnitsRead(dir) = Looked(dir)
  BY DEF UnitsRead
<1>5. Keeps(dir)
  BY DEF KeepsPace
<1> DEFINE f == After(dir, Looked(dir))
<1>6. Agree(info[dir], f, dir) /\ info[dir].complete = f.complete /\ f.over = over /\ ~f.error
  BY <1>4, <1>5 DEF Keeps, After
<1>7. over \in BOOLEAN /\ info[dir].error \in BOOLEAN /\ f.error = info[dir].error
  BY <1>1, <1>6, InfoFields DEF TypeOK, Agree
<1> HIDE DEF f
<1>8. Pace(info[dir], f, dir)
  BY <1>6, <1>7 DEF Pace
<1> QED
  BY <1>2, <1>3, <1>8 DEF f

(* What a direction sent does not change.                                  *)
LEMMA SameWire ==
    ASSUME wire' = wire, NEW d
    PROVE  /\ Ordinary(d)' = Ordinary(d) /\ Units(d)' = Units(d)
           /\ \A i, f : Agree(i, f, d) => Agree(i, f, d)'
           /\ \A n : After(d, n)' = After(d, n)
<1>1. \A k : Sent(d, k)' = Sent(d, k)
  BY DEF Sent
<1>2. SealedDescs(d)' = SealedDescs(d)
  BY <1>1 DEF SealedDescs
<1>3. Ordinary(d)' = Ordinary(d)
  BY <1>1 DEF Ordinary
<1>4. Units(d)' = Units(d)
  BY DEF Units
<1>5. ASSUME NEW i, NEW f, Agree(i, f, d) PROVE Agree(i, f, d)'
  <2>1. AlertsAgree(i.alerts, f.alerts, d)'
    BY <1>2, <1>5 DEF Agree, AlertsAgree
  <2> QED
    BY <1>1, <1>5, <2>1 DEF Agree
<1>6. \A n : After(d, n)' = After(d, n)
  BY <1>4 DEF After
<1> QED
  BY <1>3, <1>4, <1>5, <1>6

(* A stream that is not touched keeps pace.                                *)
LEMMA SameKeeps ==
    ASSUME wire' = wire, NEW d, Keeps(d), info'[d] = info[d], Looked(d)' = Looked(d),
           dir' = d <=> dir = d, dir = d => over' = over
    PROVE  Keeps(d)'
<1>1. UnitsRead(d)' = UnitsRead(d)
  BY DEF UnitsRead
<1> DEFINE f == After(d, UnitsRead(d))
<1>2. f' = f
  BY <1>1, SameWire
<1>3. /\ UnitsRead(d) <= Len(wire[d]) /\ Agree(info[d], f, d)
      /\ d = dir => info[d].complete = f.complete /\ f.over = over /\ (over \/ ~f.error)
      /\ d # dir => info[d].complete = (f.complete /\ 40 \notin info[d].alerts)
  BY DEF Keeps, After
<1> HIDE DEF f
<1>4. Agree(info[d], f, d)'
  <2>1. Agree(info[d], f, d)
    BY <1>3
  <2>2. PICK i, g : i = info[d] /\ g = f
    OBVIOUS
  <2>3. Agree(i, g, d)'
    BY <2>1, <2>2, SameWire
  <2> QED
    BY <1>2, <2>2, <2>3 DEF Agree, AlertsAgree
<1>5. /\ UnitsRead(d)' <= Len(wire'[d])
      /\ d = dir' => info'[d].complete = f'.complete /\ f'.over = over' /\ (over' \/ ~f'.error)
      /\ d # dir' => info'[d].complete = (f'.complete /\ 40 \notin info'[d].alerts)
  BY <1>1, <1>2, <1>3
<1> QED
  BY <1>4, <1>5 DEF Keeps, f, After

(* One item is taken by both.                                              *)
LEMMA PaceKept ==
    ASSUME TlsInv, KeepsPace, dir \in Dirs, UNCHANGED <<wire, dir, over, history>>, ~over,
           Looked(dir)' = Looked(dir) + 1, Looked(dir) + 1 \in 1 .. Len(wire[dir]),
           NEW j, info' = [info EXCEPT ![dir] = j],
           ~split /\ ~short /\ Ordinary(dir) =>
               Pace(j, Pipeline!ReadUnit(After(dir, Looked(dir)),
                                         UnitOf(wire[dir][Looked(dir) + 1])), dir)
    PROVE  KeepsPace'
<1>1. TypeOK /\ info \in [Dirs -> HandshakeInfo]
  BY DEF TlsInv, TypeOK
<1>2. info'[dir] = j /\ \A d \in Dirs : d # dir => info'[d] = info[d]
  BY <1>1
<1>3. ASSUME ~split', ~short', NEW d \in Dirs, Ordinary(d)' PROVE Keeps(d)'
  <2>1. ~split /\ ~short /\ Ordinary(d)
    BY <1>3, SameWire DEF history
  <2>2. CASE d # dir
    <3>1. Keeps(d) /\ info'[d] = info[d] /\ Looked(d)' = Looked(d)
      BY <1>2, <2>1, <2>2, OtherStream DEF KeepsPace
    <3> QED
      BY <2>2, <3>1, SameKeeps
  <2>3. CASE d = dir
    <3> DEFINE n == Looked(dir)
    <3>1. n \in 0 .. Len(wire[dir]) - 1
      <4>1. Len(wire[dir]) \in Nat /\ n \in Int
        BY <1>1, <2>1, <2>3, WireTyped, PaceAt
      <4> QED
        BY <4>1
    <3>2. PICK g : g = After(dir, n + 1)
      OBVIOUS
    <3>3. g = Pipeline!ReadUnit(After(dir, n), UnitOf(wire[dir][n + 1]))
      BY <1>1, <3>1, <3>2, UnitAfterUnit
    <3>4. Pace(j, g, d)
      BY <2>1, <2>3, <3>3
    <3>5. UnitsRead(d)' = n + 1 /\ n + 1 <= Len(wire[d])
      BY <2>3 DEF UnitsRead
    <3>6. After(d, UnitsRead(d))' = g
      <4>1. After(d, n + 1) = g
        BY <2>3, <3>2
      <4>2. PICK m : m = n + 1
        OBVIOUS
      <4>3. After(d, m)' = g
        BY <4>1, <4>2, SameWire
      <4>4. m = UnitsRead(d)'
        BY <3>5, <4>2
      <4> QED
        BY <4>3, <4>4
    <3>7. Agree(j, g, d)'
      BY <3>4, SameWire DEF Pace
    <3>8. j.complete = g.complete /\ g.over = FALSE /\ g.error = FALSE
      BY <3>4 DEF Pace
    <3>9. over' = FALSE
      BY <1>1 DEF TlsInv, TypeOK
    <3> QED
      BY <1>2, <2>3, <3>5, <3>6, <3>7, <3>8, <3>9 DEF Keeps, After
  <2> QED
    BY <2>2, <2>3
<1> QED
  BY <1>3 DEF KeepsPace

(* A record that is one item is taken by both.                             *)
LEMMA RecordKept ==
    ASSUME TlsInv, KeepsPace, NEW k, Reading(k), k \in {"alert", "ccs", "app", "plain"}, Consumed,
           NEW j, info' = [info EXCEPT ![dir] = j],
           NEW f, f = After(dir, Looked(dir)),
           Ordinary(dir) /\ Pace(info[dir], f, dir) /\ DOMAIN f = Fields =>
               Pace(j, Pipeline!ReadUnit(f, UnitOf(wire[dir][Looked(dir) + 1])), dir)
    PROVE  KeepsPace'
<1>1. /\ dir \in Dirs /\ AtRecord /\ left # <<>> /\ Head(left) \notin Handshake
      /\ Looked(dir) + 1 \in 1 .. Len(wire[dir]) /\ TypeOK /\ InPlace
  BY RecordAt DEF TlsInv
<1>2. ~over /\ UNCHANGED <<wire, dir, over, history>>
  BY <1>1 DEF AtRecord, Consumed
<1>3. Looked(dir)' = Looked(dir) + 1
  BY <1>1, RecordPlace
<1>4. ~split /\ ~short /\ Ordinary(dir) =>
          Pace(j, Pipeline!ReadUnit(f, UnitOf(wire[dir][Looked(dir) + 1])), dir)
  BY <1>1, <1>2, PaceAt
<1> QED
  BY <1>1, <1>2, <1>3, <1>4, PaceKept

(* So is a whole message.                                                  *)
LEMMA MessageKept ==
    ASSUME TlsInv, KeepsPace, NEW k, AtMessage(k), NextMessage,
           NEW j, info' = [info EXCEPT ![dir] = j],
           NEW f, f = After(dir, Looked(dir)),
           Ordinary(dir) /\ Pace(info[dir], f, dir) /\ DOMAIN f = Fields =>
               Pace(j, Pipeline!ReadUnit(f, UnitOf(wire[dir][Looked(dir) + 1])), dir)
    PROVE  KeepsPace'
<1>1. /\ dir \in Dirs /\ hs # <<>> /\ Head(hs).part = "whole"
      /\ Looked(dir) + 1 \in 1 .. Len(wire[dir]) /\ TypeOK /\ InPlace
  BY MessageAt DEF TlsInv
<1>2. ~over /\ UNCHANGED <<wire, dir, left, started, over, history>> /\ hs' = Tail(hs)
  BY <1>1 DEF NextMessage, KeepsPace
<1>3. Looked(dir)' = Looked(dir) + 1
  BY <1>1, <1>2, MessagePlace
<1>4. ~split /\ ~short /\ Ordinary(dir) =>
          Pace(j, Pipeline!ReadUnit(f, UnitOf(wire[dir][Looked(dir) + 1])), dir)
  BY <1>1, <1>2, PaceAt
<1> QED
  BY <1>1, <1>2, <1>3, <1>4, PaceKept

(* An alert.                                                               *)
LEMMA AlertKept ==
    ASSUME TlsInv, KeepsPace, ParseAlert PROVE KeepsPace'
<1>1. Reading("alert") /\ Consumed
  BY DEF ParseAlert
<1>2. PICK desc \in IF Head(left).sealed THEN AlertDescs ELSE {Head(left).desc} :
          info' = [info EXCEPT ![dir] = Event([I EXCEPT !.alerts = @ \cup {desc}], "alert")]
  BY DEF ParseAlert
<1> DEFINE j == Event([info[dir] EXCEPT !.alerts = @ \cup {desc}], "alert")
           k == Looked(dir) + 1
<1>3. info' = [info EXCEPT ![dir] = j]
  BY <1>2 DEF I
<1>4. /\ dir \in Dirs /\ k \in 1 .. Len(wire[dir]) /\ wire[dir][k] \in Item
      /\ wire[dir][k].kind = "alert" /\ Head(left) = wire[dir][k] /\ info[dir] \in HandshakeInfo
  BY <1>1, RecordAt, WireTyped
<1>5. PICK f : f = After(dir, Looked(dir))
  OBVIOUS
<1>6. Pace(info[dir], f, dir) /\ DOMAIN f = Fields =>
          Pace(j, Pipeline!ReadUnit(f, UnitOf(wire[dir][k])), dir)
  <2>1. desc \in IF wire[dir][k].sealed THEN AlertDescs ELSE {wire[dir][k].desc}
    BY <1>2, <1>4
  <2> HIDE DEF k
  <2> QED
    BY <1>4, <2>1, PaceAlert
<1> HIDE DEF j
<1> QED
  BY <1>1, <1>3, <1>5, <1>6, RecordKept

(* A change_cipher_spec.                                                   *)
LEMMA CcsKept ==
    ASSUME TlsInv, KeepsPace, ParseCcs PROVE KeepsPace'
<1> DEFINE i == info[dir]
           j == Event([i EXCEPT !.complete = @ \/ (~i.tls13 /\ i.cipher # None)], "ccs")
           x == wire[dir][Looked(dir) + 1]
<1>1. Reading("ccs") /\ Consumed /\ info' = [info EXCEPT ![dir] = j]
  BY DEF ParseCcs, I
<1>2. i \in HandshakeInfo /\ x.kind = "ccs"
  BY <1>1, RecordAt
<1>3. PICK f : f = After(dir, Looked(dir))
  OBVIOUS
<1>4. Pace(i, f, dir) /\ DOMAIN f = Fields => Pace(j, Pipeline!ReadUnit(f, UnitOf(x)), dir)
  BY <1>2, PaceCcs
<1> HIDE DEF j
<1> QED
  BY <1>1, <1>3, <1>4, RecordKept

(* Application data.                                                       *)
LEMMA ApplicationDataKept ==
    ASSUME TlsInv, KeepsPace, ParseApplicationData PROVE KeepsPace'
<1> DEFINE i == info[dir]
           j == [i EXCEPT !.complete = @ \/ i.tls13]
           x == wire[dir][Looked(dir) + 1]
<1>1. Reading("app") /\ Consumed
  BY DEF ParseApplicationData
<1>2. info' = [info EXCEPT ![dir] = j]
  <2>1. info' = [info EXCEPT ![dir].complete = @ \/ info[dir].tls13]
    BY DEF ParseApplicationData, I
  <2> QED
    BY <2>1
<1>3. i \in HandshakeInfo /\ x.kind = "app"
  BY <1>1, RecordAt
<1>4. PICK f : f = After(dir, Looked(dir))
  OBVIOUS
<1>5. Pace(i, f, dir) /\ DOMAIN f = Fields => Pace(j, Pipeline!ReadUnit(f, UnitOf(x)), dir)
  BY <1>3, PaceComplete
<1> HIDE DEF j
<1> QED
  BY <1>1, <1>2, <1>4, <1>5, RecordKept

(* A certificate.                                                          *)
LEMMA CertificateKept ==
    ASSUME TlsInv, KeepsPace, ParseCertificate PROVE KeepsPace'
<1> DEFINE i == info[dir]
           x == wire[dir][Looked(dir) + 1]
           j == IF i.tls13 THEN i
                ELSE Event([i EXCEPT !.chain = Append(@, x.chain)], "certificate")
<1>1. AtMessage("certificate") /\ NextMessage
  BY DEF ParseCertificate
<1>2. info' = [info EXCEPT ![dir] = j]
  BY <1>1, MessageAt DEF ParseCertificate, I
<1>3. i \in HandshakeInfo /\ x.kind = "certificate" /\ x \in Item
  BY <1>1, MessageAt, WireTyped
<1>4. PICK f : f = After(dir, Looked(dir))
  OBVIOUS
<1>5. Pace(i, f, dir) /\ DOMAIN f = Fields => Pace(j, Pipeline!ReadUnit(f, UnitOf(x)), dir)
  BY <1>3, PaceCertificate
<1> HIDE DEF j
<1> QED
  BY <1>1, <1>2, <1>4, <1>5, MessageKept

(* A key exchange.                                                         *)
LEMMA KeyExchangeKept ==
    ASSUME TlsInv, KeepsPace, ParseKeyExchange PROVE KeepsPace'
<1> DEFINE i == info[dir]
           x == wire[dir][Looked(dir) + 1]
           j == Event(i, x.kind)
<1>1. PICK k \in {"server_key_exchange", "client_key_exchange"} : AtMessage(k)
  BY DEF ParseKeyExchange
<1>2. NextMessage /\ info' = [info EXCEPT ![dir] = j]
  BY <1>1, MessageAt DEF ParseKeyExchange, I
<1>3. i \in HandshakeInfo /\ x.kind = k
  BY <1>1, MessageAt
<1>4. PICK f : f = After(dir, Looked(dir))
  OBVIOUS
<1>5. Pace(i, f, dir) /\ DOMAIN f = Fields => Pace(j, Pipeline!ReadUnit(f, UnitOf(x)), dir)
  BY <1>3, PaceKeyExchange
<1> HIDE DEF j
<1> QED
  BY <1>1, <1>2, <1>4, <1>5, MessageKept

(* A finished.                                                             *)
LEMMA FinishedKept ==
    ASSUME TlsInv, KeepsPace, ParseFinished PROVE KeepsPace'
<1> DEFINE i == info[dir]
           j == [i EXCEPT !.complete = @ \/ ~i.tls13]
           x == wire[dir][Looked(dir) + 1]
<1>1. AtMessage("finished") /\ NextMessage
  BY DEF ParseFinished
<1>2. info' = [info EXCEPT ![dir] = j]
  <2>1. info' = [info EXCEPT ![dir].complete = @ \/ ~info[dir].tls13]
    BY DEF ParseFinished, I
  <2> QED
    BY <2>1
<1>3. i \in HandshakeInfo /\ x.kind = "finished"
  BY <1>1, MessageAt
<1>4. PICK f : f = After(dir, Looked(dir))
  OBVIOUS
<1>5. Pace(i, f, dir) /\ DOMAIN f = Fields => Pace(j, Pipeline!ReadUnit(f, UnitOf(x)), dir)
  <2>1. PICK b : b = IF x.kind = "app" THEN i.tls13 ELSE ~i.tls13
    OBVIOUS
  <2>2. Pace(i, f, dir) /\ DOMAIN f = Fields =>
            Pace([i EXCEPT !.complete = @ \/ b], Pipeline!ReadUnit(f, UnitOf(x)), dir)
    BY <1>3, <2>1, PaceComplete
  <2>3. b = ~i.tls13
    BY <1>3, <2>1
  <2> QED
    BY <2>2, <2>3
<1> HIDE DEF j
<1> QED
  BY <1>1, <1>2, <1>4, <1>5, MessageKept

(* A message neither reads.                                                *)
LEMMA SkipKept ==
    ASSUME TlsInv, KeepsPace, SkipMessage PROVE KeepsPace'
<1> DEFINE i == info[dir]
           x == wire[dir][Looked(dir) + 1]
<1>1. AtMessage("other") /\ NextMessage /\ info' = info
  BY DEF SkipMessage
<1>2. info' = [info EXCEPT ![dir] = i] /\ x.kind = "other"
  BY <1>1, MessageAt DEF TypeOK
<1>3. PICK f : f = After(dir, Looked(dir))
  OBVIOUS
<1>4. ASSUME Pace(i, f, dir) PROVE Pace(i, Pipeline!ReadUnit(f, UnitOf(x)), dir)
  <2>1. x.kind \in {"other", "sealed"}
    BY <1>2
  <2>2. Pipeline!ReadUnit(f, UnitOf(x)) = f
    BY <1>4, <2>1, PaceOther
  <2> QED
    BY <1>4, <2>2
<1> HIDE DEF i
<1> QED
  BY <1>1, <1>2, <1>3, <1>4, MessageKept DEF i

(* In one stream; the other is not touched.                                *)
LEMMA StreamKept ==
    ASSUME KeepsPace, dir \in Dirs, UNCHANGED <<wire, dir, short>>, split => split',
           \A d \in Dirs : d # dir => info'[d] = info[d], over' => hs' = <<>>,
           \A d \in Dirs : d = dir /\ ~split /\ ~split' /\ ~short /\ Ordinary(d) => Keeps(d)'
    PROVE  KeepsPace'
<1>1. ASSUME ~split', ~short', NEW d \in Dirs, Ordinary(d)' PROVE Keeps(d)'
  <2>1. ~split /\ ~short /\ Ordinary(d)
    BY <1>1, SameWire
  <2>2. CASE d # dir
    <3>1. Keeps(d) /\ info'[d] = info[d] /\ Looked(d)' = Looked(d)
      BY <2>1, <2>2, OtherStream DEF KeepsPace
    <3> QED
      BY <2>2, <3>1, SameKeeps
  <2>3. CASE d = dir
    BY <1>1, <2>1, <2>3
  <2> QED
    BY <2>2, <2>3
<1> QED
  BY <1>1 DEF KeepsPace

(* A refused hello: the stream is not an ordinary one.                     *)
LEMMA RefusedKept ==
    ASSUME TlsInv, KeepsPace, dir \in Dirs, ~Ordinary(dir), NEW h, Raise(h)
    PROVE  KeepsPace'
<1> DEFINE j == [h EXCEPT !.error = TRUE]
<1>1. /\ UNCHANGED <<wire, dir, short, split>> /\ hs' = <<>> /\ info' = [info EXCEPT ![dir] = j]
      /\ info \in [Dirs -> HandshakeInfo]
  BY DEF Raise, history, TlsInv, TypeOK
<1> HIDE DEF j
<1>2. \A d \in Dirs : d # dir => info'[d] = info[d]
  BY <1>1
<1> QED
  BY <1>1, <1>2, StreamKept

(* A client hello: in an ordinary stream its extensions are there.         *)
LEMMA ClientHelloKept ==
    ASSUME TlsInv, KeepsPace, ParseClientHello PROVE KeepsPace'
<1> DEFINE i == info[dir]
           x == wire[dir][Looked(dir) + 1]
           h == [i EXCEPT !.hellos = @ + 1,
                          !.renegotiation = @ \/ i.hellos > 0,
                          !.offered = x.version,
                          !.sid = x.sid,
                          !.resumption = @ \/ x.sid # None]
           j == Event([h EXCEPT !.ems = @ \/ x.ems, !.ri = @ \/ x.ri], "client_hello")
<1>1. AtMessage("client_hello")
  BY DEF ParseClientHello
<1>2. Hello(h, "client_hello")
  BY <1>1, MessageAt DEF ParseClientHello, I
<1>3. /\ i \in HandshakeInfo /\ dir \in Dirs /\ M = x /\ x.kind = "client_hello" /\ x \in Item
      /\ Looked(dir) + 1 \in Sent(dir, "client_hello") /\ hs # <<>>
  <2>1. /\ i \in HandshakeInfo /\ dir \in Dirs /\ M = x /\ x.kind = "client_hello" /\ TypeOK
        /\ Looked(dir) + 1 \in 1 .. Len(wire[dir]) /\ hs # <<>>
    BY <1>1, MessageAt
  <2>2. x \in Item
    BY <2>1, WireTyped
  <2> QED
    BY <2>1, <2>2 DEF Sent
<1>4. PICK f : f = After(dir, Looked(dir))
  OBVIOUS
<1>5. Pace(i, f, dir) /\ DOMAIN f = Fields => Pace(j, Pipeline!ReadUnit(f, UnitOf(x)), dir)
  <2>1. Sent(dir, "client_hello") # {}
    BY <1>3
  <2> HIDE DEF x, i
  <2> QED
    BY <1>3, <2>1, PaceClientHello
<1>6. CASE x.exts
  <2>1. info' = [info EXCEPT ![dir] = j] /\ NextMessage
    BY <1>2, <1>3, <1>6 DEF Hello
  <2> HIDE DEF j
  <2> QED
    BY <1>1, <1>4, <1>5, <2>1, MessageKept
<1>7. CASE ~x.exts
  <2>1. Raise(h)
    BY <1>2, <1>3, <1>7 DEF Hello
  <2>2. ~Ordinary(dir)
    BY <1>3, <1>7 DEF Ordinary
  <2> HIDE DEF h
  <2> QED
    BY <1>3, <2>1, <2>2, RefusedKept
<1> QED
  BY <1>6, <1>7

(* So does a server hello: there is no client hello in its stream.         *)
LEMMA ServerHelloKept ==
    ASSUME TlsInv, KeepsPace, ParseServerHello PROVE KeepsPace'
<1> DEFINE i == info[dir]
           x == wire[dir][Looked(dir) + 1]
           h == [i EXCEPT !.resumption = CASE x.sid # None /\ x.sid = i.sid -> TRUE
                                          [] x.sid = None /\ i.sid # None -> FALSE
                                          [] OTHER -> @,
                          !.cipher = x.cipher,
                          !.version = x.version,
                          !.tls13 = @ \/ x.version = "1.3"]
           j == Event([h EXCEPT !.ems = @ \/ x.ems, !.ri = @ \/ x.ri], "server_hello")
<1>1. AtMessage("server_hello")
  BY DEF ParseServerHello
<1>2. Hello(h, "server_hello")
  BY <1>1, MessageAt DEF ParseServerHello, I
<1>3. /\ i \in HandshakeInfo /\ dir \in Dirs /\ M = x /\ x.kind = "server_hello" /\ x \in Item
      /\ Looked(dir) + 1 \in Sent(dir, "server_hello") /\ hs # <<>>
  <2>1. /\ i \in HandshakeInfo /\ dir \in Dirs /\ M = x /\ x.kind = "server_hello" /\ TypeOK
        /\ Looked(dir) + 1 \in 1 .. Len(wire[dir]) /\ hs # <<>>
    BY <1>1, MessageAt
  <2>2. x \in Item
    BY <2>1, WireTyped
  <2> QED
    BY <2>1, <2>2 DEF Sent
<1>4. PICK f : f = After(dir, Looked(dir))
  OBVIOUS
<1>5. Ordinary(dir) /\ Pace(i, f, dir) /\ DOMAIN f = Fields =>
          Pace(j, Pipeline!ReadUnit(f, UnitOf(x)), dir)
  <2>1. Ordinary(dir) => Sent(dir, "client_hello") = {}
    BY <1>3 DEF Ordinary
  <2> HIDE DEF x, i
  <2> QED
    BY <1>3, <2>1, PaceServerHello
<1>6. CASE x.exts
  <2>1. info' = [info EXCEPT ![dir] = j] /\ NextMessage
    BY <1>2, <1>3, <1>6 DEF Hello
  <2> HIDE DEF j
  <2> QED
    BY <1>1, <1>4, <1>5, <2>1, MessageKept
<1>7. CASE ~x.exts
  <2>1. Raise(h)
    BY <1>2, <1>3, <1>7 DEF Hello
  <2>2. ~Ordinary(dir)
    BY <1>3, <1>7 DEF Ordinary
  <2> HIDE DEF h
  <2> QED
    BY <1>3, <2>1, <2>2, RefusedKept
<1> QED
  BY <1>6, <1>7

(* Bytes that are no TLS: both loops are left.                             *)
LEMMA NotTlsKept ==
    ASSUME TlsInv, KeepsPace, NotTls PROVE KeepsPace'
<1> DEFINE i == info[dir]
           j == [i EXCEPT !.error = @ \/ ~i.complete]
           x == wire[dir][Looked(dir) + 1]
<1>1. /\ Reading("plain") /\ over' = TRUE /\ UNCHANGED <<wire, dir, left, started, hs, history>>
      /\ hs = <<>> /\ ~over /\ TypeOK
  BY DEF NotTls, TlsInv, Reading, AtRecord
<1>2. info' = [info EXCEPT ![dir] = j]
  <2>1. info' = [info EXCEPT ![dir].error = @ \/ ~info[dir].complete]
    BY DEF NotTls, I
  <2> QED
    BY <2>1
<1>3. /\ dir \in Dirs /\ i \in HandshakeInfo /\ x.kind = "plain" /\ Looked(dir) \in Nat
      /\ Looked(dir) + 1 \in 1 .. Len(wire[dir]) /\ info \in [Dirs -> HandshakeInfo]
  BY <1>1, RecordAt DEF TypeOK
<1>4. info'[dir] = j /\ \A d \in Dirs : d # dir => info'[d] = info[d]
  BY <1>2, <1>3
<1>5. Looked(dir)' = Looked(dir)
  BY <1>1 DEF Looked, Pos
<1>6. ASSUME NEW d \in Dirs, d = dir, ~split, ~short, Ordinary(d) PROVE Keeps(d)'
  <2>1. PICK n : n = Looked(dir)
    OBVIOUS
  <2>2. PICK f, g, k : f = After(d, n) /\ g = After(d, n + 1) /\ k = j
    OBVIOUS
  <2>3. Pace(i, f, d) /\ DOMAIN f = Fields
    BY <1>1, <1>3, <1>6, <2>1, <2>2, PaceAt
  <2>4. g = Pipeline!ReadUnit(f, UnitOf(x))
    <3>1. n \in 0 .. Len(wire[d]) - 1 /\ d \in Dirs
      <4>1. Len(wire[d]) \in Nat /\ n \in Nat /\ n + 1 \in 1 .. Len(wire[d])
        BY <1>1, <1>3, <1>6, <2>1, WireTyped
      <4> QED
        BY <4>1
    <3> QED
      BY <1>1, <1>6, <2>1, <2>2, <3>1, UnitAfterUnit
  <2> HIDE DEF x
  <2>5. Agree(k, g, d) /\ k.complete = g.complete /\ g.over = TRUE
    <3> DEFINE r == Pipeline!ReadUnit(f, UnitOf(x))
    <3> HIDE DEF i
    <3>1. Agree(j, r, d) /\ j.complete = r.complete /\ r.over = TRUE
      BY <1>3, <2>3, AgreeAtPlain
    <3> HIDE DEF j, r
    <3> QED
      BY <2>2, <2>4, <3>1 DEF r
  <2>6. Agree(k, g, d)' /\ After(d, n + 1)' = g
    BY <1>1, <2>2, <2>5, SameWire
  <2>7. UnitsRead(d)' = n + 1 /\ n + 1 <= Len(wire'[d]) /\ d = dir'
    BY <1>1, <1>3, <1>5, <1>6, <2>1 DEF UnitsRead
  <2>8. k = info'[d]
    BY <1>4, <1>6, <2>2
  <2>9. Keeps(d)'
    BY <1>1, <2>5, <2>6, <2>7, <2>8 DEF Keeps, After
  <2> QED
    BY <2>9
<1> HIDE DEF j
<1> QED
  BY <1>1, <1>3, <1>4, <1>6, StreamKept DEF history

(* A handshake record is put in the buffer: nothing is read yet.           *)
LEMMA HandshakeRecordKept ==
    ASSUME TlsInv, KeepsPace, ReadHandshakeRecord PROVE KeepsPace'
<1>1. PICK n \in 0 .. Len(left), more \in BOOLEAN : HandshakeRecord(n, more)
  BY DEF ReadHandshakeRecord
<1>2. /\ TypeOK /\ InPlace /\ dir \in Dirs /\ ~over /\ (split => split')
      /\ UNCHANGED <<wire, dir, over, info, short>>
  BY <1>1 DEF TlsInv, HandshakeRecord, AtRecord
<1>3. Looked(dir)' = Looked(dir)
  BY <1>1, <1>2, HandshakePlace
<1>4. ASSUME NEW d \in Dirs, d = dir, ~split, ~short, Ordinary(d) PROVE Keeps(d)'
  <2>1. Keeps(d) /\ Looked(d)' = Looked(d) /\ info'[d] = info[d] /\ over' = over
    BY <1>2, <1>3, <1>4 DEF KeepsPace
  <2> QED
    BY <1>2, <1>4, <2>1, SameKeeps
<1> QED
  BY <1>2, <1>4, StreamKept

(* A front part is dropped: a message was cut.                             *)
LEMMA WaitKept ==
    ASSUME TlsInv, KeepsPace, WaitForMore PROVE KeepsPace'
<1>1. /\ dir \in Dirs /\ hs # <<>> /\ Head(hs).part = "front" /\ hs' = <<>> /\ split' = split
  BY DEF WaitForMore, history
<1>2. hs \in Seq(Piece) /\ Len(hs) \in Nat /\ Len(hs) # 0 /\ 1 \in 1 .. Len(hs)
  BY <1>1, Place DEF TlsInv, InPlace, Piece
<1>3. split
  <2>1. hs[1].part # "whole"
    BY <1>1, <1>2
  <2> QED
    BY <1>1, <1>2, <2>1 DEF TlsInv, Uncut
<1> QED
  BY <1>1, <1>3 DEF KeepsPace

(* Units that the parser of the analysis has no use for.                   *)
LEMMA UnitsPassed ==
    ASSUME TypeOK, NEW d \in Dirs, NEW a \in 0 .. Len(wire[d]), NEW b \in a .. Len(wire[d]),
           \A k \in a + 1 .. b : wire[d][k].kind = "sealed", NEW i, Pace(i, After(d, a), d)
    PROVE  After(d, b) = After(d, a)
<1> DEFINE Bad == {k \in a .. b : After(d, k) # After(d, a)}
<1>1. Len(wire[d]) \in Nat /\ a \in Nat /\ b \in Nat
  BY WireTyped
<1> SUFFICES ASSUME Bad # {} PROVE FALSE
  BY <1>1
<1>2. PICK k \in Bad : \A l \in Bad : k <= l
  <2>1. Bad \in SUBSET Nat
    BY <1>1
  <2> QED
    BY <2>1, LeastNumber
<1>3. /\ k - 1 \in 0 .. Len(wire[d]) - 1 /\ k - 1 \in a .. b /\ k - 1 \notin Bad /\ k - 1 + 1 = k
      /\ k \in a + 1 .. b
  <2>1. k # a
    BY <1>2
  <2> QED
    BY <1>1, <1>2, <2>1
<1>4. After(d, k) = Pipeline!ReadUnit(After(d, k - 1), UnitOf(wire[d][k]))
  BY <1>3, UnitAfterUnit
<1>5. After(d, k - 1) = After(d, a)
  BY <1>3
<1>6. wire[d][k].kind \in {"other", "sealed"}
  BY <1>3
<1>7. Pipeline!ReadUnit(After(d, a), UnitOf(wire[d][k])) = After(d, a)
  BY <1>6, PaceOther
<1> QED
  BY <1>2, <1>4, <1>5, <1>7

(* What is misread are sealed messages, which are nothing to the other.    *)
LEMMA MisreadKept ==
    ASSUME TlsInv, KeepsPace, Misread PROVE KeepsPace'
<1>1. /\ dir \in Dirs /\ hs # <<>> /\ TypeOK /\ InPlace /\ ~over
      /\ UNCHANGED <<wire, dir, left, started, over, info, history>>
  BY DEF Misread, TlsInv, KeepsPace
<1>2. PICK n \in 1 .. Len(hs) : hs' = SubSeq(hs, n + 1, Len(hs))
  BY DEF Misread
<1>3. /\ Looked(dir)' \in Nat /\ Looked(dir) <= Looked(dir)' /\ Looked(dir)' <= Looked(dir) + n
      /\ InPlace'
  BY <1>1, <1>2, MessagesPlace
<1>4. Looked(dir)' <= Len(wire[dir]) /\ Looked(dir) \in 0 .. Len(wire[dir]) /\ Len(wire[dir]) \in Nat
  <2>1. TypeOK'
    BY <1>1 DEF TypeOK, history
  <2>2. Looked(dir)' \in 0 .. Len(wire[dir])
    BY <1>1, <1>3, <2>1, Place, SMTT(30)
  <2> QED
    BY <1>1, <2>2, Place
<1>5. ASSUME NEW d \in Dirs, d = dir, ~split, ~short, Ordinary(d) PROVE Keeps(d)'
  <2>1. PICK a, b : a = Looked(dir) /\ b = Looked(dir)'
    OBVIOUS
  <2>2. a \in 0 .. Len(wire[d]) /\ b \in a .. Len(wire[d]) /\ n \in Nat /\ b <= a + n
    BY <1>1, <1>3, <1>4, <1>5, <2>1, Place
  <2>3. \A k \in a + 1 .. b : wire[d][k].kind = "sealed"
    <3>1. \A k \in a + 1 .. b : k \in a + 1 .. a + n
      BY <2>2
    <3> QED
      BY <1>5, <2>1, <3>1, MisreadSealed
  <2>4. PICK f : f = After(d, a)
    OBVIOUS
  <2>5. Pace(info[d], f, d)
    BY <1>1, <1>5, <2>1, <2>4, PaceAt
  <2>6. After(d, b) = f
    BY <1>1, <2>2, <2>3, <2>4, <2>5, UnitsPassed
  <2>7. UnitsRead(d)' = b /\ d = dir' /\ b <= Len(wire'[d]) /\ info'[d] = info[d]
    BY <1>1, <1>5, <2>1, <2>2 DEF UnitsRead
  <2>8. After(d, b)' = f
    BY <1>1, <2>6, SameWire
  <2>9. PICK i : i = info[d]
    OBVIOUS
  <2>10. Agree(i, f, d)'
    BY <1>1, <2>5, <2>9, SameWire DEF Pace
  <2>11. i.complete = f.complete /\ f.over = FALSE /\ f.error = FALSE /\ over' = FALSE
    BY <1>1, <2>5, <2>9 DEF Pace, TypeOK
  <2> QED
    BY <2>7, <2>8, <2>9, <2>10, <2>11 DEF Keeps, After
<1>6. \A d \in Dirs : d # dir => info'[d] = info[d]
  BY <1>1
<1> QED
  BY <1>1, <1>5, <1>6, StreamKept DEF history

(* The end of a stream: the next one begins with nothing known, and of the *)
(* one that ends all units are read.                                       *)
LEMMA EndKept ==
    ASSUME TlsInv, KeepsPace, EndOfStream PROVE KeepsPace'
<1> DEFINE i == info[dir]
           e == i.complete /\ 40 \notin i.alerts
           j == [i EXCEPT !.complete = e]
<1>1. /\ dir \in Dirs /\ hs = <<>> /\ hs' = <<>>
      /\ dir' = IF dir = "c2s" THEN "s2c" ELSE "merge"
      /\ left' = IF dir = "c2s" THEN wire.s2c ELSE <<>>
      /\ over' = FALSE /\ short' = (short \/ (~over /\ left # <<>>))
      /\ UNCHANGED <<wire, hs, sess, split>> /\ TypeOK /\ InPlace
  BY DEF EndOfStream, TlsInv
<1>2. info' = [info EXCEPT ![dir] = j]
  <2>1. info' = [info EXCEPT ![dir].complete = @ /\ 40 \notin info[dir].alerts]
    BY <1>1 DEF EndOfStream, I
  <2> QED
    BY <2>1
<1>3. i \in HandshakeInfo /\ info \in [Dirs -> HandshakeInfo]
  BY <1>1 DEF TypeOK
<1> HIDE DEF e
<1>4. /\ j.alerts = i.alerts
      /\ j.hellos = i.hellos /\ j.renegotiation = i.renegotiation /\ j.offered = i.offered
      /\ j.sid = i.sid /\ j.resumption = i.resumption /\ j.ems = i.ems /\ j.ri = i.ri
      /\ j.version = i.version /\ j.cipher = i.cipher /\ j.tls13 = i.tls13 /\ j.chain = i.chain
      /\ j.complete = e /\ j.error = i.error
  BY <1>3 DEF HandshakeInfo
<1> HIDE DEF j
<1>5. info'[dir] = j /\ \A d \in Dirs : d # dir => info'[d] = info[d]
  BY <1>1, <1>2, <1>3
<1>6. ASSUME NEW d \in Dirs, d = dir, ~split, ~short', Ordinary(d) PROVE Keeps(d)'
  <2>1. ~short /\ (over \/ left = <<>>)
    BY <1>1, <1>6
  <2>2. PICK f, n : f = After(d, UnitsRead(d)) /\ n = UnitsRead(d)
    OBVIOUS
  <2>3. /\ n <= Len(wire[d]) /\ Agree(i, f, d) /\ i.complete = f.complete
        /\ f.over = over
    BY <1>6, <2>1, <2>2 DEF KeepsPace, Keeps, After
  <2>4. After(d, Len(wire[d])) = f
    <3>1. /\ Looked(d) = Pos /\ Pos \in Nat /\ Len(left) \in Nat /\ Pos + Len(left) = Len(wire[d])
          /\ Len(wire[d]) \in Nat /\ (left = <<>> => Len(left) = 0)
      BY <1>1, <1>6, Place
    <3>2. CASE over
      <4>1. n = Looked(d) + 1
        BY <1>6, <2>2, <3>2 DEF UnitsRead
      <4>2. n \in 0 .. Len(wire[d]) /\ After(d, n) = f /\ f.over
        BY <2>2, <2>3, <3>1, <3>2, <4>1
      <4> QED
        BY <1>1, <4>2, NothingMoreRead
    <3>3. CASE ~over
      BY <1>6, <2>1, <2>2, <3>1, <3>3 DEF UnitsRead
    <3> QED
      BY <3>2, <3>3
  <2>5. d # dir' /\ UnitsRead(d)' = Len(wire[d])
    BY <1>1, <1>6 DEF UnitsRead, Looked, Dirs
  <2>6. PICK m : m = Len(wire[d])
    OBVIOUS
  <2>7. After(d, m)' = f
    BY <1>1, <2>4, <2>6, SameWire
  <2>8. PICK k : k = j
    OBVIOUS
  <2>9. Agree(k, f, d)
    BY <1>4, <2>3, <2>8 DEF Agree
  <2>10. Agree(k, f, d)'
    BY <1>1, <2>9, SameWire
  <2>11. k.complete = (f.complete /\ 40 \notin k.alerts)
    BY <1>4, <2>3, <2>8 DEF e
  <2>12. info'[d] = k /\ m = UnitsRead(d)' /\ UnitsRead(d)' <= Len(wire'[d])
    <3>1. Len(wire[d]) \in Nat
      BY <1>1, WireTyped
    <3> QED
      BY <1>1, <1>5, <1>6, <2>5, <2>6, <2>8, <3>1
  <2> QED
    BY <2>5, <2>7, <2>10, <2>11, <2>12 DEF Keeps, After
<1>7. ASSUME NEW d \in Dirs, d # dir, ~split, ~short', Ordinary(d) PROVE Keeps(d)'
  <2>1. Keeps(d) /\ info'[d] = info[d]
    BY <1>1, <1>5, <1>7 DEF KeepsPace
  <2>2. CASE dir = "s2c"
    <3>1. Looked(d)' = Looked(d) /\ (dir' = d <=> dir = d)
      BY <1>1, <1>7, <2>2 DEF Looked, Dirs
    <3> QED
      BY <1>1, <1>7, <2>1, <3>1, SameKeeps
  <2>3. CASE dir = "c2s"
    <3>1. d = "s2c" /\ dir' = d /\ left' = wire[d] /\ Len(wire[d]) \in Nat
      BY <1>1, <1>7, <2>3, WireTyped DEF Dirs
    <3>2. UnitsRead(d) = 0 /\ UnitsRead(d)' = 0
      <4>1. UnitsRead(d) = 0
        BY <1>7, <2>3 DEF UnitsRead, Looked
      <4>2. UnitsRead(d)' = Len(wire[d]) - Len(wire[d])
        BY <1>1, <3>1 DEF UnitsRead, Looked, Pos
      <4> QED
        BY <3>1, <4>1, <4>2
    <3>3. PICK f, k : f = After(d, 0) /\ k = info[d]
      OBVIOUS
    <3>4. Agree(k, f, d) /\ k.complete = (f.complete /\ 40 \notin k.alerts)
      BY <1>7, <2>1, <3>2, <3>3 DEF Keeps, After
    <3>5. f.over = FALSE /\ f.error = FALSE /\ f.complete = FALSE
      BY <1>1, <3>3, UnitAfterUnit DEF Pipeline!NoInfo
    <3>6. Agree(k, f, d)' /\ After(d, 0)' = f
      BY <1>1, <3>3, <3>4, SameWire
    <3>7. k.complete = f.complete
      BY <3>4, <3>5
    <3> QED
      BY <1>1, <2>1, <3>1, <3>2, <3>3, <3>5, <3>6, <3>7 DEF Keeps, After
  <2> QED
    BY <1>1, <2>2, <2>3 DEF Dirs
<1>8. ASSUME ~split', ~short', NEW d \in Dirs, Ordinary(d)' PROVE Keeps(d)'
  BY <1>1, <1>6, <1>7, <1>8, SameWire
<1> QED
  BY <1>1, <1>8 DEF KeepsPace

(* At first neither knows anything.                                        *)
LEMMA InitKept ==
    ASSUME Init, TlsInv PROVE KeepsPace
<1>1. /\ dir = "c2s" /\ left = wire["c2s"] /\ over = FALSE /\ hs = <<>> /\ TypeOK
      /\ info = [d \in Dirs |-> NoInfo]
  BY DEF Init, TlsInv
<1>2. ASSUME NEW d \in Dirs PROVE Keeps(d)
  <2>1. Len(wire[d]) \in Nat /\ Len(wire["c2s"]) \in Nat
    BY <1>1, WireTyped DEF Dirs
  <2>2. UnitsRead(d) = 0
    BY <1>1, <2>1 DEF UnitsRead, Looked, Pos
  <2>3. info[d] = NoInfo /\ After(d, 0) = Pipeline!NoInfo
    BY <1>1, UnitAfterUnit
  <2>4. Agree(NoInfo, Pipeline!NoInfo, d)
    <3>1. Number(None) = 0 /\ SuiteNo(None) = 0
      BY NoneAssumption DEF Number, SuiteNo, Versions, Pipeline!NoVersion, Pipeline!NoSuite
    <3>2. /\ NoInfo.hellos = 0 /\ NoInfo.renegotiation = FALSE /\ NoInfo.offered = None
          /\ NoInfo.sid = None /\ NoInfo.resumption = FALSE /\ NoInfo.ems = FALSE
          /\ NoInfo.ri = FALSE /\ NoInfo.version = None /\ NoInfo.cipher = None
          /\ NoInfo.tls13 = FALSE /\ NoInfo.chain = <<>> /\ NoInfo.error = FALSE
          /\ NoInfo.alerts = {}
      BY DEF NoInfo
    <3>3. /\ Pipeline!NoInfo.hellos = 0 /\ Pipeline!NoInfo.offered_version = 0
          /\ Pipeline!NoInfo.resumption = FALSE /\ Pipeline!NoInfo.ems = FALSE
          /\ Pipeline!NoInfo.ri = FALSE /\ Pipeline!NoInfo.version = 0
          /\ Pipeline!NoInfo.suite = 0 /\ Pipeline!NoInfo.tls13 = FALSE
          /\ Pipeline!NoInfo.chain = <<>> /\ Pipeline!NoInfo.error = FALSE
          /\ Pipeline!NoInfo.alerts = {}
      BY DEF Pipeline!NoInfo, Pipeline!NoVersion, Pipeline!NoSuite
    <3>4. NoInfo.renegotiation = (NoInfo.hellos > 1)
      <4>1. (NoInfo.hellos > 1) = FALSE
        BY <3>2
      <4> QED
        BY <3>2, <4>1, Zenon
    <3>5. AlertsAgree(NoInfo.alerts, Pipeline!NoInfo.alerts, d)
      BY <3>2, <3>3 DEF AlertsAgree
    <3> QED
      BY <3>1, <3>2, <3>3, <3>4, <3>5 DEF Agree
  <2>5. /\ NoInfo.complete = FALSE /\ Pipeline!NoInfo.complete = FALSE
        /\ Pipeline!NoInfo.over = FALSE /\ Pipeline!NoInfo.error = FALSE
    BY DEF NoInfo, Pipeline!NoInfo
  <2>6. PICK f, k : f = After(d, 0) /\ k = info[d]
    OBVIOUS
  <2>7. Agree(k, f, d) /\ k.complete = FALSE /\ f.complete = FALSE /\ f.over = FALSE /\ f.error = FALSE
    BY <2>3, <2>4, <2>5, <2>6
  <2>8. k.complete = f.complete /\ f.over = over /\ ~f.error /\ k.complete = (f.complete /\ 40 \notin k.alerts)
    BY <1>1, <2>7
  <2> QED
    BY <2>1, <2>2, <2>6, <2>7, <2>8 DEF Keeps, After
<1> QED
  BY <1>1, <1>2 DEF KeepsPace

(* What is said of a stream stays said when nothing happens.               *)
LEMMA StutterKept ==
    ASSUME KeepsPace, UNCHANGED <<wire, dir, left, started, hs, over, info, history>>
    PROVE  KeepsPace'
<1>1. ASSUME ~split', ~short', NEW d \in Dirs, Ordinary(d)' PROVE Keeps(d)'
  <2>1. Keeps(d)
    BY <1>1, SameWire DEF KeepsPace, history
  <2>2. Looked(d)' = Looked(d)
    BY DEF Looked, Pos, Began
  <2> QED
    BY <2>1, <2>2, SameKeeps
<1> QED
  BY <1>1 DEF KeepsPace

(* The descriptions of the sealed alerts of a stream are those of y.       *)
SealedAre(y, d) == \A k \in Sent(d, "alert") : wire[d][k].sealed => y = {wire[d][k].desc}

(* If the ciphertext of alerts is taken for what it was, both know the     *)
(* same alerts.                                                            *)
LEMMA SameAlerts ==
    ASSUME NEW d, NEW a, NEW b, AlertsAgree(a, b, d), NEW y, a \subseteq y,
           SealedAre(y, d)
    PROVE  b = a /\ (b \cap Pipeline!FailedHandshake = {} <=> 40 \notin a)
<1>1. b = a
  <2>1. CASE SealedDescs(d) = {}
    BY <2>1 DEF AlertsAgree
  <2>2. CASE SealedDescs(d) # {}
    <3>1. PICK q \in SealedDescs(d) : TRUE
      BY <2>2
    <3>2. \A p \in SealedDescs(d) : y = {p}
      BY DEF SealedDescs, SealedAre
    <3>3. a \subseteq {q} /\ b \subseteq {q}
      BY <3>1, <3>2 DEF AlertsAgree
    <3> QED
      BY <3>3 DEF AlertsAgree
  <2> QED
    BY <2>1, <2>2
<1>2. b \subseteq {0, 40}
  BY DEF AlertsAgree, AlertDescs
<1> QED
  BY <1>1, <1>2 DEF Pipeline!FailedHandshake

(* What both know of a stream at its end.                                  *)
LEMMA EndAgrees ==
    ASSUME TypeOK, NEW d \in Dirs, d # dir, Looked(d) = Len(wire[d]), Keeps(d),
           NEW y, info[d].alerts \subseteq y,
           SealedAre(y, d)
    PROVE  /\ (Read(d).hellos > 1) = info[d].renegotiation
           /\ Read(d).offered_version = Number(info[d].offered)
           /\ Read(d).resumption = info[d].resumption
           /\ Read(d).ems = info[d].ems /\ Read(d).ri = info[d].ri
           /\ Read(d).version = Number(info[d].version) /\ Read(d).suite = SuiteNo(info[d].cipher)
           /\ Read(d).chain = info[d].chain /\ Read(d).error = info[d].error
           /\ Read(d).alerts = info[d].alerts /\ Read(d).complete = info[d].complete
<1> DEFINE i == info[d]
           f == After(d, Len(wire[d]))
           e == f.complete /\ f.alerts \cap Pipeline!FailedHandshake = {}
           r == Read(d)
<1>1. Len(wire[d]) \in Nat
  BY WireTyped
<1>2. Agree(i, f, d) /\ i.complete = (f.complete /\ 40 \notin i.alerts)
  BY DEF Keeps, After, UnitsRead
<1>3. DOMAIN f = Fields
  BY <1>1, FieldsAfter DEF Fields
<1>4. r = [f EXCEPT !.complete = e]
  <2>1. Len(Units(d)) = Len(wire[d])
    BY <1>1 DEF Units
  <2> QED
    BY <2>1 DEF Read, Pipeline!ParseStream, After
<1>5. f.alerts = i.alerts /\ (f.alerts \cap Pipeline!FailedHandshake = {} <=> 40 \notin i.alerts)
  <2>1. AlertsAgree(i.alerts, f.alerts, d)
    BY <1>2 DEF Agree
  <2>2. PICK a, b : a = i.alerts /\ b = f.alerts
    OBVIOUS
  <2>3. AlertsAgree(a, b, d) /\ a \subseteq y
    BY <2>1, <2>2
  <2>4. b = a /\ (b \cap Pipeline!FailedHandshake = {} <=> 40 \notin a)
    BY <2>3, SameAlerts
  <2> QED
    BY <2>2, <2>4
<1>6. e = i.complete
  <2> HIDE DEF f, i
  <2> QED
    BY <1>2, <1>5, Zenon
<1> HIDE DEF e, f
<1>7. /\ r.hellos = f.hellos /\ r.offered_version = f.offered_version
      /\ r.resumption = f.resumption /\ r.ems = f.ems /\ r.ri = f.ri /\ r.version = f.version
      /\ r.suite = f.suite /\ r.chain = f.chain /\ r.error = f.error
      /\ r.alerts = f.alerts /\ r.complete = e
  BY <1>3, <1>4 DEF Fields, Pipeline!NoInfo
<1> HIDE DEF r, i
<1> QED
  BY <1>2, <1>5, <1>6, <1>7, Zenon DEF Agree, r, i

(* Numbers that stand for nothing are those of None only.                  *)
LEMMA NumbersOr ==
    ASSUME NEW v \in Versions \cup {None}, NEW w \in Versions \cup {None},
           NEW a \in Suites \cup {None}, NEW b \in Suites \cup {None}
    PROVE  /\ Pipeline!Or(Number(v), Number(w), Pipeline!NoVersion) = Number(IF v # None THEN v ELSE w)
           /\ Pipeline!Or(SuiteNo(a), SuiteNo(b), Pipeline!NoSuite) = SuiteNo(IF a # None THEN a ELSE b)
<1>1. Number(None) = 0 /\ \A x \in Versions : Number(x) # 0 /\ x # None
  BY NoneAssumption DEF Number, Versions, Pipeline!NoVersion
<1>2. SuiteNo(None) = 0 /\ \A x \in Suites : SuiteNo(x) # 0 /\ x # None
  BY NoneAssumption, SuitesAssumption DEF SuiteNo, Pipeline!NoSuite
<1>3. Pipeline!Or(Number(v), Number(w), 0) = Number(IF v # None THEN v ELSE w)
  BY <1>1 DEF Pipeline!Or
<1>4. Pipeline!Or(SuiteNo(a), SuiteNo(b), 0) = SuiteNo(IF a # None THEN a ELSE b)
  BY <1>2 DEF Pipeline!Or
<1> QED
  BY <1>3, <1>4 DEF Pipeline!NoVersion, Pipeline!NoSuite

(* The merge of two streams that were read alike is the same session.      *)
LEMMA MergeMatches ==
    ASSUME TlsInv, KeepsPace, MergeTls PROVE ParserMatchesPipeline'
<1> DEFINE c == info["c2s"]
           s == info["s2c"]
<1>1. /\ dir = "merge" /\ dir' = "done" /\ UNCHANGED <<wire, info, history>> /\ TypeOK
      /\ "c2s" \in Dirs /\ "s2c" \in Dirs
  BY DEF MergeTls, TlsInv, Dirs
<1>2. PICK x : x = sess'
  OBVIOUS
<1>3. /\ x.version = (IF (IF s.version # None THEN s.version ELSE c.version) # None
                        THEN (IF s.version # None THEN s.version ELSE c.version) ELSE c.offered)
      /\ x.cipher = (IF s.cipher # None THEN s.cipher ELSE c.cipher)
      /\ x.alerts = c.alerts \cup s.alerts /\ x.ems = (c.ems /\ s.ems) /\ x.ri = (c.ri /\ s.ri)
      /\ x.renegotiation = (c.renegotiation \/ s.renegotiation) /\ x.resumed = c.resumption
      /\ x.complete = (c.complete \/ s.complete) /\ x.error = (c.error \/ s.error)
      /\ x.chain = (IF s.chain # <<>> THEN s.chain ELSE c.chain)
  BY <1>2 DEF MergeTls
<1>4. /\ c.version \in Versions \cup {None} /\ s.version \in Versions \cup {None}
      /\ c.offered \in Versions \cup {None}
      /\ c.cipher \in Suites \cup {None} /\ s.cipher \in Suites \cup {None}
  BY <1>1 DEF TypeOK, HandshakeInfo
<1> HIDE DEF c, s
<1>5. \A d \in Dirs : Looked(d) = Len(wire[d]) /\ d # dir
  BY <1>1 DEF Looked, Dirs
<1> SUFFICES ASSUME ~split, ~short, \A d \in Dirs : Ordinary(d), \A d \in Dirs : SealedAre(x.alerts, d)
             PROVE  LET t == Pipeline!MergeTls(Read("c2s"), Read("s2c"))
                    IN  /\ t.version = Number(x.version) /\ t.suite = SuiteNo(x.cipher)
                        /\ t.cert_chains = IF x.chain = <<>> THEN <<>> ELSE <<x.chain>>
                        /\ t.alerts = x.alerts /\ t.ems = x.ems /\ t.secure_renegotiation = x.ri
                        /\ t.reneg_seen = x.renegotiation /\ t.resumed = x.resumed
                        /\ t.complete = x.complete /\ t.error = x.error
  <2>1. \A d : Read(d)' = Read(d) /\ Ordinary(d)' = Ordinary(d)
    <3>1. \A d : Units(d)' = Units(d) /\ Ordinary(d)' = Ordinary(d)
      BY <1>1, SameWire
    <3> QED
      BY <3>1 DEF Read
  <2>2. AlertsAsSent' => \A d \in Dirs : SealedAre(x.alerts, d)
    BY <1>1, <1>2 DEF AlertsAsSent, SealedAre, Sent
  <2>3. PICK rc, rs : rc = Read("c2s") /\ rs = Read("s2c")
    OBVIOUS
  <2>4. Read("c2s")' = rc /\ Read("s2c")' = rs
    BY <2>1, <2>3
  <2> QED
    BY <1>1, <1>2, <2>1, <2>2, <2>3, <2>4 DEF ParserMatchesPipeline, history
<1>6. Keeps("c2s") /\ Keeps("s2c")
  BY <1>1 DEF KeepsPace
<1>7. PICK r, q : r = Read("c2s") /\ q = Read("s2c")
  OBVIOUS
<1>8. /\ (r.hellos > 1) = c.renegotiation /\ r.offered_version = Number(c.offered)
      /\ r.resumption = c.resumption /\ r.ems = c.ems /\ r.ri = c.ri
      /\ r.version = Number(c.version) /\ r.suite = SuiteNo(c.cipher)
      /\ r.chain = c.chain /\ r.error = c.error /\ r.alerts = c.alerts /\ r.complete = c.complete
  <2>1. info["c2s"].alerts \subseteq x.alerts
    BY <1>3 DEF c
  <2> QED
    BY <1>1, <1>5, <1>6, <1>7, <2>1, EndAgrees, Zenon DEF c
<1>9. /\ (q.hellos > 1) = s.renegotiation
      /\ q.ems = s.ems /\ q.ri = s.ri
      /\ q.version = Number(s.version) /\ q.suite = SuiteNo(s.cipher)
      /\ q.chain = s.chain /\ q.error = s.error /\ q.alerts = s.alerts /\ q.complete = s.complete
  <2>1. info["s2c"].alerts \subseteq x.alerts
    BY <1>3 DEF s
  <2> QED
    BY <1>1, <1>5, <1>6, <1>7, <2>1, EndAgrees, Zenon DEF s
<1> DEFINE t == Pipeline!MergeTls(r, q)
<1>10. t.version = Number(x.version) /\ t.suite = SuiteNo(x.cipher)
  <2>1. /\ t.version = Pipeline!Or(Pipeline!Or(q.version, r.version, Pipeline!NoVersion),
                                   r.offered_version, Pipeline!NoVersion)
        /\ t.suite = Pipeline!Or(q.suite, r.suite, Pipeline!NoSuite)
    BY DEF Pipeline!MergeTls
  <2>2. PICK v : v = IF s.version # None THEN s.version ELSE c.version
    OBVIOUS
  <2>3. v \in Versions \cup {None}
    BY <1>4, <2>2
  <2>4. Pipeline!Or(q.version, r.version, Pipeline!NoVersion) = Number(v)
    BY <1>4, <1>8, <1>9, <2>2, NumbersOr
  <2>5. Pipeline!Or(Number(v), r.offered_version, Pipeline!NoVersion) = Number(x.version)
    BY <1>3, <1>4, <1>8, <2>2, <2>3, NumbersOr
  <2>6. Pipeline!Or(q.suite, r.suite, Pipeline!NoSuite) = SuiteNo(x.cipher)
    BY <1>3, <1>4, <1>8, <1>9, NumbersOr
  <2> QED
    BY <2>1, <2>4, <2>5, <2>6
<1>11. t.cert_chains = (IF x.chain = <<>> THEN <<>> ELSE <<x.chain>>)
  <2>1. t.cert_chains = IF Pipeline!Or(q.chain, r.chain, <<>>) = <<>> THEN <<>>
                        ELSE <<Pipeline!Or(q.chain, r.chain, <<>>)>>
    BY DEF Pipeline!MergeTls
  <2>2. Pipeline!Or(q.chain, r.chain, <<>>) = x.chain
    BY <1>3, <1>8, <1>9 DEF Pipeline!Or
  <2> QED
    BY <2>1, <2>2
<1>12. t.alerts = x.alerts
  BY <1>3, <1>8, <1>9 DEF Pipeline!MergeTls
<1>13. /\ t.ems = x.ems /\ t.secure_renegotiation = x.ri
       /\ t.reneg_seen = x.renegotiation /\ t.resumed = x.resumed
       /\ t.complete = x.complete /\ t.error = x.error
  <2>1. /\ t.ems = (r.ems /\ q.ems) /\ t.secure_renegotiation = (r.ri /\ q.ri)
        /\ t.reneg_seen = (r.hellos > 1 \/ q.hellos > 1) /\ t.resumed = r.resumption
        /\ t.complete = (r.complete \/ q.complete) /\ t.error = (r.error \/ q.error)
    BY DEF Pipeline!MergeTls
  <2> HIDE DEF t
  <2> QED
    BY <1>3, <1>8, <1>9, <2>1, Zenon
<1> HIDE DEF t
<1> QED
  BY <1>7, <1>10, <1>11, <1>12, <1>13 DEF t

(* What is said of the streams stays said when they are merged.            *)
LEMMA MergeKept ==
    ASSUME TlsInv, KeepsPace, MergeTls PROVE KeepsPace'
<1>1. /\ dir = "merge" /\ dir' = "done" /\ UNCHANGED <<wire, hs, over, info, history>>
  BY DEF MergeTls
<1>2. ASSUME ~split', ~short', NEW d \in Dirs, Ordinary(d)' PROVE Keeps(d)'
  <2>1. Ordinary(d)
    BY <1>1, <1>2, SameWire
  <2>2. Keeps(d)
    BY <1>1, <1>2, <2>1 DEF KeepsPace, history
  <2>3. Looked(d)' = Looked(d) /\ d # dir /\ d # dir'
    BY <1>1 DEF Looked, Dirs
  <2> QED
    BY <1>1, <2>2, <2>3, SameKeeps
<1> QED
  BY <1>1, <1>2 DEF KeepsPace

(* Every step keeps pace.                                                  *)
LEMMA StepKept ==
    ASSUME TlsInv, KeepsPace, [Next]_vars PROVE KeepsPace'
<1>1. CASE ParseRecord
  BY <1>1, AlertKept, CcsKept, ApplicationDataKept, NotTlsKept, HandshakeRecordKept DEF ParseRecord
<1>2. CASE ParseMessage
  BY <1>2, ClientHelloKept, ServerHelloKept, CertificateKept, KeyExchangeKept, FinishedKept,
     SkipKept, WaitKept, MisreadKept DEF ParseMessage
<1>3. CASE EndOfStream
  BY <1>3, EndKept
<1>4. CASE MergeTls
  BY <1>4, MergeKept
<1>5. CASE UNCHANGED vars
  BY <1>5, StutterKept DEF vars
<1> QED
  BY <1>1, <1>2, <1>3, <1>4, <1>5 DEF Next

(* Only the merge ends, and it ends with the session of the analysis.      *)
LEMMA StepMatches ==
    ASSUME TlsInv, KeepsPace, ParserMatchesPipeline, [Next]_vars PROVE ParserMatchesPipeline'
<1>1. CASE MergeTls
  BY <1>1, MergeMatches
<1>2. CASE ParseRecord \/ ParseMessage
  <2>1. dir' = dir /\ dir \in Dirs
    BY <1>2 DEF ParseRecord, ParseMessage, ParseAlert, ParseCcs, ParseApplicationData, NotTls,
       ReadHandshakeRecord, HandshakeRecord, ParseClientHello, ParseServerHello, ParseCertificate,
       ParseKeyExchange, ParseFinished, SkipMessage, WaitForMore, Misread, Hello, Raise, NextMessage,
       Consumed, Reading, AtRecord, AtMessage
  <2> QED
    BY <2>1 DEF ParserMatchesPipeline, Dirs
<1>3. CASE EndOfStream
  BY <1>3 DEF EndOfStream, ParserMatchesPipeline
<1>4. CASE UNCHANGED vars
  <2>1. UNCHANGED <<wire, dir, info, sess, split, short>>
    BY <1>4 DEF vars, history
  <2>2. \A d : \A k : Sent(d, k)' = Sent(d, k)
    BY <2>1 DEF Sent
  <2>3. \A d : Units(d)' = Units(d) /\ Ordinary(d)' = Ordinary(d)
    BY <2>1, SameWire
  <2>4. PICK rc, rs : rc = Read("c2s") /\ rs = Read("s2c")
    OBVIOUS
  <2>5. Read("c2s")' = rc /\ Read("s2c")' = rs
    BY <2>3, <2>4 DEF Read
  <2>6. AlertsAsSent' = AlertsAsSent
    BY <2>1, <2>2 DEF AlertsAsSent
  <2> QED
    BY <2>1, <2>3, <2>4, <2>5, <2>6 DEF ParserMatchesPipeline
<1> QED
  BY <1>1, <1>2, <1>3, <1>4 DEF Next

-----------------------------------------------------------------------------
(* The inductive invariant: where the parser is in the stream, what it     *)
(* knows and what it read are about the part it has looked at.             *)
THEOREM TlsInvariant == Spec => []TlsInv
<1>1. Init => TlsInv
  BY InitInv
<1>2. TlsInv /\ [Next]_vars => TlsInv'
  <2> SUFFICES ASSUME TlsInv, [Next]_vars PROVE TlsInv'
    OBVIOUS
  <2>1. CASE ParseRecord
    BY <2>1, AlertStep, CcsStep, ApplicationDataStep, NotTlsStep,
       HandshakeRecordStep DEF ParseRecord
  <2>2. CASE ParseMessage
    BY <2>2, ClientHelloStep, ServerHelloStep, CertificateStep, KeyExchangeStep, FinishedStep,
       SkipStep,
       WaitStep, MisreadStep DEF ParseMessage
  <2>3. CASE EndOfStream
    BY <2>3, EndStep
  <2>4. CASE MergeTls
    BY <2>4, MergeStep
  <2>5. CASE UNCHANGED vars
    BY <2>5, StutterInv
  <2>6. QED
    BY <2>1, <2>2, <2>3, <2>4, <2>5 DEF Next
<1>3. QED
  BY <1>1, <1>2, PTL DEF Spec

(* However the messages are cut and wherever the capture ends, a session   *)
(* record names only what was sent (tls_parser.py, _merge_tls).            *)
THEOREM NothingIsInvented == Spec => []NothingInvented
<1>1. TlsInv => NothingInvented
  BY DEF TlsInv
<1>2. QED
  BY <1>1, TlsInvariant, PTL

(* How many messages share a record does not matter: if no message is cut, *)
(* nothing refused and the capture whole, the record shows all the events, *)
(* chains and readable alerts, in order.                                   *)
THEOREM ReportIsExact == Spec => []ReportExact
<1>1. TlsInv => ReportExact
  BY DEF TlsInv
<1>2. QED
  BY <1>1, TlsInvariant, PTL

(* The inductive invariant of the comparison: of a stream in which no      *)
(* message is cut and no hello refused, parse_stream knows after each item *)
(* what the analysis knows after as many messages.                         *)
THEOREM PaceInvariant == Spec => []KeepsPace
<1>1. Init => TlsInv /\ KeepsPace
  BY InitInv, InitKept
<1>2. TlsInv /\ KeepsPace /\ [Next]_vars => KeepsPace'
  BY StepKept
<1>3. QED
  BY <1>1, <1>2, TlsInvariant, PTL DEF Spec

(* What the parser and _merge_tls make of a connection, record by record,  *)
(* is the session the analysis computes of its messages.                   *)
THEOREM ParserIsPipeline == Spec => []ParserMatchesPipeline
<1>1. Init => ParserMatchesPipeline
  BY DEF Init, ParserMatchesPipeline
<1>2. TlsInv /\ KeepsPace /\ ParserMatchesPipeline /\ [Next]_vars => ParserMatchesPipeline'
  BY StepMatches
<1>3. QED
  BY <1>1, <1>2, TlsInvariant, PaceInvariant, PTL DEF Spec
=============================================================================
