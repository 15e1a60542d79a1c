---------------------------- MODULE ImuDriverProofs ----------------------------
(***************************************************************************)
(* ImuDriver for frames of every length, every protocol and any number of  *)
(* faults.                                                                 *)
(*                                                                         *)
(* The bytes that are not parsed yet are those of the buffer and of the    *)
(* port, one after the other.  A scar is a place among them that shows a   *)
(* fault: a damaged byte, or one that is not followed by its successor.    *)
(* The argument for DamageIsLocal is that a fault leaves one scar at most, *)
(* and that the parser loses two headers at most for each scar that it     *)
(* consumes.                                                               *)
(*                                                                         *)
(* The library's induction theorems take an operator, which none of the    *)
(* provers can instantiate: induction is proved here for sets.             *)
(***************************************************************************)
EXTENDS ImuDriver, FiniteSetTheorems, SequenceTheorems, TLAPS

(***************************************************************************)
(* The inductive invariant.                                                *)
(***************************************************************************)

BytesOf(size) == [kind : Kinds, at : 1 .. size, head : BOOLEAN, ok : BOOLEAN]

Places(size) == [kind : Kinds, at : 1 .. size]

\* In frames of this size, the byte is followed by a header or the next of its frame.
Follows(size, byte, next) ==
  IF byte.at = size THEN next.at = 1 ELSE next.kind = byte.kind /\ next.at = byte.at + 1

\* After the last byte comes what the sensor sends next.
After(bytes, next, i) == IF i = Len(bytes) THEN next ELSE bytes[i + 1]

Scarred(size, bytes, next, i) ==
  ~bytes[i].ok \/ ~Follows(size, bytes[i], After(bytes, next, i))

Scars(size, bytes, next) == {i \in 1 .. Len(bytes) : Scarred(size, bytes, next, i)}

Unparsed == rxBuffer \o port

\* A byte at a header's place looks like one unless it is damaged; so do others, if they
\* are damaged or hold data that happens to.
HeadersShow(bytes, aliased) ==
  \A i \in 1 .. Len(bytes) :
    /\ bytes[i].ok /\ bytes[i].at = 1 => bytes[i].head
    /\ ~aliased /\ bytes[i].ok /\ bytes[i].head => bytes[i].at = 1

StreamShape ==
  /\ turn \in Places(FrameBytes)
  /\ {rxBuffer, port} \subseteq Seq(BytesOf(FrameBytes))
  /\ wire = <<>>
  /\ HeadersShow(Unparsed, alias)

\* Two lost headers cost a fault.
Charged ==
  IF alias THEN lost = 0
           ELSE lost + 2 * Cardinality(Scars(FrameBytes, Unparsed, turn)) <= 2 * faults

\* Without a fault the parser stands at the beginning of a frame.
InStep ==
  faults = 0 =>
    /\ Scars(FrameBytes, Unparsed, turn) = {}
    /\ IF Len(Unparsed) = 0 THEN turn.at = 1 ELSE Unparsed[1].at = 1

Replies == [kind : Kinds, damage : {"none", "length", "other"}]

\* The replies are of the kind that was asked for.
Answer(replies, addr) == \A i \in 1 .. Len(replies) : replies[i].kind = addr

\* Until a reply is late, one reply is under way at most, and it answers the current
\* request.
OneAtATime ==
  ~late =>
    /\ Len(wire) + Len(port) + Len(rxBuffer) <= IF waitingResponse THEN 1 ELSE 0
    /\ \A replies \in {wire, port, rxBuffer} : Answer(replies, currentRequestAddr)

ImuShape ==
  /\ protocol \in Protocols /\ alias \in {FALSE, Streams}
  /\ {parsing, waitingResponse, late} \subseteq BOOLEAN
  /\ faults \in Nat /\ lost \in Nat
  /\ data \in [Kinds -> {"none", "right", "wrong"}]
  /\ modbusIndex \in Kinds /\ currentRequestAddr \in {0} \cup Kinds

StreamInv == StreamShape /\ Charged /\ (CAN => InStep)

RequestInv == lost = 0 /\ {wire, port, rxBuffer} \subseteq Seq(Replies) /\ OneAtATime

ImuInv ==
  ImuShape /\ (Streams => StreamInv) /\ (~Streams => RequestInv) /\ WrongNeedsCause

(***************************************************************************)
(* Induction, and the least element, for sets of natural numbers.          *)
(***************************************************************************)

\* Were a number missing, to add one would map the members below it into themselves:
\* one to one, but never to zero, which no finite set allows.
LEMMA EveryNatural ==
  ASSUME NEW P \in SUBSET Nat, 0 \in P, \A n \in P : n + 1 \in P
  PROVE  \A n \in Nat : n \in P
<1> SUFFICES ASSUME NEW m \in Nat, m \notin P
             PROVE  FALSE
  OBVIOUS
<1> DEFINE S == {n \in 0 .. m : n \in P}
           f == [n \in S |-> n + 1]
<1>1. IsFiniteSet(S)
  <2>1. IsFiniteSet(0 .. m)
    BY FS_Interval
  <2>2. S \in SUBSET (0 .. m)
    OBVIOUS
  <2> QED BY <2>1, <2>2, FS_Subset
<1>2. \A n \in S : n + 1 \in S
  OBVIOUS
<1>3. f \in [S -> S]
  BY <1>2
<1>4. f \in Injection(S, S)
  BY <1>3 DEF Injection, IsInjective
<1>5. f \in Surjection(S, S)
  BY <1>1, <1>4, FS_Injection
<1>6. 0 \in S
  OBVIOUS
<1>7. PICK n \in S : f[n] = 0
  BY <1>5, <1>6 DEF Surjection
<1> QED BY <1>7

LEMMA LeastElement ==
  ASSUME NEW S \in SUBSET Nat, NEW n \in S
  PROVE  \E m \in S : \A k \in S : m <= k
<1> SUFFICES ASSUME \A m \in S : \E k \in S : ~(m <= k)
             PROVE  FALSE
  OBVIOUS
<1> DEFINE P == {m \in Nat : \A k \in 0 .. m : k \notin S}
<1>1. 0 \in P
  OBVIOUS
<1>2. ASSUME NEW m \in P
      PROVE  m + 1 \in P
  <2>1. \A k \in S : m + 1 <= k
    OBVIOUS
  <2>2. m + 1 \notin S
    BY <2>1
  <2> QED BY <2>2
<1>3. P \in SUBSET Nat
  OBVIOUS
<1> HIDE DEF P
<1>4. n \in P
  BY <1>1, <1>2, <1>3, EveryNatural
<1> QED BY <1>4 DEF P

(***************************************************************************)
(* Bytes and frames.                                                       *)
(***************************************************************************)

LEMMA KindsFollow ==
  /\ 1 \in Kinds
  /\ \A k \in Kinds : Following(k) \in Kinds
<1>0. 1 \in Kinds
  BY ImuAssumption DEF Kinds, ImuAssumption
<1> SUFFICES ASSUME NEW k \in Kinds
             PROVE  Following(k) \in Kinds
  BY <1>0
<1>1. k \in Nat /\ 3 + Axes \in Nat /\ 3 + Axes >= 4
  BY ImuAssumption DEF Kinds, ImuAssumption
<1> DEFINE n == IF ByAxis THEN 3 + Axes ELSE 4
<1>2. n \in Nat /\ n >= 4 /\ n <= 3 + Axes
  BY <1>1
<1>3. Following(k) = (k % n) + 1
  BY DEF Following
<1> HIDE DEF n
<1>4. k % n \in 0 .. n - 1
  BY <1>1, <1>2
<1> QED BY <1>1, <1>2, <1>3, <1>4 DEF Kinds

\* From a header on, the bytes count up while there is no scar.
LEMMA RunFromHeader ==
  ASSUME NEW size \in Nat, NEW bytes \in Seq(BytesOf(size)), NEW next,
         NEW p \in 1 .. Len(bytes), bytes[p].at = 1
  PROVE  \A n \in Nat :
           n < size /\ p + n <= Len(bytes)
                    /\ (\A k \in p .. (p + n - 1) : k \notin Scars(size, bytes, next))
             => bytes[p + n].at = n + 1 /\ bytes[p + n].kind = bytes[p].kind
<1> DEFINE P == {n \in Nat :
           n < size /\ p + n <= Len(bytes)
                    /\ (\A k \in p .. (p + n - 1) : k \notin Scars(size, bytes, next))
             => bytes[p + n].at = n + 1 /\ bytes[p + n].kind = bytes[p].kind}
<1>1. 0 \in P
  OBVIOUS
<1>2. ASSUME NEW n \in P
      PROVE  n + 1 \in P
  <2> SUFFICES ASSUME n + 1 < size, p + (n + 1) <= Len(bytes),
                      \A k \in p .. (p + (n + 1) - 1) : k \notin Scars(size, bytes, next)
               PROVE  bytes[p + (n + 1)].at = (n + 1) + 1 /\ bytes[p + (n + 1)].kind = bytes[p].kind
    OBVIOUS
  <2>1. n \in Nat
    OBVIOUS
  <2>2. bytes[p + n].at = n + 1 /\ bytes[p + n].kind = bytes[p].kind
    BY <2>1
  <2>3. p + n \in 1 .. Len(bytes) /\ p + n # Len(bytes) /\ p + n \notin Scars(size, bytes, next)
    BY <2>1
  <2>4. Follows(size, bytes[p + n], bytes[p + n + 1])
    BY <2>3 DEF Scars, Scarred, After
  <2>5. bytes[p + n + 1].kind = bytes[p + n].kind /\ bytes[p + n + 1].at = bytes[p + n].at + 1
    BY <2>1, <2>2, <2>4 DEF Follows
  <2> QED BY <2>1, <2>2, <2>5
<1>3. P \in SUBSET Nat
  OBVIOUS
<1> HIDE DEF P
<1>4. \A n \in Nat : n \in P
  BY <1>1, <1>2, <1>3, EveryNatural
<1> QED BY <1>4 DEF P

\* Two headers in less than a frame have a scar between them.
LEMMA HeadersApart ==
  ASSUME NEW size \in Nat, NEW bytes \in Seq(BytesOf(size)), NEW next,
         NEW p \in 1 .. Len(bytes), NEW i \in 1 .. Len(bytes), p < i, i - p < size,
         bytes[p].at = 1, bytes[i].at = 1
  PROVE  \E k \in p .. (i - 1) : k \in Scars(size, bytes, next)
<1> SUFFICES ASSUME \A k \in p .. (i - 1) : k \notin Scars(size, bytes, next)
             PROVE  FALSE
  OBVIOUS
<1> DEFINE n == i - p
<1>1. /\ n \in Nat /\ n < size /\ p + n = i /\ n >= 1 /\ p + n <= Len(bytes)
      /\ p + n - 1 = i - 1
  OBVIOUS
<1> HIDE DEF n
<1>3. \A k \in p .. (p + n - 1) : k \notin Scars(size, bytes, next)
  BY <1>1
<1>2. bytes[p + n].at = n + 1
  BY <1>1, <1>3, RunFromHeader
<1> QED BY <1>1, <1>2

\* A frame from a header on without a scar is whole.
LEMMA UnscarredIsWhole ==
  ASSUME NEW size \in Nat, NEW bytes \in Seq(BytesOf(size)), NEW next,
         size >= 1, size <= Len(bytes), bytes[1].at = 1,
         \A k \in 1 .. size : k \notin Scars(size, bytes, next),
         NEW frame, DOMAIN frame = 1 .. size, \A i \in 1 .. size : frame[i] = bytes[i]
  PROVE  Whole(frame)
<1>1. ASSUME NEW i \in 1 .. size
      PROVE  bytes[i].ok /\ bytes[i].at = i /\ bytes[i].kind = bytes[1].kind
  <2> DEFINE n == i - 1
  <2>1. n \in Nat /\ n < size /\ 1 + n = i
    OBVIOUS
  <2> HIDE DEF n
  <2>2. bytes[1 + n].at = n + 1 /\ bytes[1 + n].kind = bytes[1].kind
    BY <2>1, RunFromHeader
  <2>3. bytes[i].ok
    BY DEF Scars, Scarred
  <2> QED BY <2>1, <2>2, <2>3
<1> QED BY <1>1 DEF Whole

(***************************************************************************)
(* Counting headers and scars.                                             *)
(***************************************************************************)

LEMMA ScarsAreFinite ==
  ASSUME NEW size, NEW bytes, Len(bytes) \in Nat, NEW next
  PROVE  /\ Scars(size, bytes, next) \in SUBSET (1 .. Len(bytes))
         /\ IsFiniteSet(Scars(size, bytes, next))
         /\ Cardinality(Scars(size, bytes, next)) \in Nat
<1>1. IsFiniteSet(1 .. Len(bytes))
  BY FS_Interval
<1>2. Scars(size, bytes, next) \in SUBSET (1 .. Len(bytes))
  BY DEF Scars
<1> QED BY <1>1, <1>2, FS_Subset, FS_CardinalityType

\* Sets of numbers between every two of which a scar lies have one more than scars at
\* most: the next scar after each, but the last, is its own.
LEMMA ScarsBetween ==
  ASSUME NEW H \in SUBSET Nat, NEW W \in SUBSET Nat, IsFiniteSet(H), IsFiniteSet(W),
         \A p, i \in H : p < i => \E k \in W : p <= k /\ k < i
  PROVE  Cardinality(H) <= Cardinality(W) + 1
<1> DEFINE G == {i \in H : \E k \in W : i <= k}
           next(i) == CHOOSE k \in W : i <= k /\ \A j \in W : i <= j => k <= j
           f == [i \in G |-> next(i)]
<1>1. ASSUME NEW i \in G
      PROVE  next(i) \in W /\ i <= next(i) /\ \A j \in W : i <= j => next(i) <= j
  <2> DEFINE S == {k \in W : i <= k}
  <2>1. PICK n \in S : TRUE
    OBVIOUS
  <2>2. S \in SUBSET Nat
    OBVIOUS
  <2> HIDE DEF S
  <2>3. PICK m \in S : \A k \in S : m <= k
    BY <2>1, <2>2, LeastElement
  <2>4. m \in W /\ i <= m /\ \A j \in W : i <= j => m <= j
    BY <2>3 DEF S
  <2> QED BY <2>4
<1>2. f \in [G -> W]
  BY <1>1
<1>3. ASSUME NEW p \in G, NEW i \in G, p < i
      PROVE  f[p] # f[i]
  <2>0. p \in H /\ i \in H
    OBVIOUS
  <2>1. PICK k \in W : p <= k /\ k < i
    BY <2>0, <1>3
  <2>2. f[p] <= k /\ i <= f[i] /\ f[p] \in Nat /\ f[i] \in Nat /\ i \in Nat /\ k \in Nat
    BY <1>1, <2>1
  <2> QED BY <2>1, <2>2
<1>4. f \in Injection(G, W)
  <2>1. \A p, i \in G : f[p] = f[i] => p = i
    <3> SUFFICES ASSUME NEW p \in G, NEW i \in G, p # i
                 PROVE  f[p] # f[i]
      OBVIOUS
    <3>1. p < i \/ i < p
      OBVIOUS
    <3> HIDE DEF f
    <3> QED BY <1>3, <3>1
  <2> HIDE DEF f, G
  <2> QED BY <1>2, <2>1 DEF Injection, IsInjective
<1>5. Cardinality(G) <= Cardinality(W) /\ IsFiniteSet(G)
  <2> HIDE DEF f, G
  <2> QED BY <1>4, FS_Injection
<1>6. CASE H \subseteq G
  <2>1. H = G
    BY <1>6
  <2> HIDE DEF G
  <2>2. Cardinality(G) \in Nat /\ Cardinality(W) \in Nat
    BY <1>5, FS_CardinalityType
  <2> QED BY <1>5, <2>1, <2>2
<1>7. CASE ~(H \subseteq G)
  <2>1. PICK last \in H : last \notin G
    BY <1>7
  <2>2. ASSUME NEW i \in H, i # last
        PROVE  i \in G
    <3>1. ASSUME last < i
          PROVE  FALSE
      <4>1. PICK k \in W : last <= k /\ k < i
        BY <3>1
      <4> QED BY <2>1, <4>1
    <3>2. i < last
      BY <3>1, <2>2
    <3>3. PICK k \in W : i <= k /\ k < last
      BY <3>2
    <3> QED BY <3>3
  <2>3. H = G \cup {last}
    BY <2>1, <2>2
  <2> HIDE DEF G
  <2>4. Cardinality(G) \in Nat /\ Cardinality(W) \in Nat
    BY <1>5, FS_CardinalityType
  <2>5. Cardinality(H) = Cardinality(G) + 1
    BY <1>5, <2>1, <2>3, FS_AddElement
  <2> QED BY <1>5, <2>4, <2>5
<1> QED BY <1>6, <1>7

\* A frame taken that is not whole loses two headers at most for a scar in it.
LEMMA LostHeaders ==
  ASSUME NEW size \in Nat, size >= 1, NEW bytes \in Seq(BytesOf(size)), NEW next,
         size <= Len(bytes), HeadersShow(bytes, FALSE), bytes[1].head,
         NEW frame, DOMAIN frame = 1 .. size, \A i \in 1 .. size : frame[i] = bytes[i],
         ~Whole(frame)
  PROVE  Cardinality({i \in DOMAIN frame : frame[i].at = 1})
           <= 2 * Cardinality({k \in Scars(size, bytes, next) : k <= size})
<1> DEFINE H == {i \in DOMAIN frame : frame[i].at = 1}
           W == {k \in Scars(size, bytes, next) : k <= size}
<1>1. IsFiniteSet(1 .. size)
  BY FS_Interval
<1>2. H \in SUBSET (1 .. size) /\ W \in SUBSET (1 .. size)
  BY DEF Scars
<1>3. \A i \in H : i \in 1 .. Len(bytes) /\ i \in 1 .. size /\ bytes[i].at = 1
  OBVIOUS
<1>4. \A k \in 1 .. size : k \in W <=> k \in Scars(size, bytes, next)
  OBVIOUS
<1>5. W # {}
  <2>1. CASE bytes[1].at = 1
    BY <2>1, <1>4, UnscarredIsWhole
  <2>2. CASE bytes[1].at # 1
    <3>1. ~bytes[1].ok
      BY <2>2 DEF HeadersShow
    <3>2. 1 \in Scars(size, bytes, next)
      BY <3>1 DEF Scars, Scarred
    <3> QED BY <3>2
  <2> QED BY <2>1, <2>2
<1> HIDE DEF H, W
<1>6. /\ IsFiniteSet(H) /\ IsFiniteSet(W)
      /\ Cardinality(H) \in Nat /\ Cardinality(W) \in Nat
  BY <1>1, <1>2, FS_Subset, FS_CardinalityType
<1>7. ASSUME NEW p \in H, NEW i \in H, p < i
      PROVE  \E k \in W : p <= k /\ k < i
  <2>1. p \in 1 .. size /\ i \in 1 .. size /\ i - p < size
    BY <1>3
  <2>2. PICK k \in p .. (i - 1) : k \in Scars(size, bytes, next)
    BY <1>3, <1>7, <2>1, HeadersApart
  <2>3. k \in 1 .. size /\ p <= k /\ k < i
    BY <2>1
  <2> QED BY <1>4, <2>2, <2>3
<1>8. Cardinality(H) <= Cardinality(W) + 1
  <2>1. H \in SUBSET Nat /\ W \in SUBSET Nat
    BY <1>2
  <2> QED BY <1>6, <1>7, <2>1, ScarsBetween
<1>9. Cardinality(W) # 0
  BY <1>5, <1>6, FS_EmptySet
<1>10. Cardinality(H) <= 2 * Cardinality(W)
  BY <1>6, <1>8, <1>9
<1> QED BY <1>10 DEF H, W

\* What is left of a sequence when its first n elements are taken.
IsRest(rest, seq, n) ==
  Len(rest) = Len(seq) - n /\ \A i \in 1 .. Len(rest) : rest[i] = seq[i + n]

\* When bytes are consumed, the headers among the others still look like headers.
LEMMA HeadersStay ==
  ASSUME NEW bytes, NEW rest, Len(bytes) \in Nat, NEW n \in 0 .. Len(bytes),
         IsRest(rest, bytes, n), NEW aliased, HeadersShow(bytes, aliased)
  PROVE  HeadersShow(rest, aliased)
<1>1. ASSUME NEW i \in 1 .. Len(rest)
      PROVE  i + n \in 1 .. Len(bytes) /\ rest[i] = bytes[i + n]
  BY DEF IsRest
<1>2. ASSUME NEW i \in 1 .. Len(rest)
      PROVE  /\ rest[i].ok /\ rest[i].at = 1 => rest[i].head
             /\ ~aliased /\ rest[i].ok /\ rest[i].head => rest[i].at = 1
  BY <1>1 DEF HeadersShow
<1> QED BY <1>2 DEF HeadersShow

\* When bytes are consumed, the scars among the others stay.
LEMMA ScarsDropped ==
  ASSUME NEW size, NEW bytes, NEW rest, NEW next, Len(bytes) \in Nat,
         NEW n \in 0 .. Len(bytes), IsRest(rest, bytes, n)
  PROVE  /\ Cardinality({k \in Scars(size, bytes, next) : k <= n}) \in Nat
         /\ Cardinality(Scars(size, bytes, next))
              = Cardinality({k \in Scars(size, bytes, next) : k <= n})
                  + Cardinality(Scars(size, rest, next))
         /\ Scars(size, bytes, next) = {} => Scars(size, rest, next) = {}
<1> DEFINE S == Scars(size, bytes, next)
           A == {k \in S : k <= n}
           B == S \ A
           R == Scars(size, rest, next)
           f == [i \in R |-> i + n]
<1>1. S \in SUBSET (1 .. Len(bytes)) /\ IsFiniteSet(S) /\ Cardinality(S) \in Nat
  BY ScarsAreFinite
<1>2. Len(rest) \in Nat /\ Len(rest) = Len(bytes) - n
  BY DEF IsRest
<1>3. IsFiniteSet(R) /\ Cardinality(R) \in Nat /\ R \in SUBSET (1 .. Len(rest))
  BY <1>2, ScarsAreFinite
<1>4. ASSUME NEW i \in 1 .. Len(rest)
      PROVE  i \in R <=> i + n \in S
  <2>1. i + n \in 1 .. Len(bytes) /\ rest[i] = bytes[i + n]
    BY <1>2 DEF IsRest
  <2>2. After(rest, next, i) = After(bytes, next, i + n)
    <3>1. CASE i = Len(rest)
      BY <1>2, <3>1 DEF After
    <3>2. CASE i # Len(rest)
      <4>1. i + 1 \in 1 .. Len(rest) /\ i + n # Len(bytes) /\ (i + 1) + n = (i + n) + 1
        BY <1>2, <3>2
      <4>2. rest[i + 1] = bytes[(i + n) + 1]
        BY <4>1 DEF IsRest
      <4> QED BY <3>2, <4>1, <4>2 DEF After
    <3> QED BY <3>1, <3>2
  <2>3. Scarred(size, rest, next, i) <=> Scarred(size, bytes, next, i + n)
    BY <2>1, <2>2 DEF Scarred
  <2> QED BY <2>1, <2>3 DEF Scars
<1>5. A \in SUBSET S /\ S \cap A = A
  OBVIOUS
<1>6. f \in Bijection(R, B)
  <2>1. \A i \in R : i + n \in B
    BY <1>3, <1>4
  <2>2. \A k \in B : k - n \in R
    <3> SUFFICES ASSUME NEW k \in B
                 PROVE  k - n \in R
      OBVIOUS
    <3>1. k \in S /\ k \in 1 .. Len(bytes) /\ ~(k <= n)
      BY <1>1
    <3>2. k - n \in 1 .. Len(rest) /\ (k - n) + n = k
      BY <1>2, <3>1
    <3> QED BY <1>4, <3>1, <3>2
  <2>3. R \in SUBSET Int /\ B \in SUBSET Int
    BY <1>1, <1>3
  <2> HIDE DEF R, B
  <2>4. f \in [R -> B]
    BY <2>1
  <2>5. \A i, j \in R : f[i] = f[j] => i = j
    BY <2>3
  <2>6. \A k \in B : \E i \in R : f[i] = k
    BY <2>2, <2>3
  <2> HIDE DEF f
  <2> QED BY <2>4, <2>5, <2>6 DEF Bijection, Injection, IsInjective, Surjection
<1>7. S = {} => R = {}
  BY <1>3, <1>4
<1>12. Cardinality(B) = Cardinality(S) - Cardinality(S \cap A)
  <2> HIDE DEF S, A
  <2> QED BY <1>1, FS_Difference
<1> HIDE DEF S, R, A, B, f
<1>8. Cardinality(R) = Cardinality(B)
  <2>1. ExistsBijection(R, B)
    BY <1>6 DEF ExistsBijection
  <2>2. IsFiniteSet(R)
    BY <1>3
  <2> QED BY <2>1, <2>2, FS_Bijection
<1>9. Cardinality(B) = Cardinality(S) - Cardinality(A)
  BY <1>5, <1>12
<1>10. Cardinality(A) \in Nat
  BY <1>1, <1>5, FS_Subset, FS_CardinalityType
<1>11. Cardinality(S) = Cardinality(A) + Cardinality(R)
  BY <1>1, <1>3, <1>8, <1>9, <1>10
<1> QED BY <1>7, <1>10, <1>11 DEF S, A, R

\* A sequence to which an element was appended.
IsMore(more, seq, last) ==
  /\ Len(more) = Len(seq) + 1 /\ more[Len(seq) + 1] = last
  /\ \A i \in 1 .. Len(seq) : more[i] = seq[i]

\* A byte that follows leaves no scar, unless it is damaged, then its own.
LEMMA ScarsAppended ==
  ASSUME NEW size, NEW bytes, NEW more, NEW next, NEW then, NEW byte, Len(bytes) \in Nat,
         IsMore(more, bytes, byte),
         byte.kind = next.kind, byte.at = next.at, Follows(size, byte, then)
  PROVE  Scars(size, more, then)
           = Scars(size, bytes, next) \cup (IF byte.ok THEN {} ELSE {Len(bytes) + 1})
<1> USE DEF IsMore
<1>1. ASSUME NEW i \in 1 .. Len(bytes)
      PROVE  Scarred(size, more, then, i) <=> Scarred(size, bytes, next, i)
  <2>1. more[i] = bytes[i] /\ i # Len(more)
    OBVIOUS
  <2>2. CASE i = Len(bytes)
    <3>1. After(more, then, i) = byte /\ After(bytes, next, i) = next
      BY <2>2 DEF After
    <3>2. Follows(size, bytes[i], byte) <=> Follows(size, bytes[i], next)
      BY DEF Follows
    <3> QED BY <2>1, <3>1, <3>2 DEF Scarred
  <2>3. CASE i # Len(bytes)
    <3>1. After(more, then, i) = After(bytes, next, i)
      BY <2>1, <2>3 DEF After
    <3> QED BY <2>1, <3>1 DEF Scarred
  <2> QED BY <2>2, <2>3
<1>2. Scarred(size, more, then, Len(bytes) + 1) <=> ~byte.ok
  BY DEF Scarred, After
<1>3. 1 .. Len(more) = (1 .. Len(bytes)) \cup {Len(bytes) + 1}
  OBVIOUS
<1>4. CASE byte.ok
  BY <1>1, <1>2, <1>3, <1>4 DEF Scars
<1>5. CASE ~byte.ok
  BY <1>1, <1>2, <1>3, <1>5 DEF Scars
<1> QED BY <1>4, <1>5

\* A byte that gets lost leaves a scar at most, at the byte before it.
LEMMA ScarsOfLoss ==
  ASSUME NEW size, NEW bytes, NEW next, NEW then, Len(bytes) \in Nat
  PROVE  Scars(size, bytes, then) \subseteq Scars(size, bytes, next) \cup {Len(bytes)}
<1>1. ASSUME NEW i \in 1 .. Len(bytes), i # Len(bytes)
      PROVE  Scarred(size, bytes, then, i) <=> Scarred(size, bytes, next, i)
  <2>1. After(bytes, then, i) = After(bytes, next, i)
    BY <1>1 DEF After
  <2> QED BY <2>1 DEF Scarred
<1> QED BY <1>1 DEF Scars

LEMMA OneMore ==
  ASSUME NEW S, NEW T, NEW x, IsFiniteSet(S), T \subseteq S \cup {x}
  PROVE  Cardinality(T) \in Nat /\ Cardinality(T) <= Cardinality(S) + 1
<1>1. IsFiniteSet(S \cup {x}) /\ Cardinality(S) \in Nat
  BY FS_AddElement, FS_CardinalityType
<1>2. Cardinality(S \cup {x}) <= Cardinality(S) + 1 /\ Cardinality(S \cup {x}) \in Nat
  BY <1>1, FS_AddElement, FS_CardinalityType
<1>3. Cardinality(T) \in Nat /\ Cardinality(T) <= Cardinality(S \cup {x})
  BY <1>1, FS_Subset, FS_CardinalityType
<1> QED BY <1>1, <1>2, <1>3

(***************************************************************************)
(* The stream of bytes.                                                    *)
(***************************************************************************)

LEMMA FrameLength == Streams => FrameBytes \in Nat /\ FrameBytes >= 2
BY ImuAssumption DEF Streams, FrameBytes, TTL, CAN

\* Protocols are set up once.
LEMMA ProtocolStays ==
  ASSUME protocol' = protocol
  PROVE  (Streams <=> Streams') /\ FrameBytes' = FrameBytes
BY DEF Streams, FrameBytes, TTL, CAN

LEMMA UnparsedBytes ==
  ASSUME NEW S, rxBuffer \in Seq(S), port \in Seq(S)
  PROVE  /\ Unparsed \in Seq(S)
         /\ Len(rxBuffer) \in Nat /\ Len(port) \in Nat /\ Len(Unparsed) = Len(rxBuffer) + Len(port)
         /\ \A i \in 1 .. Len(Unparsed) :
              Unparsed[i] = IF i <= Len(rxBuffer) THEN rxBuffer[i] ELSE port[i - Len(rxBuffer)]
BY ConcatProperties, LenProperties DEF Unparsed

LEMMA PastTheEnd ==
  ASSUME NEW i \in Int, NEW n \in Int, NEW a \in Int, NEW b \in Int, b = a - n, ~(i <= b)
  PROVE  ~(i + n <= a) /\ (i + n) - a = i - b
OBVIOUS

LEMMA RestOfConcat ==
  ASSUME NEW S, NEW s \in Seq(S), NEW t \in Seq(S), NEW n \in 0 .. Len(s),
         NEW r \in Seq(S), IsRest(r, s, n)
  PROVE  r \o t \in Seq(S) /\ IsRest(r \o t, s \o t, n)
<1> DEFINE a == Len(s)
           b == Len(r)
           c == Len(t)
<1>1. a \in Nat /\ b \in Nat /\ c \in Nat /\ n \in 0 .. a /\ b = a - n
  BY LenProperties DEF IsRest
<1>2. /\ r \o t \in Seq(S) /\ Len(r \o t) = b + c
      /\ \A i \in 1 .. b + c : (r \o t)[i] = IF i <= b THEN r[i] ELSE t[i - b]
  BY ConcatProperties
<1>3. /\ Len(s \o t) = a + c
      /\ \A i \in 1 .. a + c : (s \o t)[i] = IF i <= a THEN s[i] ELSE t[i - a]
  BY ConcatProperties
<1>4. \A i \in 1 .. b : r[i] = s[i + n]
  BY DEF IsRest
<1> DEFINE rt == r \o t
           st == s \o t
<1> HIDE DEF a, b, c, rt, st
<1>5. ASSUME NEW i \in 1 .. b + c
      PROVE  rt[i] = st[i + n]
  <2>1. i + n \in 1 .. a + c
    BY <1>1
  <2>2. CASE i <= b
    <3>1. i + n <= a /\ i \in 1 .. b
      BY <1>1, <2>2
    <3>2. rt[i] = r[i]
      BY <1>2, <2>2 DEF rt
    <3>3. st[i + n] = s[i + n]
      BY <1>3, <2>1, <3>1 DEF st
    <3> QED BY <1>4, <3>1, <3>2, <3>3
  <2>3. CASE ~(i <= b)
    <3>1. ~(i + n <= a) /\ (i + n) - a = i - b
      BY <1>1, <2>3, PastTheEnd
    <3>2. rt[i] = t[i - b]
      BY <1>2, <2>3 DEF rt
    <3>3. st[i + n] = t[(i + n) - a]
      BY <1>3, <2>1, <3>1 DEF st
    <3> QED BY <3>1, <3>2, <3>3
  <2> QED BY <2>2, <2>3
<1>6. b + c = (a + c) - n
  BY <1>1
<1>7. rt \in Seq(S) /\ Len(rt) = b + c /\ Len(st) = a + c
  BY <1>2, <1>3 DEF rt, st
<1>8. IsRest(rt, st, n)
  BY <1>5, <1>6, <1>7 DEF IsRest
<1> QED BY <1>7, <1>8 DEF rt, st

\* What the parser consumes it takes from the front.
LEMMA Consumed ==
  ASSUME NEW S, rxBuffer \in Seq(S), port \in Seq(S), NEW n \in 0 .. Len(rxBuffer),
         rxBuffer' = SubSeq(rxBuffer, n + 1, Len(rxBuffer)), port' = port
  PROVE  rxBuffer' \in Seq(S) /\ Unparsed' \in Seq(S) /\ IsRest(Unparsed', Unparsed, n)
<1> DEFINE rest == SubSeq(rxBuffer, n + 1, Len(rxBuffer))
<1>1. Len(rxBuffer) \in Nat
  BY LenProperties
<1>2. \A i \in n + 1 .. Len(rxBuffer) : rxBuffer[i] \in S
  BY <1>1, ElementOfSeq
<1>3. n + 1 \in Int /\ Len(rxBuffer) \in Int
  BY <1>1
<1>4. /\ rest \in Seq(S)
      /\ Len(rest) = IF n + 1 <= Len(rxBuffer) THEN Len(rxBuffer) - (n + 1) + 1 ELSE 0
      /\ \A i \in 1 .. Len(rxBuffer) - (n + 1) + 1 : rest[i] = rxBuffer[(n + 1) + i - 1]
  BY <1>2, <1>3, SubSeqProperties
<1>5. \A i \in 1 .. Len(rxBuffer) - n :
        i \in 1 .. Len(rxBuffer) - (n + 1) + 1 /\ (n + 1) + i - 1 = i + n
  BY <1>1
<1>6. Len(rest) = Len(rxBuffer) - n
  BY <1>1, <1>4
<1> HIDE DEF rest
<1>7. IsRest(rest, rxBuffer, n)
  BY <1>4, <1>5, <1>6 DEF IsRest
<1>8. rest \o port \in Seq(S) /\ IsRest(rest \o port, rxBuffer \o port, n)
  BY <1>4, <1>7, RestOfConcat
<1>9. rxBuffer' = rest /\ Unparsed' = rest \o port
  BY DEF Unparsed, rest
<1> QED BY <1>4, <1>8, <1>9 DEF Unparsed

\* The sensor's turn goes through the frame and on to the next.
LEMMA TurnFollows ==
  ASSUME Streams, turn \in Places(FrameBytes),
         turn' = [kind |-> IF turn.at = FrameBytes THEN Following(turn.kind) ELSE turn.kind,
                  at |-> (turn.at % FrameBytes) + 1]
  PROVE  /\ turn' \in Places(FrameBytes)
         /\ \A byte : byte.kind = turn.kind /\ byte.at = turn.at => Follows(FrameBytes, byte, turn')
<1> DEFINE size == FrameBytes
<1>1. size \in Nat /\ size >= 2 /\ turn.at \in 1 .. size /\ turn.kind \in Kinds
  BY FrameLength, KindsFollow DEF Places
<1> HIDE DEF size
<1>2. (turn.at % size) + 1 = IF turn.at = size THEN 1 ELSE turn.at + 1
  <2>1. CASE turn.at = size
    <3>1. size % size = 0
      BY <1>1
    <3> QED BY <1>1, <2>1, <3>1
  <2>2. CASE turn.at # size
    <3>1. turn.at % size = turn.at
      BY <1>1, <2>2
    <3> QED BY <2>2, <3>1
  <2> QED BY <2>1, <2>2
<1>3. turn'.at = (IF turn.at = size THEN 1 ELSE turn.at + 1) /\ turn'.at \in 1 .. size
  BY <1>1, <1>2 DEF size
<1>4. /\ turn'.kind = (IF turn.at = size THEN Following(turn.kind) ELSE turn.kind)
      /\ turn'.kind \in Kinds
  BY <1>1, KindsFollow DEF size
<1>5. turn' \in Places(size)
  BY <1>3, <1>4, KindsFollow DEF Places
<1>6. \A byte : byte.kind = turn.kind /\ byte.at = turn.at => Follows(size, byte, turn')
  BY <1>3, <1>4 DEF Follows
<1> QED BY <1>5, <1>6 DEF size

\* The parser pays for the headers that it loses with the scars that it consumes.
LEMMA StreamConsumed ==
  ASSUME ImuShape, StreamShape, Charged, NEW n \in 1 .. Len(rxBuffer),
         rxBuffer' = SubSeq(rxBuffer, n + 1, Len(rxBuffer)),
         UNCHANGED <<protocol, alias, turn, wire, port, faults>>,
         NEW k \in Nat, lost' = lost + k,
         IF alias THEN k = 0
                  ELSE k <= 2 * Cardinality({i \in Scars(FrameBytes, Unparsed, turn) : i <= n})
  PROVE  /\ StreamShape' /\ Charged' /\ lost' \in Nat
         /\ IsRest(Unparsed', Unparsed, n)
         /\ Scars(FrameBytes, Unparsed, turn) = {} => Scars(FrameBytes, Unparsed', turn) = {}
<1> DEFINE S == BytesOf(FrameBytes)
           q == Unparsed
           r == Unparsed'
<1>1. rxBuffer \in Seq(S) /\ port \in Seq(S)
  BY DEF StreamShape
<1>2. /\ q \in Seq(S) /\ Len(rxBuffer) \in Nat /\ Len(port) \in Nat
      /\ Len(q) = Len(rxBuffer) + Len(port)
  BY <1>1, UnparsedBytes
<1>3. n \in 0 .. Len(rxBuffer) /\ n \in 0 .. Len(q) /\ Len(q) \in Nat
  BY <1>2
<1>4. rxBuffer' \in Seq(S) /\ r \in Seq(S) /\ IsRest(r, q, n)
  BY <1>1, <1>3, Consumed
<1>5. FrameBytes' = FrameBytes
  BY ProtocolStays
<1>6. HeadersShow(r, alias)
  <2>1. HeadersShow(q, alias)
    BY DEF StreamShape
  <2> HIDE DEF r, q
  <2> QED BY <1>3, <1>4, <2>1, HeadersStay
<1>7. StreamShape'
  BY <1>1, <1>4, <1>5, <1>6 DEF StreamShape
<1> DEFINE A == Cardinality({i \in Scars(FrameBytes, q, turn) : i <= n})
           R == Cardinality(Scars(FrameBytes, r, turn))
<1> HIDE DEF r, q
<1>8. /\ A \in Nat
      /\ Cardinality(Scars(FrameBytes, q, turn)) = A + R
      /\ Scars(FrameBytes, q, turn) = {} => Scars(FrameBytes, r, turn) = {}
  BY <1>3, <1>4, ScarsDropped
<1>9. R \in Nat
  <2>1. Len(r) \in Nat
    BY <1>4, LenProperties
  <2> QED BY <2>1, ScarsAreFinite
<1>10. lost' \in Nat /\ lost \in Nat /\ faults \in Nat
  BY DEF ImuShape
<1>11. Charged'
  <2>1. CASE alias
    BY <2>1 DEF Charged
  <2>2. CASE ~alias
    <3>1. lost + 2 * (A + R) <= 2 * faults
      BY <1>8, <2>2 DEF Charged, q
    <3>2. k <= 2 * A
      BY <2>2 DEF A, q
    <3> HIDE DEF A, R
    <3>3. lost' + 2 * R <= 2 * faults
      BY <1>8, <1>9, <1>10, <3>1, <3>2
    <3> QED BY <1>5, <2>2, <3>3 DEF Charged, R, r
  <2> QED BY <2>1, <2>2
<1> QED BY <1>4, <1>7, <1>8, <1>10, <1>11 DEF q, r

\* Where the buffer is not empty, the first unparsed byte is its first.
LEMMA FirstUnparsed ==
  ASSUME Streams, StreamShape, Len(rxBuffer) >= FrameBytes
  PROVE  /\ FrameBytes \in Nat /\ FrameBytes >= 2
         /\ Len(rxBuffer) \in Nat /\ rxBuffer # <<>>
         /\ Unparsed \in Seq(BytesOf(FrameBytes)) /\ Len(Unparsed) \in Nat
         /\ FrameBytes <= Len(Unparsed)
         /\ \A i \in 1 .. FrameBytes : rxBuffer[i] = Unparsed[i]
         /\ Head(rxBuffer) = Unparsed[1]
<1>1. FrameBytes \in Nat /\ FrameBytes >= 2
  BY FrameLength
<1>2. rxBuffer \in Seq(BytesOf(FrameBytes)) /\ port \in Seq(BytesOf(FrameBytes))
  BY DEF StreamShape
<1>3. /\ Unparsed \in Seq(BytesOf(FrameBytes))
      /\ Len(rxBuffer) \in Nat /\ Len(port) \in Nat /\ Len(Unparsed) = Len(rxBuffer) + Len(port)
      /\ \A i \in 1 .. Len(Unparsed) :
           Unparsed[i] = IF i <= Len(rxBuffer) THEN rxBuffer[i] ELSE port[i - Len(rxBuffer)]
  BY <1>2, UnparsedBytes
<1>4. \A i \in 1 .. FrameBytes : i \in 1 .. Len(Unparsed) /\ i <= Len(rxBuffer)
  BY <1>1, <1>3
<1>5. \A i \in 1 .. FrameBytes : rxBuffer[i] = Unparsed[i]
  BY <1>3, <1>4
<1>6. rxBuffer # <<>> /\ Head(rxBuffer) = rxBuffer[1]
  BY <1>1, <1>2, <1>3
<1>7. 1 \in 1 .. FrameBytes
  BY <1>1
<1> QED BY <1>1, <1>3, <1>5, <1>6, <1>7

LEMMA PopByteKept == ImuInv /\ PopByte => ImuInv'
<1> SUFFICES ASSUME ImuInv, PopByte
             PROVE  ImuInv'
  OBVIOUS
<1>1. /\ Streams /\ ImuShape /\ StreamShape /\ Charged /\ WrongNeedsCause
      /\ CAN => InStep
  BY DEF ImuInv, StreamInv, PopByte
<1>2. /\ ~Head(rxBuffer).head /\ rxBuffer' = Tail(rxBuffer)
      /\ lost' = lost + Lost(<<Head(rxBuffer)>>)
      /\ Len(rxBuffer) >= FrameBytes
      /\ UNCHANGED <<protocol, alias, turn, wire, port, faults, late, parsing, modbusIndex,
                     waitingResponse, currentRequestAddr, data>>
  BY DEF PopByte, AtHeader, Remaining, request
<1> DEFINE q == Unparsed
           first == q[1]
<1>3. /\ FrameBytes \in Nat /\ FrameBytes >= 2 /\ Len(rxBuffer) \in Nat /\ rxBuffer # <<>>
      /\ q \in Seq(BytesOf(FrameBytes)) /\ Len(q) \in Nat /\ FrameBytes <= Len(q)
      /\ Head(rxBuffer) = first
  BY <1>1, <1>2, FirstUnparsed
<1>4. rxBuffer' = SubSeq(rxBuffer, 1 + 1, Len(rxBuffer))
  BY <1>1, <1>2, <1>3, TailIsSubSeq DEF StreamShape
<1>5. HeadersShow(q, alias)
  BY <1>1 DEF StreamShape
<1> HIDE DEF q
<1>6. 1 \in 1 .. Len(q) /\ 1 \in 1 .. Len(rxBuffer)
  BY <1>2, <1>3
<1>7. first.at = 1 => 1 \in Scars(FrameBytes, q, turn)
  BY <1>2, <1>3, <1>5, <1>6 DEF HeadersShow, Scars, Scarred
<1> DEFINE k == Lost(<<first>>)
           A == {i \in Scars(FrameBytes, q, turn) : i <= 1}
<1>8. k \in Nat /\ IF alias THEN k = 0 ELSE k <= 2 * Cardinality(A)
  <2>0. DOMAIN <<first>> = {1} /\ <<first>>[1] = first
    OBVIOUS
  <2>1. CASE alias
    BY <2>1 DEF Lost
  <2>2. CASE ~alias /\ first.at = 1
    <3>1. {i \in DOMAIN <<first>> : <<first>>[i].at = 1} = {1}
      BY <2>0, <2>2
    <3>2. k = 1
      BY <2>2, <3>1, FS_Singleton DEF Lost
    <3>3. A = {1}
      BY <1>7, <2>2 DEF Scars
    <3>4. Cardinality(A) = 1
      BY <3>3, FS_Singleton
    <3> HIDE DEF k, A
    <3> QED BY <2>2, <3>2, <3>4
  <2>3. CASE ~alias /\ first.at # 1
    <3>1. {i \in DOMAIN <<first>> : <<first>>[i].at = 1} = {}
      BY <2>0, <2>3
    <3>2. k = 0
      BY <2>3, <3>1, FS_EmptySet DEF Lost
    <3>3. Cardinality(A) \in Nat
      <4>1. A \in SUBSET Scars(FrameBytes, q, turn) /\ IsFiniteSet(Scars(FrameBytes, q, turn))
        BY <1>3, ScarsAreFinite
      <4> HIDE DEF A
      <4> QED BY <4>1, FS_Subset, FS_CardinalityType
    <3> HIDE DEF k, A
    <3> QED BY <2>3, <3>2, <3>3
  <2> QED BY <2>1, <2>2, <2>3
<1>9. lost' = lost + k
  BY <1>2, <1>3
<1> HIDE DEF k
<1>10. StreamShape' /\ Charged' /\ lost' \in Nat
  BY <1>1, <1>2, <1>4, <1>6, <1>8, <1>9, StreamConsumed DEF q
<1>11. CAN => faults # 0
  <2> SUFFICES ASSUME CAN, faults = 0
               PROVE  FALSE
    OBVIOUS
  <2>1. 1 \notin Scars(FrameBytes, q, turn) /\ q[1].at = 1
    BY <1>1, <1>3 DEF InStep, q, CAN
  <2> QED BY <1>7, <2>1
<1>12. CAN' => InStep'
  BY <1>2, <1>11 DEF InStep, CAN
<1>13. Streams' /\ ImuShape' /\ WrongNeedsCause'
  BY <1>1, <1>2, <1>10 DEF ImuShape, Streams, WrongNeedsCause, TTL, CAN
<1> QED BY <1>10, <1>12, <1>13 DEF ImuInv, StreamInv

\* Without a scar and from a header on, the parser takes a whole frame, and stands at the
\* next header.
LEMMA StaysInStep ==
  ASSUME NEW size \in Nat, size >= 2, NEW bytes \in Seq(BytesOf(size)), NEW next,
         size <= Len(bytes), Scars(size, bytes, next) = {}, bytes[1].at = 1,
         NEW rest, IsRest(rest, bytes, size)
  PROVE  IF Len(rest) = 0 THEN next.at = 1 ELSE rest[1].at = 1
<1>1. Len(bytes) \in Nat /\ size \in 1 .. Len(bytes)
  BY LenProperties
<1> DEFINE n == size - 1
<1>2. n \in Nat /\ n < size /\ 1 + n = size /\ n + 1 = size
  OBVIOUS
<1> HIDE DEF n
<1>3. bytes[1 + n].at = n + 1
  <2>1. 1 \in 1 .. Len(bytes) /\ 1 + n <= Len(bytes)
    BY <1>1, <1>2
  <2>2. \A k \in 1 .. (1 + n - 1) : k \notin Scars(size, bytes, next)
    OBVIOUS
  <2> QED BY <1>2, <2>1, <2>2, RunFromHeader
<1>4. bytes[size].at = size
  BY <1>2, <1>3
<1>5. size \notin Scars(size, bytes, next)
  OBVIOUS
<1>6. Follows(size, bytes[size], After(bytes, next, size))
  BY <1>1, <1>5 DEF Scars, Scarred
<1>7. After(bytes, next, size).at = 1
  BY <1>4, <1>6 DEF Follows
<1>8. Len(rest) = Len(bytes) - size
  BY DEF IsRest
<1>9. CASE Len(rest) = 0
  <2>1. size = Len(bytes)
    BY <1>1, <1>8, <1>9
  <2> QED BY <1>7, <1>9, <2>1 DEF After
<1>10. CASE Len(rest) # 0
  <2>1. size # Len(bytes) /\ 1 \in 1 .. Len(rest)
    BY <1>1, <1>8, <1>10
  <2>2. rest[1] = bytes[1 + size]
    BY <2>1 DEF IsRest
  <2>3. 1 + size = size + 1
    OBVIOUS
  <2> QED BY <1>7, <1>10, <2>1, <2>2, <2>3 DEF After
<1> QED BY <1>9, <1>10

LEMMA TakeFrameKept == ImuInv /\ TakeFrame => ImuInv'
<1> SUFFICES ASSUME ImuInv, TakeFrame
             PROVE  ImuInv'
  OBVIOUS
<1> DEFINE q == Unparsed
           size == FrameBytes
           frame == SubSeq(rxBuffer, 1, FrameBytes)
<1>1. /\ Streams /\ ImuShape /\ StreamShape /\ Charged /\ WrongNeedsCause
      /\ CAN => InStep
  BY DEF ImuInv, StreamInv, TakeFrame
<1>2. /\ Head(rxBuffer).head /\ Len(rxBuffer) >= FrameBytes
      /\ rxBuffer' = SubSeq(rxBuffer, FrameBytes + 1, Len(rxBuffer))
      /\ lost' = lost + (IF Whole(frame) THEN 0 ELSE Lost(frame))
      /\ IF Passes(frame)
           THEN \E k \in Stored(frame) :
                  data' = [i \in Kinds |->
                    IF i \notin Holds(k) THEN data[i]
                    ELSE IF Whole(frame) THEN "right" ELSE "wrong"]
           ELSE UNCHANGED data
      /\ UNCHANGED <<protocol, alias, turn, wire, port, faults, late, parsing, modbusIndex,
                     waitingResponse, currentRequestAddr>>
  BY DEF TakeFrame, AtHeader, Remaining, request
<1>3. /\ size \in Nat /\ size >= 2 /\ Len(rxBuffer) \in Nat
      /\ q \in Seq(BytesOf(size)) /\ Len(q) \in Nat /\ size <= Len(q)
      /\ \A i \in 1 .. size : rxBuffer[i] = q[i]
      /\ Head(rxBuffer) = q[1]
  BY <1>1, <1>2, FirstUnparsed
<1>4. DOMAIN frame = 1 .. size /\ \A i \in 1 .. size : frame[i] = q[i]
  <2>1. \A i \in 1 .. size : rxBuffer[i] \in BytesOf(size)
    BY <1>3, ElementOfSeq
  <2>2. 1 \in Int /\ size \in Int /\ size - 1 + 1 = size
    BY <1>3
  <2>3. /\ frame \in Seq(BytesOf(size)) /\ Len(frame) = size
        /\ \A i \in 1 .. size - 1 + 1 : frame[i] = rxBuffer[1 + i - 1]
    BY <1>3, <2>1, <2>2, SubSeqProperties
  <2> QED BY <1>3, <2>2, <2>3, LenProperties
<1>5. HeadersShow(q, alias)
  BY <1>1 DEF StreamShape
<1> HIDE DEF q, frame, size
<1> DEFINE k == IF Whole(frame) THEN 0 ELSE Lost(frame)
           A == {i \in Scars(size, q, turn) : i <= size}
<1>6. k \in Nat /\ IF alias THEN k = 0 ELSE k <= 2 * Cardinality(A)
  <2>0. IsFiniteSet(1 .. size)
    BY <1>3, FS_Interval
  <2>1. IsFiniteSet(Scars(size, q, turn))
    BY <1>3, ScarsAreFinite
  <2>2. Cardinality(A) \in Nat
    <3>1. A \in SUBSET Scars(size, q, turn)
      OBVIOUS
    <3> HIDE DEF A
    <3> QED BY <2>1, <3>1, FS_Subset, FS_CardinalityType
  <2>3. CASE alias \/ Whole(frame)
    <3>1. k = 0
      BY <2>3 DEF Lost
    <3> HIDE DEF k, A
    <3> QED BY <2>2, <3>1
  <2>4. CASE ~alias /\ ~Whole(frame)
    <3> DEFINE H == {i \in DOMAIN frame : frame[i].at = 1}
    <3>1. k = Cardinality(H)
      BY <2>4 DEF Lost
    <3>2. H \in SUBSET (1 .. size)
      BY <1>4
    <3>3. Cardinality(H) \in Nat
      <4> HIDE DEF H
      <4> QED BY <2>0, <3>2, FS_Subset, FS_CardinalityType
    <3>4. HeadersShow(q, FALSE)
      BY <1>5, <2>4 DEF HeadersShow
    <3>5. size >= 1 /\ q[1].head
      BY <1>2, <1>3
    <3>6. Cardinality({i \in DOMAIN frame : frame[i].at = 1})
            <= 2 * Cardinality({i \in Scars(size, q, turn) : i <= size})
      BY <1>3, <1>4, <2>4, <3>4, <3>5, LostHeaders
    <3>7. Cardinality(H) <= 2 * Cardinality(A)
      BY <3>6
    <3> HIDE DEF k, A, H
    <3> QED BY <2>4, <3>1, <3>3, <3>7
  <2> QED BY <2>3, <2>4
<1>7. lost' = lost + k
  BY <1>2
<1> HIDE DEF k
<1>8. size \in 1 .. Len(rxBuffer)
  BY <1>2, <1>3 DEF size
<1>9. /\ StreamShape' /\ Charged' /\ lost' \in Nat
      /\ IsRest(Unparsed', q, size)
      /\ Scars(size, q, turn) = {} => Scars(size, Unparsed', turn) = {}
  BY <1>1, <1>2, <1>6, <1>7, <1>8, StreamConsumed DEF q, size
<1>10. CAN /\ faults = 0 => Scars(size, q, turn) = {} /\ q[1].at = 1
  BY <1>1, <1>3 DEF InStep, q, size, CAN
<1>11. CAN' => InStep'
  <2> SUFFICES ASSUME CAN, faults = 0
               PROVE  InStep'
    BY <1>2 DEF InStep, CAN
  <2>1. IF Len(Unparsed') = 0 THEN turn.at = 1 ELSE Unparsed'[1].at = 1
    BY <1>3, <1>9, <1>10, StaysInStep
  <2>2. FrameBytes' = size
    BY <1>2, ProtocolStays DEF size
  <2>3. Scars(size, Unparsed', turn) = {}
    BY <1>9, <1>10
  <2> QED BY <1>2, <2>1, <2>2, <2>3 DEF InStep, CAN
<1>12. ASSUME ~Whole(frame), Passes(frame)
       PROVE  CAN /\ faults > 0
  <2>1. CAN
    BY <1>1, <1>12 DEF Passes, Streams, TTL, CAN
  <2>2. CASE faults = 0
    <3>1. Scars(size, q, turn) = {} /\ q[1].at = 1
      BY <1>10, <2>1, <2>2
    <3>0. size >= 1 /\ \A i \in 1 .. size : i \notin Scars(size, q, turn)
      BY <1>3, <3>1
    <3>2. Whole(frame)
      BY <1>3, <1>4, <3>0, <3>1, UnscarredIsWhole
    <3> QED BY <1>12, <3>2
  <2> QED BY <1>1, <2>1, <2>2 DEF ImuShape
<1>13. /\ data' \in [Kinds -> {"none", "right", "wrong"}]
       /\ \A i \in Kinds :
            data'[i] = "wrong" => data[i] = "wrong" \/ (CAN /\ faults > 0)
  <2>1. data \in [Kinds -> {"none", "right", "wrong"}]
    BY <1>1 DEF ImuShape
  <2>2. CASE Passes(frame)
    <3>1. PICK j \in Stored(frame) :
            data' = [i \in Kinds |->
              IF i \notin Holds(j) THEN data[i] ELSE IF Whole(frame) THEN "right" ELSE "wrong"]
      BY <1>2, <2>2
    <3>2. CASE Whole(frame)
      BY <2>1, <3>1, <3>2
    <3>3. CASE ~Whole(frame)
      BY <1>12, <2>1, <2>2, <3>1, <3>3
    <3> QED BY <3>2, <3>3
  <2>3. CASE ~Passes(frame)
    BY <1>2, <2>1, <2>3
  <2> QED BY <2>2, <2>3
<1>14. WrongNeedsCause'
  BY <1>1, <1>2, <1>13 DEF WrongNeedsCause, CAN
<1>15. Streams' /\ ImuShape'
  BY <1>1, <1>2, <1>9, <1>13 DEF ImuShape, Streams, TTL, CAN
<1> QED BY <1>9, <1>11, <1>14, <1>15 DEF ImuInv, StreamInv

\* Bytes arrive behind those that are not parsed yet.
LEMMA Arrived ==
  ASSUME NEW S, rxBuffer \in Seq(S), port \in Seq(S), NEW byte \in S,
         rxBuffer' = rxBuffer, port' = Append(port, byte)
  PROVE  /\ port' \in Seq(S) /\ Unparsed' \in Seq(S)
         /\ IsMore(Unparsed', Unparsed, byte)
<1> DEFINE more == Append(port, byte)
<1>1. Len(rxBuffer) \in Nat /\ Len(port) \in Nat
  BY LenProperties
<1>2. /\ more \in Seq(S) /\ Len(more) = Len(port) + 1
      /\ more[Len(port) + 1] = byte
      /\ \A i \in 1 .. Len(port) : more[i] = port[i]
  BY <1>1, AppendProperties
<1>3. /\ Len(Unparsed) = Len(rxBuffer) + Len(port)
      /\ \A i \in 1 .. Len(Unparsed) :
           Unparsed[i] = IF i <= Len(rxBuffer) THEN rxBuffer[i] ELSE port[i - Len(rxBuffer)]
  BY UnparsedBytes
<1> HIDE DEF more
<1> DEFINE u == rxBuffer \o more
<1>4. /\ u \in Seq(S) /\ Len(u) = Len(rxBuffer) + Len(more)
      /\ \A i \in 1 .. Len(rxBuffer) + Len(more) :
           u[i] = IF i <= Len(rxBuffer) THEN rxBuffer[i] ELSE more[i - Len(rxBuffer)]
  BY <1>2, ConcatProperties
<1>5. Unparsed' = u
  BY DEF Unparsed, more
<1> HIDE DEF u
<1>6. Len(u) = Len(Unparsed) + 1
  BY <1>1, <1>2, <1>3, <1>4
<1>7. u[Len(Unparsed) + 1] = byte
  <2> DEFINE j == Len(Unparsed) + 1
  <2>1. /\ j \in 1 .. Len(rxBuffer) + Len(more) /\ ~(j <= Len(rxBuffer))
        /\ j - Len(rxBuffer) = Len(port) + 1
    BY <1>1, <1>2, <1>3
  <2> HIDE DEF j
  <2>2. u[j] = more[j - Len(rxBuffer)]
    BY <1>4, <2>1
  <2> QED BY <1>2, <2>1, <2>2 DEF j
<1>8. ASSUME NEW i \in 1 .. Len(Unparsed)
      PROVE  u[i] = Unparsed[i]
  <2>1. i \in 1 .. Len(rxBuffer) + Len(more)
    BY <1>1, <1>2, <1>3
  <2>2. CASE i <= Len(rxBuffer)
    BY <1>3, <1>4, <2>1, <2>2
  <2>3. CASE ~(i <= Len(rxBuffer))
    <3>1. i - Len(rxBuffer) \in 1 .. Len(port)
      BY <1>1, <1>3, <2>3
    <3>2. more[i - Len(rxBuffer)] = port[i - Len(rxBuffer)]
      BY <1>2, <3>1
    <3>3. u[i] = more[i - Len(rxBuffer)]
      BY <1>4, <2>1, <2>3
    <3>4. Unparsed[i] = port[i - Len(rxBuffer)]
      BY <1>3, <2>3
    <3> QED BY <3>2, <3>3, <3>4
  <2> QED BY <2>2, <2>3
<1>9. port' = more
  BY DEF more
<1> QED BY <1>2, <1>4, <1>5, <1>6, <1>7, <1>8, <1>9 DEF IsMore

\* A byte that arrives costs a scar at most when it is damaged, and none else.
LEMMA ByteArrives ==
  ASSUME ImuShape, Streams, StreamShape, Charged, NEW head, NEW ok \in BOOLEAN,
         turn' = [kind |-> IF turn.at = FrameBytes THEN Following(turn.kind) ELSE turn.kind,
                  at |-> (turn.at % FrameBytes) + 1],
         port' = Append(port, Received(head, ok)),
         faults' = IF ok THEN faults ELSE faults + 1,
         head \in IF ok THEN (IF turn.at = 1 THEN {TRUE}
                                            ELSE {FALSE, alias /\ turn.at >= FirstData})
                        ELSE {FALSE, turn.at # 1},
         UNCHANGED <<protocol, alias, wire, rxBuffer, lost>>
  PROVE  /\ StreamShape' /\ Charged'
         /\ InStep /\ ok => InStep'
<1> DEFINE size == FrameBytes
           S == BytesOf(FrameBytes)
           byte == Received(head, ok)
           q == Unparsed
           u == Unparsed'
<1>1. turn \in Places(size) /\ rxBuffer \in Seq(S) /\ port \in Seq(S)
  BY DEF StreamShape
<1>2. /\ turn' \in Places(size) /\ Follows(size, byte, turn')
      /\ byte.kind = turn.kind /\ byte.at = turn.at /\ byte.ok = ok /\ byte.head = head
  <2>1. byte.kind = turn.kind /\ byte.at = turn.at /\ byte.ok = ok /\ byte.head = head
    BY DEF Received
  <2> HIDE DEF byte, size
  <2> QED BY <1>1, <2>1, TurnFollows DEF size
<1>3. head \in BOOLEAN
  <2>1. CASE ok
    BY <2>1
  <2>2. CASE ~ok
    BY <2>2
  <2> QED BY <2>1, <2>2
<1>4. byte \in S
  BY <1>1, <1>3 DEF Received, Places, BytesOf
<1>5. FrameBytes' = size
  BY ProtocolStays
<1> HIDE DEF byte
<1>6. port' = Append(port, byte)
  BY DEF byte
<1>7. /\ port' \in Seq(S) /\ u \in Seq(S)
      /\ IsMore(u, q, byte)
  BY <1>1, <1>4, <1>6, Arrived
<1>8. Len(q) \in Nat
  BY <1>1, UnparsedBytes
<1>9. HeadersShow(q, alias)
  BY DEF StreamShape
<1> HIDE DEF q, u, S, size
<1>10. HeadersShow(u, alias)
  <2>1. byte.ok /\ byte.at = 1 => byte.head
    BY <1>2
  <2>2. ~alias /\ byte.ok /\ byte.head => byte.at = 1
    BY <1>2
  <2>3. ASSUME NEW i \in 1 .. Len(u)
        PROVE  u[i] = byte \/ (i \in 1 .. Len(q) /\ u[i] = q[i])
    BY <1>7, <1>8 DEF IsMore
  <2> QED BY <1>9, <2>1, <2>2, <2>3 DEF HeadersShow
<1>11. StreamShape'
  BY <1>1, <1>2, <1>5, <1>7, <1>10 DEF StreamShape, S, size, u
<1> DEFINE new == IF byte.ok THEN {} ELSE {Len(q) + 1}
<1>12. Scars(size, u, turn') = Scars(size, q, turn) \cup new
  <2>1. byte.kind = turn.kind /\ byte.at = turn.at /\ Follows(size, byte, turn')
    BY <1>2
  <2>2. IsMore(u, q, byte)
    BY <1>7
  <2> QED BY <1>8, <2>1, <2>2, ScarsAppended
<1>13. Charged'
  <2> DEFINE N == Cardinality(Scars(size, q, turn))
             M == Cardinality(Scars(size, u, turn'))
  <2>1. N \in Nat /\ IsFiniteSet(Scars(size, q, turn))
    BY <1>8, ScarsAreFinite
  <2>2. ok => M = N
    BY <1>2, <1>12
  <2>3. M \in Nat /\ M <= N + 1
    <3>1. Scars(size, u, turn') \subseteq Scars(size, q, turn) \cup {Len(q) + 1}
      BY <1>12
    <3> QED BY <2>1, <3>1, OneMore
  <2>4. ~alias => lost + 2 * N <= 2 * faults
    BY DEF Charged, q, size
  <2>5. lost \in Nat /\ faults \in Nat
    BY DEF ImuShape
  <2> HIDE DEF N, M
  <2>6. ASSUME ~alias
        PROVE  lost' + 2 * M <= 2 * faults'
    <3>1. CASE ok
      BY <2>1, <2>2, <2>4, <2>5, <2>6, <3>1
    <3>2. CASE ~ok
      BY <2>1, <2>3, <2>4, <2>5, <2>6, <3>2
    <3> QED BY <3>1, <3>2
  <2>7. alias => lost = 0
    BY DEF Charged
  <2> QED BY <1>5, <2>6, <2>7 DEF Charged, M, u
<1>14. ASSUME InStep, ok
       PROVE  InStep'
  <2> SUFFICES ASSUME faults = 0
               PROVE  /\ Scars(size, u, turn') = {}
                      /\ IF Len(u) = 0 THEN turn'.at = 1 ELSE u[1].at = 1
    BY <1>5, <1>14 DEF InStep, u, CAN
  <2>1. Scars(size, q, turn) = {} /\ IF Len(q) = 0 THEN turn.at = 1 ELSE q[1].at = 1
    BY <1>14 DEF InStep, q, size, CAN
  <2>2. Scars(size, u, turn') = {}
    BY <1>2, <1>12, <1>14, <2>1
  <2>3. Len(u) # 0
    BY <1>7, <1>8 DEF IsMore
  <2>4. u[1].at = 1
    <3>1. CASE Len(q) = 0
      BY <1>2, <1>7, <2>1, <3>1 DEF IsMore
    <3>2. CASE Len(q) # 0
      <4>1. 1 \in 1 .. Len(q)
        BY <1>8, <3>2
      <4> QED BY <1>7, <2>1, <3>2, <4>1 DEF IsMore
    <3> QED BY <3>1, <3>2
  <2> QED BY <2>2, <2>3, <2>4
<1> QED BY <1>11, <1>13, <1>14

LEMMA SendsByteKept == ImuInv /\ SendsByte => ImuInv'
<1> SUFFICES ASSUME ImuInv, SendsByte
             PROVE  ImuInv'
  OBVIOUS
<1>1. /\ Streams /\ ImuShape /\ StreamShape /\ Charged /\ WrongNeedsCause
      /\ CAN => InStep
  BY DEF ImuInv, StreamInv, SendsByte
<1>2. /\ turn' = [kind |-> IF turn.at = FrameBytes THEN Following(turn.kind) ELSE turn.kind,
                  at |-> (turn.at % FrameBytes) + 1]
      /\ \/ \E head \in IF turn.at = 1 THEN {TRUE} ELSE {FALSE, alias /\ turn.at >= FirstData} :
              port' = Append(port, Received(head, TRUE)) /\ UNCHANGED faults
         \/ /\ faults' = faults + 1
            /\ \/ \E head \in {FALSE, turn.at # 1} : port' = Append(port, Received(head, FALSE))
               \/ UNCHANGED port
      /\ UNCHANGED <<protocol, alias, wire, rxBuffer, parsing, modbusIndex, waitingResponse,
                     currentRequestAddr, data, late, lost>>
  BY DEF SendsByte, request
<1>3. faults \in Nat /\ faults' \in Nat /\ (faults' = faults \/ faults' = faults + 1)
  <2>1. faults \in Nat
    BY <1>1 DEF ImuShape
  <2>2. faults' = faults \/ faults' = faults + 1
    BY DEF SendsByte
  <2> QED BY <2>1, <2>2
<1>4. StreamShape' /\ Charged' /\ (InStep /\ faults' = faults => InStep')
  <2>1. CASE \E head \in IF turn.at = 1 THEN {TRUE} ELSE {FALSE, alias /\ turn.at >= FirstData} :
               port' = Append(port, Received(head, TRUE)) /\ UNCHANGED faults
    <3>1. PICK head \in IF turn.at = 1 THEN {TRUE} ELSE {FALSE, alias /\ turn.at >= FirstData} :
                 port' = Append(port, Received(head, TRUE)) /\ UNCHANGED faults
      BY <2>1
    <3> DEFINE ok == TRUE
    <3>2. /\ ok \in BOOLEAN /\ port' = Append(port, Received(head, ok))
          /\ faults' = IF ok THEN faults ELSE faults + 1
          /\ head \in IF ok THEN (IF turn.at = 1 THEN {TRUE}
                                              ELSE {FALSE, alias /\ turn.at >= FirstData})
                            ELSE {FALSE, turn.at # 1}
      BY <3>1
    <3>3. ok
      OBVIOUS
    <3> HIDE DEF ok
    <3> QED BY <1>1, <1>2, <3>2, <3>3, ByteArrives
  <2>2. CASE faults' = faults + 1
             /\ \E head \in {FALSE, turn.at # 1} : port' = Append(port, Received(head, FALSE))
    <3>1. PICK head \in {FALSE, turn.at # 1} : port' = Append(port, Received(head, FALSE))
      BY <2>2
    <3> DEFINE ok == FALSE
    <3>2. /\ ok \in BOOLEAN /\ port' = Append(port, Received(head, ok))
          /\ faults' = IF ok THEN faults ELSE faults + 1
          /\ head \in IF ok THEN (IF turn.at = 1 THEN {TRUE}
                                              ELSE {FALSE, alias /\ turn.at >= FirstData})
                            ELSE {FALSE, turn.at # 1}
      BY <2>2, <3>1
    <3>3. StreamShape' /\ Charged'
      <4> HIDE DEF ok
      <4> QED BY <1>1, <1>2, <3>2, ByteArrives
    <3>4. faults' # faults
      BY <1>3, <2>2
    <3> QED BY <3>3, <3>4
  <2>3. CASE faults' = faults + 1 /\ UNCHANGED port
    <3> DEFINE q == Unparsed
               size == FrameBytes
               N == Cardinality(Scars(size, q, turn))
               M == Cardinality(Scars(size, q, turn'))
    <3>1. /\ Unparsed' = q /\ FrameBytes' = size /\ BytesOf(FrameBytes') = BytesOf(size)
          /\ Places(FrameBytes') = Places(size)
      BY <1>2, <2>3, ProtocolStays DEF Unparsed
    <3>2. turn' \in Places(size)
      BY <1>1, <1>2, TurnFollows DEF StreamShape
    <3>3. StreamShape'
      BY <1>1, <1>2, <2>3, <3>1, <3>2 DEF StreamShape
    <3>4. Len(q) \in Nat
      BY <1>1, UnparsedBytes DEF StreamShape
    <3>5. /\ ~alias => lost + 2 * N <= 2 * faults
          /\ alias => lost = 0
      BY <1>1 DEF Charged
    <3> HIDE DEF q, size
    <3>6. N \in Nat /\ IsFiniteSet(Scars(size, q, turn))
      BY <3>4, ScarsAreFinite
    <3>7. M \in Nat /\ M <= N + 1
      <4>1. Scars(size, q, turn') \subseteq Scars(size, q, turn) \cup {Len(q)}
        BY <3>4, ScarsOfLoss
      <4> QED BY <3>6, <4>1, OneMore
    <3> HIDE DEF N, M
    <3>8. lost \in Nat
      BY <1>1 DEF ImuShape
    <3>9. ~alias => lost + 2 * M <= 2 * faults'
      BY <1>3, <2>3, <3>5, <3>6, <3>7, <3>8
    <3>10. Charged'
      BY <1>2, <3>1, <3>5, <3>9 DEF Charged, M
    <3>11. faults' # faults
      BY <1>3, <2>3
    <3> QED BY <3>3, <3>10, <3>11
  <2> QED BY <1>2, <2>1, <2>2, <2>3
<1>5. CAN' => InStep'
  <2>1. CASE faults' = faults
    BY <1>1, <1>2, <1>4, <2>1 DEF CAN
  <2>2. CASE faults' # faults
    <3>1. faults' # 0
      BY <1>3, <2>2
    <3> QED BY <3>1 DEF InStep, CAN
  <2> QED BY <2>1, <2>2
<1>6. Streams' /\ ImuShape'
  BY <1>1, <1>2, <1>3 DEF ImuShape, Streams, TTL, CAN
<1>7. WrongNeedsCause'
  BY <1>1, <1>2, <1>3 DEF WrongNeedsCause, CAN
<1> QED BY <1>4, <1>5, <1>6, <1>7 DEF ImuInv, StreamInv

LEMMA ReadsKeepsBytes ==
  ASSUME NEW S, rxBuffer \in Seq(S), port \in Seq(S), Reads
  PROVE  /\ rxBuffer' \in Seq(S) /\ port' \in Seq(S)
         /\ Unparsed' = Unparsed /\ rxBuffer' = Unparsed
         /\ Len(port') = 0 /\ Len(rxBuffer') = Len(rxBuffer) + Len(port)
<1>1. /\ rxBuffer \o port \in Seq(S) /\ Len(rxBuffer \o port) = Len(rxBuffer) + Len(port)
  BY ConcatProperties
<1>2. /\ rxBuffer' = rxBuffer \o port /\ port' = <<>>
  BY DEF Reads
<1>3. (rxBuffer \o port) \o <<>> = rxBuffer \o port
  BY <1>1, ConcatEmptySeq
<1>4. <<>> \in Seq(S) /\ Len(<<>>) = 0
  BY EmptySeq
<1> QED BY <1>1, <1>2, <1>3, <1>4 DEF Unparsed

LEMMA StreamReadsKept == ImuInv /\ Streams /\ OnlyReads => ImuInv'
<1> SUFFICES ASSUME ImuInv, Streams, OnlyReads
             PROVE  ImuInv'
  OBVIOUS
<1>1. /\ ImuShape /\ StreamShape /\ Charged /\ WrongNeedsCause
      /\ CAN => InStep
  BY DEF ImuInv, StreamInv
<1>2. /\ Reads /\ parsing' = TRUE
      /\ UNCHANGED <<protocol, alias, turn, data, lost, wire, modbusIndex, waitingResponse,
                     currentRequestAddr, faults, late>>
  BY DEF OnlyReads, Reads, request
<1>3. /\ FrameBytes' = FrameBytes /\ BytesOf(FrameBytes)' = BytesOf(FrameBytes)
      /\ Places(FrameBytes)' = Places(FrameBytes)
  BY <1>2, ProtocolStays DEF BytesOf, Places
<1>4. /\ rxBuffer' \in Seq(BytesOf(FrameBytes)) /\ port' \in Seq(BytesOf(FrameBytes))
      /\ Unparsed' = Unparsed
  BY <1>1, <1>2, ReadsKeepsBytes DEF StreamShape
<1>5. StreamShape'
  BY <1>1, <1>2, <1>3, <1>4 DEF StreamShape
<1>6. Charged' /\ (CAN' => InStep')
  BY <1>1, <1>2, <1>3, <1>4 DEF Charged, InStep, CAN
<1>7. Streams' /\ ImuShape' /\ WrongNeedsCause'
  BY <1>1, <1>2 DEF ImuShape, Streams, WrongNeedsCause, TTL, CAN
<1> QED BY <1>5, <1>6, <1>7 DEF ImuInv, StreamInv

LEMMA ParseReturnsKept == ImuInv /\ ParseReturns => ImuInv'
<1> SUFFICES ASSUME ImuInv, ParseReturns
             PROVE  ImuInv'
  OBVIOUS
<1>1. /\ parsing' = FALSE
      /\ UNCHANGED <<protocol, alias, turn, wire, port, faults, late, rxBuffer, modbusIndex,
                     waitingResponse, currentRequestAddr, data, lost>>
  BY DEF ParseReturns, Remaining, request
<1>2. ImuShape' /\ (Streams' <=> Streams) /\ WrongNeedsCause'
  BY <1>1 DEF ImuInv, ImuShape, Streams, WrongNeedsCause, TTL, CAN
<1>3. StreamInv => StreamInv'
  BY <1>1 DEF StreamInv, StreamShape, Charged, InStep, Unparsed, FrameBytes, TTL, CAN
<1>4. RequestInv => RequestInv'
  BY <1>1 DEF RequestInv, OneAtATime
<1> QED BY <1>2, <1>3, <1>4 DEF ImuInv

(***************************************************************************)
(* Requests and replies.                                                   *)
(***************************************************************************)

LEMMA NoReplies ==
  ASSUME NEW s, Len(s) = 0, NEW addr
  PROVE  Answer(s, addr)
BY DEF Answer

LEMMA AnswerConcat ==
  ASSUME NEW S, NEW s \in Seq(S), NEW t \in Seq(S), NEW addr,
         Answer(s, addr), Answer(t, addr)
  PROVE  Answer(s \o t, addr)
<1> DEFINE st == s \o t
<1>1. /\ Len(st) = Len(s) + Len(t) /\ Len(s) \in Nat /\ Len(t) \in Nat
      /\ \A i \in 1 .. Len(s) + Len(t) : st[i] = IF i <= Len(s) THEN s[i] ELSE t[i - Len(s)]
  BY ConcatProperties, LenProperties
<1> HIDE DEF st
<1>2. ASSUME NEW i \in 1 .. Len(st)
      PROVE  st[i].kind = addr
  <2>1. CASE i <= Len(s)
    BY <1>1, <2>1 DEF Answer
  <2>2. CASE ~(i <= Len(s))
    <3>1. i - Len(s) \in 1 .. Len(t) /\ st[i] = t[i - Len(s)]
      BY <1>1, <2>2
    <3> QED BY <3>1 DEF Answer
  <2> QED BY <2>1, <2>2
<1> QED BY <1>2 DEF Answer, st

\* The first reply is taken, or another one comes last.
LEMMA AnswerMoved ==
  ASSUME NEW S, NEW s \in Seq(S), NEW t \in Seq(S), s # <<>>
  PROVE  /\ Head(s) \in S /\ Head(s) = s[1] /\ Tail(s) \in Seq(S) /\ Append(t, Head(s)) \in Seq(S)
         /\ Len(s) \in Nat /\ Len(s) >= 1 /\ Len(t) \in Nat
         /\ Len(Tail(s)) = Len(s) - 1 /\ Len(Append(t, Head(s))) = Len(t) + 1
         /\ \A addr : Answer(s, addr) => Answer(Tail(s), addr) /\ Head(s).kind = addr
         /\ \A addr : Answer(s, addr) /\ Answer(t, addr) => Answer(Append(t, Head(s)), addr)
<1>1. /\ Head(s) \in S /\ Tail(s) \in Seq(S) /\ Len(Tail(s)) = Len(s) - 1
      /\ \A i \in 1 .. Len(Tail(s)) : Tail(s)[i] = s[i + 1]
  BY HeadTailProperties
<1>2. Len(s) \in Nat /\ Len(t) \in Nat /\ Len(s) # 0 /\ Head(s) = s[1]
  BY LenProperties, EmptySeq
<1>3. 1 \in 1 .. Len(s)
  BY <1>2
<1> DEFINE head == Head(s)
           tail == Tail(s)
           more == Append(t, head)
<1>4. /\ more \in Seq(S) /\ Len(more) = Len(t) + 1 /\ more[Len(t) + 1] = head
      /\ \A i \in 1 .. Len(t) : more[i] = t[i]
  BY <1>1, AppendProperties
<1> HIDE DEF head, tail, more
<1>5. ASSUME NEW addr, Answer(s, addr)
      PROVE  Answer(tail, addr) /\ head.kind = addr
  <2>1. head.kind = addr
    BY <1>2, <1>3, <1>5 DEF Answer, head
  <2>2. \A i \in 1 .. Len(tail) : i + 1 \in 1 .. Len(s) /\ tail[i] = s[i + 1]
    BY <1>1, <1>2 DEF tail
  <2> QED BY <1>5, <2>1, <2>2 DEF Answer
<1>6. ASSUME NEW addr, Answer(s, addr), Answer(t, addr)
      PROVE  Answer(more, addr)
  <2>1. head.kind = addr
    BY <1>5, <1>6
  <2>2. \A i \in 1 .. Len(more) : i \in 1 .. Len(t) \/ i = Len(t) + 1
    BY <1>2, <1>4
  <2> QED BY <1>4, <1>6, <2>1, <2>2 DEF Answer
<1>7. Len(s) >= 1
  BY <1>2
<1> QED BY <1>1, <1>2, <1>4, <1>5, <1>6, <1>7 DEF head, tail, more

\* What the invariant says of requests, one fact at a time.
LEMMA Waiting ==
  ASSUME ImuInv, ~Streams
  PROVE  /\ ImuShape /\ WrongNeedsCause /\ lost = 0
         /\ wire \in Seq(Replies) /\ port \in Seq(Replies) /\ rxBuffer \in Seq(Replies)
         /\ Len(wire) \in Nat /\ Len(port) \in Nat /\ Len(rxBuffer) \in Nat
         /\ late \in BOOLEAN /\ waitingResponse \in BOOLEAN
         /\ ~late => /\ Len(wire) + Len(port) + Len(rxBuffer) <= IF waitingResponse THEN 1 ELSE 0
                     /\ Answer(wire, currentRequestAddr)
                     /\ Answer(port, currentRequestAddr)
                     /\ Answer(rxBuffer, currentRequestAddr)
<1>1. ImuShape /\ WrongNeedsCause /\ RequestInv
  BY DEF ImuInv
<1>2. wire \in Seq(Replies) /\ port \in Seq(Replies) /\ rxBuffer \in Seq(Replies) /\ lost = 0
  BY <1>1 DEF RequestInv
<1>3. Len(wire) \in Nat /\ Len(port) \in Nat /\ Len(rxBuffer) \in Nat
  BY <1>2, LenProperties
<1>4. late \in BOOLEAN /\ waitingResponse \in BOOLEAN
  BY <1>1 DEF ImuShape
<1>5. ~late => /\ Len(wire) + Len(port) + Len(rxBuffer) <= IF waitingResponse THEN 1 ELSE 0
               /\ Answer(wire, currentRequestAddr)
               /\ Answer(port, currentRequestAddr)
               /\ Answer(rxBuffer, currentRequestAddr)
  BY <1>1 DEF RequestInv, OneAtATime
<1> QED BY <1>1, <1>2, <1>3, <1>4, <1>5

LEMMA ReplyArrivesKept == ImuInv /\ ReplyArrives => ImuInv'
<1> SUFFICES ASSUME ImuInv, ReplyArrives
             PROVE  ImuInv'
  OBVIOUS
<1>1. /\ wire # <<>> /\ port' = Append(port, Head(wire)) /\ wire' = Tail(wire)
      /\ UNCHANGED <<protocol, alias, turn, rxBuffer, parsing, modbusIndex, waitingResponse,
                     currentRequestAddr, data, faults, late, lost>>
  BY DEF ReplyArrives, request
<1>2. ~Streams
  BY <1>1 DEF ImuInv, StreamInv, StreamShape
<1>3. /\ ImuShape /\ WrongNeedsCause /\ lost = 0
      /\ wire \in Seq(Replies) /\ port \in Seq(Replies) /\ rxBuffer \in Seq(Replies)
      /\ Len(wire) \in Nat /\ Len(port) \in Nat /\ Len(rxBuffer) \in Nat
      /\ ~late => /\ Len(wire) + Len(port) + Len(rxBuffer) <= IF waitingResponse THEN 1 ELSE 0
                  /\ Answer(wire, currentRequestAddr)
                  /\ Answer(port, currentRequestAddr)
                  /\ Answer(rxBuffer, currentRequestAddr)
  BY <1>2, Waiting
<1>4. /\ wire' \in Seq(Replies) /\ port' \in Seq(Replies)
      /\ Len(wire') = Len(wire) - 1 /\ Len(port') = Len(port) + 1
      /\ \A addr : Answer(wire, addr) => Answer(wire', addr)
      /\ \A addr : Answer(wire, addr) /\ Answer(port, addr) => Answer(port', addr)
  BY <1>1, <1>3, AnswerMoved
<1>5. Len(wire') + Len(port') + Len(rxBuffer') = Len(wire) + Len(port) + Len(rxBuffer)
  BY <1>1, <1>3, <1>4
<1>6. OneAtATime'
  <2> SUFFICES ASSUME ~late
               PROVE  /\ Len(wire') + Len(port') + Len(rxBuffer')
                           <= IF waitingResponse THEN 1 ELSE 0
                      /\ Answer(wire', currentRequestAddr) /\ Answer(port', currentRequestAddr)
                      /\ Answer(rxBuffer, currentRequestAddr)
    BY <1>1 DEF OneAtATime
  <2> QED BY <1>3, <1>4, <1>5
<1>7. RequestInv'
  BY <1>1, <1>3, <1>4, <1>6 DEF RequestInv
<1>8. ~Streams' /\ ImuShape' /\ WrongNeedsCause'
  BY <1>1, <1>2, <1>3 DEF ImuShape, Streams, WrongNeedsCause, TTL, CAN
<1> QED BY <1>7, <1>8 DEF ImuInv

LEMMA ReadsReplies ==
  ASSUME rxBuffer \in Seq(Replies), port \in Seq(Replies), Reads
  PROVE  /\ rxBuffer' \in Seq(Replies) /\ port' \in Seq(Replies)
         /\ Len(port') = 0 /\ Len(rxBuffer') = Len(rxBuffer) + Len(port)
         /\ \A addr : Answer(rxBuffer, addr) /\ Answer(port, addr)
              => Answer(rxBuffer', addr) /\ Answer(port', addr)
<1>1. /\ rxBuffer' \in Seq(Replies) /\ port' \in Seq(Replies)
      /\ Len(port') = 0 /\ Len(rxBuffer') = Len(rxBuffer) + Len(port)
  BY ReadsKeepsBytes
<1>2. rxBuffer' = rxBuffer \o port
  BY DEF Reads
<1>3. \A addr : Answer(port', addr)
  BY <1>1, NoReplies
<1>4. \A addr : Answer(rxBuffer, addr) /\ Answer(port, addr) => Answer(rxBuffer', addr)
  BY <1>2, AnswerConcat
<1> QED BY <1>1, <1>3, <1>4

LEMMA RequestReadsKept == ImuInv /\ ~Streams /\ OnlyReads => ImuInv'
<1> SUFFICES ASSUME ImuInv, ~Streams, OnlyReads
             PROVE  ImuInv'
  OBVIOUS
<1>1. /\ Reads /\ parsing' = TRUE
      /\ UNCHANGED <<protocol, alias, turn, data, lost, wire, modbusIndex, waitingResponse,
                     currentRequestAddr, faults, late>>
  BY DEF OnlyReads, Reads, request
<1>2. /\ ImuShape /\ WrongNeedsCause /\ lost = 0
      /\ wire \in Seq(Replies) /\ port \in Seq(Replies) /\ rxBuffer \in Seq(Replies)
      /\ Len(wire) \in Nat /\ Len(port) \in Nat /\ Len(rxBuffer) \in Nat
      /\ ~late => /\ Len(wire) + Len(port) + Len(rxBuffer) <= IF waitingResponse THEN 1 ELSE 0
                  /\ Answer(wire, currentRequestAddr)
                  /\ Answer(port, currentRequestAddr)
                  /\ Answer(rxBuffer, currentRequestAddr)
  BY Waiting
<1>3. /\ rxBuffer' \in Seq(Replies) /\ port' \in Seq(Replies)
      /\ Len(port') = 0 /\ Len(rxBuffer') = Len(rxBuffer) + Len(port)
      /\ \A addr : Answer(rxBuffer, addr) /\ Answer(port, addr)
           => Answer(rxBuffer', addr) /\ Answer(port', addr)
  BY <1>1, <1>2, ReadsReplies
<1>4. Len(wire') + Len(port') + Len(rxBuffer') = Len(wire) + Len(port) + Len(rxBuffer)
  BY <1>1, <1>2, <1>3
<1>5. OneAtATime'
  <2> SUFFICES ASSUME ~late
               PROVE  /\ Len(wire') + Len(port') + Len(rxBuffer')
                           <= IF waitingResponse THEN 1 ELSE 0
                      /\ Answer(wire, currentRequestAddr) /\ Answer(port', currentRequestAddr)
                      /\ Answer(rxBuffer', currentRequestAddr)
    BY <1>1 DEF OneAtATime
  <2> QED BY <1>2, <1>3, <1>4
<1>6. RequestInv'
  BY <1>1, <1>2, <1>3, <1>5 DEF RequestInv
<1>7. ~Streams' /\ ImuShape' /\ WrongNeedsCause'
  BY <1>1, <1>2 DEF ImuShape, Streams, WrongNeedsCause, TTL, CAN
<1> QED BY <1>6, <1>7 DEF ImuInv

LEMMA AsksKept == ImuInv /\ Asks => ImuInv'
<1> SUFFICES ASSUME ImuInv, Asks
             PROVE  ImuInv'
  OBVIOUS
<1>0. ~Streams
  BY DEF Asks
<1>1. /\ ~waitingResponse /\ waitingResponse' = TRUE /\ currentRequestAddr' = modbusIndex
      /\ Reads /\ parsing' = TRUE
      /\ UNCHANGED <<protocol, alias, turn, data, lost, modbusIndex, late>>
  BY DEF Asks, Reads
<1>2. /\ ImuShape /\ WrongNeedsCause /\ lost = 0
      /\ wire \in Seq(Replies) /\ port \in Seq(Replies) /\ rxBuffer \in Seq(Replies)
      /\ Len(wire) \in Nat /\ Len(port) \in Nat /\ Len(rxBuffer) \in Nat
      /\ late \in BOOLEAN /\ waitingResponse \in BOOLEAN
      /\ ~late => /\ Len(wire) + Len(port) + Len(rxBuffer) <= IF waitingResponse THEN 1 ELSE 0
                  /\ Answer(wire, currentRequestAddr)
                  /\ Answer(port, currentRequestAddr)
                  /\ Answer(rxBuffer, currentRequestAddr)
  BY <1>0, Waiting
<1>3. /\ rxBuffer' \in Seq(Replies) /\ port' \in Seq(Replies)
      /\ Len(port') = 0 /\ Len(rxBuffer') = Len(rxBuffer) + Len(port)
  BY <1>1, <1>2, ReadsReplies
<1>4. modbusIndex \in Kinds /\ faults \in Nat
  BY <1>2 DEF ImuShape
<1>5. /\ wire' = wire \/ \E d \in {"none", "length", "other"} :
                           wire' = Append(wire, [kind |-> modbusIndex, damage |-> d])
      /\ faults' = faults \/ faults' = faults + 1
  BY DEF Asks
<1>6. \/ wire' = wire
      \/ \E reply \in Replies : reply.kind = modbusIndex /\ wire' = Append(wire, reply)
  <2>1. \A d \in {"none", "length", "other"} : [kind |-> modbusIndex, damage |-> d] \in Replies
    BY <1>4 DEF Replies
  <2> QED BY <1>5, <2>1
<1>7. /\ wire' \in Seq(Replies) /\ Len(wire') \in Nat /\ Len(wire') <= Len(wire) + 1
      /\ Len(wire) = 0 => Answer(wire', modbusIndex)
  <2>1. CASE wire' = wire
    BY <1>2, <2>1, NoReplies
  <2>2. ASSUME NEW reply \in Replies, reply.kind = modbusIndex, wire' = Append(wire, reply)
        PROVE  /\ wire' \in Seq(Replies) /\ Len(wire') = Len(wire) + 1
               /\ Len(wire) = 0 => Answer(wire', modbusIndex)
    <3>1. /\ wire' \in Seq(Replies) /\ Len(wire') = Len(wire) + 1
          /\ wire'[Len(wire) + 1] = reply
      BY <1>2, <2>2, AppendProperties
    <3>2. ASSUME Len(wire) = 0
          PROVE  Answer(wire', modbusIndex)
      <4>1. Len(wire') = 1 /\ wire'[1] = reply
        BY <3>1, <3>2
      <4>2. \A i \in 1 .. 1 : i = 1
        OBVIOUS
      <4> QED BY <2>2, <4>1, <4>2 DEF Answer
    <3> QED BY <3>1, <3>2
  <2> QED BY <1>2, <1>6, <2>1, <2>2
<1>8. OneAtATime'
  <2> SUFFICES ASSUME ~late
               PROVE  /\ Len(wire') + Len(port') + Len(rxBuffer') <= 1
                      /\ Answer(wire', modbusIndex) /\ Answer(port', modbusIndex)
                      /\ Answer(rxBuffer', modbusIndex)
    BY <1>1 DEF OneAtATime
  <2>1. Len(wire) = 0 /\ Len(port) = 0 /\ Len(rxBuffer) = 0
    BY <1>1, <1>2
  <2>2. Len(rxBuffer') = 0
    BY <1>3, <2>1
  <2>3. Answer(port', modbusIndex) /\ Answer(rxBuffer', modbusIndex)
    BY <1>3, <2>2, NoReplies
  <2>4. Len(wire') + Len(port') + Len(rxBuffer') <= 1
    BY <1>3, <1>7, <2>1, <2>2
  <2> QED BY <1>7, <2>1, <2>3, <2>4
<1>9. RequestInv'
  BY <1>1, <1>2, <1>3, <1>7, <1>8 DEF RequestInv
<1>10. ~Streams' /\ ImuShape' /\ WrongNeedsCause'
  <2>1. faults' \in Nat
    BY <1>4, <1>5
  <2>2. ~Streams' /\ ImuShape'
    BY <1>0, <1>1, <1>2, <1>4, <2>1 DEF ImuShape, Streams, TTL, CAN
  <2>3. faults > 0 => faults' > 0
    BY <1>4, <1>5
  <2> QED BY <1>1, <1>2, <2>2, <2>3 DEF WrongNeedsCause, CAN
<1> QED BY <1>9, <1>10 DEF ImuInv

LEMMA TimesOutKept == ImuInv /\ TimesOut => ImuInv'
<1> SUFFICES ASSUME ImuInv, TimesOut
             PROVE  ImuInv'
  OBVIOUS
<1>0. ~Streams
  BY DEF TimesOut
<1>1. /\ waitingResponse' = FALSE /\ currentRequestAddr' = 0
      /\ modbusIndex' = Following(modbusIndex)
      /\ faults' = faults + Len(wire) + Len(port)
      /\ late' = (late \/ wire \o port \o rxBuffer # <<>>)
      /\ Reads /\ parsing' = TRUE
      /\ UNCHANGED <<protocol, alias, turn, data, lost, wire>>
  BY DEF TimesOut, Reads, Abandons
<1>2. /\ ImuShape /\ WrongNeedsCause /\ lost = 0
      /\ wire \in Seq(Replies) /\ port \in Seq(Replies) /\ rxBuffer \in Seq(Replies)
      /\ Len(wire) \in Nat /\ Len(port) \in Nat /\ Len(rxBuffer) \in Nat
      /\ late \in BOOLEAN /\ waitingResponse \in BOOLEAN
  BY <1>0, Waiting
<1>3. /\ rxBuffer' \in Seq(Replies) /\ port' \in Seq(Replies)
      /\ Len(port') = 0 /\ Len(rxBuffer') = Len(rxBuffer) + Len(port)
  BY <1>1, <1>2, ReadsReplies
<1>4. ~late' => Len(wire) = 0 /\ Len(port) = 0 /\ Len(rxBuffer) = 0
  <2> DEFINE all == wire \o port
  <2>1. all \in Seq(Replies) /\ Len(all) = Len(wire) + Len(port)
    BY <1>2, ConcatProperties
  <2> HIDE DEF all
  <2>2. Len(all \o rxBuffer) = Len(all) + Len(rxBuffer)
    BY <1>2, <2>1, ConcatProperties
  <2>3. ~late' => all \o rxBuffer = <<>>
    BY <1>1 DEF all
  <2>4. ~late' => Len(all \o rxBuffer) = 0
    BY <2>3, EmptySeq
  <2>5. ~late' => (Len(wire) + Len(port)) + Len(rxBuffer) = 0
    BY <2>1, <2>2, <2>4
  <2> QED BY <1>2, <2>5
<1>5. OneAtATime'
  <2> SUFFICES ASSUME ~late'
               PROVE  /\ Len(wire) + Len(port') + Len(rxBuffer') <= 0
                      /\ Answer(wire, 0) /\ Answer(port', 0) /\ Answer(rxBuffer', 0)
    BY <1>1 DEF OneAtATime
  <2>1. Len(wire) = 0 /\ Len(port') = 0 /\ Len(rxBuffer') = 0
    BY <1>3, <1>4
  <2>2. Answer(wire, 0) /\ Answer(port', 0) /\ Answer(rxBuffer', 0)
    BY <2>1, NoReplies
  <2> QED BY <2>1, <2>2
<1>6. RequestInv'
  BY <1>1, <1>2, <1>3, <1>5 DEF RequestInv
<1>7. modbusIndex' \in Kinds /\ faults' \in Nat /\ (faults > 0 => faults' > 0)
  <2>1. modbusIndex \in Kinds /\ faults \in Nat
    BY <1>2, KindsFollow DEF ImuShape
  <2>2. modbusIndex' \in Kinds
    BY <1>1, <2>1, KindsFollow
  <2>3. faults' \in Nat /\ (faults > 0 => faults' > 0)
    BY <1>1, <1>2, <2>1
  <2> QED BY <2>2, <2>3
<1>8. late' \in BOOLEAN /\ (late => late')
  BY <1>1, <1>2
<1>9. ~Streams' /\ ImuShape'
  BY <1>0, <1>1, <1>2, <1>7, <1>8 DEF ImuShape, Streams, TTL, CAN
<1>10. WrongNeedsCause'
  BY <1>1, <1>2, <1>7, <1>8 DEF WrongNeedsCause, CAN
<1> QED BY <1>6, <1>9, <1>10 DEF ImuInv

\* The first reply in the buffer is dropped or handled.
LEMMA ReplyTaken ==
  ASSUME ImuInv, ~Streams, rxBuffer # <<>>, rxBuffer' = Tail(rxBuffer), UNCHANGED <<wire, port>>
  PROVE  /\ rxBuffer' \in Seq(Replies) /\ Head(rxBuffer) \in Replies
         /\ Len(wire') + Len(port') + Len(rxBuffer') = Len(wire) + Len(port) + Len(rxBuffer) - 1
         /\ Len(wire) + Len(port) + Len(rxBuffer) \in Nat
         /\ ~late => /\ Head(rxBuffer).kind = currentRequestAddr
                     /\ Answer(wire', currentRequestAddr)
                     /\ Answer(port', currentRequestAddr)
                     /\ Answer(rxBuffer', currentRequestAddr)
                     /\ waitingResponse
                     /\ Len(wire') + Len(port') + Len(rxBuffer') <= 0
<1>1. /\ rxBuffer \in Seq(Replies)
      /\ Len(wire) \in Nat /\ Len(port) \in Nat /\ Len(rxBuffer) \in Nat
      /\ waitingResponse \in BOOLEAN
      /\ ~late => /\ Len(wire) + Len(port) + Len(rxBuffer) <= IF waitingResponse THEN 1 ELSE 0
                  /\ Answer(wire, currentRequestAddr)
                  /\ Answer(port, currentRequestAddr)
                  /\ Answer(rxBuffer, currentRequestAddr)
  BY Waiting
<1>2. /\ Head(rxBuffer) \in Replies /\ rxBuffer' \in Seq(Replies)
      /\ Len(rxBuffer) >= 1 /\ Len(rxBuffer') = Len(rxBuffer) - 1
      /\ \A addr : Answer(rxBuffer, addr) => Answer(rxBuffer', addr) /\ Head(rxBuffer).kind = addr
  BY <1>1, AnswerMoved
<1>3. Len(wire') + Len(port') + Len(rxBuffer') = Len(wire) + Len(port) + Len(rxBuffer) - 1
  BY <1>1, <1>2
<1>4. ASSUME ~late
      PROVE  waitingResponse /\ Len(wire') + Len(port') + Len(rxBuffer') <= 0
  BY <1>1, <1>2, <1>3, <1>4
<1>5. Len(wire) + Len(port) + Len(rxBuffer) \in Nat
  BY <1>1
<1> QED BY <1>1, <1>2, <1>3, <1>4, <1>5

LEMMA DropReplyKept == ImuInv /\ DropReply => ImuInv'
<1> SUFFICES ASSUME ImuInv, DropReply
             PROVE  ImuInv'
  OBVIOUS
<1>1. /\ ~Streams /\ rxBuffer # <<>> /\ rxBuffer' = Tail(rxBuffer)
      /\ UNCHANGED <<protocol, alias, turn, wire, port, faults, late, parsing, modbusIndex,
                     waitingResponse, currentRequestAddr, data, lost>>
  BY DEF DropReply, Judged, Remaining, request
<1>2. /\ ImuShape /\ WrongNeedsCause /\ lost = 0
      /\ wire \in Seq(Replies) /\ port \in Seq(Replies)
  BY <1>1, Waiting
<1>3. /\ rxBuffer' \in Seq(Replies)
      /\ ~late => /\ Answer(wire', currentRequestAddr) /\ Answer(port', currentRequestAddr)
                  /\ Answer(rxBuffer', currentRequestAddr)
                  /\ waitingResponse /\ Len(wire') + Len(port') + Len(rxBuffer') <= 0
      /\ Len(wire') + Len(port') + Len(rxBuffer') = Len(wire) + Len(port) + Len(rxBuffer) - 1
      /\ Len(wire) + Len(port) + Len(rxBuffer) \in Nat
  BY <1>1, ReplyTaken
<1>4. OneAtATime'
  <2> SUFFICES ASSUME ~late
               PROVE  /\ Len(wire') + Len(port') + Len(rxBuffer')
                           <= IF waitingResponse THEN 1 ELSE 0
                      /\ Answer(wire', currentRequestAddr) /\ Answer(port', currentRequestAddr)
                      /\ Answer(rxBuffer', currentRequestAddr)
    BY <1>1 DEF OneAtATime
  <2> QED BY <1>3
<1>5. RequestInv'
  BY <1>1, <1>2, <1>3, <1>4 DEF RequestInv
<1>6. ~Streams' /\ ImuShape' /\ WrongNeedsCause'
  BY <1>1, <1>2 DEF ImuShape, Streams, WrongNeedsCause, TTL, CAN
<1> QED BY <1>5, <1>6 DEF ImuInv

\* A reply that is handled in time is the one that was asked for, so that it fits and is
\* stored under its own name.
LEMMA HandleReplyKept == ImuInv /\ HandleReply => ImuInv'
<1> SUFFICES ASSUME ImuInv, HandleReply
             PROVE  ImuInv'
  OBVIOUS
<1> DEFINE reply == Head(rxBuffer)
<1>1. /\ ~Streams /\ rxBuffer # <<>> /\ rxBuffer' = Tail(rxBuffer)
      /\ UNCHANGED <<protocol, alias, turn, wire, port, faults, late, parsing,
                     currentRequestAddr, lost>>
  BY DEF HandleReply, Judged, Remaining
<1>2. IF Fits(reply.kind, currentRequestAddr)
        THEN /\ data' = [i \in Kinds |->
                  IF i \notin Holds(currentRequestAddr) THEN data[i]
                  ELSE IF currentRequestAddr = reply.kind THEN "right" ELSE "wrong"]
             /\ waitingResponse' = FALSE
             /\ modbusIndex' = Following(modbusIndex)
        ELSE UNCHANGED <<data, waitingResponse, modbusIndex>>
  BY DEF HandleReply
<1>3. /\ ImuShape /\ WrongNeedsCause /\ lost = 0
      /\ wire \in Seq(Replies) /\ port \in Seq(Replies)
  BY <1>1, Waiting
<1>4. /\ rxBuffer' \in Seq(Replies)
      /\ ~late => /\ reply.kind = currentRequestAddr
                  /\ Answer(wire', currentRequestAddr) /\ Answer(port', currentRequestAddr)
                  /\ Answer(rxBuffer', currentRequestAddr)
                  /\ Len(wire') + Len(port') + Len(rxBuffer') <= 0
      /\ Len(wire') + Len(port') + Len(rxBuffer') = Len(wire) + Len(port) + Len(rxBuffer) - 1
      /\ Len(wire) + Len(port) + Len(rxBuffer) \in Nat
  BY <1>1, ReplyTaken
<1> HIDE DEF reply
<1>5. OneAtATime'
  <2> SUFFICES ASSUME ~late
               PROVE  /\ Len(wire') + Len(port') + Len(rxBuffer')
                           <= IF waitingResponse' THEN 1 ELSE 0
                      /\ Answer(wire', currentRequestAddr) /\ Answer(port', currentRequestAddr)
                      /\ Answer(rxBuffer', currentRequestAddr)
    BY <1>1 DEF OneAtATime
  <2> QED BY <1>4
<1>6. RequestInv'
  BY <1>1, <1>3, <1>4, <1>5 DEF RequestInv
<1>7. /\ data' \in [Kinds -> {"none", "right", "wrong"}]
      /\ \A i \in Kinds : data'[i] = "wrong" => data[i] = "wrong" \/ late
  <2>1. data \in [Kinds -> {"none", "right", "wrong"}]
    BY <1>3 DEF ImuShape
  <2>2. CASE Fits(reply.kind, currentRequestAddr)
    <3>1. data' = [i \in Kinds |->
                    IF i \notin Holds(currentRequestAddr) THEN data[i]
                    ELSE IF currentRequestAddr = reply.kind THEN "right" ELSE "wrong"]
      BY <1>2, <2>2
    <3>2. late \/ reply.kind = currentRequestAddr
      BY <1>4
    <3> QED BY <2>1, <3>1, <3>2
  <2>3. CASE ~Fits(reply.kind, currentRequestAddr)
    BY <1>2, <2>1, <2>3
  <2> QED BY <2>2, <2>3
<1>8. modbusIndex' \in Kinds /\ waitingResponse' \in BOOLEAN
  <2>1. modbusIndex \in Kinds /\ waitingResponse \in BOOLEAN
    BY <1>3, KindsFollow DEF ImuShape
  <2> QED BY <1>2, <2>1, KindsFollow
<1>9. ~Streams' /\ ImuShape'
  BY <1>1, <1>3, <1>7, <1>8 DEF ImuShape, Streams, TTL, CAN
<1>10. WrongNeedsCause'
  BY <1>1, <1>3, <1>7 DEF WrongNeedsCause, CAN
<1> QED BY <1>6, <1>9, <1>10 DEF ImuInv

(***************************************************************************)
(* The theorems.                                                           *)
(***************************************************************************)

LEMMA StartsInvariant == Init => ImuInv
<1> SUFFICES ASSUME Init
             PROVE  ImuInv
  OBVIOUS
<1>1. /\ protocol \in Protocols /\ alias \in {FALSE, Streams}
      /\ turn = [kind |-> 1, at |-> 1]
      /\ wire = <<>> /\ port = <<>> /\ rxBuffer = <<>> /\ parsing = FALSE
      /\ modbusIndex = 1 /\ waitingResponse = FALSE /\ currentRequestAddr = 0
      /\ data = [k \in Kinds |-> "none"]
      /\ faults = 0 /\ late = FALSE /\ lost = 0
  BY DEF Init
<1>2. ImuShape /\ WrongNeedsCause
  <2>1. data \in [Kinds -> {"none", "right", "wrong"}]
    BY <1>1
  <2>2. \A i \in Kinds : data[i] # "wrong"
    BY <1>1
  <2>3. modbusIndex \in Kinds
    BY <1>1, KindsFollow
  <2>4. ImuShape
    BY <1>1, <2>1, <2>3 DEF ImuShape
  <2> QED BY <2>2, <2>4 DEF WrongNeedsCause, CAN
<1>3. Unparsed = <<>> /\ Len(<<>>) = 0 /\ \A S : <<>> \in Seq(S)
  BY <1>1, EmptySeq, ConcatEmptySeq DEF Unparsed
<1>4. ASSUME Streams
      PROVE  StreamInv
  <2>1. 1 \in 1 .. FrameBytes
    BY <1>4, FrameLength
  <2>2. turn \in Places(FrameBytes)
    BY <1>1, <2>1, KindsFollow DEF Places
  <2>3. HeadersShow(Unparsed, alias)
    BY <1>3 DEF HeadersShow
  <2>4. StreamShape
    BY <1>1, <1>3, <2>2, <2>3 DEF StreamShape
  <2>5. Scars(FrameBytes, Unparsed, turn) = {}
    BY <1>3 DEF Scars
  <2> DEFINE N == Cardinality(Scars(FrameBytes, Unparsed, turn))
  <2>6. N = 0
    BY <2>5, FS_EmptySet
  <2> HIDE DEF N
  <2>7. lost + 2 * N <= 2 * faults
    BY <1>1, <2>6
  <2>8. Charged
    BY <1>1, <2>7 DEF Charged, N
  <2>9. InStep
    BY <1>1, <1>3, <2>5 DEF InStep, CAN
  <2> QED BY <2>4, <2>8, <2>9 DEF StreamInv
<1>5. RequestInv
  <2>1. Len(wire) = 0 /\ Len(port) = 0 /\ Len(rxBuffer) = 0
    BY <1>1, <1>3
  <2>2. OneAtATime
    BY <1>1, <2>1, NoReplies DEF OneAtATime
  <2> QED BY <1>1, <1>3, <2>2 DEF RequestInv
<1> QED BY <1>2, <1>4, <1>5 DEF ImuInv

LEMMA StutterKept == ImuInv /\ UNCHANGED vars => ImuInv'
<1> SUFFICES ASSUME ImuInv, UNCHANGED vars
             PROVE  ImuInv'
  OBVIOUS
<1>1. UNCHANGED <<protocol, alias, turn, wire, port, rxBuffer, parsing, modbusIndex,
                  waitingResponse, currentRequestAddr, data, faults, late, lost>>
  BY DEF vars, request
<1>2. ImuShape' /\ (Streams' <=> Streams) /\ WrongNeedsCause'
  BY <1>1 DEF ImuInv, ImuShape, Streams, WrongNeedsCause, TTL, CAN
<1>3. StreamInv => StreamInv'
  BY <1>1 DEF StreamInv, StreamShape, Charged, InStep, Unparsed, FrameBytes, TTL, CAN
<1>4. RequestInv => RequestInv'
  BY <1>1 DEF RequestInv, OneAtATime
<1> QED BY <1>2, <1>3, <1>4 DEF ImuInv

\* The invariant holds for frames of every length, for every protocol, and however many
\* bytes and replies are lost, damaged or late.
THEOREM ImuInvariant == Spec => []ImuInv
<1>1. Init => ImuInv
  BY StartsInvariant
<1>2. ImuInv /\ [Next]_vars => ImuInv'
  <2> SUFFICES ASSUME ImuInv, [Next]_vars
               PROVE  ImuInv'
    OBVIOUS
  <2>1. CASE SendsByte
    BY <2>1, SendsByteKept
  <2>2. CASE ReplyArrives
    BY <2>2, ReplyArrivesKept
  <2>3. CASE OnlyReads
    BY <2>3, StreamReadsKept, RequestReadsKept
  <2>4. CASE Asks
    BY <2>4, AsksKept
  <2>5. CASE TimesOut
    BY <2>5, TimesOutKept
  <2>6. CASE PopByte
    BY <2>6, PopByteKept
  <2>7. CASE TakeFrame
    BY <2>7, TakeFrameKept
  <2>8. CASE DropReply
    BY <2>8, DropReplyKept
  <2>9. CASE HandleReply
    BY <2>9, HandleReplyKept
  <2>10. CASE ParseReturns
    BY <2>10, ParseReturnsKept
  <2>11. CASE UNCHANGED vars
    BY <2>11, StutterKept
  <2> QED BY <2>1, <2>2, <2>3, <2>4, <2>5, <2>6, <2>7, <2>8, <2>9, <2>10, <2>11 DEF Next, Driver
<1> QED BY <1>1, <1>2, PTL DEF Spec

\* The parser of wit_ros2_imu.py finds its place again: where no data byte looks like a
\* header, each byte that is lost or damaged costs two frames at most.  A fault leaves one
\* scar at most among the bytes, and each scar consumed loses two headers at most.
THEOREM DamageStaysLocal == Spec => []DamageIsLocal
<1>1. ImuInv => DamageIsLocal
  <2> SUFFICES ASSUME ImuInv
               PROVE  DamageIsLocal
    OBVIOUS
  <2>1. ImuShape
    BY DEF ImuInv
  <2>2. CASE ~Streams
    BY <2>1, <2>2 DEF ImuInv, ImuShape, RequestInv, DamageIsLocal
  <2>3. CASE Streams
    <3>1. StreamShape /\ Charged
      BY <2>3 DEF ImuInv, StreamInv
    <3>2. CASE alias
      BY <2>1, <3>1, <3>2 DEF ImuShape, Charged, DamageIsLocal
    <3>3. CASE ~alias
      <4> DEFINE N == Cardinality(Scars(FrameBytes, Unparsed, turn))
      <4>1. Len(Unparsed) \in Nat
        BY <3>1, UnparsedBytes DEF StreamShape
      <4>2. N \in Nat
        BY <4>1, ScarsAreFinite
      <4>3. lost + 2 * N <= 2 * faults
        BY <3>1, <3>3 DEF Charged
      <4>4. lost \in Nat /\ faults \in Nat
        BY <2>1 DEF ImuShape
      <4> HIDE DEF N
      <4>5. lost <= 2 * faults
        BY <4>2, <4>3, <4>4
      <4> QED BY <4>5 DEF DamageIsLocal
    <3> QED BY <3>2, <3>3
  <2> QED BY <2>2, <2>3
<1> QED BY <1>1, ImuInvariant, PTL

\* A quantity that was not measured, or not under that name, is published on CAN after a
\* fault, for want of a checksum, or after a reply outlived the timeout of its request;
\* the checksums of TTL and the one request at a time of RS485 exclude every other way.
THEOREM MeasuredOrExcused == Spec => []WrongNeedsCause
<1>1. ImuInv => WrongNeedsCause
  BY DEF ImuInv
<1> QED BY <1>1, ImuInvariant, PTL

=============================================================================
