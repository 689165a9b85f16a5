-------------------------- MODULE CatalogReadersProofs -------------------------
(* Theorems about CatalogReaders, for every catalog, file of MTGJSON, query, *)
(* answer, page size and size of chunks and batches.                         *)
EXTENDS CatalogReaders, FiniteSetTheorems, NaturalsInduction, SequenceTheorems,
        WellFoundedInduction, TLAPS

--------------------------------------------------------------------------------
(* Sequences cut in parts.                                                   *)

LEMMA MoreTimes ==
  ASSUME NEW m \in Nat, NEW n \in Nat, NEW d \in Nat, n = m + d, NEW size \in Nat
  PROVE  m * size <= n * size /\ size * m <= size * n
<1>1. n * size = m * size + d * size
  OBVIOUS
<1>2. m * size \in Nat /\ d * size \in Nat
  OBVIOUS
<1>3. m * size <= n * size
  BY <1>1, <1>2
<1>4. size * m = m * size /\ size * n = n * size
  OBVIOUS
<1> QED
  BY <1>3, <1>4

(* More of one size are not smaller.                                         *)
LEMMA Monotone ==
  ASSUME NEW m \in Nat, NEW n \in Nat, m <= n, NEW size \in Nat
  PROVE  m * size <= n * size /\ size * m <= size * n
<1> DEFINE d == n - m
<1>1. d \in Nat /\ n = m + d
  OBVIOUS
<1> HIDE DEF d
<1> QED
  BY <1>1, MoreTimes

(* How often a part fits.                                                    *)
LEMMA Quotient ==
  ASSUME NEW len \in Nat \ {0}, NEW size \in Nat \ {0}
  PROVE  LET full == (len - 1) \div size
         IN full \in Nat /\ full * size < len /\ len <= full * size + size
<1> DEFINE all == len - 1
           full == all \div size
<1>1. all \in Nat
  OBVIOUS
<1>2. full \in Nat /\ full * size <= all /\ all < full * size + size
  BY <1>1
<1> QED
  BY <1>2

LEMMA Ceiling ==
  ASSUME NEW len \in Nat, NEW size \in Nat \ {0}
  PROVE  LET parts == (len + size - 1) \div size
         IN parts \in Nat /\ len <= parts * size /\ parts * size < len + size
<1> DEFINE all == len + size - 1
           parts == all \div size
<1>1. all \in Nat
  OBVIOUS
<1>2. parts \in Nat /\ parts * size <= all /\ all < parts * size + size
  BY <1>1
<1> QED
  BY <1>2

(* A place in one part is a place of one part only.                          *)
LEMMA PlaceOfPart ==
  ASSUME NEW size \in Nat \ {0}, NEW n \in Nat, NEW m \in Nat, NEW k \in 1..size, NEW l \in 1..size,
         n * size + k = m * size + l
  PROVE  n = m /\ k = l
<1>1. ASSUME NEW a \in Nat, NEW b \in Nat, a < b PROVE a * size + size <= b * size
  <2>1. a + 1 <= b
    BY <1>1
  <2>2. (a + 1) * size <= b * size
    BY <2>1, Monotone
  <2> QED
    BY <2>2
<1>2. ~ n < m
  BY <1>1
<1>3. ~ m < n
  BY <1>1
<1> QED
  BY <1>2, <1>3

LEMMA PartFacts ==
  ASSUME NEW S, NEW s \in Seq(S), NEW size \in Nat \ {0}, NEW n \in DOMAIN Cut(s, size)
  PROVE  /\ n \in Nat \ {0} /\ Cut(s, size)[n] = Part(s, size, n) /\ Part(s, size, n) \in Seq(S)
         /\ Len(Part(s, size, n)) \in 1..size
         /\ \A k \in DOMAIN Part(s, size, n) :
              (n - 1) * size + k \in DOMAIN s /\ Part(s, size, n)[k] = s[(n - 1) * size + k]
<1> DEFINE low == (n - 1) * size
           high == AtMost(n * size, Len(s))
<1>1. n \in Nat \ {0} /\ Cut(s, size)[n] = Part(s, size, n)
  BY DEF Cut
<1>2. n <= (Len(s) + size - 1) \div size
  BY Ceiling DEF Cut
<1>3. low < Len(s)
  <2> DEFINE parts == (Len(s) + size - 1) \div size
  <2>1. parts \in Nat /\ parts * size < Len(s) + size
    <3>1. Len(s) \in Nat
      OBVIOUS
    <3> QED
      BY ONLY <3>1, size \in Nat \ {0}, Ceiling
  <2>2. n * size <= parts * size
    BY <1>1, <1>2, <2>1, Monotone
  <2>3. n * size = low + size
    BY <1>1
  <2> QED
    BY <1>1, <2>1, <2>2, <2>3
<1>4. low \in Nat /\ high \in low + 1 .. Len(s) /\ high <= low + size
  <2>1. n * size = low + size /\ low \in Nat
    BY <1>1
  <2> QED
    BY <1>3, <2>1 DEF AtMost
<1> HIDE DEF low, high
<1>5. Part(s, size, n) = SubSeq(s, low + 1, high)
  BY DEF Part, low, high
<1>6. /\ SubSeq(s, low + 1, high) \in Seq(S) /\ Len(SubSeq(s, low + 1, high)) = high - low
      /\ \A k \in 1..(high - low) : SubSeq(s, low + 1, high)[k] = s[low + k]
  BY <1>4
<1> QED
  BY <1>1, <1>4, <1>5, <1>6 DEF low

(* Every place of a sequence is in a part.                                   *)
LEMMA CutCovers ==
  ASSUME NEW S, NEW s \in Seq(S), NEW size \in Nat \ {0}, NEW i \in DOMAIN s
  PROVE  \E n \in DOMAIN Cut(s, size) :
           \E k \in DOMAIN Cut(s, size)[n] : i = (n - 1) * size + k /\ Cut(s, size)[n][k] = s[i]
<1> DEFINE before == (i - 1) \div size
           parts == (Len(s) + size - 1) \div size
           n == before + 1
           k == i - before * size
<1>1. before \in Nat /\ before * size < i /\ i <= before * size + size
  BY Quotient
<1>2. parts \in Nat /\ Len(s) <= parts * size
  <2>1. Len(s) \in Nat
    OBVIOUS
  <2> QED
    BY ONLY <2>1, size \in Nat \ {0}, Ceiling
<1> HIDE DEF before
<1>3. before < parts
  <2> SUFFICES ASSUME parts <= before PROVE FALSE
    BY <1>1, <1>2
  <2>1. parts * size <= before * size
    BY <1>1, <1>2, Monotone
  <2> QED
    BY <1>1, <1>2, <2>1
<1>4. n \in DOMAIN Cut(s, size)
  BY <1>1, <1>2, <1>3 DEF Cut
<1>5. k \in DOMAIN Part(s, size, n) /\ i = (n - 1) * size + k
  <2>1. n * size = before * size + size
    BY <1>1
  <2>2. n - 1 = before /\ (n - 1) * size = before * size
    BY <1>1
  <2>3. Part(s, size, n) = SubSeq(s, before * size + 1, AtMost(before * size + size, Len(s)))
    BY <2>1, <2>2 DEF Part
  <2>4. AtMost(before * size + size, Len(s)) \in i..Len(s)
    BY <1>1 DEF AtMost
  <2>5. before * size \in Nat
    BY <1>1
  <2>6. k \in 1..(AtMost(before * size + size, Len(s)) - before * size)
    BY <1>1, <2>4, <2>5
  <2> QED
    BY <2>2, <2>3, <2>4, <2>5, <2>6
<1>6. Cut(s, size)[n] = Part(s, size, n) /\ Part(s, size, n)[k] = s[(n - 1) * size + k]
  BY <1>4, <1>5, PartFacts
<1> HIDE DEF n, k
<1> QED
  BY <1>4, <1>5, <1>6

(* A list of all that is asked about, once each.                             *)
OnceEach(oracles, asked) ==
  /\ oracles \in Seq(asked) /\ Range(oracles) = asked /\ IsFiniteSet(asked)
  /\ \A i, j \in DOMAIN oracles : oracles[i] = oracles[j] => i = j

CardsOf(batch) == UNION {Range(batch[c]) : c \in DOMAIN batch}

Fits(batches, asked) ==
  /\ \A b \in DOMAIN batches :
       /\ Len(batches[b]) \in 1..MaxRequests
       /\ Cardinality(CardsOf(batches[b])) <= AtLeast(CardsPerBatch, ChunkSize)
  /\ \A chunk \in Chunks(batches) : /\ batches[chunk[1]][chunk[2]] \in Seq(asked)
                                    /\ Len(batches[chunk[1]][chunk[2]]) \in 1..ChunkSize
                                    /\ IsInjective(batches[chunk[1]][chunk[2]])
  /\ \A one, other \in Chunks(batches) :
       Range(batches[one[1]][one[2]]) \cap Range(batches[other[1]][other[2]]) # {} => one = other
  /\ UNION {CardsOf(batches[b]) : b \in DOMAIN batches} = asked

LEMMA CutIsSeq ==
  ASSUME NEW S, NEW s \in Seq(S), NEW size \in Nat \ {0}
  PROVE  Cut(s, size) \in Seq(Seq(S))
<1>1. ASSUME NEW n \in DOMAIN Cut(s, size) PROVE Cut(s, size)[n] \in Seq(S)
  <2>1. Cut(s, size)[n] = Part(s, size, n) /\ Part(s, size, n) \in Seq(S)
    BY PartFacts
  <2> QED
    BY <2>1
<1>2. (Len(s) + size - 1) \div size \in Nat
  <2>1. Len(s) \in Nat
    OBVIOUS
  <2> QED
    BY ONLY <2>1, size \in Nat \ {0}, Ceiling
<1>3. PICK parts \in Nat : Cut(s, size) = [n \in 1..parts |-> Part(s, size, n)]
  BY <1>2 DEF Cut
<1> QED
  BY <1>1, <1>3

LEMMA BatchSize ==
  /\ ChunksPerBatch \in 1..MaxRequests
  /\ ChunksPerBatch * ChunkSize <= AtLeast(CardsPerBatch, ChunkSize)
<1> DEFINE fit == CardsPerBatch \div ChunkSize
<1>1. {ChunkSize, CardsPerBatch, MaxRequests} \subseteq Nat \ {0}
  BY ChunkAssumption DEF ChunkAssumption
<1>2. fit \in Nat /\ fit * ChunkSize <= CardsPerBatch
  BY <1>1
<1> HIDE DEF fit
<1>3. ChunksPerBatch = AtMost(AtLeast(1, fit), MaxRequests)
  BY DEF ChunksPerBatch, fit
<1>4. ChunksPerBatch \in 1..MaxRequests /\ (ChunksPerBatch = 1 \/ ChunksPerBatch <= fit)
  BY <1>1, <1>2, <1>3 DEF AtMost, AtLeast
<1>5. CASE ChunksPerBatch = 1
  BY <1>1, <1>4, <1>5 DEF AtLeast
<1>6. CASE ChunksPerBatch <= fit
  <2>1. ChunksPerBatch * ChunkSize <= fit * ChunkSize
    BY <1>1, <1>2, <1>4, <1>6, Monotone
  <2>2. ChunksPerBatch * ChunkSize \in Nat
    BY <1>1, <1>4
  <2> QED
    BY <1>1, <1>2, <1>4, <2>1, <2>2 DEF AtLeast
<1> QED
  BY <1>4, <1>5, <1>6

Place(b, c, k) == ((b - 1) * ChunksPerBatch + c - 1) * ChunkSize + k

LEMMA BatchFacts ==
  ASSUME NEW asked, NEW oracles \in Seq(asked),
         NEW b \in DOMAIN Batches(oracles), NEW c \in DOMAIN Batches(oracles)[b]
  PROVE  /\ b \in Nat \ {0} /\ c \in 1..ChunksPerBatch
         /\ Batches(oracles)[b] \in Seq(Seq(asked)) /\ Len(Batches(oracles)[b]) \in 1..ChunksPerBatch
         /\ Batches(oracles)[b][c] \in Seq(asked) /\ Len(Batches(oracles)[b][c]) \in 1..ChunkSize
         /\ \A k \in DOMAIN Batches(oracles)[b][c] :
              Place(b, c, k) \in DOMAIN oracles /\ Batches(oracles)[b][c][k] = oracles[Place(b, c, k)]
<1> DEFINE chunks == Cut(oracles, ChunkSize)
           n == (b - 1) * ChunksPerBatch + c
<1>1. ChunkSize \in Nat \ {0} /\ ChunksPerBatch \in Nat \ {0}
  BY BatchSize, ChunkAssumption DEF ChunkAssumption
<1>2. chunks \in Seq(Seq(asked))
  BY <1>1, CutIsSeq
<1>3. Batches(oracles) = Cut(chunks, ChunksPerBatch)
  BY DEF Batches
<1> HIDE DEF chunks
<1>4. /\ b \in Nat \ {0} /\ Batches(oracles)[b] \in Seq(Seq(asked))
      /\ Len(Batches(oracles)[b]) \in 1..ChunksPerBatch
      /\ n \in DOMAIN chunks /\ Batches(oracles)[b][c] = chunks[n]
  <2> DEFINE part == Part(chunks, ChunksPerBatch, b)
  <2>1. b \in DOMAIN Cut(chunks, ChunksPerBatch) /\ c \in DOMAIN Cut(chunks, ChunksPerBatch)[b]
    BY <1>3
  <2>2. /\ b \in Nat \ {0} /\ Cut(chunks, ChunksPerBatch)[b] = part /\ part \in Seq(Seq(asked))
        /\ Len(part) \in 1..ChunksPerBatch
        /\ \A k \in DOMAIN part :
             (b - 1) * ChunksPerBatch + k \in DOMAIN chunks /\ part[k] = chunks[(b - 1) * ChunksPerBatch + k]
    BY ONLY <1>1, <1>2, <2>1, PartFacts
  <2>3. Batches(oracles)[b] = part /\ c \in DOMAIN part
    BY <1>3, <2>1, <2>2
  <2> HIDE DEF part
  <2> QED
    BY <2>2, <2>3
<1>5. c \in 1..ChunksPerBatch
  BY <1>1, <1>4
<1> HIDE DEF n
<1>6. /\ chunks[n] \in Seq(asked) /\ Len(chunks[n]) \in 1..ChunkSize
      /\ \A k \in DOMAIN chunks[n] :
           (n - 1) * ChunkSize + k \in DOMAIN oracles /\ chunks[n][k] = oracles[(n - 1) * ChunkSize + k]
  <2>1. n \in DOMAIN Cut(oracles, ChunkSize) /\ chunks = Cut(oracles, ChunkSize)
    BY <1>4 DEF chunks
  <2> QED
    BY <1>1, <2>1, PartFacts
<1>7. \A k : Place(b, c, k) = (n - 1) * ChunkSize + k
  <2>1. (b - 1) * ChunksPerBatch \in Int
    BY <1>1, <1>4
  <2>2. n - 1 = (b - 1) * ChunksPerBatch + c - 1
    BY <1>5, <2>1 DEF n
  <2> QED
    BY <2>2 DEF Place
<1> QED
  BY <1>4, <1>5, <1>6, <1>7

LEMMA RoundFits ==
  ASSUME NEW asked, NEW oracles, OnceEach(oracles, asked)
  PROVE  Fits(Batches(oracles), asked)
<1> DEFINE batches == Batches(oracles)
<1>1. /\ ChunkSize \in Nat \ {0} /\ ChunksPerBatch \in 1..MaxRequests /\ MaxRequests \in Nat
      /\ CardsPerBatch \in Nat \ {0} /\ ChunksPerBatch * ChunkSize \in Nat
  BY BatchSize, ChunkAssumption DEF ChunkAssumption
<1>2. oracles \in Seq(asked) /\ \A i, j \in DOMAIN oracles : oracles[i] = oracles[j] => i = j
  BY DEF OnceEach
<1>3. ASSUME NEW b \in DOMAIN batches, NEW c \in DOMAIN batches[b]
      PROVE  /\ b \in Nat \ {0} /\ c \in 1..ChunksPerBatch
             /\ DOMAIN batches[b][c] \subseteq 1..ChunkSize /\ Len(batches[b][c]) \in 1..ChunkSize
             /\ Range(batches[b][c]) \subseteq asked /\ batches[b][c] \in Seq(asked)
  <2>1. /\ b \in Nat \ {0} /\ c \in 1..ChunksPerBatch
        /\ batches[b][c] \in Seq(asked) /\ Len(batches[b][c]) \in 1..ChunkSize
    BY <1>2, BatchFacts
  <2> HIDE DEF batches
  <2> QED
    BY <1>1, <2>1 DEF Range
<1>4. ASSUME NEW b \in DOMAIN batches, NEW c \in DOMAIN batches[b], NEW k \in DOMAIN batches[b][c]
      PROVE  Place(b, c, k) \in DOMAIN oracles /\ batches[b][c][k] = oracles[Place(b, c, k)]
  BY <1>2, BatchFacts
<1>10. ASSUME NEW b \in DOMAIN batches PROVE Len(batches[b]) \in 1..MaxRequests
  <2>1. Cut(oracles, ChunkSize) \in Seq(Seq(asked))
    BY <1>1, <1>2, CutIsSeq
  <2>2. Len(batches[b]) \in 1..ChunksPerBatch
    BY <1>1, <2>1, PartFacts DEF Batches
  <2> HIDE DEF batches
  <2> QED
    BY <1>1, <2>2
<1>11. DOMAIN batches \subseteq Nat \ {0}
  BY DEF Batches, Cut
<1> HIDE DEF batches
<1>5. ASSUME NEW b \in DOMAIN batches
      PROVE  Cardinality(CardsOf(batches[b])) <= AtLeast(CardsPerBatch, ChunkSize)
  <2> DEFINE low == (b - 1) * ChunksPerBatch * ChunkSize
             most == ChunksPerBatch * ChunkSize
             places == (low + 1 .. low + most) \cap DOMAIN oracles
  <2>1. ASSUME NEW c \in DOMAIN batches[b], NEW k \in DOMAIN batches[b][c]
        PROVE  Place(b, c, k) \in places /\ batches[b][c][k] = oracles[Place(b, c, k)]
    <3>1. c \in 1..ChunksPerBatch /\ k \in 1..ChunkSize /\ b \in Nat \ {0}
      BY <1>3
    <3>2. (c - 1) * ChunkSize \in 0 .. (ChunksPerBatch - 1) * ChunkSize
      <4>1. c - 1 \in Nat /\ ChunksPerBatch - 1 \in Nat /\ c - 1 <= ChunksPerBatch - 1 /\ ChunkSize \in Nat
        BY <1>1, <3>1
      <4>2. (c - 1) * ChunkSize <= (ChunksPerBatch - 1) * ChunkSize
        BY ONLY <4>1, Monotone
      <4> QED
        BY <4>1, <4>2
    <3>3. Place(b, c, k) = low + (c - 1) * ChunkSize + k
      BY <1>1, <3>1 DEF Place
    <3>4. (ChunksPerBatch - 1) * ChunkSize + ChunkSize = most /\ low \in Nat
      BY <1>1, <3>1
    <3> QED
      BY <1>1, <1>4, <3>1, <3>2, <3>3, <3>4
  <2>2. CardsOf(batches[b]) \subseteq {oracles[i] : i \in places}
    BY <2>1 DEF CardsOf, Range
  <2>3. IsFiniteSet(places) /\ Cardinality(places) <= most
    <3>1. low \in Int /\ most \in Nat
      BY <1>1, <1>11
    <3>2. \A from \in Int, many \in Nat :
            IsFiniteSet(from + 1 .. from + many) /\ Cardinality(from + 1 .. from + many) = many
      <4> TAKE from \in Int, many \in Nat
      <4>1. \A m, n \in Int : IsFiniteSet(m..n) /\ Cardinality(m..n) = IF m > n THEN 0 ELSE n - m + 1
        BY FS_Interval
      <4> QED
        BY ONLY <4>1, from \in Int, many \in Nat
    <3> HIDE DEF low, most
    <3>3. IsFiniteSet(low + 1 .. low + most) /\ Cardinality(low + 1 .. low + most) = most
      BY ONLY <3>1, <3>2
    <3> QED
      BY <3>1, <3>3, FS_Subset
  <2>4. IsFiniteSet({oracles[i] : i \in places}) /\ Cardinality({oracles[i] : i \in places}) <= most
    <3> DEFINE f == [i \in places |-> oracles[i]]
    <3>1. f \in Surjection(places, {oracles[i] : i \in places})
      BY DEF Surjection
    <3>2. Cardinality(places) \in Nat
      BY <2>3, FS_CardinalityType
    <3> HIDE DEF f, places, most
    <3>3. IsFiniteSet({oracles[i] : i \in places}) /\ Cardinality({oracles[i] : i \in places}) <= Cardinality(places)
      BY <2>3, <3>1, FS_Surjection
    <3>4. Cardinality({oracles[i] : i \in places}) \in Nat
      BY <3>3, FS_CardinalityType
    <3>5. most \in Nat
      BY <1>1 DEF most
    <3> QED
      BY <2>3, <3>2, <3>3, <3>4, <3>5
  <2>5. Cardinality(CardsOf(batches[b])) <= most
    <3> DEFINE all == {oracles[i] : i \in places}
    <3>1. IsFiniteSet(all) /\ CardsOf(batches[b]) \in SUBSET all /\ Cardinality(all) <= most
      BY <2>2, <2>4
    <3>2. most \in Nat
      BY <1>1
    <3> HIDE DEF all, most
    <3>3. IsFiniteSet(CardsOf(batches[b])) /\ Cardinality(CardsOf(batches[b])) <= Cardinality(all)
      BY <3>1, FS_Subset
    <3>4. Cardinality(CardsOf(batches[b])) \in Nat /\ Cardinality(all) \in Nat
      BY <3>1, <3>3, FS_CardinalityType
    <3> QED
      BY <3>1, <3>2, <3>3, <3>4
  <2>6. Cardinality(CardsOf(batches[b])) \in Nat
    <3>1. IsFiniteSet(CardsOf(batches[b]))
      BY <2>2, <2>4, FS_Subset
    <3> QED
      BY <3>1, FS_CardinalityType
  <2>7. AtLeast(CardsPerBatch, ChunkSize) \in Nat
    BY <1>1 DEF AtLeast
  <2> QED
    BY <1>1, <2>5, <2>6, <2>7, BatchSize
<1>6. ASSUME NEW one \in Chunks(batches), NEW other \in Chunks(batches),
             NEW k \in DOMAIN batches[one[1]][one[2]], NEW l \in DOMAIN batches[other[1]][other[2]],
             batches[one[1]][one[2]][k] = batches[other[1]][other[2]][l]
      PROVE  one = other /\ k = l
  <2>1. PICK b, c : b \in DOMAIN batches /\ c \in DOMAIN batches[b] /\ one = <<b, c>>
    BY DEF Chunks
  <2>2. PICK d, e : d \in DOMAIN batches /\ e \in DOMAIN batches[d] /\ other = <<d, e>>
    BY DEF Chunks
  <2>3. k \in DOMAIN batches[b][c] /\ l \in DOMAIN batches[d][e] /\ batches[b][c][k] = batches[d][e][l]
    BY <1>6, <2>1, <2>2
  <2>4. /\ b \in Nat \ {0} /\ c \in 1..ChunksPerBatch /\ k \in 1..ChunkSize
        /\ d \in Nat \ {0} /\ e \in 1..ChunksPerBatch /\ l \in 1..ChunkSize
    <3>1. b \in Nat \ {0} /\ c \in 1..ChunksPerBatch /\ DOMAIN batches[b][c] \subseteq 1..ChunkSize
      BY <1>3, <2>1
    <3>2. d \in Nat \ {0} /\ e \in 1..ChunksPerBatch /\ DOMAIN batches[d][e] \subseteq 1..ChunkSize
      BY <1>3, <2>2
    <3> QED
      BY <2>3, <3>1, <3>2
  <2>5. Place(b, c, k) = Place(d, e, l)
    <3>1. Place(b, c, k) \in DOMAIN oracles /\ batches[b][c][k] = oracles[Place(b, c, k)]
      BY <1>4, <2>1, <2>3
    <3>2. Place(d, e, l) \in DOMAIN oracles /\ batches[d][e][l] = oracles[Place(d, e, l)]
      BY <1>4, <2>2, <2>3
    <3> QED
      BY <1>2, <2>3, <3>1, <3>2
  <2> DEFINE m == (b - 1) * ChunksPerBatch + c - 1
             n == (d - 1) * ChunksPerBatch + e - 1
  <2>6. m \in Nat /\ n \in Nat /\ ChunksPerBatch \in Nat \ {0} /\ b - 1 \in Nat /\ d - 1 \in Nat
    <3>1. (b - 1) * ChunksPerBatch \in Nat /\ (d - 1) * ChunksPerBatch \in Nat
      BY <1>1, <2>4
    <3> QED
      BY <1>1, <2>4, <3>1
  <2>7. m * ChunkSize + k = n * ChunkSize + l
    BY <2>5 DEF Place
  <2>8. m = n /\ k = l
    <3> HIDE DEF m, n
    <3>1. ChunkSize \in Nat \ {0} /\ m \in Nat /\ n \in Nat /\ k \in 1..ChunkSize /\ l \in 1..ChunkSize
      BY <1>1, <2>4, <2>6
    <3> QED
      BY ONLY <2>7, <3>1, PlaceOfPart
  <2>9. (b - 1) * ChunksPerBatch + c = (d - 1) * ChunksPerBatch + e
    <3>1. (b - 1) * ChunksPerBatch \in Nat /\ (d - 1) * ChunksPerBatch \in Nat
      BY <1>1, <2>4
    <3> QED
      BY <2>4, <2>8, <3>1
  <2>10. b - 1 = d - 1 /\ c = e
    BY ONLY <2>4, <2>6, <2>9, PlaceOfPart
  <2> QED
    BY <2>1, <2>2, <2>4, <2>8, <2>10
<1>7. ASSUME NEW chunk \in Chunks(batches)
      PROVE  /\ batches[chunk[1]][chunk[2]] \in Seq(asked) /\ Len(batches[chunk[1]][chunk[2]]) \in 1..ChunkSize
             /\ IsInjective(batches[chunk[1]][chunk[2]])
  <2>1. chunk[1] \in DOMAIN batches /\ chunk[2] \in DOMAIN batches[chunk[1]]
    BY DEF Chunks
  <2>2. batches[chunk[1]][chunk[2]] \in Seq(asked) /\ Len(batches[chunk[1]][chunk[2]]) \in 1..ChunkSize
    BY <1>3, <2>1
  <2> QED
    BY <1>6, <2>2 DEF IsInjective
<1>8. UNION {CardsOf(batches[b]) : b \in DOMAIN batches} = asked
  <2>1. ASSUME NEW b \in DOMAIN batches, NEW c \in DOMAIN batches[b] PROVE Range(batches[b][c]) \subseteq asked
    BY <1>3
  <2>2. ASSUME NEW oracle \in asked
        PROVE  \E b \in DOMAIN batches : \E c \in DOMAIN batches[b] : oracle \in Range(batches[b][c])
    <3> DEFINE chunks == Cut(oracles, ChunkSize)
    <3>1. PICK i \in DOMAIN oracles : oracle = oracles[i]
      BY DEF OnceEach, Range
    <3>2. PICK n \in DOMAIN chunks : \E k \in DOMAIN chunks[n] : chunks[n][k] = oracles[i]
      <4>1. \E n \in DOMAIN chunks :
              \E k \in DOMAIN chunks[n] : i = (n - 1) * ChunkSize + k /\ chunks[n][k] = oracles[i]
        BY <1>1, <1>2, CutCovers
      <4> HIDE DEF chunks
      <4> QED
        BY <4>1
    <3>3. chunks \in Seq(Seq(asked))
      BY <1>1, <1>2, CutIsSeq
    <3>4. ChunksPerBatch \in Nat \ {0} /\ batches = Cut(chunks, ChunksPerBatch)
      BY <1>1 DEF Batches, batches
    <3> HIDE DEF chunks
    <3>5. \E b \in DOMAIN batches : \E c \in DOMAIN batches[b] : batches[b][c] = chunks[n]
      <4>1. \E b \in DOMAIN Cut(chunks, ChunksPerBatch) :
              \E c \in DOMAIN Cut(chunks, ChunksPerBatch)[b] :
                n = (b - 1) * ChunksPerBatch + c /\ Cut(chunks, ChunksPerBatch)[b][c] = chunks[n]
        BY ONLY <3>3, <3>4, n \in DOMAIN chunks, CutCovers
      <4> QED
        BY <3>4, <4>1
    <3> QED
      BY <3>1, <3>2, <3>5 DEF Range
  <2> QED
    BY <2>1, <2>2 DEF CardsOf
<1>9. ASSUME NEW one \in Chunks(batches), NEW other \in Chunks(batches),
             Range(batches[one[1]][one[2]]) \cap Range(batches[other[1]][other[2]]) # {}
      PROVE  one = other
  BY <1>6, <1>9 DEF Range
<1> QED
  BY <1>5, <1>7, <1>8, <1>9, <1>10 DEF Fits, batches

--------------------------------------------------------------------------------
(* Types.                                                                    *)

CatalogOK ==
  /\ DOMAIN catalog \subseteq DOMAIN Files
  /\ \A card \in DOMAIN catalog : catalog[card] \in DOMAIN Files[card]

Walking == walk.stage \in {"count", "read", "end"}

WalkOK ==
  /\ walk.stage \in {"none", "refused", "count", "read", "end"}
  /\ Walking =>
       /\ walk.query \in Queries /\ walk.search = Search(walk.query.filters)
       /\ walk.page \in Nat \ {0} /\ walk.seen \in Seq(DOMAIN catalog)
       /\ Len(walk.seen) <= (walk.page - 1) * PageSize(walk.query)
       /\ walk.stage = "end" => Len(walk.seen) < (walk.page - 1) * PageSize(walk.query)

Buckets == {"tag", "exclude", "unsure", "failed"}

SweepOK ==
  /\ sweep.stage \in {"none", "sent", "read", "raised"} /\ sweep.number \in 0..MaxRounds
  /\ IsFiniteSet(sweep.failed)
  /\ sweep.stage = "none" => sweep.number = 0 /\ sweep.failed = {}
  /\ sweep.stage # "none" => IsFiniteSet(sweep.asked) /\ Fits(sweep.batches, sweep.asked)
  /\ sweep.stage = "read" => \A entry \in sweep.outcome : entry.bucket \in Buckets

TypeInv == CatalogOK /\ WalkOK /\ SweepOK

LEMMA PageSizes ==
  ASSUME NEW query \in Queries
  PROVE  PageSize(query) \in Nat \ {0} /\ PageSize(query) <= MaxPageSize
  BY ReadersAssumption DEF ReadersAssumption, PageSize, AtMost

LEMMA SearchOfFilters == ASSUME NEW filters PROVE DOMAIN Search(filters) \subseteq DOMAIN filters
  BY DEF Search

LEMMA TypeInvIsTypeOK == TypeInv => TypeOK
<1> SUFFICES ASSUME TypeInv PROVE TypeOK
  OBVIOUS
<1>1. ASSUME Walking
      PROVE  /\ DOMAIN walk.search \subseteq DOMAIN walk.query.filters
             /\ Range(walk.seen) \subseteq DOMAIN catalog
             /\ Len(walk.seen) <= (walk.page - 1) * MaxPageSize
  <2> DEFINE size == PageSize(walk.query)
  <2>1. /\ walk.query \in Queries /\ walk.search = Search(walk.query.filters)
        /\ walk.page \in Nat \ {0} /\ walk.seen \in Seq(DOMAIN catalog)
        /\ Len(walk.seen) <= (walk.page - 1) * size
    BY <1>1 DEF TypeInv, WalkOK
  <2>2. size \in Nat \ {0} /\ size <= MaxPageSize /\ MaxPageSize \in Nat
    BY <2>1, PageSizes, ReadersAssumption DEF ReadersAssumption
  <2> HIDE DEF size
  <2>3. (walk.page - 1) * size <= (walk.page - 1) * MaxPageSize
    <3>1. walk.page - 1 \in Nat
      BY <2>1
    <3> QED
      BY ONLY <2>2, <3>1, Monotone
  <2>4. Len(walk.seen) <= (walk.page - 1) * MaxPageSize
    BY <2>1, <2>2, <2>3
  <2> QED
    BY <2>1, <2>4, SearchOfFilters DEF Range
<1>2. ASSUME sweep.stage # "none", NEW chunk \in Chunks(sweep.batches)
      PROVE  IsInjective(sweep.batches[chunk[1]][chunk[2]])
  BY <1>2 DEF TypeInv, SweepOK, Fits
<1> QED
  BY <1>1, <1>2 DEF TypeInv, TypeOK, CatalogOK, WalkOK, SweepOK, Walking, Buckets

LEMMA InitType == Init => TypeInv
<1> SUFFICES ASSUME Init PROVE TypeInv
  OBVIOUS
<1>1. CatalogOK
  BY ReadersAssumption DEF ReadersAssumption, Init, CatalogOK
<1>2. WalkOK
  BY DEF Init, WalkOK, Walking, NoWalk
<1>3. SweepOK
  BY FS_EmptySet, ReadersAssumption DEF ReadersAssumption, Init, SweepOK, NoRound
<1> QED
  BY <1>1, <1>2, <1>3 DEF TypeInv

LEMMA ImportFacts ==
  ASSUME CatalogOK, NEW card \in DOMAIN Files, Import(card)
  PROVE  /\ CatalogOK' /\ DOMAIN catalog' = DOMAIN catalog \cup {card}
         /\ \A other \in DOMAIN catalog \ {card} : catalog'[other] = catalog[other]
         /\ card \in DOMAIN catalog => catalog'[card] = catalog[card] + 1
  BY DEF Import, CatalogOK

(* The n-th part also where the sequence has ended.                          *)
LEMMA PageFacts ==
  ASSUME NEW S, NEW s \in Seq(S), NEW size \in Nat \ {0}, NEW n \in Nat \ {0}
  PROVE  /\ Part(s, size, n) \in Seq(S) /\ Len(Part(s, size, n)) \in 0..size
         /\ Len(Part(s, size, n)) < size => Len(s) < n * size
         /\ \A k \in DOMAIN Part(s, size, n) :
              (n - 1) * size + k \in DOMAIN s /\ Part(s, size, n)[k] = s[(n - 1) * size + k]
         /\ \A i \in DOMAIN s :
              (n - 1) * size < i /\ i <= n * size =>
                i - (n - 1) * size \in DOMAIN Part(s, size, n) /\ Part(s, size, n)[i - (n - 1) * size] = s[i]
<1> DEFINE low == (n - 1) * size
           high == AtMost(n * size, Len(s))
<1>1. low \in Nat /\ n * size = low + size
  OBVIOUS
<1>2. high \in Nat /\ high <= Len(s) /\ high <= low + size /\ (high = Len(s) \/ high = low + size)
  BY <1>1 DEF AtMost
<1>3. Part(s, size, n) = SubSeq(s, low + 1, high)
  BY DEF Part
<1> HIDE DEF low, high
<1>4. CASE low < high
  <2>1. /\ SubSeq(s, low + 1, high) \in Seq(S) /\ Len(SubSeq(s, low + 1, high)) = high - low
        /\ \A k \in 1..(high - low) : SubSeq(s, low + 1, high)[k] = s[low + k]
    BY <1>1, <1>2, <1>4
  <2>2. /\ Part(s, size, n) \in Seq(S) /\ Len(Part(s, size, n)) = high - low
        /\ DOMAIN Part(s, size, n) = 1..(high - low)
        /\ \A k \in 1..(high - low) : Part(s, size, n)[k] = s[low + k]
    BY <1>1, <1>2, <1>3, <1>4, <2>1
  <2> HIDE <1>3
  <2>3. \A k \in DOMAIN Part(s, size, n) : low + k \in DOMAIN s /\ Part(s, size, n)[k] = s[low + k]
    BY <1>1, <1>2, <1>4, <2>2
  <2>4. \A i \in DOMAIN s : low < i /\ i <= low + size =>
          i - low \in DOMAIN Part(s, size, n) /\ Part(s, size, n)[i - low] = s[i]
    BY <1>1, <1>2, <1>4, <2>2
  <2>5. Len(Part(s, size, n)) \in 0..size /\ (Len(Part(s, size, n)) < size => Len(s) < n * size)
    BY <1>1, <1>2, <1>4, <2>2
  <2> QED
    BY <1>1, <2>2, <2>3, <2>4, <2>5 DEF low
<1>5. CASE high <= low
  <2>1. SubSeq(s, low + 1, high) = <<>>
    BY <1>1, <1>2, <1>5
  <2>2. Part(s, size, n) \in Seq(S) /\ Len(Part(s, size, n)) = 0 /\ DOMAIN Part(s, size, n) = {}
    <3>1. Part(s, size, n) = <<>>
      BY <1>3, <2>1
    <3>2. <<>> \in Seq(S) /\ Len(<<>>) = 0
      OBVIOUS
    <3>3. DOMAIN Part(s, size, n) = 1..Len(Part(s, size, n))
      BY <3>1, <3>2
    <3> QED
      BY <3>1, <3>2, <3>3
  <2>3. Len(s) <= low
    BY <1>1, <1>2, <1>5
  <2>4. \A i \in DOMAIN s : ~ low < i
    BY <1>1, <2>3
  <2>5. 0 \in 0..size /\ Len(s) < n * size
    BY <1>1, <2>3
  <2> QED
    BY <1>1, <2>2, <2>4, <2>5 DEF low
<1> QED
  BY <1>1, <1>2, <1>4, <1>5

(* A list of a finite set has all its members once.                          *)
LEMMA ListOfSet ==
  ASSUME NEW S, IsFiniteSet(S), NEW order \in SetToSeqs(S)
  PROVE  OnceEach(order, S) /\ Len(order) = Cardinality(S)
<1> DEFINE D == 1..Cardinality(S)
<1>1. Cardinality(S) \in Nat
  BY FS_CardinalityType
<1>2. order \in [D -> S] /\ \A i, j \in D : i # j => order[i] # order[j]
  BY DEF SetToSeqs
<1>3. order \in Seq(S) /\ Len(order) = Cardinality(S)
  BY <1>1, <1>2
<1>4. IsFiniteSet(D) /\ Cardinality(D) = Cardinality(S)
  <2>1. \A n \in Nat : IsFiniteSet(1..n) /\ Cardinality(1..n) = IF 1 > n THEN 0 ELSE n - 1 + 1
    BY FS_Interval
  <2> QED
    BY <1>1, <2>1
<1>5. order \in Injection(D, S)
  BY <1>2 DEF Injection, IsInjective
<1>6. order \in Surjection(D, S)
  <2> HIDE DEF D
  <2> QED
    BY <1>4, <1>5, FS_Injection
<1> QED
  BY <1>2, <1>3, <1>6 DEF Surjection, OnceEach, Range

LEMMA CatalogIsFinite == CatalogOK => IsFiniteSet(DOMAIN catalog) /\ IsFiniteSet(Known)
<1> SUFFICES ASSUME CatalogOK PROVE IsFiniteSet(DOMAIN catalog) /\ IsFiniteSet(Known)
  OBVIOUS
<1>1. IsFiniteSet(DOMAIN catalog)
  BY FS_Subset, ReadersAssumption DEF ReadersAssumption, CatalogOK
<1>2. IsFiniteSet(Known)
  <2> DEFINE f == [card \in DOMAIN catalog |-> Row(card).oracle]
  <2>1. f \in Surjection(DOMAIN catalog, Known)
    BY DEF Surjection, Known
  <2> HIDE DEF f
  <2> QED
    BY <1>1, <2>1, FS_Surjection
<1> QED
  BY <1>1, <1>2

LEMMA FoundFacts ==
  ASSUME CatalogOK, NEW search
  PROVE  IsFiniteSet(Found(search)) /\ \A pair \in Found(search) : pair[1] \in DOMAIN catalog
<1> DEFINE all == (DOMAIN catalog) \X (DOMAIN Inventories \cup {"catalog"})
<1>1. Found(search) \subseteq all
  <2>1. ASSUME NEW card \in DOMAIN catalog
        PROVE  {card} \X Holding(search, card) \subseteq all
    <3>1. Holding(search, card) \subseteq DOMAIN Inventories \cup {"catalog"}
      BY DEF Holding
    <3> QED
      BY <3>1
  <2> QED
    BY <2>1 DEF Found
<1>2. IsFiniteSet(all)
  <2>1. IsFiniteSet(DOMAIN Inventories \cup {"catalog"})
    BY FS_Union, FS_Singleton, ReadersAssumption DEF ReadersAssumption
  <2> QED
    BY <2>1, CatalogIsFinite, FS_Product
<1>3. IsFiniteSet(Found(search))
  BY <1>1, <1>2, FS_Subset
<1>4. \A pair \in all : pair[1] \in DOMAIN catalog
  OBVIOUS
<1> QED
  BY <1>1, <1>3, <1>4

LEMMA ResultFacts ==
  ASSUME CatalogOK, NEW query, NEW search, NEW order \in Results(query, search)
  PROVE  \E kept \in SUBSET Found(search) :
           /\ OnceEach(order, kept) /\ order \in Orders(query, kept)
           /\ IF query.distinct_oracle THEN kept \in FirstOfOracle(Found(search)) ELSE kept = Found(search)
<1>1. PICK kept \in IF query.distinct_oracle THEN FirstOfOracle(Found(search)) ELSE {Found(search)} :
             order \in Orders(query, kept)
  BY DEF Results
<1>2. kept \in SUBSET Found(search)
  BY <1>1 DEF FirstOfOracle
<1>3. IsFiniteSet(kept)
  BY <1>2, FoundFacts, FS_Subset
<1>4. order \in SetToSeqs(kept)
  BY <1>1 DEF Orders
<1> QED
  BY <1>1, <1>2, <1>3, <1>4, ListOfSet

(* A page is at most as long as the caller may ask for.                      *)
LEMMA ReadPageWalks ==
  ASSUME CatalogOK, WalkOK, ReadPage
  PROVE  WalkOK'
<1> DEFINE size == PageSize(walk.query)
           Page(order) == Part(order, size, walk.page)
           Cards(order) == [i \in DOMAIN Page(order) |-> Page(order)[i][1]]
<1>1. PICK order \in Results(walk.query, walk.search) :
        Walks(IF Len(Page(order)) < size THEN "end" ELSE "count",
              walk.page + 1, walk.total, walk.seen \o Cards(order))
  BY DEF ReadPage
<1>2. /\ walk.query \in Queries /\ walk.search = Search(walk.query.filters) /\ walk.stage = "read"
      /\ walk.page \in Nat \ {0} /\ walk.seen \in Seq(DOMAIN catalog)
      /\ Len(walk.seen) <= (walk.page - 1) * size
  BY DEF WalkOK, Walking, ReadPage
<1>3. size \in Nat \ {0}
  BY <1>2, PageSizes
<1>4. PICK kept \in SUBSET Found(walk.search) : order \in Seq(kept)
  BY ResultFacts DEF OnceEach
<1>5. Page(order) \in Seq(kept) /\ Len(Page(order)) \in 0..size
  <2> HIDE DEF size
  <2> QED
    BY <1>2, <1>3, <1>4, PageFacts
<1>6. \A pair \in kept : pair[1] \in DOMAIN catalog
  BY <1>4, FoundFacts
<1> HIDE DEF size
<1>7. Cards(order) \in Seq(DOMAIN catalog) /\ Len(Cards(order)) = Len(Page(order))
  <2> HIDE DEF Page
  <2> QED
    BY <1>5, <1>6
<1> DEFINE page == Page(order)
           cards == Cards(order)
           seen == walk.seen \o cards
<1>8. page \in Seq(kept) /\ Len(page) \in 0..size /\ cards \in Seq(DOMAIN catalog) /\ Len(cards) = Len(page)
  BY <1>5, <1>7
<1>9. Walks(IF Len(page) < size THEN "end" ELSE "count", walk.page + 1, walk.total, seen)
  BY <1>1
<1> HIDE DEF page, cards
<1>10. seen \in Seq(DOMAIN catalog) /\ Len(seen) = Len(walk.seen) + Len(page)
  BY <1>2, <1>8
<1> HIDE DEF seen
<1>11. Len(seen) <= walk.page * size /\ (Len(page) < size => Len(seen) < walk.page * size)
  <2>1. walk.page * size = (walk.page - 1) * size + size /\ (walk.page - 1) * size \in Nat
    BY <1>2, <1>3
  <2>2. Len(walk.seen) \in Nat /\ Len(page) \in Nat
    BY <1>2, <1>8
  <2> HIDE DEF page
  <2> QED
    BY <1>2, <1>3, <1>8, <1>10, <2>1, <2>2
<1>12. /\ walk'.query = walk.query /\ walk'.search = walk.search /\ walk'.page = walk.page + 1 /\ walk'.seen = seen
       /\ walk'.stage = IF Len(page) < size THEN "end" ELSE "count"
  BY <1>9 DEF Walks
<1>13. PageSize(walk'.query) = size /\ walk'.page - 1 = walk.page /\ walk'.page \in Nat \ {0}
  BY <1>2, <1>12 DEF size
<1>14. catalog' = catalog
  BY DEF ReadPage
<1> QED
  BY <1>2, <1>10, <1>11, <1>12, <1>13, <1>14 DEF WalkOK, Walking

LEMMA ImportType ==
  ASSUME TypeInv, NEW card \in DOMAIN Files, Import(card)
  PROVE  TypeInv'
<1>1. CatalogOK' /\ DOMAIN catalog \subseteq DOMAIN catalog'
  BY ImportFacts DEF TypeInv
<1>2. UNCHANGED <<walk, sweep>>
  BY DEF Import
<1>3. WalkOK'
  <2>1. Walking => walk.seen \in Seq(DOMAIN catalog')
    BY <1>1 DEF TypeInv, WalkOK
  <2> QED
    BY <1>2, <2>1 DEF TypeInv, WalkOK, Walking
<1>4. SweepOK'
  BY <1>2 DEF TypeInv, SweepOK
<1> QED
  BY <1>1, <1>3, <1>4 DEF TypeInv

LEMMA AskType ==
  ASSUME TypeInv, NEW query \in Queries, Ask(query)
  PROVE  TypeInv'
<1>1. UNCHANGED <<catalog, sweep>>
  BY DEF Ask
<1>2. WalkOK'
  <2>1. CASE Accepted(query.filters)
    <3>1. walk' = [stage |-> "count", query |-> query, search |-> Search(query.filters),
                   page |-> 1, total |-> 0, seen |-> <<>>, since |-> catalog]
      BY <2>1 DEF Ask
    <3>2. <<>> \in Seq(DOMAIN catalog') /\ Len(<<>>) = 0 /\ PageSize(query) \in Nat
      BY PageSizes
    <3>3. Len(<<>>) <= (1 - 1) * PageSize(query)
      BY <3>2
    <3> QED
      BY <3>1, <3>2, <3>3 DEF WalkOK, Walking
  <2>2. CASE ~Accepted(query.filters)
    BY <2>2 DEF Ask, WalkOK, Walking
  <2> QED
    BY <2>1, <2>2
<1> QED
  BY <1>1, <1>2 DEF TypeInv, CatalogOK, SweepOK

LEMMA CountType ==
  ASSUME TypeInv, CountRows
  PROVE  TypeInv'
<1>1. UNCHANGED <<catalog, sweep>>
  BY DEF CountRows
<1>2. WalkOK'
  BY <1>1 DEF TypeInv, CountRows, Walks, WalkOK, Walking
<1> QED
  BY <1>1, <1>2 DEF TypeInv, CatalogOK, SweepOK

(* A round that asks about each of a finite set once.                        *)
LEMMA AskAboutType ==
  ASSUME SweepOK, NEW asked, NEW oracles, OnceEach(oracles, asked), AskAbout(oracles), sweep.number < MaxRounds
  PROVE  SweepOK'
<1>1. sweep'.stage = "sent" /\ sweep'.number = sweep.number + 1 /\ sweep'.failed = sweep.failed
      /\ sweep'.asked = Range(oracles) /\ sweep'.batches = Batches(oracles)
  BY DEF AskAbout
<1>2. Range(oracles) = asked /\ IsFiniteSet(asked) /\ Fits(Batches(oracles), asked)
  BY RoundFits DEF OnceEach
<1>3. sweep.number + 1 \in 0..MaxRounds
  BY ReadersAssumption DEF ReadersAssumption, SweepOK
<1> QED
  BY <1>1, <1>2, <1>3 DEF SweepOK

LEMMA KickoffType ==
  ASSUME TypeInv, Kickoff
  PROVE  TypeInv'
<1>1. PICK oracles \in SetToSeqs(Known) : AskAbout(oracles)
  BY DEF Kickoff, Eligible
<1>2. OnceEach(oracles, Known)
  BY CatalogIsFinite, ListOfSet DEF TypeInv
<1>3. sweep.number < MaxRounds
  BY ReadersAssumption DEF ReadersAssumption, Kickoff, TypeInv, SweepOK
<1>4. SweepOK'
  BY <1>1, <1>2, <1>3, AskAboutType DEF TypeInv
<1> QED
  BY <1>4 DEF TypeInv, Kickoff, CatalogOK, WalkOK, Walking

LEMMA ReenqueueType ==
  ASSUME TypeInv, Reenqueue
  PROVE  TypeInv'
<1>1. PICK oracles \in SetToSeqs(sweep.failed) : AskAbout(oracles)
  BY DEF Reenqueue
<1>2. OnceEach(oracles, sweep.failed)
  BY ListOfSet DEF TypeInv, SweepOK
<1>3. SweepOK'
  BY <1>1, <1>2, AskAboutType DEF TypeInv, Reenqueue
<1> QED
  BY <1>3 DEF TypeInv, Reenqueue, CatalogOK, WalkOK, Walking

LEMMA ParsedFacts ==
  ASSUME NEW items, NEW expected, NEW row \in DOMAIN Parsed(items, expected)
  PROVE  /\ row \in 0..(expected - 1)
         /\ \E i \in Verdicts(items, row) :
              /\ \A j \in Verdicts(items, row) : i = j
              /\ Parsed(items, expected)[row] = Meaning[items[i][2]]
<1> DEFINE choice == CHOOSE i \in Verdicts(items, row) : TRUE
<1>1. row \in 0..(expected - 1) /\ Verdicts(items, row) # {} /\ Parsed(items, expected)[row] = Meaning[items[choice][2]]
  BY DEF Parsed
<1>2. choice \in Verdicts(items, row)
  BY <1>1
<1>3. \A i, j \in Verdicts(items, row) : i = j
  BY DEF Parsed
<1> QED
  BY <1>1, <1>2, <1>3

LEMMA ClassifiedFacts ==
  ASSUME NEW result, NEW chunk, NEW entry \in Range(Classified(result, chunk))
  PROVE  entry.oracle \in Range(chunk) /\ entry.bucket \in Buckets
<1> DEFINE verdicts == IF result[1] = "list" THEN Parsed(result[2], Len(chunk)) ELSE <<>>
           Bucket(i) == IF result[1] = "list" /\ i - 1 \in DOMAIN verdicts THEN verdicts[i - 1] ELSE "failed"
<1>1. PICK i \in DOMAIN chunk : entry = [oracle |-> chunk[i], bucket |-> Bucket(i)]
  BY DEF Classified, Range
<1>2. ASSUME result[1] = "list", i - 1 \in DOMAIN verdicts
      PROVE  verdicts[i - 1] \in Buckets
  <2>1. verdicts = Parsed(result[2], Len(chunk))
    BY <1>2
  <2>2. PICK n \in Verdicts(result[2], i - 1) : verdicts[i - 1] = Meaning[result[2][n][2]]
    BY <1>2, <2>1, ParsedFacts
  <2>3. result[2][n][2] \in {"Y", "N", "U"}
    BY <2>2 DEF Verdicts, IsVerdict, Meaning
  <2> QED
    BY <2>2, <2>3 DEF Meaning, Buckets
<1> HIDE DEF verdicts
<1>3. Bucket(i) \in Buckets
  BY <1>2 DEF Buckets
<1> QED
  BY <1>1, <1>3 DEF Range

(* What is read of a chunk, and of all of them.                              *)
ReadOf(results, chunk) == Range(Classified(results[chunk], sweep.batches[chunk[1]][chunk[2]]))
Outcome(results) == UNION {ReadOf(results, chunk) : chunk \in Chunks(sweep.batches)}

Processes(results) ==
  sweep' = [stage |-> IF Untaggable(Outcome(results)) = {} THEN "read" ELSE "raised",
            number |-> sweep.number, failed |-> sweep.failed \cup Failed(Outcome(results)),
            asked |-> sweep.asked, batches |-> sweep.batches, tables |-> sweep.tables,
            results |-> results, outcome |-> Outcome(results)]

LEMMA ProcessReads ==
  ASSUME Process
  PROVE  \E results \in [Chunks(sweep.batches) -> Answers] : Processes(results)
  BY DEF Process, Processes, Outcome, ReadOf

LEMMA ProcessType ==
  ASSUME TypeInv, Process
  PROVE  TypeInv'
<1>1. PICK results \in [Chunks(sweep.batches) -> Answers] : Processes(results)
  BY ProcessReads
<1>2. /\ sweep.stage # "none" /\ sweep.number \in 0..MaxRounds /\ IsFiniteSet(sweep.failed)
      /\ IsFiniteSet(sweep.asked) /\ Fits(sweep.batches, sweep.asked)
  BY DEF TypeInv, SweepOK, Process
<1>3. ASSUME NEW entry \in Outcome(results)
      PROVE  entry.oracle \in sweep.asked /\ entry.bucket \in Buckets
  <2>1. PICK chunk \in Chunks(sweep.batches) : entry \in ReadOf(results, chunk)
    BY <1>3 DEF Outcome
  <2>2. entry.oracle \in Range(sweep.batches[chunk[1]][chunk[2]]) /\ entry.bucket \in Buckets
    BY <2>1, ClassifiedFacts DEF ReadOf
  <2>3. chunk[1] \in DOMAIN sweep.batches /\ chunk[2] \in DOMAIN sweep.batches[chunk[1]]
    BY <2>1 DEF Chunks
  <2>4. Range(sweep.batches[chunk[1]][chunk[2]]) \subseteq sweep.asked
    BY <1>2, <2>3 DEF Fits, CardsOf
  <2> QED
    BY <2>2, <2>4
<1>4. Failed(Outcome(results)) \subseteq sweep.asked
  BY <1>3 DEF Failed
<1>5. IsFiniteSet(sweep.failed \cup Failed(Outcome(results)))
  BY <1>2, <1>4, FS_Subset, FS_Union
<1>6. /\ sweep'.stage \in {"read", "raised"} /\ sweep'.number = sweep.number
      /\ sweep'.failed = sweep.failed \cup Failed(Outcome(results))
      /\ sweep'.asked = sweep.asked /\ sweep'.batches = sweep.batches /\ sweep'.outcome = Outcome(results)
  BY <1>1 DEF Processes
<1>7. SweepOK'
  BY <1>2, <1>3, <1>5, <1>6 DEF SweepOK
<1> QED
  BY <1>7 DEF TypeInv, Process, CatalogOK, WalkOK, Walking

LEMMA NextType ==
  ASSUME TypeInv, [Next]_vars
  PROVE  TypeInv'
<1>1. ASSUME NEW card \in DOMAIN Files, Import(card) PROVE TypeInv'
  BY <1>1, ImportType
<1>2. ASSUME NEW query \in Queries, Ask(query) PROVE TypeInv'
  BY <1>2, AskType
<1>3. CASE CountRows
  BY <1>3, CountType
<1>4. CASE ReadPage
  BY <1>4, ReadPageWalks DEF TypeInv, ReadPage, CatalogOK, SweepOK
<1>5. CASE Kickoff
  BY <1>5, KickoffType
<1>6. CASE Reenqueue
  BY <1>6, ReenqueueType
<1>7. CASE Process
  BY <1>7, ProcessType
<1>8. CASE UNCHANGED vars
  BY <1>8 DEF vars, TypeInv, CatalogOK, WalkOK, Walking, SweepOK
<1> QED
  BY <1>1, <1>2, <1>3, <1>4, <1>5, <1>6, <1>7, <1>8 DEF Next

LEMMA AlwaysTyped == Spec => []TypeInv
<1>1. Init => TypeInv
  BY InitType
<1>2. TypeInv /\ [Next]_vars => TypeInv'
  BY NextType
<1> QED
  BY <1>1, <1>2, PTL DEF Spec

(* The catalog, the caller's walk and the sweep's round keep their types; no *)
(* page is longer than CARD_CATALOG_MAX_PAGE_SIZE, and a walk ends with a    *)
(* page that is not full.                                                    *)
THEOREM ReadersTypeCorrect == Spec => []TypeOK
<1>1. TypeInv => TypeOK
  BY TypeInvIsTypeOK
<1> QED
  BY <1>1, AlwaysTyped, PTL

(* Every round asks about all its cards once, in chunks and batches that fit *)
(* the settings (TagSweepInitializer._create_pending_batches), whatever the  *)
(* settings are.                                                             *)
THEOREM RoundsAlwaysFit == Spec => []RoundsFitLimits
<1>1. TypeInv => RoundsFitLimits
  BY DEF TypeInv, SweepOK, Fits, CardsOf, RoundsFitLimits
<1> QED
  BY <1>1, AlwaysTyped, PTL

(* MTGJSON's files never change the oracle id of a card.                     *)
SteadyOracles ==
  \A card \in DOMAIN Files : \A v, w \in DOMAIN Files[card] : Files[card][v].oracle = Files[card][w].oracle

FullTable(chunk) == [i \in DOMAIN chunk |-> i - 1]

Lands ==
  /\ sweep.failed \subseteq Known
  /\ sweep.stage # "none" =>
       /\ sweep.asked \subseteq Known
       /\ \A chunk \in Chunks(sweep.batches) :
            sweep.tables[chunk[1]][chunk[2]] = FullTable(sweep.batches[chunk[1]][chunk[2]])
  /\ sweep.stage = "read" =>
       sweep.results \in [Chunks(sweep.batches) -> Answers] /\ sweep.outcome = Outcome(sweep.results)

LEMMA TableOfKnown ==
  ASSUME NEW known, NEW chunk \in Seq(known)
  PROVE  Table(known, chunk) = FullTable(chunk)
<1> DEFINE listed == {i \in DOMAIN chunk : chunk[i] \in known}
<1>1. listed = DOMAIN chunk
  OBVIOUS
<1>2. ASSUME NEW i \in DOMAIN chunk
      PROVE  Cardinality({j \in listed : j < i}) = i - 1
  <2> DEFINE before == {j \in listed : j < i}
  <2>1. before = 1..(i - 1)
    BY <1>1
  <2>2. \A n \in Nat : Cardinality(1..n) = IF 1 > n THEN 0 ELSE n - 1 + 1
    BY FS_Interval
  <2>3. i - 1 \in Nat
    OBVIOUS
  <2> HIDE DEF before
  <2>4. Cardinality(before) = i - 1
    BY <2>1, <2>2, <2>3
  <2> QED
    BY <2>4 DEF before
<1> QED
  BY <1>1, <1>2 DEF Table, FullTable

LEMMA OneMember ==
  ASSUME NEW S, IsFiniteSet(S)
  PROVE  Cardinality(S) = 1 <=> S # {} /\ \A x, y \in S : x = y
<1>1. Cardinality(S) = 1 <=> \E x : S = {x}
  BY FS_Singleton
<1>2. ASSUME S # {}, \A x, y \in S : x = y PROVE \E x : S = {x}
  BY <1>2
<1> QED
  BY <1>1, <1>2

(* The bucket that a card is put in is the one it deserves.                  *)
LEMMA ClassifiedAsDeserved ==
  ASSUME NEW S, NEW chunk \in Seq(S), NEW result \in Answers, NEW i \in DOMAIN chunk
  PROVE  Classified(result, chunk)[i] = [oracle |-> chunk[i], bucket |-> Deserved(i, FullTable(chunk), result)]
<1> DEFINE verdicts == IF result[1] = "list" THEN Parsed(result[2], Len(chunk)) ELSE <<>>
           bucket == IF result[1] = "list" /\ i - 1 \in DOMAIN verdicts THEN verdicts[i - 1] ELSE "failed"
           items == IF result[1] = "list" THEN result[2] ELSE <<>>
           about == {n \in DOMAIN items : IsVerdict(items[n]) /\ i \in DOMAIN FullTable(chunk)
                                                              /\ items[n][1] = FullTable(chunk)[i]}
<1>1. Classified(result, chunk)[i] = [oracle |-> chunk[i], bucket |-> bucket]
  BY DEF Classified
<1>2. Deserved(i, FullTable(chunk), result)
        = IF Cardinality(about) = 1 THEN Meaning[items[CHOOSE n \in about : TRUE][2]] ELSE "failed"
  BY DEF Deserved
<1>3. about = Verdicts(items, i - 1)
  BY DEF Verdicts, FullTable
<1>4. i - 1 \in 0..(Len(chunk) - 1)
  OBVIOUS
<1>5. CASE result[1] # "list"
  <2>1. bucket = "failed"
    BY <1>5
  <2>2. items = <<>> /\ DOMAIN <<>> = {}
    BY <1>5
  <2>3. about = {}
    BY <2>2
  <2>4. Cardinality(about) # 1
    <3> HIDE DEF about
    <3> QED
      BY <2>3, FS_EmptySet
  <2> QED
    BY <1>1, <1>2, <2>1, <2>4
<1>6. CASE result[1] = "list"
  <2>1. items = result[2] /\ verdicts = Parsed(items, Len(chunk))
    BY <1>6
  <2>2. IsFiniteSet(about)
    <3>1. IsFiniteSet(DOMAIN items)
      BY <1>6, <2>1, ReadersAssumption DEF ReadersAssumption
    <3> QED
      BY <3>1, FS_Subset
  <2> HIDE DEF items, verdicts, about
  <2>3. Cardinality(about) = 1 <=> about # {} /\ \A x, y \in about : x = y
    BY <2>2, OneMember
  <2>4. i - 1 \in DOMAIN verdicts <=> about # {} /\ \A x, y \in about : x = y
    BY <1>3, <1>4, <2>1 DEF Parsed
  <2>5. i - 1 \in DOMAIN verdicts => verdicts[i - 1] = Meaning[items[CHOOSE n \in about : TRUE][2]]
    BY <1>3, <1>4, <2>1 DEF Parsed
  <2> QED
    BY <1>1, <1>2, <1>6, <2>3, <2>4, <2>5
<1> QED
  BY <1>5, <1>6

LEMMA EntryOfChunk ==
  ASSUME NEW result, NEW chunk, NEW entry \in Range(Classified(result, chunk))
  PROVE  \E j \in DOMAIN chunk : entry = Classified(result, chunk)[j] /\ entry.oracle = chunk[j]
<1>1. DOMAIN Classified(result, chunk) = DOMAIN chunk
  BY DEF Classified
<1>2. ASSUME NEW j \in DOMAIN chunk PROVE Classified(result, chunk)[j].oracle = chunk[j]
  BY DEF Classified
<1> QED
  BY <1>1, <1>2 DEF Range

LEMMA LandsShows ==
  ASSUME TypeInv, Lands
  PROVE  EachAnswerLands
<1> SUFFICES ASSUME sweep.stage = "read", NEW chunk \in Chunks(sweep.batches),
                    NEW i \in DOMAIN sweep.batches[chunk[1]][chunk[2]], NEW entry \in sweep.outcome,
                    entry.oracle = sweep.batches[chunk[1]][chunk[2]][i]
             PROVE  entry.bucket = Deserved(i, sweep.tables[chunk[1]][chunk[2]], sweep.results[chunk])
  BY DEF EachAnswerLands
<1> DEFINE Cards(c) == sweep.batches[c[1]][c[2]]
<1>1. /\ Fits(sweep.batches, sweep.asked)
      /\ sweep.results \in [Chunks(sweep.batches) -> Answers] /\ sweep.outcome = Outcome(sweep.results)
      /\ sweep.tables[chunk[1]][chunk[2]] = FullTable(Cards(chunk))
  BY DEF TypeInv, SweepOK, Lands
<1>2. PICK other \in Chunks(sweep.batches) : entry \in Range(Classified(sweep.results[other], Cards(other)))
  BY <1>1 DEF Outcome, ReadOf
<1>3. PICK j \in DOMAIN Cards(other) :
        entry = Classified(sweep.results[other], Cards(other))[j] /\ entry.oracle = Cards(other)[j]
  BY <1>2, EntryOfChunk
<1>4. other = chunk
  <2>1. Cards(chunk)[i] \in Range(Cards(chunk)) \cap Range(Cards(other))
    BY <1>3 DEF Range
  <2> QED
    BY <1>1, <2>1 DEF Fits
<1>5. j = i
  BY <1>1, <1>3, <1>4 DEF Fits, IsInjective
<1>6. Cards(chunk) \in Seq(sweep.asked) /\ sweep.results[chunk] \in Answers
  BY <1>1 DEF Fits
<1> HIDE DEF Cards
<1>7. entry = [oracle |-> Cards(chunk)[i], bucket |-> Deserved(i, FullTable(Cards(chunk)), sweep.results[chunk])]
  BY <1>3, <1>4, <1>5, <1>6, ClassifiedAsDeserved DEF Cards
<1> QED
  BY <1>1, <1>7

LEMMA KnownGrows ==
  ASSUME SteadyOracles, CatalogOK, NEW card \in DOMAIN Files, Import(card)
  PROVE  Known \subseteq Known'
<1>1. /\ DOMAIN catalog' = DOMAIN catalog \cup {card} /\ CatalogOK'
      /\ \A other \in DOMAIN catalog \ {card} : catalog'[other] = catalog[other]
  BY ImportFacts
<1>2. ASSUME NEW c \in DOMAIN Files, NEW v \in DOMAIN Files[c] PROVE Rows[c][v].oracle = Files[c][v].oracle
  BY DEF Rows, Stored
<1>3. ASSUME NEW c \in DOMAIN catalog PROVE Row(c)' = Rows[c][catalog'[c]]
  BY DEF Row
<1>4. ASSUME NEW c \in DOMAIN catalog PROVE Row(c).oracle = Rows[c][catalog'[c]].oracle
  <2>1. c \in DOMAIN Files /\ catalog[c] \in DOMAIN Files[c] /\ catalog'[c] \in DOMAIN Files[c]
    BY <1>1 DEF CatalogOK
  <2>2. Rows[c][catalog[c]].oracle = Rows[c][catalog'[c]].oracle
    BY <1>2, <2>1 DEF SteadyOracles
  <2> QED
    BY <2>2 DEF Row
<1> QED
  BY <1>1, <1>4 DEF Known, Row

(* A round that asks about cards of the catalog has full tables.             *)
LEMMA AskAboutLands ==
  ASSUME NEW asked \in SUBSET Known, NEW oracles, OnceEach(oracles, asked), AskAbout(oracles),
         sweep.failed \subseteq Known, catalog' = catalog
  PROVE  Lands'
<1> DEFINE batches == Batches(oracles)
<1>1. /\ sweep'.stage = "sent" /\ sweep'.failed = sweep.failed /\ sweep'.asked = asked /\ sweep'.batches = batches
      /\ sweep'.tables = [b \in DOMAIN batches |-> [c \in DOMAIN batches[b] |-> Table(Known, batches[b][c])]]
  BY DEF AskAbout, OnceEach
<1>2. Fits(batches, asked)
  BY RoundFits
<1>3. Known' = Known
  BY DEF Known, Row
<1> HIDE DEF batches
<1>4. ASSUME NEW chunk \in Chunks(batches)
      PROVE  sweep'.tables[chunk[1]][chunk[2]] = FullTable(batches[chunk[1]][chunk[2]])
  <2>1. chunk[1] \in DOMAIN batches /\ chunk[2] \in DOMAIN batches[chunk[1]]
    BY DEF Chunks
  <2>2. batches[chunk[1]][chunk[2]] \in Seq(Known)
    BY <1>2 DEF Fits
  <2>3. Table(Known, batches[chunk[1]][chunk[2]]) = FullTable(batches[chunk[1]][chunk[2]])
    BY <2>2, TableOfKnown
  <2> QED
    BY <1>1, <2>1, <2>3
<1> QED
  BY <1>1, <1>3, <1>4 DEF Lands

LEMMA ProcessLands ==
  ASSUME TypeInv, Lands, Process
  PROVE  Lands'
<1>1. PICK results \in [Chunks(sweep.batches) -> Answers] : Processes(results)
  BY ProcessReads
<1>2. /\ sweep'.stage \in {"read", "raised"} /\ sweep'.failed = sweep.failed \cup Failed(Outcome(results))
      /\ sweep'.asked = sweep.asked /\ sweep'.batches = sweep.batches /\ sweep'.tables = sweep.tables
      /\ sweep'.results = results /\ sweep'.outcome = Outcome(results)
  BY <1>1 DEF Processes
<1>3. Known' = Known
  BY DEF Known, Row, Process
<1>4. Outcome(sweep.results)' = Outcome(results)
  BY <1>2 DEF Outcome, ReadOf
<1>5. sweep.stage # "none" /\ Fits(sweep.batches, sweep.asked)
  BY DEF TypeInv, SweepOK, Process
<1>6. Failed(Outcome(results)) \subseteq sweep.asked
  <2> SUFFICES ASSUME NEW entry \in Outcome(results) PROVE entry.oracle \in sweep.asked
    BY DEF Failed
  <2>1. PICK chunk \in Chunks(sweep.batches) : entry \in ReadOf(results, chunk)
    BY DEF Outcome
  <2>2. entry.oracle \in Range(sweep.batches[chunk[1]][chunk[2]])
    BY <2>1, ClassifiedFacts DEF ReadOf
  <2> QED
    BY <1>5, <2>2 DEF Fits, Range
<1> QED
  BY <1>1, <1>2, <1>3, <1>4, <1>5, <1>6 DEF Lands

LEMMA NextLands ==
  ASSUME SteadyOracles, TypeInv, Lands, [Next]_vars
  PROVE  Lands'
<1>0. ASSUME UNCHANGED sweep, Known \subseteq Known' PROVE Lands'
  <2>1. Outcome(sweep.results)' = Outcome(sweep.results)
    BY <1>0 DEF Outcome, ReadOf
  <2> QED
    BY <1>0, <2>1 DEF Lands
<1>1. ASSUME NEW card \in DOMAIN Files, Import(card) PROVE Lands'
  <2>1. Known \subseteq Known'
    BY <1>1, KnownGrows DEF TypeInv
  <2> QED
    BY <1>0, <1>1, <2>1 DEF Import
<1>2. CASE UNCHANGED <<catalog, sweep>>
  BY <1>0, <1>2 DEF Known, Row
<1>3. CASE Kickoff
  <2>1. PICK oracles \in SetToSeqs(Known) : AskAbout(oracles)
    BY <1>3 DEF Kickoff, Eligible
  <2>2. OnceEach(oracles, Known)
    BY CatalogIsFinite, ListOfSet DEF TypeInv
  <2> QED
    BY <1>3, <2>1, <2>2, AskAboutLands DEF Lands, Kickoff
<1>4. CASE Reenqueue
  <2>1. PICK oracles \in SetToSeqs(sweep.failed) : AskAbout(oracles)
    BY <1>4 DEF Reenqueue
  <2>2. OnceEach(oracles, sweep.failed)
    BY ListOfSet DEF TypeInv, SweepOK
  <2> QED
    BY <1>4, <2>1, <2>2, AskAboutLands DEF Lands, Reenqueue
<1>5. CASE Process
  BY <1>5, ProcessLands
<1>6. ASSUME NEW query \in Queries, Ask(query) PROVE UNCHANGED <<catalog, sweep>>
  BY <1>6 DEF Ask
<1>7. CountRows \/ ReadPage \/ UNCHANGED vars => UNCHANGED <<catalog, sweep>>
  BY DEF CountRows, ReadPage, vars
<1> QED
  BY <1>1, <1>2, <1>3, <1>4, <1>5, <1>6, <1>7 DEF Next

(* While no file changes the oracle id of a card, every answer is read for   *)
(* the card whose row of the table it names (_build_sweep_batch_requests and *)
(* _parse_verdicts), whatever is imported between the question and the       *)
(* answer and whatever Anthropic answers.                                    *)
THEOREM SteadyOraclesLand ==
  ASSUME SteadyOracles
  PROVE  Spec => []EachAnswerLands
<1>1. Init => Lands
  BY ReadersAssumption DEF ReadersAssumption, Init, NoRound, Lands
<1>2. TypeInv /\ Lands /\ [Next]_vars => Lands'
  BY NextLands
<1>3. TypeInv /\ Lands => EachAnswerLands
  BY LandsShows
<1> QED
  BY <1>1, <1>2, <1>3, AlwaysTyped, PTL DEF Spec

--------------------------------------------------------------------------------
(* What a field asks of a stored row is what its description means.          *)

(* Patterns without wildcards, which nothing escapes; a part of a name comes *)
(* without blanks around it, which nothing strips.                           *)
PlainPattern(field, value) ==
  field[2] = "like" => value[1] \notin Wildcards /\ (field[1] = "name" => value[2] # "padded")

PlainPatterns ==
  \A query \in Queries : \A field \in DOMAIN query.filters : PlainPattern(field, query.filters[field])

LEMMA NormalisedOne ==
  ASSUME NEW field, NEW value, NEW one \in Normalised(field, value), NEW other \in Normalised(field, value)
  PROVE  one = other
<1>1. \A v, w : v \in SearchToken(w) => v = Lower(w)
  BY DEF SearchToken
<1>2. \A v, w : v \in SearchTokenList(w) => v = Nonblank(LoweredAll(w))
  BY DEF SearchTokenList
<1>3. \A v, w : v \in SetCode(w) => v = Upper(w)
  BY DEF SetCode
<1>4. \A v, w : v \in SetCodeList(w) => v = Nonblank(UpperedAll(w))
  BY DEF SetCodeList
<1>5. \A v, w : v \in InventoryName(w) => v = Lower(w)
  BY DEF InventoryName
<1>6. \A v, w : v \in LikePattern(w) => v = Trimmed(w)
  BY DEF LikePattern
<1>7. \A v, w : v \in NonemptyList(w) => v = w
  BY DEF NonemptyList
<1> QED
  BY <1>1, <1>2, <1>3, <1>4, <1>5, <1>6, <1>7 DEF Normalised

(* What a field asks of a row and of the inventories that have its card.     *)
Asks(raw, card, field, value) ==
  IF field = <<"inventory_name", "is">>
  THEN \A name \in Normalised(field, value) :
         \E i \in DOMAIN Inventories : Inventories[i] = name /\ <<i, card>> \in Stock
  ELSE \A sought \in Normalised(field, value) : Holds(Stored(raw), Tagged, field, sought)

LEMMA ManaMeans ==
  ASSUME NEW raw, NEW card, NEW operator \in {"eq", "lt", "gt"}, NEW value
  PROVE  LET field == <<"mana_value", operator>>
         IN Asks(raw, card, field, value) <=> MeansField(raw, card, field, value)
<1> DEFINE field == <<"mana_value", operator>>
<1>1. field[1] = "mana_value" /\ field[2] = operator
  OBVIOUS
<1> HIDE DEF field
<1>2. field # <<"inventory_name", "is">> /\ field # <<"name", "eq">> /\ field # <<"oracle_id", "is">>
  BY <1>1
<1>3. Normalised(field, value) = {value}
  BY <1>1 DEF Normalised, Lists
<1>4. Holds(Stored(raw), Tagged, field, value) <=> Compares(ManaValue(raw.mana), operator, value)
  BY <1>1 DEF Holds, ManaValueHolds, Stored
<1>5. Number(raw, "mana_value") = ManaValue(raw.mana)
  BY DEF Number, ManaValue
<1>6. MeansField(raw, card, field, value) <=> Compares(Number(raw, "mana_value"), operator, value)
  BY <1>1, <1>2 DEF MeansField, Compares
<1> QED
  BY <1>2, <1>3, <1>4, <1>5, <1>6 DEF Asks, field

(* The words of one form for a set of letters.                               *)
Formed(letters, form) == {<<l, form>> : l \in letters}

LEMMA FormedSets ==
  ASSUME NEW words
  PROVE  /\ Nonblank(LoweredAll(words)) = Formed(Letters(Range(words)), "plain")
         /\ Nonblank(UpperedAll(words)) = Formed(Letters(Range(words)), "shouted")
         /\ Tokens(words) = Formed(Letters(Range(words)), "plain")
<1>1. \A word : Lower(word)[1] = word[1] /\ Upper(word)[1] = word[1]
  BY DEF Lower, Upper
<1>2. Nonblank(LoweredAll(words)) = Formed(Letters(Range(words)), "plain")
  <2>1. ASSUME NEW x \in Nonblank(LoweredAll(words)) PROVE x \in Formed(Letters(Range(words)), "plain")
    <3>1. PICK word \in Range(words) : x = Lower(word) /\ word[1] # ""
      BY <1>1 DEF Nonblank, LoweredAll, IsBlank
    <3> QED
      BY <3>1 DEF Formed, Letters, Lower
  <2>2. ASSUME NEW x \in Formed(Letters(Range(words)), "plain") PROVE x \in Nonblank(LoweredAll(words))
    <3>1. PICK word \in Range(words) : x = <<word[1], "plain">> /\ word[1] # ""
      BY DEF Formed, Letters
    <3> QED
      BY <3>1 DEF Nonblank, LoweredAll, IsBlank, Lower
  <2> QED
    BY <2>1, <2>2
<1>3. Nonblank(UpperedAll(words)) = Formed(Letters(Range(words)), "shouted")
  <2>1. ASSUME NEW x \in Nonblank(UpperedAll(words)) PROVE x \in Formed(Letters(Range(words)), "shouted")
    <3>1. PICK word \in Range(words) : x = Upper(word) /\ word[1] # ""
      BY <1>1 DEF Nonblank, UpperedAll, IsBlank
    <3> QED
      BY <3>1 DEF Formed, Letters, Upper
  <2>2. ASSUME NEW x \in Formed(Letters(Range(words)), "shouted") PROVE x \in Nonblank(UpperedAll(words))
    <3>1. PICK word \in Range(words) : x = <<word[1], "shouted">> /\ word[1] # ""
      BY DEF Formed, Letters
    <3> QED
      BY <3>1 DEF Nonblank, UpperedAll, IsBlank, Upper
  <2> QED
    BY <2>1, <2>2
<1> QED
  BY <1>2, <1>3 DEF Tokens

(* What is asked of tokens, as the letters that are wanted and those said.   *)
Agrees(operator, wanted, said) ==
  CASE operator = "all_of" -> wanted \subseteq said
    [] OTHER -> wanted \cap said # {}

LEMMA FormedAgrees ==
  ASSUME NEW wanted, NEW said, NEW tokens, NEW form,
         \A l \in wanted : <<l, form>> \in tokens <=> l \in said
  PROVE  /\ Formed(wanted, form) \cap tokens # {} <=> wanted \cap said # {}
         /\ Formed(wanted, form) \subseteq tokens <=> wanted \subseteq said
  BY DEF Formed

(* A value or a list of them, of the tokens that a card has.                 *)
LEMMA TokensAgree ==
  ASSUME NEW said, NEW tokens, \A l : l # "" => (<<l, "plain">> \in tokens <=> l \in said),
         NEW operator \in {"is", "one_of", "all_of"}, NEW value,
         NEW wanted, wanted = Letters(IF operator = "is" THEN {value} ELSE Range(value))
  PROVE  (\A sought \in IF operator = "is" THEN SearchToken(value) ELSE SearchTokenList(value) :
            AnyToken(tokens, operator, sought))
           <=> wanted = {} \/ Agrees(operator, wanted, said)
<1>1. \A l \in wanted : l # ""
  BY DEF Letters
<1>2. CASE operator = "is"
  <2>1. wanted = {value[1]} \ {""}
    BY <1>2 DEF Letters
  <2>2. SearchToken(value) = IF value[1] = "" THEN {} ELSE {<<value[1], "plain">>}
    BY DEF SearchToken, IsBlank, Lower
  <2>3. Agrees(operator, wanted, said) <=> wanted \cap said # {}
    BY <1>2 DEF Agrees
  <2>4. CASE value[1] = ""
    BY <1>2, <2>1, <2>2, <2>4
  <2>5. CASE value[1] # ""
    <3>1. AnyToken(tokens, operator, <<value[1], "plain">>) <=> <<value[1], "plain">> \in tokens
      BY <1>2 DEF AnyToken
    <3>2. <<value[1], "plain">> \in tokens <=> value[1] \in said
      BY <2>5
    <3>3. wanted = {value[1]}
      BY <2>1, <2>5
    <3> QED
      BY <1>2, <2>2, <2>3, <2>5, <3>1, <3>2, <3>3
  <2> QED
    BY <2>4, <2>5
<1>3. CASE operator # "is"
  <2>1. SearchTokenList(value) = {Formed(wanted, "plain")} \ {{}}
    BY <1>3, FormedSets DEF SearchTokenList
  <2>2. Formed(wanted, "plain") = {} <=> wanted = {}
    BY DEF Formed
  <2>3. /\ Formed(wanted, "plain") \cap tokens # {} <=> wanted \cap said # {}
        /\ Formed(wanted, "plain") \subseteq tokens <=> wanted \subseteq said
    <3>1. \A l \in wanted : <<l, "plain">> \in tokens <=> l \in said
      BY <1>1
    <3> QED
      BY ONLY <3>1, FormedAgrees
  <2>4. AnyToken(tokens, operator, Formed(wanted, "plain")) <=> Agrees(operator, wanted, said)
    BY <1>3, <2>3 DEF AnyToken, Agrees
  <2> QED
    BY <1>3, <2>1, <2>2, <2>4
<1> QED
  BY <1>2, <1>3

(* Fields that are no special case.                                          *)
LEMMA MeansSet ==
  ASSUME NEW raw, NEW card, NEW field, NEW value, field[2] \in {"is", "one_of", "all_of", "any_of"},
         field # <<"oracle_id", "is">>, field # <<"inventory_name", "is">>
  PROVE  MeansField(raw, card, field, value)
           <=> (Wanted(field, value) = {} \/ Agrees(field[2], Wanted(field, value), Said(raw, field[1])))
<1>1. field # <<"name", "eq">>
  OBVIOUS
<1>2. {} \subseteq Said(raw, field[1])
  OBVIOUS
<1> QED
  BY <1>1, <1>2 DEF MeansField, Agrees

LEMMA TokenMeans ==
  ASSUME NEW raw, NEW card, NEW column \in {"subtype", "keyword", "tag"}, NEW operator \in {"is", "one_of", "all_of"},
         NEW value
  PROVE  LET field == <<column, operator>>
         IN Asks(raw, card, field, value) <=> MeansField(raw, card, field, value)
<1> DEFINE field == <<column, operator>>
           tokens == CASE column = "subtype" -> Stored(raw).subtypes
                       [] column = "keyword" -> Stored(raw).keywords
                       [] column = "tag" -> TagsOf(Stored(raw), Tagged)
<1>1. field[1] = column /\ field[2] = operator
  OBVIOUS
<1> HIDE DEF field
<1>2. field # <<"inventory_name", "is">> /\ field # <<"oracle_id", "is">>
  BY <1>1
<1>3. Normalised(field, value) = IF operator = "is" THEN SearchToken(value) ELSE SearchTokenList(value)
  BY <1>1 DEF Normalised, Lists
<1>4. \A sought : Holds(Stored(raw), Tagged, field, sought) <=> AnyToken(tokens, operator, sought)
  BY <1>1 DEF Holds, SubtypeHolds, KeywordHolds, TagHolds
<1>5. \A l : l # "" => (<<l, "plain">> \in tokens <=> l \in Said(raw, column))
  <2>1. CASE column = "subtype"
    <3>1. tokens = Formed(Letters(Range(raw.subtypes)), "plain")
      BY <2>1, FormedSets DEF Stored
    <3> QED
      BY <2>1, <3>1 DEF Said, Formed
  <2>2. CASE column = "keyword"
    <3>1. tokens = Formed(Letters(Range(raw.keywords)), "plain")
      BY <2>2, FormedSets DEF Stored
    <3> QED
      BY <2>2, <3>1 DEF Said, Formed
  <2>3. CASE column = "tag"
    <3>1. tokens = {Lower(pair[2]) : pair \in {p \in Tagged : p[1] = raw.oracle}}
      BY <2>3 DEF TagsOf, Stored
    <3>2. Said(raw, column) = Letters({pair[2] : pair \in {p \in Tagged : p[1] = raw.oracle}})
      BY <2>3 DEF Said
    <3> HIDE DEF tokens
    <3> QED
      BY <3>1, <3>2 DEF Letters, Lower
  <2> QED
    BY <2>1, <2>2, <2>3
<1>6. Wanted(field, value) = Letters(IF operator = "is" THEN {value} ELSE Range(value))
  BY <1>1 DEF Wanted, GivenItems, Lists
<1> HIDE DEF tokens
<1>7. MeansField(raw, card, field, value)
        <=> (Wanted(field, value) = {} \/ Agrees(operator, Wanted(field, value), Said(raw, column)))
  BY <1>1, <1>2, MeansSet
<1>8. (\A sought \in IF operator = "is" THEN SearchToken(value) ELSE SearchTokenList(value) :
            AnyToken(tokens, operator, sought))
           <=> Wanted(field, value) = {} \/ Agrees(operator, Wanted(field, value), Said(raw, column))
  BY <1>5, <1>6, TokensAgree
<1> QED
  BY <1>2, <1>3, <1>4, <1>7, <1>8 DEF Asks, field

LEMMA NoLetters ==
  ASSUME NEW word
  PROVE  Letters({word}) = (IF word[1] = "" THEN {} ELSE {word[1]})
  BY DEF Letters

LEMMA LikeFinds ==
  ASSUME NEW column, NEW pattern, pattern[1] \notin Wildcards, pattern[1] # "", pattern[2] # "padded"
  PROVE  Like(column, pattern) <=> \E text \in column : pattern[1] \in Letters(Range(text))
<1>1. ASSUME NEW text
      PROVE  (\E i \in DOMAIN text : text[i][1] = pattern[1]) <=> pattern[1] \in Letters(Range(text))
  BY DEF Letters, Range
<1> QED
  BY <1>1 DEF Like, Wildcards

LEMMA LikePatterns ==
  ASSUME NEW value, value[1] # ""
  PROVE  \E pattern : LikePattern(value) = {pattern} /\ pattern[1] = value[1] /\ pattern[2] # "padded"
<1>1. Trimmed(value)[1] = value[1] /\ Trimmed(value)[2] # "padded"
  BY DEF Trimmed, Lower
<1> QED
  BY <1>1 DEF LikePattern, IsBlank

LEMMA LikeMeans ==
  ASSUME NEW raw, NEW card, NEW column \in {"text", "power", "toughness", "number"}, NEW value,
         PlainPattern(<<column, "like">>, value)
  PROVE  LET field == <<column, "like">>
         IN Asks(raw, card, field, value) <=> MeansField(raw, card, field, value)
<1> DEFINE field == <<column, "like">>
           texts == TextOf(raw, column)
<1>1. field[1] = column /\ field[2] = "like"
  OBVIOUS
<1>0. value[1] \notin Wildcards
  BY <1>1 DEF PlainPattern
<1> HIDE DEF field
<1>2. field # <<"inventory_name", "is">> /\ field # <<"oracle_id", "is">> /\ field # <<"name", "eq">>
  BY <1>1
<1>3. Normalised(field, value) = LikePattern(value)
  BY <1>1 DEF Normalised, Lists
<1>4. \A sought : Holds(Stored(raw), Tagged, field, sought) <=> Like(texts, sought)
  <2>1. CASE column = "text"
    BY <1>1, <2>1 DEF Holds, TextHolds, TextOf, Stored
  <2>2. CASE column = "number"
    BY <1>1, <2>2 DEF Holds, NumberHolds, TextOf, Stored
  <2>3. CASE column \in {"power", "toughness"}
    BY <1>1, <2>3 DEF Holds, PtRawHolds, TextOf, Stored
  <2> QED
    BY <2>1, <2>2, <2>3
<1>5. MeansField(raw, card, field, value)
        <=> (Letters({value}) = {} \/ \E text \in texts : value[1] \in Letters(Range(text)))
  BY <1>1, <1>2 DEF MeansField
<1> HIDE DEF texts
<1>6. CASE value[1] = ""
  <2>1. LikePattern(value) = {}
    BY <1>6 DEF LikePattern, IsBlank
  <2> QED
    BY <1>2, <1>3, <1>5, <1>6, <2>1, NoLetters DEF Asks, field
<1>7. CASE value[1] # ""
  <2>1. PICK pattern : LikePattern(value) = {pattern} /\ pattern[1] = value[1] /\ pattern[2] # "padded"
    BY <1>7, LikePatterns
  <2>2. Like(texts, pattern) <=> \E text \in texts : value[1] \in Letters(Range(text))
    BY <1>0, <1>7, <2>1, LikeFinds
  <2>3. Letters({value}) # {}
    BY <1>7, NoLetters
  <2> QED
    BY <1>2, <1>3, <1>4, <1>5, <2>1, <2>2, <2>3 DEF Asks, field
<1> QED
  BY <1>6, <1>7

LEMMA NameMeans ==
  ASSUME NEW raw, NEW card, NEW operator \in {"eq", "like"}, NEW value, PlainPattern(<<"name", operator>>, value)
  PROVE  LET field == <<"name", operator>>
         IN Asks(raw, card, field, value) <=> MeansField(raw, card, field, value)
<1> DEFINE field == <<"name", operator>>
<1>1. field[1] = "name" /\ field[2] = operator
  OBVIOUS
<1>2. operator = "like" => value[1] \notin Wildcards /\ value[2] # "padded"
  BY <1>1 DEF PlainPattern
<1>3. operator = "eq" <=> field = <<"name", "eq">>
  OBVIOUS
<1> HIDE DEF field
<1>4. field # <<"inventory_name", "is">> /\ field # <<"oracle_id", "is">>
  BY <1>1
<1>5. Normalised(field, value) = {value}
  BY <1>1 DEF Normalised, Lists
<1>6. Holds(Stored(raw), Tagged, field, value)
        <=> IF operator = "eq" THEN Names[raw.name] = value ELSE Like({Names[raw.name]}, value)
  BY <1>1 DEF Holds, NameHolds, Stored
<1>7. CASE operator = "eq"
  <2>1. MeansField(raw, card, field, value) <=> Names[raw.name] = value
    BY <1>1, <1>3, <1>4, <1>7 DEF MeansField
  <2> QED
    BY <1>4, <1>5, <1>6, <1>7, <2>1 DEF Asks, field
<1>8. CASE operator = "like"
  <2>1. MeansField(raw, card, field, value)
          <=> (Letters({value}) = {} \/ \E text \in {Names[raw.name]} : value[1] \in Letters(Range(text)))
    BY <1>1, <1>3, <1>4, <1>8 DEF MeansField, TextOf
  <2>2. CASE value[1] = ""
    <3>1. Like({Names[raw.name]}, value)
      BY <1>2, <1>8, <2>2 DEF Like
    <3> QED
      BY <1>4, <1>5, <1>6, <1>8, <2>1, <2>2, <3>1, NoLetters DEF Asks, field
  <2>3. CASE value[1] # ""
    <3>1. Like({Names[raw.name]}, value) <=> \E text \in {Names[raw.name]} : value[1] \in Letters(Range(text))
      <4> DEFINE texts == {Names[raw.name]}
      <4>1. value[1] \notin Wildcards /\ value[2] # "padded"
        BY <1>2, <1>8
      <4> HIDE DEF texts
      <4>2. Like(texts, value) <=> \E text \in texts : value[1] \in Letters(Range(text))
        BY <2>3, <4>1, LikeFinds
      <4> QED
        BY <4>2 DEF texts
    <3>2. Letters({value}) # {}
      BY <2>3, NoLetters
    <3> QED
      BY <1>4, <1>5, <1>6, <1>8, <2>1, <3>1, <3>2 DEF Asks, field
  <2> QED
    BY <2>2, <2>3
<1> QED
  BY <1>7, <1>8

LEMMA FigureMeans ==
  ASSUME NEW raw, IsRaw(raw), NEW card, NEW column \in {"power", "toughness", "number"},
         NEW operator \in {"eq", "lt", "gt"}, NEW value
  PROVE  LET field == <<column, operator>>
         IN Asks(raw, card, field, value) <=> MeansField(raw, card, field, value)
<1> DEFINE field == <<column, operator>>
<1>1. field[1] = column /\ field[2] = operator
  OBVIOUS
<1> HIDE DEF field
<1>2. field # <<"inventory_name", "is">> /\ field # <<"oracle_id", "is">> /\ field # <<"name", "eq">>
  BY <1>1
<1>3. Normalised(field, value) = {value}
  BY <1>1 DEF Normalised, Lists
<1>4. Stored(raw).meta[column] = Number(raw, column)
  <2>1. CASE column = "number"
    <3>1. UNION {figure.digits : figure \in raw.number} \subseteq Nat
      BY DEF IsRaw
    <3>2. CollectorNumber(raw.number) = UNION {figure.digits : figure \in raw.number}
      BY <3>1 DEF CollectorNumber
    <3> QED
      BY <2>1, <3>2 DEF Number, Stored
  <2>2. CASE column \in {"power", "toughness"}
    <3>1. \A figures : PlainInteger(figures) = UNION {IF figure.whole THEN figure.digits ELSE {} : figure \in figures}
      BY DEF PlainInteger
    <3>2. Number(raw, column) = UNION {IF figure.whole THEN figure.digits ELSE {} : figure \in raw[column]}
      BY <2>2 DEF Number
    <3>3. Stored(raw).meta[column] = PlainInteger(raw[column])
      BY <2>2 DEF Stored
    <3> QED
      BY <3>1, <3>2, <3>3
  <2> QED
    BY <2>1, <2>2
<1>5. Holds(Stored(raw), Tagged, field, value) <=> Compares(Stored(raw).meta[column], operator, value)
  <2>1. CASE column = "number"
    BY <1>1, <2>1 DEF Holds, NumberHolds
  <2>2. CASE column \in {"power", "toughness"}
    BY <1>1, <2>2 DEF Holds, PtMetaHolds
  <2> QED
    BY <2>1, <2>2
<1>6. MeansField(raw, card, field, value) <=> Compares(Number(raw, column), operator, value)
  BY <1>1, <1>2 DEF MeansField, Compares
<1> QED
  BY <1>2, <1>3, <1>4, <1>5, <1>6 DEF Asks, field

LEMMA OracleMeans ==
  ASSUME NEW raw, NEW card, NEW value
  PROVE  LET field == <<"oracle_id", "is">>
         IN Asks(raw, card, field, value) <=> MeansField(raw, card, field, value)
<1> DEFINE field == <<"oracle_id", "is">>
<1>1. field[1] = "oracle_id" /\ field[2] = "is" /\ field # <<"inventory_name", "is">> /\ field # <<"name", "eq">>
      /\ field # <<"scryfall_id", "is">> /\ field # <<"scryfall_id", "one_of">>
  OBVIOUS
<1>2. field = <<"oracle_id", "is">>
  OBVIOUS
<1> HIDE DEF field
<1>3. Normalised(field, value) = {value}
  BY <1>1 DEF Normalised, Lists
<1>4. Holds(Stored(raw), Tagged, field, value) <=> raw.oracle = value
  BY <1>1, <1>2 DEF Holds, IdentifierHolds, Stored
<1>5. MeansField(raw, card, field, value) <=> raw.oracle = value
  BY <1>1, <1>2 DEF MeansField
<1> QED
  BY <1>1, <1>3, <1>4, <1>5 DEF Asks, field

LEMMA PrintingMeans ==
  ASSUME NEW raw, NEW card, NEW operator \in {"is", "one_of"}, NEW value, IsGiven(<<"scryfall_id", operator>>, value)
  PROVE  LET field == <<"scryfall_id", operator>>
         IN Asks(raw, card, field, value) <=> MeansField(raw, card, field, value)
<1> DEFINE field == <<"scryfall_id", operator>>
<1>1. field[1] = "scryfall_id" /\ field[2] = operator
  OBVIOUS
<1>2. \A word \in GivenItems(field, value) : word[1] # ""
  BY <1>1 DEF IsGiven, IsBlank
<1>3. operator = "is" <=> field = <<"scryfall_id", "is">>
  OBVIOUS
<1>4. operator = "one_of" <=> field = <<"scryfall_id", "one_of">>
  OBVIOUS
<1> HIDE DEF field
<1>5. field # <<"inventory_name", "is">> /\ field # <<"oracle_id", "is">>
  BY <1>1
<1>6. Normalised(field, value) = IF operator = "is" THEN {value} ELSE {Range(value)} \ {{}}
  BY <1>1 DEF Normalised, Lists, NonemptyList
<1>7. \A sought : Holds(Stored(raw), Tagged, field, sought)
        <=> IF operator = "is" THEN Lower(raw.printing) = Lower(sought)
                               ELSE Lower(raw.printing) \in {Lower(word) : word \in sought}
  BY <1>1, <1>3, <1>4, <1>5 DEF Holds, IdentifierHolds, Stored
<1>8. \A one, other : Lower(one) = Lower(other) <=> one[1] = other[1]
  BY DEF Lower
<1>9. MeansField(raw, card, field, value)
        <=> (Wanted(field, value) = {} \/ Wanted(field, value) \cap {raw.printing[1]} # {})
  <2>1. Said(raw, "scryfall_id") = {raw.printing[1]}
    BY DEF Said
  <2>2. MeansField(raw, card, field, value)
          <=> (Wanted(field, value) = {} \/ Agrees(operator, Wanted(field, value), Said(raw, "scryfall_id")))
    BY <1>1, <1>5, MeansSet
  <2> QED
    BY <2>1, <2>2 DEF Agrees
<1>10. GivenItems(field, value) = IF operator = "is" THEN {value} ELSE Range(value)
  BY <1>1 DEF GivenItems, Lists
<1>11. Wanted(field, value) = {word[1] : word \in GivenItems(field, value)}
  BY <1>1, <1>2 DEF Wanted, Letters
<1>12. CASE operator = "is"
  <2>1. Wanted(field, value) = {value[1]}
    BY <1>10, <1>11, <1>12
  <2> QED
    BY <1>5, <1>6, <1>7, <1>8, <1>9, <1>12, <2>1 DEF Asks, field
<1>13. CASE operator = "one_of"
  <2>1. Wanted(field, value) = {word[1] : word \in Range(value)}
    BY <1>10, <1>11, <1>13
  <2>2. Lower(raw.printing) \in {Lower(word) : word \in Range(value)} <=> raw.printing[1] \in Wanted(field, value)
    BY <1>8, <2>1
  <2>3. Range(value) = {} <=> Wanted(field, value) = {}
    BY <2>1
  <2>4. Asks(raw, card, field, value)
          <=> (Range(value) = {} \/ Lower(raw.printing) \in {Lower(word) : word \in Range(value)})
    BY <1>5, <1>6, <1>7, <1>13 DEF Asks
  <2> QED
    BY <1>9, <2>2, <2>3, <2>4 DEF field
<1> QED
  BY <1>12, <1>13

LEMMA RarityMeans ==
  ASSUME NEW raw, NEW card, NEW value, IsGiven(<<"rarity", "is">>, value), InRange(<<"rarity", "is">>, value)
  PROVE  LET field == <<"rarity", "is">>
         IN Asks(raw, card, field, value) <=> MeansField(raw, card, field, value)
<1> DEFINE field == <<"rarity", "is">>
<1>1. field[1] = "rarity" /\ field[2] = "is" /\ field # <<"inventory_name", "is">> /\ field # <<"oracle_id", "is">>
  OBVIOUS
<1>2. value = <<value[1], "plain">> /\ value[1] # ""
  <2>1. value = <<value[1], value[2]>>
    BY <1>1 DEF IsGiven
  <2>2. value[1] \in Rarities /\ value[2] = "plain"
    BY <1>1 DEF InRange
  <2> QED
    BY <2>1, <2>2, WordsAssumption DEF WordsAssumption
<1> HIDE DEF field
<1>3. Normalised(field, value) = {value}
  BY <1>1 DEF Normalised, Lists
<1>4. Holds(Stored(raw), Tagged, field, value) <=> Lower(raw.rarity) = value
  BY <1>1 DEF Holds, RarityHolds, Stored
<1>5. Lower(raw.rarity) = value <=> raw.rarity[1] = value[1]
  <2>1. PICK l : value = <<l, "plain">> /\ value[1] = l
    BY <1>2
  <2>2. <<raw.rarity[1], "plain">> = <<l, "plain">> <=> raw.rarity[1] = l
    OBVIOUS
  <2>3. Lower(raw.rarity) = <<raw.rarity[1], "plain">>
    BY DEF Lower
  <2> QED
    BY <2>1, <2>2, <2>3
<1>6. Wanted(field, value) = {value[1]}
  BY <1>1, <1>2, NoLetters DEF Wanted, GivenItems, Lists
<1>7. Said(raw, "rarity") = {raw.rarity[1]}
  BY DEF Said
<1>8. MeansField(raw, card, field, value) <=> raw.rarity[1] = value[1]
  <2>1. MeansField(raw, card, field, value)
          <=> (Wanted(field, value) = {} \/ Agrees("is", Wanted(field, value), Said(raw, "rarity")))
    BY <1>1, MeansSet
  <2> QED
    BY <1>6, <1>7, <2>1 DEF Agrees
<1> QED
  BY <1>1, <1>3, <1>4, <1>5, <1>8 DEF Asks, field

(* Words of an enum: what the enum lacks is in no row, but nor in a request. *)
LEMMA EnumeratedWords ==
  ASSUME NEW words, NEW letters, "" \notin letters
  PROVE  \A l \in letters : <<l, "plain">> \in Enumerated(words, letters) <=> l \in Letters(Range(words))
<1> SUFFICES ASSUME NEW l \in letters
             PROVE  <<l, "plain">> \in Enumerated(words, letters) <=> l \in Letters(Range(words))
  OBVIOUS
<1>1. ASSUME <<l, "plain">> \in Enumerated(words, letters) PROVE l \in Letters(Range(words))
  <2>1. PICK word \in Range(words) : <<l, "plain">> = <<word[1], "plain">>
    BY <1>1 DEF Enumerated, Lower
  <2> QED
    BY <2>1 DEF Letters
<1>2. ASSUME l \in Letters(Range(words)) PROVE <<l, "plain">> \in Enumerated(words, letters)
  BY <1>2 DEF Letters, Enumerated, Lower
<1> QED
  BY <1>1, <1>2

LEMMA SupertypeMeans ==
  ASSUME NEW raw, NEW card, NEW value, InRange(<<"super_type", "is">>, value)
  PROVE  LET field == <<"super_type", "is">>
         IN Asks(raw, card, field, value) <=> MeansField(raw, card, field, value)
<1> DEFINE field == <<"super_type", "is">>
           tokens == Enumerated(raw.supertypes, Supertypes)
           said == Letters(Range(raw.supertypes))
<1>1. field[1] = "super_type" /\ field[2] = "is" /\ field # <<"inventory_name", "is">> /\ field # <<"oracle_id", "is">>
  OBVIOUS
<1>2. value[1] \in Supertypes /\ value[1] # ""
  BY <1>1, WordsAssumption DEF InRange, WordsAssumption
<1> HIDE DEF field
<1>3. Normalised(field, value) = {<<value[1], "plain">>}
  BY <1>1 DEF Normalised, Lists, Lower
<1>4. Holds(Stored(raw), Tagged, field, <<value[1], "plain">>) <=> <<value[1], "plain">> \in tokens
  BY <1>1 DEF Holds, SupertypeHolds, AnyToken, Stored
<1>5. <<value[1], "plain">> \in tokens <=> value[1] \in said
  BY <1>2, EnumeratedWords, WordsAssumption DEF WordsAssumption
<1>6. Wanted(field, value) = {value[1]}
  BY <1>1, <1>2, NoLetters DEF Wanted, GivenItems, Lists
<1>7. Said(raw, "super_type") = said
  BY DEF Said
<1>8. MeansField(raw, card, field, value) <=> value[1] \in said
  <2>1. MeansField(raw, card, field, value)
          <=> (Wanted(field, value) = {} \/ Agrees("is", Wanted(field, value), Said(raw, "super_type")))
    BY <1>1, MeansSet
  <2> QED
    BY <1>6, <1>7, <2>1 DEF Agrees
<1> QED
  BY <1>1, <1>3, <1>4, <1>5, <1>8 DEF Asks, field

LEMMA TypeMeans ==
  ASSUME NEW raw, NEW card, NEW operator \in {"is", "one_of", "all_of"}, NEW value,
         InRange(<<"card_type", operator>>, value)
  PROVE  LET field == <<"card_type", operator>>
         IN Asks(raw, card, field, value) <=> MeansField(raw, card, field, value)
<1> DEFINE field == <<"card_type", operator>>
           tokens == Enumerated(raw.types, CardTypes)
           said == Letters(Range(raw.types))
           wanted == Wanted(field, value)
<1>1. field[1] = "card_type" /\ field[2] = operator
  OBVIOUS
<1> HIDE DEF field
<1>2. field # <<"inventory_name", "is">> /\ field # <<"oracle_id", "is">>
  BY <1>1
<1>3. GivenItems(field, value) = (IF operator = "is" THEN {value} ELSE Range(value))
  BY <1>1 DEF GivenItems, Lists
<1>4. \A word \in GivenItems(field, value) : word[1] \in CardTypes
  BY <1>1 DEF InRange, field
<1>5. wanted = {word[1] : word \in GivenItems(field, value)} /\ wanted \subseteq CardTypes
  BY <1>1, <1>4, WordsAssumption DEF WordsAssumption, Wanted, Letters
<1>6. \A l \in wanted : <<l, "plain">> \in tokens <=> l \in said
  BY <1>5, EnumeratedWords, WordsAssumption DEF WordsAssumption
<1>7. Said(raw, "card_type") = said
  BY DEF Said
<1>8. MeansField(raw, card, field, value) <=> (wanted = {} \/ Agrees(operator, wanted, said))
  BY <1>1, <1>2, <1>7, MeansSet
<1>9. \A sought : Holds(Stored(raw), Tagged, field, sought) <=> AnyToken(tokens, operator, sought)
  BY <1>1 DEF Holds, CardTypeHolds, Stored
<1>10. Normalised(field, value) = IF operator = "is" THEN {Lower(value)} ELSE {LoweredAll(value)} \ {{}}
  BY <1>1 DEF Normalised, Lists, NonemptyList
<1> HIDE DEF tokens, said, wanted
<1>11. CASE operator = "is"
  <2>1. wanted = {value[1]} /\ Lower(value) = <<value[1], "plain">>
    BY <1>3, <1>5, <1>11 DEF Lower
  <2>2. Agrees(operator, wanted, said) <=> wanted \cap said # {}
    BY <1>11 DEF Agrees
  <2>3. \A sought : AnyToken(tokens, operator, sought) <=> sought \in tokens
    BY <1>11 DEF AnyToken
  <2> QED
    BY <1>2, <1>6, <1>8, <1>9, <1>10, <1>11, <2>1, <2>2, <2>3 DEF Asks, field
<1>12. CASE operator # "is"
  <2>1. LoweredAll(value) = Formed(wanted, "plain")
    BY <1>3, <1>5, <1>12 DEF LoweredAll, Lower, Formed
  <2>2. /\ Formed(wanted, "plain") \cap tokens # {} <=> wanted \cap said # {}
        /\ Formed(wanted, "plain") \subseteq tokens <=> wanted \subseteq said
    BY ONLY <1>6, FormedAgrees
  <2>3. AnyToken(tokens, operator, Formed(wanted, "plain")) <=> Agrees(operator, wanted, said)
    BY <1>12, <2>2 DEF AnyToken, Agrees
  <2>4. Formed(wanted, "plain") = {} <=> wanted = {}
    BY DEF Formed
  <2> QED
    BY <1>2, <1>8, <1>9, <1>10, <1>12, <2>1, <2>3, <2>4 DEF Asks, field
<1> QED
  BY <1>11, <1>12

LEMMA SetCodeMeans ==
  ASSUME NEW raw, NEW card, NEW operator \in {"is", "any_of"}, NEW value
  PROVE  LET field == <<"set_code", operator>>
         IN Asks(raw, card, field, value) <=> MeansField(raw, card, field, value)
<1> DEFINE field == <<"set_code", operator>>
           wanted == Wanted(field, value)
           said == {raw.set[1]}
<1>1. field[1] = "set_code" /\ field[2] = operator
  OBVIOUS
<1> HIDE DEF field
<1>2. field # <<"inventory_name", "is">> /\ field # <<"oracle_id", "is">>
  BY <1>1
<1>3. wanted = Letters(IF operator = "is" THEN {value} ELSE Range(value))
  BY <1>1 DEF Wanted, GivenItems, Lists
<1>4. MeansField(raw, card, field, value) <=> (wanted = {} \/ wanted \cap said # {})
  <2>1. Said(raw, "set_code") = said
    BY DEF Said
  <2>2. MeansField(raw, card, field, value) <=> (wanted = {} \/ Agrees(operator, wanted, Said(raw, "set_code")))
    BY <1>1, <1>2, MeansSet
  <2> QED
    BY <2>1, <2>2 DEF Agrees
<1>5. Normalised(field, value) = IF operator = "is" THEN SetCode(value) ELSE SetCodeList(value)
  BY <1>1 DEF Normalised, Lists
<1>6. \A sought : Holds(Stored(raw), Tagged, field, sought)
        <=> IF operator = "is" THEN Upper(raw.set) = sought ELSE Upper(raw.set) \in sought
  BY <1>1 DEF Holds, SetCodeHolds, Stored
<1>7. \A l : Upper(raw.set) = <<l, "shouted">> <=> raw.set[1] = l
  BY DEF Upper
<1> HIDE DEF wanted
<1>8. CASE operator = "is"
  <2>1. wanted = IF value[1] = "" THEN {} ELSE {value[1]}
    BY <1>3, <1>8, NoLetters
  <2>2. SetCode(value) = IF value[1] = "" THEN {} ELSE {<<value[1], "shouted">>}
    BY DEF SetCode, IsBlank, Upper
  <2> QED
    BY <1>2, <1>4, <1>5, <1>6, <1>7, <1>8, <2>1, <2>2 DEF Asks, field
<1>9. CASE operator # "is"
  <2>1. SetCodeList(value) = {Formed(wanted, "shouted")} \ {{}}
    BY <1>3, <1>9, FormedSets DEF SetCodeList
  <2>2. Formed(wanted, "shouted") = {} <=> wanted = {}
    BY DEF Formed
  <2>3. Upper(raw.set) \in Formed(wanted, "shouted") <=> wanted \cap said # {}
    BY <1>7 DEF Formed
  <2> QED
    BY <1>2, <1>4, <1>5, <1>6, <1>9, <2>1, <2>2, <2>3 DEF Asks, field
<1> QED
  BY <1>8, <1>9

LEMMA ColorMeans ==
  ASSUME NEW raw, IsRaw(raw), NEW card, NEW operator \in {"is", "one_of", "all_of", "only_of"}, NEW value,
         InRange(<<"color_identity", operator>>, value)
  PROVE  LET field == <<"color_identity", operator>>
         IN Asks(raw, card, field, value) <=> MeansField(raw, card, field, value)
<1> DEFINE field == <<"color_identity", operator>>
           wanted == GivenItems(field, value)
           said == ColorIdentity(raw.colors)
<1>1. field[1] = "color_identity" /\ field[2] = operator
  OBVIOUS
<1>2. wanted \subseteq Pips
  BY <1>1 DEF InRange
<1> HIDE DEF field
<1>3. field # <<"inventory_name", "is">> /\ field # <<"oracle_id", "is">> /\ field # <<"name", "eq">>
  BY <1>1
<1>4. wanted = IF operator = "is" THEN {value} ELSE Range(value)
  BY <1>1 DEF GivenItems, Lists
<1>5. Said(raw, "color_identity") = said /\ said \subseteq Pips
  <2>1. {word[1] : word \in Range(raw.colors)} \subseteq Pips /\ "" \notin Pips
    BY DEF IsRaw, Pips
  <2>2. Said(raw, "color_identity") = Letters(Range(raw.colors))
    BY DEF Said
  <2>3. Letters(Range(raw.colors)) = {word[1] : word \in Range(raw.colors)}
    BY <2>1 DEF Letters
  <2>4. said = {word[1] : word \in Range(raw.colors)} \cap Pips
    BY DEF ColorIdentity
  <2> HIDE DEF said
  <2> QED
    BY <2>1, <2>2, <2>3, <2>4
<1>6. Wanted(field, value) = wanted
  BY <1>1 DEF Wanted
<1>7. Normalised(field, value) = IF operator = "is" THEN {value} ELSE {Range(value)} \ {{}}
  BY <1>1 DEF Normalised, Lists, NonemptyList
<1>8. \A sought : Holds(Stored(raw), Tagged, field, sought) <=> ColorsHold(Stored(raw), field, sought)
  BY <1>1 DEF Holds
<1>9. Stored(raw).colors = said
  BY DEF Stored
<1> HIDE DEF said, wanted
<1>10. CASE operator = "is"
  <2>1. ColorsHold(Stored(raw), field, value) <=> value \in said
    BY <1>1, <1>9, <1>10 DEF ColorsHold
  <2>2. MeansField(raw, card, field, value) <=> (wanted = {} \/ Agrees(operator, wanted, said))
    BY <1>1, <1>3, <1>5, <1>6, <1>10, MeansSet
  <2>3. Agrees(operator, wanted, said) <=> value \in said
    BY <1>4, <1>10 DEF Agrees
  <2>4. wanted = {value} /\ Normalised(field, value) = {value}
    BY <1>4, <1>7, <1>10
  <2>5. Asks(raw, card, field, value) <=> value \in said
    BY <1>3, <1>8, <2>1, <2>4 DEF Asks
  <2> QED
    BY <2>2, <2>3, <2>4, <2>5 DEF field
<1>11. CASE operator \in {"one_of", "all_of"}
  <2>1. ColorsHold(Stored(raw), field, wanted) <=> Agrees(operator, wanted, said)
    BY <1>1, <1>9, <1>11 DEF ColorsHold, Agrees
  <2>2. MeansField(raw, card, field, value) <=> (wanted = {} \/ Agrees(operator, wanted, said))
    BY <1>1, <1>3, <1>5, <1>6, <1>11, MeansSet
  <2> QED
    BY <1>3, <1>4, <1>7, <1>8, <1>11, <2>1, <2>2 DEF Asks, field
<1>12. CASE operator = "only_of"
  <2>1. ColorsHold(Stored(raw), field, wanted) <=> said \subseteq wanted
    BY <1>1, <1>2, <1>5, <1>9, <1>12 DEF ColorsHold
  <2>2. MeansField(raw, card, field, value) <=> (wanted = {} \/ said \subseteq wanted)
    BY <1>1, <1>3, <1>5, <1>6, <1>12 DEF MeansField
  <2> QED
    BY <1>3, <1>4, <1>7, <1>8, <1>12, <2>1, <2>2 DEF Asks, field
<1> QED
  BY <1>10, <1>11, <1>12

LEMMA InventoryMeans ==
  ASSUME NEW raw, NEW card, NEW value
  PROVE  LET field == <<"inventory_name", "is">>
         IN Asks(raw, card, field, value) <=> MeansField(raw, card, field, value)
<1> DEFINE field == <<"inventory_name", "is">>
<1>1. field[1] = "inventory_name" /\ field[2] = "is" /\ field # <<"oracle_id", "is">> /\ field # <<"name", "eq">>
  OBVIOUS
<1>2. field = <<"inventory_name", "is">>
  OBVIOUS
<1> HIDE DEF field
<1>3. Normalised(field, value) = IF value[1] = "" THEN {} ELSE {Lower(value)}
  BY <1>1 DEF Normalised, Lists, InventoryName, IsBlank
<1>4. \A i \in DOMAIN Inventories : Inventories[i] = Lower(value) <=> Inventories[i][1] = value[1]
  <2> SUFFICES ASSUME NEW i \in DOMAIN Inventories
               PROVE  Inventories[i] = Lower(value) <=> Inventories[i][1] = value[1]
    OBVIOUS
  <2>1. PICK l : l = Inventories[i][1]
    OBVIOUS
  <2>2. Inventories[i] = <<l, "plain">>
    BY <2>1, WordsAssumption DEF WordsAssumption, Lower
  <2>3. <<l, "plain">> = <<value[1], "plain">> <=> l = value[1]
    OBVIOUS
  <2> QED
    BY <2>1, <2>2, <2>3 DEF Lower
<1>5. MeansField(raw, card, field, value)
        <=> (Letters({value}) = {} \/ \E pair \in Stock : pair[2] = card /\ Inventories[pair[1]][1] = value[1])
  BY <1>1, <1>2 DEF MeansField
<1>6. (\E pair \in Stock : pair[2] = card /\ Inventories[pair[1]][1] = value[1])
        <=> \E i \in DOMAIN Inventories : Inventories[i][1] = value[1] /\ <<i, card>> \in Stock
  <2>1. Stock \subseteq (DOMAIN Inventories) \X (DOMAIN Files)
    BY ReadersAssumption DEF ReadersAssumption
  <2>2. ASSUME NEW pair \in Stock, pair[2] = card PROVE pair[1] \in DOMAIN Inventories /\ pair = <<pair[1], card>>
    BY <2>1, <2>2
  <2>3. \A i : <<i, card>>[1] = i /\ <<i, card>>[2] = card
    OBVIOUS
  <2> QED
    BY <2>2, <2>3
<1>7. Asks(raw, card, field, value)
        <=> (value[1] = "" \/ \E i \in DOMAIN Inventories : Inventories[i] = Lower(value) /\ <<i, card>> \in Stock)
  BY <1>2, <1>3 DEF Asks
<1>8. Letters({value}) = {} <=> value[1] = ""
  BY NoLetters
<1> QED
  BY <1>4, <1>5, <1>6, <1>7, <1>8 DEF field

--------------------------------------------------------------------------------
(* What a search asks is what all its fields mean.                           *)

(* Every field means what its description says.                              *)
LEMMA FieldMeans ==
  ASSUME NEW raw, IsRaw(raw), NEW card, NEW field \in Fields, NEW value,
         IsGiven(field, value), InRange(field, value), PlainPattern(field, value)
  PROVE  Asks(raw, card, field, value) <=> MeansField(raw, card, field, value)
<1>1. ASSUME field \in ManaNameIdFields
      PROVE  Asks(raw, card, field, value) <=> MeansField(raw, card, field, value)
  <2>1. CASE \E operator \in {"eq", "lt", "gt"} : field = <<"mana_value", operator>>
    BY <2>1, ManaMeans
  <2>2. CASE \E operator \in {"eq", "like"} : field = <<"name", operator>>
    BY <2>2, NameMeans
  <2>3. CASE \E operator \in {"is", "one_of"} : field = <<"scryfall_id", operator>>
    BY <2>3, PrintingMeans
  <2>4. CASE field = <<"oracle_id", "is">>
    BY <2>4, OracleMeans
  <2>5. CASE field = <<"inventory_name", "is">>
    BY <2>5, InventoryMeans
  <2>6. CASE field = <<"rarity", "is">>
    BY <2>6, RarityMeans
  <2> QED
    BY <1>1, <2>1, <2>2, <2>3, <2>4, <2>5, <2>6 DEF ManaNameIdFields
<1>2. ASSUME field \in TokenFields
      PROVE  Asks(raw, card, field, value) <=> MeansField(raw, card, field, value)
  <2>1. CASE \E column \in {"subtype", "keyword", "tag"}, operator \in {"is", "one_of", "all_of"} :
               field = <<column, operator>>
    BY <2>1, TokenMeans
  <2>2. CASE field = <<"super_type", "is">>
    BY <2>2, SupertypeMeans
  <2>3. CASE \E operator \in {"is", "any_of"} : field = <<"set_code", operator>>
    BY <2>3, SetCodeMeans
  <2> QED
    BY <1>2, <2>1, <2>2, <2>3 DEF TokenFields
<1>3. ASSUME field \in PrintedFields
      PROVE  Asks(raw, card, field, value) <=> MeansField(raw, card, field, value)
  <2>1. CASE \E column \in {"power", "toughness", "number"}, operator \in {"eq", "lt", "gt"} :
               field = <<column, operator>>
    BY <2>1, FigureMeans
  <2>2. CASE \E column \in {"text", "power", "toughness", "number"} : field = <<column, "like">>
    BY <2>2, LikeMeans
  <2> QED
    BY <1>3, <2>1, <2>2 DEF PrintedFields
<1>4. ASSUME field \in ColorTypeFields
      PROVE  Asks(raw, card, field, value) <=> MeansField(raw, card, field, value)
  <2>1. CASE \E operator \in {"is", "one_of", "all_of", "only_of"} : field = <<"color_identity", operator>>
    BY <2>1, ColorMeans
  <2>2. CASE \E operator \in {"is", "one_of", "all_of"} : field = <<"card_type", operator>>
    BY <2>2, TypeMeans
  <2> QED
    BY <1>4, <2>1, <2>2 DEF ColorTypeFields
<1> QED
  BY <1>1, <1>2, <1>3, <1>4 DEF Fields

(* A row is found exactly when the search means its card.                    *)
LEMMA SearchAsks ==
  ASSUME NEW raw, NEW card, NEW filters
  PROVE  Satisfies(Stored(raw), Tagged, Search(filters)) /\ Holding(Search(filters), card) # {}
           <=> \A field \in DOMAIN filters : Asks(raw, card, field, filters[field])
<1> DEFINE search == Search(filters)
           named == <<"inventory_name", "is">>
<1>1. DOMAIN search = {field \in DOMAIN filters : Normalised(field, filters[field]) # {}}
  BY DEF Search
<1>2. ASSUME NEW field \in DOMAIN search
      PROVE  \A sought : sought \in Normalised(field, filters[field]) <=> sought = search[field]
  <2>1. search[field] = CHOOSE value \in Normalised(field, filters[field]) : TRUE
    BY DEF Search
  <2>2. search[field] \in Normalised(field, filters[field])
    BY <1>1, <2>1
  <2> QED
    BY <2>2, NormalisedOne
<1> HIDE DEF search
<1>3. ASSUME NEW field \in DOMAIN filters, field # named
      PROVE  Asks(raw, card, field, filters[field])
               <=> (field \in DOMAIN search => Holds(Stored(raw), Tagged, field, search[field]))
  <2>1. CASE field \in DOMAIN search
    BY <1>2, <1>3, <2>1 DEF Asks
  <2>2. CASE field \notin DOMAIN search
    BY <1>1, <1>3, <2>2 DEF Asks
  <2> QED
    BY <2>1, <2>2
<1>4. ASSUME named \in DOMAIN filters
      PROVE  Asks(raw, card, named, filters[named]) <=> Holding(search, card) # {}
  <2>1. CASE named \in DOMAIN search
    <3>1. Holding(search, card) = {i \in DOMAIN Inventories : Inventories[i] = search[named] /\ <<i, card>> \in Stock}
      BY <2>1 DEF Holding
    <3> QED
      BY <1>2, <2>1, <3>1 DEF Asks
  <2>2. CASE named \notin DOMAIN search
    <3>1. Holding(search, card) # {}
      BY <2>2 DEF Holding
    <3> QED
      BY <1>1, <1>4, <2>2, <3>1 DEF Asks
  <2> QED
    BY <2>1, <2>2
<1>5. named \notin DOMAIN filters => Holding(search, card) # {}
  BY <1>1 DEF Holding
<1>6. Satisfies(Stored(raw), Tagged, search)
        <=> \A field \in DOMAIN search \ {named} : Holds(Stored(raw), Tagged, field, search[field])
  BY DEF Satisfies
<1>7. DOMAIN search \subseteq DOMAIN filters
  BY <1>1
<1> HIDE DEF named
<1>8. Satisfies(Stored(raw), Tagged, search)
        <=> \A field \in DOMAIN filters : field # named => Asks(raw, card, field, filters[field])
  BY <1>3, <1>6, <1>7
<1> QED
  BY <1>4, <1>5, <1>8 DEF search

LEMMA SearchMeans ==
  ASSUME PlainPatterns, NEW query \in Queries, Accepted(query.filters),
         NEW card \in DOMAIN Files, NEW version \in DOMAIN Files[card]
  PROVE  LET raw == Files[card][version]
         IN Satisfies(Stored(raw), Tagged, Search(query.filters)) /\ Holding(Search(query.filters), card) # {}
              <=> MeansAll(raw, card, query.filters)
<1> DEFINE raw == Files[card][version]
           filters == query.filters
<1>1. IsRaw(raw)
  BY WordsAssumption DEF WordsAssumption
<1>2. ASSUME NEW field \in DOMAIN filters
      PROVE  /\ field \in Fields /\ IsGiven(field, filters[field])
             /\ InRange(field, filters[field]) /\ PlainPattern(field, filters[field])
  <2>1. IsGiven(field, filters[field])
    BY WordsAssumption DEF WordsAssumption
  <2>2. field \in Fields
    BY <2>1 DEF IsGiven
  <2>3. InRange(field, filters[field])
    BY DEF Accepted
  <2>4. PlainPattern(field, filters[field])
    BY DEF PlainPatterns
  <2> QED
    BY <2>1, <2>2, <2>3, <2>4
<1> HIDE DEF raw, filters
<1>3. \A field \in DOMAIN filters :
        Asks(raw, card, field, filters[field]) <=> MeansField(raw, card, field, filters[field])
  BY <1>1, <1>2, FieldMeans
<1>4. MeansAll(raw, card, filters) <=> \A field \in DOMAIN filters : Asks(raw, card, field, filters[field])
  BY <1>3 DEF MeansAll
<1> QED
  BY <1>4, SearchAsks DEF raw, filters

--------------------------------------------------------------------------------
(* Where a row stands in sorted results.                                     *)

(* A set of naturals has a least one.                                        *)
LEMMA LeastNat ==
  ASSUME NEW B \in SUBSET Nat, B # {}
  PROVE  \E n \in B : \A m \in B : n <= m
<1>1. PICK n \in B : \A m \in B : ~ (<<m, n>> \in OpToRel(<, Nat))
  BY NatLessThanWellFounded, WFMin, Zenon
<1>2. \A m \in B : ~ (m < n)
  BY <1>1, Zenon DEF OpToRel
<1> QED
  BY <1>2

Before(S, key, k) == {y \in S : key[y] < k}

Sorted(order, key) == \A i, j \in DOMAIN order : i < j => key[order[i]] <= key[order[j]]

(* In a sorted list, the first that is not smaller is where one would say.   *)
LEMMA SortedPlace ==
  ASSUME NEW S, NEW order, OnceEach(order, S), NEW key \in [S -> Int], Sorted(order, key), NEW x \in S
  PROVE  LET place == Cardinality(Before(S, key, key[x])) + 1
         IN Cardinality(Before(S, key, key[x])) \in Nat /\ place \in DOMAIN order /\ key[order[place]] = key[x]
<1> DEFINE k == key[x]
           smaller == {i \in DOMAIN order : key[order[i]] < k}
           rest == DOMAIN order \ smaller
<1>1. /\ order \in Seq(S) /\ Range(order) = S /\ IsFiniteSet(S)
      /\ \A i, j \in DOMAIN order : order[i] = order[j] => i = j
  BY DEF OnceEach
<1>2. PICK at \in DOMAIN order : order[at] = x
  BY <1>1 DEF Range
<1>3. at \in rest /\ rest \in SUBSET Nat
  BY <1>1, <1>2
<1>4. PICK first \in rest : \A m \in rest : first <= m
  <2> HIDE DEF rest
  <2> QED
    BY <1>3, LeastNat
<1>5. \A i \in DOMAIN order : key[order[i]] \in Int /\ i \in Nat \ {0}
  BY <1>1
<1>6. smaller = 1..(first - 1)
  <2>1. ASSUME NEW i \in smaller PROVE i < first
    <3>1. i # first
      BY <1>4
    <3>2. ~ first < i
      BY <1>4, <1>5 DEF Sorted
    <3> QED
      BY <1>4, <1>5, <3>1, <3>2
  <2>2. ASSUME NEW i \in 1..(first - 1) PROVE i \in smaller
    <3>1. first \in 1..Len(order) /\ Len(order) \in Nat /\ DOMAIN order = 1..Len(order)
      BY <1>1, <1>4
    <3>2. i \in DOMAIN order /\ i < first /\ i \in Int
      BY <3>1
    <3>3. i \notin rest
      <4> HIDE DEF rest
      <4> QED
        BY <1>4, <3>1, <3>2
    <3> QED
      BY <3>2, <3>3
  <2> HIDE DEF smaller
  <2>3. \A i \in smaller : i \in Nat \ {0}
    BY <1>5 DEF smaller
  <2>4. first \in Nat
    BY <1>4, <1>5
  <2>5. smaller \subseteq 1..(first - 1)
    BY ONLY <2>1, <2>3, <2>4
  <2>6. 1..(first - 1) \subseteq smaller
    BY ONLY <2>2
  <2> QED
    BY ONLY <2>5, <2>6
<1>7. IsFiniteSet(smaller) /\ Cardinality(smaller) = first - 1
  <2>1. \A n \in Nat : IsFiniteSet(1..n) /\ Cardinality(1..n) = IF 1 > n THEN 0 ELSE n - 1 + 1
    BY FS_Interval
  <2>2. first - 1 \in Nat
    BY <1>4, <1>5
  <2> HIDE DEF smaller
  <2> QED
    BY <1>6, <2>1, <2>2
<1>8. Cardinality(Before(S, key, k)) = Cardinality(smaller)
  <2> DEFINE g == [i \in smaller |-> order[i]]
  <2>1. g \in [smaller -> Before(S, key, k)]
    BY <1>1 DEF Before, Range
  <2>2. \A i, j \in smaller : g[i] = g[j] => i = j
    BY <1>1
  <2>3. \A y \in Before(S, key, k) : \E i \in smaller : g[i] = y
    BY <1>1 DEF Before, Range
  <2> HIDE DEF g, smaller
  <2>4. g \in Bijection(smaller, Before(S, key, k))
    BY <2>1, <2>2, <2>3 DEF Bijection, Injection, Surjection, IsInjective
  <2>5. ExistsBijection(smaller, Before(S, key, k))
    BY <2>4 DEF ExistsBijection
  <2> QED
    BY <1>7, <2>5, FS_Bijection
<1>9. key[order[first]] = k
  <2>1. first <= at
    BY <1>3, <1>4
  <2>2. key[order[first]] <= key[order[at]]
    <3>1. CASE first = at
      BY <1>5, <3>1
    <3>2. CASE first < at
      BY <1>4, <3>2 DEF Sorted
    <3> QED
      BY <1>3, <1>4, <1>5, <2>1, <3>1, <3>2
  <2>3. ~ key[order[first]] < k
    BY <1>4
  <2> QED
    BY <1>2, <1>4, <1>5, <2>2, <2>3
<1>10. Cardinality(Before(S, key, k)) \in Nat /\ Cardinality(Before(S, key, k)) + 1 = first /\ first \in DOMAIN order
  BY <1>4, <1>5, <1>7, <1>8
<1> QED
  BY <1>9, <1>10

--------------------------------------------------------------------------------
(* The rows that a search finds in a catalog.                                *)

Versions(cat) ==
  /\ DOMAIN cat \subseteq DOMAIN Files
  /\ \A card \in DOMAIN cat : cat[card] \in DOMAIN Files[card]

RowIn(cat, card) == Rows[card][cat[card]]

FoundIn(cat, search) ==
  UNION {{card} \X Holding(search, card) :
           card \in {c \in DOMAIN cat : Satisfies(RowIn(cat, c), Tagged, search)}}

(* What the pages list: rows, or with distinct_oracle oracle ids; what they  *)
(* are ordered by.                                                           *)
KeyOf(cat, query, card) == IF query.distinct_oracle THEN RowIn(cat, card).oracle ELSE RowIn(cat, card).name

EntriesIn(cat, query, search) ==
  IF query.distinct_oracle THEN {RowIn(cat, pair[1]).oracle : pair \in FoundIn(cat, search)}
                           ELSE FoundIn(cat, search)

EntryKey(cat, query, entry) == IF query.distinct_oracle THEN entry ELSE RowIn(cat, entry[1]).name

Ahead(cat, query, search, k) == {entry \in EntriesIn(cat, query, search) : EntryKey(cat, query, entry) < k}

MeantIn(cat, filters, cards) == {card \in cards : MeansAll(Files[card][cat[card]], card, filters)}

LEMMA RowFacts ==
  ASSUME NEW cat, Versions(cat), NEW card \in DOMAIN cat
  PROVE  /\ RowIn(cat, card) = Stored(Files[card][cat[card]])
         /\ RowIn(cat, card).name \in Int /\ RowIn(cat, card).oracle \in Int
<1> DEFINE raw == Files[card][cat[card]]
<1>1. card \in DOMAIN Files /\ cat[card] \in DOMAIN Files[card]
  BY DEF Versions
<1>2. RowIn(cat, card) = Stored(raw)
  BY <1>1 DEF RowIn, Rows
<1>3. raw.name \in Int /\ raw.oracle \in Int
  BY <1>1, WordsAssumption DEF WordsAssumption, IsRaw
<1>4. Stored(raw).name = raw.name /\ Stored(raw).oracle = raw.oracle
  BY DEF Stored
<1> QED
  BY <1>2, <1>3, <1>4

LEMMA FoundInCatalog ==
  ASSUME NEW search
  PROVE  Found(search) = FoundIn(catalog, search) /\ \A card : Row(card) = RowIn(catalog, card)
  BY DEF Found, FoundIn, Row, RowIn

LEMMA FoundInFacts ==
  ASSUME NEW cat, Versions(cat), NEW search
  PROVE  IsFiniteSet(FoundIn(cat, search)) /\ \A pair \in FoundIn(cat, search) : pair[1] \in DOMAIN cat
<1> DEFINE all == (DOMAIN cat) \X (DOMAIN Inventories \cup {"catalog"})
<1>1. FoundIn(cat, search) \subseteq all
  <2>1. ASSUME NEW card \in DOMAIN cat
        PROVE  {card} \X Holding(search, card) \subseteq all
    <3>1. Holding(search, card) \subseteq DOMAIN Inventories \cup {"catalog"}
      BY DEF Holding
    <3> QED
      BY <3>1
  <2> QED
    BY <2>1 DEF FoundIn
<1>2. IsFiniteSet(all)
  <2>1. IsFiniteSet(DOMAIN Inventories \cup {"catalog"})
    BY FS_Union, FS_Singleton, ReadersAssumption DEF ReadersAssumption
  <2>2. IsFiniteSet(DOMAIN cat)
    BY FS_Subset, ReadersAssumption DEF ReadersAssumption, Versions
  <2> QED
    BY <2>1, <2>2, FS_Product
<1>3. IsFiniteSet(FoundIn(cat, search))
  BY <1>1, <1>2, FS_Subset
<1>4. \A pair \in all : pair[1] \in DOMAIN cat
  OBVIOUS
<1> QED
  BY <1>1, <1>3, <1>4

LEMMA EntryFacts ==
  ASSUME NEW cat, Versions(cat), NEW query, NEW search
  PROVE  /\ IsFiniteSet(EntriesIn(cat, query, search))
         /\ \A entry \in EntriesIn(cat, query, search) : EntryKey(cat, query, entry) \in Int
<1>1. /\ IsFiniteSet(FoundIn(cat, search))
      /\ \A pair \in FoundIn(cat, search) : pair[1] \in DOMAIN cat
  BY FoundInFacts
<1>2. CASE query.distinct_oracle
  <2> DEFINE oracles == {RowIn(cat, pair[1]).oracle : pair \in FoundIn(cat, search)}
             f == [pair \in FoundIn(cat, search) |-> RowIn(cat, pair[1]).oracle]
  <2>1. EntriesIn(cat, query, search) = oracles
    BY <1>2 DEF EntriesIn
  <2>2. f \in Surjection(FoundIn(cat, search), oracles)
    BY DEF Surjection
  <2>3. oracles \subseteq Int
    BY <1>1, RowFacts
  <2> HIDE DEF oracles, f
  <2>4. IsFiniteSet(oracles)
    BY <1>1, <2>2, FS_Surjection
  <2> QED
    BY <1>2, <2>1, <2>3, <2>4 DEF EntryKey
<1>3. CASE ~query.distinct_oracle
  <2>1. EntriesIn(cat, query, search) = FoundIn(cat, search)
    BY <1>3 DEF EntriesIn
  <2> QED
    BY <1>1, <1>3, <2>1, RowFacts DEF EntryKey
<1> QED
  BY <1>2, <1>3

(* What is found is what the search means.                                   *)
LEMMA FoundIsMeant ==
  ASSUME PlainPatterns, NEW query \in Queries, Accepted(query.filters), NEW cat, Versions(cat)
  PROVE  {pair[1] : pair \in FoundIn(cat, Search(query.filters))} = MeantIn(cat, query.filters, DOMAIN cat)
<1> DEFINE search == Search(query.filters)
<1>1. ASSUME NEW card \in DOMAIN cat
      PROVE  Satisfies(RowIn(cat, card), Tagged, search) /\ Holding(search, card) # {}
               <=> MeansAll(Files[card][cat[card]], card, query.filters)
  <2>1. card \in DOMAIN Files /\ cat[card] \in DOMAIN Files[card]
    BY DEF Versions
  <2>2. Satisfies(Stored(Files[card][cat[card]]), Tagged, search) /\ Holding(search, card) # {}
          <=> MeansAll(Files[card][cat[card]], card, query.filters)
    BY <2>1, SearchMeans
  <2>3. RowIn(cat, card) = Stored(Files[card][cat[card]])
    BY RowFacts
  <2> QED
    BY <2>2, <2>3
<1>2. \A card : card \in {pair[1] : pair \in FoundIn(cat, search)}
        <=> card \in DOMAIN cat /\ Satisfies(RowIn(cat, card), Tagged, search) /\ Holding(search, card) # {}
  <2>1. \A pair : pair \in FoundIn(cat, search)
          <=> \E card \in DOMAIN cat : /\ Satisfies(RowIn(cat, card), Tagged, search)
                                       /\ pair \in {card} \X Holding(search, card)
    BY DEF FoundIn
  <2> HIDE DEF search
  <2>2. ASSUME NEW card, card \in {pair[1] : pair \in FoundIn(cat, search)}
        PROVE  card \in DOMAIN cat /\ Satisfies(RowIn(cat, card), Tagged, search) /\ Holding(search, card) # {}
    BY <2>1, <2>2
  <2>3. ASSUME NEW card \in DOMAIN cat, Satisfies(RowIn(cat, card), Tagged, search), Holding(search, card) # {}
        PROVE  card \in {pair[1] : pair \in FoundIn(cat, search)}
    <3>1. PICK held : held \in Holding(search, card)
      BY <2>3
    <3>2. <<card, held>> \in {card} \X Holding(search, card) /\ <<card, held>>[1] = card
      BY <3>1
    <3>3. <<card, held>> \in FoundIn(cat, search)
      BY <2>1, <2>3, <3>2
    <3> QED
      BY <3>2, <3>3
  <2> QED
    BY <2>2, <2>3
<1> HIDE DEF search
<1>3. \A card : card \in MeantIn(cat, query.filters, DOMAIN cat)
        <=> card \in DOMAIN cat /\ MeansAll(Files[card][cat[card]], card, query.filters)
  BY DEF MeantIn
<1>4. \A card : card \in {pair[1] : pair \in FoundIn(cat, search)} <=> card \in MeantIn(cat, query.filters, DOMAIN cat)
  BY <1>1, <1>2, <1>3
<1>5. {pair[1] : pair \in FoundIn(cat, search)} = MeantIn(cat, query.filters, DOMAIN cat)
  BY ONLY <1>4
<1> QED
  BY <1>5 DEF search

(* A list of each once is as long as the set is large.                       *)
LEMMA OnceEachLen ==
  ASSUME NEW S, NEW order, OnceEach(order, S)
  PROVE  Cardinality(S) = Len(order)
<1>1. order \in Seq(S) /\ Range(order) = S /\ \A i, j \in DOMAIN order : order[i] = order[j] => i = j
  BY DEF OnceEach
<1>2. Len(order) \in Nat /\ DOMAIN order = 1..Len(order) /\ order \in [1..Len(order) -> S]
  BY <1>1
<1>3. order \in Bijection(1..Len(order), S)
  BY <1>1, <1>2 DEF Bijection, Injection, Surjection, IsInjective, Range
<1>4. IsFiniteSet(1..Len(order)) /\ Cardinality(1..Len(order)) = Len(order)
  <2>1. \A n \in Nat : IsFiniteSet(1..n) /\ Cardinality(1..n) = IF 1 > n THEN 0 ELSE n - 1 + 1
    BY FS_Interval
  <2> QED
    BY <1>2, <2>1
<1>5. ExistsBijection(1..Len(order), S)
  BY <1>3 DEF ExistsBijection
<1> QED
  BY <1>4, <1>5, FS_Bijection

Key(cat, query, search) == [entry \in EntriesIn(cat, query, search) |-> EntryKey(cat, query, entry)]

IsListing(cat, query, search, order, listed) ==
  /\ OnceEach(listed, EntriesIn(cat, query, search)) /\ Sorted(listed, Key(cat, query, search))
  /\ DOMAIN listed = DOMAIN order /\ Len(listed) = Len(order)
  /\ \A i \in DOMAIN order : Key(cat, query, search)[listed[i]] = KeyOf(cat, query, order[i][1])

LEMMA ListedRows ==
  ASSUME CatalogOK, NEW query, ~query.distinct_oracle, NEW search, NEW order \in Results(query, search)
  PROVE  IsListing(catalog, query, search, order, order)
<1>1. OnceEach(order, Found(search)) /\ order \in Orders(query, Found(search))
  BY ResultFacts
<1>2. EntriesIn(catalog, query, search) = Found(search)
  BY FoundInCatalog DEF EntriesIn
<1>3. \A entry \in Found(search) : Key(catalog, query, search)[entry] = Row(entry[1]).name
  BY <1>2, FoundInCatalog DEF Key, EntryKey
<1>4. \A i \in DOMAIN order : order[i] \in Found(search)
  BY <1>1 DEF OnceEach
<1>5. \A i, j \in DOMAIN order : i < j => Row(order[i][1]).name <= Row(order[j][1]).name
  BY <1>1 DEF Orders, OrderKey
<1>6. \A i \in DOMAIN order : KeyOf(catalog, query, order[i][1]) = Row(order[i][1]).name
  BY FoundInCatalog DEF KeyOf
<1> QED
  BY <1>1, <1>2, <1>3, <1>4, <1>5, <1>6 DEF IsListing, Sorted

LEMMA ListedOracles ==
  ASSUME CatalogOK, NEW query, query.distinct_oracle, NEW search, NEW order \in Results(query, search)
  PROVE  IsListing(catalog, query, search, order, [i \in DOMAIN order |-> Row(order[i][1]).oracle])
<1> DEFINE listed == [i \in DOMAIN order |-> Row(order[i][1]).oracle]
           oracles == {Row(pair[1]).oracle : pair \in Found(search)}
<1>1. PICK kept \in SUBSET Found(search) :
           OnceEach(order, kept) /\ order \in Orders(query, kept) /\ kept \in FirstOfOracle(Found(search))
  BY ResultFacts
<1>2. EntriesIn(catalog, query, search) = oracles
  BY FoundInCatalog DEF EntriesIn
<1>3. \A entry \in oracles : Key(catalog, query, search)[entry] = entry
  BY <1>2 DEF Key, EntryKey
<1>4. order \in Seq(kept) /\ Range(order) = kept /\ \A i, j \in DOMAIN order : order[i] = order[j] => i = j
  BY <1>1 DEF OnceEach
<1>5. \A i \in DOMAIN order : order[i] \in kept
  BY <1>4
<1>6. listed \in Seq(oracles) /\ Len(listed) = Len(order) /\ DOMAIN listed = DOMAIN order
  BY <1>4, <1>5
<1>7. Range(listed) = oracles
  <2>1. ASSUME NEW pair \in Found(search) PROVE \E i \in DOMAIN order : listed[i] = Row(pair[1]).oracle
    <3>1. PICK other \in kept : Row(other[1]).oracle = Row(pair[1]).oracle
      BY <1>1 DEF FirstOfOracle
    <3>2. PICK i \in DOMAIN order : order[i] = other
      BY <1>4 DEF Range
    <3> QED
      BY <3>1, <3>2
  <2>2. \A oracle \in oracles : \E i \in DOMAIN listed : listed[i] = oracle
    BY <1>6, <2>1
  <2>3. \A i \in DOMAIN listed : listed[i] \in oracles
    BY <1>5, <1>6
  <2> HIDE DEF listed, oracles
  <2> QED
    BY <2>2, <2>3 DEF Range
<1>8. \A i, j \in DOMAIN listed : listed[i] = listed[j] => i = j
  <2> SUFFICES ASSUME NEW i \in DOMAIN order, NEW j \in DOMAIN order,
                      Row(order[i][1]).oracle = Row(order[j][1]).oracle
               PROVE  i = j
    BY <1>6
  <2>1. order[i] = order[j]
    BY <1>1, <1>5 DEF FirstOfOracle
  <2> QED
    BY <1>4, <2>1
<1>9. IsFiniteSet(oracles)
  BY <1>2, EntryFacts DEF CatalogOK, Versions
<1>10. \A i, j \in DOMAIN order : i < j => listed[i] <= listed[j]
  BY <1>1 DEF Orders, OrderKey
<1>11. \A i \in DOMAIN order : KeyOf(catalog, query, order[i][1]) = listed[i]
  BY FoundInCatalog DEF KeyOf
<1>12. \A i \in DOMAIN order : listed[i] \in oracles
  BY <1>5
<1> HIDE DEF listed, oracles
<1>13. OnceEach(listed, oracles)
  BY <1>6, <1>7, <1>8, <1>9 DEF OnceEach
<1>14. Sorted(listed, Key(catalog, query, search))
  BY <1>3, <1>6, <1>10, <1>12 DEF Sorted
<1>15. IsListing(catalog, query, search, order, listed)
  BY <1>2, <1>3, <1>6, <1>11, <1>12, <1>13, <1>14 DEF IsListing
<1> QED
  BY <1>15 DEF listed

(* The row that a page has for a key comes right after the smaller keys.     *)
LEMMA PlaceInResults ==
  ASSUME CatalogOK, NEW query, NEW search, NEW order \in Results(query, search)
  PROVE  /\ order \in Seq(Found(search)) /\ Len(order) = Cardinality(EntriesIn(catalog, query, search))
         /\ \A pair \in Found(search) :
              LET key == KeyOf(catalog, query, pair[1])
                  ahead == Cardinality(Ahead(catalog, query, search, key))
              IN ahead \in Nat /\ ahead + 1 \in DOMAIN order /\ KeyOf(catalog, query, order[ahead + 1][1]) = key
<1> DEFINE entries == EntriesIn(catalog, query, search)
           keys == Key(catalog, query, search)
<1>1. order \in Seq(Found(search))
  BY ResultFacts DEF OnceEach
<1>2. PICK listed : IsListing(catalog, query, search, order, listed)
  <2>1. CASE query.distinct_oracle
    BY <2>1, ListedOracles
  <2>2. CASE ~query.distinct_oracle
    BY <2>2, ListedRows
  <2> QED
    BY <2>1, <2>2
<1>3. /\ OnceEach(listed, entries) /\ Sorted(listed, keys) /\ DOMAIN listed = DOMAIN order /\ Len(listed) = Len(order)
      /\ \A i \in DOMAIN order : keys[listed[i]] = KeyOf(catalog, query, order[i][1])
  BY <1>2 DEF IsListing
<1>4. Len(order) = Cardinality(entries)
  <2> HIDE DEF entries
  <2> QED
    BY <1>3, OnceEachLen
<1>5. keys \in [entries -> Int]
  BY EntryFacts DEF Key, CatalogOK, Versions
<1>6. ASSUME NEW pair \in Found(search)
      PROVE  LET key == KeyOf(catalog, query, pair[1])
                 ahead == Cardinality(Ahead(catalog, query, search, key))
             IN ahead \in Nat /\ ahead + 1 \in DOMAIN order /\ KeyOf(catalog, query, order[ahead + 1][1]) = key
  <2> DEFINE key == KeyOf(catalog, query, pair[1])
  <2>1. PICK entry \in entries : keys[entry] = key
    <3>1. CASE query.distinct_oracle
      <4>1. RowIn(catalog, pair[1]).oracle \in entries
        BY <3>1, FoundInCatalog DEF EntriesIn
      <4> QED
        BY <3>1, <4>1 DEF Key, EntryKey, KeyOf
    <3>2. CASE ~query.distinct_oracle
      <4>1. pair \in entries
        BY <3>2, FoundInCatalog DEF EntriesIn
      <4> QED
        BY <3>2, <4>1 DEF Key, EntryKey, KeyOf
    <3> QED
      BY <3>1, <3>2
  <2>2. Ahead(catalog, query, search, key) = Before(entries, keys, key)
    BY DEF Ahead, Before, Key
  <2> HIDE DEF key, entries, keys
  <2>3. LET place == Cardinality(Before(entries, keys, keys[entry])) + 1
        IN /\ Cardinality(Before(entries, keys, keys[entry])) \in Nat
           /\ place \in DOMAIN listed /\ keys[listed[place]] = keys[entry]
    BY <1>3, <1>5, SortedPlace
  <2>4. LET ahead == Cardinality(Ahead(catalog, query, search, key))
        IN ahead \in Nat /\ ahead + 1 \in DOMAIN order /\ KeyOf(catalog, query, order[ahead + 1][1]) = key
    BY <1>3, <2>1, <2>2, <2>3
  <2> QED
    BY <2>4 DEF key
<1> QED
  BY <1>1, <1>4, <1>6

--------------------------------------------------------------------------------
(* A walk returns what the search means.                                     *)

Since ==
  Walking =>
    /\ Accepted(walk.query.filters)
    /\ DOMAIN walk.since \subseteq DOMAIN catalog
    /\ \A card \in DOMAIN walk.since : walk.since[card] \in Nat /\ walk.since[card] <= catalog[card]

Start == (walk.page - 1) * PageSize(walk.query)

(* A card that was in the catalog all the time has been returned, or another *)
(* with its key has, or the pages to come have it.                           *)
Reached ==
  Walking /\ OnlyAdded =>
    \A card \in MeantIn(catalog, walk.query.filters, DOMAIN walk.since) :
      \/ \E other \in Range(walk.seen) :
           /\ other \in MeantIn(catalog, walk.query.filters, DOMAIN catalog)
           /\ KeyOf(catalog, walk.query, other) = KeyOf(catalog, walk.query, card)
      \/ /\ walk.stage # "end"
         /\ Start <= Cardinality(Ahead(catalog, walk.query, walk.search, KeyOf(catalog, walk.query, card)))

Counted ==
  Walking /\ catalog = walk.since =>
    LET total == Cardinality(EntriesIn(catalog, walk.query, walk.search))
    IN /\ Range(walk.seen) \subseteq MeantIn(catalog, walk.query.filters, DOMAIN catalog)
       /\ walk.stage # "count" => walk.total = total
       /\ IF walk.stage = "end" THEN Len(walk.seen) = total ELSE Len(walk.seen) = Start /\ Start <= total

Told == Since /\ Reached /\ Counted

(* A file that is committed during the walk and changes no card adds one.    *)
LEMMA ImportAdds ==
  ASSUME CatalogOK, Since, Walking, NEW card \in DOMAIN Files, Import(card)
  PROVE  /\ OnlyAdded' => OnlyAdded /\ card \notin DOMAIN catalog
         /\ catalog' # walk.since
<1>1. /\ DOMAIN catalog' = DOMAIN catalog \cup {card} /\ walk' = walk
      /\ \A other \in DOMAIN catalog \ {card} : catalog'[other] = catalog[other]
      /\ card \in DOMAIN catalog => catalog'[card] = catalog[card] + 1
  BY ImportFacts DEF Import
<1>2. /\ DOMAIN walk.since \subseteq DOMAIN catalog
      /\ \A c \in DOMAIN walk.since : walk.since[c] \in Nat /\ walk.since[c] <= catalog[c]
  BY DEF Since
<1>3. \A c \in DOMAIN catalog : catalog[c] \in Nat \ {0}
  BY ReadersAssumption DEF ReadersAssumption, CatalogOK
<1>4. ASSUME OnlyAdded' PROVE OnlyAdded /\ card \notin DOMAIN catalog
  <2>1. \A c \in DOMAIN catalog' : catalog'[c] = IF c \in DOMAIN walk.since THEN walk.since[c] ELSE 1
    BY <1>1, <1>4 DEF OnlyAdded
  <2>2. card \notin DOMAIN catalog
    BY <1>1, <1>2, <1>3, <2>1
  <2> QED
    BY <1>1, <2>1, <2>2 DEF OnlyAdded
<1>5. catalog' # walk.since
  BY <1>1, <1>2, <1>3
<1> QED
  BY <1>4, <1>5

LEMMA AheadGrows ==
  ASSUME NEW cat, Versions(cat), NEW later, Versions(later), NEW query, NEW search, NEW k,
         DOMAIN cat \subseteq DOMAIN later, \A card \in DOMAIN cat : later[card] = cat[card]
  PROVE  /\ Cardinality(Ahead(cat, query, search, k)) \in Nat /\ Cardinality(Ahead(later, query, search, k)) \in Nat
         /\ Cardinality(Ahead(cat, query, search, k)) <= Cardinality(Ahead(later, query, search, k))
<1>1. \A card \in DOMAIN cat : RowIn(later, card) = RowIn(cat, card)
  BY DEF RowIn
<1>2. FoundIn(cat, search) \subseteq FoundIn(later, search)
  BY <1>1 DEF FoundIn
<1>3. \A pair \in FoundIn(cat, search) : RowIn(later, pair[1]) = RowIn(cat, pair[1])
  BY <1>1, FoundInFacts
<1>4. /\ EntriesIn(cat, query, search) \subseteq EntriesIn(later, query, search)
      /\ \A entry \in EntriesIn(cat, query, search) : EntryKey(later, query, entry) = EntryKey(cat, query, entry)
  <2>1. CASE query.distinct_oracle
    BY <1>2, <1>3, <2>1 DEF EntriesIn, EntryKey
  <2>2. CASE ~query.distinct_oracle
    BY <1>2, <1>3, <2>2 DEF EntriesIn, EntryKey
  <2> QED
    BY <2>1, <2>2
<1>5. Ahead(cat, query, search, k) \subseteq Ahead(later, query, search, k)
  BY <1>4 DEF Ahead
<1>6. /\ IsFiniteSet(Ahead(cat, query, search, k)) /\ IsFiniteSet(Ahead(later, query, search, k))
  <2>1. IsFiniteSet(EntriesIn(cat, query, search)) /\ IsFiniteSet(EntriesIn(later, query, search))
    BY EntryFacts
  <2>2. /\ Ahead(cat, query, search, k) \subseteq EntriesIn(cat, query, search)
        /\ Ahead(later, query, search, k) \subseteq EntriesIn(later, query, search)
    BY DEF Ahead
  <2> QED
    BY <2>1, <2>2, FS_Subset
<1> QED
  BY <1>5, <1>6, FS_Subset, FS_CardinalityType

LEMMA InitTold == Init => Told
  BY DEF Init, Told, Since, Reached, Counted, Walking, NoWalk

LEMMA ImportTold ==
  ASSUME TypeInv, Told, NEW card \in DOMAIN Files, Import(card)
  PROVE  Told'
<1>1. /\ CatalogOK' /\ DOMAIN catalog' = DOMAIN catalog \cup {card} /\ walk' = walk
      /\ \A other \in DOMAIN catalog \ {card} : catalog'[other] = catalog[other]
      /\ card \in DOMAIN catalog => catalog'[card] = catalog[card] + 1
  BY ImportFacts DEF Import, TypeInv
<1>2. Walking' <=> Walking
  BY <1>1 DEF Walking
<1>3. \A c \in DOMAIN catalog : catalog[c] \in Nat
  BY ReadersAssumption DEF ReadersAssumption, CatalogOK, TypeInv
<1>4. Since'
  BY <1>1, <1>2, <1>3 DEF Told, Since
<1>5. Counted'
  BY <1>1, <1>2, ImportAdds DEF Told, TypeInv, Counted
<1>6. ASSUME Walking, OnlyAdded' PROVE Reached'
  <2>1. OnlyAdded /\ card \notin DOMAIN catalog
    BY <1>6, ImportAdds DEF Told, TypeInv
  <2>2. DOMAIN catalog \subseteq DOMAIN catalog' /\ \A c \in DOMAIN catalog : catalog'[c] = catalog[c]
    BY <1>1, <2>1
  <2>3. Versions(catalog) /\ Versions(catalog')
    BY <1>1 DEF TypeInv, CatalogOK, Versions
  <2>4. DOMAIN walk.since \subseteq DOMAIN catalog
    BY <1>6 DEF Told, Since
  <2>5. \A c \in DOMAIN catalog : KeyOf(catalog', walk.query, c) = KeyOf(catalog, walk.query, c)
    BY <2>2 DEF KeyOf, RowIn
  <2>6. /\ MeantIn(catalog', walk.query.filters, DOMAIN walk.since)
             = MeantIn(catalog, walk.query.filters, DOMAIN walk.since)
        /\ MeantIn(catalog, walk.query.filters, DOMAIN catalog)
             \subseteq MeantIn(catalog', walk.query.filters, DOMAIN catalog')
        /\ MeantIn(catalog, walk.query.filters, DOMAIN walk.since) \subseteq DOMAIN catalog
        /\ MeantIn(catalog, walk.query.filters, DOMAIN catalog) \subseteq DOMAIN catalog
    BY <2>2, <2>4 DEF MeantIn
  <2>7. Start \in Int
    BY <1>6, PageSizes DEF TypeInv, WalkOK, Start
  <2>8. ASSUME NEW k
        PROVE  LET before == Cardinality(Ahead(catalog, walk.query, walk.search, k))
                   after == Cardinality(Ahead(catalog', walk.query, walk.search, k))
               IN Start <= before => Start <= after
    <3>1. LET before == Cardinality(Ahead(catalog, walk.query, walk.search, k))
              after == Cardinality(Ahead(catalog', walk.query, walk.search, k))
          IN before \in Nat /\ after \in Nat /\ before <= after
      BY <2>2, <2>3, AheadGrows
    <3> QED
      BY <2>7, <3>1
  <2>9. \A c \in MeantIn(catalog, walk.query.filters, DOMAIN walk.since) :
          \/ \E other \in Range(walk.seen) :
               /\ other \in MeantIn(catalog, walk.query.filters, DOMAIN catalog)
               /\ KeyOf(catalog, walk.query, other) = KeyOf(catalog, walk.query, c)
          \/ /\ walk.stage # "end"
             /\ Start <= Cardinality(Ahead(catalog, walk.query, walk.search, KeyOf(catalog, walk.query, c)))
    BY <1>6, <2>1 DEF Told, Reached
  <2>10. Start' = Start
    BY <1>1 DEF Start
  <2>11. \A c \in MeantIn(catalog', walk.query.filters, DOMAIN walk.since) :
          \/ \E other \in Range(walk.seen) :
               /\ other \in MeantIn(catalog', walk.query.filters, DOMAIN catalog')
               /\ KeyOf(catalog', walk.query, other) = KeyOf(catalog', walk.query, c)
          \/ /\ walk.stage # "end"
             /\ Start <= Cardinality(Ahead(catalog', walk.query, walk.search, KeyOf(catalog', walk.query, c)))
    BY <2>5, <2>6, <2>8, <2>9
  <2> QED
    BY <1>1, <2>10, <2>11 DEF Reached
<1>7. Reached'
  BY <1>2, <1>6 DEF Reached
<1> QED
  BY <1>4, <1>5, <1>7 DEF Told

LEMMA AskTold ==
  ASSUME TypeInv, NEW query \in Queries, Ask(query)
  PROVE  Told'
<1>1. CASE ~Accepted(query.filters)
  <2>1. ~Walking'
    BY <1>1 DEF Ask, Walking
  <2> QED
    BY <2>1 DEF Told, Since, Reached, Counted
<1>2. CASE Accepted(query.filters)
  <2>1. /\ walk'.query = query /\ walk'.search = Search(query.filters) /\ walk'.page = 1 /\ walk'.stage = "count"
        /\ walk'.seen = <<>> /\ walk'.since = catalog /\ catalog' = catalog
    BY <1>2 DEF Ask
  <2>2. \A card \in DOMAIN catalog : catalog[card] \in Nat
    BY ReadersAssumption DEF ReadersAssumption, CatalogOK, TypeInv
  <2>3. Since'
    BY <1>2, <2>1, <2>2 DEF Since
  <2>4. PageSize(query) \in Nat \ {0}
    BY PageSizes
  <2>5. Start' = 0
    BY <2>1, <2>4 DEF Start
  <2>6. \A k : Cardinality(Ahead(catalog, query, Search(query.filters), k)) \in Nat
    BY AheadGrows DEF TypeInv, CatalogOK, Versions
  <2>7. Reached'
    BY <2>1, <2>5, <2>6 DEF Reached
  <2>8. Cardinality(EntriesIn(catalog, query, Search(query.filters))) \in Nat
    BY EntryFacts, FS_CardinalityType DEF TypeInv, CatalogOK, Versions
  <2>9. Range(walk'.seen) = {} /\ Len(walk'.seen) = 0
    BY <2>1 DEF Range
  <2>10. Counted'
    BY <2>1, <2>5, <2>8, <2>9 DEF Counted
  <2> QED
    BY <2>3, <2>7, <2>10 DEF Told
<1> QED
  BY <1>1, <1>2

LEMMA TotalIsCounted ==
  ASSUME NEW query, NEW search
  PROVE  Total(query, search) = Cardinality(EntriesIn(catalog, query, search))
<1>1. Found(search) = FoundIn(catalog, search)
  BY FoundInCatalog
<1>2. {Row(pair[1]).oracle : pair \in Found(search)}
        = {RowIn(catalog, pair[1]).oracle : pair \in FoundIn(catalog, search)}
  BY <1>1, FoundInCatalog
<1> QED
  BY <1>1, <1>2 DEF Total, EntriesIn

LEMMA CountTold ==
  ASSUME TypeInv, Told, CountRows
  PROVE  Told'
<1>1. /\ walk'.query = walk.query /\ walk'.search = walk.search /\ walk'.page = walk.page /\ walk'.stage = "read"
      /\ walk'.seen = walk.seen /\ walk'.since = walk.since /\ catalog' = catalog
      /\ walk'.total = Total(walk.query, walk.search) /\ walk.stage = "count"
  BY DEF CountRows, Walks
<1>2. Walking /\ Walking' /\ Start' = Start
  BY <1>1 DEF Walking, Start
<1>3. OnlyAdded' <=> OnlyAdded
  BY <1>1 DEF OnlyAdded
<1>4. Since'
  BY <1>1, <1>2 DEF Told, Since
<1>5. Reached'
  BY <1>1, <1>2, <1>3 DEF Told, Reached
<1>6. Counted'
  BY <1>1, <1>2, TotalIsCounted DEF Told, Counted
<1> QED
  BY <1>4, <1>5, <1>6 DEF Told

LEMMA PageEnd ==
  ASSUME NEW len \in Nat, NEW start \in Nat, NEW size \in Nat \ {0}, NEW full \in Nat, start <= len, full <= size,
         full # 0 => start + full \in 1..len, full < size => len < start + size,
         start < len /\ len <= start + size => len - start \in 1..full
  PROVE  IF full < size THEN start + full = len ELSE full = size /\ start + size <= len
<1>1. CASE full < size
  <2>1. CASE len = start
    BY <1>1, <2>1
  <2>2. CASE len # start
    BY <1>1, <2>2
  <2> QED
    BY <2>1, <2>2
<1>2. CASE full = size
  BY <1>2
<1> QED
  BY <1>1, <1>2

(* Where a page ends, the next one begins.                                   *)
LEMMA PageFollows ==
  ASSUME NEW S, NEW order \in Seq(S), NEW size \in Nat \ {0}, NEW n \in Nat \ {0},
         NEW start, start = (n - 1) * size, NEW page, page = Part(order, size, n)
  PROVE  /\ start \in Nat /\ n * size = start + size /\ page \in Seq(S) /\ Len(page) \in Nat
         /\ \A i \in DOMAIN order : start < i /\ i <= start + size => \E k \in DOMAIN page : page[k] = order[i]
         /\ Len(page) < size => Len(order) < start + size
         /\ start <= Len(order) =>
              IF Len(page) < size THEN start + Len(page) = Len(order)
                                  ELSE Len(page) = size /\ start + size <= Len(order)
<1>1. start \in Nat /\ n * size = start + size
  OBVIOUS
<1>2. /\ Part(order, size, n) \in Seq(S) /\ Len(Part(order, size, n)) \in 0..size
      /\ Len(Part(order, size, n)) < size => Len(order) < n * size
      /\ \A k \in DOMAIN Part(order, size, n) :
           (n - 1) * size + k \in DOMAIN order /\ Part(order, size, n)[k] = order[(n - 1) * size + k]
      /\ \A i \in DOMAIN order :
           (n - 1) * size < i /\ i <= n * size =>
             i - (n - 1) * size \in DOMAIN Part(order, size, n) /\ Part(order, size, n)[i - (n - 1) * size] = order[i]
  BY ONLY PageFacts, order \in Seq(S), size \in Nat \ {0}, n \in Nat \ {0}
<1>3. /\ page \in Seq(S) /\ Len(page) \in 0..size
      /\ Len(page) < size => Len(order) < start + size
      /\ \A k \in DOMAIN page : start + k \in DOMAIN order
      /\ \A i \in DOMAIN order :
           start < i /\ i <= start + size => i - start \in DOMAIN page /\ page[i - start] = order[i]
  BY ONLY <1>1, <1>2, start = (n - 1) * size, page = Part(order, size, n)
<1>4. /\ Len(order) \in Nat /\ DOMAIN order = 1..Len(order)
      /\ DOMAIN page = 1..Len(page) /\ Len(page) \in Nat /\ start \in Nat
  BY <1>1, <1>3
<1>5. ASSUME start <= Len(order)
      PROVE  IF Len(page) < size THEN start + Len(page) = Len(order)
                                 ELSE Len(page) = size /\ start + size <= Len(order)
  <2>1. Len(page) # 0 => start + Len(page) \in 1..Len(order)
    <3>1. Len(page) # 0 => Len(page) \in DOMAIN page
      BY <1>4
    <3> QED
      BY <1>3, <1>4, <3>1
  <2>2. start < Len(order) /\ Len(order) <= start + size => Len(order) - start \in 1..Len(page)
    <3>1. start < Len(order) => Len(order) \in DOMAIN order
      BY <1>4
    <3> QED
      BY <1>3, <1>4, <3>1
  <2>3. Len(page) <= size /\ (Len(page) < size => Len(order) < start + size)
    BY <1>3
  <2>4. Len(order) \in Nat /\ Len(page) \in Nat /\ start \in Nat
    BY <1>4
  <2> QED
    BY ONLY <1>5, <2>1, <2>2, <2>3, <2>4, PageEnd, size \in Nat \ {0}
<1> QED
  BY <1>1, <1>3, <1>4, <1>5

(* A page of the results: what it has, where the next one begins.            *)
LEMMA PageOfResults ==
  ASSUME TypeInv, walk.stage = "read", NEW order \in Results(walk.query, walk.search),
         NEW size, size = PageSize(walk.query), NEW page, page = Part(order, size, walk.page)
  PROVE  /\ Start \in Nat /\ walk.page * size = Start + size /\ Len(page) \in Nat
         /\ order \in Seq(Found(walk.search)) /\ page \in Seq(Found(walk.search)) /\ size \in Nat \ {0}
         /\ \A i \in DOMAIN order : Start < i /\ i <= Start + size => \E k \in DOMAIN page : page[k] = order[i]
         /\ Len(page) < size => Len(order) < Start + size
         /\ Start <= Len(order) =>
              IF Len(page) < size THEN Start + Len(page) = Len(order)
                                  ELSE Len(page) = size /\ Start + size <= Len(order)
<1>1. walk.query \in Queries /\ walk.page \in Nat \ {0}
  BY DEF TypeInv, WalkOK, Walking
<1>2. size \in Nat \ {0}
  BY <1>1, PageSizes
<1>3. order \in Seq(Found(walk.search))
  BY PlaceInResults DEF TypeInv
<1>4. Start = (walk.page - 1) * size
  BY DEF Start
<1> QED
  BY ONLY <1>1, <1>2, <1>3, <1>4, PageFollows, page = Part(order, size, walk.page)

LEMMA ConcatFacts ==
  ASSUME NEW S, NEW s \in Seq(S), NEW t \in Seq(S)
  PROVE  Len(s \o t) = Len(s) + Len(t) /\ Range(s \o t) = Range(s) \cup Range(t)
<1> DEFINE u == s \o t
<1>1. /\ Len(s) \in Nat /\ Len(t) \in Nat /\ DOMAIN s = 1..Len(s) /\ DOMAIN t = 1..Len(t)
      /\ u \in Seq(S) /\ Len(u) = Len(s) + Len(t)
      /\ \A i \in 1..(Len(s) + Len(t)) : u[i] = IF i <= Len(s) THEN s[i] ELSE t[i - Len(s)]
  BY ConcatProperties
<1> HIDE DEF u
<1>2. DOMAIN u = 1..(Len(s) + Len(t))
  BY <1>1
<1>3. ASSUME NEW i \in DOMAIN s PROVE i \in DOMAIN u /\ u[i] = s[i]
  BY <1>1, <1>2
<1>4. ASSUME NEW k \in DOMAIN t PROVE Len(s) + k \in DOMAIN u /\ u[Len(s) + k] = t[k]
  BY <1>1, <1>2
<1>5. ASSUME NEW i \in DOMAIN u
      PROVE  (i \in DOMAIN s /\ u[i] = s[i]) \/ (i - Len(s) \in DOMAIN t /\ u[i] = t[i - Len(s)])
  BY <1>1, <1>2
<1>6. Range(u) \subseteq Range(s) \cup Range(t)
  BY ONLY <1>5 DEF Range
<1>7. Range(s) \subseteq Range(u) /\ Range(t) \subseteq Range(u)
  BY ONLY <1>3, <1>4 DEF Range
<1> QED
  BY <1>1, <1>6, <1>7 DEF u

LEMMA ReadTold ==
  ASSUME PlainPatterns, TypeInv, Told, ReadPage
  PROVE  Told'
<1> DEFINE size == PageSize(walk.query)
           Page(order) == Part(order, size, walk.page)
           Cards(order) == [i \in DOMAIN Page(order) |-> Page(order)[i][1]]
<1>1. PICK order \in Results(walk.query, walk.search) :
        Walks(IF Len(Page(order)) < size THEN "end" ELSE "count",
              walk.page + 1, walk.total, walk.seen \o Cards(order))
  BY DEF ReadPage
<1> DEFINE page == Page(order)
           seen == walk.seen \o Cards(order)
           meant == MeantIn(catalog, walk.query.filters, DOMAIN catalog)
<1>2. /\ walk.stage = "read" /\ catalog' = catalog
      /\ walk'.query = walk.query /\ walk'.search = walk.search /\ walk'.page = walk.page + 1
      /\ walk'.stage = (IF Len(page) < size THEN "end" ELSE "count") /\ walk'.total = walk.total
      /\ walk'.seen = seen /\ walk'.since = walk.since
  BY <1>1 DEF ReadPage, Walks
<1>3. Walking /\ Walking'
  BY <1>2 DEF Walking
<1>4. /\ walk.query \in Queries /\ walk.search = Search(walk.query.filters) /\ walk.page \in Nat \ {0}
      /\ walk.seen \in Seq(DOMAIN catalog)
  BY <1>3 DEF TypeInv, WalkOK
<1>5. /\ Start \in Nat /\ walk.page * size = Start + size /\ Len(page) \in Nat
      /\ order \in Seq(Found(walk.search)) /\ page \in Seq(Found(walk.search)) /\ size \in Nat \ {0}
      /\ \A i \in DOMAIN order : Start < i /\ i <= Start + size => \E k \in DOMAIN page : page[k] = order[i]
      /\ Len(page) < size => Len(order) < Start + size
      /\ Start <= Len(order) =>
           IF Len(page) < size THEN Start + Len(page) = Len(order)
                               ELSE Len(page) = size /\ Start + size <= Len(order)
  BY <1>2, PageOfResults
<1>6. {pair[1] : pair \in Found(walk.search)} = meant
  <2>1. Versions(catalog) /\ Accepted(walk.query.filters)
    BY <1>3 DEF TypeInv, CatalogOK, Versions, Told, Since
  <2> QED
    BY <1>4, <2>1, FoundInCatalog, FoundIsMeant
<1> HIDE DEF size, meant
<1>7. /\ Len(seen) = Len(walk.seen) + Len(page)
      /\ \A card \in Range(walk.seen) : card \in Range(seen)
      /\ \A k \in DOMAIN page : page[k][1] \in Range(seen) /\ page[k][1] \in meant
      /\ \A card \in Range(seen) : card \in Range(walk.seen) \/ card \in meant
  <2> DEFINE cards == Cards(order)
  <2>1. DOMAIN page = 1..Len(page) /\ Len(page) \in Nat
    BY <1>5
  <2>2. \A k \in DOMAIN page : page[k][1] \in meant
    BY <1>5, <1>6
  <2>3. cards = [k \in DOMAIN page |-> page[k][1]]
    OBVIOUS
  <2> HIDE DEF page, cards
  <2>4. cards \in Seq(meant) /\ Len(cards) = Len(page) /\ DOMAIN cards = DOMAIN page
    BY <2>1, <2>2, <2>3
  <2>5. walk.seen \in Seq(DOMAIN catalog \cup meant) /\ cards \in Seq(DOMAIN catalog \cup meant)
    BY <1>4, <2>4
  <2>6. seen = walk.seen \o cards
    BY DEF cards
  <2> HIDE DEF seen
  <2>7. Len(seen) = Len(walk.seen) + Len(cards) /\ Range(seen) = Range(walk.seen) \cup Range(cards)
    BY ONLY <2>5, <2>6, ConcatFacts
  <2>8. \A k \in DOMAIN page : page[k][1] \in Range(cards)
    BY <2>3, <2>4 DEF Range
  <2>9. Range(cards) \subseteq meant
    BY <2>4 DEF Range
  <2> QED
    BY <2>2, <2>4, <2>7, <2>8, <2>9
<1>8. Start' = Start + size
  BY <1>2, <1>4, <1>5 DEF Start, size
<1>9. OnlyAdded' <=> OnlyAdded
  BY <1>2 DEF OnlyAdded
<1>10. Since'
  BY <1>2, <1>3 DEF Told, Since
<1>11. /\ Len(order) = Cardinality(EntriesIn(catalog, walk.query, walk.search))
       /\ \A pair \in Found(walk.search) :
            LET key == KeyOf(catalog, walk.query, pair[1])
                ahead == Cardinality(Ahead(catalog, walk.query, walk.search, key))
            IN ahead \in Nat /\ ahead + 1 \in DOMAIN order /\ KeyOf(catalog, walk.query, order[ahead + 1][1]) = key
  BY PlaceInResults DEF TypeInv
<1> HIDE DEF page, seen
<1>12. ASSUME OnlyAdded, NEW card \in MeantIn(catalog, walk.query.filters, DOMAIN walk.since)
       PROVE  LET key == KeyOf(catalog, walk.query, card)
              IN \/ \E other \in Range(seen) : other \in meant /\ KeyOf(catalog, walk.query, other) = key
                 \/ /\ walk'.stage # "end"
                    /\ Start + size <= Cardinality(Ahead(catalog, walk.query, walk.search, key))
  <2> DEFINE key == KeyOf(catalog, walk.query, card)
             ahead == Cardinality(Ahead(catalog, walk.query, walk.search, key))
  <2>1. \/ \E other \in Range(walk.seen) : other \in meant /\ KeyOf(catalog, walk.query, other) = key
        \/ Start <= ahead
    BY <1>3, <1>12 DEF Told, Reached, meant
  <2>2. card \in meant
    BY <1>3, <1>12 DEF Told, Since, MeantIn, meant
  <2>3. PICK pair \in Found(walk.search) : pair[1] = card
    BY <1>6, <2>2
  <2>4. ahead \in Nat /\ ahead + 1 \in DOMAIN order /\ KeyOf(catalog, walk.query, order[ahead + 1][1]) = key
    BY <1>11, <2>3
  <2> HIDE DEF key, ahead
  <2>5. ASSUME Start <= ahead, ahead + 1 <= Start + size
        PROVE  \E other \in Range(seen) : other \in meant /\ KeyOf(catalog, walk.query, other) = key
    <3>1. PICK k \in DOMAIN page : page[k] = order[ahead + 1]
      BY <1>5, <2>4, <2>5
    <3> QED
      BY <1>7, <2>4, <3>1
  <2>6. ASSUME Start <= ahead, ~(ahead + 1 <= Start + size)
        PROVE  walk'.stage # "end" /\ Start + size <= ahead
    <3>1. ahead + 1 <= Len(order) /\ Len(order) \in Nat
      BY <1>5, <2>4
    <3>2. ~(Len(page) < size)
      BY <1>5, <2>4, <2>6, <3>1
    <3> QED
      BY <1>2, <1>5, <2>4, <2>6, <3>2
  <2>7. \/ \E other \in Range(seen) : other \in meant /\ KeyOf(catalog, walk.query, other) = key
        \/ walk'.stage # "end" /\ Start + size <= ahead
    BY <1>7, <2>1, <2>5, <2>6
  <2> QED
    BY <2>7 DEF key, ahead
<1>13. Reached'
  BY <1>2, <1>8, <1>9, <1>12 DEF Reached, meant
<1>14. ASSUME catalog = walk.since PROVE Counted'
  <2> DEFINE total == Cardinality(EntriesIn(catalog, walk.query, walk.search))
  <2>1. Range(walk.seen) \subseteq meant /\ walk.total = total /\ Len(walk.seen) = Start /\ Start <= total
    BY <1>2, <1>3, <1>14 DEF Told, Counted, meant
  <2>2. Range(seen) \subseteq meant
    BY <1>7, <2>1
  <2>3. IF Len(page) < size THEN Len(seen) = total ELSE Len(seen) = Start + size /\ Start + size <= total
    <3>1. Start <= Len(order) /\ Len(order) = total
      BY <1>11, <2>1
    <3> HIDE DEF total
    <3> QED
      BY <1>5, <1>7, <2>1, <3>1
  <2> QED
    BY <1>2, <1>8, <2>1, <2>2, <2>3 DEF Counted, meant
<1>15. Counted'
  BY <1>2, <1>14 DEF Counted
<1> QED
  BY <1>10, <1>13, <1>15 DEF Told

LEMMA NextTold ==
  ASSUME PlainPatterns, TypeInv, Told, [Next]_vars
  PROVE  Told'
<1>1. ASSUME NEW card \in DOMAIN Files, Import(card) PROVE Told'
  BY <1>1, ImportTold
<1>2. ASSUME NEW query \in Queries, Ask(query) PROVE Told'
  BY <1>2, AskTold
<1>3. CASE CountRows
  BY <1>3, CountTold
<1>4. CASE ReadPage
  BY <1>4, ReadTold
<1>5. CASE UNCHANGED <<catalog, walk>>
  BY <1>5 DEF Told, Since, Reached, Counted, Walking, OnlyAdded, Start
<1> QED
  BY <1>1, <1>2, <1>3, <1>4, <1>5 DEF Next, vars, Kickoff, Reenqueue, Process

LEMMA AlwaysTold == ASSUME PlainPatterns PROVE Spec => []Told
<1>1. Init => Told
  BY InitTold
<1>2. TypeInv /\ Told /\ [Next]_vars => Told'
  BY NextTold
<1> QED
  BY <1>1, <1>2, AlwaysTyped, PTL DEF Spec

LEMMA ToldMissesNothing ==
  ASSUME Told
  PROVE  NothingMissed
<1> SUFFICES ASSUME walk.stage = "end", OnlyAdded PROVE NothingMissed
  BY DEF NothingMissed
<1> DEFINE meant == MeantCards(DOMAIN walk.since)
<1>1. \A cards : MeantCards(cards) = MeantIn(catalog, walk.query.filters, cards)
  BY DEF MeantCards, Means, MeantIn
<1>2. DOMAIN walk.since \subseteq DOMAIN catalog
  BY DEF Told, Since, Walking
<1>3. ASSUME NEW card \in meant
      PROVE  \E other \in Range(walk.seen) : /\ other \in MeantCards(DOMAIN catalog)
                                             /\ KeyOf(catalog, walk.query, other) = KeyOf(catalog, walk.query, card)
  BY <1>1, <1>3 DEF Told, Reached, Walking
<1>4. ASSUME walk.query.distinct_oracle PROVE OraclesOf(meant) \subseteq OraclesOf(Range(walk.seen))
  <2>1. \A card \in meant : \E other \in Range(walk.seen) : Row(other).oracle = Row(card).oracle
    BY <1>3, <1>4, FoundInCatalog DEF KeyOf
  <2> HIDE DEF meant
  <2> QED
    BY <2>1 DEF OraclesOf
<1>5. ASSUME ~walk.query.distinct_oracle, NEW card \in Steady(meant) PROVE card \in Range(walk.seen)
  <2>1. card \in meant /\ \A other \in MeantCards(DOMAIN catalog) \ {card} : Row(other).name # Row(card).name
    BY <1>5 DEF Steady
  <2>2. PICK other \in Range(walk.seen) : other \in MeantCards(DOMAIN catalog) /\ Row(other).name = Row(card).name
    BY <1>3, <1>5, <2>1, FoundInCatalog DEF KeyOf
  <2> QED
    BY <2>1, <2>2
<1> QED
  BY <1>4, <1>5 DEF NothingMissed

LEMMA ToldIsMeant ==
  ASSUME PlainPatterns, TypeInv, Told
  PROVE  SearchIsMeant
<1> SUFFICES ASSUME walk.stage = "end", catalog = walk.since PROVE SearchIsMeant
  BY DEF SearchIsMeant
<1> DEFINE meant == MeantCards(DOMAIN catalog)
           entries == EntriesIn(catalog, walk.query, walk.search)
<1>1. meant = MeantIn(catalog, walk.query.filters, DOMAIN catalog)
  BY DEF MeantCards, Means, MeantIn
<1>2. Range(walk.seen) \subseteq meant /\ walk.total = Cardinality(entries) /\ Len(walk.seen) = Cardinality(entries)
  BY <1>1 DEF Told, Counted, Walking
<1>3. OnlyAdded
  BY DEF OnlyAdded
<1>4. IF walk.query.distinct_oracle THEN OraclesOf(meant) \subseteq OraclesOf(Range(walk.seen))
                                     ELSE Steady(meant) \subseteq Range(walk.seen)
  BY <1>3, ToldMissesNothing DEF NothingMissed
<1>5. ASSUME walk.query.distinct_oracle PROVE entries = OraclesOf(meant)
  <2>1. /\ walk.query \in Queries /\ walk.search = Search(walk.query.filters)
        /\ Accepted(walk.query.filters) /\ Versions(catalog)
    BY DEF TypeInv, WalkOK, CatalogOK, Versions, Told, Since, Walking
  <2>2. {pair[1] : pair \in FoundIn(catalog, walk.search)} = meant
    BY <1>1, <2>1, FoundIsMeant
  <2>3. entries = {RowIn(catalog, pair[1]).oracle : pair \in FoundIn(catalog, walk.search)}
    BY <1>5 DEF EntriesIn
  <2> HIDE DEF entries, meant
  <2>4. OraclesOf(meant) = {RowIn(catalog, card).oracle : card \in meant}
    BY FoundInCatalog DEF OraclesOf
  <2> QED
    BY <2>2, <2>3, <2>4
<1> HIDE DEF meant, entries
<1>6. OraclesOf(Range(walk.seen)) \subseteq OraclesOf(meant)
  BY <1>2 DEF OraclesOf
<1> QED
  BY <1>2, <1>4, <1>5, <1>6 DEF SearchIsMeant, meant

(* The pages of a walk, each read by an offset into what is found by then,   *)
(* miss no card that was there from the beginning, however many cards        *)
(* fetches add between two pages (CardRepo.search_cards).                    *)
THEOREM NothingIsMissed ==
  ASSUME PlainPatterns
  PROVE  Spec => []NothingMissed
<1>1. Told => NothingMissed
  BY ToldMissesNothing
<1> QED
  BY <1>1, AlwaysTold, PTL

(* A walk through an unchanged catalog returns what the descriptions of the  *)
(* fields of CardSearchFilters mean of MTGJSON's words, and as many rows as  *)
(* it was told, for every field and every spelling.                          *)
THEOREM SearchesAreMeant ==
  ASSUME PlainPatterns
  PROVE  Spec => []SearchIsMeant
<1>1. TypeInv /\ Told => SearchIsMeant
  BY ToldIsMeant
<1> QED
  BY <1>1, AlwaysTold, AlwaysTyped, PTL
================================================================================
