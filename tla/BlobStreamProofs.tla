-------------------------- MODULE BlobStreamProofs --------------------------
(***************************************************************************)
(* Proofs about BlobStream: what is sent is what was asked for, and what is *)
(* credited is what was sent, for chunks, tags, parts, buffers and files of *)
(* every size.                                                              *)
(***************************************************************************)
EXTENDS BlobStream, SequenceTheorems, WellFoundedInduction, TLAPS

-----------------------------------------------------------------------------
(* The strengthening.                                                       *)

\* n bytes from the b-th on.
Run(b, n) == [i \in 1..n |-> b + i - 1]

BlobType ==
    blob \in [size: Nat, sealed: BOOLEAN, part: Nat, remote: BOOLEAN, stored: BOOLEAN]

\* The file of the current part is where the reader takes it to be, and so is
\* the response it reads, if one is open.
Reader == [pos: Nat, current: Int, filePos: Int, at: Int, body: Int]

Lined(s) ==
    /\ s \in Reader
    /\ s.current \in Nat \cup {None}
    /\ Single => s.current = 0
    /\ s.current # None =>
          /\ s.at \in Nat /\ s.at = s.filePos - PartStart(s.current)
          /\ s.body \in {None, s.at}

AskType ==
    /\ ask \in [step: {"idle", "sending"}, raw: BOOLEAN, from: Nat, to: Int]
    /\ ask.step = "sending" =>
          /\ blob.stored
          /\ ask.raw => blob.sealed
          /\ ask.from <= ask.to \/ (blob.size = 0 /\ ask.from = 0 /\ ask.to = None)
          /\ ~ask.raw => ask.to < blob.size

\* What was sent are the first bytes that were asked for, ...
SentRun ==
    /\ sent \in Seq(Int) /\ sent = Run(ask.from, Len(sent))
    /\ ask.step = "sending" => Len(sent) <= ask.to - ask.from + 1

\* ... and the reader below, or the opener, stands behind them.
Standing ==
    ask.step = "sending" =>
        /\ Lined(src)
        /\ ~Sealed => src.pos = ask.from + Len(sent)
        /\ Sealed =>
              /\ opener \in [pos: Nat, chunk: Int, buf: Seq(Int)]
              /\ opener.pos = ask.from + Len(sent)
              /\ opener.buf = Run(Chunk * WireChunk, Len(opener.buf))
              /\ opener.buf # <<>> =>
                    ~Cached /\ src.pos = Chunk * WireChunk + Len(opener.buf)

SInv == BlobType /\ AskType /\ SentRun /\ Standing

-----------------------------------------------------------------------------
(* Runs of bytes.                                                           *)

LEMMA RunFacts ==
    ASSUME NEW b \in Int, NEW n \in Nat
    PROVE  /\ Run(b, n) \in Seq(Int) /\ Len(Run(b, n)) = n
           /\ \A i \in 1..n : Run(b, n)[i] = b + i - 1
BY DEF Run

LEMMA RunOn ==
    ASSUME NEW b \in Int, NEW m \in Nat, NEW n \in Nat
    PROVE  Run(b, m) \o Run(b + m, n) = Run(b, m + n)
<1> DEFINE s == Run(b, m)
           t == Run(b + m, n)
           u == Run(b, m + n)
<1>1. /\ s \in Seq(Int) /\ Len(s) = m /\ \A i \in 1..m : s[i] = b + i - 1
      /\ t \in Seq(Int) /\ Len(t) = n /\ \A i \in 1..n : t[i] = b + m + i - 1
      /\ u \in Seq(Int) /\ Len(u) = m + n /\ \A i \in 1..(m + n) : u[i] = b + i - 1
  BY RunFacts
<1> HIDE DEF s, t, u
<1>2. /\ s \o t \in Seq(Int) /\ Len(s \o t) = m + n
      /\ \A i \in 1..(m + n) : (s \o t)[i] = IF i <= m THEN s[i] ELSE t[i - m]
  BY <1>1, ConcatProperties
<1>3. \A i \in 1..(m + n) : (s \o t)[i] = u[i]
  BY <1>1, <1>2
<1>4. s \o t = u
  BY <1>1, <1>2, <1>3, SeqEqual
<1>5. QED
  BY <1>4 DEF s, t, u

-----------------------------------------------------------------------------
(* Where parts and chunks begin.                                            *)

\* Quotients and remainders.
LEMMA DivFacts ==
    ASSUME NEW a \in Nat, NEW d \in Nat, d > 0
    PROVE  /\ a \div d \in Nat /\ a % d \in Nat /\ a % d < d
           /\ a = (a \div d) * d + (a % d)
           /\ (a \div d) * d <= a
<1>1. (a \div d) * d <= a /\ a < (a \div d) * d + d
  OBVIOUS
<1>2. a \div d \in Nat /\ a % d \in Nat /\ a % d < d
  OBVIOUS
<1>3. d * (a \div d) + (a % d) = a
  OBVIOUS
<1>4. QED
  BY <1>1, <1>2, <1>3

LEMMA ProductType == ASSUME NEW a \in Nat, NEW b \in Nat PROVE a * b \in Nat
OBVIOUS

LEMMA ConstantFacts ==
    /\ ChunkSize \in Nat /\ ChunkSize > 0 /\ TagSize \in Nat /\ TagSize > 0
    /\ WireChunk \in Nat /\ WireChunk > ChunkSize
    /\ BufferSize \in Nat /\ None = -1
BY BlobStreamAssumption DEF WireChunk, None

\* Sealing only adds bytes.
LEMMA WireNat ==
    ASSUME BlobType, NEW n \in Nat
    PROVE  wireSize(n) \in Nat /\ wireSize(n) >= n /\ (wireSize(n) = 0 => n = 0)
<1>1. CeilDiv(n, ChunkSize) \in Nat
  <2>1. n + ChunkSize - 1 \in Nat /\ ChunkSize > 0 /\ ChunkSize \in Nat
    BY ConstantFacts
  <2>2. QED
    BY <2>1, DivFacts DEF CeilDiv
<1>2. CeilDiv(n, ChunkSize) * TagSize \in Nat
  BY <1>1, ConstantFacts, ProductType
<1>3. QED
  BY <1>2 DEF wireSize

LEMMA PartFacts ==
    ASSUME BlobType
    PROVE  /\ NumParts \in Nat /\ NumParts >= 1
           /\ PartStart(0) = 0
           /\ \A k \in Nat : PartStart(k) \in Nat
           /\ Single => NumParts = 1 /\ \A k : PartStart(k) = 0
<1>1. PartStart(0) = 0 /\ \A k \in Nat : PartStart(k) \in Nat
  <2>1. wireSize(blob.part) \in Nat
    BY WireNat DEF BlobType
  <2>2. \A k \in Nat : k * wireSize(blob.part) \in Nat
    BY <2>1, ProductType
  <2>3. 0 * wireSize(blob.part) = 0
    BY <2>1
  <2>4. QED
    BY <2>2, <2>3 DEF PartStart
<1>2. NumParts \in Nat /\ NumParts >= 1
  <2>1. CASE Single
    BY <2>1 DEF NumParts
  <2>2. CASE ~Single
    <3>1. blob.part \in Nat /\ blob.part > 0 /\ blob.size \in Nat /\ blob.size > 0
      BY <2>2 DEF Single, BlobType
    <3> DEFINE n == blob.size
               d == blob.part
    <3>2. n \in Nat /\ d \in Nat /\ d > 0 /\ n > 0
      BY <3>1
    <3> HIDE DEF n, d
    <3>3. (n + d - 1) \div d \in Nat /\ (n + d - 1) \div d >= 1
      BY <3>2
    <3>4. QED
      BY <2>2, <3>3 DEF NumParts, CeilDiv, n, d
  <2>3. QED
    BY <2>1, <2>2
<1>3. QED
  BY <1>1, <1>2 DEF PartStart, NumParts

\* A set of numbers with a bound has a greatest.
LEMMA Greatest ==
    ASSUME NEW n \in Nat, NEW S \in SUBSET (0..n), S # {}
    PROVE  \E k \in S : \A j \in S : j <= k
<1> DEFINE D == {m \in Nat : m <= n /\ n - m \in S}
<1>1. PICK j \in S : j \in 0..n
  OBVIOUS
<1>2. n - j \in Nat /\ n - j <= n /\ n - (n - j) = j
  BY <1>1
<1>3. D # {} /\ D \in SUBSET Nat
  BY <1>1, <1>2
<1>4. \E x \in D : \A y \in D : ~ (<<y, x>> \in OpToRel(<, Nat))
  BY <1>3, NatLessThanWellFounded, WFMin
<1>5. ASSUME NEW x \in Nat, NEW y \in Nat, y < x
      PROVE  <<y, x>> \in OpToRel(<, Nat)
  BY <1>5, Zenon DEF OpToRel
<1>6. PICK x \in D : \A y \in D : ~ (<<y, x>> \in OpToRel(<, Nat))
  BY <1>4
<1>7. ASSUME NEW y \in D
      PROVE  ~ (y < x)
  <2>1. x \in Nat /\ y \in Nat
    BY <1>3
  <2>2. QED
    BY <1>5, <1>6, <2>1
<1>8. ASSUME NEW k \in S
      PROVE  k <= n - x
  <2>1. k \in Nat /\ k <= n /\ n - k \in Nat /\ n - (n - k) = k
    OBVIOUS
  <2>2. n - k \in D
    BY <2>1
  <2>3. ~ (n - k < x) /\ x \in Nat
    BY <1>3, <1>7, <2>2
  <2>4. QED
    BY <2>1, <2>3
<1>9. n - x \in S
  BY <1>6
<1>10. QED
  BY <1>8, <1>9

\* The part a position falls in.
LEMMA IndexFacts ==
    ASSUME BlobType, NEW pos \in Nat
    PROVE  /\ partIndexFor(pos) \in Nat /\ PartStart(partIndexFor(pos)) <= pos
           /\ Single => partIndexFor(pos) = 0
<1>1. PICK n \in Nat : n = NumParts - 1
  BY PartFacts
<1> DEFINE S == {k \in 0..n : PartStart(k) <= pos}
<1>2. 0 \in S
  BY PartFacts
<1>3. PICK k \in S : \A j \in S : j <= k
  <2>1. S # {} /\ S \in SUBSET (0..n)
    BY <1>2
  <2> HIDE DEF S
  <2>2. QED
    BY <2>1, Greatest
<1>4. k \in 0..(NumParts - 1) /\ PartStart(k) <= pos
  BY <1>1
<1>5. k + 1 < NumParts => pos < PartStart(k + 1)
  <2>1. ASSUME k + 1 < NumParts
        PROVE  pos < PartStart(k + 1)
    <3>1. k + 1 \in 0..n /\ ~ (k + 1 <= k)
      BY <1>1, <2>1, PartFacts
    <3>2. k + 1 \notin S
      BY <1>3, <3>1
    <3>3. ~ (PartStart(k + 1) <= pos) /\ PartStart(k + 1) \in Nat
      BY <3>1, <3>2, PartFacts
    <3>4. QED
      BY <3>3
  <2>2. QED
    BY <2>1
<1>6. /\ partIndexFor(pos) \in 0..(NumParts - 1)
      /\ PartStart(partIndexFor(pos)) <= pos
  BY <1>4, <1>5 DEF partIndexFor
<1>7. QED
  BY <1>1, <1>6, PartFacts

-----------------------------------------------------------------------------
(* A reader gives the bytes from its position on.                           *)

\* What an update of a reader leaves and changes.
LEMMA SetAll ==
    ASSUME NEW s \in Reader, NEW n \in Nat,
           NEW f, f = [s EXCEPT !.pos = @ + n, !.filePos = s.pos + n, !.at = @ + n, !.body = @ + n]
    PROVE  /\ f \in Reader /\ f.current = s.current /\ f.pos = s.pos + n
           /\ f.filePos = s.pos + n /\ f.at = s.at + n /\ f.body = s.body + n
<1>1. f = [pos |-> s.pos + n, current |-> s.current, filePos |-> s.pos + n,
           at |-> s.at + n, body |-> s.body + n]
  BY DEF Reader
<1>3. s.pos + n \in Nat /\ s.current \in Int /\ s.at + n \in Int /\ s.body + n \in Int
  BY DEF Reader
<1>4. f \in Reader
  BY <1>1, <1>3 DEF Reader
<1>2. /\ f.current = s.current /\ f.pos = s.pos + n
      /\ f.filePos = s.pos + n /\ f.at = s.at + n /\ f.body = s.body + n
  BY DEF Reader
<1>5. QED
  BY <1>4, <1>2

\* A seek of the file takes it there; a response at another place is closed.
LEMMA SeekFacts ==
    ASSUME BlobType, NEW s \in Reader, s.body \in {None, s.at}, NEW target \in Nat
    PROVE  LET f == FileSeek(s, target)
           IN  /\ f \in Reader /\ f.at = target /\ f.body \in {None, target}
               /\ f.pos = s.pos /\ f.current = s.current /\ f.filePos = s.filePos
<1> DEFINE body == IF blob.remote THEN IF target = s.at THEN s.body ELSE None ELSE target
<1>1. PICK b : b = body
  OBVIOUS
<1>2. b \in {None, target} /\ b \in Int
  <2>1. CASE blob.remote /\ target = s.at
    BY <1>1, <2>1 DEF None
  <2>2. CASE blob.remote /\ target # s.at
    BY <1>1, <2>2 DEF None
  <2>3. CASE ~blob.remote
    BY <1>1, <2>3
  <2>4. QED
    BY <2>1, <2>2, <2>3
<1>3. FileSeek(s, target) = [s EXCEPT !.at = target, !.body = b]
  <2>1. CASE blob.remote
    <3>1. FileSeek(s, target) =
            [s EXCEPT !.at = target, !.body = IF target = s.at THEN s.body ELSE None]
      BY <2>1, Zenon DEF FileSeek, Reader
    <3>2. QED
      BY <1>1, <2>1, <3>1
  <2>2. CASE ~blob.remote
    BY <1>1, <2>2 DEF FileSeek
  <2>3. QED
    BY <2>1, <2>2
<1>4. PICK f : f = [s EXCEPT !.at = target, !.body = b]
  OBVIOUS
<1>5. /\ f \in Reader /\ f.at = target /\ f.body = b
      /\ f.pos = s.pos /\ f.current = s.current /\ f.filePos = s.filePos
  <2>1. s \in Reader /\ target \in Int /\ b \in Int
    BY <1>2
  <2>2. f = [pos |-> s.pos, current |-> s.current, filePos |-> s.filePos,
             at |-> target, body |-> b]
    BY <1>4, <2>1 DEF Reader
  <2>3. s.pos \in Nat /\ s.current \in Int /\ s.filePos \in Int
    BY <2>1 DEF Reader
  <2>4. f \in Reader
    BY <2>1, <2>2, <2>3 DEF Reader
  <2>5. QED
    BY <2>2, <2>4
<1>6. QED
  BY <1>2, <1>3, <1>4, <1>5

\* Ready to read, the file gives the byte at the position of the reader.
LEMMA ReadyFacts ==
    ASSUME BlobType, NEW s, Lined(s), NEW ranged \in BOOLEAN
    PROVE  LET r == Ready(s, ranged)
           IN  /\ Lined(r) /\ r.pos = s.pos /\ r.filePos = s.pos
               /\ r.current \in Nat /\ r.body = r.at
               /\ r.at = s.pos - PartStart(r.current)
<1> DEFINE k == partIndexFor(s.pos)
           o == openPart(s, k)
           a == Aligned(s)
<1>1. /\ s \in Reader /\ s.pos \in Nat
      /\ k \in Nat /\ PartStart(k) \in Nat /\ PartStart(k) <= s.pos
      /\ Single => k = 0
  BY IndexFacts, PartFacts DEF Lined, Reader
<1> HIDE DEF k
<1>2. /\ o \in Reader /\ o.pos = s.pos /\ o.current = k
      /\ o.at \in Nat /\ o.at = o.filePos - PartStart(k) /\ o.body \in {None, o.at}
  <2>1. CASE s.current = k
    BY <1>1, <2>1 DEF openPart, Lined, None
  <2>2. CASE s.current # k
    <3>1. PICK b \in {None, 0} : b = IF blob.remote THEN None ELSE 0
      BY Zenon
    <3>2. o = [s EXCEPT !.current = k, !.filePos = PartStart(k), !.at = 0, !.body = b]
      BY <2>2, <3>1 DEF openPart
    <3>3. b \in Int
      BY DEF None
    <3>4. PICK x : x = [s EXCEPT !.current = k, !.filePos = PartStart(k), !.at = 0, !.body = b]
      OBVIOUS
    <3>5. /\ x \in Reader /\ x.pos = s.pos /\ x.current = k
          /\ x.at = 0 /\ x.filePos = PartStart(k) /\ x.body = b
      <4>1. s \in Reader /\ k \in Int /\ PartStart(k) \in Int
        BY <1>1
      <4>2. x = [pos |-> s.pos, current |-> k, filePos |-> PartStart(k), at |-> 0, body |-> b]
        BY <3>4, <4>1 DEF Reader
      <4>3. x \in Reader
        BY <1>1, <3>3, <4>1, <4>2 DEF Reader
      <4>4. QED
        BY <4>2, <4>3
    <3>6. QED
      BY <1>1, <3>2, <3>4, <3>5
  <2>3. QED
    BY <2>1, <2>2
<1> HIDE DEF o
<1>3. a = IF o.filePos = s.pos THEN o
          ELSE [FileSeek(o, s.pos - PartStart(k)) EXCEPT !.filePos = s.pos]
  BY DEF Aligned, o, k
<1> HIDE DEF a
<1>4. /\ a \in Reader /\ a.pos = s.pos /\ a.current = k /\ a.filePos = s.pos
      /\ a.at = s.pos - PartStart(k) /\ a.at \in Nat /\ a.body \in {None, a.at}
  <2>1. CASE o.filePos = s.pos
    BY <1>1, <1>2, <1>3, <2>1
  <2>2. CASE o.filePos # s.pos
    <3>1. PICK target \in Nat : target = s.pos - PartStart(k)
      BY <1>1
    <3>2. PICK f : f = FileSeek(o, target)
      OBVIOUS
    <3>3. /\ f \in Reader /\ f.at = target /\ f.body \in {None, target}
          /\ f.pos = s.pos /\ f.current = k
      BY <1>2, <3>2, SeekFacts
    <3>4. a = [f EXCEPT !.filePos = s.pos]
      BY <1>3, <2>2, <3>1, <3>2
    <3>5. QED
      BY <1>1, <3>1, <3>3, <3>4 DEF Reader
  <2>3. QED
    BY <2>1, <2>2
<1>5. PICK r : r = Ready(s, ranged)
  OBVIOUS
<1>6. r = openAt(a, ranged)
  BY <1>5 DEF Ready, a
<1>7. /\ r \in Reader /\ r.pos = s.pos /\ r.current = k /\ r.filePos = s.pos
      /\ r.at = a.at /\ r.body = a.at
  BY <1>4, <1>6 DEF openAt, Reader, None
<1>8. Lined(r)
  BY <1>1, <1>4, <1>7 DEF Lined
<1>9. QED
  BY <1>1, <1>4, <1>5, <1>7, <1>8

\* What is read are the next bytes, and the reader stands behind them.
LEMMA ReadFacts ==
    ASSUME BlobType, NEW s, Lined(s), NEW ranged \in BOOLEAN, NEW n \in Nat
    PROVE  LET r == Ready(s, ranged)
           IN  /\ Bytes(r, n) = Run(s.pos, n)
               /\ Lined(Advanced(r, n)) /\ Advanced(r, n).pos = s.pos + n
<1>1. PICK r : r = Ready(s, ranged)
  OBVIOUS
<1>2. /\ Lined(r) /\ r.pos = s.pos /\ r.filePos = s.pos
      /\ r.current \in Nat /\ r.body = r.at
      /\ r.at = s.pos - PartStart(r.current)
  BY <1>1, ReadyFacts
<1>3. PartStart(r.current) \in Nat /\ r \in Reader
  BY <1>2, PartFacts DEF Lined
<1>4. Bytes(r, n) = Run(s.pos, n)
  <2>1. ASSUME NEW i \in 1..n
        PROVE  StoredByte(r.current, r.body + i - 1) = s.pos + i - 1
    <3>1. StoredByte(r.current, r.body + i - 1) = PartStart(r.current) + (r.body + i - 1)
      BY DEF StoredByte, PartStart
    <3>2. QED
      BY <1>2, <1>3, <3>1 DEF Reader
  <2>2. QED
    BY <2>1 DEF Bytes, Run
<1>5. PICK a : a = Advanced(r, n)
  OBVIOUS
<1>6. /\ a \in Reader /\ a.pos = s.pos + n /\ a.filePos = s.pos + n
      /\ a.at = r.at + n /\ a.body = r.body + n /\ a.current = r.current
  <2>1. r.at \in Nat /\ r.body \in Nat
    BY <1>2 DEF Lined, None
  <2>2. QED
    <3>1. a = [r EXCEPT !.pos = @ + n, !.filePos = r.pos + n, !.at = @ + n, !.body = @ + n]
      BY <1>5, Zenon DEF Advanced
    <3>2. /\ a \in Reader /\ a.current = r.current /\ a.pos = r.pos + n
          /\ a.filePos = r.pos + n /\ a.at = r.at + n /\ a.body = r.body + n
      BY <1>3, <3>1, SetAll, Zenon
    <3>3. QED
      BY <1>2, <3>2
<1>7. Lined(a)
  BY <1>2, <1>3, <1>6 DEF Lined, Reader, None
<1>8. QED
  BY <1>1, <1>4, <1>5, <1>6, <1>7

\* A reader that is opened or sought is lined up.
LEMMA OpenFacts ==
    ASSUME BlobType
    PROVE  /\ Lined(OpenRaw)
           /\ \A s, target : Lined(s) /\ target \in Nat =>
                 Lined(RawSeek(s, target)) /\ RawSeek(s, target).pos = target
<1>1. Lined(OpenRaw)
  <2>1. NoReader \in Reader /\ NoReader.current = None /\ NoReader.at = 0
    BY DEF NoReader, Reader, None
  <2>2. CASE Single
    <3>1. PICK b \in {None, 0} : b = IF blob.remote THEN None ELSE 0
      BY Zenon
    <3>2. PICK x : x = [NoReader EXCEPT !.current = 0, !.filePos = 0, !.body = b]
      OBVIOUS
    <3>3. /\ x \in Reader /\ x.current = 0 /\ x.filePos = 0 /\ x.at = 0 /\ x.body = b
      BY <2>1, <3>2 DEF Reader, None
    <3>4. x = OpenRaw
      BY <2>2, <3>1, <3>2 DEF OpenRaw
    <3>5. PartStart(0) = 0
      BY PartFacts
    <3>6. Lined(x)
      BY <3>3, <3>5 DEF Lined
    <3>7. QED
      BY <3>4, <3>6
  <2>3. CASE ~Single
    BY <2>1, <2>3 DEF Lined, OpenRaw
  <2>4. QED
    BY <2>2, <2>3
<1>2. ASSUME NEW s, NEW target, Lined(s), target \in Nat
      PROVE  Lined(RawSeek(s, target)) /\ RawSeek(s, target).pos = target
  <2>1. s \in Reader
    BY <1>2 DEF Lined
  <2>2. CASE Single
    <3>1. PartStart(0) = 0 /\ s.current = 0 /\ s.body \in {None, s.at}
      BY <1>2, <2>2, PartFacts DEF Lined, None
    <3>2. PICK f : f = FileSeek(s, target)
      OBVIOUS
    <3>3. /\ f \in Reader /\ f.at = target /\ f.body \in {None, target} /\ f.current = 0
      BY <1>2, <2>1, <3>1, <3>2, SeekFacts
    <3>4. PICK r : r = [f EXCEPT !.pos = target, !.filePos = target]
      OBVIOUS
    <3>5. /\ r \in Reader /\ r.pos = target /\ r.filePos = target /\ r.at = target
          /\ r.body \in {None, target} /\ r.current = 0
      BY <1>2, <3>3, <3>4 DEF Reader
    <3>6. RawSeek(s, target) = r
      BY <2>2, <3>2, <3>4 DEF RawSeek
    <3>7. Lined(r)
      BY <1>2, <3>1, <3>5 DEF Lined
    <3>8. QED
      BY <3>5, <3>6, <3>7
  <2>3. CASE ~Single
    <3>1. PICK r : r = [s EXCEPT !.pos = target]
      OBVIOUS
    <3>2. /\ r \in Reader /\ r.pos = target /\ r.filePos = s.filePos /\ r.at = s.at
          /\ r.body = s.body /\ r.current = s.current
      BY <1>2, <2>1, <3>1 DEF Reader
    <3>3. RawSeek(s, target) = r
      BY <2>3, <3>1 DEF RawSeek
    <3>4. Lined(r)
      BY <1>2, <2>3, <3>2 DEF Lined
    <3>5. QED
      BY <3>2, <3>3, <3>4
  <2>4. QED
    BY <2>2, <2>3
<1>3. QED
  BY <1>1, <1>2

-----------------------------------------------------------------------------
(* The steps.                                                               *)

\* The range of an answer lies in what is asked for, and is empty only for an
\* empty file.
LEMMA RangeFacts ==
    ASSUME BlobType, NEW header \in Headers, NEW size \in Nat,
           NEW r \in requestedDownloadRange(header, size)
    PROVE  /\ r[1] \in Nat /\ r[2] \in Int /\ r[2] < size
           /\ r[1] <= r[2] \/ (size = 0 /\ r[1] = 0 /\ r[2] = None)
<1>1. PICK top \in Nat : top = wireSize(blob.size)
  BY WireNat DEF BlobType
<1>2. header \in (None..top) \X (None..top)
  BY <1>1 DEF Headers
<1>3. PICK a, b : a = header[1] /\ b = header[2]
  OBVIOUS
<1>4. a \in Int /\ b \in Int /\ a >= -1
  BY <1>2, <1>3 DEF None
<1>5. CASE header = NoRange
  <2>1. r = <<0, size - 1>>
    BY <1>5 DEF requestedDownloadRange
  <2>2. QED
    BY <2>1 DEF None
<1>6. CASE header # NoRange /\ a = None
  <2>1. r = <<size - Least(b, size), size - 1>> /\ b > 0
    BY <1>3, <1>6 DEF requestedDownloadRange
  <2>2. Least(b, size) \in Nat /\ Least(b, size) <= size /\ (size > 0 => Least(b, size) > 0)
    BY <1>4, <2>1 DEF Least
  <2>3. QED
    BY <2>1, <2>2 DEF None
<1>7. CASE header # NoRange /\ a # None
  <2>1. /\ r = <<a, IF b = None THEN size - 1 ELSE Least(b, size - 1)>>
        /\ a < size /\ (b = None \/ b >= a)
    BY <1>3, <1>7 DEF requestedDownloadRange
  <2>2. PICK e : e = IF b = None THEN size - 1 ELSE Least(b, size - 1)
    OBVIOUS
  <2>3. e \in Int /\ e < size /\ a <= e
    <3>1. CASE b = None
      BY <1>4, <2>1, <2>2, <3>1
    <3>2. CASE b # None
      BY <1>4, <2>1, <2>2, <3>2 DEF Least
    <3>3. QED
      BY <3>1, <3>2
  <2>4. a \in Nat
    BY <1>4, <1>7 DEF None
  <2>5. QED
    BY <2>1, <2>2, <2>3, <2>4
<1>8. QED
  BY <1>5, <1>6, <1>7

LEMMA NoRun == ASSUME NEW b \in Int PROVE Run(b, 0) = <<>>
BY DEF Run

\* While the object stays, a reader that is lined up stays so.
LEMMA LinedKept ==
    ASSUME blob' = blob, NEW s, Lined(s), src' = s
    PROVE  Lined(src)'
BY DEF Lined, Single, PartStart, wireSize, CeilDiv

LEMMA ServeRuns ==
    ASSUME SInv, NEW key \in BOOLEAN, NEW header \in Headers, Serve(header, key)
    PROVE  SInv'
<1> DEFINE size == IF SentSealed(key) THEN wireSize(blob.size) ELSE blob.size
<1>1. size \in Nat /\ (size = 0 => blob.size = 0)
  <2>1. blob.size \in Nat
    BY DEF SInv, BlobType
  <2>2. wireSize(blob.size) \in Nat /\ (wireSize(blob.size) = 0 => blob.size = 0)
    BY <2>1, WireNat DEF SInv
  <2>3. QED
    BY <2>1, <2>2
<1>2. PICK r \in requestedDownloadRange(header, size) :
         /\ ask' = [step |-> "sending", raw |-> SentSealed(key), from |-> r[1], to |-> r[2]]
         /\ src' = IF SentSealed(key) \/ ~blob.sealed THEN RawSeek(OpenRaw, r[1]) ELSE OpenRaw
         /\ opener' = [NoOpener EXCEPT !.pos = r[1]]
  BY DEF Serve
<1>3. /\ r[1] \in Nat /\ r[2] \in Int /\ r[2] < size
      /\ r[1] <= r[2] \/ (size = 0 /\ r[1] = 0 /\ r[2] = None)
  <2> HIDE DEF size
  <2>1. QED
    BY <1>1, <1>2, RangeFacts DEF SInv
<1>4. blob' = blob /\ sent' = <<>> /\ blob.stored
  BY DEF Serve
<1>5. BlobType'
  BY <1>4 DEF BlobType, SInv
<1>6. AskType'
  <2>1. SentSealed(key) \in BOOLEAN /\ (SentSealed(key) => blob.sealed)
    BY DEF SentSealed, SInv, BlobType
  <2>2. ~SentSealed(key) => size = blob.size
    OBVIOUS
  <2> HIDE DEF size
  <2>3. QED
    BY <1>1, <1>2, <1>3, <1>4, <2>1, <2>2 DEF AskType
<1>7. SentRun'
  <2>1. Len(sent') = 0 /\ sent' \in Seq(Int)
    BY <1>4
  <2>2. ask'.from \in Nat /\ ask'.to \in Int /\ ask'.to - ask'.from + 1 >= 0
    BY <1>2, <1>3 DEF None
  <2>3. Run(ask'.from, 0) = <<>>
    BY <2>2, NoRun
  <2>4. QED
    BY <1>4, <2>1, <2>2, <2>3 DEF SentRun, Run
<1>8. Standing'
  <2>1. Lined(OpenRaw) /\ Lined(RawSeek(OpenRaw, r[1])) /\ RawSeek(OpenRaw, r[1]).pos = r[1]
    BY <1>3, OpenFacts DEF SInv
  <2>2. Lined(src)'
    <3>1. PICK s : s = src'
      OBVIOUS
    <3>2. Lined(s)
      BY <1>2, <2>1, <3>1
    <3>3. QED
      BY <1>4, <3>1, <3>2, LinedKept
  <2>3. ask'.from = r[1] /\ Len(sent') = 0 /\ (ask'.raw <=> SentSealed(key))
    BY <1>2, <1>4
  <2>4. ~(Sealed') => src'.pos = ask'.from + Len(sent')
    BY <1>2, <1>3, <1>4, <2>1, <2>3 DEF Sealed
  <2>5. /\ opener' \in [pos: Nat, chunk: Int, buf: Seq(Int)]
        /\ opener'.pos = ask'.from + Len(sent') /\ opener'.buf = <<>>
    <3>1. opener' = [pos |-> r[1], chunk |-> None, buf |-> <<>>]
      BY <1>2 DEF NoOpener
    <3>2. None \in Int /\ <<>> \in Seq(Int)
      BY DEF None
    <3>3. QED
      BY <1>3, <2>3, <3>1, <3>2, <1>4
  <2>6. opener'.buf = Run(Chunk' * WireChunk, Len(opener'.buf))
    <3>1. Chunk' \in Nat
      BY <2>5, ConstantFacts, DivFacts DEF Chunk
    <3>2. Chunk' * WireChunk \in Nat
      BY <3>1, ConstantFacts, ProductType
    <3>3. Run(Chunk' * WireChunk, 0) = <<>> /\ Len(opener'.buf) = 0
      BY <2>5, <3>2, NoRun
    <3>4. QED
      BY <2>5, <3>3
  <2>7. QED
    BY <2>2, <2>4, <2>5, <2>6 DEF Standing, Run, Chunk, WireChunk
<1>9. QED
  BY <1>5, <1>6, <1>7, <1>8 DEF SInv

\* How much the part still has is a number, and n bytes of a read fit both bounds.
LEMMA LeftFacts ==
    ASSUME BlobType, NEW s, Lined(s), NEW ranged \in BOOLEAN,
           NEW n \in Nat, NEW wanted \in Int,
           n <= Least(wanted, LeftInPart(Ready(s, ranged)))
    PROVE  n <= wanted
<1>1. PICK r : r = Ready(s, ranged)
  OBVIOUS
<1>2. Lined(r) /\ r.pos = s.pos /\ r.current \in Nat /\ s \in Reader
  BY <1>1, ReadyFacts DEF Lined
<1>3. PartStart(r.current) \in Nat /\ r.pos \in Nat
  BY <1>2, PartFacts DEF Reader
<1>4. PartLength(r.current) \in Int
  <2>1. blob.size \in Nat /\ blob.part \in Nat
    BY DEF BlobType
  <2>2. r.current * blob.part \in Nat
    BY <1>2, <2>1, ProductType
  <2>3. PICK m \in Int : m = PartSize(r.current)
    BY <2>1, <2>2 DEF PartSize, Least
  <2>4. CeilDiv(m, ChunkSize) \in Int
    <3>1. m + ChunkSize - 1 \in Int /\ ChunkSize \in Nat /\ ChunkSize > 0
      BY <2>3, ConstantFacts
    <3>2. QED
      BY <3>1 DEF CeilDiv
  <2>5. CeilDiv(m, ChunkSize) * TagSize \in Int
    BY <2>4, ConstantFacts
  <2>6. QED
    BY <2>3, <2>5 DEF PartLength, wireSize
<1>5. LeftInPart(r) \in Int
  BY <1>3, <1>4 DEF LeftInPart
<1>6. QED
  BY <1>1, <1>5 DEF Least

LEMMA RawRuns ==
    ASSUME SInv, NEW n \in 1..BufferSize, NEW ranged \in BOOLEAN, SendRaw(n, ranged)
    PROVE  SInv'
<1>1. /\ ask.step = "sending" /\ ~Sealed /\ Lined(src) /\ src.pos = ask.from + Len(sent)
      /\ BlobType /\ AskType /\ SentRun
  BY DEF SInv, Standing, SendRaw
<1>2. PICK s : s = Ready(src, ranged)
  OBVIOUS
<1>3. /\ n <= Least(Remaining, LeftInPart(s)) /\ sent' = sent \o Bytes(s, n)
      /\ src' = Advanced(s, n)
      /\ blob' = blob /\ ask' = ask /\ opener' = opener
  BY <1>2 DEF SendRaw
<1>4. n \in Nat /\ ask.from \in Nat /\ ask.to \in Int /\ Len(sent) \in Nat
      /\ sent = Run(ask.from, Len(sent))
  <2>1. sent \in Seq(Int)
    BY <1>1 DEF SentRun
  <2>2. QED
    BY <1>1, <2>1, ConstantFacts DEF AskType, SentRun
<1>5. /\ Bytes(s, n) = Run(src.pos, n) /\ Lined(src') /\ src'.pos = src.pos + n
  BY <1>1, <1>2, <1>3, <1>4, ReadFacts
<1>6. n <= Remaining
  <2>1. Remaining \in Int
    BY <1>4 DEF Remaining
  <2>2. QED
    BY <1>1, <1>2, <1>3, <1>4, <2>1, LeftFacts
<1>7. sent' = Run(ask.from, Len(sent) + n)
  <2>1. PICK m \in Nat : m = Len(sent)
    BY <1>4
  <2>2. PICK b \in Int : b = ask.from
    BY <1>4
  <2>3. sent = Run(b, m) /\ Bytes(s, n) = Run(b + m, n)
    BY <1>1, <1>4, <1>5, <2>1, <2>2
  <2>4. Run(b, m) \o Run(b + m, n) = Run(b, m + n)
    BY <1>4, RunOn
  <2>5. QED
    BY <1>3, <2>1, <2>2, <2>3, <2>4
<1>8. Len(sent') = Len(sent) + n /\ sent' \in Seq(Int)
  <2>1. Len(sent) + n \in Nat /\ ask.from \in Int
    BY <1>4
  <2>2. QED
    BY <1>7, <2>1, RunFacts
<1>9. SentRun'
  BY <1>3, <1>4, <1>6, <1>7, <1>8 DEF SentRun, Run, Remaining
<1>10. Standing'
  <2>1. PICK t : t = src'
    OBVIOUS
  <2>2. Lined(src)'
    BY <1>3, <1>5, <2>1, LinedKept
  <2>3. ~Sealed' /\ src'.pos = ask'.from + Len(sent')
    BY <1>1, <1>3, <1>4, <1>5, <1>8 DEF Sealed
  <2>4. QED
    BY <2>2, <2>3 DEF Standing
<1>11. BlobType' /\ AskType'
  BY <1>1, <1>3 DEF BlobType, AskType
<1>12. QED
  BY <1>9, <1>10, <1>11 DEF SInv

\* A chunk as it is stored, and where it lies: the chunk a position falls in
\* has a byte.
LEMMA ChunkFacts ==
    ASSUME BlobType, NEW pos \in Nat, pos < blob.size
    PROVE  LET k == pos \div ChunkSize
           IN  /\ k \in Nat /\ k * ChunkSize <= pos /\ k * ChunkSize \in Nat
               /\ k * WireChunk \in Nat
               /\ ChunkLength(k) \in Nat /\ k * ChunkSize + ChunkLength(k) <= blob.size
               /\ SealedChunk(k) = Run(k * WireChunk, ChunkLength(k) + TagSize)
<1>1. PICK k : k = pos \div ChunkSize
  OBVIOUS
<1>2. k \in Nat /\ k * ChunkSize <= pos
  BY <1>1, ConstantFacts, DivFacts
<1>3. PICK c \in Nat : c = k * ChunkSize
  BY <1>2, ConstantFacts, ProductType
<1>4. k * WireChunk \in Nat
  BY <1>2, ConstantFacts, ProductType
<1>5. ChunkLength(k) \in Nat /\ c + ChunkLength(k) <= blob.size
  BY <1>2, <1>3, ConstantFacts DEF ChunkLength, Least, BlobType
<1>6. SealedChunk(k) = Run(k * WireChunk, ChunkLength(k) + TagSize)
  BY DEF SealedChunk, Run
<1>7. QED
  BY <1>1, <1>2, <1>3, <1>4, <1>5, <1>6

\* The position of the opener, while it has something to give.
LEMMA OpenerFacts ==
    ASSUME SInv, ask.step = "sending", Sealed, Remaining > 0
    PROVE  /\ BlobType /\ AskType /\ SentRun /\ Lined(src)
           /\ ask.from \in Nat /\ ask.to \in Int /\ Len(sent) \in Nat /\ sent \in Seq(Int)
           /\ opener \in [pos: Nat, chunk: Int, buf: Seq(Int)]
           /\ opener.pos \in Nat /\ opener.buf \in Seq(Int) /\ Len(opener.buf) \in Nat
           /\ opener.pos < blob.size /\ opener.pos = ask.from + Len(sent)
           /\ Remaining \in Int /\ ask.to < blob.size
<1>1. /\ BlobType /\ AskType /\ SentRun /\ Lined(src)
      /\ opener \in [pos: Nat, chunk: Int, buf: Seq(Int)]
      /\ opener.pos = ask.from + Len(sent)
  BY DEF SInv, Standing
<1>2. /\ ask.from \in Nat /\ ask.to \in Int /\ sent \in Seq(Int) /\ ~ask.raw
      /\ ask.to < blob.size /\ blob.size \in Nat
  BY <1>1 DEF AskType, SentRun, BlobType, Sealed
<1>3. Len(sent) \in Nat /\ Len(opener.buf) \in Nat
  BY <1>1, <1>2
<1>4. Remaining \in Int /\ opener.pos < blob.size
  BY <1>1, <1>2, <1>3 DEF Remaining
<1>5. QED
  BY <1>1, <1>2, <1>3, <1>4

LEMMA LoadRuns ==
    ASSUME SInv, NEW n \in 1..BufferSize, NEW ranged \in BOOLEAN, LoadChunk(n, ranged)
    PROVE  SInv'
<1>1. ask.step = "sending" /\ Sealed /\ Remaining > 0 /\ ~Cached
  BY DEF LoadChunk
<1>2. /\ BlobType /\ AskType /\ SentRun /\ Lined(src)
      /\ opener \in [pos: Nat, chunk: Int, buf: Seq(Int)]
      /\ opener.pos \in Nat /\ opener.buf \in Seq(Int)
      /\ opener.pos < blob.size /\ opener.pos = ask.from + Len(sent)
  BY <1>1, OpenerFacts
<1>3. PICK k, b : k = Chunk /\ b = k * WireChunk
  OBVIOUS
<1>4. /\ k \in Nat /\ b \in Nat /\ ChunkLength(k) \in Nat
      /\ SealedChunk(k) = Run(b, ChunkLength(k) + TagSize)
  BY <1>2, <1>3, ChunkFacts DEF Chunk
<1>5. PICK m \in Nat : m = Len(opener.buf)
  BY <1>2
<1>6. opener.buf = Run(b, m) /\ (opener.buf # <<>> => src.pos = b + m)
  BY <1>1, <1>3, <1>5 DEF SInv, Standing
<1>7. PICK t : t = IF opener.buf = <<>> THEN RawSeek(src, b) ELSE src
  OBVIOUS
<1>8. Lined(t) /\ t.pos = b + m
  <2>1. CASE opener.buf = <<>>
    <3>1. m = 0
      BY <1>5, <2>1
    <3>2. Lined(RawSeek(src, b)) /\ RawSeek(src, b).pos = b
      BY <1>2, <1>4, OpenFacts
    <3>3. QED
      BY <1>4, <1>7, <2>1, <3>1, <3>2
  <2>2. CASE opener.buf # <<>>
    BY <1>2, <1>6, <1>7, <2>2
  <2>3. QED
    BY <2>1, <2>2
<1>9. PICK s, w, buf : /\ s = Ready(t, ranged) /\ w = SealedChunk(k)
                      /\ buf = opener.buf \o Bytes(s, n)
  OBVIOUS
<1>10. /\ n <= Least(Len(w) - m, LeftInPart(s)) /\ src' = Advanced(s, n)
       /\ IF Len(buf) < Len(w)
          THEN opener' = [opener EXCEPT !.buf = buf] /\ ask' = ask
          ELSE /\ opener' = [opener EXCEPT !.buf = <<>>,
                                           !.chunk = IF buf = w THEN k ELSE None]
               /\ ask' = IF buf = w THEN ask ELSE [ask EXCEPT !.step = "corrupt"]
       /\ blob' = blob /\ sent' = sent
  BY <1>3, <1>5, <1>7, <1>9 DEF LoadChunk
<1>11. n \in Nat /\ n > 0
  BY ConstantFacts
<1>12. w \in Seq(Int) /\ Len(w) = ChunkLength(k) + TagSize /\ Len(w) \in Nat
  <2>1. ChunkLength(k) + TagSize \in Nat /\ b \in Int
    BY <1>4, ConstantFacts
  <2>2. QED
    BY <1>4, <1>9, <2>1, RunFacts
<1>13. n <= Len(w) - m
  <2>1. Len(w) - m \in Int
    BY <1>12
  <2>2. QED
    BY <1>2, <1>8, <1>9, <1>10, <1>11, <2>1, LeftFacts
<1>14. Bytes(s, n) = Run(b + m, n) /\ Lined(src') /\ src'.pos = b + m + n
  BY <1>2, <1>8, <1>9, <1>10, <1>11, ReadFacts
<1>15. buf = Run(b, m + n) /\ Len(buf) = m + n /\ buf \in Seq(Int)
  <2>1. Run(b, m) \o Run(b + m, n) = Run(b, m + n)
    <3>1. b \in Int /\ m \in Nat /\ n \in Nat
      BY <1>4, <1>5, <1>11
    <3>2. QED
      BY <3>1, RunOn
  <2>2. m + n \in Nat /\ b \in Int
    BY <1>4, <1>11
  <2>3. buf = Run(b, m + n)
    BY <1>6, <1>9, <1>14, <2>1
  <2>4. QED
    BY <2>2, <2>3, RunFacts
<1>16. ask' = ask
  <2>1. CASE Len(buf) < Len(w)
    BY <1>10, <2>1
  <2>2. CASE ~(Len(buf) < Len(w))
    <3>1. m + n = ChunkLength(k) + TagSize
      <4>1. PICK l \in Nat : l = Len(w)
        BY <1>12
      <4>2. n <= l - m /\ ~(m + n < l)
        BY <1>13, <1>15, <2>2, <4>1
      <4>3. m + n = l
        BY <1>5, <1>11, <4>1, <4>2
      <4>4. QED
        BY <1>12, <4>1, <4>3
    <3>2. buf = w
      BY <1>4, <1>9, <1>15, <3>1
    <3>3. QED
      BY <1>10, <2>2, <3>2
  <2>3. QED
    BY <2>1, <2>2
<1>17. /\ opener' \in [pos: Nat, chunk: Int, buf: Seq(Int)] /\ opener'.pos = opener.pos
       /\ \/ opener'.buf = <<>>
          \/ opener'.buf = buf /\ opener'.chunk = opener.chunk
  <2>1. CASE Len(buf) < Len(w)
    <3>1. opener' = [opener EXCEPT !.buf = buf]
      BY <1>10, <2>1
    <3>2. QED
      BY <1>2, <1>15, <3>1
  <2>2. CASE ~(Len(buf) < Len(w))
    <3>1. PICK c : c = IF buf = w THEN k ELSE None
      OBVIOUS
    <3>2. c \in Int
      BY <1>4, <3>1 DEF None
    <3>3. opener' = [opener EXCEPT !.buf = <<>>, !.chunk = c]
      BY <1>10, <2>2, <3>1
    <3>4. opener' = [pos |-> opener.pos, chunk |-> c, buf |-> <<>>]
      BY <1>2, <3>3
    <3>5. <<>> \in Seq(Int)
      OBVIOUS
    <3>6. QED
      BY <1>2, <3>2, <3>4, <3>5
  <2>3. QED
    BY <2>1, <2>2
<1>18. Chunk' = k
  BY <1>3, <1>17 DEF Chunk
<1>19. Standing'
  <2>1. PICK x : x = src'
    OBVIOUS
  <2>2. Lined(src)'
    BY <1>10, <1>14, <2>1, LinedKept
  <2>3. Sealed' /\ opener'.pos = ask'.from + Len(sent')
    BY <1>1, <1>2, <1>10, <1>16, <1>17 DEF Sealed
  <2>4. /\ opener'.buf = Run(b, Len(opener'.buf))
        /\ opener'.buf # <<>> => ~Cached' /\ src'.pos = b + Len(opener'.buf)
    <3>1. CASE opener'.buf = <<>>
      <4>1. Len(opener'.buf) = 0 /\ Run(b, 0) = <<>>
        BY <1>4, <3>1, NoRun
      <4>2. QED
        BY <3>1, <4>1
    <3>2. CASE opener'.buf = buf /\ opener'.chunk = opener.chunk
      <4>1. ~Cached'
        BY <1>1, <1>3, <1>18, <3>2 DEF Cached
      <4>2. Len(opener'.buf) = m + n /\ opener'.buf = Run(b, m + n)
        BY <1>15, <3>2
      <4>3. src'.pos = b + (m + n)
        BY <1>4, <1>5, <1>11, <1>14
      <4>4. QED
        BY <4>1, <4>2, <4>3
    <3>3. QED
      BY <1>17, <3>1, <3>2
  <2>5. QED
    BY <1>3, <1>17, <1>18, <2>2, <2>3, <2>4 DEF Standing, Run, WireChunk
<1>20. BlobType' /\ AskType' /\ SentRun'
  BY <1>2, <1>10, <1>16 DEF BlobType, AskType, SentRun, Run
<1>21. QED
  BY <1>19, <1>20 DEF SInv

LEMMA PlainRuns ==
    ASSUME SInv, NEW n \in 1..BufferSize, SendPlain(n)
    PROVE  SInv'
<1>1. ask.step = "sending" /\ Sealed /\ Remaining > 0 /\ Cached
  BY DEF SendPlain
<1>2. /\ BlobType /\ AskType /\ SentRun /\ Lined(src)
      /\ ask.from \in Nat /\ ask.to \in Int
      /\ opener \in [pos: Nat, chunk: Int, buf: Seq(Int)]
      /\ opener.pos \in Nat /\ opener.buf \in Seq(Int)
      /\ opener.pos < blob.size /\ opener.pos = ask.from + Len(sent)
      /\ Remaining \in Int
  BY <1>1, OpenerFacts
<1>3. n \in Nat /\ n > 0
  BY ConstantFacts
<1>4. PICK m \in Nat : m = Len(sent)
  BY <1>2 DEF SentRun
<1>5. PICK f \in Int : f = ask.from
  BY <1>2
<1>6. PICK c \in Nat : c = Chunk * ChunkSize
  BY <1>2, ChunkFacts DEF Chunk
<1>7. /\ n <= Least(Remaining, ChunkLength(Chunk) - (opener.pos - c))
      /\ sent' = sent \o [i \in 1..n |-> c + (opener.pos - c) + i - 1]
      /\ opener' = [opener EXCEPT !.pos = @ + n]
      /\ blob' = blob /\ ask' = ask /\ src' = src
  BY <1>1, <1>6 DEF SendPlain, Cached
<1>8. n <= Remaining
  <2>1. ChunkLength(Chunk) - (opener.pos - c) \in Int
    <3>1. ChunkLength(Chunk) \in Nat
      BY <1>2, ChunkFacts DEF Chunk
    <3>2. QED
      BY <1>2, <1>6, <3>1
  <2>2. QED
    BY <1>2, <1>3, <1>7, <2>1 DEF Least
<1>9. sent' = Run(f, m + n)
  <2>1. sent = Run(f, m)
    BY <1>2, <1>4, <1>5 DEF SentRun
  <2>2. opener.pos = f + m
    BY <1>2, <1>4, <1>5
  <2>3. \A i \in 1..n : c + (opener.pos - c) + i - 1 = (f + m) + i - 1
    BY <1>3, <1>4, <1>5, <1>6, <2>2
  <2>4. [i \in 1..n |-> c + (opener.pos - c) + i - 1] = Run(f + m, n)
    BY <2>3 DEF Run
  <2>5. Run(f, m) \o Run(f + m, n) = Run(f, m + n)
    BY <1>3, RunOn
  <2>6. QED
    BY <1>7, <2>1, <2>4, <2>5
<1>10. Len(sent') = m + n /\ sent' \in Seq(Int)
  <2>1. m + n \in Nat
    BY <1>3
  <2>2. QED
    BY <1>9, <2>1, RunFacts
<1>11. SentRun'
  <2>1. m + n <= ask.to - ask.from + 1
    BY <1>2, <1>3, <1>4, <1>8 DEF Remaining
  <2>2. sent' = Run(ask'.from, Len(sent'))
    BY <1>5, <1>7, <1>9, <1>10
  <2>3. QED
    BY <1>7, <1>10, <2>1, <2>2 DEF SentRun, Run
<1>12. opener.buf = <<>>
  BY <1>1 DEF SInv, Standing
<1>13. /\ opener' \in [pos: Nat, chunk: Int, buf: Seq(Int)]
       /\ opener'.pos = opener.pos + n /\ opener'.buf = <<>>
  <2>1. opener' = [pos |-> opener.pos + n, chunk |-> opener.chunk, buf |-> opener.buf]
    BY <1>2, <1>7
  <2>2. opener.pos + n \in Nat /\ opener.chunk \in Int
    BY <1>2, <1>3
  <2>3. QED
    BY <1>2, <1>12, <2>1, <2>2
<1>14. Standing'
  <2>1. PICK x : x = src'
    OBVIOUS
  <2>2. Lined(src)'
    BY <1>2, <1>7, <2>1, LinedKept
  <2>3. Sealed' /\ opener'.pos = ask'.from + Len(sent')
    <3>1. ask'.from = f /\ ask.from = f /\ Len(sent) = m /\ Sealed'
      BY <1>1, <1>4, <1>5, <1>7 DEF Sealed
    <3>2. QED
      BY <1>2, <1>3, <1>10, <1>13, <3>1
  <2>4. opener'.buf = Run(Chunk' * WireChunk, Len(opener'.buf))
    <3>1. Chunk' \in Nat
      BY <1>13, ConstantFacts, DivFacts DEF Chunk
    <3>2. Chunk' * WireChunk \in Nat
      BY <3>1, ConstantFacts, ProductType
    <3>3. Run(Chunk' * WireChunk, 0) = <<>> /\ Len(opener'.buf) = 0
      BY <1>13, <3>2, NoRun
    <3>4. QED
      BY <1>13, <3>3
  <2>5. QED
    BY <1>13, <2>2, <2>3, <2>4 DEF Standing, Run, WireChunk
<1>15. BlobType' /\ AskType'
  BY <1>2, <1>7 DEF BlobType, AskType
<1>16. QED
  BY <1>11, <1>14, <1>15 DEF SInv

\* An answer that is over leaves nothing behind.
LEMMA RestRuns ==
    ASSUME BlobType', ask' = Idle, sent' = <<>>
    PROVE  SInv'
<1>1. AskType'
  BY DEF AskType, Idle, None
<1>2. SentRun'
  <2>1. Run(0, 0) = <<>> /\ Len(sent') = 0 /\ ask'.from = 0 /\ ask'.step = "idle"
    BY NoRun DEF Idle
  <2>2. sent' \in Seq(Int) /\ sent' = Run(ask'.from, Len(sent'))
    BY <2>1
  <2>3. QED
    BY <2>1, <2>2 DEF SentRun, Run
<1>3. Standing'
  BY DEF Standing, Idle
<1>4. QED
  BY <1>1, <1>2, <1>3 DEF SInv

LEMMA StoreRuns ==
    ASSUME SInv, NEW b \in [size: Sizes, sealed: BOOLEAN, part: PartSizes, remote: BOOLEAN,
                             stored: {TRUE}],
           Store(b)
    PROVE  SInv'
<1>1. BlobType'
  BY BlobStreamAssumption DEF Store, BlobType
<1>2. ask' = ask /\ sent' = sent /\ ask.step # "sending"
  BY DEF Store, reading, SInv, AskType
<1>3. QED
  BY <1>1, <1>2 DEF SInv, AskType, SentRun, Standing, Run

LEMMA StreamStart == Init => SInv
<1> SUFFICES ASSUME Init PROVE SInv
  OBVIOUS
<1>2. BlobType /\ AskType /\ Standing
  <2>1. BlobType
    BY DEF Init, BlobType, NoBlob
  <2>2. ask.step = "idle"
    BY DEF Init, Idle
  <2>3. AskType
    BY <2>2 DEF Init, AskType, Idle, None
  <2>4. QED
    BY <2>1, <2>2, <2>3 DEF Standing
<1>3. SentRun
  <2>1. Run(0, 0) = <<>> /\ Len(sent) = 0 /\ ask.from = 0 /\ ask.step = "idle"
    <3>1. ask = Idle /\ sent = <<>>
      BY DEF Init
    <3>2. QED
      BY <3>1, NoRun DEF Idle
  <2>2. sent \in Seq(Int) /\ sent = Run(ask.from, Len(sent))
    BY <2>1 DEF Init
  <2>3. QED
    BY <2>1, <2>2 DEF SentRun
<1>4. QED
  BY <1>2, <1>3 DEF SInv

LEMMA StreamStep == SInv /\ [Next]_vars => SInv'
<1>1. SUFFICES ASSUME SInv, [Next]_vars PROVE SInv'
  OBVIOUS
<1>2. CASE UNCHANGED vars
  <2>1. blob' = blob /\ ask' = ask /\ src' = src /\ opener' = opener /\ sent' = sent
    BY <1>2 DEF vars, reading
  <2>2. BlobType' /\ AskType' /\ SentRun'
    BY <1>1, <2>1 DEF SInv, BlobType, AskType, SentRun, Run
  <2>3. Standing'
    <3>1. ASSUME Lined(src)
          PROVE  Lined(src)'
      BY <2>1, <3>1 DEF Lined, Single, PartStart, wireSize, CeilDiv
    <3>2. Standing
      BY <1>1 DEF SInv
    <3>3. QED
      BY <2>1, <3>1, <3>2 DEF Standing, Run, Sealed, Chunk, Cached, WireChunk
  <2>4. QED
    BY <2>2, <2>3 DEF SInv
<1>3. CASE Next
  <2>1. ASSUME NEW b \in [size: Sizes, sealed: BOOLEAN, part: PartSizes, remote: BOOLEAN,
                          stored: {TRUE}],
               Store(b)
        PROVE  SInv'
    BY <1>1, <2>1, StoreRuns
  <2>2. ASSUME NEW key \in BOOLEAN, NEW header \in Headers, Serve(header, key)
        PROVE  SInv'
    BY <1>1, <2>2, ServeRuns
  <2>3. ASSUME NEW n \in 1..BufferSize, Read(n)
        PROVE  SInv'
    <3>1. ASSUME NEW ranged \in BOOLEAN, SendRaw(n, ranged)
          PROVE  SInv'
      BY <1>1, <3>1, RawRuns
    <3>2. ASSUME NEW ranged \in BOOLEAN, LoadChunk(n, ranged)
          PROVE  SInv'
      BY <1>1, <3>2, LoadRuns
    <3>3. CASE SendPlain(n)
      BY <1>1, <3>3, PlainRuns
    <3>4. QED
      BY <2>3, <3>1, <3>2, <3>3 DEF Read
  <2>4. CASE Complete
    BY <1>1, <2>4, RestRuns DEF Complete, SInv, BlobType
  <2>5. CASE GiveUp
    BY <1>1, <2>5, RestRuns DEF GiveUp, SInv, BlobType
  <2>6. QED
    BY <1>3, <2>1, <2>2, <2>3, <2>4, <2>5 DEF Next
<1>4. QED
  BY <1>1, <1>2, <1>3

LEMMA StreamHeld == SInv => StreamExact
<1> SUFFICES ASSUME SInv PROVE StreamExact
  OBVIOUS
<1>1. AskType /\ SentRun
  BY DEF SInv
<1>2. ask.step # "corrupt" /\ ask.from \in Nat
  BY <1>1 DEF AskType
<1>3. PICK m \in Nat, b \in Int : m = Len(sent) /\ b = ask.from
  BY <1>1, <1>2 DEF SentRun
<1>4. sent = Run(b, m)
  BY <1>1, <1>3 DEF SentRun
<1>5. \A i \in 1..m : sent[i] = b + i - 1
  BY <1>4, RunFacts
<1>6. QED
  BY <1>2, <1>3, <1>5 DEF StreamExact

\* What is sent is the range that was asked for, byte by byte, and no chunk that
\* was stored whole fails to open: for every size of file, chunk, tag, part and
\* buffer, local and remote, with and without ranged responses.
THEOREM StreamIsExact == Spec => []StreamExact
<1>1. QED
  BY StreamStart, StreamStep, StreamHeld, PTL DEF Spec

-----------------------------------------------------------------------------
(* What is credited.                                                        *)

\* Before an object is stored nothing of it is delivered or credited.
CreditInv ==
    /\ SInv
    /\ CreditExact
    /\ ~blob.stored => delivered = {} /\ credited = {}

\* q chunks of d bytes and r more are chunk q, byte r.
LEMMA DivUnique ==
    ASSUME NEW d \in Nat, d > 0, NEW q \in Nat, NEW r \in Nat, r < d
    PROVE  (q * d + r) \div d = q /\ (q * d + r) % d = r
OBVIOUS

\* More chunks are more bytes.
LEMMA ProductOrder ==
    ASSUME NEW d \in Nat, NEW p \in Nat, NEW q \in Nat, p < q
    PROVE  p * d + d <= q * d
<1>1. PICK e \in Nat : q = p + 1 + e
  <2>1. q - p - 1 \in Nat /\ q = p + 1 + (q - p - 1)
    OBVIOUS
  <2>2. QED
    BY <2>1
<1>2. q * d = p * d + d + e * d
  BY <1>1
<1>3. e * d \in Nat /\ p * d \in Nat
  OBVIOUS
<1>4. QED
  BY <1>2, <1>3

\* A wire position: its chunk, its place in it, and the plain position it counts for.
LEMMA ToPlainFacts ==
    ASSUME NEW w \in Nat
    PROVE  \E q, o, p \in Nat :
              /\ q = w \div WireChunk /\ o = w % WireChunk /\ p = q * ChunkSize
              /\ w = q * WireChunk + o /\ o < WireChunk
              /\ toPlain(w) = p + Least(o, ChunkSize) /\ toPlain(w) \in Nat
<1>1. PICK q, o \in Nat : /\ q = w \div WireChunk /\ o = w % WireChunk
                          /\ w = q * WireChunk + o /\ o < WireChunk
  <2>1. WireChunk \in Nat /\ WireChunk > 0
    BY ConstantFacts
  <2>2. QED
    BY <2>1, DivFacts
<1>2. PICK p \in Nat : p = q * ChunkSize
  BY ConstantFacts, ProductType
<1>3. toPlain(w) = p + Least(o, ChunkSize)
  <2>1. ~(w < 0)
    OBVIOUS
  <2>2. toPlain(w) = (w \div WireChunk) * ChunkSize + Least(w % WireChunk, ChunkSize)
    BY <2>1, Zenon DEF toPlain
  <2>3. QED
    BY <1>1, <1>2, <2>2
<1>4. toPlain(w) \in Nat
  BY <1>3, ConstantFacts DEF Least
<1>5. QED
  BY <1>1, <1>2, <1>3, <1>4

\* A later wire position counts for no earlier plain one.
LEMMA ToPlainOrder ==
    ASSUME NEW v \in Nat, NEW w \in Nat, v <= w
    PROVE  toPlain(v) <= toPlain(w)
<1>1. PICK q, o, p \in Nat :
         /\ q = v \div WireChunk /\ o = v % WireChunk /\ p = q * ChunkSize
         /\ v = q * WireChunk + o /\ o < WireChunk
         /\ toPlain(v) = p + Least(o, ChunkSize) /\ toPlain(v) \in Nat
  BY ToPlainFacts
<1>2. PICK k, u, r \in Nat :
         /\ k = w \div WireChunk /\ u = w % WireChunk /\ r = k * ChunkSize
         /\ w = k * WireChunk + u /\ u < WireChunk
         /\ toPlain(w) = r + Least(u, ChunkSize) /\ toPlain(w) \in Nat
  BY ToPlainFacts
<1>3. PICK c \in Nat : c = ChunkSize
  BY ConstantFacts
<1>4. PICK x, y \in Nat : x = q * WireChunk /\ y = k * WireChunk
  BY ConstantFacts, ProductType
<1>5. CASE q = k
  <2>1. o <= u
    BY <1>1, <1>2, <1>4, <1>5
  <2>2. QED
    BY <1>1, <1>2, <1>3, <1>5, <2>1 DEF Least
<1>6. CASE q < k
  <2>1. p + c <= r
    BY <1>1, <1>2, <1>3, <1>6, ProductOrder
  <2>2. QED
    BY <1>1, <1>2, <1>3, <2>1 DEF Least
<1>7. CASE k < q
  <2>1. y + WireChunk <= x
    BY <1>4, <1>7, ConstantFacts, ProductOrder
  <2>2. WireChunk \in Nat
    BY ConstantFacts
  <2>3. FALSE
    BY <1>1, <1>2, <1>4, <2>1, <2>2
  <2>4. QED
    BY <2>3
<1>8. QED
  BY <1>5, <1>6, <1>7

\* A stored byte that carries a plain one counts for it.
LEMMA CarriedFacts ==
    ASSUME BlobType, blob.sealed, NEW w \in Nat, NEW x \in Carried(w)
    PROVE  toPlain(w) = x /\ x \in Nat /\ x < blob.size
<1>1. PICK q, o, p \in Nat :
         /\ q = w \div WireChunk /\ o = w % WireChunk /\ p = q * ChunkSize
         /\ toPlain(w) = p + Least(o, ChunkSize)
  BY ToPlainFacts
<1>2. o < ChunkLength(q) /\ x = p + o
  <2>1. Carried(w) = IF o < ChunkLength(q) THEN {p + o} ELSE {}
    BY <1>1 DEF Carried
  <2>2. QED
    BY <2>1
<1>3. ChunkLength(q) = Least(ChunkSize, blob.size - p) /\ blob.size \in Nat
  BY <1>1 DEF ChunkLength, BlobType
<1>4. o < ChunkSize /\ p + o < blob.size
  BY <1>2, <1>3, ConstantFacts DEF Least
<1>5. QED
  BY <1>1, <1>2, <1>4, ConstantFacts DEF Least

\* Every plain byte lies at its place on the wire.
LEMMA PlaceFacts ==
    ASSUME BlobType, blob.sealed, NEW x \in Nat, x < blob.size
    PROVE  \E w \in Nat : Carried(w) = {x} /\ toPlain(w) = x
                         /\ w = (x \div ChunkSize) * WireChunk + (x % ChunkSize)
<1>1. PICK q, r \in Nat : /\ q = x \div ChunkSize /\ r = x % ChunkSize
                          /\ r < ChunkSize /\ x = q * ChunkSize + r
  BY ConstantFacts, DivFacts
<1>2. PICK p, y \in Nat : p = q * ChunkSize /\ y = q * WireChunk
  BY ConstantFacts, ProductType
<1>3. PICK w \in Nat : w = q * WireChunk + r
  BY <1>2
<1>4. w \div WireChunk = q /\ w % WireChunk = r
  <2>1. WireChunk \in Nat /\ WireChunk > 0 /\ r < WireChunk
    BY <1>1, ConstantFacts
  <2>2. QED
    BY <1>3, <2>1, DivUnique
<1>5. r < ChunkLength(q)
  <2>1. ChunkLength(q) = Least(ChunkSize, blob.size - p)
    BY <1>2 DEF ChunkLength
  <2>2. blob.size \in Nat /\ x = p + r
    BY <1>1, <1>2 DEF BlobType
  <2>3. QED
    BY <1>1, <2>1, <2>2, ConstantFacts DEF Least
<1>6. Carried(w) = {x}
  BY <1>1, <1>4, <1>5 DEF Carried
<1>7. toPlain(w) = x
  BY <1>1, <1>3, <1>4, ConstantFacts DEF toPlain, Least
<1>8. QED
  BY <1>1, <1>3, <1>6, <1>7

\* A wire position that counts for a plain byte is its place, or the byte is the
\* first of a chunk but not of the file: the position lies in the tag before it.
LEMMA TagFacts ==
    ASSUME NEW v \in Nat, NEW x \in Nat, toPlain(v) = x
    PROVE  \/ v = (x \div ChunkSize) * WireChunk + (x % ChunkSize)
           \/ x > 0 /\ x % ChunkSize = 0
<1>1. PICK q, o, p \in Nat :
         /\ p = q * ChunkSize /\ v = q * WireChunk + o /\ o < WireChunk
         /\ toPlain(v) = p + Least(o, ChunkSize)
  BY ToPlainFacts
<1>2. CASE o < ChunkSize
  <2>1. x = q * ChunkSize + o
    BY <1>1, <1>2, ConstantFacts DEF Least
  <2>2. x \div ChunkSize = q /\ x % ChunkSize = o
    BY <1>2, <2>1, ConstantFacts, DivUnique
  <2>3. QED
    BY <1>1, <2>2
<1>3. CASE ~(o < ChunkSize)
  <2>1. x = p + ChunkSize
    BY <1>1, <1>3, ConstantFacts DEF Least
  <2>2. PICK d \in Nat : d = ChunkSize /\ d > 0
    BY ConstantFacts
  <2>3. x = (q + 1) * d + 0
    BY <1>1, <2>1, <2>2
  <2>4. x % d = 0
    <3>1. q + 1 \in Nat /\ 0 \in Nat /\ 0 < d
      BY <2>2
    <3>2. QED
      BY <2>2, <2>3, <3>1, DivUnique
  <2>5. x > 0
    BY <1>1, <2>1, <2>2
  <2>6. QED
    BY <2>2, <2>4, <2>5
<1>4. QED
  BY <1>2, <1>3

\* A range of the wire credits the plain bytes it carries, and but for one at
\* each end no others.
LEMMA WireRange ==
    ASSUME BlobType, blob.sealed, NEW from \in Nat, NEW to \in Nat, from <= to, blob.size > 0
    PROVE  LET r == plainRangeForWireRange(from, to)
           IN  /\ \A w \in from..to : Carried(w) \subseteq r[1]..r[2]
               /\ \A x \in (r[1]..r[2]) \cap (0..(blob.size - 1)) :
                     \/ \E w \in from..to : x \in Carried(w)
                     \/ x = blob.size - 1
                     \/ x > 0 /\ x % ChunkSize = 0
<1>1. PICK a, z \in Nat : a = toPlain(from) /\ z = toPlain(to)
  BY ToPlainFacts
<1>2. a <= z
  BY <1>1, ToPlainOrder
<1>3. PICK n \in Nat : n = blob.size /\ n > 0
  BY DEF BlobType
<1>4. PICK e \in Nat : e = Least(z, n - 1)
  BY <1>3 DEF Least
<1>5. PICK s \in Nat : s = Least(a, e)
  BY DEF Least
<1>6. plainRangeForWireRange(from, to) = <<s, e>>
  <2>1. (IF toPlain(to) < toPlain(from) THEN toPlain(from) ELSE toPlain(to)) = z
    BY <1>1, <1>2
  <2>2. QED
    BY <1>1, <1>3, <1>4, <1>5, <2>1 DEF plainRangeForWireRange
<1>7. ASSUME NEW w \in from..to
      PROVE  Carried(w) \subseteq s..e
  <2>1. SUFFICES ASSUME NEW x \in Carried(w) PROVE x \in s..e
    OBVIOUS
  <2>2. w \in Nat /\ from <= w /\ w <= to
    OBVIOUS
  <2>3. toPlain(w) = x /\ x \in Nat /\ x < n
    BY <1>3, <2>2, CarriedFacts
  <2>4. a <= x /\ x <= z
    BY <1>1, <2>2, <2>3, ToPlainOrder
  <2>5. QED
    BY <1>3, <1>4, <1>5, <2>3, <2>4 DEF Least
<1>8. ASSUME NEW x \in (s..e) \cap (0..(n - 1))
      PROVE  \/ \E w \in from..to : x \in Carried(w)
             \/ x = n - 1
             \/ x > 0 /\ x % ChunkSize = 0
  <2>1. x \in Nat /\ x < n /\ s <= x /\ x <= e
    BY <1>3
  <2>2. PICK w \in Nat : /\ Carried(w) = {x} /\ toPlain(w) = x
                         /\ w = (x \div ChunkSize) * WireChunk + (x % ChunkSize)
    BY <1>3, <2>1, PlaceFacts
  <2>3. CASE w \in from..to
    BY <2>2, <2>3
  <2>4. CASE w < from
    <3>1. x <= a
      BY <1>1, <2>2, <2>4, ToPlainOrder
    <3>2. CASE x = a
      BY <1>1, <2>1, <2>2, <2>4, <3>2, TagFacts
    <3>3. CASE x < a
      BY <1>2, <1>3, <1>4, <1>5, <2>1, <3>3 DEF Least
    <3>4. QED
      BY <2>1, <3>1, <3>2, <3>3
  <2>5. CASE w > to
    <3>1. z <= x
      BY <1>1, <2>2, <2>5, ToPlainOrder
    <3>2. x = z
      BY <1>3, <1>4, <2>1, <3>1 DEF Least
    <3>3. QED
      BY <1>1, <2>1, <2>2, <2>5, <3>2, TagFacts
  <2>6. QED
    BY <2>3, <2>4, <2>5
<1>9. QED
  BY <1>3, <1>6, <1>7, <1>8

\* The plain bytes an answer carries, and the range it is charged as.
Reached == UNION {IF ask.raw THEN Carried(sent[i]) ELSE {sent[i]} : i \in 1..Len(sent)}
Charged == IF ask.raw THEN plainRangeForWireRange(ask.from, ask.to)
           ELSE <<ask.from, ask.to>>

LEMMA ReachedFacts ==
    \A x : x \in Reached <=>
        \E i \in 1..Len(sent) : (ask.raw /\ x \in Carried(sent[i])) \/ (~ask.raw /\ x = sent[i])
<1>1. \A x : x \in Reached <=>
          \E i \in 1..Len(sent) : x \in (IF ask.raw THEN Carried(sent[i]) ELSE {sent[i]})
  BY Zenon DEF Reached
<1>2. \A x, i : x \in (IF ask.raw THEN Carried(sent[i]) ELSE {sent[i]})
                <=> (ask.raw /\ x \in Carried(sent[i])) \/ (~ask.raw /\ x = sent[i])
  OBVIOUS
<1>3. QED
  BY <1>1, <1>2, Zenon

\* What an answer that was sent completely delivers and what it credits.
LEMMA AnswerCredits ==
    ASSUME SInv, ask.step = "sending", Remaining = 0, NEW Got, NEW r,
           Got = Reached, r = Charged
    PROVE  /\ Got \subseteq r[1]..r[2]
           /\ \A x \in ((r[1]..r[2]) \cap (0..(blob.size - 1))) \ Got :
                 (x > 0 /\ x % ChunkSize = 0) \/ x = blob.size - 1
<1>1. BlobType /\ AskType /\ SentRun
  BY DEF SInv
<1>2. PICK f \in Nat, t \in Int : f = ask.from /\ t = ask.to
  BY <1>1 DEF AskType
<1>3. PICK m \in Nat : m = Len(sent)
  BY <1>1 DEF SentRun
<1>4. m = t - f + 1
  BY <1>2, <1>3 DEF Remaining
<1>5. \A i \in 1..m : sent[i] = f + i - 1
  <2>1. sent = Run(f, m) /\ f \in Int
    BY <1>1, <1>2, <1>3 DEF SentRun
  <2>2. QED
    BY <2>1, RunFacts
<1>6. \A i \in 1..m : sent[i] \in f..t
  BY <1>4, <1>5
<1>7. \A w \in f..t : \E i \in 1..m : sent[i] = w
  <2>1. ASSUME NEW w \in f..t
        PROVE  w - f + 1 \in 1..m /\ sent[w - f + 1] = w
    <3>1. w - f + 1 \in 1..m /\ f + (w - f + 1) - 1 = w
      BY <1>4
    <3>2. QED
      BY <1>5, <3>1
  <2>2. QED
    BY <2>1
<1>8. CASE ~ask.raw
  <2>1. \A x : x \in Got <=> \E i \in 1..m : x = sent[i]
    BY <1>3, <1>8, ReachedFacts
  <2>2. \A x : x \in Got <=> x \in f..t
    BY <1>6, <1>7, <2>1
  <2>3. r[1] = f /\ r[2] = t
    BY <1>2, <1>8 DEF Charged
  <2>4. QED
    BY <2>2, <2>3
<1>9. CASE ask.raw
  <2>1. \A x : x \in Got <=> \E i \in 1..m : x \in Carried(sent[i])
    BY <1>3, <1>9, ReachedFacts
  <2>2. \A x : x \in Got <=> \E w \in f..t : x \in Carried(w)
    BY <1>6, <1>7, <2>1
  <2>3. blob.sealed /\ blob.size \in Nat
    BY <1>1, <1>9 DEF AskType, BlobType
  <2>4. CASE blob.size = 0
    <3>1. ASSUME NEW x \in Got
          PROVE  FALSE
      <4>1. PICK w \in Nat : x \in Carried(w)
        BY <2>2
      <4>2. x \in Nat /\ x < blob.size
        BY <1>1, <2>3, <4>1, CarriedFacts
      <4>3. QED
        BY <2>4, <4>2
    <3>2. 0..(blob.size - 1) = {}
      BY <2>4
    <3>3. QED
      BY <3>1, <3>2
  <2>5. CASE blob.size > 0
    <3>1. t \in Nat /\ f <= t
      BY <1>1, <1>2, <2>3, <2>5 DEF AskType
    <3>2. r = plainRangeForWireRange(f, t)
      BY <1>2, <1>9 DEF Charged
    <3>3. /\ \A w \in f..t : Carried(w) \subseteq r[1]..r[2]
          /\ \A x \in (r[1]..r[2]) \cap (0..(blob.size - 1)) :
                \/ \E w \in f..t : x \in Carried(w)
                \/ x = blob.size - 1
                \/ x > 0 /\ x % ChunkSize = 0
      BY <1>1, <2>3, <2>5, <3>1, <3>2, WireRange
    <3>4. QED
      BY <2>2, <3>3
  <2>6. QED
    BY <2>3, <2>4, <2>5
<1>10. QED
  BY <1>8, <1>9

LEMMA CreditStep == CreditInv /\ [Next]_vars => CreditInv'
<1> SUFFICES ASSUME CreditInv, [Next]_vars PROVE CreditInv'
  OBVIOUS
<1>1. SInv /\ SInv'
  BY StreamStep DEF CreditInv
<1>2. CASE Complete
  <2>1. PICK Got, r : Got = Reached /\ r = Charged
    OBVIOUS
  <2>2. /\ ask.step = "sending" /\ Remaining = 0 /\ blob' = blob
        /\ credited' = credited \cup (r[1]..r[2]) /\ delivered' = delivered \cup Got
    BY <1>2, <2>1 DEF Complete, Reached, Charged
  <2>3. /\ Got \subseteq r[1]..r[2]
        /\ \A x \in ((r[1]..r[2]) \cap (0..(blob.size - 1))) \ Got :
              (x > 0 /\ x % ChunkSize = 0) \/ x = blob.size - 1
    BY <1>1, <2>1, <2>2, AnswerCredits
  <2>4. blob.stored
    BY <1>1, <2>2 DEF SInv, AskType
  <2>5. CreditExact'
    BY <2>2, <2>3 DEF CreditInv, CreditExact
  <2>6. QED
    BY <1>1, <2>2, <2>4, <2>5 DEF CreditInv
<1>3. ASSUME NEW b, Store(b)
      PROVE  CreditInv'
  <2>1. ~blob.stored /\ credited' = credited /\ delivered' = delivered /\ blob' = b /\ b.stored
    BY <1>3 DEF Store, records
  <2>2. QED
    BY <1>1, <2>1 DEF CreditInv, CreditExact
<1>4. CASE blob' = blob /\ delivered' = delivered /\ credited' = credited
  BY <1>1, <1>4 DEF CreditInv, CreditExact
<1>5. QED
  <2>1. CASE UNCHANGED vars
    BY <1>4, <2>1 DEF vars, records
  <2>2. ASSUME NEW key, NEW header, Serve(header, key)
        PROVE  CreditInv'
    BY <1>4, <2>2 DEF Serve, records
  <2>3. ASSUME NEW n, Read(n)
        PROVE  CreditInv'
    BY <1>4, <2>3 DEF Read, SendRaw, LoadChunk, SendPlain, records
  <2>4. CASE GiveUp
    BY <1>4, <2>4 DEF GiveUp, records
  <2>5. QED
    BY <1>2, <1>3, <2>1, <2>2, <2>3, <2>4 DEF Next

\* Whoever downloads an object in pieces is credited every plain byte that reached
\* it, and of the others at most the first byte of a chunk and the last of the file.
THEOREM CreditIsExact == Spec => []CreditExact
<1>1. Init => CreditInv
  BY StreamStart DEF Init, CreditInv, CreditExact
<1>2. CreditInv => CreditExact
  BY DEF CreditInv
<1>3. QED
  BY <1>1, <1>2, CreditStep, PTL DEF Spec

=============================================================================
