----------------------------- MODULE BlobStream -----------------------------
(***************************************************************************)
(* How the content of an object reaches a client: an object is written in    *)
(* parts, possibly sealed chunk by chunk; a request for a range of it reads   *)
(* through the file of a part (local, or remote by HTTP), the reader that     *)
(* joins the parts and the reader that opens the chunks; what was sent        *)
(* completely is credited to the download job as a range of plain bytes.      *)
(*                                                                         *)
(* A byte is named by its place: a stored byte by its position in the wire    *)
(* stream (chunks with their tags), a plain byte by its position in the file. *)
(* Opening a chunk succeeds for exactly the stored bytes of that chunk.       *)
(* Reads return as many bytes as they like.                                   *)
(***************************************************************************)
EXTENDS Integers, Sequences, FiniteSetsExt

CONSTANTS
    Sizes,       \* sizes of files
    ChunkSize,   \* EncryptionChunkSize (4 MiB in the code)
    TagSize,     \* EncryptionTagOverhead (16 in the code)
    PartSizes,   \* chunk_size of the backend; 0 stores an object in one piece
    BufferSize   \* the most a single Read returns

ASSUME BlobStreamAssumption ==
    /\ Sizes \subseteq Nat
    /\ ChunkSize \in Nat \ {0} /\ TagSize \in Nat \ {0}
    /\ PartSizes \subseteq Nat
    /\ BufferSize \in Nat \ {0}

VARIABLES
    blob,      \* the stored object
    ask,       \* the request being answered
    src,       \* its partsReader and the file of the current part
    opener,    \* its encryptedReadSeeker
    sent,      \* the bytes written to the client so far
    delivered, \* history: plain bytes that reached the client in complete answers
    credited   \* the plain bytes recorded for the job (RecordDownloadRange)

reading == <<ask, src, opener, sent>>
records == <<delivered, credited>>
vars == <<blob, reading, records>>

None == -1
NoBlob == [size |-> 0, sealed |-> FALSE, part |-> 0, remote |-> FALSE, stored |-> FALSE]
Idle == [step |-> "idle", raw |-> FALSE, from |-> 0, to |-> None]
NoReader == [pos |-> 0, current |-> None, filePos |-> None, at |-> 0, body |-> None]
NoOpener == [pos |-> 0, chunk |-> None, buf |-> <<>>]

Init ==
    /\ blob = NoBlob /\ ask = Idle
    /\ src = NoReader /\ opener = NoOpener /\ sent = <<>>
    /\ delivered = {} /\ credited = {}

-----------------------------------------------------------------------------
(* Layout: n plain bytes and what they take on the wire.                   *)

Least(a, b) == IF a <= b THEN a ELSE b
WireChunk == ChunkSize + TagSize
CeilDiv(n, d) == (n + d - 1) \div d
wireSize(n) == IF blob.sealed THEN n + CeilDiv(n, ChunkSize) * TagSize ELSE n

Single == blob.part = 0 \/ blob.size <= blob.part
NumParts == IF Single THEN 1 ELSE CeilDiv(blob.size, blob.part)
PartSize(k) == IF Single THEN blob.size ELSE Least(blob.part, blob.size - k * blob.part)
PartLength(k) == wireSize(PartSize(k))

\* Mutant of PartStart: parts are placed by their plain sizes.
PartStartPlain(k) == IF Single THEN 0 ELSE k * blob.part

\* starts[k] of the reader: all parts before k are full.
PartStart(k) == IF Single THEN 0 ELSE k * wireSize(blob.part)

\* The o-th byte of the file of part k: the writer cuts the stream of the
\* (encrypting) reader part by part.
StoredByte(k, o) == (IF Single THEN 0 ELSE k * wireSize(blob.part)) + o

ChunkLength(i) == Least(ChunkSize, blob.size - i * ChunkSize)

\* The stored bytes of chunk i, with its tag, and its plain bytes.
SealedChunk(i) == [o \in 1..(ChunkLength(i) + TagSize) |-> i * WireChunk + o - 1]

\* The plain byte a stored byte carries; a tag carries none.
Carried(w) ==
    LET i == w \div WireChunk
        o == w % WireChunk
    IN  IF ~blob.sealed THEN {w}
        ELSE IF o < ChunkLength(i) THEN {i * ChunkSize + o} ELSE {}

\* writeObject: a sealed object is cut at chunk boundaries only.
Store(b) ==
    /\ ~blob.stored /\ b.stored
    /\ b.sealed /\ b.part > 0 /\ b.size > 0 => b.part % ChunkSize = 0
    /\ blob' = b
    /\ UNCHANGED <<reading, records>>

-----------------------------------------------------------------------------
(* The file of a part: a local file, or a remote one read by HTTP.  "at" is  *)
(* the position it was sought to, "body" the position of the next byte the   *)
(* file or the open response gives; None while no response is open.          *)

FileSeek(s, target) ==
    IF blob.remote
    THEN [s EXCEPT !.at = target, !.body = IF target = s.at THEN @ ELSE None]
    ELSE [s EXCEPT !.at = target, !.body = target]

\* openAt: the remote side honours the Range header, or it does not and the
\* bytes before the position are read and dropped.
openAt(s, ranged) ==
    IF s.body # None THEN s
    ELSE LET start == IF ranged THEN s.at ELSE 0
             dropped == IF ranged THEN 0 ELSE s.at
         IN  [s EXCEPT !.body = start + dropped]

-----------------------------------------------------------------------------
(* partsReader; an object in one piece is read from its file directly.      *)

partIndexFor(pos) ==
    CHOOSE k \in 0..(NumParts - 1) :
        /\ PartStart(k) <= pos
        /\ k + 1 < NumParts => pos < PartStart(k + 1)

\* Another part: its file is opened, at its beginning.
openPart(s, k) ==
    IF s.current = k THEN s
    ELSE [s EXCEPT !.current = k, !.filePos = PartStart(k), !.at = 0,
                   !.body = IF blob.remote THEN None ELSE 0]

\* Before a read the file is where the reader is (Seek only notes the position).
Aligned(s) ==
    LET k == partIndexFor(s.pos)
        o == openPart(s, k)
    IN  IF o.filePos = s.pos THEN o
        ELSE [FileSeek(o, s.pos - PartStart(k)) EXCEPT !.filePos = s.pos]

\* The reader ready to read at its position.
Ready(s, ranged) == openAt(Aligned(s), ranged)

\* What n more bytes are, and the reader after them; n stays within the part.
Bytes(s, n) == [i \in 1..n |-> StoredByte(s.current, s.body + i - 1)]
Advanced(s, n) == [s EXCEPT !.pos = @ + n, !.filePos = s.pos + n, !.at = @ + n, !.body = @ + n]
LeftInPart(s) == PartStart(s.current) + PartLength(s.current) - s.pos

\* A file in one piece is open from the start, and sought at once.
OpenRaw == IF Single
           THEN [NoReader EXCEPT !.current = 0, !.filePos = 0,
                                 !.body = IF blob.remote THEN None ELSE 0]
           ELSE NoReader

RawSeek(s, target) ==
    IF Single THEN [FileSeek(s, target) EXCEPT !.pos = target, !.filePos = target]
    ELSE [s EXCEPT !.pos = target]

-----------------------------------------------------------------------------
(* Requests.                                                               *)

\* requestedDownloadRange: a header names first and last byte, or None for one
\* of them; the result is empty for a header that is refused.
NoRange == <<None, None>>

requestedDownloadRange(header, size) ==
    LET a == header[1]
        b == header[2]
    IN  IF header = NoRange THEN {<<0, size - 1>>}
        ELSE IF a = None
        THEN IF b > 0 THEN {<<size - Least(b, size), size - 1>>} ELSE {}
        ELSE IF a < size /\ (b = None \/ b >= a)
        THEN {<<a, IF b = None THEN size - 1 ELSE Least(b, size - 1)>>} ELSE {}

Headers == (None..wireSize(blob.size)) \X (None..wireSize(blob.size))

\* A sealed object is sent as it is stored to a client that sends a public key:
\* it gets what opens the chunks along with them.  For any other it is opened.
SentSealed(key) == blob.sealed /\ key

\* The file is asked for, with or without a key.
Serve(header, key) ==
    /\ blob.stored /\ ask.step = "idle"
    /\ LET raw == SentSealed(key)
           size == IF raw THEN wireSize(blob.size) ELSE blob.size
       IN  \E r \in requestedDownloadRange(header, size) :
             /\ ask' = [step |-> "sending", raw |-> raw, from |-> r[1], to |-> r[2]]
             /\ src' = IF raw \/ ~blob.sealed THEN RawSeek(OpenRaw, r[1]) ELSE OpenRaw
             /\ opener' = [NoOpener EXCEPT !.pos = r[1]]
    /\ sent' = <<>>
    /\ UNCHANGED <<blob, records>>

Remaining == ask.to - ask.from + 1 - Len(sent)
Sealed == blob.sealed /\ ~ask.raw

\* Stored bytes go to the client as they are.
SendRaw(n, ranged) ==
    /\ ask.step = "sending" /\ ~Sealed /\ Remaining > 0
    /\ LET s == Ready(src, ranged)
       IN  /\ n <= Least(Remaining, LeftInPart(s))
           /\ sent' = sent \o Bytes(s, n)
           /\ src' = Advanced(s, n)
    /\ UNCHANGED <<blob, ask, opener, records>>

Chunk == opener.pos \div ChunkSize

Cached == opener.chunk = Chunk

\* loadChunk: seek to the chunk, read all of it, open it.
LoadChunk(n, ranged) ==
    /\ ask.step = "sending" /\ Sealed /\ Remaining > 0 /\ ~Cached
    /\ LET wanted == SealedChunk(Chunk)
           from == IF opener.buf = <<>> THEN RawSeek(src, Chunk * WireChunk) ELSE src
           s == Ready(from, ranged)
           buf == opener.buf \o Bytes(s, n)
       IN  /\ n <= Least(Len(wanted) - Len(opener.buf), LeftInPart(s))
           /\ src' = Advanced(s, n)
           /\ IF Len(buf) < Len(wanted)
              THEN opener' = [opener EXCEPT !.buf = buf] /\ ask' = ask
              ELSE /\ opener' = [opener EXCEPT !.buf = <<>>,
                                               !.chunk = IF buf = wanted THEN Chunk ELSE None]
                   /\ ask' = IF buf = wanted THEN ask ELSE [ask EXCEPT !.step = "corrupt"]
    /\ UNCHANGED <<blob, sent, records>>

\* Plain bytes of the open chunk go to the client.
SendPlain(n) ==
    /\ ask.step = "sending" /\ Sealed /\ Remaining > 0 /\ Cached
    /\ LET first == opener.chunk * ChunkSize
           offset == opener.pos - Chunk * ChunkSize
       IN  /\ n <= Least(Remaining, ChunkLength(opener.chunk) - offset)
           /\ sent' = sent \o [i \in 1..n |-> first + offset + i - 1]
    /\ opener' = [opener EXCEPT !.pos = @ + n]
    /\ UNCHANGED <<blob, ask, src, records>>

\* Mutant of toPlain: a position within a tag counts on into the next chunk.
toPlainUncut(position) ==
    IF position < 0 THEN 0
    ELSE (position \div WireChunk) * ChunkSize + (position % WireChunk)

toPlain(position) ==
    IF position < 0 THEN 0
    ELSE (position \div WireChunk) * ChunkSize + Least(position % WireChunk, ChunkSize)

plainRangeForWireRange(from, to) ==
    LET a == toPlain(from)
        b == IF toPlain(to) < a THEN a ELSE toPlain(to)
        end == IF blob.size > 0 THEN Least(b, blob.size - 1) ELSE b
    IN  <<IF blob.size > 0 THEN Least(a, end) ELSE a, end>>

\* Everything was written: the range is recorded, in plain positions.
Complete ==
    /\ ask.step = "sending" /\ Remaining = 0
    /\ LET r == IF ask.raw THEN plainRangeForWireRange(ask.from, ask.to)
                ELSE <<ask.from, ask.to>>
       IN  credited' = credited \cup r[1]..r[2]
    /\ delivered' = delivered \cup
           UNION {IF ask.raw THEN Carried(sent[i]) ELSE {sent[i]} : i \in 1..Len(sent)}
    /\ ask' = Idle /\ src' = NoReader /\ opener' = NoOpener /\ sent' = <<>>
    /\ UNCHANGED blob

\* The client goes away, a response ends early, a chunk does not open: an
\* incomplete answer records nothing.
GiveUp ==
    /\ ask.step # "idle"
    /\ ask' = Idle /\ src' = NoReader /\ opener' = NoOpener /\ sent' = <<>>
    /\ UNCHANGED <<blob, records>>

Read(n) ==
    \/ \E ranged \in BOOLEAN : SendRaw(n, ranged) \/ LoadChunk(n, ranged)
    \/ SendPlain(n)

Next ==
    \/ \E b \in [size: Sizes, sealed: BOOLEAN, part: PartSizes, remote: BOOLEAN,
                 stored: {TRUE}] : Store(b)
    \/ \E key \in BOOLEAN : \E header \in Headers : Serve(header, key)
    \/ \E n \in 1..BufferSize : Read(n)
    \/ Complete
    \/ GiveUp

Spec == Init /\ [][Next]_vars

-----------------------------------------------------------------------------
(* Properties.                                                             *)

\* What is sent is the range that was asked for, byte by byte, however reads
\* are cut, whatever parts, chunks and responses they cross; no chunk that was
\* stored whole fails to open.
StreamExact ==
    /\ ask.step # "corrupt"
    /\ \A i \in 1..Len(sent) : sent[i] = ask.from + i - 1

\* Every plain byte that reached the client is credited.  The converse holds but
\* for single bytes: a range with an end inside a tag also credits the byte
\* next to that tag, the first of the chunk behind it or the last of the file,
\* whether it was sent or not (plainRangeForWireRange).
CreditExact ==
    /\ delivered \subseteq credited
    /\ \A i \in (credited \cap 0..(blob.size - 1)) \ delivered :
         (i > 0 /\ i % ChunkSize = 0) \/ i = blob.size - 1

=============================================================================
