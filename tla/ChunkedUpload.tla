--------------------------- MODULE ChunkedUpload ---------------------------
(***************************************************************************)
(* Uploads in signed chunks: pkg/signer cuts the data into chunks, each    *)
(* signed over the signature before it (request-signature-streaming.go),   *)
(* and s3ChunkedReader checks them while it hands out the data             *)
(* (streaming-signature-v4.go).                                            *)
(*                                                                         *)
(* The body is a sequence of tokens: a chunk's header line, a byte of data *)
(* or a line end.  A signature is a free term: the data of the chunks it   *)
(* was made over, after the seed.  One change may happen to the body on    *)
(* its way.                                                                *)
(***************************************************************************)
EXTENDS Integers, Sequences, SequencesExt

CONSTANTS ChunkSize,    \* payloadChunkSize
          Payloads,     \* what is uploaded: sequences of bytes
          BufferSizes   \* of the callers of Read

ASSUME ChunkAssumption ==
  /\ ChunkSize \in Nat \ {0}
  /\ BufferSizes \subseteq Nat \ {0}
  /\ \A p \in Payloads : p \in Seq(Nat)

VARIABLES payload, body,
          intact,     \* nothing happens to the body on its way
          reader,     \* s3ChunkedReader
          call,       \* the call of Read: room left in buf, bytes read into it
          delivered,  \* what calls of Read returned
          outcome     \* "open", "eof" or the error

chunkVars == <<payload, body, intact, reader, call, delivered, outcome>>

Header(n, sig) == [kind |-> "header", byte |-> 0, size |-> n, sig |-> sig]
Data(b)        == [kind |-> "data", byte |-> b, size |-> 0, sig |-> <<>>]
CRLF           == [kind |-> "crlf", byte |-> 0, size |-> 0, sig |-> <<>>]

Bytes(p) == [i \in 1..Len(p) |-> Data(p[i])]

(***************************************************************************)
(* The client.                                                             *)
(***************************************************************************)
TotalChunks(p) == (Len(p) + ChunkSize - 1) \div ChunkSize + 1

\* The data of chunk i; the last chunk has none.
ChunkData(p, i) ==
  LET last == IF i * ChunkSize < Len(p) THEN i * ChunkSize ELSE Len(p)
  IN  Bytes(SubSeq(p, (i - 1) * ChunkSize + 1, last))

\* signChunk, with the signatures of the chunks before it.
SignChunk(p, i) ==
  LET data == ChunkData(p, i)
  IN  <<Header(Len(data), [j \in 1..i |-> ChunkData(p, j)])>> \o data \o <<CRLF>>

Stream(p) == FlattenSeq([i \in 1..TotalChunks(p) |-> SignChunk(p, i)])

\* getStreamLength, in tokens: a chunk has two more than its data.
GetStreamLength(p) ==
  LET chunksCount    == Len(p) \div ChunkSize
      remainingBytes == Len(p) % ChunkSize
  IN  IF Len(p) = 0 THEN 0
      ELSE chunksCount * (ChunkSize + 2)
           + (IF remainingBytes > 0 THEN remainingBytes + 2 ELSE 0) + 2

\* The transport sends as much as was announced; zero is no announcement.
Sent(p) ==
  IF GetStreamLength(p) = 0 THEN Stream(p) ELSE SubSeq(Stream(p), 1, GetStreamLength(p))

(***************************************************************************)
(* One change on the way: a part is lost or repeated, or a token is        *)
(* changed or swapped with the next.                                       *)
(***************************************************************************)
Without(s, i, j)  == SubSeq(s, 1, i - 1) \o SubSeq(s, j + 1, Len(s))
Swapped(s, i)     == [s EXCEPT ![i] = s[i + 1], ![i + 1] = s[i]]
WithByte(s, i, b) == [s EXCEPT ![i].byte = b]
WithSize(s, i, n) == [s EXCEPT ![i].size = n]

Changed(s) ==
  LET at == 1..Len(s)
  IN  ({Without(s, i, j) : i \in at, j \in at} \ {s})
      \cup {Swapped(s, i) : i \in at \ {Len(s)}}
      \cup {WithByte(s, i, s[i].byte + 1) : i \in {j \in at : s[j].kind = "data"}}
      \cup {WithSize(s, i, n) : i \in {j \in at : s[j].kind = "header"}, n \in 0..3}

Idle == [room |-> 0, got |-> <<>>]

NewSignV4ChunkedReader ==
  [state |-> "readChunkHeader", n |-> 0, lastChunk |-> FALSE, chunkSignature |-> <<>>,
   chunkSHA256Writer |-> <<>>, seedSignature |-> <<>>]

ChunkInit ==
  /\ payload \in Payloads
  /\ intact \in BOOLEAN
  /\ body \in IF intact THEN {Sent(payload)} ELSE Changed(Sent(payload))
  /\ reader = NewSignV4ChunkedReader
  /\ call = Idle
  /\ delivered = <<>>
  /\ outcome = "open"

(***************************************************************************)
(* Read.                                                                   *)
(***************************************************************************)
Read(n) ==
  /\ outcome = "open"
  /\ call = Idle
  /\ call' = [room |-> n, got |-> <<>>]
  /\ UNCHANGED <<payload, intact, body, reader, delivered, outcome>>

InState(s) == outcome = "open" /\ call # Idle /\ reader.state = s

\* Read returns an error, and nothing of what it read.
Fails(err) ==
  /\ outcome' = err
  /\ call' = Idle
  /\ UNCHANGED <<payload, intact, body, reader, delivered>>

\* readS3ChunkHeader: an empty line is a chunk of size 0 without a signature.
ReadChunkHeader ==
  /\ InState("readChunkHeader")
  /\ IF body = <<>> \/ Head(body).kind = "data"
     THEN Fails("malformed")
     ELSE LET line == Head(body)
          IN /\ reader' = [reader EXCEPT
                  !.n = line.size,
                  !.chunkSignature = line.sig,
                  !.lastChunk = @ \/ line.size = 0,
                  !.state = IF line.size = 0 THEN "readChunkTrailer" ELSE "readChunk"]
             /\ body' = Tail(body)
             /\ UNCHANGED <<payload, intact, call, delivered, outcome>>

\* Mutant of ReadChunkTrailer: the last chunk is taken as it is.
ReadChunkTrailerMutant ==
  /\ InState("readChunkTrailer")
  /\ IF body = <<>> \/ Head(body).kind # "crlf"
     THEN Fails("malformed")
     ELSE /\ body' = Tail(body)
          /\ reader' = [reader EXCEPT !.state = IF reader.lastChunk THEN "eofChunk" ELSE "verifyChunk"]
          /\ UNCHANGED <<payload, intact, call, delivered, outcome>>

ReadChunkTrailer ==
  /\ InState("readChunkTrailer")
  /\ IF body = <<>> \/ Head(body).kind # "crlf"
     THEN Fails("malformed")
     ELSE /\ body' = Tail(body)
          /\ reader' = [reader EXCEPT !.state = "verifyChunk"]
          /\ UNCHANGED <<payload, intact, call, delivered, outcome>>

\* A full buffer is returned; otherwise as much as the connection gives.
ReadChunk ==
  /\ InState("readChunk")
  /\ \/ /\ call.room = 0
        /\ delivered' = delivered \o call.got
        /\ call' = Idle
        /\ UNCHANGED <<payload, intact, body, reader, outcome>>
     \/ call.room > 0 /\ body = <<>> /\ Fails("unexpected EOF")
     \/ /\ call.room > 0
        /\ \E n0 \in 1..Len(body) :
             LET rbuf == SubSeq(body, 1, n0)
             IN /\ n0 <= call.room /\ n0 <= reader.n
                /\ body' = SubSeq(body, n0 + 1, Len(body))
                /\ call' = [room |-> call.room - n0, got |-> call.got \o rbuf]
                /\ reader' = [reader EXCEPT
                     !.n = @ - n0,
                     !.chunkSHA256Writer = @ \o rbuf,
                     !.state = IF reader.n = n0 THEN "readChunkTrailer" ELSE @]
        /\ UNCHANGED <<payload, intact, delivered, outcome>>

VerifyChunk ==
  /\ InState("verifyChunk")
  /\ LET newSignature == Append(reader.seedSignature, reader.chunkSHA256Writer)
     IN  IF reader.chunkSignature # newSignature
         THEN Fails("signature mismatch")
         ELSE /\ reader' = [reader EXCEPT
                   !.seedSignature = newSignature,
                   !.chunkSHA256Writer = <<>>,
                   !.state = IF reader.lastChunk THEN "eofChunk" ELSE "readChunkHeader"]
              /\ UNCHANGED <<payload, intact, body, call, delivered, outcome>>

EOFChunk ==
  /\ InState("eofChunk")
  /\ delivered' = delivered \o call.got
  /\ call' = Idle
  /\ outcome' = "eof"
  /\ UNCHANGED <<payload, intact, body, reader>>

ChunkNext ==
  \/ \E n \in BufferSizes : Read(n)
  \/ ReadChunkHeader \/ ReadChunkTrailer \/ ReadChunk \/ VerifyChunk \/ EOFChunk

ChunkSpec == ChunkInit /\ [][ChunkNext]_chunkVars
-----------------------------------------------------------------------------
\* Whatever happened to the body, an upload that ends well has exactly the data
\* the client signed, and before the end nothing is handed out that is not
\* verified but bytes of the one chunk in progress (s3ChunkedReader.Read returns
\* data before it has seen the line that follows the chunk).  A body that
\* arrives as StreamingReader sent it is never refused, whatever the size of its
\* last chunk and however it is cut into reads.
StreamIsSigned ==
  LET signed   == Bytes(payload)
      verified == FlattenSeq(reader.seedSignature)
  IN  /\ outcome = "eof" => delivered = signed
      /\ IsPrefix(verified, signed)
      /\ IsPrefix(delivered, verified \o reader.chunkSHA256Writer)
      /\ intact => outcome \in {"open", "eof"}
=============================================================================
