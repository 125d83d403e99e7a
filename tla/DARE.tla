-------------------------------- MODULE DARE --------------------------------
(***************************************************************************)
(* Encrypted streams (pkg/sio): the data is cut into packages, each with a *)
(* header, a nonce that counts and a tag, which readers and writers of two *)
(* versions of the format seal and open; and the part of a stream that the *)
(* range of an object needs (GetDecryptedRange, NewGetObjectReader).       *)
(*                                                                         *)
(* A stream is a sequence of tokens.  A package is two tokens of header,   *)
(* the data and the tag.  A tag is a free term of all that it protects     *)
(* under the one key of the stream.                                        *)
(***************************************************************************)
EXTENDS Integers, Sequences, SequencesExt

CONSTANTS MaxPayloadSize,
          PayloadSizes,   \* what version 1.0 may be configured with
          PlainLengths,   \* lengths of what is encrypted
          Rooms           \* sizes of read buffers and of pieces written

ASSUME DAREAssumption ==
  /\ MaxPayloadSize \in Nat \ {0}
  /\ PayloadSizes \subseteq 1..MaxPayloadSize
  /\ PlainLengths \subseteq Nat /\ Rooms \subseteq Nat \ {0}

VARIABLES job,   \* what is encrypted, how, and how it is read
          enc,   \* the encrypting reader or writer
          wire,  \* what it made
          same,  \* nothing happened to the stream on its way
          dec    \* the decrypting reader or writer, and what came out

dareVars == <<job, enc, wire, same, dec>>

HeaderSize == 2
TagSize == 1
MaxPackageSize == HeaderSize + MaxPayloadSize + TagSize

\* A reader that reads to the end: more than there is, and always room for a package.
NoLimit(w) == Len(w) + MaxPayloadSize + 1

Least(a, b) == IF a < b THEN a ELSE b
Upto(s, n) == SubSeq(s, 1, n)
After(s, n) == SubSeq(s, n + 1, Len(s))

(***************************************************************************)
(* Packages.                                                               *)
(***************************************************************************)
Token(kind) == [kind |-> kind, byte |-> 0, version |-> 0, len |-> 0, nonce |-> 0,
                final |-> FALSE, of |-> <<>>]

Plaintext(n) == [i \in 1..n |-> [Token("data") EXCEPT !.byte = i]]

\* The sequence number is in the header of version 1.0; version 2.0 adds it to
\* the nonce, the same in all headers but for the mark of the last package.
Nonce(version, shown, seq) == IF version = 10 THEN shown ELSE shown + seq

SealPackage(version, seq, final, data) ==
  <<[Token("lead") EXCEPT !.version = version, !.len = Len(data)],
    [Token("nonce") EXCEPT !.nonce = IF version = 10 THEN seq ELSE 0, !.final = final]>>
  \o data
  \o <<[Token("tag") EXCEPT !.of = <<version, Len(data), seq, final, data>>]>>

Payload(pkg) == SubSeq(pkg, HeaderSize + 1, Len(pkg) - TagSize)

Opens(d, pkg) ==
  /\ Len(pkg) > HeaderSize + TagSize
  /\ pkg[1].kind = "lead" /\ pkg[1].version = d.version
  /\ Len(pkg) = HeaderSize + pkg[1].len + TagSize
  /\ pkg[2].kind = "nonce"
  /\ d.version = 10 => pkg[2].nonce = d.seq
  /\ d.version = 20 => /\ ~d.finalized
                       /\ pkg[2].final \/ pkg[1].len = MaxPayloadSize
                       /\ d.refNonce \in {-1, pkg[2].nonce}
  /\ Last(pkg).of = <<d.version, pkg[1].len, Nonce(d.version, pkg[2].nonce, d.seq),
                      pkg[2].final, Payload(pkg)>>

(***************************************************************************)
(* Sizes and ranges.                                                       *)
(***************************************************************************)
EncryptedSize(size) ==
  LET mod == size % MaxPayloadSize
  IN  (size \div MaxPayloadSize) * MaxPackageSize
        + (IF mod > 0 THEN mod + HeaderSize + TagSize ELSE 0)

\* Of a size that no stream has: an error.
DecryptedSize(size) ==
  LET mod == size % MaxPackageSize
  IN  IF mod \in 1..HeaderSize + TagSize THEN -1
      ELSE (size \div MaxPackageSize) * MaxPayloadSize
             + (IF mod > 0 THEN mod - (HeaderSize + TagSize) ELSE 0)

\* Mutant of GetDecryptedRange: the end is the package after the last byte's.
GetDecryptedRangeMutant(size, off, length) ==
  LET startPkgNum == off \div MaxPayloadSize
      endPkgNum   == (off + length) \div MaxPayloadSize
      encOff      == startPkgNum * MaxPackageSize
  IN  [encOff |-> encOff, seq |-> startPkgNum, skip |-> off % MaxPayloadSize,
       encLength |-> Least(endPkgNum * MaxPackageSize, size) - encOff]

\* Of an object of this size: the packages from the one of the first byte to
\* the one of the last, and how much to skip in the first.
GetDecryptedRange(size, off, length) ==
  LET startPkgNum  == off \div MaxPayloadSize
      endPkgNum    == (off + length - 1) \div MaxPayloadSize
      encOff       == startPkgNum * MaxPackageSize
      endEncOffset == Least((endPkgNum + 1) * MaxPackageSize,
                            EncryptedSize(DecryptedSize(size)))
  IN  [encOff |-> encOff, seq |-> startPkgNum, skip |-> off % MaxPayloadSize,
       encLength |-> endEncOffset - encOff]

(***************************************************************************)
(* Encrypting.                                                             *)
(***************************************************************************)
NewEnc(j) == [src |-> j.plain, pending |-> <<>>, seq |-> 0, status |-> "first",
              room |-> 0, buffer |-> <<>>, offset |-> 0]

\* Version 2.0 reads one byte ahead to know the last package.
PayloadOf(e) == Upto(e.src, Least(Len(e.src), job.size))
IsLast(e) == job.version = 20 /\ Len(e.src) <= job.size
NextPackage(e) == SealPackage(job.version, e.seq, IsLast(e), PayloadOf(e))

Sealed(e) == [e EXCEPT !.src = After(@, Len(PayloadOf(e))), !.seq = @ + 1,
                       !.status = IF IsLast(e) THEN "finalized" ELSE "open"]

\* Nothing is left to encrypt: at the first byte, after the last package.
EncEnds(e) == e.src = <<>>

EncRead(n) ==
  /\ job.from = "reader"
  /\ enc.status # "eof" /\ enc.room = 0
  /\ enc' = [enc EXCEPT !.room = n]
  /\ UNCHANGED <<job, wire, same, dec>>

\* What the last Read left in the buffer.
EncDrain ==
  LET rest == After(enc.buffer, enc.offset)
      n    == Least(enc.room, Len(rest))
  IN /\ enc.room > 0 /\ enc.offset > 0
     /\ wire' = wire \o Upto(rest, n)
     /\ enc' = IF enc.room < Len(rest) THEN [enc EXCEPT !.offset = @ + n, !.room = 0]
               ELSE [enc EXCEPT !.offset = 0, !.room = @ - n,
                                !.status = IF @ = "finalized" THEN "eof" ELSE @]
     /\ UNCHANGED <<job, same, dec>>

EncEOF ==
  /\ enc.room > 0 /\ enc.offset = 0 /\ EncEnds(enc) /\ enc.status # "eof"
  /\ enc' = [enc EXCEPT !.status = "eof", !.room = 0]
  /\ UNCHANGED <<job, wire, same, dec>>

\* A package fits into the caller's buffer, which a full one would.
EncWhole ==
  /\ enc.room >= HeaderSize + job.size + TagSize
  /\ enc.offset = 0 /\ ~EncEnds(enc)
  /\ wire' = wire \o NextPackage(enc)
  /\ enc' = IF IsLast(enc) THEN [Sealed(enc) EXCEPT !.status = "eof", !.room = 0]
            ELSE [Sealed(enc) EXCEPT !.room = @ - Len(NextPackage(enc))]
  /\ UNCHANGED <<job, same, dec>>

EncPart ==
  LET pkg == NextPackage(enc)
      n   == Least(enc.room, Len(pkg))
  IN /\ enc.room > 0 /\ enc.room < HeaderSize + job.size + TagSize
     /\ enc.offset = 0 /\ ~EncEnds(enc)
     /\ wire' = wire \o Upto(pkg, n)
     /\ enc' = IF IsLast(enc) /\ enc.room > Len(pkg)
               THEN [Sealed(enc) EXCEPT !.status = "eof", !.room = 0]
               ELSE [Sealed(enc) EXCEPT !.buffer = pkg, !.offset = n, !.room = 0]
     /\ UNCHANGED <<job, same, dec>>

\* Writers hold a package back: version 2.0 until more comes, 1.0 until it is full.
SealNow(n) == IF job.version = 20 THEN n > job.size ELSE n >= job.size

EncWrite(n) ==
  /\ job.from = "writer"
  /\ enc.status # "eof" /\ n <= Len(enc.src) /\ ~SealNow(Len(enc.pending))
  /\ enc' = [enc EXCEPT !.src = After(@, n), !.pending = @ \o Upto(enc.src, n)]
  /\ UNCHANGED <<job, wire, same, dec>>

EncWriteSeals ==
  /\ job.from = "writer"
  /\ SealNow(Len(enc.pending))
  /\ wire' = wire \o SealPackage(job.version, enc.seq, FALSE, Upto(enc.pending, job.size))
  /\ enc' = [enc EXCEPT !.pending = After(@, job.size), !.seq = @ + 1]
  /\ UNCHANGED <<job, same, dec>>

EncClose ==
  /\ job.from = "writer"
  /\ enc.status # "eof" /\ enc.src = <<>> /\ ~SealNow(Len(enc.pending))
  /\ wire' = IF enc.pending = <<>> THEN wire
             ELSE wire \o SealPackage(job.version, enc.seq, job.version = 20, enc.pending)
  /\ enc' = [enc EXCEPT !.pending = <<>>, !.status = "eof"]
  /\ UNCHANGED <<job, same, dec>>

(***************************************************************************)
(* On its way, a part of a stream may be lost, packages be repeated or     *)
(* change places, and a token change.                                      *)
(***************************************************************************)
Cuts(w) == {i \in 0..Len(w) : i = Len(w) \/ w[i + 1].kind = "lead"}

\* Cut off at a and continued at b; and what lies from a to b and to c changes places.
Spliced(w, a, b) == Upto(w, a) \o After(w, b)
Exchanged(w, a, b, c) == Upto(w, a) \o SubSeq(w, b + 1, c) \o SubSeq(w, a + 1, b) \o After(w, c)

Altered(w) ==
  {Spliced(w, a, b) : a \in 0..Len(w), b \in 0..Len(w)}
  \cup {Spliced(w, b, a) : a \in Cuts(w), b \in Cuts(w)}
  \cup {Exchanged(w, a, b, c) : a \in Cuts(w), b \in Cuts(w), c \in Cuts(w)}
  \cup {[w EXCEPT ![i].byte = @ + 1] : i \in {k \in 1..Len(w) : w[k].kind = "data"}}
  \cup {[w EXCEPT ![i].final = ~@] : i \in {k \in 1..Len(w) : w[k].kind = "nonce"}}
  \cup {[w EXCEPT ![i].nonce = 1 - @] : i \in {k \in 1..Len(w) : w[k].kind = "nonce" /\ w[k].nonce < 2}}
  \cup {[w EXCEPT ![i].len = n] : i \in {k \in 1..Len(w) : w[k].kind = "lead"}, n \in 1..MaxPayloadSize}
  \cup {[w EXCEPT ![i].version = 30 - @] : i \in {k \in 1..Len(w) : w[k].kind = "lead"}}

(***************************************************************************)
(* Decrypting.                                                             *)
(***************************************************************************)
NewDec(src, seq, skip, left) ==
  [src |-> src, version |-> 0, pending |-> <<>>, seq |-> seq, finalized |-> FALSE,
   refNonce |-> -1, room |-> 0, buffer |-> <<>>, offset |-> 0, skip |-> skip, left |-> left,
   out |-> <<>>, status |-> "open"]

\* decReaderAt: the packages from the one of the offset on.
ReadAt(w) ==
  LET t == job.off \div MaxPayloadSize
  IN  NewDec(After(w, Least(t * MaxPackageSize, Len(w))), t, job.off % MaxPayloadSize, job.length)

\* NewGetObjectReader, for an encrypted object.
ReadRange(w) ==
  LET r == GetDecryptedRange(Len(w), job.off, job.length)
  IN  NewDec(SubSeq(w, r.encOff + 1, r.encOff + r.encLength), r.seq, r.skip, job.length)

Send ==
  /\ enc.status = "eof" /\ dec.status = "none"
  /\ \/ /\ job.to \in {"reader", "writer"}
        /\ \E w \in {wire} \cup Altered(wire) :
             /\ wire' = w
             /\ same' = (w = wire)
             /\ dec' = NewDec(w, 0, 0, NoLimit(w))
     \/ job.to = "readAt" /\ dec' = ReadAt(wire) /\ UNCHANGED <<wire, same>>
     \/ job.to = "range" /\ dec' = ReadRange(wire) /\ UNCHANGED <<wire, same>>
  /\ UNCHANGED <<job, enc>>

DecFails(err) == dec' = [dec EXCEPT !.status = err, !.room = 0] /\ UNCHANGED <<job, enc, wire, same>>

\* Read gives data to its caller, who skips the beginning.
Given(d, s) ==
  IF d.skip > 0 THEN [d EXCEPT !.skip = @ - Len(s), !.room = @ - Len(s)]
  ELSE [d EXCEPT !.out = @ \o s, !.left = @ - Len(s), !.room = @ - Len(s),
                 !.status = IF d.left = Len(s) THEN "eof" ELSE @]

Reading == job.to # "writer" /\ dec.status = "open"

\* decReader looks at the first byte for the version.
DecFirst ==
  /\ dec.status = "open" /\ dec.version = 0
  /\ IF dec.src = <<>> THEN DecFails("eof")
     ELSE IF dec.src[1].kind # "lead" THEN DecFails("unsupported version")
     ELSE /\ dec' = [dec EXCEPT !.version = dec.src[1].version]
          /\ UNCHANGED <<job, enc, wire, same>>

DecRead(n) ==
  /\ Reading /\ dec.version # 0 /\ dec.room = 0
  /\ dec' = [dec EXCEPT !.room = Least(n, IF dec.skip > 0 THEN dec.skip ELSE dec.left)]
  /\ UNCHANGED <<job, enc, wire, same>>

DecDrain ==
  LET rest == After(dec.buffer, dec.offset)
      n    == Least(dec.room, Len(rest))
  IN /\ Reading /\ dec.room > 0 /\ dec.offset > 0
     /\ dec' = Given([dec EXCEPT !.offset = IF dec.room < Len(rest) THEN @ + n ELSE 0],
                     Upto(rest, n))
     /\ UNCHANGED <<job, enc, wire, same>>

\* Version 2.0 takes as much as the largest package, 1.0 what the header says.
Fetched(d) ==
  Upto(d.src, Least(Len(d.src),
    IF d.version = 20 \/ d.src[1].kind # "lead" THEN MaxPackageSize
    ELSE HeaderSize + d.src[1].len + TagSize))

Opened(d, pkg) ==
  [d EXCEPT !.src = After(@, Len(pkg)), !.seq = @ + 1, !.refNonce = pkg[2].nonce,
            !.finalized = d.version = 20 /\ pkg[2].final]

DecEOF ==
  /\ Reading /\ dec.room > 0 /\ dec.offset = 0 /\ dec.src = <<>>
  /\ DecFails(IF dec.version = 20 /\ ~dec.finalized THEN "unexpected EOF" ELSE "eof")

DecTampered ==
  /\ Reading /\ dec.room > 0 /\ dec.offset = 0 /\ dec.src # <<>>
  /\ ~Opens(dec, Fetched(dec))
  /\ DecFails("tampered")

DecOpens ==
  /\ Reading /\ dec.room > 0 /\ dec.offset = 0 /\ dec.src # <<>>
  /\ Opens(dec, Fetched(dec))

\* The caller's buffer has room for the largest payload.
DecWhole ==
  /\ DecOpens /\ dec.room >= MaxPayloadSize
  /\ dec' = Given(Opened(dec, Fetched(dec)), Payload(Fetched(dec)))
  /\ UNCHANGED <<job, enc, wire, same>>

\* Read returns after a package that goes through the buffer.
DecPart ==
  LET payload == Payload(Fetched(dec))
      n       == Least(dec.room, Len(payload))
  IN /\ DecOpens /\ dec.room < MaxPayloadSize
     /\ dec' = [Given([Opened(dec, Fetched(dec)) EXCEPT !.buffer = payload,
                         !.offset = IF dec.room < Len(payload) THEN n ELSE 0],
                      Upto(payload, n)) EXCEPT !.room = 0]
     /\ UNCHANGED <<job, enc, wire, same>>

Writing == job.to = "writer" /\ dec.status = "open" /\ dec.version # 0

\* A package is complete.
Complete(d) ==
  Len(d.pending) >=
    (IF d.version = 20 \/ Len(d.pending) <= HeaderSize \/ d.pending[1].kind # "lead"
     THEN MaxPackageSize ELSE HeaderSize + d.pending[1].len + TagSize)

\* Nothing may follow the last package.
DecWrite(n) ==
  /\ Writing /\ n <= Len(dec.src) /\ ~Complete(dec)
  /\ IF dec.finalized THEN DecFails("unexpected data")
     ELSE /\ dec' = [dec EXCEPT !.src = After(@, n), !.pending = @ \o Upto(dec.src, n)]
          /\ UNCHANGED <<job, enc, wire, same>>

DecWriteOpens ==
  LET pkg == Fetched([dec EXCEPT !.src = dec.pending])
  IN /\ Writing /\ Complete(dec)
     /\ IF ~Opens(dec, pkg) THEN DecFails("tampered")
        ELSE /\ dec' = [Opened(dec, pkg) EXCEPT
                  !.src = dec.src, !.pending = After(dec.pending, Len(pkg)),
                  !.out = @ \o Payload(pkg)]
             /\ UNCHANGED <<job, enc, wire, same>>

\* Close opens what is left, and does not ask whether the last package came.
DecClose ==
  /\ Writing /\ dec.src = <<>> /\ ~Complete(dec)
  /\ IF dec.pending = <<>> THEN DecFails("eof")
     ELSE IF dec.version = 10 \/ dec.finalized \/ ~Opens(dec, dec.pending) THEN DecFails("tampered")
     ELSE /\ dec' = [dec EXCEPT !.out = @ \o Payload(dec.pending), !.pending = <<>>,
                                !.finalized = dec.pending[2].final, !.status = "eof"]
          /\ UNCHANGED <<job, enc, wire, same>>

(***************************************************************************)
(* The system.                                                             *)
(***************************************************************************)
Jobs ==
  [plain : {Plaintext(n) : n \in PlainLengths}, version : {10, 20},
   size : PayloadSizes \cup {MaxPayloadSize}, from : {"reader", "writer"},
   to : {"reader", "writer", "readAt", "range"},
   off : 0..MaxPayloadSize + 1, length : 0..MaxPayloadSize + 1]

\* Ranges are of whole packages' streams, within the object.
ValidJob(j) ==
  /\ j.version = 20 => j.size = MaxPayloadSize
  /\ IF j.to \in {"reader", "writer"} THEN j.off = 0 /\ j.length = 0
     ELSE j.size = MaxPayloadSize /\ j.length > 0 /\ j.off + j.length <= Len(j.plain)

DAREInit ==
  /\ job \in {j \in Jobs : ValidJob(j)}
  /\ enc = NewEnc(job)
  /\ wire = <<>>
  /\ same = TRUE
  /\ dec = [NewDec(<<>>, 0, 0, 0) EXCEPT !.status = "none"]

DARENext ==
  \/ \E n \in Rooms : EncRead(n) \/ EncWrite(n) \/ DecRead(n) \/ DecWrite(n)
  \/ EncDrain \/ EncEOF \/ EncWhole \/ EncPart \/ EncWriteSeals \/ EncClose
  \/ Send
  \/ DecFirst \/ DecDrain \/ DecEOF \/ DecTampered \/ DecWhole \/ DecPart
  \/ DecWriteOpens \/ DecClose

DARESpec == DAREInit /\ [][DARENext]_dareVars
-----------------------------------------------------------------------------
\* What the reader of the stream should get.
Wanted == IF job.to \in {"reader", "writer"} THEN job.plain
          ELSE SubSeq(job.plain, job.off + 1, job.off + job.length)

\* Whatever happened to a stream, what comes out is the beginning of what went
\* in, never anything else; and a stream of version 2.0 that a reader found to
\* end well came out complete, unless nothing at all was left of it (Open, and
\* the final package; a writer's Close, and version 1.0, do not notice that
\* packages are missing at the end).
OnlyPlaintext ==
  /\ IsPrefix(dec.out, Wanted)
  /\ (dec.status = "eof" /\ dec.version = 20 /\ job.to # "writer") => dec.out = Wanted

\* An intact stream is decrypted completely, whoever made it and however it was
\* cut into reads and writes, from any offset and for any range, with the size
\* EncryptedSize announces (encReader, encWriter, decReader, decWriter, ReadAt,
\* GetDecryptedRange).
IntactIsDecrypted ==
  /\ same => dec.status \in {"none", "open", "eof"}
  /\ (same /\ dec.status = "eof") => dec.out = Wanted
  /\ (enc.status = "eof" /\ same /\ job.size = MaxPayloadSize)
       => /\ Len(wire) = EncryptedSize(Len(job.plain))
          /\ DecryptedSize(Len(wire)) = Len(job.plain)

\* Decryption undoes encryption and nothing else: OnlyPlaintext for streams
\* that were tampered with, IntactIsDecrypted for those that were not.
DecryptedAsEncrypted == OnlyPlaintext /\ IntactIsDecrypted
=============================================================================
