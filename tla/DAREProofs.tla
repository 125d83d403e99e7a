----------------------------- MODULE DAREProofs -----------------------------
(***************************************************************************)
(* Proofs about encrypted streams, for any sizes of data, payloads and     *)
(* buffers: DecryptedAsEncrypted.                                          *)
(*                                                                         *)
(* Package k of a job j has the data from Edge(j, k) to Edge(j, k + 1) and *)
(* begins at Start(j, k) of the stream.  EncInv says which packages have   *)
(* been made; DecInv how much of the data has come out, whatever happened  *)
(* to the stream on its way; and IntactInv what is ahead of a reader or    *)
(* writer if nothing happened to it.                                       *)
(***************************************************************************)
EXTENDS DARE, FiniteSetTheorems, SequenceTheorems, TLAPS

(***************************************************************************)
(* The packages of a job.                                                  *)
(***************************************************************************)
\* A job that occurs.
Job(j) == j \in Jobs /\ ValidJob(j)

\* Where package k begins in the data, and its data.
Edge(j, k) == IF k * j.size < Len(j.plain) THEN k * j.size ELSE Len(j.plain)
Piece(j, k) == SubSeq(j.plain, Edge(j, k) + 1, Edge(j, k + 1))
Ends(j, k) == j.version = 20 /\ Edge(j, k + 1) = Len(j.plain)
Package(j, k) == SealPackage(j.version, k, Ends(j, k), Piece(j, k))

\* Where it begins in the stream.
Start(j, k) == Edge(j, k) + 3 * k

\* The packages there are.
Numbers(j) == {k \in Nat : Edge(j, k) < Len(j.plain)}

\* What occurs in a stream.
TagOf(j, k) == <<j.version, Len(Piece(j, k)), k, Ends(j, k), Piece(j, k)>>
Toks(j) ==
  [kind : {"lead", "nonce", "data", "tag"}, byte : Int, version : Int, len : Int, nonce : Int,
   final : BOOLEAN, of : {<<>>} \cup {TagOf(j, k) : k \in Numbers(j)}]

\* A token of these fields.
TokenOf(kind, byte, version, len, nonce, final, of) ==
  [kind |-> kind, byte |-> byte, version |-> version, len |-> len, nonce |-> nonce,
   final |-> final, of |-> of]
DataToken(i) == TokenOf("data", i, 0, 0, 0, FALSE, <<>>)

\* A token is changed in one of its fields.
LEMMA ByteChanges ==
  ASSUME NEW k, NEW b, NEW v, NEW l, NEW n, NEW f, NEW o, NEW t, t = TokenOf(k, b, v, l, n, f, o), NEW x
  PROVE  [t EXCEPT !.byte = x] = TokenOf(k, x, v, l, n, f, o)
  BY DEF TokenOf

\* In its version.
LEMMA VersionChanges ==
  ASSUME NEW k, NEW b, NEW v, NEW l, NEW n, NEW f, NEW o, NEW t, t = TokenOf(k, b, v, l, n, f, o), NEW x
  PROVE  [t EXCEPT !.version = x] = TokenOf(k, b, x, l, n, f, o)
  BY DEF TokenOf

\* In its length.
LEMMA LenChanges ==
  ASSUME NEW k, NEW b, NEW v, NEW l, NEW n, NEW f, NEW o, NEW t, t = TokenOf(k, b, v, l, n, f, o), NEW x
  PROVE  [t EXCEPT !.len = x] = TokenOf(k, b, v, x, n, f, o)
  BY DEF TokenOf


\* In its nonce.
LEMMA NonceChanges ==
  ASSUME NEW k, NEW b, NEW v, NEW l, NEW n, NEW f, NEW o, NEW t, t = TokenOf(k, b, v, l, n, f, o), NEW x
  PROVE  [t EXCEPT !.nonce = x] = TokenOf(k, b, v, l, x, f, o)
  BY DEF TokenOf


\* In its mark of the last package.
LEMMA FinalChanges ==
  ASSUME NEW k, NEW b, NEW v, NEW l, NEW n, NEW f, NEW o, NEW t, t = TokenOf(k, b, v, l, n, f, o), NEW x
  PROVE  [t EXCEPT !.final = x] = TokenOf(k, b, v, l, n, x, o)
  BY DEF TokenOf

\* In what it was made of.
LEMMA TagChanges ==
  ASSUME NEW k, NEW b, NEW v, NEW l, NEW n, NEW f, NEW o, NEW t, t = TokenOf(k, b, v, l, n, f, o), NEW x
  PROVE  [t EXCEPT !.of = x] = TokenOf(k, b, v, l, n, f, x)
  BY DEF TokenOf

\* A token that was not changed.
LEMMA TokenIs ==
  ASSUME NEW kind
  PROVE  Token(kind) = TokenOf(kind, 0, 0, 0, 0, FALSE, <<>>)
  BY DEF Token, TokenOf

\* Every token has its fields.
LEMMA FieldsOfToken ==
  ASSUME NEW j, NEW t \in Toks(j)
  PROVE  t = TokenOf(t.kind, t.byte, t.version, t.len, t.nonce, t.final, t.of)
  BY DEF Toks, TokenOf

\* What has the fields of a token is one.
LEMMA TokenFits ==
  ASSUME NEW j, NEW k \in {"lead", "nonce", "data", "tag"}, NEW b \in Int, NEW v \in Int, NEW l \in Int,
         NEW n \in Int, NEW f \in BOOLEAN, NEW o \in {<<>>} \cup {TagOf(j, i) : i \in Numbers(j)}
  PROVE  TokenOf(k, b, v, l, n, f, o) \in Toks(j)
  BY DEF Toks, TokenOf

\* The data of a job.
LEMMA JobIs ==
  ASSUME NEW j, Job(j)
  PROVE  /\ \E n \in Nat : j.plain = [i \in 1 .. n |-> DataToken(i)]
         /\ j.size \in Nat \ {0} /\ j.size <= MaxPayloadSize /\ MaxPayloadSize \in Nat \ {0}
         /\ j.version \in {10, 20} /\ (j.version = 20 => j.size = MaxPayloadSize)
         /\ j.from \in {"reader", "writer"} /\ j.to \in {"reader", "writer", "readAt", "range"}
         /\ j.off \in Nat /\ j.length \in Nat
         /\ IF j.to \in {"reader", "writer"} THEN j.off = 0 /\ j.length = 0
            ELSE j.size = MaxPayloadSize /\ j.length > 0 /\ j.off + j.length <= Len(j.plain)
  <1>1. MaxPayloadSize \in Nat \ {0} /\ PayloadSizes \subseteq 1 .. MaxPayloadSize /\ PlainLengths \subseteq Nat
    BY DAREAssumption
  <1>2. /\ j.plain \in {Plaintext(n) : n \in PlainLengths} /\ j.version \in {10, 20}
        /\ j.size \in PayloadSizes \cup {MaxPayloadSize} /\ j.from \in {"reader", "writer"}
        /\ j.to \in {"reader", "writer", "readAt", "range"}
        /\ j.off \in 0..MaxPayloadSize + 1 /\ j.length \in 0..MaxPayloadSize + 1
    BY DEF Job, Jobs
  <1>3. PICK n \in PlainLengths : j.plain = Plaintext(n) BY <1>2
  <1>4. Plaintext(n) = [i \in 1 .. n |-> DataToken(i)]
    <2>1. ASSUME NEW i PROVE [Token("data") EXCEPT !.byte = i] = DataToken(i)
      <3>1. PICK t : t = Token("data") OBVIOUS
      <3>2. PICK f, o : f = FALSE /\ o = <<>> OBVIOUS
      <3>3. t = TokenOf("data", 0, 0, 0, 0, f, o) BY <3>1, <3>2, TokenIs
      <3>4. [t EXCEPT !.byte = i] = TokenOf("data", i, 0, 0, 0, f, o) BY <3>3, ByteChanges
      <3>5. QED BY <3>1, <3>2, <3>4 DEF DataToken
    <2>2. QED BY <2>1 DEF Plaintext
  <1>5. /\ j.version = 20 => j.size = MaxPayloadSize
        /\ IF j.to \in {"reader", "writer"} THEN j.off = 0 /\ j.length = 0
           ELSE j.size = MaxPayloadSize /\ j.length > 0 /\ j.off + j.length <= Len(j.plain)
    BY DEF Job, ValidJob
  <1>6. \E m \in Nat : j.plain = [i \in 1 .. m |-> DataToken(i)] BY <1>1, <1>3, <1>4
  <1>7. /\ j.size \in Nat \ {0} /\ j.size <= MaxPayloadSize /\ j.off \in Nat /\ j.length \in Nat
    <2>1. \A s \in PayloadSizes \cup {MaxPayloadSize} : s \in Nat \ {0} /\ s <= MaxPayloadSize
      BY <1>1
    <2>2. \A o \in 0..MaxPayloadSize + 1 : o \in Nat BY <1>1
    <2>3. QED BY <1>2, <2>1, <2>2
  <1>8. QED BY <1>1, <1>2, <1>5, <1>6, <1>7, Zenon

\* It is a sequence of tokens.
LEMMA PlainIs ==
  ASSUME NEW j, Job(j)
  PROVE  j.plain \in Seq(Toks(j)) /\ Len(j.plain) \in Nat
  <1>1. PICK n \in Nat : j.plain = [i \in 1 .. n |-> DataToken(i)] BY JobIs
  <1>2. \A i \in 1 .. n : DataToken(i) \in Toks(j)
    <2>1. ASSUME NEW i \in 1 .. n PROVE DataToken(i) \in Toks(j)
      <3>1. PICK f, o : f \in BOOLEAN /\ f = FALSE /\ o = <<>> OBVIOUS
      <3>2. TokenOf("data", i, 0, 0, 0, f, o) \in Toks(j) BY <3>1, TokenFits
      <3>3. QED BY <3>1, <3>2 DEF DataToken
    <2>2. QED BY <2>1
  <1>3. QED BY <1>1, <1>2

\* The edges go forward by whole packages, to the end.
LEMMA EdgeIs ==
  ASSUME NEW j, Job(j), NEW k \in Nat
  PROVE  /\ Edge(j, k) \in Nat /\ Edge(j, k + 1) \in Nat /\ Len(j.plain) \in Nat
         /\ Edge(j, k) <= Len(j.plain) /\ Edge(j, k + 1) <= Len(j.plain)
         /\ Edge(j, k) <= Edge(j, k + 1) /\ Edge(j, k + 1) <= Edge(j, k) + j.size
         /\ Edge(j, k) < Len(j.plain) => Edge(j, k) < Edge(j, k + 1) /\ Edge(j, k) = k * j.size
         /\ Edge(j, k + 1) < Len(j.plain) => Edge(j, k + 1) = Edge(j, k) + j.size
         /\ Edge(j, 0) = 0
         /\ j.size \in Nat \ {0}
  <1>1. j.size \in Nat \ {0} /\ Len(j.plain) \in Nat BY JobIs, PlainIs
  <1>2. PICK c \in Nat \ {0}, n \in Nat : c = j.size /\ n = Len(j.plain) BY <1>1
  <1>3. PICK a \in Nat, b \in Nat : a = k * c /\ b = (k + 1) * c /\ b = a + c
    <2>1. k * c \in Nat /\ (k + 1) * c = k * c + c OBVIOUS
    <2>2. QED BY <2>1
  <1>4. 0 * j.size = 0 BY <1>1
  <1>5. /\ Edge(j, k) = IF a < n THEN a ELSE n
        /\ Edge(j, k + 1) = IF b < n THEN b ELSE n
        /\ Edge(j, 0) = IF 0 < n THEN 0 ELSE n
    BY <1>2, <1>3, <1>4 DEF Edge
  <1>6. PICK e, f : e = Edge(j, k) /\ f = Edge(j, k + 1) OBVIOUS
  <1>7. e = (IF a < n THEN a ELSE n) /\ f = (IF b < n THEN b ELSE n) BY <1>5, <1>6
  <1>8. /\ e \in Nat /\ f \in Nat /\ e <= n /\ f <= n /\ e <= f /\ f <= e + c
        /\ (e < n => e < f /\ e = a) /\ (f < n => f = e + c)
    BY <1>3, <1>7
  <1>9. Edge(j, 0) = 0 BY <1>2, <1>5
  <1>10. QED BY <1>1, <1>2, <1>3, <1>6, <1>8, <1>9

\* They are in order.
LEMMA EdgesGrow ==
  ASSUME NEW j, Job(j), NEW i \in Nat, NEW k \in Nat, i <= k
  PROVE  Edge(j, i) <= Edge(j, k)
  <1>1. j.size \in Nat \ {0} /\ Len(j.plain) \in Nat BY JobIs, PlainIs
  <1>2. PICK a \in Nat, b \in Nat : a = i * j.size /\ b = k * j.size BY <1>1
  <1>3. a <= b BY <1>1, <1>2
  <1>4. QED BY <1>1, <1>2, <1>3 DEF Edge

\* Packages follow each other.
LEMMA StartIs ==
  ASSUME NEW j, Job(j), NEW k \in Nat
  PROVE  /\ Start(j, k) \in Nat /\ Start(j, k + 1) \in Nat /\ Start(j, 0) = 0
         /\ Start(j, k + 1) = Start(j, k) + (Edge(j, k + 1) - Edge(j, k)) + 3
  <1>1. PICK e, f : e = Edge(j, k) /\ f = Edge(j, k + 1) OBVIOUS
  <1>2. e \in Nat /\ f \in Nat /\ e <= f /\ Edge(j, 0) = 0 BY <1>1, EdgeIs
  <1>3. Start(j, k) = e + 3 * k /\ Start(j, k + 1) = f + 3 * (k + 1) /\ Start(j, 0) = 0
    BY <1>1, <1>2 DEF Start
  <1>4. QED BY <1>1, <1>2, <1>3

\* They are in order too.
LEMMA StartsGrow ==
  ASSUME NEW j, Job(j), NEW i \in Nat, NEW k \in Nat, i <= k
  PROVE  Start(j, i) <= Start(j, k)
  <1>1. Edge(j, i) <= Edge(j, k) /\ Edge(j, i) \in Nat /\ Edge(j, k) \in Nat BY EdgeIs, EdgesGrow
  <1>2. QED BY <1>1 DEF Start

\* The data of a package.
LEMMA PieceIs ==
  ASSUME NEW j, Job(j), NEW k \in Nat
  PROVE  /\ Piece(j, k) \in Seq(Toks(j)) /\ Len(Piece(j, k)) \in Nat
         /\ Len(Piece(j, k)) = Edge(j, k + 1) - Edge(j, k)
         /\ Len(Piece(j, k)) <= j.size
         /\ \A m \in 1 .. Len(Piece(j, k)) : Piece(j, k)[m] = j.plain[Edge(j, k) + m]
  <1>1. PICK s, e, f, n, c : /\ s = j.plain /\ e = Edge(j, k) /\ f = Edge(j, k + 1) /\ n = Len(s)
                             /\ c = j.size
    OBVIOUS
  <1>2. s \in Seq(Toks(j)) /\ n \in Nat /\ e \in Nat /\ f \in Nat /\ e <= f /\ f <= n
        /\ f <= e + c /\ c \in Nat
    BY <1>1, PlainIs, EdgeIs
  <1>3. \A i \in (e + 1) .. f : s[i] \in Toks(j) BY <1>1, <1>2, ElementOfSeq
  <1>4. /\ SubSeq(s, e + 1, f) \in Seq(Toks(j))
        /\ Len(SubSeq(s, e + 1, f)) = IF e + 1 <= f THEN f - (e + 1) + 1 ELSE 0
        /\ \A i \in 1 .. f - (e + 1) + 1 : SubSeq(s, e + 1, f)[i] = s[(e + 1) + i - 1]
    BY <1>2, <1>3, SubSeqProperties
  <1>5. PICK p : p = SubSeq(s, e + 1, f) OBVIOUS
  <1>6. p \in Seq(Toks(j)) /\ Len(p) = f - e /\ Len(p) \in Nat /\ Len(p) <= c BY <1>2, <1>4, <1>5
  <1>7. \A m \in 1 .. Len(p) : p[m] = s[e + m]
    <2>1. ASSUME NEW m \in 1 .. Len(p) PROVE p[m] = s[e + m]
      <3>1. m \in 1 .. f - (e + 1) + 1 /\ (e + 1) + m - 1 = e + m BY <1>2, <1>6
      <3>2. QED BY <1>4, <1>5, <3>1
    <2>2. QED BY <2>1
  <1>8. Piece(j, k) = p BY <1>1, <1>5 DEF Piece
  <1>9. QED BY <1>1, <1>6, <1>7, <1>8

(***************************************************************************)
(* Parts of sequences.                                                     *)
(***************************************************************************)
\* What lies between two places of a sequence.
Part(s, a, b) == SubSeq(s, a + 1, b)

\* What a part has, and how long it is.
LEMMA PartIs ==
  ASSUME NEW T, NEW s \in Seq(T), NEW a \in Nat, NEW b \in Nat, a <= b, b <= Len(s)
  PROVE  /\ Part(s, a, b) \in Seq(T) /\ Len(Part(s, a, b)) = b - a /\ Len(Part(s, a, b)) \in Nat
         /\ \A m \in 1 .. b - a : Part(s, a, b)[m] = s[a + m]
  <1>1. Len(s) \in Nat OBVIOUS
  <1>2. \A i \in (a + 1) .. b : s[i] \in T BY <1>1, ElementOfSeq
  <1>3. /\ SubSeq(s, a + 1, b) \in Seq(T)
        /\ Len(SubSeq(s, a + 1, b)) = IF a + 1 <= b THEN b - (a + 1) + 1 ELSE 0
        /\ \A i \in 1 .. b - (a + 1) + 1 : SubSeq(s, a + 1, b)[i] = s[(a + 1) + i - 1]
    BY <1>2, SubSeqProperties
  <1>4. PICK p : p = SubSeq(s, a + 1, b) OBVIOUS
  <1>5. p \in Seq(T) /\ Len(p) = b - a /\ Len(p) \in Nat BY <1>3, <1>4
  <1>6. ASSUME NEW m \in 1 .. b - a PROVE p[m] = s[a + m]
    <2>1. m \in 1 .. b - (a + 1) + 1 /\ (a + 1) + m - 1 = a + m OBVIOUS
    <2>2. QED BY <1>3, <1>4, <2>1
  <1>7. QED BY <1>4, <1>5, <1>6 DEF Part

\* What two sequences have together.
LEMMA JoinIs ==
  ASSUME NEW T, NEW s \in Seq(T), NEW t \in Seq(T)
  PROVE  /\ s \o t \in Seq(T) /\ Len(s \o t) = Len(s) + Len(t) /\ Len(s) \in Nat /\ Len(t) \in Nat
         /\ \A m \in 1 .. Len(s) : (s \o t)[m] = s[m]
         /\ \A m \in 1 .. Len(t) : (s \o t)[Len(s) + m] = t[m]
  <1>1. /\ s \o t \in Seq(T) /\ Len(s \o t) = Len(s) + Len(t)
        /\ \A i \in 1 .. Len(s) + Len(t) : (s \o t)[i] = IF i <= Len(s) THEN s[i] ELSE t[i - Len(s)]
    BY ConcatProperties
  <1>2. PICK u : u = s \o t OBVIOUS
  <1>3. PICK x \in Nat, y \in Nat : x = Len(s) /\ y = Len(t) OBVIOUS
  <1>4. \A i \in 1 .. x + y : u[i] = IF i <= x THEN s[i] ELSE t[i - x] BY <1>1, <1>2, <1>3
  <1>5. ASSUME NEW m \in 1 .. x PROVE u[m] = s[m]
    <2>1. m \in 1 .. x + y /\ m <= x OBVIOUS
    <2>2. QED BY <1>4, <2>1
  <1>6. ASSUME NEW m \in 1 .. y PROVE u[x + m] = t[m]
    <2>1. x + m \in 1 .. x + y /\ ~(x + m <= x) /\ (x + m) - x = m OBVIOUS
    <2>2. u[x + m] = t[(x + m) - x] BY <1>4, <2>1
    <2>3. QED BY <2>1, <2>2
  <1>7. QED BY <1>1, <1>2, <1>3, <1>5, <1>6

\* Sequences with the same elements are the same.
LEMMA SameSeq ==
  ASSUME NEW T, NEW s \in Seq(T), NEW t \in Seq(T), Len(s) = Len(t),
         \A m \in 1 .. Len(s) : s[m] = t[m]
  PROVE  s = t
  BY SeqEqual

\* A part of a part.
LEMMA PartOfPart ==
  ASSUME NEW T, NEW s \in Seq(T), NEW a \in Nat, NEW b \in Nat, a <= b, b <= Len(s),
         NEW c \in Nat, NEW d \in Nat, c <= d, d <= b - a
  PROVE  Part(Part(s, a, b), c, d) = Part(s, a + c, a + d)
  <1>1. PICK p : p = Part(s, a, b) OBVIOUS
  <1>2. p \in Seq(T) /\ Len(p) = b - a /\ \A m \in 1 .. b - a : p[m] = s[a + m] BY <1>1, PartIs
  <1>3. Len(s) \in Nat OBVIOUS
  <1>4. PICK q : q = Part(p, c, d) OBVIOUS
  <1>5. q \in Seq(T) /\ Len(q) = d - c /\ \A m \in 1 .. d - c : q[m] = p[c + m]
    <2>1. p \in Seq(T) /\ d <= Len(p) BY <1>2
    <2>2. /\ Part(p, c, d) \in Seq(T) /\ Len(Part(p, c, d)) = d - c
          /\ \A m \in 1 .. d - c : Part(p, c, d)[m] = p[c + m]
      BY <2>1, PartIs
    <2>3. QED BY <1>4, <2>2
  <1>6. PICK e \in Nat, f \in Nat : e = a + c /\ f = a + d /\ e <= f /\ f <= Len(s) /\ f - e = d - c
    BY <1>3
  <1>7. PICK r : r = Part(s, e, f) OBVIOUS
  <1>8. r \in Seq(T) /\ Len(r) = f - e /\ \A m \in 1 .. f - e : r[m] = s[e + m]
    <2>1. /\ Part(s, e, f) \in Seq(T) /\ Len(Part(s, e, f)) = f - e
          /\ \A m \in 1 .. f - e : Part(s, e, f)[m] = s[e + m]
      BY <1>6, PartIs
    <2>2. QED BY <1>7, <2>1
  <1>9. ASSUME NEW m \in 1 .. Len(q) PROVE q[m] = r[m]
    <2>1. m \in 1 .. d - c /\ m \in 1 .. f - e /\ c + m \in 1 .. b - a /\ a + (c + m) = e + m
      BY <1>5, <1>6
    <2>2. q[m] = p[c + m] /\ r[m] = s[e + m] /\ p[c + m] = s[a + (c + m)] BY <1>2, <1>5, <1>8, <2>1
    <2>3. QED BY <2>1, <2>2
  <1>10. q = r
    <2>1. Len(q) = Len(r) BY <1>5, <1>6, <1>8
    <2>2. QED BY <1>5, <1>8, <1>9, <2>1, SameSeq
  <1>11. QED BY <1>1, <1>4, <1>6, <1>7, <1>10

\* A part of the first of two sequences.
LEMMA PartOfFirst ==
  ASSUME NEW T, NEW s \in Seq(T), NEW t \in Seq(T), NEW c \in Nat, NEW d \in Nat, c <= d, d <= Len(s)
  PROVE  Part(s \o t, c, d) = Part(s, c, d)
  <1>1. PICK u : u = s \o t OBVIOUS
  <1>2. /\ u \in Seq(T) /\ Len(u) = Len(s) + Len(t) /\ Len(s) \in Nat /\ Len(t) \in Nat
        /\ \A m \in 1 .. Len(s) : u[m] = s[m]
    BY <1>1, JoinIs
  <1>3. d <= Len(u) BY <1>2
  <1>4. PICK p : p = Part(u, c, d) OBVIOUS
  <1>5. p \in Seq(T) /\ Len(p) = d - c /\ \A m \in 1 .. d - c : p[m] = u[c + m]
    <2>1. /\ Part(u, c, d) \in Seq(T) /\ Len(Part(u, c, d)) = d - c
          /\ \A m \in 1 .. d - c : Part(u, c, d)[m] = u[c + m]
      BY <1>2, <1>3, PartIs
    <2>2. QED BY <1>4, <2>1
  <1>6. PICK q : q = Part(s, c, d) OBVIOUS
  <1>7. q \in Seq(T) /\ Len(q) = d - c /\ \A m \in 1 .. d - c : q[m] = s[c + m] BY <1>6, PartIs
  <1>8. ASSUME NEW m \in 1 .. Len(p) PROVE p[m] = q[m]
    <2>1. m \in 1 .. d - c /\ c + m \in 1 .. Len(s) BY <1>2, <1>5
    <2>2. QED BY <1>2, <1>5, <1>7, <2>1
  <1>9. p = q
    <2>1. Len(p) = Len(q) BY <1>5, <1>7
    <2>2. QED BY <1>5, <1>7, <1>8, <2>1, SameSeq
  <1>10. QED BY <1>1, <1>4, <1>6, <1>9

\* And of what lies across the seam of two sequences.
LEMMA PartAcross ==
  ASSUME NEW T, NEW s \in Seq(T), NEW t \in Seq(T), NEW c \in Nat, c <= Len(s),
         NEW d \in Nat, d <= Len(t)
  PROVE  Part(s \o t, c, Len(s) + d) = Part(s, c, Len(s)) \o Part(t, 0, d)
  <1>1. PICK u : u = s \o t OBVIOUS
  <1>2. PICK x \in Nat, y \in Nat : x = Len(s) /\ y = Len(t) OBVIOUS
  <1>3. /\ u \in Seq(T) /\ Len(u) = x + y
        /\ \A m \in 1 .. x : u[m] = s[m]
        /\ \A m \in 1 .. y : u[x + m] = t[m]
    BY <1>1, <1>2, JoinIs
  <1>4. PICK p : p = Part(u, c, x + d) OBVIOUS
  <1>5. p \in Seq(T) /\ Len(p) = x + d - c /\ \A m \in 1 .. x + d - c : p[m] = u[c + m]
    <2>1. x + d \in Nat /\ c <= x + d /\ x + d <= Len(u) BY <1>2, <1>3
    <2>2. /\ Part(u, c, x + d) \in Seq(T) /\ Len(Part(u, c, x + d)) = x + d - c
          /\ \A m \in 1 .. x + d - c : Part(u, c, x + d)[m] = u[c + m]
      BY <1>3, <2>1, PartIs
    <2>3. QED BY <1>4, <2>2
  <1>6. PICK q, r : q = Part(s, c, x) /\ r = Part(t, 0, d) OBVIOUS
  <1>7. q \in Seq(T) /\ Len(q) = x - c /\ \A m \in 1 .. x - c : q[m] = s[c + m]
    <2>1. /\ Part(s, c, x) \in Seq(T) /\ Len(Part(s, c, x)) = x - c
          /\ \A m \in 1 .. x - c : Part(s, c, x)[m] = s[c + m]
      BY <1>2, PartIs
    <2>2. QED BY <1>6, <2>1
  <1>8. r \in Seq(T) /\ Len(r) = d /\ \A m \in 1 .. d : r[m] = t[m]
    <2>1. r = Part(t, 0, d) /\ 0 <= d /\ d <= Len(t) /\ 0 \in Nat BY <1>2, <1>6
    <2>2. r \in Seq(T) /\ Len(r) = d - 0 /\ \A m \in 1 .. d - 0 : r[m] = t[0 + m]
      <3>1. /\ Part(t, 0, d) \in Seq(T) /\ Len(Part(t, 0, d)) = d - 0 /\ Len(Part(t, 0, d)) \in Nat
            /\ \A m \in 1 .. d - 0 : Part(t, 0, d)[m] = t[0 + m]
        BY <2>1, PartIs
      <3>2. QED BY <2>1, <3>1
    <2>3. d - 0 = d /\ \A m \in 1 .. d : 0 + m = m OBVIOUS
    <2>4. QED BY <2>2, <2>3
  <1>9. PICK v : v = q \o r OBVIOUS
  <1>10. /\ v \in Seq(T) /\ Len(v) = (x - c) + d
         /\ \A m \in 1 .. x - c : v[m] = q[m]
         /\ \A m \in 1 .. d : v[(x - c) + m] = r[m]
    <2>1. /\ q \o r \in Seq(T) /\ Len(q \o r) = Len(q) + Len(r)
          /\ \A m \in 1 .. Len(q) : (q \o r)[m] = q[m]
          /\ \A m \in 1 .. Len(r) : (q \o r)[Len(q) + m] = r[m]
      <3>1. q \in Seq(T) /\ r \in Seq(T) BY <1>7, <1>8
      <3>2. QED BY <3>1, ConcatProperties
    <2>2. QED BY <1>7, <1>8, <1>9, <2>1
  <1>11. ASSUME NEW m \in 1 .. Len(p) PROVE p[m] = v[m]
    <2>1. m \in 1 .. x + d - c /\ p[m] = u[c + m] BY <1>5
    <2>2. CASE m <= x - c
      <3>1. m \in 1 .. x - c /\ c + m \in 1 .. x BY <1>2, <2>1, <2>2
      <3>2. QED BY <1>3, <1>7, <1>10, <2>1, <3>1
    <2>3. CASE m > x - c
      <3>1. PICK k \in 1 .. d : k = m - (x - c) BY <1>2, <2>1, <2>3
      <3>2. k \in 1 .. y /\ c + m = x + k /\ m = (x - c) + k BY <1>2, <2>1, <3>1
      <3>3. p[m] = u[x + k] /\ v[m] = v[(x - c) + k] BY <2>1, <3>2
      <3>4. u[x + k] = t[k] /\ v[(x - c) + k] = r[k] /\ r[k] = t[k] BY <1>3, <1>8, <1>10, <3>1, <3>2
      <3>5. QED BY <3>3, <3>4
    <2>4. QED BY <1>2, <2>1, <2>2, <2>3
  <1>12. p = v
    <2>1. Len(p) = Len(v) BY <1>2, <1>5, <1>10
    <2>2. QED BY <1>5, <1>10, <1>11, <2>1, SameSeq
  <1>13. QED BY <1>1, <1>2, <1>4, <1>6, <1>9, <1>12

\* Neighbouring parts join.
LEMMA PartsJoin ==
  ASSUME NEW T, NEW s \in Seq(T), NEW a \in Nat, NEW b \in Nat, NEW c \in Nat, a <= b, b <= c, c <= Len(s)
  PROVE  Part(s, a, b) \o Part(s, b, c) = Part(s, a, c)
  <1>1. PICK p, q, r : p = Part(s, a, b) /\ q = Part(s, b, c) /\ r = Part(s, a, c) OBVIOUS
  <1>2. Len(s) \in Nat /\ b <= Len(s) /\ a <= c OBVIOUS
  <1>3. p \in Seq(T) /\ Len(p) = b - a /\ \A m \in 1 .. b - a : p[m] = s[a + m]
    <2>1. p = Part(s, a, b) /\ a <= b /\ b <= Len(s) BY <1>1, <1>2
    <2>2. /\ Part(s, a, b) \in Seq(T) /\ Len(Part(s, a, b)) = b - a /\ Len(Part(s, a, b)) \in Nat
          /\ \A m \in 1 .. b - a : Part(s, a, b)[m] = s[a + m]
      BY <2>1, PartIs
    <2>3. QED BY <2>1, <2>2
  <1>4. q \in Seq(T) /\ Len(q) = c - b /\ \A m \in 1 .. c - b : q[m] = s[b + m]
    <2>1. q = Part(s, b, c) /\ b <= c /\ c <= Len(s) BY <1>1, <1>2
    <2>2. /\ Part(s, b, c) \in Seq(T) /\ Len(Part(s, b, c)) = c - b /\ Len(Part(s, b, c)) \in Nat
          /\ \A m \in 1 .. c - b : Part(s, b, c)[m] = s[b + m]
      BY <2>1, PartIs
    <2>3. QED BY <2>1, <2>2
  <1>5. r \in Seq(T) /\ Len(r) = c - a /\ \A m \in 1 .. c - a : r[m] = s[a + m]
    <2>1. r = Part(s, a, c) /\ a <= c /\ c <= Len(s) BY <1>1, <1>2
    <2>2. /\ Part(s, a, c) \in Seq(T) /\ Len(Part(s, a, c)) = c - a /\ Len(Part(s, a, c)) \in Nat
          /\ \A m \in 1 .. c - a : Part(s, a, c)[m] = s[a + m]
      BY <2>1, PartIs
    <2>3. QED BY <2>1, <2>2
  <1>6. PICK v : v = p \o q OBVIOUS
  <1>7. /\ v \in Seq(T) /\ Len(v) = (b - a) + (c - b)
        /\ \A m \in 1 .. b - a : v[m] = p[m]
        /\ \A m \in 1 .. c - b : v[(b - a) + m] = q[m]
    <2>1. /\ p \o q \in Seq(T) /\ Len(p \o q) = Len(p) + Len(q)
          /\ \A m \in 1 .. Len(p) : (p \o q)[m] = p[m]
          /\ \A m \in 1 .. Len(q) : (p \o q)[Len(p) + m] = q[m]
      <3>1. p \in Seq(T) /\ q \in Seq(T) BY <1>3, <1>4
      <3>2. QED BY <3>1, ConcatProperties
    <2>2. QED BY <1>3, <1>4, <1>6, <2>1
  <1>8. ASSUME NEW m \in 1 .. Len(v) PROVE v[m] = r[m]
    <2>1. m \in 1 .. c - a /\ r[m] = s[a + m] BY <1>5, <1>7
    <2>2. CASE m <= b - a
      <3>1. m \in 1 .. b - a BY <2>1, <2>2
      <3>2. QED BY <1>3, <1>7, <2>1, <3>1
    <2>3. CASE m > b - a
      <3>1. PICK k \in 1 .. c - b : k = m - (b - a) BY <2>1, <2>3
      <3>2. m = (b - a) + k /\ a + m = b + k BY <2>1, <3>1
      <3>3. v[m] = v[(b - a) + k] /\ r[m] = s[b + k] BY <2>1, <3>2
      <3>4. v[(b - a) + k] = q[k] /\ q[k] = s[b + k] BY <1>4, <1>7, <3>1
      <3>5. QED BY <3>3, <3>4
    <2>4. QED BY <2>1, <2>2, <2>3
  <1>9. v = r
    <2>1. Len(v) = Len(r) BY <1>5, <1>7
    <2>2. QED BY <1>5, <1>7, <1>8, <2>1, SameSeq
  <1>10. QED BY <1>1, <1>6, <1>9

\* All of a sequence.
LEMMA WholePart ==
  ASSUME NEW T, NEW s \in Seq(T)
  PROVE  Part(s, 0, Len(s)) = s /\ Len(s) \in Nat
  <1>1. Len(s) \in Nat OBVIOUS
  <1>2. PICK p : p = Part(s, 0, Len(s)) OBVIOUS
  <1>3. p \in Seq(T) /\ Len(p) = Len(s) - 0 /\ \A m \in 1 .. Len(s) - 0 : p[m] = s[0 + m]
    BY <1>1, <1>2, PartIs
  <1>4. Len(p) = Len(s) /\ \A m \in 1 .. Len(p) : p[m] = s[m] BY <1>1, <1>3
  <1>5. p = s BY <1>3, <1>4, SameSeq
  <1>6. QED BY <1>1, <1>2, <1>5

\* A part of nothing.
LEMMA NoPart ==
  ASSUME NEW T, NEW s \in Seq(T), NEW a \in Nat, a <= Len(s)
  PROVE  Part(s, a, a) = <<>>
  <1>1. PICK p : p = Part(s, a, a) OBVIOUS
  <1>2. p \in Seq(T) /\ Len(p) = a - a BY <1>1, PartIs
  <1>3. Len(p) = 0 BY <1>2
  <1>4. p = <<>> BY <1>2, <1>3, EmptySeq
  <1>5. QED BY <1>1, <1>4

\* A beginning and what comes after it are parts.
LEMMA UptoIs ==
  ASSUME NEW s, NEW n
  PROVE  Upto(s, n) = Part(s, 0, n) /\ After(s, n) = Part(s, n, Len(s))
  <1>1. 0 + 1 = 1 OBVIOUS
  <1>2. QED BY <1>1 DEF Upto, After, Part

\* What comes after the beginning.
LEMMA SplitIs ==
  ASSUME NEW T, NEW s \in Seq(T), NEW n \in Nat, n <= Len(s)
  PROVE  /\ Upto(s, n) \in Seq(T) /\ Len(Upto(s, n)) = n
         /\ After(s, n) \in Seq(T) /\ Len(After(s, n)) = Len(s) - n /\ Len(After(s, n)) \in Nat
         /\ Upto(s, n) \o After(s, n) = s
         /\ \A m \in 1 .. n : Upto(s, n)[m] = s[m]
         /\ \A m \in 1 .. Len(s) - n : After(s, n)[m] = s[n + m]
  <1>1. PICK z \in Nat : z = Len(s) OBVIOUS
  <1>2. PICK p, q : p = Part(s, 0, n) /\ q = Part(s, n, z) OBVIOUS
  <1>3. p \in Seq(T) /\ Len(p) = n - 0 /\ \A m \in 1 .. n - 0 : p[m] = s[0 + m]
    <2>1. /\ Part(s, 0, n) \in Seq(T) /\ Len(Part(s, 0, n)) = n - 0
          /\ \A m \in 1 .. n - 0 : Part(s, 0, n)[m] = s[0 + m]
      BY PartIs
    <2>2. QED BY <1>2, <2>1
  <1>4. q \in Seq(T) /\ Len(q) = z - n /\ Len(q) \in Nat /\ \A m \in 1 .. z - n : q[m] = s[n + m]
    <2>1. /\ Part(s, n, z) \in Seq(T) /\ Len(Part(s, n, z)) = z - n /\ Len(Part(s, n, z)) \in Nat
          /\ \A m \in 1 .. z - n : Part(s, n, z)[m] = s[n + m]
      <3>1. n <= z /\ z <= Len(s) BY <1>1
      <3>2. QED BY <3>1, PartIs, Zenon
    <2>2. QED BY <1>2, <2>1
  <1>5. n - 0 = n /\ \A m \in 1 .. n : 0 + m = m OBVIOUS
  <1>6. p \o q = Part(s, 0, z)
    <2>1. z <= Len(s) /\ 0 <= n /\ n <= z BY <1>1
    <2>2. Part(s, 0, n) \o Part(s, n, z) = Part(s, 0, z) BY <2>1, PartsJoin
    <2>3. QED BY <1>2, <2>2
  <1>7. p \o q = s BY <1>1, <1>6, WholePart
  <1>8. Upto(s, n) = p /\ After(s, n) = q BY <1>1, <1>2, UptoIs
  <1>9. QED BY <1>1, <1>3, <1>4, <1>5, <1>7, <1>8

(***************************************************************************)
(* Packages.                                                               *)
(***************************************************************************)
\* What protects the data of a package.
Lead(j, k) == TokenOf("lead", 0, j.version, Len(Piece(j, k)), 0, FALSE, <<>>)
Mark(j, k) == TokenOf("nonce", 0, 0, 0, IF j.version = 10 THEN k ELSE 0, Ends(j, k), <<>>)
SealMark(j, k) == TokenOf("tag", 0, 0, 0, 0, FALSE, TagOf(j, k))

\* The fields of a token.
LEMMA FieldsOf ==
  ASSUME NEW k, NEW b, NEW v, NEW l, NEW n, NEW f, NEW o, NEW t, t = TokenOf(k, b, v, l, n, f, o)
  PROVE  t.kind = k /\ t.byte = b /\ t.version = v /\ t.len = l /\ t.nonce = n /\ t.final = f /\ t.of = o
  BY DEF TokenOf

\* The first token of a header.
LEMMA LeadIs ==
  ASSUME NEW v, NEW l
  PROVE  [Token("lead") EXCEPT !.version = v, !.len = l] = TokenOf("lead", 0, v, l, 0, FALSE, <<>>)
  <1>1. PICK t, f, o : t = Token("lead") /\ f = FALSE /\ o = <<>> OBVIOUS
  <1>2. t = TokenOf("lead", 0, 0, 0, 0, f, o) BY <1>1, TokenIs
  <1>3. [t EXCEPT !.version = v, !.len = l] = TokenOf("lead", 0, v, l, 0, f, o)
    <2>1. PICK k, z : k = "lead" /\ z = 0 OBVIOUS
    <2>2. t = TokenOf(k, z, z, z, z, f, o) BY <1>2, <2>1
    <2>3. [t EXCEPT !.version = v, !.len = l] = [[t EXCEPT !.version = v] EXCEPT !.len = l]
      BY <2>2 DEF TokenOf
    <2>4. PICK u : u = [t EXCEPT !.version = v] OBVIOUS
    <2>5. u = TokenOf("lead", 0, v, 0, 0, f, o) BY <1>2, <2>4, VersionChanges
    <2>6. [u EXCEPT !.len = l] = TokenOf("lead", 0, v, l, 0, f, o) BY <2>5, LenChanges
    <2>7. QED BY <2>3, <2>4, <2>6
  <1>4. QED BY <1>1, <1>3

\* The second one.
LEMMA MarkIs ==
  ASSUME NEW n, NEW x
  PROVE  [Token("nonce") EXCEPT !.nonce = n, !.final = x] = TokenOf("nonce", 0, 0, 0, n, x, <<>>)
  <1>1. PICK t, f, o : t = Token("nonce") /\ f = FALSE /\ o = <<>> OBVIOUS
  <1>2. t = TokenOf("nonce", 0, 0, 0, 0, f, o) BY <1>1, TokenIs
  <1>3. [t EXCEPT !.nonce = n, !.final = x] = TokenOf("nonce", 0, 0, 0, n, x, o)
    <2>1. PICK k, z : k = "nonce" /\ z = 0 OBVIOUS
    <2>2. t = TokenOf(k, z, z, z, z, f, o) BY <1>2, <2>1
    <2>3. [t EXCEPT !.nonce = n, !.final = x] = [[t EXCEPT !.nonce = n] EXCEPT !.final = x]
      BY <2>2 DEF TokenOf
    <2>4. PICK u : u = [t EXCEPT !.nonce = n] OBVIOUS
    <2>5. u = TokenOf("nonce", 0, 0, 0, n, f, o) BY <1>2, <2>4, NonceChanges
    <2>6. [u EXCEPT !.final = x] = TokenOf("nonce", 0, 0, 0, n, x, o) BY <2>5, FinalChanges
    <2>7. QED BY <2>3, <2>4, <2>6
  <1>4. QED BY <1>1, <1>3

\* The tag of a package.
LEMMA SealIsToken ==
  ASSUME NEW x
  PROVE  [Token("tag") EXCEPT !.of = x] = TokenOf("tag", 0, 0, 0, 0, FALSE, x)
  <1>1. PICK t, f, o : t = Token("tag") /\ f = FALSE /\ o = <<>> OBVIOUS
  <1>2. t = TokenOf("tag", 0, 0, 0, 0, f, o) BY <1>1, TokenIs
  <1>3. [t EXCEPT !.of = x] = TokenOf("tag", 0, 0, 0, 0, f, x) BY <1>2, TagChanges
  <1>4. QED BY <1>1, <1>3

\* The tokens of a package occur in streams.
LEMMA PartsFit ==
  ASSUME NEW j, Job(j), NEW k \in Numbers(j)
  PROVE  Lead(j, k) \in Toks(j) /\ Mark(j, k) \in Toks(j) /\ SealMark(j, k) \in Toks(j)
  <1>1. k \in Nat /\ j.version \in Int BY JobIs DEF Numbers
  <1>2. Len(Piece(j, k)) \in Int BY <1>1, PieceIs
  <1>3. PICK f \in BOOLEAN, o \in {<<>>} \cup {TagOf(j, i) : i \in Numbers(j)} : f = FALSE /\ o = <<>>
    OBVIOUS
  <1>4. Ends(j, k) \in BOOLEAN BY DEF Ends
  <1>5. PICK n \in Int : n = IF j.version = 10 THEN k ELSE 0 BY <1>1
  <1>6. TagOf(j, k) \in {<<>>} \cup {TagOf(j, i) : i \in Numbers(j)} OBVIOUS
  <1>7. TokenOf("lead", 0, j.version, Len(Piece(j, k)), 0, f, o) \in Toks(j)
    BY <1>1, <1>2, <1>3, TokenFits
  <1>8. PICK e \in BOOLEAN : e = Ends(j, k) BY <1>4
  <1>9. TokenOf("nonce", 0, 0, 0, n, e, o) \in Toks(j) BY <1>3, TokenFits
  <1>10. PICK g \in {<<>>} \cup {TagOf(j, i) : i \in Numbers(j)} : g = TagOf(j, k) BY <1>6
  <1>11. TokenOf("tag", 0, 0, 0, 0, f, g) \in Toks(j) BY TokenFits
  <1>12. QED BY <1>3, <1>5, <1>7, <1>8, <1>9, <1>10, <1>11 DEF Lead, Mark, SealMark

\* A package, token by token.
LEMMA PackageIs ==
  ASSUME NEW j, Job(j), NEW k \in Numbers(j)
  PROVE  /\ Package(j, k) \in Seq(Toks(j)) /\ Len(Package(j, k)) \in Nat
         /\ Len(Package(j, k)) = Len(Piece(j, k)) + 3
         /\ Package(j, k)[1] = Lead(j, k) /\ Package(j, k)[2] = Mark(j, k)
         /\ \A m \in 1 .. Len(Piece(j, k)) : Package(j, k)[2 + m] = Piece(j, k)[m]
         /\ Package(j, k)[Len(Piece(j, k)) + 3] = SealMark(j, k)
  <1>1. k \in Nat BY DEF Numbers
  <1>2. PICK T, d, a, b, c : /\ T = Toks(j) /\ d = Piece(j, k) /\ a = Lead(j, k) /\ b = Mark(j, k)
                             /\ c = SealMark(j, k)
    OBVIOUS
  <1>3. a \in T /\ b \in T /\ c \in T BY <1>2, PartsFit
  <1>4. d \in Seq(T) /\ Len(d) \in Nat BY <1>1, <1>2, PieceIs
  <1>5. PICK p : p = Package(j, k) OBVIOUS
  <1>6. p = <<a, b>> \o d \o <<c>>
    <2>1. PICK l, e, n, g : /\ l = Len(Piece(j, k)) /\ e = Ends(j, k) /\ g = TagOf(j, k)
                            /\ n = IF j.version = 10 THEN k ELSE 0
      OBVIOUS
    <2>2. [Token("lead") EXCEPT !.version = j.version, !.len = l] = a BY <1>2, <2>1, LeadIs DEF Lead
    <2>3. [Token("nonce") EXCEPT !.nonce = n, !.final = e] = b BY <1>2, <2>1, MarkIs DEF Mark
    <2>4. [Token("tag") EXCEPT !.of = g] = c BY <1>2, <2>1, SealIsToken DEF SealMark
    <2>5. p = <<[Token("lead") EXCEPT !.version = j.version, !.len = l],
                [Token("nonce") EXCEPT !.nonce = n, !.final = e]>> \o d
              \o <<[Token("tag") EXCEPT !.of = g]>>
      BY <1>2, <1>5, <2>1, Zenon DEF Package, SealPackage, TagOf
    <2>6. QED BY <2>2, <2>3, <2>4, <2>5
  <1>7. <<a, b>> \in Seq(T) /\ Len(<<a, b>>) = 2 /\ <<c>> \in Seq(T) /\ Len(<<c>>) = 1 BY <1>3
  <1>8. PICK h, y : h = <<a, b>> /\ y = <<c>> OBVIOUS
  <1>9. h \in Seq(T) /\ Len(h) = 2 /\ y \in Seq(T) /\ Len(y) = 1 /\ h[1] = a /\ h[2] = b /\ y[1] = c
    BY <1>7, <1>8
  <1>10. PICK u : u = h \o d OBVIOUS
  <1>11. /\ u \in Seq(T) /\ Len(u) = 2 + Len(d)
         /\ \A m \in 1 .. 2 : u[m] = h[m]
         /\ \A m \in 1 .. Len(d) : u[2 + m] = d[m]
    <2>1. /\ h \o d \in Seq(T) /\ Len(h \o d) = Len(h) + Len(d)
          /\ \A m \in 1 .. Len(h) : (h \o d)[m] = h[m]
          /\ \A m \in 1 .. Len(d) : (h \o d)[Len(h) + m] = d[m]
      <3>1. h \in Seq(T) /\ d \in Seq(T) BY <1>4, <1>9
      <3>2. QED BY <3>1, ConcatProperties
    <2>2. QED BY <1>9, <1>10, <2>1
  <1>12. /\ p \in Seq(T) /\ Len(p) = (2 + Len(d)) + 1
         /\ \A m \in 1 .. 2 + Len(d) : p[m] = u[m]
         /\ \A m \in 1 .. 1 : p[(2 + Len(d)) + m] = y[m]
    <2>1. u \in Seq(T) /\ y \in Seq(T) BY <1>9, <1>11
    <2>2. /\ u \o y \in Seq(T) /\ Len(u \o y) = Len(u) + Len(y)
          /\ \A m \in 1 .. Len(u) : (u \o y)[m] = u[m]
          /\ \A m \in 1 .. Len(y) : (u \o y)[Len(u) + m] = y[m]
      BY <2>1, ConcatProperties
    <2>3. p = u \o y BY <1>6, <1>8, <1>10
    <2>4. QED BY <1>9, <1>11, <2>2, <2>3
  <1>13. PICK x \in Nat : x = Len(d) BY <1>4
  <1>14. Len(p) = x + 3 /\ p \in Seq(T) /\ Len(p) \in Nat BY <1>12, <1>13
  <1>15. p[1] = a /\ p[2] = b
    <2>1. 1 \in 1 .. 2 + x /\ 2 \in 1 .. 2 + x /\ 1 \in 1 .. 2 /\ 2 \in 1 .. 2 OBVIOUS
    <2>2. QED BY <1>9, <1>11, <1>12, <1>13, <2>1
  <1>16. ASSUME NEW m \in 1 .. x PROVE p[2 + m] = d[m]
    <2>1. 2 + m \in 1 .. 2 + x OBVIOUS
    <2>2. QED BY <1>11, <1>12, <1>13, <2>1
  <1>17. p[x + 3] = c
    <2>1. x + 3 = (2 + x) + 1 /\ 1 \in 1 .. 1 OBVIOUS
    <2>2. QED BY <1>9, <1>12, <1>13, <2>1
  <1>18. QED BY <1>2, <1>5, <1>13, <1>14, <1>15, <1>16, <1>17

\* The tokens of the data protect nothing.
LEMMA PieceTokens ==
  ASSUME NEW j, Job(j), NEW k \in Nat, NEW m \in 1 .. Len(Piece(j, k))
  PROVE  Piece(j, k)[m].nonce = 0 /\ Piece(j, k)[m].of = <<>> /\ Piece(j, k)[m].kind = "data"
  <1>1. PICK n \in Nat : j.plain = [i \in 1 .. n |-> DataToken(i)] BY JobIs
  <1>2. PICK e, f : e = Edge(j, k) /\ f = Edge(j, k + 1) OBVIOUS
  <1>3. e \in Nat /\ f \in Nat /\ e <= f /\ f <= Len(j.plain) BY <1>2, EdgeIs
  <1>4. Len(Piece(j, k)) = f - e /\ Piece(j, k)[m] = j.plain[e + m] BY <1>2, PieceIs
  <1>5. Len(j.plain) = n BY <1>1
  <1>6. e + m \in 1 .. n BY <1>3, <1>4, <1>5
  <1>7. j.plain[e + m] = DataToken(e + m) BY <1>1, <1>6
  <1>8. PICK f1, o : f1 = FALSE /\ o = <<>> OBVIOUS
  <1>9. j.plain[e + m] = TokenOf("data", e + m, 0, 0, 0, f1, o) BY <1>7, <1>8 DEF DataToken
  <1>10. PICK t : t = j.plain[e + m] OBVIOUS
  <1>11. t.nonce = 0 /\ t.of = o /\ t.kind = "data" BY <1>9, <1>10, FieldsOf
  <1>12. QED BY <1>4, <1>8, <1>10, <1>11

\* Version 2.0 counts nothing in the packages, and a tag is at the end of its own.
LEMMA PackageTokens ==
  ASSUME NEW j, Job(j), NEW k \in Numbers(j), j.version = 20, NEW m \in 1 .. Len(Package(j, k))
  PROVE  /\ Package(j, k)[m].nonce = 0
         /\ Package(j, k)[m].of = <<>> \/ (Package(j, k)[m].of = TagOf(j, k) /\ m = Len(Package(j, k)))
  <1>1. k \in Nat BY DEF Numbers
  <1>2. PICK x, p : x = Len(Piece(j, k)) /\ p = Package(j, k) OBVIOUS
  <1>3. x \in Nat /\ Len(p) = x + 3 BY <1>1, <1>2, PieceIs, PackageIs
  <1>4. PICK f, o : f = FALSE /\ o = <<>> OBVIOUS
  <1>5. CASE m = 1
    <2>1. p[m] = TokenOf("lead", 0, j.version, x, 0, f, o) BY <1>2, <1>4, <1>5, PackageIs DEF Lead
    <2>2. PICK t : t = p[m] OBVIOUS
    <2>3. t.nonce = 0 /\ t.of = o BY <2>1, <2>2, FieldsOf
    <2>4. QED BY <1>2, <1>4, <2>2, <2>3
  <1>6. CASE m = 2
    <2>1. PICK e : e = Ends(j, k) OBVIOUS
    <2>2. p[m] = TokenOf("nonce", 0, 0, 0, 0, e, o)
      <3>1. Mark(j, k) = TokenOf("nonce", 0, 0, 0, 0, e, o) BY <1>4, <2>1 DEF Mark
      <3>2. QED BY <1>2, <1>6, <3>1, PackageIs
    <2>3. PICK t : t = p[m] OBVIOUS
    <2>4. t.nonce = 0 /\ t.of = o BY <2>2, <2>3, FieldsOf
    <2>5. QED BY <1>2, <1>4, <2>3, <2>4
  <1>7. CASE m \in 3 .. x + 2
    <2>1. PICK i \in 1 .. x : m = 2 + i
      <3>1. m - 2 \in 1 .. x /\ m = 2 + (m - 2) BY <1>3, <1>7
      <3>2. QED BY <3>1
    <2>2. p[m] = Piece(j, k)[i] BY <1>2, <2>1, PackageIs
    <2>3. QED BY <1>1, <1>2, <2>1, <2>2, PieceTokens
  <1>8. CASE m = x + 3
    <2>1. PICK g : g = TagOf(j, k) OBVIOUS
    <2>2. p[m] = TokenOf("tag", 0, 0, 0, 0, f, g) BY <1>2, <1>4, <1>8, <2>1, PackageIs DEF SealMark
    <2>3. PICK t : t = p[m] OBVIOUS
    <2>4. t.nonce = 0 /\ t.of = g BY <2>2, <2>3, FieldsOf
    <2>5. QED BY <1>2, <1>3, <1>8, <2>1, <2>3, <2>4
  <1>9. m = 1 \/ m = 2 \/ m \in 3 .. x + 2 \/ m = x + 3 BY <1>2, <1>3
  <1>10. QED BY <1>5, <1>6, <1>7, <1>8, <1>9

\* Packages are one after the other.
InOrder(j, w, k) == \A i \in Nat : i < k => Part(w, Start(j, i), Start(j, i + 1)) = Package(j, i)

\* No package says its number.
Uncounted(w) == \A m \in 1 .. Len(w) : w[m].nonce = 0

\* Tags are where they were made.
Placed(j, w) ==
  \A m \in 1 .. Len(w) :
    w[m].of = <<>> \/ \E i \in Numbers(j) : w[m].of = TagOf(j, i) /\ m = Start(j, i + 1)

\* The first k packages.
Made(j, w, k) ==
  /\ w \in Seq(Toks(j)) /\ Len(w) = Start(j, k)
  /\ InOrder(j, w, k)
  /\ j.version = 20 => Uncounted(w) /\ Placed(j, w)

\* The data of a package is what was sealed in it.
LEMMA PayloadIs ==
  ASSUME NEW j, Job(j), NEW k \in Numbers(j)
  PROVE  Payload(Package(j, k)) = Piece(j, k)
  <1>1. k \in Nat BY DEF Numbers
  <1>2. PICK T, p, d : T = Toks(j) /\ p = Package(j, k) /\ d = Piece(j, k) OBVIOUS
  <1>3. PICK x \in Nat : x = Len(d) BY <1>1, <1>2, PieceIs
  <1>4. p \in Seq(T) /\ Len(p) = x + 3 /\ d \in Seq(T) /\ \A m \in 1 .. x : p[2 + m] = d[m]
    <2>1. p \in Seq(T) /\ Len(p) = Len(d) + 3 BY <1>2, PackageIs
    <2>2. d \in Seq(T) BY <1>1, <1>2, PieceIs
    <2>3. \A m \in 1 .. Len(d) : p[2 + m] = d[m] BY <1>2, PackageIs
    <2>4. QED BY <1>3, <2>1, <2>2, <2>3
  <1>5. Payload(p) = Part(p, 2, x + 2)
    <2>1. HeaderSize + 1 = 2 + 1 /\ Len(p) - TagSize = x + 2 BY <1>4 DEF HeaderSize, TagSize
    <2>2. QED BY <2>1 DEF Payload, Part
  <1>6. PICK q : q = Part(p, 2, x + 2) OBVIOUS
  <1>7. q \in Seq(T) /\ Len(q) = x /\ \A m \in 1 .. x : q[m] = p[2 + m]
    <2>1. x + 2 \in Nat /\ 2 <= x + 2 /\ x + 2 <= Len(p) /\ (x + 2) - 2 = x BY <1>4
    <2>2. /\ Part(p, 2, x + 2) \in Seq(T) /\ Len(Part(p, 2, x + 2)) = (x + 2) - 2
          /\ \A m \in 1 .. (x + 2) - 2 : Part(p, 2, x + 2)[m] = p[2 + m]
      BY <1>4, <2>1, PartIs
    <2>3. QED BY <1>6, <2>1, <2>2
  <1>8. q = d
    <2>1. \A m \in 1 .. Len(q) : q[m] = d[m] BY <1>4, <1>7
    <2>2. Len(q) = Len(d) BY <1>3, <1>7
    <2>3. QED BY <1>4, <1>7, <2>1, <2>2, SameSeq
  <1>9. QED BY <1>2, <1>5, <1>6, <1>8

\* Nothing is made yet.
LEMMA NothingMade ==
  ASSUME NEW j, Job(j)
  PROVE  Made(j, <<>>, 0)
  <1>1. PICK e : e = <<>> OBVIOUS
  <1>2. e \in Seq(Toks(j)) /\ Len(e) = 0 /\ 1 .. 0 = {} BY <1>1
  <1>3. Start(j, 0) = 0 BY StartIs
  <1>4. InOrder(j, e, 0) BY DEF InOrder
  <1>5. Uncounted(e) /\ Placed(j, e) BY <1>2 DEF Uncounted, Placed
  <1>6. QED BY <1>1, <1>2, <1>3, <1>4, <1>5 DEF Made

\* The next package is made.
LEMMA MadeGrows ==
  ASSUME NEW j, Job(j), NEW k \in Numbers(j), NEW w, Made(j, w, k)
  PROVE  Made(j, w \o Package(j, k), k + 1)
  <1>1. k \in Nat BY DEF Numbers
  <1>2. PICK T, p, v : T = Toks(j) /\ p = Package(j, k) /\ v = w \o p OBVIOUS
  <1>3. PICK s \in Nat, t \in Nat : s = Start(j, k) /\ t = Start(j, k + 1) BY <1>1, StartIs
  <1>4. p \in Seq(T) /\ Len(p) \in Nat /\ t = s + Len(p)
    <2>1. PICK e, f : e = Edge(j, k) /\ f = Edge(j, k + 1) OBVIOUS
    <2>2. e \in Nat /\ f \in Nat /\ Len(Piece(j, k)) = f - e BY <1>1, <2>1, EdgeIs, PieceIs
    <2>3. p \in Seq(T) /\ Len(p) \in Nat /\ Len(p) = (f - e) + 3 BY <1>2, <2>2, PackageIs
    <2>4. t = s + (f - e) + 3 BY <1>1, <1>3, <2>1, StartIs
    <2>5. QED BY <2>2, <2>3, <2>4
  <1>5. w \in Seq(T) /\ Len(w) = s BY <1>2, <1>3 DEF Made
  <1>6. /\ v \in Seq(T) /\ Len(v) = t
        /\ \A m \in 1 .. s : v[m] = w[m]
        /\ \A m \in 1 .. Len(p) : v[s + m] = p[m]
    <2>1. w \in Seq(T) /\ p \in Seq(T) BY <1>4, <1>5
    <2>2. /\ w \o p \in Seq(T) /\ Len(w \o p) = Len(w) + Len(p)
          /\ \A m \in 1 .. Len(w) : (w \o p)[m] = w[m]
          /\ \A m \in 1 .. Len(p) : (w \o p)[Len(w) + m] = p[m]
      BY <2>1, JoinIs
    <2>3. QED BY <1>2, <1>4, <1>5, <2>2
  <1>7. InOrder(j, v, k + 1)
    <2>1. ASSUME NEW i \in Nat, i < k PROVE Part(v, Start(j, i), Start(j, i + 1)) = Package(j, i)
      <3>1. i + 1 \in Nat /\ i + 1 <= k BY <1>1, <2>1
      <3>2. Start(j, i + 1) <= Start(j, k) BY <1>1, <3>1, StartsGrow
      <3>3. PICK c \in Nat, d \in Nat : c = Start(j, i) /\ d = Start(j, i + 1) BY <3>1, StartIs
      <3>4. c <= d /\ d <= Len(w)
        <4>1. i <= i + 1 OBVIOUS
        <4>2. Start(j, i) <= Start(j, i + 1) BY <3>1, <4>1, StartsGrow
        <4>3. QED BY <1>3, <1>5, <3>2, <3>3, <4>2
      <3>5. Part(w \o p, c, d) = Part(w, c, d) BY <1>4, <1>5, <3>4, PartOfFirst
      <3>6. Part(w, Start(j, i), Start(j, i + 1)) = Package(j, i) BY <2>1 DEF Made, InOrder
      <3>7. QED BY <1>2, <3>3, <3>5, <3>6
    <2>2. Part(v, s, t) = p
      <3>1. PICK n \in Nat : n = Len(p) BY <1>4
      <3>2. Part(w \o p, s, Len(w) + n) = Part(w, s, Len(w)) \o Part(p, 0, n)
        <4>1. s <= Len(w) /\ n <= Len(p) /\ w \in Seq(T) /\ p \in Seq(T) BY <1>4, <1>5, <3>1
        <4>2. QED BY <4>1, PartAcross
      <3>3. Part(w, s, s) = <<>> BY <1>5, NoPart
      <3>4. Part(p, 0, n) = p BY <1>4, <3>1, WholePart
      <3>5. <<>> \o p = p BY <1>4, ConcatEmptySeq
      <3>6. Len(w) + n = t BY <1>4, <1>5, <3>1
      <3>7. QED BY <1>2, <1>5, <3>2, <3>3, <3>4, <3>5, <3>6
    <2>3. ASSUME NEW i \in Nat, i < k + 1 PROVE Part(v, Start(j, i), Start(j, i + 1)) = Package(j, i)
      <3>1. i < k \/ i = k BY <1>1, <2>3
      <3>2. QED BY <1>2, <1>3, <2>1, <2>2, <3>1
    <2>4. QED BY <2>3 DEF InOrder
  <1>8. ASSUME j.version = 20 PROVE Uncounted(v) /\ Placed(j, v)
    <2>1. Uncounted(w) /\ Placed(j, w) BY <1>8 DEF Made
    <2>2. ASSUME NEW m \in 1 .. Len(v)
          PROVE  /\ v[m].nonce = 0
                 /\ v[m].of = <<>> \/ \E i \in Numbers(j) : v[m].of = TagOf(j, i) /\ m = Start(j, i + 1)
      <3>1. CASE m <= s
        <4>1. m \in 1 .. s /\ m \in 1 .. Len(w) BY <1>5, <1>6, <3>1
        <4>2. v[m] = w[m] BY <1>6, <4>1
        <4>3. /\ w[m].nonce = 0
              /\ w[m].of = <<>> \/ \E i \in Numbers(j) : w[m].of = TagOf(j, i) /\ m = Start(j, i + 1)
          BY <2>1, <4>1 DEF Uncounted, Placed
        <4>4. QED BY <4>2, <4>3
      <3>2. CASE m > s
        <4>1. PICK n \in 1 .. Len(p) : m = s + n
          <5>1. m - s \in 1 .. Len(p) /\ m = s + (m - s) BY <1>4, <1>6, <3>2
          <5>2. QED BY <5>1
        <4>2. v[m] = p[n] BY <1>6, <4>1
        <4>3. p[n].nonce = 0 /\ (p[n].of = <<>> \/ (p[n].of = TagOf(j, k) /\ n = Len(p)))
          BY <1>2, <1>8, PackageTokens
        <4>4. n = Len(p) => m = Start(j, k + 1) BY <1>3, <1>4, <4>1
        <4>5. QED BY <4>2, <4>3, <4>4
      <3>3. QED BY <1>6, <3>1, <3>2
    <2>3. QED BY <2>2 DEF Uncounted, Placed
  <1>9. QED
    <2>1. v \in Seq(Toks(j)) /\ Len(v) = Start(j, k + 1) BY <1>2, <1>3, <1>6
    <2>2. Made(j, v, k + 1) BY <1>7, <1>8, <2>1 DEF Made
    <2>3. QED BY <1>2, <2>2

(***************************************************************************)
(* Encrypting.                                                             *)
(***************************************************************************)
\* The next package, of what is left.
LEMMA NextIs ==
  ASSUME NEW j, Job(j), NEW k \in Nat, NEW s, s = Part(j.plain, Edge(j, k), Len(j.plain)), s # <<>>
  PROVE  /\ k \in Numbers(j) /\ s \in Seq(Toks(j)) /\ Len(s) \in Nat \ {0}
         /\ Upto(s, Least(Len(s), j.size)) = Piece(j, k)
         /\ After(s, Least(Len(s), j.size)) = Part(j.plain, Edge(j, k + 1), Len(j.plain))
         /\ Len(s) <= j.size <=> Edge(j, k + 1) = Len(j.plain)
         /\ Len(Piece(j, k)) = Least(Len(s), j.size)
  <1>1. PICK T, d : T = Toks(j) /\ d = j.plain OBVIOUS
  <1>2. PICK z \in Nat, e \in Nat, f \in Nat, c \in Nat \ {0} :
          z = Len(d) /\ e = Edge(j, k) /\ f = Edge(j, k + 1) /\ c = j.size
    <2>1. Len(j.plain) \in Nat /\ Edge(j, k) \in Nat /\ Edge(j, k + 1) \in Nat /\ j.size \in Nat \ {0}
      BY EdgeIs
    <2>2. QED BY <1>1, <2>1
  <1>3. /\ d \in Seq(T) /\ e <= z /\ f <= z /\ e <= f /\ f <= e + c
        /\ (e < z => e < f) /\ (f < z => f = e + c)
    <2>1. d \in Seq(T) BY <1>1, PlainIs
    <2>2. /\ e <= z /\ f <= z /\ e <= f /\ f <= e + c
          /\ (e < z => e < f) /\ (f < z => f = e + c)
      BY <1>1, <1>2, EdgeIs
    <2>3. QED BY <2>1, <2>2
  <1>4. s = Part(d, e, z) BY <1>1, <1>2
  <1>5. s \in Seq(T) /\ Len(s) = z - e /\ Len(s) \in Nat
    <2>1. Part(d, e, z) \in Seq(T) /\ Len(Part(d, e, z)) = z - e /\ Len(Part(d, e, z)) \in Nat
      <3>1. d \in Seq(T) /\ e <= z /\ z <= Len(d) BY <1>2, <1>3
      <3>2. QED BY <3>1, PartIs, Zenon
    <2>2. QED BY <1>4, <2>1
  <1>6. Len(s) > 0
    <2>1. Len(s) # 0 BY <1>5, EmptySeq
    <2>2. QED BY <1>5, <2>1
  <1>7. e < z /\ e < f BY <1>2, <1>3, <1>5, <1>6
  <1>8. k \in Numbers(j) BY <1>1, <1>2, <1>7 DEF Numbers
  <1>9. PICK n \in Nat : n = f - e BY <1>2, <1>3
  <1>10. PICK m \in Nat : m = Len(s) /\ m = z - e BY <1>5
  <1>11. n = Least(m, c) /\ n <= m /\ e + 0 = e /\ e + n = f /\ e + m = z /\ (m <= c <=> f = z)
    <2>1. z \in Nat /\ e \in Nat /\ f \in Nat /\ c \in Nat /\ n \in Nat /\ m \in Nat
      BY <1>2, <1>9, <1>10
    <2>2. f <= z /\ f <= e + c /\ (f < z => f = e + c) BY <1>3
    <2>3. e + 0 = e /\ e + n = f /\ e + m = z BY <1>9, <1>10, <2>1
    <2>4. n <= m /\ n <= c /\ (m <= c <=> f = z) /\ (n < m => n = c) BY <2>1, <2>2, <2>3
    <2>5. n = Least(m, c) BY <2>1, <2>4 DEF Least
    <2>6. QED BY <2>3, <2>4, <2>5
  <1>12. Upto(s, n) = Part(d, e, f)
    <2>1. Upto(s, n) = Part(s, 0, n) BY UptoIs
    <2>2. n <= z - e /\ e + 0 = e /\ e + n = f BY <1>10, <1>11
    <2>3. Part(Part(d, e, z), 0, n) = Part(d, e + 0, e + n)
      <3>1. d \in Seq(T) /\ e <= z /\ z <= Len(d) /\ 0 <= n /\ n <= z - e BY <1>2, <1>3, <2>2
      <3>2. QED BY <3>1, PartOfPart
    <2>4. QED BY <1>4, <2>1, <2>2, <2>3
  <1>13. After(s, n) = Part(d, f, z)
    <2>1. After(s, n) = Part(s, n, Len(s)) BY UptoIs
    <2>4. Part(Part(d, e, z), n, m) = Part(d, e + n, e + m)
      <3>1. d \in Seq(T) /\ m <= z - e /\ z <= Len(d) /\ e <= z /\ n <= m
        BY <1>2, <1>3, <1>10, <1>11
      <3>2. QED BY <3>1, PartOfPart
    <2>5. QED BY <1>4, <1>10, <1>11, <2>1, <2>4
  <1>14. n = Least(Len(s), c) /\ (Len(s) <= c <=> f = z) BY <1>10, <1>11
  <1>15. Part(d, e, f) = Piece(j, k) BY <1>1, <1>2 DEF Part, Piece
  <1>16. Len(Piece(j, k)) = n BY <1>2, <1>9, PieceIs
  <1>17. QED BY <1>1, <1>2, <1>5, <1>6, <1>8, <1>12, <1>13, <1>14, <1>15, <1>16

\* What the last Read left in the buffer.
Left(e) == IF e.offset > 0 THEN After(e.buffer, e.offset) ELSE <<>>

\* The states of who encrypts.
EncTypes(T) ==
  [src : Seq(T), pending : Seq(T), seq : Nat, status : {"first", "open", "finalized", "eof"},
   room : Nat, buffer : Seq(T), offset : Nat]

\* What is to be encrypted is what the packages do not have.
EncOk(j, e) ==
  /\ e \in EncTypes(Toks(j))
  /\ e.offset <= Len(e.buffer)
  /\ e.status # "eof" => e.pending \o e.src = Part(j.plain, Edge(j, e.seq), Len(j.plain))
  /\ j.from = "reader" => e.pending = <<>>
  /\ j.from = "writer" => e.room = 0 /\ e.offset = 0 /\ e.status # "finalized"
  /\ e.seq > 0 => Edge(j, e.seq - 1) < Len(j.plain)
  /\ e.status \in {"finalized", "eof"} => e.src = <<>>
  /\ e.status = "eof" => e.pending = <<>> /\ e.offset = 0

\* All packages, and no other.
Whole(j, w) ==
  \E k \in Nat : Made(j, w, k) /\ Edge(j, k) = Len(j.plain) /\ (k > 0 => Edge(j, k - 1) < Len(j.plain))

\* What an encrypting reader or writer made so far.
MadeSoFar(j, e, w) ==
  IF e.status = "eof" THEN Whole(j, w) ELSE Made(j, w \o Left(e), e.seq)

\* The stream so far.
EncMade(j, e, w) == w \in Seq(Toks(j)) /\ EncOk(j, e) /\ MadeSoFar(j, e, w)

\* When nothing is left, all packages are made.
LEMMA WholeIs ==
  ASSUME NEW j, Job(j), NEW k \in Nat, NEW w, Made(j, w, k),
         Part(j.plain, Edge(j, k), Len(j.plain)) = <<>>,
         k > 0 => Edge(j, k - 1) < Len(j.plain)
  PROVE  Whole(j, w)
  <1>1. PICK T, d : T = Toks(j) /\ d = j.plain OBVIOUS
  <1>2. PICK z \in Nat, e \in Nat : z = Len(d) /\ e = Edge(j, k) /\ e <= z
    <2>1. Len(j.plain) \in Nat /\ Edge(j, k) \in Nat /\ Edge(j, k) <= Len(j.plain) BY EdgeIs
    <2>2. QED BY <1>1, <2>1
  <1>3. d \in Seq(T) BY <1>1, PlainIs
  <1>4. Len(Part(d, e, z)) = z - e BY <1>2, <1>3, PartIs
  <1>5. Len(<<>>) = 0 OBVIOUS
  <1>6. z - e = 0 BY <1>1, <1>2, <1>4, <1>5
  <1>7. e = z BY <1>2, <1>6
  <1>8. QED BY <1>1, <1>2, <1>7 DEF Whole

\* The fields of who encrypts.
LEMMA EncFields ==
  ASSUME NEW T, NEW e \in EncTypes(T)
  PROVE  /\ e.src \in Seq(T) /\ e.pending \in Seq(T) /\ e.seq \in Nat /\ e.room \in Nat
         /\ e.buffer \in Seq(T) /\ e.offset \in Nat
         /\ e.status \in {"first", "open", "finalized", "eof"}
  BY DEF EncTypes

\* The beginning.
LEMMA NewEncOk ==
  ASSUME NEW j, Job(j)
  PROVE  EncMade(j, NewEnc(j), <<>>)
  <1>1. PICK T, d, x : T = Toks(j) /\ d = j.plain /\ x = <<>> OBVIOUS
  <1>2. d \in Seq(T) /\ x \in Seq(T) /\ Len(x) = 0 /\ x \o d = d
    <2>1. d \in Seq(T) BY <1>1, PlainIs
    <2>2. QED BY <1>1, <2>1
  <1>3. PICK e : e = NewEnc(j) OBVIOUS
  <1>4. e = [src |-> d, pending |-> x, seq |-> 0, status |-> "first", room |-> 0, buffer |-> x, offset |-> 0]
    BY <1>1, <1>3, Zenon DEF NewEnc
  <1>5. /\ e \in EncTypes(T) /\ e.src = d /\ e.pending = x /\ e.seq = 0 /\ e.status = "first" /\ e.room = 0
        /\ e.buffer = x /\ e.offset = 0
    BY <1>2, <1>4 DEF EncTypes
  <1>6. Part(d, Edge(j, 0), Len(d)) = d
    <2>1. Edge(j, 0) = 0 BY EdgeIs
    <2>2. QED BY <1>2, <2>1, WholePart
  <1>7. EncOk(j, e)
    <2>1. e.offset <= Len(e.buffer) BY <1>2, <1>5
    <2>2. e.pending \o e.src = Part(d, Edge(j, e.seq), Len(d)) BY <1>2, <1>5, <1>6
    <2>3. ~(e.seq > 0) BY <1>5
    <2>4. e.status = "first" /\ e.room = 0 /\ e.offset = 0 /\ e.pending = <<>> BY <1>1, <1>5
    <2>5. QED BY <1>1, <1>5, <2>1, <2>2, <2>3, <2>4 DEF EncOk
  <1>8. MadeSoFar(j, e, <<>>)
    <2>1. Left(e) = <<>> BY <1>5 DEF Left
    <2>2. <<>> \o <<>> = <<>> OBVIOUS
    <2>3. Made(j, <<>> \o Left(e), e.seq) BY <1>5, <2>1, <2>2, NothingMade
    <2>4. QED BY <1>5, <2>3 DEF MadeSoFar
  <1>9. <<>> \in Seq(Toks(j)) BY <1>1, <1>2
  <1>10. QED BY <1>3, <1>7, <1>8, <1>9 DEF EncMade

\* A package more.
LEMMA NextMade ==
  ASSUME NEW j, Job(j), NEW e, NEW w, EncMade(j, e, w), e.status # "eof", e.offset = 0,
         e.seq \in Numbers(j),
         NEW f \in EncTypes(Toks(j)), NEW v,
         f.offset <= Len(f.buffer), f.seq = e.seq + 1,
         f.pending \o f.src = Part(j.plain, Edge(j, e.seq + 1), Len(j.plain)),
         j.from = "reader" => f.pending = <<>>,
         j.from = "writer" => f.room = 0 /\ f.offset = 0 /\ f.status # "finalized",
         f.status \in {"finalized", "eof"} => f.src = <<>>,
         f.status = "eof" => f.pending = <<>> /\ f.offset = 0,
         v \o Left(f) = w \o Package(j, e.seq), v \in Seq(Toks(j))
  PROVE  EncMade(j, f, v)
  <1>1. e \in EncTypes(Toks(j)) BY DEF EncMade, EncOk
  <1>2. PICK k \in Nat : k = e.seq BY <1>1, EncFields
  <1>3. Edge(j, (k + 1) - 1) < Len(j.plain)
    <2>1. (k + 1) - 1 = k OBVIOUS
    <2>2. QED BY <1>2, <2>1 DEF Numbers
  <1>4. EncOk(j, f) BY <1>2, <1>3 DEF EncOk
  <1>5. Made(j, w, k)
    <2>1. MadeSoFar(j, e, w) BY DEF EncMade
    <2>2. Left(e) = <<>>
      <3>1. ~(e.offset > 0) OBVIOUS
      <3>2. QED BY <3>1, Zenon DEF Left
    <2>3. Made(j, w \o <<>>, k) BY <1>2, <2>1, <2>2 DEF MadeSoFar
    <2>4. w \in Seq(Toks(j)) BY DEF EncMade
    <2>5. QED BY <2>3, <2>4, ConcatEmptySeq
  <1>6. Made(j, w \o Package(j, k), k + 1) BY <1>2, <1>5, MadeGrows
  <1>7. MadeSoFar(j, f, v)
    <2>1. Made(j, v \o Left(f), k + 1) BY <1>2, <1>6
    <2>2. CASE f.status # "eof" BY <1>2, <2>1, <2>2 DEF MadeSoFar
    <2>3. CASE f.status = "eof"
      <3>1. Left(f) = <<>>
        <4>1. ~(f.offset > 0) BY <2>3
        <4>2. QED BY <4>1, Zenon DEF Left
      <3>2. v \o <<>> = v BY ConcatEmptySeq
      <3>3. Made(j, v, k + 1) BY <2>1, <3>1, <3>2
      <3>4. Part(j.plain, Edge(j, k + 1), Len(j.plain)) = <<>>
        <4>1. f.pending = <<>> /\ f.src = <<>> BY <2>3
        <4>2. <<>> \o <<>> = <<>> OBVIOUS
        <4>3. QED BY <1>2, <4>1, <4>2
      <3>5. Whole(j, v) BY <1>2, <1>3, <3>3, <3>4, WholeIs
      <3>6. QED BY <2>3, <3>5 DEF MadeSoFar
    <2>4. QED BY <2>2, <2>3
  <1>8. QED BY <1>4, <1>7 DEF EncMade

\* What is left in the buffer is written, or a part of it.
LEMMA DrainMade ==
  ASSUME NEW j, Job(j), NEW e, NEW w, EncMade(j, e, w), e.offset > 0,
         NEW rest, rest = After(e.buffer, e.offset), NEW n \in Nat, n <= Len(rest),
         NEW f \in EncTypes(Toks(j)), f.src = e.src, f.pending = e.pending, f.seq = e.seq,
         f.buffer = e.buffer,
         \/ f.offset = e.offset + n /\ f.status = e.status
         \/ n = Len(rest) /\ f.offset = 0 /\ f.status = IF e.status = "finalized" THEN "eof" ELSE e.status
  PROVE  EncMade(j, f, w \o Upto(rest, n))
  <1>1. e \in EncTypes(Toks(j)) /\ e.offset <= Len(e.buffer) /\ w \in Seq(Toks(j))
    BY DEF EncMade, EncOk
  <1>2. PICK T, b : T = Toks(j) /\ b = e.buffer OBVIOUS
  <1>3. PICK o \in Nat \ {0} : o = e.offset BY <1>1, EncFields
  <1>4. b \in Seq(T) /\ w \in Seq(T) /\ o <= Len(b) /\ Len(b) \in Nat BY <1>1, <1>2, <1>3, EncFields
  <1>5. rest = After(b, o) BY <1>2, <1>3
  <1>6. rest \in Seq(T) /\ Len(rest) = Len(b) - o /\ Len(rest) \in Nat BY <1>4, <1>5, SplitIs
  <1>7. PICK u, r : u = Upto(rest, n) /\ r = After(rest, n) OBVIOUS
  <1>8. u \in Seq(T) /\ r \in Seq(T) /\ u \o r = rest /\ Len(r) = Len(rest) - n
    <2>1. PICK v : v = rest OBVIOUS
    <2>2. v \in Seq(T) /\ n <= Len(v) BY <1>6, <2>1
    <2>3. /\ Upto(v, n) \in Seq(T) /\ Len(Upto(v, n)) = n
          /\ After(v, n) \in Seq(T) /\ Len(After(v, n)) = Len(v) - n /\ Len(After(v, n)) \in Nat
          /\ Upto(v, n) \o After(v, n) = v
          /\ \A m \in 1 .. n : Upto(v, n)[m] = v[m]
          /\ \A m \in 1 .. Len(v) - n : After(v, n)[m] = v[n + m]
      BY <2>2, SplitIs
    <2>4. QED BY <1>7, <2>1, <2>3
  <1>9. j.from = "reader" /\ e.pending = <<>> /\ e.status # "eof"
    <2>1. j.from # "writer" /\ e.status # "eof" BY <1>3 DEF EncMade, EncOk
    <2>2. j.from = "reader" BY <2>1, JobIs
    <2>3. QED BY <2>1, <2>2 DEF EncMade, EncOk
  <1>10. EncOk(j, f)
    <2>1. f.offset <= Len(f.buffer)
      <3>1. f.offset = o + n \/ f.offset = 0 BY <1>3
      <3>2. QED BY <1>2, <1>4, <1>6, <3>1
    <2>2. f.status # "eof" => f.status = e.status OBVIOUS
    <2>3. f.status = "eof" => f.offset = 0 /\ e.status = "finalized" BY <1>9
    <2>4. e.status \in {"finalized", "eof"} => e.src = <<>> BY DEF EncMade, EncOk
    <2>5. f.status \in {"finalized", "eof"} => f.src = <<>> BY <2>2, <2>3, <2>4
    <2>6. f.status # "eof" => f.pending \o f.src = Part(j.plain, Edge(j, f.seq), Len(j.plain))
      BY <1>9 DEF EncMade, EncOk
    <2>7. f.seq > 0 => Edge(j, f.seq - 1) < Len(j.plain) BY DEF EncMade, EncOk
    <2>8. j.from # "writer" BY <1>9
    <2>9. f.pending = <<>> BY <1>9
    <2>10. QED BY <2>1, <2>3, <2>5, <2>6, <2>7, <2>8, <2>9 DEF EncOk
  <1>11. Made(j, w \o rest, e.seq)
    <2>1. Left(e) = rest BY <1>2, <1>3, <1>5 DEF Left
    <2>2. MadeSoFar(j, e, w) BY DEF EncMade
    <2>3. Made(j, w \o Left(e), e.seq) BY <1>9, <2>2 DEF MadeSoFar
    <2>4. QED BY <2>1, <2>3
  <1>12. (w \o u) \o r = w \o rest
    <2>1. (w \o u) \o r = w \o (u \o r)
      <3>1. w \in Seq(T) /\ u \in Seq(T) /\ r \in Seq(T) BY <1>4, <1>8
      <3>2. QED BY <3>1, ConcatAssociative
    <2>2. QED BY <1>8, <2>1
  <1>13. w \o u \in Seq(T) BY <1>4, <1>8, ConcatProperties
  <1>14. CASE f.offset = e.offset + n /\ f.status = e.status
    <2>1. f.offset = o + n /\ o + n > 0 /\ o + n <= Len(b) BY <1>3, <1>4, <1>6, <1>14
    <2>2. Left(f) = After(b, o + n) BY <1>2, <2>1 DEF Left
    <2>3. After(b, o + n) = r
      <3>1. PICK z \in Nat, y \in Nat : z = Len(b) /\ y = Len(rest) /\ y = z - o /\ o + y = z
        BY <1>3, <1>4, <1>6
      <3>2. rest = Part(b, o, z) /\ r = Part(rest, n, y) BY <1>5, <1>7, <3>1, UptoIs
      <3>3. Part(Part(b, o, z), n, y) = Part(b, o + n, o + y)
        <4>1. b \in Seq(T) /\ o \in Nat /\ o <= z /\ z <= Len(b) /\ n <= y /\ y <= z - o
          BY <1>4, <3>1
        <4>2. QED BY <4>1, PartOfPart
      <3>4. After(b, o + n) = Part(b, o + n, z) BY <3>1, UptoIs
      <3>5. QED BY <3>1, <3>2, <3>3, <3>4
    <2>4. MadeSoFar(j, f, w \o u) BY <1>9, <1>11, <1>12, <1>14, <2>2, <2>3 DEF MadeSoFar
    <2>5. QED BY <1>2, <1>7, <1>10, <1>13, <2>4 DEF EncMade
  <1>15. CASE n = Len(rest) /\ f.offset = 0 /\ f.status = IF e.status = "finalized" THEN "eof" ELSE e.status
    <2>1. u = rest
      <3>1. Upto(rest, n) = Part(rest, 0, Len(rest)) BY <1>15, UptoIs
      <3>2. QED BY <1>6, <1>7, <3>1, WholePart
    <2>2. Made(j, w \o u, e.seq) BY <1>11, <2>1
    <2>3. CASE f.status # "eof"
      <3>1. Left(f) = <<>>
        <4>1. ~(f.offset > 0) BY <1>15
        <4>2. QED BY <4>1, Zenon DEF Left
      <3>2. (w \o u) \o <<>> = w \o u BY <1>13, ConcatEmptySeq
      <3>3. MadeSoFar(j, f, w \o u) BY <2>2, <2>3, <3>1, <3>2 DEF MadeSoFar
      <3>4. QED BY <1>2, <1>7, <1>10, <1>13, <3>3 DEF EncMade
    <2>4. CASE f.status = "eof"
      <3>1. e.status = "finalized" BY <1>9, <1>15, <2>4
      <3>2. e.src = <<>> /\ e.pending \o e.src = Part(j.plain, Edge(j, e.seq), Len(j.plain))
            /\ (e.seq > 0 => Edge(j, e.seq - 1) < Len(j.plain)) /\ e.seq \in Nat
        BY <1>1, <1>9, <3>1, EncFields DEF EncMade, EncOk
      <3>3. <<>> \o <<>> = <<>> OBVIOUS
      <3>4. Part(j.plain, Edge(j, e.seq), Len(j.plain)) = <<>> BY <1>9, <3>2, <3>3
      <3>5. Whole(j, w \o u) BY <2>2, <3>2, <3>4, WholeIs
      <3>6. QED BY <1>2, <1>7, <1>10, <1>13, <2>4, <3>5 DEF EncMade, MadeSoFar
    <2>5. QED BY <2>3, <2>4
  <1>16. QED BY <1>14, <1>15

\* What may be on its way: no package says its number, or the tags are where they were.
Sound(j, w) ==
  /\ w \in Seq(Toks(j))
  /\ j.version = 20 => Uncounted(w) \/ Placed(j, w)

\* Encrypting, and the stream it made.
EncInv ==
  /\ Job(job) /\ EncOk(job, enc)
  /\ IF dec.status = "none" THEN EncMade(job, enc, wire) /\ same = TRUE
     ELSE enc.status = "eof" /\ Sound(job, wire) /\ (same => Whole(job, wire))

\* Nothing is encrypted yet.
LEMMA EncInitInv == DAREInit => EncInv
  <1>1. SUFFICES ASSUME DAREInit PROVE EncInv OBVIOUS
  <1>2. Job(job) /\ enc = NewEnc(job) /\ wire = <<>> /\ same = TRUE BY <1>1 DEF DAREInit, Job
  <1>3. dec.status = "none" BY <1>1 DEF DAREInit, NewDec
  <1>4. EncMade(job, enc, wire) BY <1>2, NewEncOk
  <1>5. QED BY <1>2, <1>3, <1>4 DEF EncInv, EncMade

\* Before the stream is sent.
LEMMA EncStep ==
  ASSUME EncInv, dec.status = "none", UNCHANGED <<job, same, dec>>, EncMade(job, enc', wire')
  PROVE  EncInv'
  <1>1. Job(job)' /\ dec'.status = "none" /\ same' = TRUE BY DEF EncInv, Job
  <1>2. EncMade(job, enc, wire)' /\ EncOk(job, enc)' BY DEF EncMade
  <1>3. QED BY <1>1, <1>2 DEF EncInv

\* Nothing is encrypted after the end.
LEMMA EncAwake ==
  ASSUME EncInv,
         \/ enc.status # "eof" \/ enc.offset > 0 \/ ~EncEnds(enc) \/ SealNow(Len(enc.pending))
  PROVE  dec.status = "none" /\ EncMade(job, enc, wire) /\ enc.status # "eof"
  <1>1. Job(job) /\ EncOk(job, enc) BY DEF EncInv
  <1>2. ASSUME enc.status = "eof" PROVE FALSE
    <2>1. enc.src = <<>> /\ enc.pending = <<>> /\ enc.offset = 0 BY <1>1, <1>2 DEF EncOk
    <2>2. ~(enc.offset > 0) /\ EncEnds(enc) BY <2>1 DEF EncEnds
    <2>3. Len(enc.pending) = 0 BY <2>1
    <2>4. job.size \in Nat \ {0} BY <1>1, JobIs
    <2>5. ~SealNow(Len(enc.pending)) BY <2>3, <2>4 DEF SealNow
    <2>6. QED BY <1>2, <2>2, <2>5
  <1>3. QED BY <1>2 DEF EncInv

\* The package a reader makes.
LEMMA PackageNow ==
  ASSUME EncInv, dec.status = "none", enc.room > 0, enc.offset = 0, ~EncEnds(enc)
  PROVE  /\ enc.seq \in Numbers(job) /\ enc.seq \in Nat /\ enc.pending = <<>> /\ job.from = "reader"
         /\ NextPackage(enc) = Package(job, enc.seq)
         /\ After(enc.src, Len(PayloadOf(enc))) = Part(job.plain, Edge(job, enc.seq + 1), Len(job.plain))
         /\ IsLast(enc) => After(enc.src, Len(PayloadOf(enc))) = <<>>
         /\ After(enc.src, Len(PayloadOf(enc))) \in Seq(Toks(job))
  <1>1. Job(job) /\ EncOk(job, enc) BY DEF EncInv
  <1>2. PICK j, e : j = job /\ e = enc OBVIOUS
  <1>3. e \in EncTypes(Toks(j)) /\ Job(j) /\ EncOk(j, e) BY <1>1, <1>2 DEF EncOk
  <1>4. e.src # <<>> /\ e.room > 0 /\ e.offset = 0 BY <1>2 DEF EncEnds
  <1>5. e.status # "eof" /\ j.from # "writer"
    <2>1. e.room # 0 BY <1>4
    <2>2. QED BY <1>3, <1>4, <2>1 DEF EncOk
  <1>6. j.from = "reader" /\ e.pending = <<>>
    <2>1. j.from = "reader" BY <1>3, <1>5, JobIs
    <2>2. QED BY <1>3, <2>1 DEF EncOk
  <1>7. PICK k \in Nat, s \in Seq(Toks(j)) : k = e.seq /\ s = e.src BY <1>3, EncFields
  <1>8. s = Part(j.plain, Edge(j, k), Len(j.plain)) /\ s # <<>>
    <2>1. <<>> \o s = s BY <1>7, ConcatEmptySeq
    <2>2. e.pending \o e.src = Part(j.plain, Edge(j, e.seq), Len(j.plain)) BY <1>3, <1>5 DEF EncOk
    <2>3. QED BY <1>4, <1>6, <1>7, <2>1, <2>2
  <1>9. /\ k \in Numbers(j) /\ Len(s) \in Nat \ {0}
        /\ Upto(s, Least(Len(s), j.size)) = Piece(j, k)
        /\ After(s, Least(Len(s), j.size)) = Part(j.plain, Edge(j, k + 1), Len(j.plain))
        /\ Len(s) <= j.size <=> Edge(j, k + 1) = Len(j.plain)
        /\ Len(Piece(j, k)) = Least(Len(s), j.size)
    BY <1>3, <1>8, NextIs
  <1>10. PayloadOf(enc) = Piece(j, k) BY <1>2, <1>7, <1>9 DEF PayloadOf
  <1>11. IsLast(enc) = Ends(j, k) BY <1>2, <1>7, <1>9 DEF IsLast, Ends
  <1>12. NextPackage(enc) = Package(j, k) BY <1>2, <1>7, <1>10, <1>11 DEF NextPackage, Package
  <1>13. After(enc.src, Len(PayloadOf(enc))) = Part(j.plain, Edge(j, k + 1), Len(j.plain))
    BY <1>2, <1>7, <1>9, <1>10
  <1>14. Part(j.plain, Edge(j, k + 1), Len(j.plain)) \in Seq(Toks(j))
         /\ (Ends(j, k) => Part(j.plain, Edge(j, k + 1), Len(j.plain)) = <<>>)
    <2>1. PICK T, d : T = Toks(j) /\ d = j.plain OBVIOUS
    <2>2. PICK a \in Nat, z \in Nat : a = Edge(j, k + 1) /\ z = Len(d) /\ a <= z
      <3>1. Edge(j, k + 1) \in Nat /\ Len(j.plain) \in Nat /\ Edge(j, k + 1) <= Len(j.plain)
        BY <1>3, EdgeIs
      <3>2. QED BY <2>1, <3>1
    <2>3. d \in Seq(T) BY <1>3, <2>1, PlainIs
    <2>4. Part(d, a, z) \in Seq(T) BY <2>2, <2>3, PartIs
    <2>5. a = z => Part(d, a, z) = <<>> BY <2>2, <2>3, NoPart
    <2>6. Ends(j, k) => a = z BY <2>1, <2>2 DEF Ends
    <2>7. QED BY <2>1, <2>2, <2>4, <2>5, <2>6
  <1>15. QED BY <1>2, <1>6, <1>7, <1>9, <1>11, <1>12, <1>13, <1>14

\* A Read begins.
LEMMA EncReadInv ==
  ASSUME EncInv, NEW n \in Nat, EncRead(n)
  PROVE  EncInv'
  <1>1. job.from = "reader" /\ enc.status # "eof" /\ UNCHANGED <<job, wire, same, dec>>
        /\ enc' = [enc EXCEPT !.room = n]
    BY DEF EncRead
  <1>2. dec.status = "none" /\ EncMade(job, enc, wire) BY <1>1, EncAwake
  <1>3. PICK j, e, f, w : j = job /\ e = enc /\ f = enc' /\ w = wire OBVIOUS
  <1>4. e \in EncTypes(Toks(j)) BY <1>2, <1>3 DEF EncMade, EncOk
  <1>5. /\ f \in EncTypes(Toks(j)) /\ f.src = e.src /\ f.pending = e.pending /\ f.seq = e.seq
        /\ f.status = e.status /\ f.buffer = e.buffer /\ f.offset = e.offset
    BY <1>1, <1>3, <1>4 DEF EncTypes
  <1>6. EncOk(j, f)
    <2>1. j.from # "writer" /\ f.status # "eof" BY <1>1, <1>3, <1>5
    <2>2. EncOk(j, e) BY <1>2, <1>3 DEF EncMade
    <2>3. QED BY <1>5, <2>1, <2>2 DEF EncOk
  <1>7. MadeSoFar(j, f, w)
    <2>1. MadeSoFar(j, e, w) /\ f.status # "eof" /\ e.status # "eof"
      BY <1>1, <1>2, <1>3, <1>5 DEF EncMade
    <2>2. Left(f) = Left(e) BY <1>5 DEF Left
    <2>3. Made(j, w \o Left(e), e.seq) BY <2>1 DEF MadeSoFar
    <2>4. Made(j, w \o Left(f), f.seq) BY <1>5, <2>2, <2>3, Zenon
    <2>5. QED BY <2>1, <2>4 DEF MadeSoFar
  <1>8. EncMade(job, enc', wire') BY <1>1, <1>2, <1>3, <1>6, <1>7 DEF EncMade
  <1>9. QED BY <1>1, <1>2, <1>8, EncStep

\* A Read takes what the last one left.
LEMMA EncDrainInv ==
  ASSUME EncInv, EncDrain
  PROVE  EncInv'
  <1>1. PICK rest, n : rest = After(enc.buffer, enc.offset) /\ n = Least(enc.room, Len(rest))
    OBVIOUS
  <1>2. /\ enc.room > 0 /\ enc.offset > 0 /\ UNCHANGED <<job, same, dec>>
        /\ wire' = wire \o Upto(rest, n)
        /\ enc' = IF enc.room < Len(rest) THEN [enc EXCEPT !.offset = @ + n, !.room = 0]
                  ELSE [enc EXCEPT !.offset = 0, !.room = @ - n,
                                   !.status = IF @ = "finalized" THEN "eof" ELSE @]
    BY <1>1 DEF EncDrain
  <1>3. dec.status = "none" /\ EncMade(job, enc, wire) /\ enc.status # "eof" BY <1>2, EncAwake
  <1>4. PICK j, e, f, w : j = job /\ e = enc /\ f = enc' /\ w = wire OBVIOUS
  <1>5. e \in EncTypes(Toks(j)) /\ e.offset <= Len(e.buffer) /\ Job(j)
    BY <1>3, <1>4 DEF EncMade, EncOk, EncInv
  <1>6. e.room \in Nat /\ e.offset \in Nat /\ e.buffer \in Seq(Toks(j)) BY <1>5, EncFields
  <1>7. Len(rest) \in Nat
    <2>1. rest = After(e.buffer, e.offset) BY <1>1, <1>4
    <2>2. QED BY <1>5, <1>6, <2>1, SplitIs
  <1>8. n \in Nat /\ n <= Len(rest) /\ n <= e.room /\ (e.room < Len(rest) \/ n = Len(rest))
    BY <1>1, <1>4, <1>6, <1>7 DEF Least
  <1>9. CASE e.room < Len(rest)
    <2>1. PICK x \in Nat : x = e.offset + n BY <1>6, <1>8
    <2>2. f = [e EXCEPT !.offset = x, !.room = 0] BY <1>2, <1>4, <1>9, <2>1
    <2>3. /\ f \in EncTypes(Toks(j)) /\ f.src = e.src /\ f.pending = e.pending /\ f.seq = e.seq
          /\ f.buffer = e.buffer /\ f.offset = e.offset + n /\ f.status = e.status
      BY <1>5, <2>2, <2>1 DEF EncTypes
    <2>4. EncMade(j, e, w) /\ e.offset > 0 /\ rest = After(e.buffer, e.offset)
      BY <1>1, <1>2, <1>3, <1>4
    <2>5. EncMade(j, f, w \o Upto(rest, n)) BY <1>5, <1>8, <2>3, <2>4, DrainMade
    <2>6. QED BY <1>2, <1>3, <1>4, <2>5, EncStep
  <1>10. CASE ~(e.room < Len(rest))
    <2>1. PICK x \in Nat : x = e.room - n BY <1>6, <1>8
    <2>2. PICK y \in {"first", "open", "finalized", "eof"} : y = IF e.status = "finalized" THEN "eof" ELSE e.status
      BY <1>5, EncFields
    <2>3. f = [e EXCEPT !.offset = 0, !.room = x, !.status = y] BY <1>2, <1>4, <1>10, <2>1, <2>2
    <2>4. /\ f \in EncTypes(Toks(j)) /\ f.src = e.src /\ f.pending = e.pending /\ f.seq = e.seq
          /\ f.buffer = e.buffer /\ f.offset = 0
          /\ f.status = IF e.status = "finalized" THEN "eof" ELSE e.status
      BY <1>5, <2>3, <2>2 DEF EncTypes
    <2>5. EncMade(j, e, w) /\ e.offset > 0 /\ rest = After(e.buffer, e.offset) /\ n = Len(rest)
      BY <1>1, <1>2, <1>3, <1>4, <1>8, <1>10
    <2>6. EncMade(j, f, w \o Upto(rest, n)) BY <1>5, <1>8, <2>4, <2>5, DrainMade
    <2>7. QED BY <1>2, <1>3, <1>4, <2>6, EncStep
  <1>11. QED BY <1>9, <1>10

\* There is nothing more to encrypt.
LEMMA EncEOFInv ==
  ASSUME EncInv, EncEOF
  PROVE  EncInv'
  <1>1. /\ enc.room > 0 /\ enc.offset = 0 /\ enc.src = <<>> /\ enc.status # "eof"
        /\ enc' = [enc EXCEPT !.status = "eof", !.room = 0]
        /\ UNCHANGED <<job, wire, same, dec>>
    BY DEF EncEOF, EncEnds
  <1>2. dec.status = "none" /\ EncMade(job, enc, wire) BY <1>1, EncAwake
  <1>3. PICK j, e, f, w : j = job /\ e = enc /\ f = enc' /\ w = wire OBVIOUS
  <1>4. e \in EncTypes(Toks(j)) /\ Job(j) /\ EncOk(j, e) /\ MadeSoFar(j, e, w) /\ w \in Seq(Toks(j))
    BY <1>2, <1>3 DEF EncMade, EncOk, EncInv
  <1>5. /\ f \in EncTypes(Toks(j)) /\ f.src = e.src /\ f.pending = e.pending /\ f.seq = e.seq
        /\ f.status = "eof" /\ f.buffer = e.buffer /\ f.offset = e.offset
    BY <1>1, <1>3, <1>4 DEF EncTypes
  <1>6. e.room # 0 /\ e.offset = 0 /\ e.src = <<>> /\ e.status # "eof" /\ e.seq \in Nat
    BY <1>1, <1>3, <1>4, EncFields
  <1>7. j.from = "reader"
    <2>1. j.from # "writer" BY <1>4, <1>6 DEF EncOk
    <2>2. QED BY <1>4, <2>1, JobIs
  <1>8. e.pending = <<>> /\ Part(j.plain, Edge(j, e.seq), Len(j.plain)) = <<>>
    <2>1. e.pending = <<>> /\ e.pending \o e.src = Part(j.plain, Edge(j, e.seq), Len(j.plain))
      BY <1>4, <1>6, <1>7 DEF EncOk
    <2>2. <<>> \o <<>> = <<>> OBVIOUS
    <2>3. QED BY <1>6, <2>1, <2>2
  <1>9. EncOk(j, f) BY <1>4, <1>5, <1>6, <1>7, <1>8 DEF EncOk
  <1>10. Whole(j, w)
    <2>1. Left(e) = <<>>
      <3>1. ~(e.offset > 0) BY <1>6
      <3>2. QED BY <3>1, Zenon DEF Left
    <2>2. w \o <<>> = w BY <1>4, ConcatEmptySeq
    <2>3. Made(j, w \o Left(e), e.seq) BY <1>4, <1>6 DEF MadeSoFar
    <2>4. Made(j, w, e.seq) BY <2>1, <2>2, <2>3
    <2>5. e.seq > 0 => Edge(j, e.seq - 1) < Len(j.plain) BY <1>4 DEF EncOk
    <2>6. QED BY <1>4, <1>6, <1>8, <2>4, <2>5, WholeIs
  <1>11. EncMade(job, enc', wire') BY <1>1, <1>3, <1>4, <1>5, <1>9, <1>10 DEF EncMade, MadeSoFar
  <1>12. QED BY <1>1, <1>2, <1>11, EncStep

\* A package goes to the caller, all of it or a part.
LEMMA EncSealed ==
  ASSUME EncInv, dec.status = "none", enc.room > 0, enc.offset = 0, ~EncEnds(enc),
         NEW r \in Nat, NEW b \in Seq(Toks(job)), NEW o \in Nat, NEW st, NEW v,
         st = "eof" => IsLast(enc) /\ o = 0,
         st # "eof" => st = IF IsLast(enc) THEN "finalized" ELSE "open",
         o <= Len(b), v \in Seq(Toks(job)),
         enc' = [enc EXCEPT !.src = After(@, Len(PayloadOf(enc))), !.seq = @ + 1, !.status = st,
                            !.room = r, !.buffer = b, !.offset = o],
         v \o Left(enc') = wire \o NextPackage(enc)
  PROVE  EncMade(job, enc', v)
  <1>1. PICK j, e, f, w : j = job /\ e = enc /\ f = enc' /\ w = wire OBVIOUS
  <1>2. Job(j) /\ EncOk(j, e) /\ EncMade(j, e, w) /\ e \in EncTypes(Toks(j))
    BY <1>1 DEF EncInv, EncMade, EncOk
  <1>3. /\ e.seq \in Numbers(j) /\ e.seq \in Nat /\ e.pending = <<>> /\ j.from = "reader"
        /\ NextPackage(enc) = Package(j, e.seq)
        /\ After(e.src, Len(PayloadOf(enc))) = Part(j.plain, Edge(j, e.seq + 1), Len(j.plain))
        /\ IsLast(enc) => After(e.src, Len(PayloadOf(enc))) = <<>>
        /\ After(e.src, Len(PayloadOf(enc))) \in Seq(Toks(j))
    BY <1>1, PackageNow
  <1>4. e.status # "eof" BY <1>1, EncAwake
  <1>5. PICK s : s = After(e.src, Len(PayloadOf(enc))) OBVIOUS
  <1>6. PICK k \in Nat : k = e.seq + 1 BY <1>3
  <1>7. st \in {"first", "open", "finalized", "eof"} /\ (st \in {"finalized", "eof"} => IsLast(enc))
    OBVIOUS
  <1>8. f = [e EXCEPT !.src = s, !.seq = k, !.status = st, !.room = r, !.buffer = b, !.offset = o]
    BY <1>1, <1>5, <1>6
  <1>9. s \in Seq(Toks(j)) /\ b \in Seq(Toks(j)) /\ (IsLast(enc) => s = <<>>)
        /\ s = Part(j.plain, Edge(j, e.seq + 1), Len(j.plain))
    BY <1>1, <1>3, <1>5
  <1>10. /\ f \in EncTypes(Toks(j)) /\ f.src = s /\ f.pending = e.pending /\ f.seq = k /\ f.status = st
         /\ f.buffer = b /\ f.offset = o
    BY <1>2, <1>7, <1>8, <1>9 DEF EncTypes
  <1>11. f.pending \o f.src = Part(j.plain, Edge(j, e.seq + 1), Len(j.plain))
    <2>1. <<>> \o s = s BY <1>9, ConcatEmptySeq
    <2>2. QED BY <1>3, <1>9, <1>10, <2>1
  <1>12. v \o Left(f) = w \o Package(j, e.seq) /\ v \in Seq(Toks(j)) BY <1>1, <1>3
  <1>13. f.pending = <<>> /\ j.from # "writer" BY <1>3, <1>10
  <1>14. f.status \in {"finalized", "eof"} => f.src = <<>> BY <1>7, <1>9, <1>10
  <1>15. f.offset <= Len(f.buffer) /\ f.seq = e.seq + 1 /\ e.offset = 0 BY <1>1, <1>6, <1>10
  <1>16. f.status = "eof" => f.pending = <<>> /\ f.offset = 0 BY <1>10, <1>13
  <1>17. EncMade(j, f, v)
    BY <1>2, <1>3, <1>4, <1>10, <1>11, <1>12, <1>13, <1>14, <1>15, <1>16, NextMade
  <1>18. QED BY <1>1, <1>17

\* A package is a sequence of tokens.
LEMMA NextPackageIs ==
  ASSUME EncInv, dec.status = "none", enc.room > 0, enc.offset = 0, ~EncEnds(enc)
  PROVE  NextPackage(enc) \in Seq(Toks(job)) /\ Len(NextPackage(enc)) \in Nat \ {0}
         /\ Len(NextPackage(enc)) <= HeaderSize + job.size + TagSize
  <1>1. PICK j, k : j = job /\ k = enc.seq OBVIOUS
  <1>2. Job(j) /\ k \in Numbers(j) /\ k \in Nat /\ NextPackage(enc) = Package(j, k)
    BY <1>1, PackageNow DEF EncInv
  <1>3. PICK x \in Nat : x = Len(Piece(j, k)) /\ x <= j.size BY <1>2, PieceIs
  <1>4. Package(j, k) \in Seq(Toks(j)) /\ Len(Package(j, k)) = x + 3 BY <1>2, <1>3, PackageIs
  <1>5. j.size \in Nat BY <1>2, JobIs
  <1>6. x + 3 \in Nat \ {0} /\ x + 3 <= HeaderSize + j.size + TagSize
    BY <1>3, <1>5 DEF HeaderSize, TagSize
  <1>7. QED BY <1>1, <1>2, <1>4, <1>6

\* A Read takes a package as a whole.
LEMMA EncWholeInv ==
  ASSUME EncInv, EncWhole
  PROVE  EncInv'
  <1>1. PICK p, n : p = NextPackage(enc) /\ n = Len(p) OBVIOUS
  <1>2. /\ enc.room >= HeaderSize + job.size + TagSize
        /\ enc.offset = 0 /\ ~EncEnds(enc) /\ UNCHANGED <<job, same, dec>>
        /\ wire' = wire \o p
        /\ enc' = IF IsLast(enc) THEN [Sealed(enc) EXCEPT !.status = "eof", !.room = 0]
                  ELSE [Sealed(enc) EXCEPT !.room = @ - n]
    BY <1>1 DEF EncWhole
  <1>3. dec.status = "none" /\ EncMade(job, enc, wire) /\ enc.status # "eof" BY <1>2, EncAwake
  <1>4. PICK T, e, w : T = Toks(job) /\ e = enc /\ w = wire OBVIOUS
  <1>5. e \in EncTypes(T) /\ w \in Seq(T) /\ Job(job) BY <1>3, <1>4 DEF EncMade, EncOk, EncInv
  <1>6. e.room \in Nat /\ e.buffer \in Seq(T) /\ job.size \in Nat \ {0} BY <1>5, EncFields, JobIs
  <1>7. e.room > 0 /\ e.room >= HeaderSize + job.size + TagSize
    BY <1>2, <1>4, <1>6 DEF HeaderSize, TagSize
  <1>8. p \in Seq(T) /\ n \in Nat \ {0} /\ n <= HeaderSize + job.size + TagSize
    BY <1>1, <1>2, <1>3, <1>4, <1>7, NextPackageIs
  <1>9. PICK r \in Nat : r = IF IsLast(enc) THEN 0 ELSE e.room - n
    BY <1>6, <1>7, <1>8 DEF HeaderSize, TagSize
  <1>10. PICK st : st = IF IsLast(enc) THEN "eof" ELSE "open" OBVIOUS
  <1>11. PICK s, k, b : s = After(e.src, Len(PayloadOf(enc))) /\ k = e.seq + 1 /\ b = e.buffer
    OBVIOUS
  <1>12. enc' = [e EXCEPT !.src = s, !.seq = k, !.status = st, !.room = r, !.buffer = b, !.offset = 0]
    <2>1. Sealed(enc) = [e EXCEPT !.src = s, !.seq = k, !.status = IF IsLast(enc) THEN "finalized" ELSE "open"]
      BY <1>4, <1>11 DEF Sealed
    <2>2. CASE IsLast(enc)
      <3>1. st = "eof" /\ r = 0 BY <1>9, <1>10, <2>2
      <3>2. enc' = [[e EXCEPT !.src = s, !.seq = k, !.status = "finalized"] EXCEPT !.status = "eof", !.room = 0]
        BY <1>2, <2>1, <2>2
      <3>3. QED
        <4>1. e.offset = 0 /\ e.room \in Nat BY <1>2, <1>4, <1>6
        <4>2. QED BY <1>5, <1>11, <3>1, <3>2, <4>1 DEF EncTypes
    <2>3. CASE ~IsLast(enc)
      <3>1. st = "open" /\ r = e.room - n BY <1>9, <1>10, <2>3
      <3>2. enc' = [[e EXCEPT !.src = s, !.seq = k, !.status = "open"] EXCEPT !.room = @ - n]
        BY <1>2, <2>1, <2>3
      <3>3. QED
        <4>1. e.offset = 0 /\ e.room \in Nat BY <1>2, <1>4, <1>6
        <4>2. QED BY <1>5, <1>11, <3>1, <3>2, <4>1 DEF EncTypes
    <2>4. QED BY <2>2, <2>3
  <1>13. Left(enc') = <<>>
    <2>1. enc'.offset = 0 BY <1>5, <1>12 DEF EncTypes
    <2>2. ~(enc'.offset > 0) BY <2>1
    <2>3. QED BY <2>2, Zenon DEF Left
  <1>14. w \o p \in Seq(T) /\ (w \o p) \o <<>> = w \o p
    <2>1. w \o p \in Seq(T) BY <1>5, <1>8, ConcatProperties
    <2>2. QED BY <2>1, ConcatEmptySeq
  <1>15. b \in Seq(T) /\ 0 <= Len(b) BY <1>6, <1>11
  <1>16. enc' = [enc EXCEPT !.src = After(@, Len(PayloadOf(enc))), !.seq = @ + 1, !.status = st,
                            !.room = r, !.buffer = b, !.offset = 0]
    BY <1>4, <1>11, <1>12
  <1>17. (st = "eof" => IsLast(enc)) /\ (st # "eof" => st = IF IsLast(enc) THEN "finalized" ELSE "open")
    BY <1>10
  <1>18. EncMade(job, enc', w \o p)
    <2>1. (w \o p) \o Left(enc') = wire \o NextPackage(enc) BY <1>1, <1>4, <1>13, <1>14
    <2>2. b \in Seq(Toks(job)) /\ w \o p \in Seq(Toks(job)) /\ enc.room > 0
      BY <1>4, <1>7, <1>14, <1>15
    <2>3. PICK v : v = w \o p OBVIOUS
    <2>4. PICK o \in Nat : v = w \o p /\ o = 0 BY <2>3
    <2>5. /\ v \o Left(enc') = wire \o NextPackage(enc) /\ v \in Seq(Toks(job)) /\ o <= Len(b)
          /\ enc' = [enc EXCEPT !.src = After(@, Len(PayloadOf(enc))), !.seq = @ + 1, !.status = st,
                                 !.room = r, !.buffer = b, !.offset = o]
          /\ st = "eof" => IsLast(enc) /\ o = 0
      BY <1>15, <1>16, <1>17, <2>1, <2>2, <2>4
    <2>6. enc.offset = 0 /\ ~EncEnds(enc) /\ (st # "eof" => st = IF IsLast(enc) THEN "finalized" ELSE "open")
      BY <1>2, <1>17
    <2>7. EncMade(job, enc', v) BY <1>3, <2>2, <2>5, <2>6, EncSealed
    <2>8. QED BY <2>4, <2>7
  <1>19. QED BY <1>2, <1>3, <1>4, <1>18, EncStep

\* A Read takes a part of a package.
LEMMA EncPartInv ==
  ASSUME EncInv, EncPart
  PROVE  EncInv'
  <1>1. PICK p, n : p = NextPackage(enc) /\ n = Least(enc.room, Len(p)) OBVIOUS
  <1>2. /\ enc.room > 0 /\ enc.offset = 0 /\ ~EncEnds(enc) /\ UNCHANGED <<job, same, dec>>
        /\ wire' = wire \o Upto(p, n)
        /\ enc' = IF IsLast(enc) /\ enc.room > Len(p) THEN [Sealed(enc) EXCEPT !.status = "eof", !.room = 0]
                  ELSE [Sealed(enc) EXCEPT !.buffer = p, !.offset = n, !.room = 0]
    BY <1>1 DEF EncPart
  <1>3. dec.status = "none" /\ EncMade(job, enc, wire) /\ enc.status # "eof" BY <1>2, EncAwake
  <1>4. PICK T, e, w : T = Toks(job) /\ e = enc /\ w = wire OBVIOUS
  <1>5. e \in EncTypes(T) /\ w \in Seq(T) /\ Job(job) BY <1>3, <1>4 DEF EncMade, EncOk, EncInv
  <1>6. e.room \in Nat /\ e.buffer \in Seq(T) /\ e.room > 0 BY <1>2, <1>4, <1>5, EncFields
  <1>7. p \in Seq(T) /\ Len(p) \in Nat \ {0} BY <1>1, <1>2, <1>3, <1>4, NextPackageIs
  <1>8. n \in Nat \ {0} /\ n <= Len(p) /\ (e.room > Len(p) => n = Len(p))
    BY <1>1, <1>4, <1>6, <1>7 DEF Least
  <1>9. PICK u, x : u = Upto(p, n) /\ x = After(p, n) OBVIOUS
  <1>10. u \in Seq(T) /\ x \in Seq(T) /\ u \o x = p BY <1>7, <1>8, <1>9, SplitIs
  <1>11. PICK v : v = w \o u OBVIOUS
  <1>12. v \in Seq(T) /\ v \o x = w \o p
    <2>1. w \in Seq(T) /\ u \in Seq(T) /\ x \in Seq(T) BY <1>5, <1>10
    <2>2. w \o u \in Seq(T) BY <2>1, ConcatProperties
    <2>3. (w \o u) \o x = w \o (u \o x) BY <2>1, ConcatAssociative
    <2>4. QED BY <1>10, <1>11, <2>2, <2>3
  <1>13. PICK s, k : s = After(e.src, Len(PayloadOf(enc))) /\ k = e.seq + 1 OBVIOUS
  <1>14. Sealed(enc) = [e EXCEPT !.src = s, !.seq = k, !.status = IF IsLast(enc) THEN "finalized" ELSE "open"]
    BY <1>4, <1>13 DEF Sealed
  <1>15. PICK z \in Nat : z = 0 OBVIOUS
  <1>16. CASE IsLast(enc) /\ enc.room > Len(p)
    <2>1. PICK b, st : b = e.buffer /\ st = "eof" OBVIOUS
    <2>2. enc' = [[e EXCEPT !.src = s, !.seq = k, !.status = "finalized"] EXCEPT !.status = "eof", !.room = 0]
      BY <1>2, <1>14, <1>16
    <2>3. enc' = [e EXCEPT !.src = s, !.seq = k, !.status = st, !.room = z, !.buffer = b, !.offset = z]
      BY <1>2, <1>4, <1>5, <1>15, <2>1, <2>2 DEF EncTypes
    <2>4. Left(enc') = <<>>
      <3>1. enc'.offset = 0 BY <1>5, <1>15, <2>3 DEF EncTypes
      <3>2. ~(enc'.offset > 0) BY <3>1
      <3>3. QED BY <3>2, Zenon DEF Left
    <2>5. v = w \o p
      <3>1. n = Len(p) BY <1>4, <1>8, <1>16
      <3>2. u = Part(p, 0, Len(p)) BY <1>9, <3>1, UptoIs
      <3>3. u = p BY <1>7, <3>2, WholePart
      <3>4. QED BY <1>11, <3>3
    <2>6. v \o Left(enc') = wire \o NextPackage(enc)
      <3>1. v \o <<>> = v BY <1>12, ConcatEmptySeq
      <3>2. QED BY <1>1, <1>4, <2>4, <2>5, <3>1
    <2>7. enc' = [enc EXCEPT !.src = After(@, Len(PayloadOf(enc))), !.seq = @ + 1, !.status = st,
                             !.room = z, !.buffer = b, !.offset = z]
      BY <1>4, <1>13, <2>3
    <2>8. b \in Seq(Toks(job)) /\ z <= Len(b) /\ v \in Seq(Toks(job))
      BY <1>4, <1>6, <1>12, <1>15, <2>1
    <2>9. (st = "eof" => IsLast(enc) /\ z = 0) /\ (st # "eof" => st = IF IsLast(enc) THEN "finalized" ELSE "open")
      BY <1>15, <1>16, <2>1
    <2>10. EncMade(job, enc', v) BY <1>2, <1>3, <2>6, <2>7, <2>8, <2>9, EncSealed
    <2>11. QED BY <1>2, <1>3, <1>4, <1>9, <1>11, <2>10, EncStep
  <1>17. CASE ~(IsLast(enc) /\ enc.room > Len(p))
    <2>1. PICK st : st = IF IsLast(enc) THEN "finalized" ELSE "open" OBVIOUS
    <2>2. enc' = [[e EXCEPT !.src = s, !.seq = k, !.status = st] EXCEPT !.buffer = p, !.offset = n, !.room = 0]
      BY <1>2, <1>14, <1>17, <2>1
    <2>3. enc' = [e EXCEPT !.src = s, !.seq = k, !.status = st, !.room = z, !.buffer = p, !.offset = n]
      BY <1>5, <1>15, <2>2 DEF EncTypes
    <2>4. Left(enc') = x
      <3>1. enc'.offset = n /\ enc'.buffer = p BY <1>5, <2>3 DEF EncTypes
      <3>2. n > 0 BY <1>8
      <3>3. QED BY <1>9, <3>1, <3>2 DEF Left
    <2>5. v \o Left(enc') = wire \o NextPackage(enc) BY <1>1, <1>4, <1>12, <2>4
    <2>6. enc' = [enc EXCEPT !.src = After(@, Len(PayloadOf(enc))), !.seq = @ + 1, !.status = st,
                             !.room = z, !.buffer = p, !.offset = n]
      BY <1>4, <1>13, <2>3
    <2>7. p \in Seq(Toks(job)) /\ n \in Nat /\ n <= Len(p) /\ v \in Seq(Toks(job))
      BY <1>4, <1>7, <1>8, <1>12
    <2>8. (st = "eof" => IsLast(enc) /\ n = 0) /\ (st # "eof" => st = IF IsLast(enc) THEN "finalized" ELSE "open")
      BY <2>1
    <2>9. EncMade(job, enc', v) BY <1>2, <1>3, <2>5, <2>6, <2>7, <2>8, EncSealed
    <2>10. QED BY <1>2, <1>3, <1>4, <1>9, <1>11, <2>9, EncStep
  <1>18. QED BY <1>16, <1>17

\* A Write adds to what is pending.
LEMMA EncWriteInv ==
  ASSUME EncInv, NEW n \in Nat, EncWrite(n)
  PROVE  EncInv'
  <1>1. /\ job.from = "writer" /\ enc.status # "eof" /\ n <= Len(enc.src)
        /\ enc' = [enc EXCEPT !.src = After(@, n), !.pending = @ \o Upto(enc.src, n)]
        /\ UNCHANGED <<job, wire, same, dec>>
    BY DEF EncWrite
  <1>2. dec.status = "none" /\ EncMade(job, enc, wire) BY <1>1, EncAwake
  <1>3. PICK j, e, f, w, T : j = job /\ e = enc /\ f = enc' /\ w = wire /\ T = Toks(j) OBVIOUS
  <1>4. e \in EncTypes(T) /\ EncOk(j, e) /\ MadeSoFar(j, e, w) /\ w \in Seq(T)
    BY <1>2, <1>3 DEF EncMade, EncOk
  <1>5. PICK s, d : s = e.src /\ d = e.pending OBVIOUS
  <1>6. s \in Seq(T) /\ d \in Seq(T) /\ n <= Len(s) BY <1>1, <1>3, <1>4, <1>5, EncFields
  <1>7. PICK u, x : u = Upto(s, n) /\ x = After(s, n) OBVIOUS
  <1>8. u \in Seq(T) /\ x \in Seq(T) /\ u \o x = s BY <1>6, <1>7, SplitIs
  <1>9. PICK c : c = d \o u OBVIOUS
  <1>10. c \in Seq(T) /\ c \o x = d \o s
    <2>1. d \in Seq(T) /\ u \in Seq(T) /\ x \in Seq(T) BY <1>6, <1>8
    <2>2. d \o u \in Seq(T) BY <2>1, ConcatProperties
    <2>3. (d \o u) \o x = d \o (u \o x) BY <2>1, ConcatAssociative
    <2>4. QED BY <1>8, <1>9, <2>2, <2>3
  <1>11. f = [e EXCEPT !.src = x, !.pending = c] BY <1>1, <1>3, <1>5, <1>7, <1>9
  <1>12. /\ f \in EncTypes(T) /\ f.src = x /\ f.pending = c /\ f.seq = e.seq /\ f.room = e.room
         /\ f.status = e.status /\ f.buffer = e.buffer /\ f.offset = e.offset
    BY <1>4, <1>8, <1>10, <1>11 DEF EncTypes
  <1>13. e.status # "eof" /\ e.status # "finalized" /\ j.from = "writer"
    BY <1>1, <1>3, <1>4 DEF EncOk
  <1>14. EncOk(j, f)
    <2>1. f.pending \o f.src = Part(j.plain, Edge(j, f.seq), Len(j.plain))
      BY <1>4, <1>5, <1>10, <1>12, <1>13 DEF EncOk
    <2>2. f.status # "eof" /\ f.status # "finalized" /\ j.from # "reader" /\ f.room = 0 /\ f.offset = 0
      BY <1>4, <1>12, <1>13 DEF EncOk
    <2>3. f.offset <= Len(f.buffer) /\ (f.seq > 0 => Edge(j, f.seq - 1) < Len(j.plain))
      BY <1>4, <1>12 DEF EncOk
    <2>4. QED BY <1>3, <1>12, <2>1, <2>2, <2>3 DEF EncOk
  <1>15. MadeSoFar(j, f, w)
    <2>1. Left(f) = Left(e) BY <1>12 DEF Left
    <2>2. Made(j, w \o Left(e), e.seq) BY <1>4, <1>13 DEF MadeSoFar
    <2>3. Made(j, w \o Left(f), f.seq) BY <1>12, <2>1, <2>2, Zenon
    <2>4. QED BY <1>12, <1>13, <2>3 DEF MadeSoFar
  <1>16. EncMade(job, enc', wire') BY <1>1, <1>3, <1>4, <1>14, <1>15 DEF EncMade
  <1>17. QED BY <1>1, <1>2, <1>16, EncStep

\* The package a writer makes of what it has.
LEMMA PendingIs ==
  ASSUME EncInv, dec.status = "none", job.from = "writer", enc.status # "eof", enc.pending # <<>>
  PROVE  /\ enc.seq \in Numbers(job) /\ enc.seq \in Nat /\ enc.offset = 0
         /\ SealNow(Len(enc.pending)) =>
              /\ SealPackage(job.version, enc.seq, FALSE, Upto(enc.pending, job.size)) = Package(job, enc.seq)
              /\ After(enc.pending, job.size) \in Seq(Toks(job))
              /\ After(enc.pending, job.size) \o enc.src = Part(job.plain, Edge(job, enc.seq + 1), Len(job.plain))
         /\ (~SealNow(Len(enc.pending)) /\ enc.src = <<>>) =>
              /\ SealPackage(job.version, enc.seq, job.version = 20, enc.pending) = Package(job, enc.seq)
              /\ Part(job.plain, Edge(job, enc.seq + 1), Len(job.plain)) = <<>>
  <1>1. PICK j, e, T : j = job /\ e = enc /\ T = Toks(j) OBVIOUS
  <1>2. Job(j) /\ EncOk(j, e) /\ e \in EncTypes(T) BY <1>1 DEF EncInv, EncOk
  <1>3. PICK k \in Nat, p \in Seq(T), x \in Seq(T) : k = e.seq /\ p = e.pending /\ x = e.src
    BY <1>2, EncFields
  <1>4. PICK s : s = p \o x OBVIOUS
  <1>5. e.offset = 0 /\ s = Part(j.plain, Edge(j, k), Len(j.plain)) /\ p # <<>>
    BY <1>1, <1>2, <1>3, <1>4 DEF EncOk
  <1>6. Len(p) \in Nat \ {0} /\ Len(x) \in Nat /\ s \in Seq(T) /\ Len(s) = Len(p) + Len(x)
    <2>1. Len(p) # 0 BY <1>5, EmptySeq
    <2>2. p \o x \in Seq(T) /\ Len(p \o x) = Len(p) + Len(x) BY ConcatProperties
    <2>3. QED BY <1>4, <2>1, <2>2
  <1>7. s # <<>>
    <2>1. Len(<<>>) = 0 OBVIOUS
    <2>2. Len(s) # 0 BY <1>6
    <2>3. QED BY <2>1, <2>2
  <1>8. PICK c \in Nat \ {0} : c = j.size BY <1>2, JobIs
  <1>9. /\ k \in Numbers(j)
        /\ Upto(s, Least(Len(s), c)) = Piece(j, k)
        /\ After(s, Least(Len(s), c)) = Part(j.plain, Edge(j, k + 1), Len(j.plain))
        /\ Len(s) <= c <=> Edge(j, k + 1) = Len(j.plain)
    BY <1>2, <1>5, <1>7, <1>8, NextIs
  <1>10. ASSUME SealNow(Len(p))
         PROVE  /\ SealPackage(j.version, k, FALSE, Upto(p, c)) = Package(j, k)
                /\ After(p, c) \in Seq(T)
                /\ After(p, c) \o x = Part(j.plain, Edge(j, k + 1), Len(j.plain))
    <2>1. Len(p) >= c /\ (j.version = 20 => Len(p) > c)
      <3>1. IF j.version = 20 THEN Len(p) > c ELSE Len(p) >= c BY <1>1, <1>8, <1>10 DEF SealNow
      <3>2. QED BY <1>6, <3>1
    <2>2. Least(Len(s), c) = c BY <1>6, <2>1 DEF Least
    <2>3. Ends(j, k) = FALSE BY <1>6, <1>9, <2>1 DEF Ends
    <2>4. Upto(s, c) = Upto(p, c)
      <3>1. Part(p \o x, 0, c) = Part(p, 0, c) BY <2>1, PartOfFirst
      <3>2. QED BY <1>4, <3>1, UptoIs
    <2>5. After(s, c) = After(p, c) \o x
      <3>1. PICK a \in Nat, b \in Nat : a = Len(p) /\ b = Len(x) BY <1>6
      <3>2. c <= Len(p) /\ b <= Len(x) BY <2>1, <3>1
      <3>3. Part(p \o x, c, Len(p) + b) = Part(p, c, Len(p)) \o Part(x, 0, b) BY <3>2, PartAcross
      <3>4. Part(x, 0, b) = x BY <3>1, WholePart
      <3>5. After(s, c) = Part(s, c, Len(s)) /\ After(p, c) = Part(p, c, Len(p)) BY UptoIs
      <3>6. QED BY <1>4, <1>6, <3>1, <3>3, <3>4, <3>5
    <2>6. After(p, c) \in Seq(T) BY <2>1, SplitIs
    <2>7. Package(j, k) = SealPackage(j.version, k, FALSE, Piece(j, k)) BY <2>3 DEF Package
    <2>8. QED BY <1>9, <2>2, <2>4, <2>5, <2>6, <2>7
  <1>11. ASSUME ~SealNow(Len(p)), x = <<>>
         PROVE  /\ SealPackage(j.version, k, j.version = 20, p) = Package(j, k)
                /\ Part(j.plain, Edge(j, k + 1), Len(j.plain)) = <<>>
    <2>1. s = p BY <1>4, <1>11, ConcatEmptySeq
    <2>2. Len(s) <= c
      <3>1. ~(IF j.version = 20 THEN Len(p) > c ELSE Len(p) >= c) BY <1>1, <1>8, <1>11 DEF SealNow
      <3>2. QED BY <1>6, <2>1, <3>1
    <2>3. Least(Len(s), c) = Len(s) BY <1>6, <2>2 DEF Least
    <2>4. Upto(s, Len(s)) = s /\ After(s, Len(s)) = <<>>
      <3>1. Upto(s, Len(s)) = Part(s, 0, Len(s)) /\ After(s, Len(s)) = Part(s, Len(s), Len(s))
        BY UptoIs
      <3>2. Part(s, 0, Len(s)) = s BY <1>6, WholePart
      <3>3. Part(s, Len(s), Len(s)) = <<>>
        <4>1. Len(s) \in Nat /\ Len(s) <= Len(s) BY <1>6
        <4>2. QED BY <1>6, <4>1, NoPart
      <3>4. QED BY <3>1, <3>2, <3>3
    <2>5. Ends(j, k) = (j.version = 20) BY <1>9, <2>2 DEF Ends
    <2>6. Piece(j, k) = p BY <1>9, <2>1, <2>3, <2>4
    <2>7. QED BY <1>9, <2>3, <2>4, <2>5, <2>6 DEF Package
  <1>12. QED BY <1>1, <1>3, <1>5, <1>8, <1>9, <1>10, <1>11

\* A Write seals a package.
LEMMA EncWriteSealsInv ==
  ASSUME EncInv, EncWriteSeals
  PROVE  EncInv'
  <1>1. PICK p : p = SealPackage(job.version, enc.seq, FALSE, Upto(enc.pending, job.size)) OBVIOUS
  <1>2. /\ job.from = "writer" /\ SealNow(Len(enc.pending)) /\ wire' = wire \o p
        /\ enc' = [enc EXCEPT !.pending = After(@, job.size), !.seq = @ + 1]
        /\ UNCHANGED <<job, same, dec>>
    BY <1>1 DEF EncWriteSeals
  <1>3. dec.status = "none" /\ EncMade(job, enc, wire) /\ enc.status # "eof" BY <1>2, EncAwake
  <1>4. PICK j, e, f, w, T, x : j = job /\ e = enc /\ f = enc' /\ w = wire /\ T = Toks(j) /\ x = After(e.pending, j.size)
    OBVIOUS
  <1>5. e \in EncTypes(T) /\ EncOk(j, e) /\ EncMade(j, e, w) /\ w \in Seq(T) /\ Job(j)
    BY <1>3, <1>4 DEF EncMade, EncOk, EncInv
  <1>6. enc.pending # <<>>
    <2>1. job.size \in Nat \ {0} BY <1>4, <1>5, JobIs
    <2>2. ASSUME enc.pending = <<>> PROVE FALSE
      <3>1. Len(enc.pending) = 0 BY <2>2
      <3>2. ~SealNow(0) BY <2>1 DEF SealNow
      <3>3. QED BY <1>2, <3>1, <3>2
    <2>3. QED BY <2>2
  <1>7. /\ e.seq \in Numbers(j) /\ e.seq \in Nat /\ e.offset = 0
        /\ p = Package(j, e.seq) /\ x \in Seq(T)
        /\ x \o e.src = Part(j.plain, Edge(j, e.seq + 1), Len(j.plain))
    BY <1>1, <1>2, <1>3, <1>4, <1>6, PendingIs
  <1>8. PICK k \in Nat : k = e.seq + 1 BY <1>7
  <1>9. f = [e EXCEPT !.pending = x, !.seq = k] BY <1>2, <1>4, <1>8
  <1>10. /\ f \in EncTypes(T) /\ f.src = e.src /\ f.pending = x /\ f.seq = k /\ f.room = e.room
         /\ f.status = e.status /\ f.buffer = e.buffer /\ f.offset = e.offset
    BY <1>5, <1>7, <1>9 DEF EncTypes
  <1>11. j.from = "writer" /\ j.from # "reader" /\ e.room = 0 /\ e.status # "finalized" /\ e.status # "eof"
         /\ e.offset <= Len(e.buffer)
    BY <1>2, <1>3, <1>4, <1>5 DEF EncOk
  <1>12. PICK v : v = w \o p OBVIOUS
  <1>13. v \in Seq(T)
    <2>1. p \in Seq(T) BY <1>4, <1>5, <1>7, PackageIs
    <2>2. QED BY <1>5, <1>12, <2>1, ConcatProperties
  <1>14. v \o Left(f) = w \o Package(j, e.seq)
    <2>1. ~(f.offset > 0) BY <1>7, <1>10
    <2>2. Left(f) = <<>> BY <2>1, Zenon DEF Left
    <2>3. v \o <<>> = v BY <1>13, ConcatEmptySeq
    <2>4. QED BY <1>7, <1>12, <2>2, <2>3
  <1>15. /\ f.offset <= Len(f.buffer) /\ f.seq = e.seq + 1
         /\ f.pending \o f.src = Part(j.plain, Edge(j, e.seq + 1), Len(j.plain))
         /\ f.room = 0 /\ f.offset = 0 /\ f.status # "finalized" /\ f.status # "eof"
    BY <1>7, <1>8, <1>10, <1>11
  <1>16. EncMade(j, f, v) BY <1>4, <1>5, <1>7, <1>10, <1>11, <1>13, <1>14, <1>15, NextMade
  <1>17. QED BY <1>2, <1>3, <1>4, <1>12, <1>16, EncStep

\* Close seals what is pending.
LEMMA EncCloseInv ==
  ASSUME EncInv, EncClose
  PROVE  EncInv'
  <1>1. PICK p : p = SealPackage(job.version, enc.seq, job.version = 20, enc.pending) OBVIOUS
  <1>2. /\ job.from = "writer" /\ enc.status # "eof" /\ enc.src = <<>> /\ ~SealNow(Len(enc.pending))
        /\ wire' = IF enc.pending = <<>> THEN wire ELSE wire \o p
        /\ enc' = [enc EXCEPT !.pending = <<>>, !.status = "eof"]
        /\ UNCHANGED <<job, same, dec>>
    BY <1>1 DEF EncClose
  <1>3. dec.status = "none" /\ EncMade(job, enc, wire) BY <1>2, EncAwake
  <1>4. PICK j, e, f, w, T, x : j = job /\ e = enc /\ f = enc' /\ w = wire /\ T = Toks(j) /\ x = <<>>
    OBVIOUS
  <1>5. e \in EncTypes(T) /\ EncOk(j, e) /\ MadeSoFar(j, e, w) /\ w \in Seq(T) /\ Job(j)
    BY <1>3, <1>4 DEF EncMade, EncOk, EncInv
  <1>6. f = [e EXCEPT !.pending = x, !.status = "eof"] /\ x \in Seq(T) BY <1>2, <1>4
  <1>7. /\ f \in EncTypes(T) /\ f.src = e.src /\ f.pending = x /\ f.seq = e.seq /\ f.room = e.room
        /\ f.status = "eof" /\ f.buffer = e.buffer /\ f.offset = e.offset
    BY <1>5, <1>6 DEF EncTypes
  <1>8. /\ j.from = "writer" /\ e.room = 0 /\ e.offset = 0 /\ e.status # "eof" /\ e.offset <= Len(e.buffer)
        /\ e.src = <<>> /\ e.pending \o e.src = Part(j.plain, Edge(j, e.seq), Len(j.plain))
        /\ (e.seq > 0 => Edge(j, e.seq - 1) < Len(j.plain)) /\ e.seq \in Nat
    BY <1>2, <1>4, <1>5, EncFields DEF EncOk
  <1>9. EncOk(j, f)
    <2>1. j.from # "reader" BY <1>8
    <2>2. QED BY <1>4, <1>7, <1>8, <2>1 DEF EncOk
  <1>10. Made(j, w, e.seq)
    <2>1. ~(e.offset > 0) BY <1>8
    <2>2. Left(e) = <<>> BY <2>1, Zenon DEF Left
    <2>3. Made(j, w \o Left(e), e.seq) BY <1>5, <1>8 DEF MadeSoFar
    <2>4. w \o <<>> = w BY <1>5, ConcatEmptySeq
    <2>5. QED BY <2>2, <2>3, <2>4
  <1>11. CASE enc.pending = <<>>
    <2>1. <<>> \o <<>> = <<>> OBVIOUS
    <2>2. Part(j.plain, Edge(j, e.seq), Len(j.plain)) = <<>> BY <1>4, <1>8, <1>11, <2>1
    <2>3. Whole(j, w) BY <1>5, <1>8, <1>10, <2>2, WholeIs
    <2>4. EncMade(job, enc', wire')
      BY <1>2, <1>4, <1>5, <1>7, <1>9, <1>11, <2>3 DEF EncMade, MadeSoFar
    <2>5. QED BY <1>2, <1>3, <2>4, EncStep
  <1>12. CASE enc.pending # <<>>
    <2>1. /\ e.seq \in Numbers(j) /\ p = Package(j, e.seq)
          /\ Part(j.plain, Edge(j, e.seq + 1), Len(j.plain)) = <<>>
      BY <1>1, <1>2, <1>3, <1>4, <1>12, PendingIs
    <2>2. PICK v : v = w \o p OBVIOUS
    <2>3. PICK k \in Nat : k = e.seq BY <1>8
    <2>4. Made(j, v, k + 1) BY <1>5, <1>10, <2>1, <2>2, <2>3, MadeGrows
    <2>5. Edge(j, (k + 1) - 1) < Len(j.plain)
      <3>1. (k + 1) - 1 = k OBVIOUS
      <3>2. QED BY <2>1, <2>3, <3>1 DEF Numbers
    <2>6. Whole(j, v)
      <3>1. k + 1 \in Nat /\ Part(j.plain, Edge(j, k + 1), Len(j.plain)) = <<>> BY <2>1, <2>3
      <3>2. QED BY <1>5, <2>4, <2>5, <3>1, WholeIs
    <2>7. v \in Seq(T) BY <1>4, <2>4 DEF Made
    <2>8. EncMade(job, enc', wire')
      <3>1. wire' = v BY <1>2, <1>4, <1>12, <2>2
      <3>2. QED BY <1>4, <1>7, <1>9, <2>6, <2>7, <3>1 DEF EncMade, MadeSoFar
    <2>9. QED BY <1>2, <1>3, <2>8, EncStep
  <1>13. QED BY <1>11, <1>12

(***************************************************************************)
(* What may happen to a stream on its way.                                 *)
(***************************************************************************)
\* A sequence of tokens in which no package says its number, if none should.
Clean(c, T, w) == w \in Seq(T) /\ (c => Uncounted(w))

\* A part of a stream whose packages say no number.
LEMMA CleanPart ==
  ASSUME NEW c, NEW T, NEW w, Clean(c, T, w), NEW a \in Nat, NEW b \in Nat, b <= Len(w)
  PROVE  Clean(c, T, SubSeq(w, a + 1, b))
  <1>1. w \in Seq(T) /\ Len(w) \in Nat /\ (c => \A m \in 1 .. Len(w) : w[m].nonce = 0)
    BY DEF Clean, Uncounted
  <1>2. \A i \in (a + 1) .. b : w[i] \in T BY <1>1, ElementOfSeq
  <1>3. /\ SubSeq(w, a + 1, b) \in Seq(T)
        /\ Len(SubSeq(w, a + 1, b)) = IF a + 1 <= b THEN b - (a + 1) + 1 ELSE 0
        /\ \A i \in 1 .. b - (a + 1) + 1 : SubSeq(w, a + 1, b)[i] = w[(a + 1) + i - 1]
    BY <1>1, <1>2, SubSeqProperties
  <1>4. PICK p : p = SubSeq(w, a + 1, b) OBVIOUS
  <1>5. ASSUME c, NEW m \in 1 .. Len(p) PROVE p[m].nonce = 0
    <2>1. m \in 1 .. b - (a + 1) + 1 /\ (a + 1) + m - 1 \in 1 .. Len(w) BY <1>1, <1>3, <1>4
    <2>2. p[m] = w[(a + 1) + m - 1] BY <1>3, <1>4, <2>1
    <2>3. QED BY <1>1, <1>5, <2>1, <2>2
  <1>6. QED BY <1>3, <1>4, <1>5 DEF Clean, Uncounted

\* Two such streams after each other.
LEMMA CleanJoin ==
  ASSUME NEW c, NEW T, NEW s, NEW t, Clean(c, T, s), Clean(c, T, t)
  PROVE  Clean(c, T, s \o t)
  <1>1. s \in Seq(T) /\ t \in Seq(T) /\ (c => \A m \in 1 .. Len(s) : s[m].nonce = 0)
        /\ (c => \A m \in 1 .. Len(t) : t[m].nonce = 0)
    BY DEF Clean, Uncounted
  <1>2. PICK x \in Nat, y \in Nat : x = Len(s) /\ y = Len(t) BY <1>1
  <1>3. PICK u : u = s \o t OBVIOUS
  <1>4. /\ u \in Seq(T) /\ Len(u) = x + y
        /\ \A m \in 1 .. x : u[m] = s[m]
        /\ \A m \in 1 .. y : u[x + m] = t[m]
    <2>1. s \in Seq(T) /\ t \in Seq(T) BY <1>1
    <2>2. /\ s \o t \in Seq(T) /\ Len(s \o t) = Len(s) + Len(t)
          /\ \A m \in 1 .. Len(s) : (s \o t)[m] = s[m]
          /\ \A m \in 1 .. Len(t) : (s \o t)[Len(s) + m] = t[m]
      BY <2>1, JoinIs
    <2>3. QED BY <1>2, <1>3, <2>2
  <1>5. ASSUME c, NEW m \in 1 .. Len(u) PROVE u[m].nonce = 0
    <2>1. CASE m <= x
      <3>1. m \in 1 .. x BY <1>4, <2>1
      <3>2. QED BY <1>1, <1>2, <1>4, <1>5, <3>1
    <2>2. CASE m > x
      <3>1. PICK n \in 1 .. y : m = x + n
        <4>1. m - x \in 1 .. y /\ m = x + (m - x) BY <1>4, <2>2
        <4>2. QED BY <4>1
      <3>2. u[m] = t[n] BY <1>4, <3>1
      <3>3. QED BY <1>1, <1>2, <1>5, <3>2
    <2>3. QED BY <1>4, <2>1, <2>2
  <1>6. QED BY <1>3, <1>4, <1>5 DEF Clean, Uncounted

\* The beginning of one, and what comes after it.
LEMMA CleanSplit ==
  ASSUME NEW c, NEW T, NEW w, Clean(c, T, w), NEW a \in Nat, a <= Len(w)
  PROVE  Clean(c, T, Upto(w, a)) /\ Clean(c, T, After(w, a))
  <1>1. Len(w) \in Nat BY DEF Clean
  <1>2. Clean(c, T, SubSeq(w, 0 + 1, a)) /\ 0 + 1 = 1
    <2>1. 0 \in Nat OBVIOUS
    <2>2. QED BY <2>1, CleanPart
  <1>3. Clean(c, T, SubSeq(w, a + 1, Len(w)))
    <2>1. Len(w) <= Len(w) BY <1>1
    <2>2. QED BY <1>1, <2>1, CleanPart
  <1>4. QED BY <1>2, <1>3 DEF Upto, After

\* A token of a stream is replaced.
LEMMA OneChanged ==
  ASSUME NEW T, NEW w \in Seq(T), NEW i \in 1 .. Len(w), NEW t \in T
  PROVE  /\ [w EXCEPT ![i] = t] \in Seq(T) /\ Len([w EXCEPT ![i] = t]) = Len(w)
         /\ \A m \in 1 .. Len(w) : [w EXCEPT ![i] = t][m] = IF m = i THEN t ELSE w[m]
  OBVIOUS

\* The token is one that may occur.
LEMMA TokenChanged ==
  ASSUME NEW j, Job(j), NEW t \in Toks(j)
  PROVE  /\ [t EXCEPT !.byte = @ + 1] \in Toks(j) /\ [t EXCEPT !.byte = @ + 1].nonce = t.nonce
         /\ [t EXCEPT !.final = ~@] \in Toks(j) /\ [t EXCEPT !.final = ~@].nonce = t.nonce
         /\ [t EXCEPT !.version = 30 - @] \in Toks(j) /\ [t EXCEPT !.version = 30 - @].nonce = t.nonce
         /\ [t EXCEPT !.nonce = 1 - @] \in Toks(j) /\ [t EXCEPT !.nonce = 1 - @].of = t.of
         /\ \A n \in 1 .. MaxPayloadSize :
              [t EXCEPT !.len = n] \in Toks(j) /\ [t EXCEPT !.len = n].nonce = t.nonce
  <1>1. PICK k, b, v, l, n, f, o : /\ k = t.kind /\ b = t.byte /\ v = t.version /\ l = t.len /\ n = t.nonce
                                   /\ f = t.final /\ o = t.of
    OBVIOUS
  <1>2. t = TokenOf(k, b, v, l, n, f, o) BY <1>1, FieldsOfToken
  <1>3. /\ k \in {"lead", "nonce", "data", "tag"} /\ b \in Int /\ v \in Int /\ l \in Int /\ n \in Int
        /\ f \in BOOLEAN /\ o \in {<<>>} \cup {TagOf(j, i) : i \in Numbers(j)}
    BY <1>1 DEF Toks
  <1>4. [t EXCEPT !.byte = @ + 1] \in Toks(j) /\ [t EXCEPT !.byte = @ + 1].nonce = t.nonce
    <2>1. PICK x \in Int : x = b + 1 BY <1>3
    <2>2. PICK u : u = [t EXCEPT !.byte = x] OBVIOUS
    <2>3. u = TokenOf(k, x, v, l, n, f, o) BY <1>2, <2>2, ByteChanges
    <2>4. u \in Toks(j) BY <1>3, <2>3, TokenFits
    <2>5. u.nonce = n BY <2>3, FieldsOf
    <2>6. QED BY <1>1, <2>1, <2>2, <2>4, <2>5
  <1>5. [t EXCEPT !.final = ~@] \in Toks(j) /\ [t EXCEPT !.final = ~@].nonce = t.nonce
    <2>1. PICK x \in BOOLEAN : x = ~f BY <1>3
    <2>2. PICK u : u = [t EXCEPT !.final = x] OBVIOUS
    <2>3. u = TokenOf(k, b, v, l, n, x, o) BY <1>2, <2>2, FinalChanges
    <2>4. u \in Toks(j) BY <1>3, <2>3, TokenFits
    <2>5. u.nonce = n BY <2>3, FieldsOf
    <2>6. [t EXCEPT !.final = ~@] = u BY <1>1, <2>1, <2>2, Zenon
    <2>7. QED BY <1>1, <2>4, <2>5, <2>6
  <1>6. [t EXCEPT !.version = 30 - @] \in Toks(j) /\ [t EXCEPT !.version = 30 - @].nonce = t.nonce
    <2>1. PICK x \in Int : x = 30 - v BY <1>3
    <2>2. PICK u : u = [t EXCEPT !.version = x] OBVIOUS
    <2>3. u = TokenOf(k, b, x, l, n, f, o) BY <1>2, <2>2, VersionChanges
    <2>4. u \in Toks(j) BY <1>3, <2>3, TokenFits
    <2>5. u.nonce = n BY <2>3, FieldsOf
    <2>6. QED BY <1>1, <2>1, <2>2, <2>4, <2>5
  <1>7. [t EXCEPT !.nonce = 1 - @] \in Toks(j) /\ [t EXCEPT !.nonce = 1 - @].of = t.of
    <2>1. PICK x \in Int : x = 1 - n BY <1>3
    <2>2. PICK u : u = [t EXCEPT !.nonce = x] OBVIOUS
    <2>3. u = TokenOf(k, b, v, l, x, f, o) BY <1>2, <2>2, NonceChanges
    <2>4. u \in Toks(j) BY <1>3, <2>3, TokenFits
    <2>5. u.of = o BY <2>3, FieldsOf
    <2>6. QED BY <1>1, <2>1, <2>2, <2>4, <2>5
  <1>8. ASSUME NEW x \in 1 .. MaxPayloadSize
        PROVE  [t EXCEPT !.len = x] \in Toks(j) /\ [t EXCEPT !.len = x].nonce = t.nonce
    <2>1. x \in Int BY DAREAssumption
    <2>2. PICK u : u = [t EXCEPT !.len = x] OBVIOUS
    <2>3. u = TokenOf(k, b, v, x, n, f, o) BY <1>2, <2>2, LenChanges
    <2>4. u \in Toks(j) BY <1>3, <2>1, <2>3, TokenFits
    <2>5. u.nonce = n BY <2>3, FieldsOf
    <2>6. QED BY <1>1, <2>2, <2>4, <2>5
  <1>9. QED BY <1>4, <1>5, <1>6, <1>7, <1>8

\* A change that leaves the numbers alone.
LEMMA CleanChanged ==
  ASSUME NEW T, NEW w, w \in Seq(T), NEW i \in 1 .. Len(w), NEW t \in T, t.nonce = w[i].nonce,
         NEW c \in BOOLEAN, c => Uncounted(w)
  PROVE  [w EXCEPT ![i] = t] \in Seq(T) /\ (c => Uncounted([w EXCEPT ![i] = t]))
  <1>1. PICK u : u = [w EXCEPT ![i] = t] OBVIOUS
  <1>2. u \in Seq(T) /\ Len(u) = Len(w) /\ \A m \in 1 .. Len(w) : u[m] = IF m = i THEN t ELSE w[m]
    BY <1>1, OneChanged
  <1>3. ASSUME c, NEW m \in 1 .. Len(u) PROVE u[m].nonce = 0
    <2>1. m \in 1 .. Len(w) /\ w[m].nonce = 0 /\ w[i].nonce = 0 BY <1>2, <1>3 DEF Uncounted
    <2>2. QED BY <1>2, <2>1
  <1>4. QED BY <1>1, <1>2, <1>3 DEF Uncounted

\* And one that leaves the tags alone.
LEMMA PlacedChanged ==
  ASSUME NEW j, NEW T, NEW w, w \in Seq(T), NEW i \in 1 .. Len(w), NEW t \in T, t.of = w[i].of,
         NEW c \in BOOLEAN, c => Placed(j, w)
  PROVE  [w EXCEPT ![i] = t] \in Seq(T) /\ (c => Placed(j, [w EXCEPT ![i] = t]))
  <1>1. PICK u : u = [w EXCEPT ![i] = t] OBVIOUS
  <1>2. u \in Seq(T) /\ Len(u) = Len(w) /\ \A m \in 1 .. Len(w) : u[m] = IF m = i THEN t ELSE w[m]
    BY <1>1, OneChanged
  <1>3. ASSUME c, NEW m \in 1 .. Len(u)
        PROVE  u[m].of = <<>> \/ \E n \in Numbers(j) : u[m].of = TagOf(j, n) /\ m = Start(j, n + 1)
    <2>1. m \in 1 .. Len(w) BY <1>2
    <2>2. w[m].of = <<>> \/ \E n \in Numbers(j) : w[m].of = TagOf(j, n) /\ m = Start(j, n + 1)
      BY <1>3, <2>1 DEF Placed
    <2>3. u[m].of = w[m].of BY <1>2, <2>1
    <2>4. QED BY <2>2, <2>3
  <1>4. QED BY <1>1, <1>2, <1>3 DEF Placed

\* What may happen to a stream on its way.
LEMMA AlteredSound ==
  ASSUME NEW j, Job(j), NEW k, NEW w, Made(j, w, k), NEW v \in Altered(w)
  PROVE  Sound(j, v)
  <1> DEFINE A1 == {Spliced(w, a, b) : a \in 0..Len(w), b \in 0..Len(w)}
             A2 == {Spliced(w, b, a) : a \in Cuts(w), b \in Cuts(w)}
             A3 == {Exchanged(w, a, b, k1) : a \in Cuts(w), b \in Cuts(w), k1 \in Cuts(w)}
             A4 == {[w EXCEPT ![i].byte = @ + 1] : i \in {k1 \in 1..Len(w) : w[k1].kind = "data"}}
             A5 == {[w EXCEPT ![i].final = ~@] : i \in {k1 \in 1..Len(w) : w[k1].kind = "nonce"}}
             A6 == {[w EXCEPT ![i].nonce = 1 - @] : i \in {k1 \in 1..Len(w) : w[k1].kind = "nonce" /\ w[k1].nonce < 2}}
             A7 == {[w EXCEPT ![i].len = n] : i \in {k1 \in 1..Len(w) : w[k1].kind = "lead"}, n \in 1..MaxPayloadSize}
             A8 == {[w EXCEPT ![i].version = 30 - @] : i \in {k1 \in 1..Len(w) : w[k1].kind = "lead"}}
  <1> HIDE DEF A1, A2, A3, A4, A5, A6, A7, A8
  <1>1. PICK T : T = Toks(j) OBVIOUS
  <1>2. PICK c \in BOOLEAN : c <=> j.version = 20 BY Zenon
  <1>3. T = Toks(j) /\ (c <=> j.version = 20) BY <1>1, <1>2
  <1>4. w \in Seq(T) /\ Len(w) \in Nat /\ c \in BOOLEAN /\ (c => Uncounted(w)) /\ (c => Placed(j, w))
    BY <1>3 DEF Made
  <1>5. Clean(c, T, w) BY <1>4 DEF Clean
  <1>6. \A x \in Cuts(w) : x \in Nat /\ x <= Len(w) BY <1>4 DEF Cuts
  <1>7. \A x \in 0 .. Len(w) : x \in Nat /\ x <= Len(w) BY <1>4
  <1>8. ASSUME NEW x \in Nat, x <= Len(w), NEW y \in Nat, y <= Len(w) PROVE Clean(c, T, Spliced(w, x, y))
    <2>1. Clean(c, T, Upto(w, x)) /\ Clean(c, T, After(w, y)) BY <1>5, <1>8, CleanSplit
    <2>2. QED BY <2>1, CleanJoin DEF Spliced
  <1>9. CASE v \in A1
    <2>1. PICK x \in 0 .. Len(w), y \in 0 .. Len(w) : v = Spliced(w, x, y) BY <1>9 DEF A1
    <2>2. Clean(c, T, v) BY <1>7, <1>8, <2>1
    <2>3. QED BY <1>3, <2>2 DEF Clean, Sound
  <1>10. CASE v \in A2
    <2>1. PICK x \in Cuts(w), y \in Cuts(w) : v = Spliced(w, y, x) BY <1>10 DEF A2
    <2>2. Clean(c, T, v) BY <1>6, <1>8, <2>1
    <2>3. QED BY <1>3, <2>2 DEF Clean, Sound
  <1>11. CASE v \in A3
    <2>1. PICK x \in Cuts(w), y \in Cuts(w), z \in Cuts(w) : v = Exchanged(w, x, y, z)
      BY <1>11 DEF A3
    <2>2. x \in Nat /\ y \in Nat /\ z \in Nat /\ x <= Len(w) /\ y <= Len(w) /\ z <= Len(w) BY <1>6
    <2>3. PICK p, q, r, s : p = Upto(w, x) /\ q = SubSeq(w, y + 1, z) /\ r = SubSeq(w, x + 1, y) /\ s = After(w, z)
      OBVIOUS
    <2>4. Clean(c, T, p) /\ Clean(c, T, s) BY <1>5, <2>2, <2>3, CleanSplit
    <2>5. Clean(c, T, q) /\ Clean(c, T, r) BY <1>5, <2>2, <2>3, CleanPart
    <2>6. Clean(c, T, p \o q) BY <2>4, <2>5, CleanJoin
    <2>7. Clean(c, T, (p \o q) \o r) BY <2>5, <2>6, CleanJoin
    <2>8. Clean(c, T, ((p \o q) \o r) \o s) BY <2>4, <2>7, CleanJoin
    <2>9. Clean(c, T, v) BY <2>1, <2>3, <2>8 DEF Exchanged
    <2>10. QED BY <1>3, <2>9 DEF Clean, Sound
  <1>12. \A i \in 1 .. Len(w) : w[i] \in T BY <1>4, ElementOfSeq
  <1>13. ASSUME NEW i \in 1 .. Len(w), NEW t \in T, t.nonce = w[i].nonce, v = [w EXCEPT ![i] = t]
         PROVE  Sound(j, v)
    <2>1. v \in Seq(T) /\ (c => Uncounted(v)) BY <1>4, <1>13, CleanChanged
    <2>2. QED BY <1>3, <2>1 DEF Sound
  <1>14. CASE v \in A4
    <2>1. PICK i \in 1 .. Len(w) : v = [w EXCEPT ![i].byte = @ + 1] BY <1>14 DEF A4
    <2>2. PICK t : t = [w[i] EXCEPT !.byte = @ + 1] OBVIOUS
    <2>3. v = [w EXCEPT ![i] = t] BY <2>1, <2>2
    <2>4. t \in T /\ t.nonce = w[i].nonce BY <1>3, <1>12, <2>2, TokenChanged
    <2>5. QED BY <1>13, <2>3, <2>4
  <1>15. CASE v \in A5
    <2>1. PICK i \in 1 .. Len(w) : v = [w EXCEPT ![i].final = ~@] BY <1>15 DEF A5
    <2>2. PICK t : t = [w[i] EXCEPT !.final = ~@] OBVIOUS
    <2>3. v = [w EXCEPT ![i] = t] BY <2>1, <2>2
    <2>4. t \in T /\ t.nonce = w[i].nonce BY <1>3, <1>12, <2>2, TokenChanged
    <2>5. QED BY <1>13, <2>3, <2>4
  <1>16. CASE v \in A6
    <2>1. PICK i \in 1 .. Len(w) : v = [w EXCEPT ![i].nonce = 1 - @] BY <1>16 DEF A6
    <2>2. PICK t : t = [w[i] EXCEPT !.nonce = 1 - @] OBVIOUS
    <2>3. v = [w EXCEPT ![i] = t] BY <2>1, <2>2
    <2>4. t \in T /\ t.of = w[i].of BY <1>3, <1>12, <2>2, TokenChanged
    <2>5. v \in Seq(T) /\ (c => Placed(j, v)) BY <1>4, <2>3, <2>4, PlacedChanged
    <2>6. QED BY <1>3, <2>5 DEF Sound
  <1>17. CASE v \in A7
    <2>1. PICK i \in 1 .. Len(w), n \in 1 .. MaxPayloadSize : v = [w EXCEPT ![i].len = n]
      BY <1>17 DEF A7
    <2>2. PICK t : t = [w[i] EXCEPT !.len = n] OBVIOUS
    <2>3. v = [w EXCEPT ![i] = t] BY <2>1, <2>2
    <2>4. t \in T /\ t.nonce = w[i].nonce
      <3>1. PICK u \in Toks(j) : u = w[i] BY <1>3, <1>12
      <3>2. [u EXCEPT !.len = n] \in Toks(j) /\ [u EXCEPT !.len = n].nonce = u.nonce BY TokenChanged
      <3>3. QED BY <1>3, <2>2, <3>1, <3>2
    <2>5. QED BY <1>13, <2>3, <2>4
  <1>18. CASE v \in A8
    <2>1. PICK i \in 1 .. Len(w) : v = [w EXCEPT ![i].version = 30 - @] BY <1>18 DEF A8
    <2>2. PICK t : t = [w[i] EXCEPT !.version = 30 - @] OBVIOUS
    <2>3. v = [w EXCEPT ![i] = t] BY <2>1, <2>2, Zenon
    <2>4. t \in T /\ t.nonce = w[i].nonce BY <1>3, <1>12, <2>2, TokenChanged
    <2>5. QED BY <1>13, <2>3, <2>4
  <1>19. v \in A1 \cup A2 \cup A3 \cup A4 \cup A5 \cup A6 \cup A7 \cup A8
    <2>1. Altered(w) = A1 \cup A2 \cup A3 \cup A4 \cup A5 \cup A6 \cup A7 \cup A8
      BY DEF Altered, A1, A2, A3, A4, A5, A6, A7, A8
    <2>2. QED BY <2>1, Zenon
  <1>20. QED BY <1>9, <1>10, <1>11, <1>14, <1>15, <1>16, <1>17, <1>18, <1>19

\* The stream is sent.
LEMMA SendEncInv ==
  ASSUME EncInv, Send
  PROVE  EncInv' /\ dec'.status = "open"
  <1>1. enc.status = "eof" /\ dec.status = "none" /\ job' = job /\ enc' = enc BY DEF Send
  <1>2. Job(job) /\ EncOk(job, enc) /\ Whole(job, wire) /\ same = TRUE
    BY <1>1 DEF EncInv, EncMade, MadeSoFar
  <1>3. PICK k \in Nat : Made(job, wire, k) BY <1>2 DEF Whole
  <1>4. Sound(job, wire) BY <1>3 DEF Made, Sound
  <1>5. dec'.status = "open" /\ Sound(job, wire') /\ (same' => wire' = wire)
    <2>1. CASE \E w \in {wire} \cup Altered(wire) :
                 wire' = w /\ same' = (w = wire) /\ dec' = NewDec(w, 0, 0, NoLimit(w))
      <3>1. PICK w \in {wire} \cup Altered(wire) :
                 wire' = w /\ same' = (w = wire) /\ dec' = NewDec(w, 0, 0, NoLimit(w))
        BY <2>1
      <3>2. dec'.status = "open" BY <3>1 DEF NewDec
      <3>3. Sound(job, w) BY <1>2, <1>3, <1>4, AlteredSound
      <3>4. QED BY <3>1, <3>2, <3>3
    <2>2. CASE dec' = ReadAt(wire) /\ UNCHANGED <<wire, same>>
      <3>1. dec'.status = "open" BY <2>2 DEF ReadAt, NewDec
      <3>2. QED BY <1>4, <2>2, <3>1
    <2>3. CASE dec' = ReadRange(wire) /\ UNCHANGED <<wire, same>>
      <3>1. dec'.status = "open" BY <2>3 DEF ReadRange, NewDec
      <3>2. QED BY <1>4, <2>3, <3>1
    <2>4. QED BY <2>1, <2>2, <2>3 DEF Send
  <1>6. Job(job)' /\ EncOk(job, enc)' BY <1>1, <1>2 DEF Job
  <1>7. enc'.status = "eof" /\ Sound(job, wire)' /\ (same' => Whole(job, wire)') BY <1>1, <1>2, <1>5
  <1>8. QED BY <1>5, <1>6, <1>7 DEF EncInv

\* While the stream is read.
LEMMA DecStep ==
  ASSUME EncInv, dec.status # "none", dec'.status # "none", UNCHANGED <<job, enc, wire, same>>
  PROVE  EncInv'
  BY DEF EncInv, Job, EncMade

(***************************************************************************)
(* What opens is the next package.                                         *)
(***************************************************************************)
\* A tag says which package it is of.
LEMMA TagsDiffer ==
  ASSUME NEW j, NEW v, NEW l, NEW n, NEW f, NEW p, NEW k, <<v, l, n, f, p>> = TagOf(j, k)
  PROVE  v = j.version /\ l = Len(Piece(j, k)) /\ n = k /\ f = Ends(j, k) /\ p = Piece(j, k)
  BY DEF TagOf

\* What opens is the package of its number.
LEMMA OpensIs ==
  ASSUME NEW j, Job(j), NEW d, NEW p \in Seq(Toks(j)), Opens(d, p), d.seq \in Nat,
         d.version = 20 /\ j.version = 20 => p[2].nonce = 0 \/ Last(p).of = <<>> \/ Last(p).of = TagOf(j, d.seq)
  PROVE  /\ d.version = j.version /\ d.seq \in Numbers(j) /\ Payload(p) = Piece(j, d.seq)
         /\ p[2].final = Ends(j, d.seq) /\ Len(p) = Len(Piece(j, d.seq)) + 3
         /\ p[2] \in Toks(j)
  <1>1. /\ Len(p) > HeaderSize + TagSize /\ Len(p) = HeaderSize + p[1].len + TagSize
        /\ d.version = 10 => p[2].nonce = d.seq
        /\ Last(p).of = <<d.version, p[1].len, Nonce(d.version, p[2].nonce, d.seq), p[2].final, Payload(p)>>
    BY DEF Opens
  <1>2. PICK x, v, l, n, f, q, s : /\ x = Last(p) /\ v = d.version /\ l = p[1].len /\ f = p[2].final
                                   /\ n = Nonce(d.version, p[2].nonce, d.seq) /\ q = Payload(p) /\ s = d.seq
    OBVIOUS
  <1>3. Len(p) \in Nat /\ Len(p) > 3 BY <1>1 DEF HeaderSize, TagSize
  <1>4. x \in Toks(j) /\ p[1] \in Toks(j) /\ p[2] \in Toks(j)
    <2>1. Len(p) \in 1 .. Len(p) /\ 1 \in 1 .. Len(p) /\ 2 \in 1 .. Len(p) BY <1>3
    <2>2. x = p[Len(p)] BY <1>2 DEF Last
    <2>3. QED BY <2>1, <2>2, ElementOfSeq
  <1>5. x.of = <<v, l, n, f, q>> BY <1>1, <1>2
  <1>6. x.of \in {<<>>} \cup {TagOf(j, k) : k \in Numbers(j)} BY <1>4 DEF Toks
  <1>7. PICK k \in Numbers(j) : x.of = TagOf(j, k)
    <2>1. <<v, l, n, f, q>> # <<>> OBVIOUS
    <2>2. QED BY <1>5, <1>6, <2>1
  <1>8. v = j.version /\ l = Len(Piece(j, k)) /\ n = k /\ f = Ends(j, k) /\ q = Piece(j, k)
    <2>1. <<v, l, n, f, q>> = TagOf(j, k) BY <1>5, <1>7
    <2>2. QED BY <2>1, TagsDiffer
  <1>9. k \in Nat BY DEF Numbers
  <1>10. k = s
    <2>1. CASE j.version = 10
      <3>1. n = p[2].nonce BY <1>2, <1>8, <2>1 DEF Nonce
      <3>2. p[2].nonce = s BY <1>1, <1>2, <1>8, <2>1
      <3>3. QED BY <1>8, <3>1, <3>2
    <2>2. CASE j.version = 20
      <3>1. n = p[2].nonce + s BY <1>2, <1>8, <2>2 DEF Nonce
      <3>2. CASE p[2].nonce = 0
        <4>1. s \in Nat /\ 0 + s = s BY <1>2
        <4>2. n = 0 + s BY <3>1, <3>2
        <4>3. QED BY <1>8, <4>1, <4>2
      <3>3. CASE x.of = <<>>
        <4>1. <<v, l, n, f, q>> # <<>> OBVIOUS
        <4>2. QED BY <1>5, <3>3, <4>1
      <3>4. CASE x.of = TagOf(j, s)
        <4>1. <<v, l, n, f, q>> = TagOf(j, s) BY <1>5, <3>4
        <4>2. n = s BY <4>1, TagsDiffer
        <4>3. QED BY <1>8, <4>2
      <3>5. d.version = 20 BY <1>2, <1>8, <2>2
      <3>6. QED BY <1>2, <2>2, <3>2, <3>3, <3>4, <3>5
    <2>3. QED BY <2>1, <2>2, JobIs
  <1>11. Len(p) = l + 3
    <2>1. Len(p) = HeaderSize + l + TagSize BY <1>1, <1>2
    <2>2. l \in Nat BY <1>8, <1>9, PieceIs
    <2>3. QED BY <2>1, <2>2 DEF HeaderSize, TagSize
  <1>12. QED BY <1>2, <1>4, <1>7, <1>8, <1>10, <1>11

\* In a stream of version 2.0 whose tags are where they were made, the one at
\* the end of what is taken for a package is of the package of that number.
LEMMA PlacedTag ==
  ASSUME NEW j, Job(j), j.version = 20, NEW w \in Seq(Toks(j)), Placed(j, w), NEW k \in Nat,
         NEW n \in Nat, n > 0, n <= MaxPackageSize,
         NEW a \in Nat, a = k * MaxPackageSize, a + n <= Len(w)
  PROVE  w[a + n].of = <<>> \/ w[a + n].of = TagOf(j, k)
  <1>1. PICK c \in Nat \ {0}, x \in Nat : c = MaxPayloadSize /\ x = c + 3 /\ x = MaxPackageSize /\ c = j.size
    <2>1. MaxPayloadSize \in Nat \ {0} /\ j.size = MaxPayloadSize BY JobIs
    <2>2. QED BY <2>1 DEF MaxPackageSize, HeaderSize, TagSize
  <1>2. PICK m \in Nat : m = a + n OBVIOUS
  <1>3. m \in 1 .. Len(w) BY <1>2
  <1>4. w[m].of = <<>> \/ \E i \in Numbers(j) : w[m].of = TagOf(j, i) /\ m = Start(j, i + 1)
    BY <1>3 DEF Placed
  <1>5. ASSUME NEW i \in Numbers(j), m = Start(j, i + 1) PROVE i = k
    <2>1. i \in Nat /\ Edge(j, i) < Len(j.plain) BY DEF Numbers
    <2>2. PICK e \in Nat, f \in Nat : e = Edge(j, i) /\ f = Edge(j, i + 1) BY <2>1, EdgeIs
    <2>3. e < f /\ f <= e + c /\ e = i * c BY <1>1, <2>1, <2>2, EdgeIs
    <2>4. m = f + 3 * (i + 1) BY <1>5, <2>2 DEF Start
    <2>5. PICK y \in Nat : y = i * x /\ y = e + 3 * i
      <3>1. i * x = i * c + 3 * i /\ i * x \in Nat
        <4>1. i \in Nat /\ c \in Nat BY <2>1
        <4>2. i * (c + 3) = i * c + 3 * i /\ i * (c + 3) \in Nat BY <4>1
        <4>3. QED BY <1>1, <4>2
      <3>2. QED BY <2>3, <3>1
    <2>6. y < m /\ m <= y + x
      <3>1. y = e + 3 * i /\ x = c + 3 /\ e < f /\ f <= e + c BY <1>1, <2>3, <2>5
      <3>2. QED BY <2>1, <2>4, <3>1
    <2>7. a = k * x /\ a < m /\ m <= a + x BY <1>1, <1>2
    <2>8. ASSUME i < k PROVE FALSE
      <3>1. (i + 1) * x <= k * x BY <1>1, <2>1, <2>8
      <3>2. (i + 1) * x = y + x BY <2>1, <2>5
      <3>3. QED BY <2>6, <2>7, <3>1, <3>2
    <2>9. ASSUME i > k PROVE FALSE
      <3>1. (k + 1) * x <= i * x BY <1>1, <2>1, <2>9
      <3>2. (k + 1) * x = a + x BY <2>7
      <3>3. QED BY <2>5, <2>6, <2>7, <3>1, <3>2
    <2>10. QED BY <2>1, <2>8, <2>9
  <1>6. QED BY <1>2, <1>4, <1>5

(***************************************************************************)
(* Decrypting.                                                             *)
(***************************************************************************)
\* The states of who decrypts.
DecTypes(T) ==
  [src : Seq(T), version : Int, pending : Seq(T), seq : Nat, finalized : BOOLEAN, refNonce : Int,
   room : Nat, buffer : Seq(T), offset : Nat, skip : Nat, left : Nat, out : Seq(T),
   status : {"open", "eof", "unsupported version", "unexpected EOF", "tampered", "unexpected data"}]

\* What the stream still has.
Ahead(d) == d.pending \o d.src

\* How much of the data is asked for.
WantedLen(j) == IF j.to \in {"reader", "writer"} THEN Len(j.plain) ELSE j.length

\* The data has come out up to what is left of the package that was opened last.
Aligned(j, d, r) ==
  /\ d \in DecTypes(Toks(j)) /\ r \in Seq(Toks(j))
  /\ Len(r) <= Edge(j, d.seq) /\ r = Part(j.plain, Edge(j, d.seq) - Len(r), Edge(j, d.seq))
  /\ j.off + Len(d.out) = Edge(j, d.seq) - Len(r) + d.skip
  /\ j.off + Len(d.out) <= Len(j.plain)
  /\ d.out = Part(j.plain, j.off, j.off + Len(d.out))

\* No more than the caller asked for.
Limited(j, d, r) ==
  /\ d.skip < MaxPayloadSize /\ (d.skip > 0 => d.out = <<>>)
  /\ d.room <= IF d.skip > 0 THEN d.skip ELSE d.left
  /\ IF j.to \in {"reader", "writer"}
     THEN d.skip = 0 /\ (d.status = "open" => d.left > Len(r) + Len(Ahead(d)))
     ELSE d.left + Len(d.out) = j.length
  /\ j.to # "writer" => d.pending = <<>>

\* The stream that is ahead was made for these numbers.
Numbered(j, w, d) ==
  (d.status = "open" /\ j.version = 20) =>
    \/ Uncounted(Ahead(d))
    \/ /\ w \in Seq(Toks(j)) /\ Placed(j, w)
       /\ d.version \in {0, 20} => Ahead(d) = After(w, Least(d.seq * MaxPackageSize, Len(w)))

\* The last package is at the end of the data.
Ended(j, d) ==
  /\ d.finalized => Edge(j, d.seq) = Len(j.plain)
  /\ (d.status = "eof" /\ d.version = 20 /\ j.to # "writer") => Len(d.out) = WantedLen(j)

\* Decrypting, up to r of the data.
DecAt(j, w, d, r) == Aligned(j, d, r) /\ Limited(j, d, r) /\ Numbered(j, w, d) /\ Ended(j, d)

\* The fields of who decrypts.
LEMMA DecFields ==
  ASSUME NEW T, NEW d \in DecTypes(T)
  PROVE  /\ d.src \in Seq(T) /\ d.pending \in Seq(T) /\ d.buffer \in Seq(T) /\ d.out \in Seq(T)
         /\ d.seq \in Nat /\ d.room \in Nat /\ d.offset \in Nat /\ d.skip \in Nat /\ d.left \in Nat
         /\ d.version \in Int /\ d.refNonce \in Int /\ d.finalized \in BOOLEAN
         /\ Ahead(d) \in Seq(T) /\ Len(Ahead(d)) \in Nat
         /\ Len(d.out) \in Nat
  <1>1. /\ d.src \in Seq(T) /\ d.pending \in Seq(T) /\ d.buffer \in Seq(T) /\ d.out \in Seq(T)
        /\ d.seq \in Nat /\ d.room \in Nat /\ d.offset \in Nat /\ d.skip \in Nat /\ d.left \in Nat
        /\ d.version \in Int /\ d.refNonce \in Int /\ d.finalized \in BOOLEAN
    BY DEF DecTypes
  <1>2. d.pending \o d.src \in Seq(T) BY <1>1, ConcatProperties
  <1>3. Len(d.pending \o d.src) \in Nat /\ Len(d.out) \in Nat
    <2>1. PICK u, o : u = d.pending \o d.src /\ o = d.out OBVIOUS
    <2>2. u \in Seq(T) /\ o \in Seq(T) BY <1>1, <1>2, <2>1
    <2>3. Len(u) \in Nat /\ Len(o) \in Nat BY <2>2
    <2>4. QED BY <2>1, <2>3
  <1>4. QED BY <1>1, <1>2, <1>3 DEF Ahead

\* What is taken for a package opens: it is the next one.
LEMMA TakenIs ==
  ASSUME NEW j, Job(j), NEW w, NEW d \in DecTypes(Toks(j)), Numbered(j, w, d), d.status = "open",
         NEW n \in Nat, n <= Len(Ahead(d)), NEW p, p = Upto(Ahead(d), n), Opens(d, p),
         d.version = 20 => n = Least(Len(Ahead(d)), MaxPackageSize)
  PROVE  /\ d.version = j.version /\ d.seq \in Numbers(j) /\ Payload(p) = Piece(j, d.seq)
         /\ p[2].final = Ends(j, d.seq) /\ n = Len(Piece(j, d.seq)) + 3
         /\ p[2] \in Toks(j)
  <1>1. PICK T, a : T = Toks(j) /\ a = Ahead(d) OBVIOUS
  <1>2. a \in Seq(T) /\ Len(a) \in Nat /\ d.seq \in Nat BY <1>1, DecFields
  <1>3. p \in Seq(T) /\ Len(p) = n /\ \A m \in 1 .. n : p[m] = a[m] BY <1>1, <1>2, SplitIs
  <1>4. n > 3
    <2>1. Len(p) > HeaderSize + TagSize BY DEF Opens
    <2>2. QED BY <1>3, <2>1 DEF HeaderSize, TagSize
  <1>5. ASSUME d.version = 20, j.version = 20
        PROVE  p[2].nonce = 0 \/ Last(p).of = <<>> \/ Last(p).of = TagOf(j, d.seq)
    <2>1. CASE Uncounted(a)
      <3>1. 2 \in 1 .. n /\ 2 \in 1 .. Len(a) BY <1>1, <1>2, <1>4
      <3>2. p[2] = a[2] /\ a[2].nonce = 0 BY <1>3, <2>1, <3>1 DEF Uncounted
      <3>3. QED BY <3>2
    <2>2. CASE w \in Seq(T) /\ Placed(j, w) /\ a = After(w, Least(d.seq * MaxPackageSize, Len(w)))
      <3>1. PICK c \in Nat \ {0} : c = MaxPackageSize
        BY DAREAssumption DEF MaxPackageSize, HeaderSize, TagSize
      <3>2. PICK x \in Nat, z \in Nat : x = d.seq * c /\ z = Len(w) BY <1>2, <2>2, <3>1
      <3>3. PICK y \in Nat : y = Least(x, z) /\ y <= z /\ (y = x \/ y = z) BY <3>2 DEF Least
      <3>4. a = After(w, y) /\ y <= Len(w) BY <2>2, <3>1, <3>2, <3>3
      <3>5. Len(a) = Len(w) - y /\ \A m \in 1 .. Len(w) - y : a[m] = w[y + m]
        <4>1. w \in Seq(T) /\ y <= Len(w) BY <2>2, <3>4
        <4>2. /\ Len(After(w, y)) = Len(w) - y
              /\ \A m \in 1 .. Len(w) - y : After(w, y)[m] = w[y + m]
          BY <4>1, SplitIs
        <4>3. QED BY <3>4, <4>2
      <3>6. n <= Len(a) /\ n <= c
        <4>1. n = Least(Len(a), c) BY <1>1, <1>5, <3>1
        <4>2. QED BY <1>2, <4>1 DEF Least
      <3>7. y = x /\ y + n <= Len(w) BY <1>4, <3>2, <3>3, <3>5, <3>6
      <3>8. Last(p) = w[y + n]
        <4>1. n \in 1 .. n /\ n \in 1 .. Len(w) - y BY <1>4, <3>2, <3>5, <3>6
        <4>2. Last(p) = p[n] BY <1>3 DEF Last
        <4>3. QED BY <1>3, <3>5, <4>1, <4>2
      <3>9. w[y + n].of = <<>> \/ w[y + n].of = TagOf(j, d.seq)
        <4>1. n > 0 /\ n <= MaxPackageSize /\ y = d.seq * MaxPackageSize /\ w \in Seq(Toks(j))
          BY <1>1, <1>4, <2>2, <3>1, <3>2, <3>6, <3>7
        <4>2. QED BY <1>2, <1>5, <2>2, <3>7, <4>1, PlacedTag
      <3>10. QED BY <3>8, <3>9
    <2>3. QED
      <3>1. \/ Uncounted(a)
            \/ w \in Seq(T) /\ Placed(j, w) /\ a = After(w, Least(d.seq * MaxPackageSize, Len(w)))
        BY <1>1, <1>5 DEF Numbered
      <3>2. QED BY <2>1, <2>2, <3>1
  <1>6. /\ d.version = j.version /\ d.seq \in Numbers(j) /\ Payload(p) = Piece(j, d.seq)
        /\ p[2].final = Ends(j, d.seq) /\ Len(p) = Len(Piece(j, d.seq)) + 3 /\ p[2] \in Toks(j)
    BY <1>1, <1>2, <1>3, <1>5, OpensIs
  <1>7. QED BY <1>3, <1>6

\* A package is opened.
LEMMA OpenedAt ==
  ASSUME NEW j, Job(j), NEW w, NEW d, DecAt(j, w, d, <<>>), d.status = "open",
         NEW n \in Nat, n <= Len(Ahead(d)), NEW p, p = Upto(Ahead(d), n), Opens(d, p),
         d.version = 20 => n = Least(Len(Ahead(d)), MaxPackageSize),
         NEW e \in DecTypes(Toks(j)), Ahead(e) = After(Ahead(d), n), j.to # "writer" => e.pending = <<>>,
         e.seq = d.seq + 1, e.finalized <=> (d.version = 20 /\ p[2].final),
         e.version = d.version, e.room = d.room, e.skip = d.skip, e.left = d.left, e.out = d.out,
         e.status = d.status
  PROVE  DecAt(j, w, e, Piece(j, d.seq)) /\ Payload(p) = Piece(j, d.seq)
  <1>1. PICK T, a, b, k, r : T = Toks(j) /\ a = Ahead(d) /\ b = Ahead(e) /\ k = d.seq /\ r = Piece(j, d.seq)
    OBVIOUS
  <1>2. /\ d \in DecTypes(T) /\ Aligned(j, d, <<>>) /\ Limited(j, d, <<>>) /\ Numbered(j, w, d)
    BY <1>1 DEF DecAt, Aligned
  <1>3. a \in Seq(T) /\ Len(a) \in Nat /\ k \in Nat /\ e \in DecTypes(T) /\ Len(d.out) \in Nat
        /\ d.skip \in Nat /\ d.left \in Nat /\ d.room \in Nat
    BY <1>1, <1>2, DecFields
  <1>4. /\ d.version = j.version /\ k \in Numbers(j) /\ Payload(p) = r
        /\ p[2].final = Ends(j, k) /\ n = Len(r) + 3
    BY <1>1, <1>2, TakenIs
  <1>5. b = After(a, n) /\ n <= Len(a) BY <1>1
  <1>6. b \in Seq(T) /\ Len(b) = Len(a) - n /\ Len(b) \in Nat
    <2>1. a \in Seq(T) /\ n <= Len(a) BY <1>3, <1>5
    <2>2. After(a, n) \in Seq(T) /\ Len(After(a, n)) = Len(a) - n BY <2>1, SplitIs
    <2>3. b \in Seq(T) /\ Len(b) = Len(a) - n BY <1>5, <2>2
    <2>4. QED BY <2>3
  <1>7. PICK x \in Nat, y \in Nat, z \in Nat : x = Edge(j, k) /\ y = Edge(j, k + 1) /\ z = Len(j.plain)
    BY <1>3, EdgeIs
  <1>8. x <= y /\ y <= z BY <1>3, <1>7, EdgeIs
  <1>9. r \in Seq(T) /\ Len(r) = y - x /\ Len(r) \in Nat /\ r = Part(j.plain, x, y)
    <2>1. r \in Seq(T) /\ Len(r) = Edge(j, k + 1) - Edge(j, k) /\ Len(r) \in Nat
      BY <1>1, <1>3, PieceIs
    <2>2. r = Part(j.plain, x, y) BY <1>1, <1>7 DEF Piece, Part
    <2>3. QED BY <1>7, <2>1, <2>2
  <1>10. e.seq = k + 1 BY <1>1
  <1>11. Aligned(j, e, r)
    <2>1. j.off + Len(d.out) = x - 0 + d.skip /\ j.off + Len(d.out) <= Len(j.plain)
          /\ d.out = Part(j.plain, j.off, j.off + Len(d.out))
      <3>1. Len(<<>>) = 0 OBVIOUS
      <3>2. QED BY <1>1, <1>2, <1>7, <3>1 DEF Aligned
    <2>2. y - Len(r) = x /\ Len(r) <= y BY <1>8, <1>9
    <2>3. j.off + Len(e.out) = y - Len(r) + e.skip BY <2>1, <2>2
    <2>4. r = Part(j.plain, y - Len(r), y) BY <1>9, <2>2
    <2>5. Edge(j, e.seq) = y BY <1>7, <1>10
    <2>6. QED BY <1>1, <1>3, <1>9, <2>1, <2>2, <2>3, <2>4, <2>5 DEF Aligned
  <1>12. Limited(j, e, r)
    <2>1. /\ d.skip < MaxPayloadSize /\ (d.skip > 0 => d.out = <<>>)
          /\ d.room <= IF d.skip > 0 THEN d.skip ELSE d.left
      BY <1>2 DEF Limited
    <2>2. CASE j.to \in {"reader", "writer"}
      <3>1. d.skip = 0 /\ d.left > Len(<<>>) + Len(a) BY <1>1, <1>2, <2>2 DEF Limited
      <3>2. Len(<<>>) = 0 OBVIOUS
      <3>3. d.left > Len(a) /\ Len(r) + Len(b) < Len(a)
        <4>1. PICK la \in Nat, lb \in Nat : la = Len(a) /\ lb = Len(b) BY <1>3, <1>6
        <4>2. PICK lr \in Nat, lf \in Nat : lr = Len(r) /\ lf = d.left BY <1>3, <1>9
        <4>3. lf > la BY <3>1, <3>2, <4>1, <4>2
        <4>4. n = lr + 3 BY <1>4, <4>2
        <4>5. lb = la - n BY <1>6, <4>1
        <4>6. lr + lb < la BY <4>4, <4>5
        <4>7. QED BY <4>1, <4>2, <4>3, <4>6
      <3>4. e.left > Len(r) + Len(b) BY <1>3, <1>6, <1>9, <3>3
      <3>5. QED BY <1>1, <2>1, <2>2, <3>1, <3>4 DEF Limited
    <2>3. CASE j.to \notin {"reader", "writer"}
      <3>1. d.left + Len(d.out) = j.length BY <1>2, <2>3 DEF Limited
      <3>2. QED BY <2>1, <2>3, <3>1 DEF Limited
    <2>4. QED BY <2>2, <2>3
  <1>13. Numbered(j, w, e)
    <2>1. ASSUME j.version = 20
          PROVE  \/ Uncounted(b)
                 \/ /\ w \in Seq(T) /\ Placed(j, w)
                    /\ e.version \in {0, 20} => b = After(w, Least(e.seq * MaxPackageSize, Len(w)))
      <3>1. \/ Uncounted(a)
            \/ /\ w \in Seq(T) /\ Placed(j, w)
               /\ d.version \in {0, 20} => a = After(w, Least(d.seq * MaxPackageSize, Len(w)))
        BY <1>1, <1>2, <2>1 DEF Numbered
      <3>2. CASE Uncounted(a)
        <4>1. Clean(TRUE, T, a) BY <1>3, <3>2 DEF Clean
        <4>2. Clean(TRUE, T, b) BY <1>5, <4>1, CleanSplit
        <4>3. QED BY <4>2 DEF Clean
      <3>3. CASE /\ w \in Seq(T) /\ Placed(j, w)
                 /\ d.version \in {0, 20} => a = After(w, Least(d.seq * MaxPackageSize, Len(w)))
        <4>1. PICK c \in Nat \ {0} : c = MaxPackageSize
          BY DAREAssumption DEF MaxPackageSize, HeaderSize, TagSize
        <4>2. PICK u \in Nat, v \in Nat, m \in Nat : u = k * c /\ v = (k + 1) * c /\ m = Len(w) /\ v = u + c
          <5>1. k * c \in Nat /\ (k + 1) * c = k * c + c /\ Len(w) \in Nat BY <1>3, <3>3
          <5>2. QED BY <5>1
        <4>3. PICK f \in Nat : f = Least(u, m) /\ f <= m BY <4>2 DEF Least
        <4>4. a = After(w, f) /\ n = Least(Len(a), c) BY <1>1, <1>4, <2>1, <3>3, <4>1, <4>2, <4>3
        <4>5. Len(a) = m - f
          <5>1. w \in Seq(T) /\ f <= Len(w) BY <3>3, <4>2, <4>3
          <5>2. Len(After(w, f)) = Len(w) - f BY <5>1, SplitIs
          <5>3. QED BY <4>2, <4>4, <5>2
        <4>6. f + n = Least(v, m) /\ f + n <= m /\ f + n \in Nat
          <5>1. n = Least(m - f, c) BY <4>4, <4>5
          <5>2. QED BY <4>2, <4>3, <5>1 DEF Least
        <4>7. b = After(w, f + n)
          <5>1. a = Part(w, f, m) /\ b = Part(a, n, m - f)
            <6>1. After(w, f) = Part(w, f, m)
              <7>1. After(w, f) = Part(w, f, Len(w)) BY UptoIs
              <7>2. QED BY <4>2, <7>1
            <6>2. After(a, n) = Part(a, n, m - f)
              <7>1. After(a, n) = Part(a, n, Len(a)) BY UptoIs
              <7>2. QED BY <4>5, <7>1
            <6>3. a = Part(w, f, m) BY <4>4, <6>1
            <6>4. b = Part(a, n, m - f) BY <1>5, <6>2
            <6>5. QED BY <6>3, <6>4
          <5>2. PICK g \in Nat : g = m - f /\ f + g = m /\ n <= g
            <6>1. n <= m - f BY <1>5, <4>5
            <6>2. m - f \in Nat /\ f + (m - f) = m BY <4>2, <4>3
            <6>3. QED BY <6>1, <6>2
          <5>3. Part(Part(w, f, m), n, g) = Part(w, f + n, f + g)
            <6>1. w \in Seq(T) /\ f <= m /\ m <= Len(w) /\ n <= g /\ g <= m - f
              BY <3>3, <4>2, <4>3, <5>2
            <6>2. QED BY <6>1, PartOfPart
          <5>4. After(w, f + n) = Part(w, f + n, m) BY <4>2, UptoIs
          <5>5. QED BY <5>1, <5>2, <5>3, <5>4
        <4>8. b = After(w, Least(e.seq * MaxPackageSize, Len(w))) BY <1>10, <4>1, <4>2, <4>6, <4>7
        <4>9. QED BY <3>3, <4>8
      <3>4. QED BY <3>1, <3>2, <3>3
    <2>2. QED BY <1>1, <2>1 DEF Numbered
  <1>14. Ended(j, e)
    <2>1. e.finalized => Edge(j, e.seq) = Len(j.plain) BY <1>4, <1>10 DEF Ends
    <2>2. e.status # "eof" OBVIOUS
    <2>3. QED BY <2>1, <2>2 DEF Ended
  <1>15. QED BY <1>1, <1>4, <1>11, <1>12, <1>13, <1>14 DEF DecAt

\* What is left of the data of a package.
LEMMA RestOfPiece ==
  ASSUME NEW T, NEW s \in Seq(T), NEW r \in Seq(T), NEW f \in Nat, f <= Len(s), Len(r) <= f,
         r = Part(s, f - Len(r), f), NEW n \in Nat, n <= Len(r)
  PROVE  /\ Upto(r, n) = Part(s, f - Len(r), f - Len(r) + n)
         /\ After(r, n) = Part(s, f - Len(After(r, n)), f)
         /\ Len(After(r, n)) = Len(r) - n /\ After(r, n) \in Seq(T)
         /\ Len(Upto(r, n)) = n /\ Upto(r, n) \in Seq(T)
  <1>1. PICK x \in Nat : x = Len(r) OBVIOUS
  <1>2. PICK g \in Nat : g = f - x /\ g <= f /\ g + x = f
    <2>1. f - x \in Nat /\ f - x <= f /\ (f - x) + x = f BY <1>1
    <2>2. QED BY <2>1
  <1>3. r = Part(s, g, f) BY <1>1, <1>2
  <1>4. /\ After(r, n) \in Seq(T) /\ Len(After(r, n)) = Len(r) - n
        /\ Upto(r, n) \in Seq(T) /\ Len(Upto(r, n)) = n
    BY SplitIs
  <1>5. Part(Part(s, g, f), 0, n) = Part(s, g + 0, g + n)
    <2>1. 0 <= n /\ n <= f - g BY <1>1, <1>2
    <2>2. QED BY <1>2, <2>1, PartOfPart
  <1>6. Part(Part(s, g, f), n, x) = Part(s, g + n, g + x)
    <2>1. n <= x /\ x <= f - g BY <1>1, <1>2
    <2>2. QED BY <1>2, <2>1, PartOfPart
  <1>7. Upto(r, n) = Part(r, 0, n) BY UptoIs
  <1>8. After(r, n) = Part(r, n, Len(r)) BY UptoIs
  <1>9. Upto(r, n) = Part(s, f - Len(r), f - Len(r) + n)
    <2>1. g + 0 = g BY <1>2
    <2>2. Upto(r, n) = Part(s, g, g + n) BY <1>3, <1>5, <1>7, <2>1
    <2>3. QED BY <1>1, <1>2, <2>2
  <1>10. After(r, n) = Part(s, f - Len(After(r, n)), f)
    <2>1. After(r, n) = Part(s, g + n, f) BY <1>1, <1>2, <1>3, <1>6, <1>8
    <2>2. f - Len(After(r, n)) = g + n BY <1>1, <1>2, <1>4
    <2>3. QED BY <2>1, <2>2
  <1>11. QED BY <1>4, <1>9, <1>10

\* And of what the reader holds of it.
LEMMA RestIs ==
  ASSUME NEW j, Job(j), NEW d, NEW r, Aligned(j, d, r), NEW n \in Nat, n <= Len(r)
  PROVE  /\ After(r, n) = Part(j.plain, Edge(j, d.seq) - Len(After(r, n)), Edge(j, d.seq))
         /\ Len(After(r, n)) = Len(r) - n /\ After(r, n) \in Seq(Toks(j))
  <1>1. PICK T, s : T = Toks(j) /\ s = j.plain OBVIOUS
  <1>2. d \in DecTypes(T) /\ r \in Seq(T) BY <1>1 DEF Aligned
  <1>3. d.seq \in Nat BY <1>2, DecFields
  <1>4. s \in Seq(T) /\ Len(s) \in Nat BY <1>1, PlainIs
  <1>5. PICK f \in Nat : f = Edge(j, d.seq) BY <1>3, EdgeIs
  <1>6. f <= Len(s) BY <1>1, <1>3, <1>5, EdgeIs
  <1>7. Len(r) <= f /\ r = Part(s, f - Len(r), f) BY <1>1, <1>5 DEF Aligned
  <1>8. /\ After(r, n) = Part(s, f - Len(After(r, n)), f)
        /\ Len(After(r, n)) = Len(r) - n /\ After(r, n) \in Seq(T)
    <2>1. r \in Seq(T) /\ Len(r) <= f /\ r = Part(s, f - Len(r), f) BY <1>2, <1>7
    <2>2. /\ Upto(r, n) = Part(s, f - Len(r), f - Len(r) + n)
          /\ After(r, n) = Part(s, f - Len(After(r, n)), f)
          /\ Len(After(r, n)) = Len(r) - n /\ After(r, n) \in Seq(T)
          /\ Len(Upto(r, n)) = n /\ Upto(r, n) \in Seq(T)
      BY <1>4, <1>6, <2>1, RestOfPiece
    <2>3. QED BY <2>2
  <1>9. QED BY <1>1, <1>5, <1>8

\* The caller gets the next data.
LEMMA OutAligned ==
  ASSUME NEW j, Job(j), NEW d, NEW r, Aligned(j, d, r), d.skip = 0, NEW n \in Nat, n <= Len(r),
         NEW e \in DecTypes(Toks(j)), e.seq = d.seq, e.skip = 0, e.out = d.out \o Upto(r, n)
  PROVE  Aligned(j, e, After(r, n)) /\ Len(e.out) = Len(d.out) + n
  <1>1. PICK T, s, o : T = Toks(j) /\ s = j.plain /\ o = d.out OBVIOUS
  <1>2. d \in DecTypes(T) /\ r \in Seq(T) BY <1>1 DEF Aligned
  <1>3. d.seq \in Nat /\ o \in Seq(T) /\ Len(o) \in Nat BY <1>1, <1>2, DecFields
  <1>4. s \in Seq(T) /\ Len(s) \in Nat BY <1>1, PlainIs
  <1>5. PICK f \in Nat, x \in Nat, c \in Nat, y \in Nat :
          f = Edge(j, d.seq) /\ x = Len(r) /\ c = j.off /\ y = Len(o)
    <2>1. Edge(j, d.seq) \in Nat BY <1>3, EdgeIs
    <2>2. j.off \in Nat BY JobIs
    <2>3. Len(r) \in Nat BY <1>2
    <2>4. QED BY <1>3, <2>1, <2>2, <2>3
  <1>6. f <= Len(s) BY <1>1, <1>3, <1>5, EdgeIs
  <1>7. /\ x <= f /\ r = Part(s, f - x, f) /\ c + y = f - x + 0
        /\ o = Part(s, c, c + y)
    BY <1>1, <1>5 DEF Aligned
  <1>8. /\ Upto(r, n) = Part(s, f - Len(r), f - Len(r) + n)
        /\ After(r, n) = Part(s, f - Len(After(r, n)), f)
        /\ Len(After(r, n)) = Len(r) - n /\ After(r, n) \in Seq(T)
        /\ Len(Upto(r, n)) = n /\ Upto(r, n) \in Seq(T)
    <2>1. r \in Seq(T) /\ Len(r) <= f /\ r = Part(s, f - Len(r), f) BY <1>2, <1>5, <1>7
    <2>2. QED BY <1>4, <1>6, <2>1, RestOfPiece
  <1>9. PICK g \in Nat : g = c + y /\ g = f - x /\ g <= Len(s) /\ g + n <= f /\ g + n <= Len(s) /\ c <= g
    <2>1. c + y \in Nat /\ c + y = f - x /\ c <= c + y BY <1>7
    <2>2. c + y <= f /\ (c + y) + n <= f BY <1>5, <1>7
    <2>3. QED BY <1>4, <1>6, <2>1, <2>2
  <1>10. Upto(r, n) = Part(s, g, g + n) BY <1>5, <1>8, <1>9
  <1>11. o \o Upto(r, n) = Part(s, c, g + n)
    <2>1. Part(s, c, g) \o Part(s, g, g + n) = Part(s, c, g + n)
      <3>1. PICK h \in Nat : h = g + n BY <1>9
      <3>2. s \in Seq(T) /\ c <= g /\ g <= h /\ h <= Len(s) BY <1>4, <1>9, <3>1
      <3>3. Part(s, c, g) \o Part(s, g, h) = Part(s, c, h) BY <3>2, PartsJoin
      <3>4. QED BY <3>1, <3>3
    <2>2. QED BY <1>7, <1>9, <1>10, <2>1
  <1>12. Len(o \o Upto(r, n)) = y + n
    <2>1. Upto(r, n) \in Seq(T) /\ o \in Seq(T) BY <1>3, <1>8
    <2>2. Len(o \o Upto(r, n)) = Len(o) + Len(Upto(r, n)) BY <2>1, JoinIs
    <2>3. QED BY <1>5, <1>8, <2>2
  <1>13. e.out = Part(s, c, g + n) /\ Len(e.out) = y + n BY <1>1, <1>11, <1>12
  <1>14. c + (y + n) = g + n BY <1>9
  <1>15. Aligned(j, e, After(r, n))
    <2>1. Edge(j, e.seq) = f BY <1>5
    <2>2. e \in DecTypes(Toks(j)) /\ After(r, n) \in Seq(Toks(j)) BY <1>1, <1>8
    <2>3. Len(After(r, n)) = x - n BY <1>5, <1>8
    <2>4. Len(After(r, n)) <= f BY <1>7, <2>3
    <2>5. c + (y + n) = f - Len(After(r, n)) + 0 BY <1>9, <2>3
    <2>6. c + (y + n) <= Len(s) BY <1>9, <1>14
    <2>7. e.out = Part(s, c, c + (y + n)) BY <1>13, <1>14
    <2>8. After(r, n) = Part(s, f - Len(After(r, n)), f) BY <1>8
    <2>9. QED BY <1>1, <1>5, <1>13, <2>1, <2>2, <2>4, <2>5, <2>6, <2>7, <2>8 DEF Aligned
  <1>16. QED BY <1>1, <1>5, <1>13, <1>15

\* Nothing is ahead that was not.
LEMMA StillNumbered ==
  ASSUME NEW j, NEW w, NEW d, NEW e, Numbered(j, w, d), d.status = "open",
         Ahead(e) = Ahead(d), e.seq = d.seq, e.version = d.version
  PROVE  Numbered(j, w, e)
  BY DEF Numbered

\* The reader gives data to its caller.
LEMMA OutAt ==
  ASSUME NEW j, Job(j), NEW w, NEW d, NEW r, DecAt(j, w, d, r), d.status = "open", d.skip = 0,
         j.to # "writer",
         NEW n \in Nat, n <= Len(r), n <= d.room,
         NEW e \in DecTypes(Toks(j)), Ahead(e) = Ahead(d), e.pending = d.pending, e.seq = d.seq,
         e.version = d.version, e.finalized = d.finalized, e.skip = 0, e.out = d.out \o Upto(r, n),
         e.left = d.left - n, e.room <= d.room - n,
         e.status = IF d.left = n THEN "eof" ELSE "open"
  PROVE  DecAt(j, w, e, After(r, n))
  <1>1. Aligned(j, d, r) /\ Limited(j, d, r) /\ Numbered(j, w, d) /\ Ended(j, d) BY DEF DecAt
  <1>2. Aligned(j, e, After(r, n)) /\ Len(e.out) = Len(d.out) + n
    <2>1. Aligned(j, d, r) /\ d.skip = 0 /\ n \in Nat /\ n <= Len(r) BY <1>1
    <2>2. /\ e \in DecTypes(Toks(j)) /\ e.seq = d.seq /\ e.skip = 0
          /\ e.out = d.out \o Upto(r, n)
      OBVIOUS
    <2>3. QED BY <2>1, <2>2, OutAligned, ZenonT(60)
  <1>3. d \in DecTypes(Toks(j)) /\ r \in Seq(Toks(j)) BY <1>1 DEF Aligned
  <1>4. PICK x \in Nat, y \in Nat, l \in Nat, m \in Nat, a \in Nat :
          x = Len(r) /\ y = Len(d.out) /\ l = d.left /\ m = d.room /\ a = Len(Ahead(d))
    <2>1. Len(d.out) \in Nat /\ d.left \in Nat /\ d.room \in Nat /\ Len(Ahead(d)) \in Nat
      BY <1>3, DecFields
    <2>2. Len(r) \in Nat BY <1>3
    <2>3. QED BY <2>1, <2>2
  <1>5. PICK k \in Nat : k = e.room BY DecFields
  <1>6. Len(After(r, n)) = x - n
    <2>1. r \in Seq(Toks(j)) /\ n <= Len(r) BY <1>3
    <2>2. Len(After(r, n)) = Len(r) - n BY <2>1, SplitIs
    <2>3. QED BY <1>4, <2>2
  <1>7. m <= l
    <2>1. ~(d.skip > 0) OBVIOUS
    <2>2. QED BY <1>1, <1>4, <2>1 DEF Limited
  <1>8. k <= l - n /\ n <= x /\ n <= m
    <2>1. k <= m - n /\ n <= x /\ n <= m BY <1>4, <1>5
    <2>2. QED BY <1>7, <2>1
  <1>9. Limited(j, e, After(r, n))
    <2>1. e.skip < MaxPayloadSize /\ ~(e.skip > 0) BY DAREAssumption
    <2>2. e.room <= e.left BY <1>4, <1>5, <1>8
    <2>3. CASE j.to \in {"reader", "writer"}
      <3>1. l > x + a BY <1>1, <1>4, <2>3 DEF Limited
      <3>2. l - n > (x - n) + a BY <1>8, <3>1
      <3>3. e.left > Len(After(r, n)) + Len(Ahead(e)) BY <1>4, <1>6, <3>2
      <3>4. j.to # "writer" => e.pending = <<>> BY <1>1 DEF Limited
      <3>5. QED BY <2>1, <2>2, <2>3, <3>3, <3>4 DEF Limited
    <2>4. CASE j.to \notin {"reader", "writer"}
      <3>1. l + y = j.length BY <1>1, <1>4, <2>4 DEF Limited
      <3>2. (l - n) + (y + n) = l + y BY <1>4
      <3>3. e.left + Len(e.out) = j.length BY <1>2, <1>4, <3>1, <3>2
      <3>4. j.to # "writer" => e.pending = <<>> BY <1>1 DEF Limited
      <3>5. QED BY <2>1, <2>2, <2>4, <3>3, <3>4 DEF Limited
    <2>5. QED BY <2>3, <2>4
  <1>10. Numbered(j, w, e) BY <1>1, StillNumbered
  <1>11. Ended(j, e)
    <2>1. e.finalized => Edge(j, e.seq) = Len(j.plain) BY <1>1 DEF Ended
    <2>2. ASSUME e.status = "eof" PROVE Len(e.out) = WantedLen(j)
      <3>1. l = n BY <1>4, <2>2
      <3>2. j.to \notin {"reader", "writer"}
        <4>1. ASSUME j.to \in {"reader", "writer"} PROVE FALSE
          <5>1. l > x + a BY <1>1, <1>4, <4>1 DEF Limited
          <5>2. QED BY <1>8, <3>1, <5>1
        <4>2. QED BY <4>1
      <3>3. l + y = j.length BY <1>1, <1>4, <3>2 DEF Limited
      <3>4. QED BY <1>2, <1>4, <3>1, <3>2, <3>3 DEF WantedLen
    <2>3. QED BY <2>1, <2>2 DEF Ended
  <1>12. QED BY <1>2, <1>9, <1>10, <1>11 DEF DecAt

\* It gives data that its caller skips.
LEMMA SkipAt ==
  ASSUME NEW j, Job(j), NEW w, NEW d, NEW r, DecAt(j, w, d, r), d.status = "open", d.skip > 0,
         NEW n \in Nat, n <= Len(r), n <= d.room,
         NEW e \in DecTypes(Toks(j)), Ahead(e) = Ahead(d), e.pending = d.pending, e.seq = d.seq,
         e.version = d.version, e.finalized = d.finalized, e.skip = d.skip - n, e.out = d.out,
         e.left = d.left, e.room <= d.room - n, e.status = "open"
  PROVE  DecAt(j, w, e, After(r, n))
  <1>1. Aligned(j, d, r) /\ Limited(j, d, r) /\ Numbered(j, w, d) /\ Ended(j, d) BY DEF DecAt
  <1>2. PICK T, s : T = Toks(j) /\ s = j.plain OBVIOUS
  <1>3. d \in DecTypes(T) /\ r \in Seq(T) BY <1>1, <1>2 DEF Aligned
  <1>4. /\ d.skip \in Nat /\ d.room \in Nat /\ d.left \in Nat /\ Len(d.out) \in Nat /\ d.seq \in Nat
        /\ e.room \in Nat
    BY <1>2, <1>3, DecFields
  <1>5. PICK f \in Nat, x \in Nat, c \in Nat, y \in Nat, q \in Nat :
          f = Edge(j, d.seq) /\ x = Len(r) /\ c = j.off /\ y = Len(d.out) /\ q = d.skip
    <2>1. Edge(j, d.seq) \in Nat BY <1>4, EdgeIs
    <2>2. j.off \in Nat BY JobIs
    <2>3. Len(r) \in Nat BY <1>3
    <2>4. QED BY <1>4, <2>1, <2>2, <2>3
  <1>6. /\ x <= f /\ r = Part(s, f - x, f) /\ c + y = f - x + q
        /\ c + y <= Len(s) /\ d.out = Part(s, c, c + y)
    BY <1>1, <1>2, <1>5 DEF Aligned
  <1>7. /\ After(r, n) = Part(s, f - Len(After(r, n)), f)
        /\ Len(After(r, n)) = Len(r) - n /\ After(r, n) \in Seq(T)
    <2>1. n <= Len(r) OBVIOUS
    <2>2. /\ After(r, n) = Part(j.plain, Edge(j, d.seq) - Len(After(r, n)), Edge(j, d.seq))
          /\ Len(After(r, n)) = Len(r) - n /\ After(r, n) \in Seq(Toks(j))
      BY <1>1, <2>1, RestIs
    <2>3. QED BY <1>2, <1>5, <2>2
  <1>8. n <= q /\ n <= x /\ d.room <= q
    <2>1. d.room <= q
      <3>1. d.skip > 0 OBVIOUS
      <3>2. QED BY <1>1, <1>5, <3>1 DEF Limited
    <2>2. n <= d.room OBVIOUS
    <2>3. QED BY <1>4, <1>5, <2>1, <2>2
  <1>9. Aligned(j, e, After(r, n))
    <2>1. Edge(j, e.seq) = f BY <1>5
    <2>2. e \in DecTypes(Toks(j)) /\ After(r, n) \in Seq(Toks(j)) BY <1>2, <1>7
    <2>3. Len(After(r, n)) = x - n BY <1>5, <1>7
    <2>4. Len(After(r, n)) <= f BY <1>6, <2>3
    <2>5. c + y = f - Len(After(r, n)) + (q - n) BY <1>6, <2>3
    <2>6. e.skip = q - n BY <1>5
    <2>7. QED BY <1>2, <1>5, <1>6, <1>7, <2>1, <2>2, <2>4, <2>5, <2>6 DEF Aligned
  <1>10. Limited(j, e, After(r, n))
    <2>1. PICK l \in Nat, m \in Nat, k \in Nat, a \in Nat : l = d.left /\ m = d.room /\ k = e.room /\ a = MaxPayloadSize
      BY <1>4, DAREAssumption
    <2>2. k <= m - n /\ m <= q /\ n <= m /\ q < a
      <3>1. d.skip < MaxPayloadSize BY <1>1 DEF Limited
      <3>2. k <= m - n /\ n <= m BY <2>1
      <3>3. QED BY <1>5, <1>8, <2>1, <3>1, <3>2
    <2>3. e.skip = q - n BY <1>5
    <2>4. e.skip < MaxPayloadSize
      <3>1. q - n < a BY <2>2
      <3>2. QED BY <2>1, <2>3, <3>1
    <2>5. d.out = <<>>
      <3>1. d.skip > 0 OBVIOUS
      <3>2. QED BY <1>1, <3>1 DEF Limited
    <2>6. e.room <= IF e.skip > 0 THEN e.skip ELSE e.left
      <3>1. k <= IF q - n > 0 THEN q - n ELSE l BY <2>2
      <3>2. QED BY <2>1, <2>3, <3>1
    <2>7. j.to \notin {"reader", "writer"} /\ e.left + Len(e.out) = j.length
      <3>1. IF j.to \in {"reader", "writer"} THEN d.skip = 0 ELSE d.left + Len(d.out) = j.length
        BY <1>1 DEF Limited
      <3>2. d.skip # 0 BY <1>4
      <3>3. QED BY <3>1, <3>2
    <2>8. j.to # "writer" => e.pending = <<>> BY <1>1 DEF Limited
    <2>9. QED BY <2>4, <2>5, <2>6, <2>7, <2>8 DEF Limited
  <1>11. Numbered(j, w, e) BY <1>1, StillNumbered
  <1>12. Ended(j, e)
    <2>1. e.finalized => Edge(j, e.seq) = Len(j.plain) BY <1>1 DEF Ended
    <2>2. e.status # "eof" OBVIOUS
    <2>3. QED BY <2>1, <2>2 DEF Ended
  <1>13. QED BY <1>9, <1>10, <1>11, <1>12 DEF DecAt

\* The writer gives all data of a package on.
LEMMA WriterAt ==
  ASSUME NEW j, Job(j), NEW w, NEW d, NEW r, DecAt(j, w, d, r), d.status = "open", j.to = "writer",
         NEW e \in DecTypes(Toks(j)), Ahead(e) = Ahead(d), e.seq = d.seq,
         e.version = d.version, e.finalized = d.finalized, e.skip = d.skip, e.out = d.out \o r,
         e.left = d.left, e.room = d.room, e.status \in {"open", "eof"}
  PROVE  DecAt(j, w, e, <<>>)
  <1>1. Aligned(j, d, r) /\ Limited(j, d, r) /\ Numbered(j, w, d) /\ Ended(j, d) BY DEF DecAt
  <1>2. PICK T : T = Toks(j) OBVIOUS
  <1>3. d \in DecTypes(T) /\ r \in Seq(T) /\ e \in DecTypes(T) BY <1>1, <1>2 DEF Aligned
  <1>4. PICK n \in Nat : n = Len(r) BY <1>3
  <1>5. Upto(r, n) = r /\ After(r, n) = <<>>
    <2>1. Upto(r, n) = Part(r, 0, n) /\ After(r, n) = Part(r, n, Len(r)) BY UptoIs
    <2>2. Part(r, 0, Len(r)) = r BY <1>3, WholePart
    <2>3. n <= Len(r) BY <1>3, <1>4
    <2>4. Part(r, n, n) = <<>> BY <1>3, <2>3, NoPart
    <2>5. QED BY <1>4, <2>1, <2>2, <2>4
  <1>6. d.skip = 0 /\ (d.status = "open" => d.left > n + Len(Ahead(d))) /\ d.room <= d.left
    <2>1. d.skip = 0 BY <1>1 DEF Limited
    <2>2. ~(d.skip > 0) BY <2>1
    <2>3. QED BY <1>1, <1>4, <2>1, <2>2 DEF Limited
  <1>7. Aligned(j, e, <<>>)
    <2>1. n <= Len(r) /\ e.out = d.out \o Upto(r, n) /\ e.skip = 0 BY <1>4, <1>5, <1>6
    <2>2. Aligned(j, e, After(r, n)) BY <1>1, <1>6, <2>1, OutAligned
    <2>3. QED BY <1>5, <2>2
  <1>8. Limited(j, e, <<>>)
    <2>1. e.skip < MaxPayloadSize /\ ~(e.skip > 0) BY <1>6, DAREAssumption
    <2>2. PICK l \in Nat, a \in Nat : l = d.left /\ a = Len(Ahead(d)) BY <1>3, DecFields
    <2>3. l > n + a BY <1>6, <2>2
    <2>4. l > 0 + a BY <2>3
    <2>5. Len(<<>>) = 0 OBVIOUS
    <2>6. e.left > Len(<<>>) + Len(Ahead(e)) BY <2>2, <2>4, <2>5
    <2>7. QED BY <1>6, <2>1, <2>6 DEF Limited
  <1>9. Numbered(j, w, e) BY <1>1, StillNumbered
  <1>10. Ended(j, e)
    <2>1. e.finalized => Edge(j, e.seq) = Len(j.plain) BY <1>1 DEF Ended
    <2>2. QED BY <2>1 DEF Ended
  <1>11. QED BY <1>7, <1>8, <1>9, <1>10 DEF DecAt

\* What is left in the buffer.
Rest(d) == IF d.offset > 0 THEN After(d.buffer, d.offset) ELSE <<>>

\* A decrypting reader or writer.
DecOk(j, w, d) ==
  /\ DecAt(j, w, d, Rest(d))
  /\ d.offset <= Len(d.buffer)
  /\ j.to = "writer" => d.room = 0 /\ d.offset = 0

\* What a step changes does not matter.
LEMMA SameAt ==
  ASSUME NEW j, NEW w, NEW d, NEW r, DecAt(j, w, d, r), NEW e \in DecTypes(Toks(j)),
         e.src = d.src, e.pending = d.pending, e.seq = d.seq, e.finalized = d.finalized,
         e.skip = d.skip, e.left = d.left, e.out = d.out, e.version = d.version \/ d.version = 0,
         e.room <= IF d.skip > 0 THEN d.skip ELSE d.left,
         e.status = "open" => d.status = "open",
         (e.status = "eof" /\ e.version = 20 /\ j.to # "writer") => Len(e.out) = WantedLen(j)
  PROVE  DecAt(j, w, e, r)
  <1>1. Aligned(j, d, r) /\ Limited(j, d, r) /\ Numbered(j, w, d) /\ Ended(j, d) BY DEF DecAt
  <1>2. Ahead(e) = Ahead(d) BY DEF Ahead
  <1>3. Aligned(j, e, r) BY <1>1 DEF Aligned
  <1>4. Limited(j, e, r)
    <2>1. e.skip < MaxPayloadSize /\ (e.skip > 0 => e.out = <<>>) BY <1>1 DEF Limited
    <2>2. e.room <= IF e.skip > 0 THEN e.skip ELSE e.left OBVIOUS
    <2>3. IF j.to \in {"reader", "writer"}
          THEN e.skip = 0 /\ (e.status = "open" => e.left > Len(r) + Len(Ahead(e)))
          ELSE e.left + Len(e.out) = j.length
      BY <1>1, <1>2 DEF Limited
    <2>4. j.to # "writer" => e.pending = <<>> BY <1>1 DEF Limited
    <2>5. QED BY <2>1, <2>2, <2>3, <2>4 DEF Limited
  <1>5. Numbered(j, w, e)
    <2>1. ASSUME e.status = "open", j.version = 20
          PROVE  \/ Uncounted(Ahead(e))
                 \/ /\ w \in Seq(Toks(j)) /\ Placed(j, w)
                    /\ e.version \in {0, 20} => Ahead(e) = After(w, Least(e.seq * MaxPackageSize, Len(w)))
      <3>1. \/ Uncounted(Ahead(d))
            \/ /\ w \in Seq(Toks(j)) /\ Placed(j, w)
               /\ d.version \in {0, 20} => Ahead(d) = After(w, Least(d.seq * MaxPackageSize, Len(w)))
        BY <1>1, <2>1 DEF Numbered
      <3>2. e.version \in {0, 20} => d.version \in {0, 20} OBVIOUS
      <3>3. QED BY <1>2, <3>1, <3>2
    <2>2. QED BY <2>1 DEF Numbered
  <1>6. Ended(j, e) BY <1>1 DEF Ended
  <1>7. QED BY <1>3, <1>4, <1>5, <1>6 DEF DecAt

\* The reader looks at the version.
LEMMA FirstOk ==
  ASSUME NEW j, NEW w, NEW d, DecOk(j, w, d), d.status = "open", d.version = 0,
         NEW v \in Int, NEW e, e = [d EXCEPT !.version = v]
  PROVE  DecOk(j, w, e)
  <1>1. DecAt(j, w, d, Rest(d)) /\ d \in DecTypes(Toks(j)) /\ Limited(j, d, Rest(d))
    BY DEF DecOk, DecAt, Aligned
  <1>2. /\ e \in DecTypes(Toks(j)) /\ e.src = d.src /\ e.pending = d.pending /\ e.seq = d.seq
        /\ e.finalized = d.finalized /\ e.skip = d.skip /\ e.left = d.left /\ e.out = d.out
        /\ e.room = d.room /\ e.status = d.status /\ e.buffer = d.buffer /\ e.offset = d.offset
    BY <1>1 DEF DecTypes
  <1>3. e.room <= IF d.skip > 0 THEN d.skip ELSE d.left BY <1>1, <1>2 DEF Limited
  <1>4. e.status # "eof" BY <1>2
  <1>5. Rest(e) = Rest(d) BY <1>2 DEF Rest
  <1>6. DecAt(j, w, e, Rest(d)) BY <1>1, <1>2, <1>3, <1>4, SameAt
  <1>7. QED BY <1>2, <1>5, <1>6 DEF DecOk

\* It reads for the caller.
LEMMA ReadOk ==
  ASSUME NEW j, NEW w, NEW d, DecOk(j, w, d), d.status = "open", j.to # "writer",
         NEW n \in Nat, n <= IF d.skip > 0 THEN d.skip ELSE d.left,
         NEW e, e = [d EXCEPT !.room = n]
  PROVE  DecOk(j, w, e)
  <1>1. DecAt(j, w, d, Rest(d)) /\ d \in DecTypes(Toks(j)) BY DEF DecOk, DecAt, Aligned
  <1>2. /\ e \in DecTypes(Toks(j)) /\ e.src = d.src /\ e.pending = d.pending /\ e.seq = d.seq
        /\ e.finalized = d.finalized /\ e.skip = d.skip /\ e.left = d.left /\ e.out = d.out
        /\ e.room = n /\ e.status = d.status /\ e.buffer = d.buffer /\ e.offset = d.offset
        /\ e.version = d.version
    BY <1>1 DEF DecTypes
  <1>3. e.room <= IF d.skip > 0 THEN d.skip ELSE d.left BY <1>2
  <1>4. e.status # "eof" BY <1>2
  <1>5. Rest(e) = Rest(d) BY <1>2 DEF Rest
  <1>6. DecAt(j, w, e, Rest(d)) BY <1>1, <1>2, <1>3, <1>4, SameAt
  <1>7. QED BY <1>2, <1>5, <1>6 DEF DecOk

\* Why it ends.
Failures == {"eof", "unsupported version", "unexpected EOF", "tampered", "unexpected data"}

\* It ends.
LEMMA FailOk ==
  ASSUME NEW j, NEW w, NEW d, DecOk(j, w, d), d.status = "open",
         NEW err, err \in Failures,
         err = "eof" /\ d.version = 20 /\ j.to # "writer" => Len(d.out) = WantedLen(j),
         NEW e, e = [d EXCEPT !.status = err, !.room = 0]
  PROVE  DecOk(j, w, e)
  <1>1. DecAt(j, w, d, Rest(d)) /\ d \in DecTypes(Toks(j)) BY DEF DecOk, DecAt, Aligned
  <1>2. /\ e \in DecTypes(Toks(j)) /\ e.src = d.src /\ e.pending = d.pending /\ e.seq = d.seq
        /\ e.finalized = d.finalized /\ e.skip = d.skip /\ e.left = d.left /\ e.out = d.out
        /\ e.room = 0 /\ e.status = err /\ e.buffer = d.buffer /\ e.offset = d.offset
        /\ e.version = d.version
    <2>1. err \in {"open", "eof", "unsupported version", "unexpected EOF", "tampered", "unexpected data"}
      BY DEF Failures
    <2>2. PICK b : b = [d EXCEPT !.status = err] OBVIOUS
    <2>3. /\ b \in DecTypes(Toks(j)) /\ b.src = d.src /\ b.pending = d.pending /\ b.seq = d.seq
          /\ b.finalized = d.finalized /\ b.skip = d.skip /\ b.left = d.left /\ b.out = d.out
          /\ b.status = err /\ b.buffer = d.buffer /\ b.offset = d.offset
          /\ b.version = d.version
      BY <1>1, <2>1, <2>2 DEF DecTypes
    <2>4. e = [b EXCEPT !.room = 0] BY <1>1, <2>2 DEF DecTypes
    <2>5. b \in DecTypes(Toks(j)) /\ 0 \in Nat BY <2>3
    <2>6. /\ e \in DecTypes(Toks(j)) /\ e.src = b.src /\ e.pending = b.pending /\ e.seq = b.seq
          /\ e.finalized = b.finalized /\ e.skip = b.skip /\ e.left = b.left /\ e.out = b.out
          /\ e.room = 0 /\ e.status = b.status /\ e.buffer = b.buffer /\ e.offset = b.offset
          /\ e.version = b.version
      BY <2>4, <2>5 DEF DecTypes
    <2>7. QED BY <2>3, <2>6
  <1>3. e.room <= IF d.skip > 0 THEN d.skip ELSE d.left
    <2>1. PICK a \in Nat, b \in Nat : a = d.skip /\ b = d.left BY <1>1, DecFields
    <2>2. 0 <= IF a > 0 THEN a ELSE b OBVIOUS
    <2>3. e.room = 0 BY <1>2
    <2>4. QED BY <2>1, <2>2, <2>3, Zenon
  <1>4. e.status # "open"
    <2>1. err # "open" BY DEF Failures
    <2>2. e.status = err BY <1>2
    <2>3. QED BY <2>1, <2>2, Zenon
  <1>5. Rest(e) = Rest(d) BY <1>2 DEF Rest
  <1>6. (e.status = "eof" /\ e.version = 20 /\ j.to # "writer") => Len(e.out) = WantedLen(j) BY <1>2
  <1>7. DecAt(j, w, e, Rest(d)) BY <1>1, <1>2, <1>3, <1>4, <1>6, SameAt
  <1>8. QED BY <1>2, <1>5, <1>7 DEF DecOk

\* What comes after what was passed over before.
LEMMA AfterAfter ==
  ASSUME NEW T, NEW s \in Seq(T), NEW a \in Nat, a <= Len(s), NEW n \in Nat, n <= Len(s) - a
  PROVE  After(After(s, a), n) = After(s, a + n)
  <1>1. PICK m \in Nat : m = Len(s) OBVIOUS
  <1>2. PICK g \in Nat : g = m - a /\ a + g = m /\ n <= g
    <2>1. m - a \in Nat /\ a + (m - a) = m /\ n <= m - a BY <1>1
    <2>2. QED BY <2>1
  <1>3. PICK b : b = After(s, a) OBVIOUS
  <1>4. Len(b) = g
    <2>1. Len(After(s, a)) = Len(s) - a BY SplitIs
    <2>2. QED BY <1>1, <1>2, <1>3, <2>1
  <1>5. b = Part(s, a, m)
    <2>1. After(s, a) = Part(s, a, Len(s)) BY UptoIs
    <2>2. QED BY <1>1, <1>3, <2>1
  <1>6. After(b, n) = Part(b, n, g)
    <2>1. After(b, n) = Part(b, n, Len(b)) BY UptoIs
    <2>2. QED BY <1>4, <2>1
  <1>7. Part(Part(s, a, m), n, g) = Part(s, a + n, a + g)
    <2>1. a <= m /\ m <= Len(s) /\ n <= g /\ g <= m - a BY <1>1, <1>2
    <2>2. QED BY <2>1, PartOfPart
  <1>8. After(s, a + n) = Part(s, a + n, m)
    <2>1. After(s, a + n) = Part(s, a + n, Len(s)) BY UptoIs
    <2>2. QED BY <1>1, <2>1
  <1>9. QED BY <1>2, <1>3, <1>5, <1>6, <1>7, <1>8

\* The caller's buffer is full.
LEMMA FullAt ==
  ASSUME NEW j, NEW w, NEW d, NEW r, DecAt(j, w, d, r), NEW e, e = [d EXCEPT !.room = 0]
  PROVE  DecAt(j, w, e, r) /\ e.buffer = d.buffer /\ e.offset = d.offset /\ e.room = 0
  <1>1. d \in DecTypes(Toks(j)) /\ Ended(j, d) BY DEF DecAt, Aligned
  <1>2. /\ e \in DecTypes(Toks(j)) /\ e.src = d.src /\ e.pending = d.pending /\ e.seq = d.seq
        /\ e.finalized = d.finalized /\ e.skip = d.skip /\ e.left = d.left /\ e.out = d.out
        /\ e.room = 0 /\ e.status = d.status /\ e.buffer = d.buffer /\ e.offset = d.offset
        /\ e.version = d.version
    BY <1>1 DEF DecTypes
  <1>3. e.room <= IF d.skip > 0 THEN d.skip ELSE d.left
    <2>1. PICK a \in Nat, b \in Nat : a = d.skip /\ b = d.left BY <1>1, DecFields
    <2>2. 0 <= IF a > 0 THEN a ELSE b OBVIOUS
    <2>3. e.room = 0 BY <1>2
    <2>4. QED BY <2>1, <2>2, <2>3, Zenon
  <1>4. (e.status = "eof" /\ e.version = 20 /\ j.to # "writer") => Len(e.out) = WantedLen(j)
    BY <1>1, <1>2 DEF Ended
  <1>5. DecAt(j, w, e, r) BY <1>2, <1>3, <1>4, SameAt
  <1>6. QED BY <1>2, <1>5

\* Data is given to the caller.
LEMMA GivenAt ==
  ASSUME NEW j, Job(j), NEW w, NEW d, NEW r, DecAt(j, w, d, r), d.status = "open",
         j.to # "writer", NEW n \in Nat, n <= Len(r), n <= d.room
  PROVE  /\ DecAt(j, w, Given(d, Upto(r, n)), After(r, n))
         /\ Given(d, Upto(r, n)).buffer = d.buffer /\ Given(d, Upto(r, n)).offset = d.offset
         /\ Given(d, Upto(r, n)).room = d.room - n
  <1>1. PICK T, s, g : T = Toks(j) /\ s = Upto(r, n) /\ g = Given(d, s) OBVIOUS
  <1>2. d \in DecTypes(T) /\ r \in Seq(T) /\ Limited(j, d, r) BY <1>1 DEF DecAt, Aligned
  <1>3. s \in Seq(T) /\ Len(s) = n
    <2>1. n <= Len(r) /\ r \in Seq(T) BY <1>2
    <2>2. Upto(r, n) \in Seq(T) /\ Len(Upto(r, n)) = n BY <2>1, SplitIs
    <2>3. QED BY <1>1, <2>2
  <1>4. /\ d.room \in Nat /\ d.skip \in Nat /\ d.left \in Nat /\ d.out \in Seq(T)
    BY <1>2, DecFields
  <1>5. PICK m \in Nat : m = d.room - n
    <2>1. d.room - n \in Nat BY <1>4
    <2>2. QED BY <2>1
  <1>6. CASE d.skip > 0
    <2>1. d.room <= d.skip BY <1>2, <1>6 DEF Limited
    <2>2. PICK q \in Nat : q = d.skip - n
      <3>1. d.skip - n \in Nat BY <1>4, <2>1
      <3>2. QED BY <3>1
    <2>3. g = [d EXCEPT !.skip = q, !.room = m]
      <3>1. g = [d EXCEPT !.skip = @ - Len(s), !.room = @ - Len(s)] BY <1>1, <1>6, Zenon DEF Given
      <3>2. QED BY <1>3, <1>5, <2>2, <3>1
    <2>4. PICK b : b = [d EXCEPT !.skip = q] OBVIOUS
    <2>5. /\ b \in DecTypes(T) /\ b.src = d.src /\ b.pending = d.pending /\ b.seq = d.seq
          /\ b.finalized = d.finalized /\ b.skip = q /\ b.left = d.left /\ b.out = d.out
          /\ b.status = d.status /\ b.buffer = d.buffer /\ b.offset = d.offset
          /\ b.version = d.version
      BY <1>2, <2>4 DEF DecTypes
    <2>6. g = [b EXCEPT !.room = m] BY <1>2, <2>3, <2>4 DEF DecTypes
    <2>7. /\ g \in DecTypes(T) /\ g.src = d.src /\ g.pending = d.pending /\ g.seq = d.seq
          /\ g.finalized = d.finalized /\ g.skip = q /\ g.left = d.left /\ g.out = d.out
          /\ g.status = d.status /\ g.buffer = d.buffer /\ g.offset = d.offset
          /\ g.version = d.version /\ g.room = m
      BY <2>5, <2>6 DEF DecTypes
    <2>8. Ahead(g) = Ahead(d) BY <2>7 DEF Ahead
    <2>9. g.room <= d.room - n /\ g.skip = d.skip - n /\ g.status = "open" BY <1>5, <2>2, <2>7
    <2>10. DecAt(j, w, g, After(r, n)) BY <1>1, <1>6, <2>7, <2>8, <2>9, SkipAt
    <2>11. QED BY <1>1, <1>5, <2>7, <2>10
  <1>7. CASE ~(d.skip > 0)
    <2>1. d.room <= d.left /\ d.skip = 0 BY <1>2, <1>4, <1>7 DEF Limited
    <2>2. PICK q \in Nat : q = d.left - n
      <3>1. d.left - n \in Nat BY <1>4, <2>1
      <3>2. QED BY <3>1
    <2>3. PICK o : o = d.out \o s OBVIOUS
    <2>4. o \in Seq(T) BY <1>3, <1>4, <2>3, ConcatProperties
    <2>5. PICK st \in {"open", "eof"} : st = IF d.left = n THEN "eof" ELSE "open" OBVIOUS
    <2>6. g = [d EXCEPT !.out = o, !.left = q, !.room = m, !.status = st]
      <3>1. g = [d EXCEPT !.out = @ \o s, !.left = @ - Len(s), !.room = @ - Len(s),
                          !.status = IF d.left = Len(s) THEN "eof" ELSE @]
        BY <1>1, <1>7, Zenon DEF Given
      <3>2. st = IF d.left = Len(s) THEN "eof" ELSE d.status BY <1>3, <2>5
      <3>3. QED BY <1>3, <1>5, <2>2, <2>3, <3>1, <3>2
    <2>7. PICK b : b = [d EXCEPT !.out = o, !.left = q] OBVIOUS
    <2>8. /\ b \in DecTypes(T) /\ b.src = d.src /\ b.pending = d.pending /\ b.seq = d.seq
          /\ b.finalized = d.finalized /\ b.skip = d.skip /\ b.left = q /\ b.out = o
          /\ b.buffer = d.buffer /\ b.offset = d.offset
          /\ b.version = d.version
      BY <1>2, <2>4, <2>7 DEF DecTypes
    <2>9. g = [b EXCEPT !.room = m, !.status = st] BY <1>2, <2>6, <2>7 DEF DecTypes
    <2>10. /\ g \in DecTypes(T) /\ g.src = d.src /\ g.pending = d.pending /\ g.seq = d.seq
          /\ g.finalized = d.finalized /\ g.skip = d.skip /\ g.left = q /\ g.out = o
          /\ g.status = st /\ g.buffer = d.buffer /\ g.offset = d.offset
          /\ g.version = d.version /\ g.room = m
      BY <2>5, <2>8, <2>9 DEF DecTypes
    <2>11. Ahead(g) = Ahead(d) BY <2>10 DEF Ahead
    <2>12. g.room <= d.room - n /\ g.skip = 0 /\ g.left = d.left - n /\ g.out = d.out \o Upto(r, n)
           /\ g.status = IF d.left = n THEN "eof" ELSE "open"
      BY <1>1, <1>5, <2>1, <2>2, <2>3, <2>5, <2>10
    <2>13. DecAt(j, w, g, After(r, n)) BY <1>1, <2>1, <2>10, <2>11, <2>12, OutAt
    <2>14. QED BY <1>1, <1>5, <2>10, <2>13
  <1>8. QED BY <1>6, <1>7

\* What the last Read left in the buffer.
LEMMA DrainOk ==
  ASSUME NEW j, Job(j), NEW w, NEW d, DecOk(j, w, d), d.status = "open", j.to # "writer", d.offset > 0,
         NEW rest, rest = After(d.buffer, d.offset), NEW n, n = Least(d.room, Len(rest)),
         NEW o, o = (IF d.room < Len(rest) THEN d.offset + n ELSE 0),
         NEW e, e = Given([d EXCEPT !.offset = o], Upto(rest, n))
  PROVE  DecOk(j, w, e)
  <1>1. PICK T, b, c : T = Toks(j) /\ b = d.buffer /\ c = d.offset OBVIOUS
  <1>2. DecAt(j, w, d, rest) /\ d \in DecTypes(T) /\ c <= Len(b)
    <2>1. Rest(d) = rest BY Zenon DEF Rest
    <2>2. QED BY <1>1, <2>1 DEF DecOk, DecAt, Aligned
  <1>3. b \in Seq(T) /\ c \in Nat /\ d.room \in Nat /\ d.offset \in Nat BY <1>1, <1>2, DecFields
  <1>4. After(b, c) \in Seq(T) /\ Len(After(b, c)) = Len(b) - c /\ Len(After(b, c)) \in Nat
    BY <1>2, <1>3, SplitIs
  <1>5. PICK l \in Nat, x \in Nat, m \in Nat : l = Len(b) /\ x = Len(rest) /\ x = l - c /\ m = d.room
    <2>1. Len(b) \in Nat BY <1>3
    <2>2. QED BY <1>1, <1>3, <1>4, <2>1
  <1>6. n = Least(m, x) /\ o = IF m < x THEN c + n ELSE 0 BY <1>1, <1>5
  <1>7. n \in Nat /\ n <= m /\ n <= x /\ (~(m < x) => n = x) /\ o \in Nat /\ o <= l
    BY <1>2, <1>3, <1>5, <1>6 DEF Least
  <1>8. PICK f : f = [d EXCEPT !.offset = o] OBVIOUS
  <1>9. /\ f \in DecTypes(T) /\ f.src = d.src /\ f.pending = d.pending /\ f.seq = d.seq
        /\ f.finalized = d.finalized /\ f.skip = d.skip /\ f.left = d.left /\ f.out = d.out
        /\ f.status = d.status /\ f.buffer = d.buffer /\ f.offset = o
        /\ f.version = d.version /\ f.room = d.room
    BY <1>2, <1>7, <1>8 DEF DecTypes
  <1>10. DecAt(j, w, f, rest)
    <2>1. f.room <= IF d.skip > 0 THEN d.skip ELSE d.left BY <1>2, <1>9 DEF DecAt, Limited
    <2>2. f.status # "eof" BY <1>9
    <2>3. f \in DecTypes(Toks(j)) BY <1>1, <1>9
    <2>4. QED BY <1>2, <1>9, <2>1, <2>2, <2>3, SameAt
  <1>11. e = Given(f, Upto(rest, n)) BY <1>8
  <1>12. DecAt(j, w, e, After(rest, n)) /\ e.buffer = b /\ e.offset = o
    <2>1. f.status = "open" /\ n <= Len(rest) /\ n <= f.room BY <1>5, <1>7, <1>9
    <2>2. /\ DecAt(j, w, Given(f, Upto(rest, n)), After(rest, n))
          /\ Given(f, Upto(rest, n)).buffer = f.buffer /\ Given(f, Upto(rest, n)).offset = f.offset
      BY <1>7, <1>10, <2>1, GivenAt
    <2>3. QED BY <1>1, <1>9, <1>11, <2>2
  <1>13. Rest(e) = After(rest, n)
    <2>1. CASE m < x
      <3>1. o = c + n /\ o > 0 BY <1>1, <1>3, <1>6, <1>7, <2>1
      <3>2. e.offset > 0 BY <1>12, <3>1
      <3>3. Rest(e) = After(e.buffer, e.offset) BY <3>2, Zenon DEF Rest
      <3>4. After(After(b, c), n) = After(b, c + n)
        <4>1. c <= Len(b) /\ n <= Len(b) - c BY <1>2, <1>5, <1>7
        <4>2. QED BY <1>3, <1>7, <4>1, AfterAfter
      <3>5. QED BY <1>1, <1>12, <3>1, <3>3, <3>4
    <2>2. CASE ~(m < x)
      <3>1. o = 0 /\ n = Len(rest) BY <1>5, <1>6, <1>7, <2>2
      <3>2. ~(e.offset > 0) BY <1>12, <3>1
      <3>3. Rest(e) = <<>> BY <3>2, Zenon DEF Rest
      <3>4. rest \in Seq(T) BY <1>1, <1>4
      <3>5. After(rest, n) = Part(rest, n, Len(rest)) BY UptoIs
      <3>6. Part(rest, n, n) = <<>>
        <4>1. n <= Len(rest) BY <1>5, <1>7
        <4>2. QED BY <1>7, <3>4, <4>1, NoPart
      <3>7. QED BY <3>1, <3>3, <3>5, <3>6
    <2>3. QED BY <2>1, <2>2
  <1>14. e.offset <= Len(e.buffer) BY <1>5, <1>7, <1>12
  <1>15. QED BY <1>12, <1>13, <1>14 DEF DecOk

\* Nothing is left of a package that was given whole.
LEMMA AllGiven ==
  ASSUME NEW T, NEW r \in Seq(T), NEW n \in Nat, n = Len(r)
  PROVE  Upto(r, n) = r /\ After(r, n) = <<>>
  <1>1. Upto(r, n) = Part(r, 0, n) /\ After(r, n) = Part(r, n, Len(r)) BY UptoIs
  <1>2. Part(r, 0, Len(r)) = r BY WholePart
  <1>3. Part(r, n, n) = <<>>
    <2>1. n <= Len(r) OBVIOUS
    <2>2. QED BY <2>1, NoPart
  <1>4. QED BY <1>1, <1>2, <1>3

\* The package that the reader takes.
LEMMA FetchedIs ==
  ASSUME NEW j, NEW d \in DecTypes(Toks(j)), d.src # <<>>, Opens(d, Fetched(d))
  PROVE  \E n \in Nat : /\ n <= Len(d.src) /\ Fetched(d) = Upto(d.src, n) /\ Len(Fetched(d)) = n /\ n > 3
                        /\ d.version = 20 => n = Least(Len(d.src), MaxPackageSize)
  <1>1. PICK T, s, p : T = Toks(j) /\ s = d.src /\ p = Fetched(d) OBVIOUS
  <1>2. s \in Seq(T) /\ s # <<>> BY <1>1, DecFields
  <1>3. PICK l \in Nat : l = Len(s) /\ l > 0 BY <1>2
  <1>4. PICK z \in Int : p = Upto(s, Least(Len(s), z)) /\ (d.version = 20 => z = MaxPackageSize)
    <2>1. MaxPackageSize \in Int BY DAREAssumption DEF MaxPackageSize, HeaderSize, TagSize
    <2>2. HeaderSize + s[1].len + TagSize \in Int
      <3>1. 1 \in 1 .. Len(s) BY <1>3
      <3>2. s[1] \in Toks(j) BY <1>1, <1>2, <3>1
      <3>3. PICK q : q = s[1] OBVIOUS
      <3>4. q.len \in Int BY <3>2, <3>3 DEF Toks
      <3>5. QED BY <3>3, <3>4 DEF HeaderSize, TagSize
    <2>3. PICK c \in BOOLEAN : c <=> (d.version = 20 \/ d.src[1].kind # "lead") BY Zenon
    <2>4. p = Upto(s, Least(Len(s), IF c THEN MaxPackageSize ELSE HeaderSize + s[1].len + TagSize))
      BY <1>1, <2>3, Zenon DEF Fetched
    <2>5. CASE c
      <3>1. p = Upto(s, Least(Len(s), MaxPackageSize)) BY <2>4, <2>5, Zenon
      <3>2. QED BY <2>1, <3>1
    <2>6. CASE ~c
      <3>1. p = Upto(s, Least(Len(s), HeaderSize + s[1].len + TagSize)) BY <2>4, <2>6, Zenon
      <3>2. d.version # 20 BY <2>3, <2>6
      <3>3. QED BY <2>2, <3>1, <3>2
    <2>7. QED BY <2>5, <2>6
  <1>5. PICK n \in Int : n = Least(l, z) /\ n <= l BY DEF Least
  <1>6. p = Upto(s, n) BY <1>3, <1>4, <1>5
  <1>7. Len(p) > 3
    <2>1. Len(p) > HeaderSize + TagSize BY <1>1 DEF Opens
    <2>2. QED BY <2>1 DEF HeaderSize, TagSize
  <1>8. n \in Nat
    <2>1. CASE n < 0
      <3>1. 1 \in Int /\ n \in Int /\ n < 1 BY <2>1
      <3>2. SubSeq(s, 1, n) = <<>> BY <3>1, SubSeqEmpty
      <3>3. Len(<<>>) = 0 OBVIOUS
      <3>4. FALSE
        <4>1. p = <<>> BY <1>6, <3>2, Zenon DEF Upto
        <4>2. Len(p) = 0 BY <3>3, <4>1, Zenon
        <4>3. QED BY <1>7, <4>2
      <3>5. QED BY <3>4
    <2>2. QED BY <2>1
  <1>9. Len(p) = n
    <2>1. n <= Len(s) BY <1>3, <1>5
    <2>2. Len(Upto(s, n)) = n BY <1>2, <1>8, <2>1, SplitIs
    <2>3. QED BY <1>6, <2>2
  <1>10. QED
    <2>1. n \in Nat /\ n <= Len(s) /\ p = Upto(s, n) /\ Len(p) = n /\ n > 3
      BY <1>3, <1>5, <1>6, <1>7, <1>8, <1>9
    <2>2. d.version = 20 => n = Least(Len(s), MaxPackageSize) BY <1>3, <1>4, <1>5
    <2>3. QED BY <1>1, <2>1, <2>2

\* Opening it.
LEMMA OpenedFields ==
  ASSUME NEW j, NEW d \in DecTypes(Toks(j)), NEW p, p[2] \in Toks(j),
         NEW s \in Seq(Toks(j)), s = After(d.src, Len(p))
  PROVE  /\ Opened(d, p) \in DecTypes(Toks(j)) /\ Opened(d, p).src = s
         /\ Opened(d, p).pending = d.pending /\ Opened(d, p).seq = d.seq + 1
         /\ Opened(d, p).finalized = (d.version = 20 /\ p[2].final)
         /\ Opened(d, p).skip = d.skip /\ Opened(d, p).left = d.left /\ Opened(d, p).out = d.out
         /\ Opened(d, p).status = d.status /\ Opened(d, p).buffer = d.buffer
         /\ Opened(d, p).offset = d.offset /\ Opened(d, p).version = d.version
         /\ Opened(d, p).room = d.room
  <1>1. PICK t, T : t = p[2] /\ T = Toks(j) OBVIOUS
  <1>2. t.nonce \in Int /\ t.final \in BOOLEAN BY <1>1 DEF Toks
  <1>3. PICK x \in Int : x = p[2].nonce BY <1>1, <1>2
  <1>4. PICK c \in BOOLEAN : c = (d.version = 20 /\ p[2].final)
    <2>1. (d.version = 20 /\ p[2].final) \in BOOLEAN BY Zenon
    <2>2. QED BY <2>1, Zenon
  <1>5. PICK k \in Nat : k = d.seq + 1 BY DecFields
  <1>6. Opened(d, p) = [d EXCEPT !.src = s, !.seq = k, !.refNonce = x, !.finalized = c]
    <2>1. Opened(d, p) = [d EXCEPT !.src = After(@, Len(p)), !.seq = @ + 1, !.refNonce = p[2].nonce,
            !.finalized = d.version = 20 /\ p[2].final]
      BY Zenon DEF Opened
    <2>2. QED BY <1>3, <1>4, <1>5, <2>1
  <1>7. PICK e : e = Opened(d, p) OBVIOUS
  <1>8. PICK a : a = [d EXCEPT !.src = s, !.seq = k] OBVIOUS
  <1>9. /\ a \in DecTypes(T) /\ a.src = s /\ a.pending = d.pending /\ a.seq = k
        /\ a.skip = d.skip /\ a.left = d.left /\ a.out = d.out
        /\ a.status = d.status /\ a.buffer = d.buffer /\ a.offset = d.offset
        /\ a.version = d.version /\ a.room = d.room
    BY <1>1, <1>8 DEF DecTypes
  <1>10. e = [a EXCEPT !.refNonce = x, !.finalized = c] BY <1>1, <1>6, <1>7, <1>8 DEF DecTypes
  <1>11. /\ e \in DecTypes(T) /\ e.src = s /\ e.pending = d.pending /\ e.seq = k /\ e.finalized = c
        /\ e.skip = d.skip /\ e.left = d.left /\ e.out = d.out
        /\ e.status = d.status /\ e.buffer = d.buffer /\ e.offset = d.offset
        /\ e.version = d.version /\ e.room = d.room
    BY <1>9, <1>10 DEF DecTypes
  <1>12. QED BY <1>1, <1>4, <1>5, <1>7, <1>11

\* The reader opens a package.
LEMMA ReaderOpens ==
  ASSUME NEW j, Job(j), NEW w, NEW d, DecAt(j, w, d, <<>>), d.status = "open", j.to # "writer",
         d.src # <<>>, NEW p, p = Fetched(d), Opens(d, p)
  PROVE  /\ DecAt(j, w, Opened(d, p), Payload(p))
         /\ Payload(p) \in Seq(Toks(j)) /\ Len(Payload(p)) \in Nat /\ Len(Payload(p)) <= MaxPayloadSize
         /\ Opened(d, p).status = "open" /\ Opened(d, p).room = d.room /\ Opened(d, p).skip = d.skip
         /\ Opened(d, p).offset = d.offset /\ Opened(d, p).buffer = d.buffer
  <1>1. PICK T : T = Toks(j) OBVIOUS
  <1>2. d \in DecTypes(T) /\ Limited(j, d, <<>>) /\ Numbered(j, w, d) BY <1>1 DEF DecAt, Aligned
  <1>3. PICK n \in Nat : /\ n <= Len(d.src) /\ p = Upto(d.src, n) /\ Len(p) = n /\ n > 3
                         /\ d.version = 20 => n = Least(Len(d.src), MaxPackageSize)
    BY <1>1, <1>2, FetchedIs
  <1>4. d.src \in Seq(T) /\ d.seq \in Nat BY <1>2, DecFields
  <1>5. d.pending = <<>> BY <1>2 DEF Limited
  <1>6. Ahead(d) = d.src
    <2>1. <<>> \o d.src = d.src BY <1>4, ConcatEmptySeq
    <2>2. QED BY <1>5, <2>1 DEF Ahead
  <1>7. n <= Len(Ahead(d)) /\ p = Upto(Ahead(d), n) /\ (d.version = 20 => n = Least(Len(Ahead(d)), MaxPackageSize))
    BY <1>3, <1>6
  <1>8. p[2] \in Toks(j) /\ d.seq \in Numbers(j) /\ Payload(p) = Piece(j, d.seq)
    BY <1>1, <1>2, <1>7, TakenIs
  <1>9. PICK s : s = After(d.src, n) OBVIOUS
  <1>10. s \in Seq(T) /\ s = After(d.src, Len(p))
    <2>1. After(d.src, n) \in Seq(T) BY <1>3, <1>4, SplitIs
    <2>2. QED BY <1>3, <1>9, <2>1
  <1>11. PICK e : e = Opened(d, p) OBVIOUS
  <1>12. /\ e \in DecTypes(Toks(j)) /\ e.src = s
         /\ e.pending = d.pending /\ e.seq = d.seq + 1
         /\ e.finalized = (d.version = 20 /\ p[2].final)
         /\ e.skip = d.skip /\ e.left = d.left /\ e.out = d.out
         /\ e.status = d.status /\ e.buffer = d.buffer
         /\ e.offset = d.offset /\ e.version = d.version
         /\ e.room = d.room
    BY <1>1, <1>2, <1>8, <1>10, <1>11, OpenedFields
  <1>13. Ahead(e) = After(Ahead(d), n)
    <2>1. <<>> \o s = s BY <1>10, ConcatEmptySeq
    <2>2. Ahead(e) = s BY <1>5, <1>12, <2>1 DEF Ahead
    <2>3. QED BY <1>6, <1>9, <2>2
  <1>14. e.finalized <=> (d.version = 20 /\ p[2].final) BY <1>12
  <1>15. j.to # "writer" => e.pending = <<>> BY <1>5, <1>12
  <1>16. DecAt(j, w, e, Piece(j, d.seq)) BY <1>7, <1>12, <1>13, <1>14, <1>15, OpenedAt
  <1>17. Piece(j, d.seq) \in Seq(T) /\ Len(Piece(j, d.seq)) \in Nat /\ Len(Piece(j, d.seq)) <= MaxPayloadSize
    <2>1. Piece(j, d.seq) \in Seq(Toks(j)) /\ Len(Piece(j, d.seq)) \in Nat /\ Len(Piece(j, d.seq)) <= j.size
      BY <1>4, PieceIs
    <2>2. j.size \in Nat /\ j.size <= MaxPayloadSize /\ MaxPayloadSize \in Nat BY JobIs
    <2>3. QED BY <1>1, <2>1, <2>2
  <1>18. QED BY <1>1, <1>8, <1>11, <1>12, <1>16, <1>17

\* It gives all of it to the caller.
LEMMA WholeOk ==
  ASSUME NEW j, Job(j), NEW w, NEW d, DecOk(j, w, d), d.status = "open", j.to # "writer",
         d.offset = 0, d.src # <<>>, NEW p, p = Fetched(d), Opens(d, p), d.room >= MaxPayloadSize
  PROVE  DecOk(j, w, Given(Opened(d, p), Payload(p)))
  <1>1. PICK T, f, r : T = Toks(j) /\ f = Opened(d, p) /\ r = Payload(p) OBVIOUS
  <1>2. Rest(d) = <<>>
    <2>1. ~(d.offset > 0) OBVIOUS
    <2>2. QED BY <2>1, Zenon DEF Rest
  <1>3. DecAt(j, w, d, <<>>) BY <1>2 DEF DecOk
  <1>4. /\ DecAt(j, w, f, r) /\ r \in Seq(T) /\ Len(r) \in Nat /\ Len(r) <= MaxPayloadSize
        /\ f.status = "open" /\ f.room = d.room /\ f.offset = d.offset /\ f.buffer = d.buffer
    BY <1>1, <1>3, ReaderOpens
  <1>5. PICK n \in Nat : n = Len(r) /\ n <= f.room
    <2>1. d.room \in Nat BY <1>3, DecFields DEF DecAt, Aligned
    <2>2. Len(r) <= f.room BY <1>4, <2>1, DAREAssumption
    <2>3. QED BY <1>4, <2>2
  <1>6. Upto(r, n) = r /\ After(r, n) = <<>> BY <1>4, <1>5, AllGiven
  <1>7. PICK e : e = Given(f, r) OBVIOUS
  <1>8. DecAt(j, w, e, <<>>) /\ e.buffer = f.buffer /\ e.offset = f.offset
    <2>1. n <= Len(r) BY <1>5
    <2>2. /\ DecAt(j, w, Given(f, Upto(r, n)), After(r, n))
          /\ Given(f, Upto(r, n)).buffer = f.buffer /\ Given(f, Upto(r, n)).offset = f.offset
      BY <1>4, <1>5, <2>1, GivenAt
    <2>3. QED BY <1>6, <1>7, <2>2
  <1>9. e.offset = 0 /\ e.offset <= Len(e.buffer)
    <2>1. d.offset <= Len(d.buffer) BY DEF DecOk
    <2>2. QED BY <1>4, <1>8, <2>1
  <1>10. Rest(e) = <<>>
    <2>1. ~(e.offset > 0) BY <1>9
    <2>2. QED BY <2>1, Zenon DEF Rest
  <1>11. DecOk(j, w, e) BY <1>8, <1>9, <1>10 DEF DecOk
  <1>12. QED BY <1>1, <1>7, <1>11


\* The caller gets a part of it, and the buffer keeps the rest.
LEMMA KeptOk ==
  ASSUME NEW j, Job(j), NEW w, NEW g, NEW r, DecAt(j, w, g, r), g.status = "open", j.to # "writer",
         NEW n \in Nat, n <= Len(r), n <= g.room,
         NEW o \in Nat, (o > 0 /\ o = n) \/ (o = 0 /\ n = Len(r)),
         g.buffer = r, g.offset = o
  PROVE  DecOk(j, w, [Given(g, Upto(r, n)) EXCEPT !.room = 0])
  <1>1. r \in Seq(Toks(j)) BY DEF DecAt, Aligned
  <1>2. PICK h, e, q : h = Given(g, Upto(r, n)) /\ e = [h EXCEPT !.room = 0] /\ q = After(r, n)
    OBVIOUS
  <1>3. DecAt(j, w, h, q) /\ h.buffer = r /\ h.offset = o
    <2>1. n <= Len(r) /\ n <= g.room OBVIOUS
    <2>2. /\ DecAt(j, w, Given(g, Upto(r, n)), After(r, n))
          /\ Given(g, Upto(r, n)).buffer = g.buffer /\ Given(g, Upto(r, n)).offset = g.offset
          /\ Given(g, Upto(r, n)).room = g.room - n
      BY <2>1, GivenAt
    <2>3. QED BY <1>2, <2>2
  <1>4. DecAt(j, w, e, q) /\ e.buffer = r /\ e.offset = o
    <2>1. DecAt(j, w, e, q) /\ e.buffer = h.buffer /\ e.offset = h.offset /\ e.room = 0
      BY <1>2, <1>3, FullAt
    <2>2. QED BY <1>3, <2>1
  <1>5. Rest(e) = q
    <2>1. CASE o > 0 /\ o = n
      <3>1. e.offset > 0 /\ e.offset = n BY <1>4, <2>1
      <3>2. Rest(e) = After(e.buffer, e.offset) BY <3>1, Zenon DEF Rest
      <3>3. QED BY <1>2, <1>4, <3>1, <3>2
    <2>2. CASE o = 0 /\ n = Len(r)
      <3>1. ~(e.offset > 0) /\ n = Len(r) BY <1>4, <2>2
      <3>2. Rest(e) = <<>> BY <3>1, Zenon DEF Rest
      <3>3. After(r, n) = <<>> BY <1>1, <3>1, AllGiven
      <3>4. QED BY <1>2, <3>2, <3>3
    <2>3. QED BY <2>1, <2>2
  <1>6. e.offset <= Len(e.buffer)
    <2>1. PICK x \in Nat : x = Len(r) BY <1>1
    <2>2. o <= x BY <2>1
    <2>3. QED BY <1>4, <2>1, <2>2
  <1>7. DecOk(j, w, e) BY <1>4, <1>5, <1>6 DEF DecOk
  <1>8. QED BY <1>2, <1>7

\* A stream of version 2.0 ends with the last package.
LEMMA EOFIsWanted ==
  ASSUME NEW j, Job(j), NEW w, NEW d, DecOk(j, w, d), d.status = "open", j.to # "writer",
         d.offset = 0, d.room > 0, d.finalized
  PROVE  Len(d.out) = WantedLen(j)
  <1>1. Rest(d) = <<>>
    <2>1. ~(d.offset > 0) OBVIOUS
    <2>2. QED BY <2>1, Zenon DEF Rest
  <1>2. Aligned(j, d, <<>>) /\ Limited(j, d, <<>>) /\ Ended(j, d) BY <1>1 DEF DecOk, DecAt
  <1>3. PICK T : T = Toks(j) OBVIOUS
  <1>4. d \in DecTypes(T) BY <1>2, <1>3 DEF Aligned
  <1>5. PICK y \in Nat, q \in Nat, l \in Nat, m \in Nat :
          y = Len(d.out) /\ q = d.skip /\ l = d.left /\ m = d.room
    BY <1>4, DecFields
  <1>6. PICK z \in Nat, c \in Nat, t \in Nat : z = Len(j.plain) /\ c = j.off /\ t = j.length
    <2>1. Len(j.plain) \in Nat BY PlainIs
    <2>2. j.off \in Nat /\ j.length \in Nat BY JobIs
    <2>3. QED BY <2>1, <2>2
  <1>7. c + y = z - 0 + q /\ c + y <= z
    <2>1. Edge(j, d.seq) = z BY <1>2, <1>6 DEF Ended
    <2>2. Len(<<>>) = 0 OBVIOUS
    <2>3. QED BY <1>2, <1>5, <1>6, <2>1, <2>2 DEF Aligned
  <1>8. q = 0 /\ c + y = z BY <1>7
  <1>9. m <= l /\ m > 0
    <2>1. ~(d.skip > 0) BY <1>5, <1>8
    <2>2. QED BY <1>2, <1>5, <2>1 DEF Limited
  <1>10. CASE j.to \in {"reader", "writer"}
    <2>1. j.off = 0 BY <1>10, JobIs
    <2>2. QED BY <1>5, <1>6, <1>8, <1>10, <2>1 DEF WantedLen
  <1>11. CASE j.to \notin {"reader", "writer"}
    <2>1. j.off + j.length <= Len(j.plain) BY <1>11, JobIs
    <2>2. l + y = t BY <1>2, <1>5, <1>6, <1>11 DEF Limited
    <2>3. FALSE BY <1>6, <1>8, <1>9, <2>1, <2>2
    <2>4. QED BY <2>3
  <1>12. QED BY <1>10, <1>11

\* A writer has nothing in the buffer.
LEMMA WriterRest ==
  ASSUME NEW j, NEW w, NEW d, DecOk(j, w, d), j.to = "writer"
  PROVE  /\ DecAt(j, w, d, <<>>) /\ d \in DecTypes(Toks(j))
         /\ d.room = 0 /\ d.offset = 0 /\ d.offset <= Len(d.buffer)
  <1>1. d.offset = 0 /\ d.room = 0 /\ d.offset <= Len(d.buffer) BY DEF DecOk
  <1>2. Rest(d) = <<>>
    <2>1. ~(d.offset > 0) BY <1>1
    <2>2. QED BY <2>1, Zenon DEF Rest
  <1>3. DecAt(j, w, d, <<>>) BY <1>2 DEF DecOk
  <1>4. QED BY <1>1, <1>3 DEF DecAt, Aligned

\* A writer that takes or opens something.
LEMMA WriterOk ==
  ASSUME NEW j, NEW w, NEW d, DecAt(j, w, d, <<>>), d.room = 0, d.offset = 0, d.offset <= Len(d.buffer)
  PROVE  DecOk(j, w, d)
  <1>1. Rest(d) = <<>>
    <2>1. ~(d.offset > 0) OBVIOUS
    <2>2. QED BY <2>1, Zenon DEF Rest
  <1>2. QED BY <1>1 DEF DecOk

\* More of the stream is written.
LEMMA WrittenOk ==
  ASSUME NEW j, NEW w, NEW d, DecOk(j, w, d), d.status = "open", j.to = "writer",
         NEW n \in Nat, n <= Len(d.src),
         NEW e, e = [d EXCEPT !.src = After(@, n), !.pending = @ \o Upto(d.src, n)]
  PROVE  DecOk(j, w, e)
  <1>1. PICK T, s, p : T = Toks(j) /\ s = After(d.src, n) /\ p = d.pending \o Upto(d.src, n) OBVIOUS
  <1>2. /\ DecAt(j, w, d, <<>>) /\ d \in DecTypes(T)
        /\ d.room = 0 /\ d.offset = 0 /\ d.offset <= Len(d.buffer)
    BY <1>1, WriterRest
  <1>3. d.src \in Seq(T) /\ d.pending \in Seq(T) BY <1>2, DecFields
  <1>4. /\ Upto(d.src, n) \in Seq(T) /\ s \in Seq(T) /\ Upto(d.src, n) \o s = d.src
    <2>1. n <= Len(d.src) OBVIOUS
    <2>2. /\ Upto(d.src, n) \in Seq(T) /\ After(d.src, n) \in Seq(T)
          /\ Upto(d.src, n) \o After(d.src, n) = d.src
      BY <1>3, <2>1, SplitIs
    <2>3. QED BY <1>1, <2>2
  <1>5. p \in Seq(T) BY <1>1, <1>3, <1>4, ConcatProperties
  <1>6. e = [d EXCEPT !.src = s, !.pending = p] BY <1>1, <1>2 DEF DecTypes
  <1>7. /\ e \in DecTypes(T) /\ e.src = s /\ e.pending = p /\ e.seq = d.seq
        /\ e.finalized = d.finalized /\ e.skip = d.skip /\ e.left = d.left /\ e.out = d.out
        /\ e.status = d.status /\ e.buffer = d.buffer /\ e.offset = d.offset
        /\ e.version = d.version /\ e.room = d.room
    BY <1>2, <1>4, <1>5, <1>6 DEF DecTypes
  <1>8. Ahead(e) = Ahead(d)
    <2>1. PICK a, b, c : a = d.pending /\ b = Upto(d.src, n) /\ c = s OBVIOUS
    <2>2. a \in Seq(T) /\ b \in Seq(T) /\ c \in Seq(T) BY <1>3, <1>4, <2>1
    <2>3. (a \o b) \o c = a \o (b \o c) BY <2>2, ConcatAssociative
    <2>4. b \o c = d.src BY <1>4, <2>1
    <2>5. Ahead(e) = (a \o b) \o c BY <1>1, <1>7, <2>1 DEF Ahead
    <2>6. QED BY <2>1, <2>3, <2>4, <2>5 DEF Ahead
  <1>9. Aligned(j, e, <<>>)
    <2>1. Aligned(j, d, <<>>) BY <1>2 DEF DecAt
    <2>2. QED BY <1>1, <1>7, <2>1 DEF Aligned
  <1>10. Limited(j, e, <<>>)
    <2>1. Limited(j, d, <<>>) BY <1>2 DEF DecAt
    <2>2. QED BY <1>7, <1>8, <2>1 DEF Limited
  <1>11. Numbered(j, w, e)
    <2>1. Numbered(j, w, d) BY <1>2 DEF DecAt
    <2>2. QED BY <1>7, <1>8, <2>1, StillNumbered
  <1>12. Ended(j, e)
    <2>1. Ended(j, d) BY <1>2 DEF DecAt
    <2>2. QED BY <1>7, <2>1 DEF Ended
  <1>13. DecAt(j, w, e, <<>>) BY <1>9, <1>10, <1>11, <1>12 DEF DecAt
  <1>14. QED BY <1>2, <1>7, <1>13, WriterOk

\* The writer opens a package: e is the writer without giving its data on, f when it did.
LEMMA WriterOpens ==
  ASSUME NEW j, Job(j), NEW w, NEW d, DecOk(j, w, d), d.status = "open", j.to = "writer",
         NEW n \in Nat, n <= Len(d.pending), NEW p, p = Upto(d.pending, n), Opens(d, p),
         d.version = 20 => n = Least(Len(Ahead(d)), MaxPackageSize),
         NEW f \in DecTypes(Toks(j)), f.src = d.src, f.pending = After(d.pending, n), f.seq = d.seq + 1,
         f.finalized <=> (d.version = 20 /\ p[2].final),
         f.version = d.version, f.room = d.room, f.skip = d.skip, f.left = d.left,
         f.out = d.out \o Payload(p), f.status \in {"open", "eof"}, f.offset = d.offset, f.buffer = d.buffer
  PROVE  DecOk(j, w, f) /\ d.version = j.version /\ p[2] \in Toks(j)
  <1>1. PICK T, q, r : T = Toks(j) /\ q = After(d.pending, n) /\ r = Payload(p) OBVIOUS
  <1>2. /\ DecAt(j, w, d, <<>>) /\ d \in DecTypes(T)
        /\ d.room = 0 /\ d.offset = 0 /\ d.offset <= Len(d.buffer)
    BY <1>1, WriterRest
  <1>3. d.src \in Seq(T) /\ d.pending \in Seq(T) /\ d.out \in Seq(T) /\ Len(d.pending) \in Nat /\ Len(d.src) \in Nat
    <2>1. d.src \in Seq(T) /\ d.pending \in Seq(T) /\ d.out \in Seq(T) BY <1>2, DecFields
    <2>2. PICK a, b : a = d.src /\ b = d.pending OBVIOUS
    <2>3. Len(a) \in Nat /\ Len(b) \in Nat BY <2>1, <2>2
    <2>4. QED BY <2>1, <2>2, <2>3
  <1>4. PICK a, b, s : a = Ahead(d) /\ b = d.pending /\ s = d.src OBVIOUS
  <1>5. /\ a = b \o s /\ b \in Seq(T) /\ s \in Seq(T) /\ n <= Len(b) /\ q = After(b, n) /\ p = Upto(b, n)
    BY <1>1, <1>3, <1>4 DEF Ahead
  <1>6. n <= Len(a) /\ p = Upto(a, n) /\ q \o s = After(a, n)
    <2>1. PICK x \in Nat, y \in Nat : x = Len(b) /\ y = Len(s) BY <1>3, <1>4
    <2>2. Len(b \o s) = x + y
      <3>1. Len(b \o s) = Len(b) + Len(s) BY <1>5, JoinIs
      <3>2. QED BY <2>1, <3>1
    <2>3. Part(b \o s, 0, n) = Part(b, 0, n)
      <3>1. 0 <= n /\ n <= Len(b) BY <1>5
      <3>2. QED BY <1>5, <3>1, PartOfFirst
    <2>4. Part(b \o s, n, Len(b) + y) = Part(b, n, Len(b)) \o Part(s, 0, y)
      <3>1. b \in Seq(T) /\ s \in Seq(T) /\ n <= Len(b) /\ y <= Len(s) BY <1>5, <2>1
      <3>2. QED BY <3>1, PartAcross
    <2>5. Part(s, 0, y) = s
      <3>1. Part(s, 0, Len(s)) = s BY <1>5, WholePart
      <3>2. QED BY <2>1, <3>1
    <2>6. Upto(b, n) = Part(b, 0, n) /\ After(b, n) = Part(b, n, Len(b)) BY UptoIs
    <2>7. Upto(a, n) = Part(a, 0, n) /\ After(a, n) = Part(a, n, Len(a)) BY UptoIs
    <2>8. n <= Len(a) BY <1>5, <2>1, <2>2
    <2>9. p = Upto(a, n) BY <1>5, <2>3, <2>6, <2>7
    <2>10. Len(a) = Len(b) + y BY <1>5, <2>1, <2>2
    <2>11. q \o s = After(a, n) BY <1>5, <2>4, <2>5, <2>6, <2>7, <2>10
    <2>12. QED BY <2>8, <2>9, <2>11
  <1>7. n <= Len(Ahead(d)) /\ p = Upto(Ahead(d), n) BY <1>4, <1>6
  <1>8. d.version = j.version /\ p[2] \in Toks(j) /\ Payload(p) = Piece(j, d.seq) /\ d.seq \in Nat
    <2>1. Numbered(j, w, d) BY <1>2 DEF DecAt
    <2>2. d.version = j.version /\ p[2] \in Toks(j) /\ Payload(p) = Piece(j, d.seq)
      BY <1>1, <1>2, <1>7, <2>1, TakenIs
    <2>3. QED BY <1>2, <2>2, DecFields
  <1>9. f \in DecTypes(T) /\ "open" \in {"open", "eof"} BY <1>1
  <1>10. PICK e : e = [f EXCEPT !.out = d.out, !.status = "open"] OBVIOUS
  <1>11. /\ e \in DecTypes(T) /\ e.src = f.src /\ e.pending = f.pending /\ e.seq = f.seq
        /\ e.finalized = f.finalized /\ e.skip = f.skip /\ e.left = f.left /\ e.out = d.out
        /\ e.status = "open" /\ e.buffer = f.buffer /\ e.offset = f.offset
        /\ e.version = f.version /\ e.room = f.room
    BY <1>3, <1>9, <1>10 DEF DecTypes
  <1>12. Ahead(e) = After(Ahead(d), n)
    <2>1. Ahead(e) = q \o s BY <1>1, <1>4, <1>11 DEF Ahead
    <2>2. QED BY <1>4, <1>6, <2>1
  <1>13. DecAt(j, w, e, Piece(j, d.seq))
    <2>1. e \in DecTypes(Toks(j)) /\ (j.to # "writer" => e.pending = <<>>) BY <1>1, <1>11
    <2>2. /\ e.seq = d.seq + 1 /\ (e.finalized <=> (d.version = 20 /\ p[2].final))
          /\ e.version = d.version /\ e.room = d.room /\ e.skip = d.skip /\ e.left = d.left
          /\ e.out = d.out /\ e.status = d.status
      BY <1>11
    <2>3. QED BY <1>2, <1>7, <1>12, <2>1, <2>2, OpenedAt
  <1>14. DecAt(j, w, f, <<>>)
    <2>1. Ahead(f) = Ahead(e) BY <1>11 DEF Ahead
    <2>2. f.out = e.out \o Piece(j, d.seq) BY <1>8, <1>11
    <2>3. QED BY <1>11, <1>13, <2>1, <2>2, WriterAt
  <1>15. DecOk(j, w, f) BY <1>2, <1>14, WriterOk
  <1>16. QED BY <1>8, <1>15

\* What came out is right, and at the end all of it did.
Decrypted(j, d) ==
  /\ d.out \in Seq(Toks(j)) /\ j.off + Len(d.out) <= Len(j.plain) /\ Len(d.out) <= WantedLen(j)
  /\ d.out = Part(j.plain, j.off, j.off + Len(d.out))
  /\ (d.status = "eof" /\ d.version = 20 /\ j.to # "writer") => Len(d.out) = WantedLen(j)

\* Decrypting.
DecInv ==
  CASE dec.status = "none" -> dec.out = <<>>
    [] dec.status = "open" -> DecOk(job, wire, dec)
    [] OTHER -> Decrypted(job, dec)

\* What came out of one that goes on.
LEMMA OkIsDecrypted ==
  ASSUME NEW j, Job(j), NEW w, NEW d, DecOk(j, w, d)
  PROVE  Decrypted(j, d)
  <1>1. Aligned(j, d, Rest(d)) /\ Limited(j, d, Rest(d)) /\ Ended(j, d) BY DEF DecOk, DecAt
  <1>2. d \in DecTypes(Toks(j)) BY <1>1 DEF Aligned
  <1>3. d.out \in Seq(Toks(j)) /\ d.left \in Nat /\ Len(d.out) \in Nat BY <1>2, DecFields
  <1>4. Len(d.out) <= WantedLen(j)
    <2>1. CASE j.to \in {"reader", "writer"}
      <3>1. j.off = 0 /\ j.off + Len(d.out) <= Len(j.plain) BY <1>1, <2>1, JobIs DEF Aligned
      <3>2. QED BY <1>3, <2>1, <3>1 DEF WantedLen
    <2>2. CASE j.to \notin {"reader", "writer"}
      <3>1. d.left + Len(d.out) = j.length BY <1>1, <2>2 DEF Limited
      <3>2. j.length \in Nat BY JobIs
      <3>3. Len(d.out) <= j.length BY <1>3, <3>1, <3>2
      <3>4. QED BY <2>2, <3>3 DEF WantedLen
    <2>3. QED BY <2>1, <2>2
  <1>5. QED BY <1>1, <1>3, <1>4 DEF Decrypted, Aligned, Ended

\* One step of decrypting.
LEMMA DecStepInv ==
  ASSUME EncInv, DecInv, dec.status = "open", UNCHANGED <<job, enc, wire, same>>,
         DecOk(job, wire, dec')
  PROVE  DecInv'
  <1>1. Job(job) /\ wire' = wire /\ job' = job BY DEF EncInv
  <1>2. Decrypted(job, dec') BY <1>1, OkIsDecrypted
  <1>3. Decrypted(job', dec') /\ DecOk(job', wire', dec') BY <1>1, <1>2
  <1>4. dec'.status # "none"
    <2>1. dec' \in DecTypes(Toks(job)) BY DEF DecOk, DecAt, Aligned
    <2>2. QED BY <2>1 DEF DecTypes
  <1>5. QED BY <1>3, <1>4 DEF DecInv

\* Who decrypts goes on.
LEMMA DecIs ==
  ASSUME EncInv, DecInv, dec.status = "open"
  PROVE  /\ DecOk(job, wire, dec) /\ Job(job) /\ dec \in DecTypes(Toks(job))
  <1>1. "open" # "none" OBVIOUS
  <1>2. DecOk(job, wire, dec) BY <1>1 DEF DecInv
  <1>3. QED BY <1>2 DEF EncInv, DecOk, DecAt, Aligned

\* Decrypting fails or ends.
LEMMA DecFailsInv ==
  ASSUME EncInv, DecInv, dec.status = "open", NEW err, err \in Failures, DecFails(err),
         err = "eof" /\ dec.version = 20 /\ job.to # "writer" => Len(dec.out) = WantedLen(job)
  PROVE  DecInv'
  <1>1. DecOk(job, wire, dec) BY DecIs
  <1>2. dec' = [dec EXCEPT !.status = err, !.room = 0] /\ UNCHANGED <<job, enc, wire, same>>
    BY DEF DecFails
  <1>3. DecOk(job, wire, dec') BY <1>1, <1>2, FailOk
  <1>4. QED BY <1>2, <1>3, DecStepInv

\* The first byte is looked at.
LEMMA DecFirstInv ==
  ASSUME EncInv, DecInv, DecFirst
  PROVE  DecInv'
  <1>1. dec.status = "open" /\ dec.version = 0 BY DEF DecFirst
  <1>2. DecOk(job, wire, dec) /\ dec \in DecTypes(Toks(job)) BY <1>1, DecIs
  <1>3. CASE dec.src = <<>>
    <2>1. DecFails("eof") /\ "eof" \in Failures BY <1>3 DEF DecFirst, Failures
    <2>2. QED BY <1>1, <2>1, DecFailsInv
  <1>4. CASE dec.src # <<>> /\ dec.src[1].kind # "lead"
    <2>1. DecFails("unsupported version") /\ "unsupported version" \in Failures /\ "unsupported version" # "eof"
      BY <1>4 DEF DecFirst, Failures
    <2>2. QED BY <1>1, <2>1, DecFailsInv
  <1>5. CASE dec.src # <<>> /\ dec.src[1].kind = "lead"
    <2>1. PICK v : v = dec.src[1].version OBVIOUS
    <2>2. dec' = [dec EXCEPT !.version = v] /\ UNCHANGED <<job, enc, wire, same>>
      BY <1>5, <2>1 DEF DecFirst
    <2>3. v \in Int
      <3>1. PICK s : s = dec.src OBVIOUS
      <3>2. s \in Seq(Toks(job)) /\ s # <<>> BY <1>2, <1>5, <3>1, DecFields
      <3>3. 1 \in 1 .. Len(s) BY <3>2
      <3>4. s[1] \in Toks(job) BY <3>2, <3>3
      <3>5. PICK t : t = s[1] OBVIOUS
      <3>6. t.version \in Int BY <3>4, <3>5 DEF Toks
      <3>7. QED BY <2>1, <3>1, <3>5, <3>6
    <2>4. DecOk(job, wire, dec') BY <1>1, <1>2, <2>2, <2>3, FirstOk
    <2>5. QED BY <1>1, <2>2, <2>4, DecStepInv
  <1>6. QED BY <1>3, <1>4, <1>5

\* A Read begins.
LEMMA DecReadInv ==
  ASSUME EncInv, DecInv, NEW n \in Nat, DecRead(n)
  PROVE  DecInv'
  <1>1. /\ dec.status = "open" /\ job.to # "writer" /\ UNCHANGED <<job, enc, wire, same>>
        /\ dec' = [dec EXCEPT !.room = Least(n, IF dec.skip > 0 THEN dec.skip ELSE dec.left)]
    BY DEF DecRead, Reading
  <1>2. DecOk(job, wire, dec) /\ dec \in DecTypes(Toks(job)) BY <1>1, DecIs
  <1>3. PICK m \in Nat : m = Least(n, IF dec.skip > 0 THEN dec.skip ELSE dec.left)
                         /\ m <= IF dec.skip > 0 THEN dec.skip ELSE dec.left
    <2>1. PICK x \in Nat : x = IF dec.skip > 0 THEN dec.skip ELSE dec.left
      <3>1. dec.skip \in Nat /\ dec.left \in Nat BY <1>2, DecFields
      <3>2. QED BY <3>1
    <2>2. Least(n, x) \in Nat /\ Least(n, x) <= x BY DEF Least
    <2>3. QED BY <2>1, <2>2, Zenon
  <1>4. dec' = [dec EXCEPT !.room = m] BY <1>1, <1>3
  <1>5. DecOk(job, wire, dec') BY <1>1, <1>2, <1>3, <1>4, ReadOk
  <1>6. QED BY <1>1, <1>5, DecStepInv

\* A Read takes what the last one left.
LEMMA DecDrainInv ==
  ASSUME EncInv, DecInv, DecDrain
  PROVE  DecInv'
  <1>1. PICK rest, n, o : rest = After(dec.buffer, dec.offset) /\ n = Least(dec.room, Len(rest))
                          /\ o = IF dec.room < Len(rest) THEN dec.offset + n ELSE 0
    OBVIOUS
  <1>2. /\ dec.status = "open" /\ job.to # "writer" /\ dec.offset > 0 /\ UNCHANGED <<job, enc, wire, same>>
    BY DEF DecDrain, Reading
  <1>3. DecOk(job, wire, dec) /\ Job(job) /\ dec \in DecTypes(Toks(job)) BY <1>2, DecIs
  <1>4. dec' = Given([dec EXCEPT !.offset = o], Upto(rest, n))
    <2>1. dec' = Given([dec EXCEPT !.offset = IF dec.room < Len(rest) THEN @ + n ELSE 0], Upto(rest, n))
      BY <1>1 DEF DecDrain
    <2>2. [dec EXCEPT !.offset = IF dec.room < Len(rest) THEN @ + n ELSE 0] = [dec EXCEPT !.offset = o]
      BY <1>1, <1>3 DEF DecTypes
    <2>3. QED BY <2>1, <2>2, Zenon
  <1>5. DecOk(job, wire, dec') BY <1>1, <1>2, <1>3, <1>4, DrainOk
  <1>6. QED BY <1>2, <1>5, DecStepInv

\* There is nothing more to decrypt.
LEMMA DecEOFInv ==
  ASSUME EncInv, DecInv, DecEOF
  PROVE  DecInv'
  <1>1. dec.status = "open" /\ job.to # "writer" /\ dec.room > 0 /\ dec.offset = 0
    BY DEF DecEOF, Reading
  <1>2. DecOk(job, wire, dec) /\ Job(job) BY <1>1, DecIs
  <1>3. CASE dec.version = 20 /\ ~dec.finalized
    <2>1. DecFails("unexpected EOF") /\ "unexpected EOF" \in Failures /\ "unexpected EOF" # "eof"
      BY <1>3 DEF DecEOF, Failures
    <2>2. QED BY <1>1, <2>1, DecFailsInv
  <1>4. CASE ~(dec.version = 20 /\ ~dec.finalized)
    <2>1. DecFails("eof") /\ "eof" \in Failures BY <1>4 DEF DecEOF, Failures
    <2>2. dec.version = 20 => Len(dec.out) = WantedLen(job) BY <1>1, <1>2, <1>4, EOFIsWanted
    <2>3. QED BY <1>1, <2>1, <2>2, DecFailsInv
  <1>5. QED BY <1>3, <1>4

\* A package does not open.
LEMMA DecTamperedInv ==
  ASSUME EncInv, DecInv, DecTampered
  PROVE  DecInv'
  <1>1. dec.status = "open" /\ DecFails("tampered") BY DEF DecTampered, Reading
  <1>2. "tampered" \in Failures /\ "tampered" # "eof" BY DEF Failures
  <1>3. QED BY <1>1, <1>2, DecFailsInv

\* A Read takes the data of a package as a whole.
LEMMA DecWholeInv ==
  ASSUME EncInv, DecInv, DecWhole
  PROVE  DecInv'
  <1>1. PICK p : p = Fetched(dec) OBVIOUS
  <1>2. /\ dec.status = "open" /\ job.to # "writer" /\ dec.offset = 0 /\ dec.src # <<>> /\ Opens(dec, p)
        /\ dec.room >= MaxPayloadSize /\ UNCHANGED <<job, enc, wire, same>>
        /\ dec' = Given(Opened(dec, p), Payload(p))
    BY <1>1 DEF DecWhole, DecOpens, Reading
  <1>3. DecOk(job, wire, dec) /\ Job(job) BY <1>2, DecIs
  <1>4. DecOk(job, wire, Given(Opened(dec, p), Payload(p))) BY <1>1, <1>2, <1>3, WholeOk
  <1>5. QED BY <1>2, <1>4, DecStepInv

\* A Read takes a part of it.
LEMMA DecPartInv ==
  ASSUME EncInv, DecInv, DecPart
  PROVE  DecInv'
  <1>1. PICK p, r, n, f : p = Fetched(dec) /\ r = Payload(p) /\ n = Least(dec.room, Len(r)) /\ f = Opened(dec, p)
    OBVIOUS
  <1>2. PICK o : o = IF dec.room < Len(r) THEN n ELSE 0 OBVIOUS
  <1>3. PICK g : g = [f EXCEPT !.buffer = r, !.offset = o] OBVIOUS
  <1>4. /\ dec.status = "open" /\ job.to # "writer" /\ dec.offset = 0 /\ dec.src # <<>> /\ Opens(dec, p)
        /\ dec.room > 0 /\ UNCHANGED <<job, enc, wire, same>>
    BY <1>1 DEF DecPart, DecOpens, Reading
  <1>5. dec' = [Given(g, Upto(r, n)) EXCEPT !.room = 0]
    <2>1. dec' = [Given([f EXCEPT !.buffer = r, !.offset = IF dec.room < Len(r) THEN n ELSE 0],
                        Upto(r, n)) EXCEPT !.room = 0]
      BY <1>1 DEF DecPart
    <2>2. QED BY <1>2, <1>3, <2>1
  <1>6. DecOk(job, wire, dec) /\ Job(job) /\ dec \in DecTypes(Toks(job)) BY <1>4, DecIs
  <1>7. Rest(dec) = <<>>
    <2>1. ~(dec.offset > 0) BY <1>4
    <2>2. QED BY <2>1, Zenon DEF Rest
  <1>8. DecAt(job, wire, dec, <<>>) BY <1>6, <1>7 DEF DecOk
  <1>9. /\ DecAt(job, wire, f, r) /\ r \in Seq(Toks(job)) /\ Len(r) \in Nat
        /\ f.status = "open" /\ f.room = dec.room
    BY <1>1, <1>4, <1>6, <1>8, ReaderOpens
  <1>10. PICK m \in Nat, x \in Nat : m = dec.room /\ x = Len(r) BY <1>6, <1>9, DecFields
  <1>11. /\ n \in Nat /\ n <= x /\ n <= m
         /\ o \in Nat /\ ((o > 0 /\ o = n) \/ (o = 0 /\ n = x))
    <2>1. n = Least(m, x) /\ o = (IF m < x THEN n ELSE 0) /\ m > 0 BY <1>1, <1>2, <1>4, <1>10
    <2>2. QED BY <1>10, <2>1 DEF Least
  <1>12. f \in DecTypes(Toks(job)) /\ Limited(job, f, r) BY <1>9 DEF DecAt, Aligned
  <1>13. /\ g \in DecTypes(Toks(job)) /\ g.src = f.src /\ g.pending = f.pending /\ g.seq = f.seq
        /\ g.finalized = f.finalized /\ g.skip = f.skip /\ g.left = f.left /\ g.out = f.out
        /\ g.status = f.status /\ g.buffer = r /\ g.offset = o
        /\ g.version = f.version /\ g.room = f.room
    BY <1>3, <1>9, <1>11, <1>12 DEF DecTypes
  <1>14. DecAt(job, wire, g, r)
    <2>1. g.room <= IF f.skip > 0 THEN f.skip ELSE f.left BY <1>12, <1>13 DEF Limited
    <2>2. g.status # "eof" BY <1>9, <1>13
    <2>3. QED BY <1>9, <1>13, <2>1, <2>2, SameAt
  <1>15. DecOk(job, wire, [Given(g, Upto(r, n)) EXCEPT !.room = 0])
    <2>1. n <= Len(r) /\ n <= g.room /\ g.status = "open" /\ ((o > 0 /\ o = n) \/ (o = 0 /\ n = Len(r)))
      BY <1>9, <1>10, <1>11, <1>13
    <2>2. QED BY <1>4, <1>6, <1>11, <1>13, <1>14, <2>1, KeptOk
  <1>16. QED BY <1>4, <1>5, <1>15, DecStepInv

\* A Write adds to what is pending.
LEMMA DecWriteInv ==
  ASSUME EncInv, DecInv, NEW n \in Nat, DecWrite(n)
  PROVE  DecInv'
  <1>1. dec.status = "open" /\ job.to = "writer" /\ n <= Len(dec.src) BY DEF DecWrite, Writing
  <1>2. DecOk(job, wire, dec) BY <1>1, DecIs
  <1>3. CASE dec.finalized
    <2>1. DecFails("unexpected data") /\ "unexpected data" \in Failures /\ "unexpected data" # "eof"
      BY <1>3 DEF DecWrite, Failures
    <2>2. QED BY <1>1, <2>1, DecFailsInv
  <1>4. CASE ~dec.finalized
    <2>1. /\ dec' = [dec EXCEPT !.src = After(@, n), !.pending = @ \o Upto(dec.src, n)]
          /\ UNCHANGED <<job, enc, wire, same>>
      BY <1>4 DEF DecWrite
    <2>2. DecOk(job, wire, dec') BY <1>1, <1>2, <2>1, WrittenOk
    <2>3. QED BY <1>1, <2>1, <2>2, DecStepInv
  <1>5. QED BY <1>3, <1>4

\* What comes after anything.
LEMMA AfterFits ==
  ASSUME NEW T, NEW s \in Seq(T), NEW n \in Nat
  PROVE  After(s, n) \in Seq(T)
  <1>1. CASE n <= Len(s) BY <1>1, SplitIs
  <1>2. CASE n > Len(s)
    <2>1. n + 1 \in Int /\ Len(s) \in Int /\ Len(s) < n + 1 BY <1>2
    <2>2. SubSeq(s, n + 1, Len(s)) = <<>> BY <2>1, SubSeqEmpty
    <2>3. PICK q : q = <<>> OBVIOUS
    <2>4. q \in Seq(T) BY <2>3
    <2>5. QED BY <2>2, <2>3, <2>4, Zenon DEF After
  <1>3. QED BY <1>1, <1>2

\* A Write opens a package.
LEMMA DecWriteOpensInv ==
  ASSUME EncInv, DecInv, DecWriteOpens
  PROVE  DecInv'
  <1>1. PICK d, p : d = [dec EXCEPT !.src = dec.pending] /\ p = Fetched(d) OBVIOUS
  <1>2. dec.status = "open" /\ job.to = "writer" /\ Complete(dec) BY DEF DecWriteOpens, Writing
  <1>3. DecOk(job, wire, dec) /\ Job(job) /\ dec \in DecTypes(Toks(job)) BY <1>2, DecIs
  <1>4. CASE ~Opens(dec, p)
    <2>1. DecFails("tampered") BY <1>1, <1>4 DEF DecWriteOpens
    <2>2. "tampered" \in Failures /\ "tampered" # "eof" BY DEF Failures
    <2>3. QED BY <1>2, <2>1, <2>2, DecFailsInv
  <1>5. CASE Opens(dec, p)
    <2>1. PICK T : T = Toks(job) OBVIOUS
    <2>2. dec.pending \in Seq(T) /\ dec.src \in Seq(T) /\ dec.out \in Seq(T)
      BY <1>3, <2>1, DecFields
    <2>3. d \in DecTypes(T) /\ d.src = dec.pending /\ d.version = dec.version /\ d.seq = dec.seq
          /\ d.finalized = dec.finalized /\ d.refNonce = dec.refNonce
      BY <1>1, <1>3, <2>1, <2>2 DEF DecTypes
    <2>4. Opens(d, p) BY <1>5, <2>3 DEF Opens
    <2>5. PICK l \in Nat, c \in Nat : l = Len(dec.pending) /\ c = MaxPackageSize /\ c > 3
      BY <2>2, DAREAssumption DEF MaxPackageSize, HeaderSize, TagSize
    <2>6. l > 0 /\ (dec.version = 20 => l >= c)
      <3>1. PICK b \in BOOLEAN : b <=> (dec.version = 20 \/ Len(dec.pending) <= HeaderSize \/ dec.pending[1].kind # "lead")
        BY Zenon
      <3>2. Len(dec.pending) >= (IF b THEN MaxPackageSize ELSE HeaderSize + dec.pending[1].len + TagSize)
        BY <1>2, <3>1, Zenon DEF Complete
      <3>3. CASE b
        <4>1. l >= c BY <2>5, <3>2, <3>3
        <4>2. QED BY <2>5, <4>1
      <3>4. CASE ~b
        <4>1. ~(l <= HeaderSize) /\ dec.version # 20 BY <2>5, <3>1, <3>4
        <4>2. QED BY <2>5, <4>1 DEF HeaderSize
      <3>5. QED BY <3>3, <3>4
    <2>7. d.src # <<>>
      <3>1. PICK q : q = dec.pending OBVIOUS
      <3>2. Len(q) > 0 BY <2>5, <2>6, <3>1
      <3>3. Len(<<>>) = 0 OBVIOUS
      <3>4. q # <<>> BY <3>2, <3>3
      <3>5. QED BY <2>3, <3>1, <3>4
    <2>8. PICK n \in Nat : /\ n <= Len(d.src) /\ p = Upto(d.src, n) /\ Len(p) = n /\ n > 3
                           /\ d.version = 20 => n = Least(Len(d.src), MaxPackageSize)
      BY <1>1, <2>1, <2>3, <2>4, <2>7, FetchedIs
    <2>9. n <= Len(dec.pending) /\ p = Upto(dec.pending, n) /\ Len(p) = n BY <2>3, <2>8
    <2>10. dec.version = 20 => n = Least(Len(Ahead(dec)), MaxPackageSize)
      <3>1. PICK a, s : a = dec.pending /\ s = dec.src OBVIOUS
      <3>2. Len(a \o s) = Len(a) + Len(s) /\ Len(s) \in Nat BY <2>2, <3>1, JoinIs
      <3>3. PICK x \in Nat : x = Len(Ahead(dec)) /\ x >= l
        <4>1. Len(a) + Len(s) \in Nat /\ Len(a) + Len(s) >= l
          <5>1. PICK y \in Nat : y = Len(s) BY <3>2
          <5>2. Len(a) = l BY <2>5, <3>1
          <5>3. l + y \in Nat /\ l + y >= l OBVIOUS
          <5>4. QED BY <5>1, <5>2, <5>3
        <4>2. Len(Ahead(dec)) = Len(a) + Len(s) BY <3>1, <3>2 DEF Ahead
        <4>3. QED BY <4>1, <4>2
      <3>4. ASSUME dec.version = 20 PROVE n = Least(x, c)
        <4>1. n = Least(l, c) BY <2>3, <2>5, <2>8, <3>4
        <4>2. l >= c BY <2>6, <3>4
        <4>3. QED BY <2>5, <3>3, <4>1, <4>2 DEF Least
      <3>5. QED BY <2>5, <3>3, <3>4
    <2>11. p[2] \in Toks(job)
      <3>1. Upto(dec.pending, n) \in Seq(T) /\ Len(Upto(dec.pending, n)) = n BY <2>2, <2>9, SplitIs
      <3>2. p \in Seq(T) /\ 2 \in 1 .. Len(p) BY <2>8, <2>9, <3>1
      <3>3. QED BY <2>1, <3>2
    <2>12. PICK a, q, o : a = After(dec.src, n) /\ q = After(dec.pending, n) /\ o = dec.out \o Payload(p)
      OBVIOUS
    <2>13. a \in Seq(T) /\ q \in Seq(T) /\ a = After(dec.src, Len(p))
      BY <2>2, <2>9, <2>12, AfterFits
    <2>14. PICK e : e = Opened(dec, p) OBVIOUS
    <2>15. /\ e \in DecTypes(Toks(job)) /\ e.seq = dec.seq + 1
           /\ e.finalized = (dec.version = 20 /\ p[2].final)
           /\ e.skip = dec.skip /\ e.left = dec.left /\ e.out = dec.out
           /\ e.status = dec.status /\ e.buffer = dec.buffer
           /\ e.offset = dec.offset /\ e.version = dec.version
           /\ e.room = dec.room
      BY <1>3, <2>1, <2>11, <2>13, <2>14, OpenedFields
    <2>16. o \in Seq(T)
      <3>1. Payload(p) \in Seq(T)
        <4>1. Upto(dec.pending, n) \in Seq(T) BY <2>2, <2>9, SplitIs
        <4>2. p \in Seq(T) BY <2>9, <4>1
        <4>3. Payload(p) = Part(p, 2, n - 1) BY <2>8 DEF Payload, Part, HeaderSize, TagSize
        <4>4. 2 \in Nat /\ n - 1 \in Nat /\ 2 <= n - 1 /\ n - 1 <= Len(p) BY <2>8
        <4>5. Part(p, 2, n - 1) \in Seq(T) BY <4>2, <4>4, PartIs
        <4>6. QED BY <4>3, <4>5
      <3>2. QED BY <2>2, <2>12, <3>1, ConcatProperties
    <2>17. UNCHANGED <<job, enc, wire, same>> /\ dec' = [e EXCEPT !.src = dec.src, !.pending = q, !.out = o]
      <3>1. /\ dec' = [Opened(dec, p) EXCEPT !.src = dec.src, !.pending = After(dec.pending, Len(p)),
                          !.out = @ \o Payload(p)]
            /\ UNCHANGED <<job, enc, wire, same>>
        BY <1>1, <1>5 DEF DecWriteOpens
      <3>2. dec' = [e EXCEPT !.src = dec.src, !.pending = q, !.out = @ \o Payload(p)]
        BY <2>9, <2>12, <2>14, <3>1
      <3>3. e.out \o Payload(p) = o BY <2>12, <2>15
      <3>4. QED BY <3>1, <3>2, <3>3
    <2>18. PICK f : f = dec' OBVIOUS
    <2>19. /\ f \in DecTypes(T) /\ f.src = dec.src /\ f.pending = q /\ f.seq = e.seq
           /\ f.finalized = e.finalized /\ f.skip = e.skip /\ f.left = e.left /\ f.out = o
           /\ f.status = e.status /\ f.buffer = e.buffer /\ f.offset = e.offset
           /\ f.version = e.version /\ f.room = e.room
      <3>1. PICK s : s = dec.src OBVIOUS
      <3>2. f = [e EXCEPT !.src = s, !.pending = q, !.out = o] /\ e \in DecTypes(T) /\ s \in Seq(T)
        BY <2>1, <2>2, <2>15, <2>17, <2>18, <3>1
      <3>3. /\ f \in DecTypes(T) /\ f.src = s /\ f.pending = q /\ f.seq = e.seq
            /\ f.finalized = e.finalized /\ f.skip = e.skip /\ f.left = e.left /\ f.out = o
            /\ f.status = e.status /\ f.buffer = e.buffer /\ f.offset = e.offset
            /\ f.version = e.version /\ f.room = e.room
        BY <2>13, <2>16, <3>2 DEF DecTypes
      <3>4. QED BY <3>1, <3>3
    <2>20. DecOk(job, wire, f)
      <3>1. f \in DecTypes(Toks(job)) /\ f.pending = After(dec.pending, n) /\ f.seq = dec.seq + 1
            /\ (f.finalized <=> (dec.version = 20 /\ p[2].final)) /\ f.out = dec.out \o Payload(p)
        BY <2>1, <2>12, <2>15, <2>19
      <3>2. f.src = dec.src /\ f.version = dec.version /\ f.room = dec.room /\ f.skip = dec.skip
            /\ f.left = dec.left /\ f.status \in {"open", "eof"} /\ f.offset = dec.offset /\ f.buffer = dec.buffer
        BY <1>2, <2>15, <2>19
      <3>3. /\ DecOk(job, wire, dec) /\ Job(job) /\ dec.status = "open" /\ job.to = "writer"
            /\ n <= Len(dec.pending) /\ p = Upto(dec.pending, n) /\ Opens(dec, p)
        BY <1>2, <1>3, <1>5, <2>9
      <3>4. QED BY <2>10, <3>1, <3>2, <3>3, WriterOpens
    <2>21. QED BY <1>2, <2>17, <2>18, <2>20, DecStepInv
  <1>6. QED BY <1>4, <1>5

(***************************************************************************)
(* Sizes and ranges.                                                       *)
(***************************************************************************)
\* Multiples are in order.
LEMMA TimesGrow ==
  ASSUME NEW a \in Nat, NEW b \in Nat, NEW c \in Nat, a <= b
  PROVE  a * c \in Nat /\ b * c \in Nat /\ a * c <= b * c
  <1>1. PICK d \in Nat : b = a + d
    <2>1. b - a \in Nat /\ b = a + (b - a) OBVIOUS
    <2>2. QED BY <2>1
  <1>2. PICK x \in Nat, y \in Nat : x = a * c /\ y = d * c
    <2>1. a * c \in Nat /\ d * c \in Nat OBVIOUS
    <2>2. QED BY <2>1
  <1>3. b * c = x + y
    <2>1. (a + d) * c = a * c + d * c OBVIOUS
    <2>2. QED BY <1>1, <1>2, <2>1
  <1>4. QED BY <1>2, <1>3

\* What is less in multiples is less.
LEMMA TimesLess ==
  ASSUME NEW a \in Nat, NEW b \in Nat, NEW c \in Nat, a * c < b * c
  PROVE  a < b
  <1>1. CASE b <= a
    <2>1. b * c \in Nat /\ a * c \in Nat /\ b * c <= a * c BY <1>1, TimesGrow
    <2>2. QED BY <2>1
  <1>2. QED BY <1>1

\* Quotient and rest.
LEMMA DivIs ==
  ASSUME NEW a \in Nat, NEW c \in Nat, c > 0
  PROVE  \E q \in Nat, r \in Nat : a \div c = q /\ a % c = r /\ r < c /\ a = q * c + r
  <1>1. PICK q, r : q = a \div c /\ r = a % c OBVIOUS
  <1>2. q \in Nat /\ r \in 0 .. (c - 1) BY <1>1
  <1>3. r = a - q * c
    <2>1. \A x, y \in Int : y > 0 => x % y = x - (x \div y) * y OBVIOUS
    <2>2. QED BY <1>1, <2>1
  <1>4. a = q * c + r /\ r \in Nat /\ r < c BY <1>2, <1>3
  <1>5. QED BY <1>1, <1>2, <1>4

\* There is one of each.
LEMMA DivUnique ==
  ASSUME NEW a \in Nat, NEW c \in Nat, c > 0, NEW q \in Nat, NEW r \in Nat, r < c, a = q * c + r
  PROVE  a \div c = q /\ a % c = r
  <1>1. PICK p \in Nat, s \in Nat, x \in Nat : p = a \div c /\ s = a % c /\ s < c /\ x = p * c /\ a = x + s
    <2>1. PICK p \in Nat, s \in Nat : a \div c = p /\ a % c = s /\ s < c /\ a = p * c + s BY DivIs
    <2>2. p * c \in Nat OBVIOUS
    <2>3. QED BY <2>1, <2>2
  <1>2. PICK y \in Nat : y = q * c /\ a = y + r
    <2>1. q * c \in Nat OBVIOUS
    <2>2. QED BY <2>1
  <1>3. (p + 1) * c = x + c /\ (q + 1) * c = y + c
    <2>1. (p + 1) * c = p * c + c /\ (q + 1) * c = q * c + c OBVIOUS
    <2>2. QED BY <1>1, <1>2, <2>1
  <1>4. p < q + 1
    <2>1. p * c < (q + 1) * c BY <1>1, <1>2, <1>3
    <2>2. q + 1 \in Nat OBVIOUS
    <2>3. QED BY <2>1, <2>2, TimesLess
  <1>5. q < p + 1
    <2>1. q * c < (p + 1) * c BY <1>1, <1>2, <1>3
    <2>2. p + 1 \in Nat OBVIOUS
    <2>3. QED BY <2>1, <2>2, TimesLess
  <1>6. p = q BY <1>4, <1>5
  <1>7. QED BY <1>1, <1>2, <1>6

\* The packages of a stream, and its size.
LEMMA SizesIs ==
  ASSUME NEW j, Job(j), j.size = MaxPayloadSize, NEW k \in Nat, Edge(j, k) = Len(j.plain),
         k > 0 => Edge(j, k - 1) < Len(j.plain)
  PROVE  /\ Start(j, k) = EncryptedSize(Len(j.plain))
         /\ DecryptedSize(Start(j, k)) = Len(j.plain)
  <1>1. PICK m \in Nat, l \in Nat : m = MaxPayloadSize /\ m > 0 /\ l = Len(j.plain)
    BY PlainIs, DAREAssumption
  <1>2. PICK q \in Nat, r \in Nat, x \in Nat :
          q = l \div m /\ r = l % m /\ r < m /\ x = q * m /\ l = x + r
    <2>1. PICK q \in Nat, r \in Nat : l \div m = q /\ l % m = r /\ r < m /\ l = q * m + r
      BY <1>1, DivIs
    <2>2. q * m \in Nat OBVIOUS
    <2>3. QED BY <2>1, <2>2
  <1>3. (q + 1) * m = x + m
    <2>1. (q + 1) * m = q * m + m OBVIOUS
    <2>2. QED BY <1>2, <2>1
  <1>4. l <= k * m
    <2>1. ~(k * j.size < Len(j.plain))
      <3>1. Edge(j, k) = IF k * j.size < Len(j.plain) THEN k * j.size ELSE Len(j.plain) BY DEF Edge
      <3>2. k * m \in Nat /\ j.size = m BY <1>1
      <3>3. l = IF k * m < l THEN k * m ELSE l BY <1>1, <3>1, <3>2
      <3>4. QED BY <1>1, <3>2, <3>3
    <2>2. k * m \in Nat /\ j.size = m BY <1>1
    <2>3. QED BY <1>1, <2>1, <2>2
  <1>5. ASSUME k > 0 PROVE (k - 1) * m < l
    <2>1. Edge(j, k - 1) = IF (k - 1) * j.size < Len(j.plain) THEN (k - 1) * j.size ELSE Len(j.plain)
      BY DEF Edge
    <2>2. Edge(j, k - 1) < Len(j.plain) BY <1>5
    <2>3. PICK z \in Nat : z = (k - 1) * m
      <3>1. k - 1 \in Nat BY <1>5
      <3>2. PICK i \in Nat : i = k - 1 BY <3>1
      <3>3. i * m \in Nat OBVIOUS
      <3>4. QED BY <3>2, <3>3
    <2>4. (IF z < l THEN z ELSE l) < l BY <1>1, <2>1, <2>2, <2>3
    <2>5. z < l BY <2>4
    <2>6. QED BY <2>3, <2>5
  <1>6. q <= k
    <2>1. CASE k < q
      <3>1. k + 1 <= q /\ k + 1 \in Nat BY <2>1
      <3>2. (k + 1) * m <= q * m /\ q * m \in Nat /\ (k + 1) * m \in Nat BY <3>1, TimesGrow
      <3>3. (k + 1) * m = k * m + m /\ k * m \in Nat OBVIOUS
      <3>4. PICK u \in Nat, v \in Nat : u = k * m /\ v = (k + 1) * m BY <3>2, <3>3
      <3>5. v = u + m /\ v <= x /\ l <= u /\ l = x + r BY <1>2, <1>4, <3>2, <3>3, <3>4
      <3>6. QED BY <1>1, <3>5
    <2>2. QED BY <2>1
  <1>7. CASE r = 0
    <2>1. k = q
      <3>1. CASE k > q
        <4>1. k > 0 /\ k - 1 \in Nat /\ q <= k - 1 BY <3>1
        <4>2. PICK i \in Nat : i = k - 1 /\ q <= i BY <4>1
        <4>3. q * m <= i * m /\ i * m \in Nat BY <4>2, TimesGrow
        <4>4. i * m < l BY <1>5, <4>1, <4>2
        <4>5. QED BY <1>2, <1>7, <4>3, <4>4
      <3>2. QED BY <1>6, <3>1
    <2>2. QED
      <3>1. PICK p \in Nat, y \in Nat : p = m + 3 /\ y = q * p
        <4>1. m + 3 \in Nat /\ q * (m + 3) \in Nat OBVIOUS
        <4>2. QED BY <4>1
      <3>2. MaxPackageSize = p BY <1>1, <3>1 DEF MaxPackageSize, HeaderSize, TagSize
      <3>3. y = x + 3 * q
        <4>1. q * (m + 3) = q * m + 3 * q OBVIOUS
        <4>2. QED BY <1>2, <3>1, <4>1
      <3>4. EncryptedSize(l) = y
        <4>1. EncryptedSize(l) = q * p + (IF r > 0 THEN r + HeaderSize + TagSize ELSE 0)
          BY <1>1, <1>2, <3>2 DEF EncryptedSize
        <4>2. QED BY <1>7, <3>1, <4>1
      <3>5. Start(j, k) = l + 3 * k BY <1>1 DEF Start
      <3>6. Start(j, k) = y BY <1>2, <1>7, <2>1, <3>3, <3>5
      <3>7. y \div p = q /\ y % p = 0
        <4>1. 0 < p /\ y = q * p + 0 BY <3>1
        <4>2. QED BY <3>1, <4>1, DivUnique
      <3>8. DecryptedSize(y) = l
        <4>1. DecryptedSize(y) = IF 0 \in 1 .. HeaderSize + TagSize THEN -1
                ELSE q * m + (IF 0 > 0 THEN 0 - (HeaderSize + TagSize) ELSE 0)
          BY <1>1, <3>2, <3>7 DEF DecryptedSize
        <4>2. QED BY <1>2, <1>7, <4>1
      <3>9. QED BY <1>1, <3>4, <3>6, <3>8
  <1>8. CASE r > 0
    <2>1. k = q + 1
      <3>1. CASE k > q + 1
        <4>1. k > 0 /\ k - 1 \in Nat /\ q + 1 <= k - 1 /\ q + 1 \in Nat BY <3>1
        <4>2. PICK i \in Nat : i = k - 1 /\ q + 1 <= i BY <4>1
        <4>3. (q + 1) * m <= i * m /\ i * m \in Nat BY <4>1, <4>2, TimesGrow
        <4>4. i * m < l BY <1>5, <4>1, <4>2
        <4>5. QED BY <1>2, <1>3, <4>3, <4>4
      <3>2. CASE k = q BY <1>2, <1>4, <1>8, <3>2
      <3>3. QED BY <1>6, <3>1, <3>2
    <2>2. QED
      <3>1. PICK p \in Nat, y \in Nat, z \in Nat : p = m + 3 /\ y = q * p /\ z = y + (r + 3)
        <4>1. m + 3 \in Nat /\ q * (m + 3) \in Nat OBVIOUS
        <4>2. PICK p \in Nat, y \in Nat : p = m + 3 /\ y = q * p BY <4>1
        <4>3. y + (r + 3) \in Nat OBVIOUS
        <4>4. QED BY <4>2, <4>3
      <3>2. MaxPackageSize = p BY <1>1, <3>1 DEF MaxPackageSize, HeaderSize, TagSize
      <3>3. y = x + 3 * q
        <4>1. q * (m + 3) = q * m + 3 * q OBVIOUS
        <4>2. QED BY <1>2, <3>1, <4>1
      <3>4. EncryptedSize(l) = z
        <4>1. EncryptedSize(l) = q * p + (IF r > 0 THEN r + HeaderSize + TagSize ELSE 0)
          BY <1>1, <1>2, <3>2 DEF EncryptedSize
        <4>2. HeaderSize = 2 /\ TagSize = 1 BY DEF HeaderSize, TagSize
        <4>3. QED BY <1>8, <3>1, <4>1, <4>2
      <3>5. Start(j, k) = l + 3 * k BY <1>1 DEF Start
      <3>6. Start(j, k) = z
        <4>1. z = y + (r + 3) BY <3>1
        <4>2. l = x + r BY <1>2
        <4>3. (x + r) + 3 * (q + 1) = (x + 3 * q) + (r + 3) OBVIOUS
        <4>4. QED BY <2>1, <3>3, <3>5, <4>1, <4>2, <4>3
      <3>7. z \div p = q /\ z % p = r + 3
        <4>1. z = q * p + (r + 3) BY <3>1
        <4>2. p = m + 3 BY <3>1
        <4>3. 0 < p /\ r + 3 < p /\ r + 3 \in Nat BY <1>2, <4>2
        <4>4. QED BY <4>1, <4>3, DivUnique
      <3>8. DecryptedSize(z) = l
        <4>1. DecryptedSize(z) = IF r + 3 \in 1 .. HeaderSize + TagSize THEN -1
                ELSE q * m + (IF r + 3 > 0 THEN (r + 3) - (HeaderSize + TagSize) ELSE 0)
          BY <1>1, <3>2, <3>7 DEF DecryptedSize
        <4>2. HeaderSize = 2 /\ TagSize = 1 BY DEF HeaderSize, TagSize
        <4>3. QED BY <1>2, <1>8, <4>1, <4>2
      <3>9. QED BY <1>1, <3>4, <3>6, <3>8
  <1>9. QED BY <1>2, <1>7, <1>8

\* Where a package of the largest payloads begins.
LEMMA StartOf ==
  ASSUME NEW j, Job(j), j.size = MaxPayloadSize, NEW k \in Numbers(j)
  PROVE  k \in Nat /\ Start(j, k) = k * MaxPackageSize /\ Edge(j, k) = k * MaxPayloadSize
  <1>1. k \in Nat /\ Edge(j, k) < Len(j.plain) BY DEF Numbers
  <1>2. Edge(j, k) = k * MaxPayloadSize BY <1>1, EdgeIs
  <1>3. PICK m \in Nat, x \in Nat : m = MaxPayloadSize /\ x = k * m
    <2>1. MaxPayloadSize \in Nat BY DAREAssumption
    <2>2. PICK m \in Nat : m = MaxPayloadSize BY <2>1
    <2>3. k * m \in Nat BY <1>1
    <2>4. QED BY <2>2, <2>3
  <1>4. MaxPackageSize = m + 3 BY <1>3 DEF MaxPackageSize, HeaderSize, TagSize
  <1>5. k * (m + 3) = k * m + 3 * k BY <1>1
  <1>6. Start(j, k) = x + 3 * k BY <1>2, <1>3 DEF Start
  <1>7. QED BY <1>1, <1>2, <1>3, <1>4, <1>5, <1>6

\* The package of a byte.
LEMMA PackageOf ==
  ASSUME NEW j, Job(j), j.size = MaxPayloadSize, NEW i \in Nat, i < Len(j.plain)
  PROVE  \E t \in Numbers(j), s \in Nat :
           /\ t = i \div MaxPayloadSize /\ s = i % MaxPayloadSize /\ s < MaxPayloadSize
           /\ Edge(j, t) + s = i /\ i < Edge(j, t + 1)
  <1>1. PICK m \in Nat, l \in Nat : m = MaxPayloadSize /\ m > 0 /\ l = Len(j.plain)
    BY PlainIs, DAREAssumption
  <1>2. PICK t \in Nat, s \in Nat : i \div m = t /\ i % m = s /\ s < m /\ i = t * m + s
    BY <1>1, DivIs
  <1>3. PICK x \in Nat : x = t * m /\ i = x + s /\ (t + 1) * m = x + m
    <2>1. t * m \in Nat /\ (t + 1) * m = t * m + m BY <1>1
    <2>2. QED BY <1>2, <2>1
  <1>4. Edge(j, t) = x
    <2>1. Edge(j, t) = IF t * m < l THEN t * m ELSE l BY <1>1 DEF Edge
    <2>2. x < l BY <1>1, <1>3
    <2>3. QED BY <1>3, <2>1, <2>2
  <1>5. i < Edge(j, t + 1)
    <2>1. Edge(j, t + 1) = IF (t + 1) * m < l THEN (t + 1) * m ELSE l BY <1>1 DEF Edge
    <2>2. Edge(j, t + 1) = IF x + m < l THEN x + m ELSE l BY <1>3, <2>1
    <2>3. i < x + m /\ i < l BY <1>1, <1>2, <1>3
    <2>4. QED BY <2>2, <2>3
  <1>6. t \in Numbers(j)
    <2>1. x < l BY <1>1, <1>3
    <2>2. QED BY <1>1, <1>2, <1>4, <2>1 DEF Numbers
  <1>7. QED BY <1>1, <1>2, <1>3, <1>4, <1>5, <1>6

\* A range begins with s of package t and ends before package e.
RangeAt(j, k, t, e, s) ==
  /\ t = j.off \div MaxPayloadSize /\ s = j.off % MaxPayloadSize /\ s < MaxPayloadSize
  /\ Edge(j, t) + s = j.off /\ t < e /\ e <= k
  /\ j.off + j.length <= Edge(j, e)
  /\ t * MaxPackageSize = Start(j, t)
  /\ GetDecryptedRange(Start(j, k), j.off, j.length)
       = [encOff |-> Start(j, t), seq |-> t, skip |-> s, encLength |-> Start(j, e) - Start(j, t)]

\* What a range of the data needs of the stream: the packages from the one of the
\* first byte to the one of the last.
LEMMA RangeIs ==
  ASSUME NEW j, Job(j), j.to \in {"readAt", "range"}, NEW k \in Nat, Edge(j, k) = Len(j.plain),
         k > 0 => Edge(j, k - 1) < Len(j.plain)
  PROVE  /\ j.size = MaxPayloadSize
         /\ \E t \in Numbers(j), e \in Nat, s \in Nat : RangeAt(j, k, t, e, s)
  <1>1. j.size = MaxPayloadSize /\ j.length > 0 /\ j.off + j.length <= Len(j.plain)
        /\ j.off \in Nat /\ j.length \in Nat
    BY JobIs
  <1>2. PICK c \in Nat, n \in Nat, l \in Nat : c = j.off /\ n = j.length /\ l = Len(j.plain) /\ n > 0 /\ c + n <= l
    BY <1>1, PlainIs
  <1>3. PICK t \in Numbers(j), s \in Nat :
           /\ t = c \div MaxPayloadSize /\ s = c % MaxPayloadSize /\ s < MaxPayloadSize
           /\ Edge(j, t) + s = c /\ c < Edge(j, t + 1)
    <2>1. c < Len(j.plain) BY <1>2
    <2>2. QED BY <1>1, <2>1, PackageOf
  <1>4. PICK i \in Nat : i = c + n - 1 /\ i < l /\ c <= i
    <2>1. c + n - 1 \in Nat /\ c + n - 1 < l /\ c <= c + n - 1 BY <1>2
    <2>2. QED BY <2>1
  <1>5. PICK h \in Numbers(j), z \in Nat :
           /\ h = i \div MaxPayloadSize /\ z = i % MaxPayloadSize /\ z < MaxPayloadSize
           /\ Edge(j, h) + z = i /\ i < Edge(j, h + 1)
    <2>1. i < Len(j.plain) BY <1>2, <1>4
    <2>2. QED BY <1>1, <2>1, PackageOf
  <1>6. t \in Nat /\ h \in Nat BY DEF Numbers
  <1>7. PICK e \in Nat : e = h + 1 BY <1>6
  <1>8. t <= h
    <2>1. CASE h < t
      <3>1. h + 1 <= t /\ h + 1 \in Nat BY <1>6, <2>1
      <3>2. Edge(j, h + 1) <= Edge(j, t) BY <1>6, <3>1, EdgesGrow
      <3>3. PICK x \in Nat, y \in Nat : x = Edge(j, t) /\ y = Edge(j, h + 1) BY <1>6, EdgeIs
      <3>4. y <= x /\ x + s = c /\ i < y BY <1>3, <1>5, <3>2, <3>3
      <3>5. QED BY <1>4, <3>4
    <2>2. QED BY <1>6, <2>1
  <1>9. h < k
    <2>1. CASE k <= h
      <3>1. Edge(j, k) <= Edge(j, h) BY <1>6, <2>1, EdgesGrow
      <3>2. Edge(j, h) < Len(j.plain) BY DEF Numbers
      <3>3. PICK x \in Nat : x = Edge(j, h) BY <1>6, EdgeIs
      <3>4. QED BY <1>2, <3>1, <3>2, <3>3
    <2>2. QED BY <1>6, <2>1
  <1>10. Start(j, t) = t * MaxPackageSize BY <1>1, StartOf
  <1>11. Least((h + 1) * MaxPackageSize, Start(j, k)) = Start(j, e)
    <2>1. PICK p \in Nat, m \in Nat : p = MaxPackageSize /\ m = MaxPayloadSize /\ p = m + 3
      BY DAREAssumption DEF MaxPackageSize, HeaderSize, TagSize
    <2>2. PICK x \in Nat : x = e * p
      <3>1. e * p \in Nat OBVIOUS
      <3>2. QED BY <3>1
    <2>3. PICK y \in Nat, v \in Nat : y = Start(j, k) /\ v = Start(j, e) BY StartIs
    <2>4. CASE e \in Numbers(j)
      <3>1. v = x BY <1>1, <2>1, <2>2, <2>3, <2>4, StartOf
      <3>2. e <= k BY <1>6, <1>7, <1>9
      <3>3. v <= y BY <2>3, <3>2, StartsGrow
      <3>4. Least(x, y) = v BY <3>1, <3>3 DEF Least
      <3>5. QED BY <1>7, <2>1, <2>2, <2>3, <3>4
    <2>5. CASE e \notin Numbers(j)
      <3>1. ~(Edge(j, e) < Len(j.plain)) BY <2>5 DEF Numbers
      <3>2. e = k
        <4>1. CASE e < k
          <5>1. k > 0 /\ k - 1 \in Nat /\ e <= k - 1 BY <4>1
          <5>2. Edge(j, e) <= Edge(j, k - 1) BY <5>1, EdgesGrow
          <5>3. PICK g \in Nat, u \in Nat : g = Edge(j, e) /\ u = Edge(j, k - 1) BY <5>1, EdgeIs
          <5>4. u < l /\ g <= u /\ ~(g < l) BY <1>2, <3>1, <5>1, <5>2, <5>3
          <5>5. QED BY <5>4
        <4>2. QED BY <1>6, <1>7, <1>9, <4>1
      <3>3. y = l + 3 * k BY <1>2, <2>3 DEF Start
      <3>4. l <= e * m
        <4>1. Edge(j, e) = IF e * m < l THEN e * m ELSE l BY <1>1, <1>2, <2>1 DEF Edge
        <4>2. e * m \in Nat OBVIOUS
        <4>3. ~((IF e * m < l THEN e * m ELSE l) < l) BY <1>2, <3>1, <4>1
        <4>4. QED BY <4>2, <4>3
      <3>5. e * (m + 3) = e * m + 3 * e OBVIOUS
      <3>6. y <= x
        <4>1. PICK a \in Nat : a = e * m
          <5>1. e * m \in Nat OBVIOUS
          <5>2. QED BY <5>1
        <4>2. x = a + 3 * e BY <2>1, <2>2, <3>5, <4>1
        <4>3. l <= a BY <3>4, <4>1
        <4>4. QED BY <3>2, <3>3, <4>2, <4>3
      <3>7. Least(x, y) = y BY <3>6 DEF Least
      <3>8. QED BY <1>7, <2>1, <2>2, <2>3, <3>2, <3>7
    <2>6. QED BY <2>4, <2>5
  <1>12. EncryptedSize(DecryptedSize(Start(j, k))) = Start(j, k)
    <2>1. /\ Start(j, k) = EncryptedSize(Len(j.plain))
          /\ DecryptedSize(Start(j, k)) = Len(j.plain)
      BY <1>1, SizesIs
    <2>2. QED BY <2>1, Zenon
  <1>13. GetDecryptedRange(Start(j, k), j.off, j.length)
           = [encOff |-> Start(j, t), seq |-> t, skip |-> s, encLength |-> Start(j, e) - Start(j, t)]
    <2>1. GetDecryptedRange(Start(j, k), j.off, j.length)
            = [encOff |-> t * MaxPackageSize, seq |-> t, skip |-> s,
               encLength |-> Least((h + 1) * MaxPackageSize, EncryptedSize(DecryptedSize(Start(j, k))))
                               - t * MaxPackageSize]
      <3>1. t = j.off \div MaxPayloadSize /\ s = j.off % MaxPayloadSize BY <1>2, <1>3
      <3>2. h = (j.off + j.length - 1) \div MaxPayloadSize BY <1>2, <1>4, <1>5
      <3>3. QED BY <3>1, <3>2, Zenon DEF GetDecryptedRange
    <2>2. QED BY <1>10, <1>11, <1>12, <2>1
  <1>14. j.off + j.length <= Edge(j, e)
    <2>1. PICK x \in Nat : x = Edge(j, e) BY <1>7, EdgeIs
    <2>2. i < x BY <1>5, <1>7, <2>1
    <2>3. c + n <= x BY <1>2, <1>4, <2>2
    <2>4. QED BY <1>2, <2>1, <2>3
  <1>15. t < e /\ e <= k BY <1>6, <1>7, <1>8, <1>9
  <1>16. QED BY <1>1, <1>2, <1>3, <1>10, <1>13, <1>14, <1>15 DEF RangeAt

\* What the writer's Close opens is all that is left.
LEMMA CloseTakes ==
  ASSUME NEW d \in DecTypes(Toks(job)), d.src = <<>>, ~Complete(d), d.version = 20
  PROVE  Len(d.pending) = Least(Len(Ahead(d)), MaxPackageSize)
  <1>1. PICK q : q = d.pending OBVIOUS
  <1>2. PICK T : T = Toks(job) OBVIOUS
  <1>3. q \in Seq(T) /\ Len(q) \in Nat BY <1>1, <1>2, DecFields
  <1>4. Ahead(d) = q
    <2>1. q \o <<>> = q BY <1>3
    <2>2. QED BY <1>1, <2>1 DEF Ahead
  <1>5. PICK c \in Nat : c = MaxPackageSize
    BY DAREAssumption DEF MaxPackageSize, HeaderSize, TagSize
  <1>6. ~(Len(q) >= MaxPackageSize) BY <1>1, Zenon DEF Complete
  <1>7. Len(q) = Least(Len(q), c) BY <1>3, <1>5, <1>6 DEF Least
  <1>8. QED BY <1>1, <1>4, <1>5, <1>7

\* Close.
LEMMA DecCloseInv ==
  ASSUME EncInv, DecInv, DecClose
  PROVE  DecInv'
  <1>1. dec.status = "open" /\ job.to = "writer" /\ dec.src = <<>> /\ ~Complete(dec)
    BY DEF DecClose, Writing
  <1>2. DecOk(job, wire, dec) /\ Job(job) /\ dec \in DecTypes(Toks(job)) BY <1>1, DecIs
  <1>3. CASE dec.pending = <<>>
    <2>1. DecFails("eof") BY <1>3 DEF DecClose
    <2>2. "eof" \in Failures BY DEF Failures
    <2>3. QED BY <1>1, <2>1, <2>2, DecFailsInv
  <1>4. CASE dec.pending # <<>> /\ (dec.version = 10 \/ dec.finalized \/ ~Opens(dec, dec.pending))
    <2>1. DecFails("tampered") BY <1>4 DEF DecClose
    <2>2. "tampered" \in Failures /\ "tampered" # "eof" BY DEF Failures
    <2>3. QED BY <1>1, <2>1, <2>2, DecFailsInv
  <1>5. CASE dec.pending # <<>> /\ ~(dec.version = 10 \/ dec.finalized \/ ~Opens(dec, dec.pending))
    <2>1. PICK T, p : T = Toks(job) /\ p = dec.pending OBVIOUS
    <2>2. p \in Seq(T) /\ dec.out \in Seq(T) /\ Opens(dec, p) BY <1>2, <1>5, <2>1, DecFields
    <2>3. PICK n \in Nat : n = Len(p) /\ n > 3 BY <2>2 DEF Opens, HeaderSize, TagSize
    <2>4. p = Upto(dec.pending, n) /\ n <= Len(dec.pending) /\ After(dec.pending, n) = <<>>
      <3>1. Upto(p, n) = p /\ After(p, n) = <<>> BY <2>2, <2>3, AllGiven
      <3>2. QED BY <2>1, <2>3, <3>1
    <2>5. dec.version = 20 => n = Least(Len(Ahead(dec)), MaxPackageSize)
      BY <1>1, <1>2, <2>1, <2>3, CloseTakes
    <2>6. PICK o : o = dec.out \o Payload(p) OBVIOUS
    <2>7. o \in Seq(T)
      <3>1. Payload(p) \in Seq(T)
        <4>1. Payload(p) = Part(p, 2, n - 1) BY <2>3 DEF Payload, Part, HeaderSize, TagSize
        <4>2. 2 \in Nat /\ n - 1 \in Nat /\ 2 <= n - 1 /\ n - 1 <= Len(p) BY <2>3
        <4>3. Part(p, 2, n - 1) \in Seq(T) BY <2>2, <4>2, PartIs
        <4>4. QED BY <4>1, <4>3
      <3>2. QED BY <2>2, <2>6, <3>1, ConcatProperties
    <2>8. PICK x \in BOOLEAN : x <=> (dec.version = 20 /\ p[2].final) BY Zenon
    <2>9. PICK k \in Nat : k = dec.seq + 1
      <3>1. dec.seq \in Nat BY <1>2, DecFields
      <3>2. QED BY <3>1
    <2>10. PICK f : f = [dec EXCEPT !.pending = <<>>, !.seq = k, !.finalized = x, !.out = o, !.status = "eof"]
      OBVIOUS
    <2>11. /\ f \in DecTypes(T) /\ f.src = dec.src /\ f.pending = <<>> /\ f.seq = k /\ f.finalized = x
           /\ f.version = dec.version /\ f.room = dec.room /\ f.skip = dec.skip /\ f.left = dec.left
           /\ f.out = o /\ f.status = "eof" /\ f.offset = dec.offset /\ f.buffer = dec.buffer
      <3>1. <<>> \in Seq(T) OBVIOUS
      <3>2. QED BY <1>2, <2>1, <2>7, <2>8, <2>9, <2>10, <3>1 DEF DecTypes
    <2>12. DecOk(job, wire, f)
      <3>1. f \in DecTypes(Toks(job)) /\ f.pending = After(dec.pending, n) /\ f.seq = dec.seq + 1
            /\ (f.finalized <=> (dec.version = 20 /\ p[2].final)) /\ f.out = dec.out \o Payload(p)
        BY <2>1, <2>4, <2>6, <2>8, <2>9, <2>11
      <3>2. f.src = dec.src /\ f.version = dec.version /\ f.room = dec.room /\ f.skip = dec.skip
            /\ f.left = dec.left /\ f.status \in {"open", "eof"} /\ f.offset = dec.offset /\ f.buffer = dec.buffer
        BY <2>11
      <3>3. /\ DecOk(job, wire, dec) /\ Job(job) /\ dec.status = "open" /\ job.to = "writer"
            /\ n <= Len(dec.pending) /\ p = Upto(dec.pending, n) /\ Opens(dec, p)
        BY <1>1, <1>2, <2>2, <2>4
      <3>4. QED BY <2>5, <3>1, <3>2, <3>3, WriterOpens
    <2>13. Decrypted(job, f) BY <1>2, <2>12, OkIsDecrypted
    <2>14. /\ job' = job
           /\ dec' = [dec EXCEPT !.out = o, !.pending = <<>>, !.finalized = dec.pending[2].final, !.status = "eof"]
      <3>1. /\ job' = job
            /\ dec' = [dec EXCEPT !.out = @ \o Payload(dec.pending), !.pending = <<>>,
                                 !.finalized = dec.pending[2].final, !.status = "eof"]
        BY <1>5 DEF DecClose
      <3>2. QED BY <2>1, <2>6, <3>1
    <2>15. dec'.out = o /\ dec'.status = "eof" BY <1>2, <2>14 DEF DecTypes
    <2>16. Decrypted(job', dec') BY <1>1, <2>11, <2>13, <2>14, <2>15 DEF Decrypted
    <2>17. "eof" # "none" /\ "eof" # "open" OBVIOUS
    <2>18. QED BY <2>15, <2>16, <2>17 DEF DecInv
  <1>6. QED BY <1>3, <1>4, <1>5

(***************************************************************************)
(* The stream is sent.                                                     *)
(***************************************************************************)
\* It reads the stream from package t on, skips k of its data and gives l.
FromThere(j, w, s, t, k, l) ==
  /\ IF j.to \in {"reader", "writer"} THEN k = 0 /\ l > Len(s) ELSE l = j.length
  /\ j.version = 20 => \/ Uncounted(s)
                       \/ /\ w \in Seq(Toks(j)) /\ Placed(j, w)
                          /\ s = After(w, Least(t * MaxPackageSize, Len(w)))

\* A new reader or writer.
LEMMA NewDecOk ==
  ASSUME NEW j, Job(j), NEW w, NEW s \in Seq(Toks(j)), NEW t \in Nat, NEW k \in Nat, NEW l \in Nat,
         k < MaxPayloadSize, j.off = Edge(j, t) + k,
         FromThere(j, w, s, t, k, l)
  PROVE  DecOk(j, w, NewDec(s, t, k, l)) /\ NewDec(s, t, k, l).status = "open"
  <1>1. PICK d, T : d = NewDec(s, t, k, l) /\ T = Toks(j) OBVIOUS
  <1>2. s \in Seq(T) BY <1>1
  <1>3. /\ d \in DecTypes(T) /\ d.src = s /\ d.pending = <<>> /\ d.version = 0 /\ d.seq = t
        /\ ~d.finalized /\ d.room = 0 /\ d.buffer = <<>> /\ d.offset = 0 /\ d.skip = k
        /\ d.left = l /\ d.out = <<>> /\ d.status = "open"
        /\ Ahead(d) = s
    <2>1. <<>> \in Seq(T) OBVIOUS
    <2>2. /\ d \in DecTypes(T) /\ d.src = s /\ d.pending = <<>> /\ d.version = 0 /\ d.seq = t
          /\ ~d.finalized /\ d.room = 0 /\ d.buffer = <<>> /\ d.offset = 0 /\ d.skip = k
          /\ d.left = l /\ d.out = <<>> /\ d.status = "open"
      BY <1>1, <1>2, <2>1 DEF NewDec, DecTypes
    <2>3. <<>> \o s = s OBVIOUS
    <2>4. Ahead(d) = s BY <2>2, <2>3 DEF Ahead
    <2>5. QED BY <2>2, <2>4
  <1>4. Rest(d) = <<>>
    <2>1. ~(d.offset > 0) BY <1>3
    <2>2. QED BY <2>1, Zenon DEF Rest
  <1>5. Len(<<>>) = 0 OBVIOUS
  <1>6. Aligned(j, d, <<>>)
    <2>1. PICK e \in Nat : e = Edge(j, t) /\ e <= Len(j.plain) BY EdgeIs
    <2>2. PICK o \in Nat : o = j.off /\ o <= Len(j.plain)
      <3>1. j.off \in Nat /\ Len(j.plain) \in Nat BY JobIs, PlainIs
      <3>2. CASE j.to \in {"reader", "writer"}
        <4>1. j.off = 0 BY <3>2, JobIs
        <4>2. QED BY <3>1, <4>1
      <3>3. CASE j.to \notin {"reader", "writer"}
        <4>1. j.off + j.length <= Len(j.plain) /\ j.length \in Nat BY <3>3, JobIs
        <4>2. QED BY <3>1, <4>1
      <3>4. QED BY <3>2, <3>3
    <2>3. j.plain \in Seq(Toks(j)) BY PlainIs
    <2>4. Part(j.plain, e, e) = <<>> /\ Part(j.plain, o, o) = <<>> BY <2>1, <2>2, <2>3, NoPart
    <2>5. e - 0 = e /\ o + 0 = o /\ o = e - 0 + k BY <2>1, <2>2
    <2>6. <<>> \in Seq(Toks(j)) /\ 0 <= e BY <2>1
    <2>7. QED BY <1>1, <1>3, <1>5, <2>1, <2>2, <2>4, <2>5, <2>6 DEF Aligned
  <1>7. Limited(j, d, <<>>)
    <2>1. d.room <= IF d.skip > 0 THEN d.skip ELSE d.left BY <1>3
    <2>2. CASE j.to \in {"reader", "writer"}
      <3>1. k = 0 /\ l > Len(s) BY <2>2 DEF FromThere
      <3>2. Len(<<>>) + Len(s) = Len(s)
        <4>1. Len(s) \in Nat OBVIOUS
        <4>2. QED BY <1>5, <4>1
      <3>3. QED BY <1>3, <2>1, <2>2, <3>1, <3>2 DEF Limited
    <2>3. CASE j.to \notin {"reader", "writer"}
      <3>1. l = j.length BY <2>3 DEF FromThere
      <3>2. d.left + Len(d.out) = j.length BY <1>3, <1>5, <3>1
      <3>3. QED BY <1>3, <2>1, <2>3, <3>2 DEF Limited
    <2>4. QED BY <2>2, <2>3
  <1>8. Numbered(j, w, d) BY <1>3, Zenon DEF Numbered, FromThere
  <1>9. Ended(j, d)
    <2>1. "open" # "eof" OBVIOUS
    <2>2. QED BY <1>3, <2>1 DEF Ended
  <1>10. QED BY <1>1, <1>3, <1>4, <1>5, <1>6, <1>7, <1>8, <1>9 DEF DecOk, DecAt

\* A whole stream is read from an offset on, or in a range.
LEMMA ReadAtOk ==
  ASSUME NEW j, Job(j), j.to = "readAt", NEW w, Whole(j, w),
         NEW d, d = NewDec(After(w, Least((j.off \div MaxPayloadSize) * MaxPackageSize, Len(w))),
                           j.off \div MaxPayloadSize, j.off % MaxPayloadSize, j.length)
  PROVE  DecOk(j, w, d) /\ d.status = "open"
  <1>1. PICK k \in Nat : Made(j, w, k) /\ Edge(j, k) = Len(j.plain) /\ (k > 0 => Edge(j, k - 1) < Len(j.plain))
    BY DEF Whole
  <1>2. PICK t \in Numbers(j), s \in Nat :
          /\ t = j.off \div MaxPayloadSize /\ s = j.off % MaxPayloadSize /\ s < MaxPayloadSize
          /\ Edge(j, t) + s = j.off
    <2>1. j.to \in {"readAt", "range"} OBVIOUS
    <2>2. /\ Job(j) /\ k \in Nat /\ Edge(j, k) = Len(j.plain) /\ (k > 0 => Edge(j, k - 1) < Len(j.plain))
      BY <1>1
    <2>3. \E t \in Numbers(j), e \in Nat, s \in Nat : RangeAt(j, k, t, e, s) BY <2>1, <2>2, RangeIs
    <2>4. QED BY <2>3, Zenon DEF RangeAt
  <1>3. w \in Seq(Toks(j)) /\ (j.version = 20 => Placed(j, w)) BY <1>1 DEF Made
  <1>4. PICK a \in Nat : a = Least(t * MaxPackageSize, Len(w))
    <2>1. PICK c \in Nat : c = MaxPackageSize
      BY DAREAssumption DEF MaxPackageSize, HeaderSize, TagSize
    <2>2. t \in Nat BY <1>2 DEF Numbers
    <2>3. t * c \in Nat /\ Len(w) \in Nat BY <1>3, <2>2
    <2>4. QED BY <2>1, <2>3 DEF Least
  <1>5. PICK v : v = After(w, a) OBVIOUS
  <1>6. v \in Seq(Toks(j)) BY <1>3, <1>5, AfterFits
  <1>7. PICK l \in Nat : l = j.length BY JobIs
  <1>8. d = NewDec(v, t, s, l) BY <1>2, <1>4, <1>5, <1>7
  <1>9. FromThere(j, w, v, t, s, l) BY <1>3, <1>4, <1>5, <1>7, Zenon DEF FromThere
  <1>10. t \in Nat /\ j.off = Edge(j, t) + s BY <1>2 DEF Numbers
  <1>11. QED
    <2>1. s < MaxPayloadSize BY <1>2
    <2>2. DecOk(j, w, NewDec(v, t, s, l)) /\ NewDec(v, t, s, l).status = "open"
      BY <1>6, <1>9, <1>10, <2>1, NewDecOk
    <2>3. QED BY <1>8, <2>2

\* What is read of a whole stream for a range.
LEMMA ReadRangeOk ==
  ASSUME NEW j, Job(j), j.to = "range", NEW w, Whole(j, w),
         NEW r, r = GetDecryptedRange(Len(w), j.off, j.length),
         NEW d, d = NewDec(SubSeq(w, r.encOff + 1, r.encOff + r.encLength), r.seq, r.skip, j.length)
  PROVE  DecOk(j, w, d) /\ d.status = "open"
  <1>1. PICK k \in Nat : Made(j, w, k) /\ Edge(j, k) = Len(j.plain) /\ (k > 0 => Edge(j, k - 1) < Len(j.plain))
    BY DEF Whole
  <1>2. PICK t \in Numbers(j), e \in Nat, s \in Nat :
           /\ s < MaxPayloadSize
           /\ Edge(j, t) + s = j.off /\ t < e /\ e <= k
           /\ GetDecryptedRange(Start(j, k), j.off, j.length)
                = [encOff |-> Start(j, t), seq |-> t, skip |-> s, encLength |-> Start(j, e) - Start(j, t)]
    <2>1. j.to \in {"readAt", "range"} OBVIOUS
    <2>2. /\ Job(j) /\ k \in Nat /\ Edge(j, k) = Len(j.plain) /\ (k > 0 => Edge(j, k - 1) < Len(j.plain))
      BY <1>1
    <2>3. \E t \in Numbers(j), e \in Nat, s \in Nat : RangeAt(j, k, t, e, s) BY <2>1, <2>2, RangeIs
    <2>4. QED BY <2>3, Zenon DEF RangeAt
  <1>3. w \in Seq(Toks(j)) /\ Len(w) = Start(j, k) /\ (j.version = 20 => Uncounted(w))
    BY <1>1 DEF Made
  <1>4. t \in Nat BY <1>2 DEF Numbers
  <1>5. PICK a \in Nat, b \in Nat : a = Start(j, t) /\ b = Start(j, e) /\ a <= b /\ b <= Len(w)
    <2>1. t <= e BY <1>2, <1>4
    <2>2. Start(j, t) <= Start(j, e) BY <1>4, <2>1, StartsGrow
    <2>3. Start(j, e) <= Start(j, k) BY <1>1, <1>2, StartsGrow
    <2>4. Start(j, t) \in Nat /\ Start(j, e) \in Nat BY <1>4, StartIs
    <2>5. QED BY <1>3, <2>2, <2>3, <2>4
  <1>6. r.encOff = a /\ r.seq = t /\ r.skip = s /\ r.encLength = b - a BY <1>2, <1>3, <1>5
  <1>7. PICK v : v = SubSeq(w, a + 1, b) OBVIOUS
  <1>8. PICK l \in Nat : l = j.length BY JobIs
  <1>9. d = NewDec(v, t, s, l)
    <2>1. a + (b - a) = b BY <1>5
    <2>2. QED BY <1>6, <1>7, <1>8, <2>1
  <1>10. v \in Seq(Toks(j)) /\ (j.version = 20 => Uncounted(v))
    <2>1. PICK c \in BOOLEAN : c <=> j.version = 20 BY Zenon
    <2>2. Clean(c, Toks(j), w) BY <1>3, <2>1 DEF Clean
    <2>3. Clean(c, Toks(j), SubSeq(w, a + 1, b)) BY <1>5, <2>2, CleanPart
    <2>4. QED BY <1>7, <2>1, <2>3 DEF Clean
  <1>11. FromThere(j, w, v, t, s, l) BY <1>8, <1>10, Zenon DEF FromThere
  <1>12. j.off = Edge(j, t) + s BY <1>2
  <1>13. QED BY <1>2, <1>4, <1>9, <1>10, <1>11, <1>12, NewDecOk

\* The stream is read from the beginning.
LEMMA ReadAllOk ==
  ASSUME NEW j, Job(j), j.to \in {"reader", "writer"}, NEW w, Sound(j, w),
         NEW d, d = NewDec(w, 0, 0, NoLimit(w))
  PROVE  DecOk(j, w, d) /\ d.status = "open"
  <1>1. w \in Seq(Toks(j)) /\ Len(w) \in Nat /\ (j.version = 20 => Uncounted(w) \/ Placed(j, w))
    BY DEF Sound
  <1>2. PICK l \in Nat : l = NoLimit(w) /\ l > Len(w) BY <1>1, DAREAssumption DEF NoLimit
  <1>3. w = After(w, Least(0 * MaxPackageSize, Len(w)))
    <2>1. PICK c \in Nat : c = MaxPackageSize
      BY DAREAssumption DEF MaxPackageSize, HeaderSize, TagSize
    <2>2. Least(0 * MaxPackageSize, Len(w)) = 0 BY <1>1, <2>1 DEF Least
    <2>3. After(w, 0) = w BY <1>1 DEF After
    <2>4. QED BY <2>2, <2>3
  <1>4. FromThere(j, w, w, 0, 0, l) BY <1>1, <1>2, <1>3, Zenon DEF FromThere
  <1>5. j.off = Edge(j, 0) + 0 /\ 0 < MaxPayloadSize /\ 0 \in Nat
    <2>1. j.off = 0 /\ MaxPayloadSize \in Nat \ {0} BY JobIs
    <2>2. Edge(j, 0) = 0 BY EdgeIs
    <2>3. QED BY <2>1, <2>2
  <1>6. DecOk(j, w, NewDec(w, 0, 0, l)) /\ NewDec(w, 0, 0, l).status = "open"
    BY <1>1, <1>4, <1>5, NewDecOk
  <1>7. QED BY <1>2, <1>6

\* The stream is sent, and read.
LEMMA SendDecInv ==
  ASSUME EncInv, DecInv, Send
  PROVE  DecInv'
  <1>1. /\ enc.status = "eof" /\ dec.status = "none" /\ UNCHANGED <<job, enc>>
        /\ \/ /\ job.to \in {"reader", "writer"}
              /\ \E w \in {wire} \cup Altered(wire) :
                   /\ wire' = w
                   /\ same' = (w = wire)
                   /\ dec' = NewDec(w, 0, 0, NoLimit(w))
           \/ job.to = "readAt" /\ dec' = ReadAt(wire) /\ UNCHANGED <<wire, same>>
           \/ job.to = "range" /\ dec' = ReadRange(wire) /\ UNCHANGED <<wire, same>>
    BY DEF Send
  <1>2. EncInv' /\ dec'.status = "open" BY SendEncInv
  <1>3. Job(job) /\ Whole(job, wire) BY <1>1 DEF EncInv, EncMade, MadeSoFar
  <1>4. DecOk(job, wire', dec')
    <2>1. CASE job.to \in {"reader", "writer"}
      <3>1. dec' = NewDec(wire', 0, 0, NoLimit(wire')) BY <1>1, <2>1
      <3>2. Sound(job', wire')
        <4>1. "open" # "none" OBVIOUS
        <4>2. dec'.status # "none" BY <1>2, <4>1
        <4>3. QED BY <1>2, <4>2 DEF EncInv
      <3>3. Sound(job, wire') BY <1>1, <3>2
      <3>4. QED BY <1>3, <2>1, <3>1, <3>3, ReadAllOk
    <2>2. CASE job.to = "readAt"
      <3>1. dec' = ReadAt(wire) /\ wire' = wire BY <1>1, <2>2
      <3>2. dec' = NewDec(After(wire, Least((job.off \div MaxPayloadSize) * MaxPackageSize, Len(wire))),
                           job.off \div MaxPayloadSize, job.off % MaxPayloadSize, job.length)
        BY <3>1 DEF ReadAt
      <3>3. DecOk(job, wire, dec') BY <1>3, <2>2, <3>2, ReadAtOk
      <3>4. QED BY <3>1, <3>3
    <2>3. CASE job.to = "range"
      <3>1. dec' = ReadRange(wire) /\ wire' = wire BY <1>1, <2>3
      <3>2. PICK r : r = GetDecryptedRange(Len(wire), job.off, job.length) OBVIOUS
      <3>3. dec' = NewDec(SubSeq(wire, r.encOff + 1, r.encOff + r.encLength), r.seq, r.skip, job.length)
        BY <3>1, <3>2 DEF ReadRange
      <3>4. DecOk(job, wire, dec') BY <1>3, <2>3, <3>2, <3>3, ReadRangeOk
      <3>5. QED BY <3>1, <3>4
    <2>4. QED BY <1>1, <2>1, <2>2, <2>3
  <1>5. DecOk(job', wire', dec') /\ dec'.status # "none" BY <1>1, <1>2, <1>4
  <1>6. QED BY <1>2, <1>5 DEF DecInv

(***************************************************************************)
(* Only what was encrypted comes out.                                      *)
(***************************************************************************)
\* Encrypting and decrypting.
DAREInv == EncInv /\ DecInv

\* Nothing is encrypted or decrypted yet.
LEMMA DAREInitInv == DAREInit => DAREInv
  <1>1. SUFFICES ASSUME DAREInit PROVE DAREInv OBVIOUS
  <1>2. EncInv BY <1>1, EncInitInv
  <1>3. dec = [NewDec(<<>>, 0, 0, 0) EXCEPT !.status = "none"] BY <1>1 DEF DAREInit
  <1>4. dec.status = "none" /\ dec.out = <<>> BY <1>3 DEF NewDec
  <1>5. DecInv BY <1>4 DEF DecInv
  <1>6. QED BY <1>2, <1>5 DEF DAREInv

\* While the stream is made nothing is read.
LEMMA EncKeepsDec ==
  ASSUME DecInv, dec.status = "none", dec' = dec
  PROVE  DecInv'
  BY DEF DecInv

\* Only a stream that is sent is read.
LEMMA EncAlone ==
  ASSUME EncInv,
         \/ enc.status # "eof"
         \/ enc.offset > 0
         \/ ~EncEnds(enc)
         \/ SealNow(Len(enc.pending))
  PROVE  dec.status = "none"
  BY EncAwake

\* Who encrypts.
LEMMA EncodersStep ==
  ASSUME EncInv, \E n \in Rooms : EncRead(n) \/ EncWrite(n)
  PROVE  EncInv' /\ dec.status = "none" /\ dec' = dec
  <1>1. PICK n \in Rooms : EncRead(n) \/ EncWrite(n) OBVIOUS
  <1>2. n \in Nat BY DAREAssumption
  <1>3. enc.status # "eof" /\ dec' = dec BY <1>1 DEF EncRead, EncWrite
  <1>4. dec.status = "none" BY <1>3, EncAlone
  <1>5. EncInv' BY <1>1, <1>2, EncReadInv, EncWriteInv
  <1>6. QED BY <1>3, <1>4, <1>5

\* Who makes packages.
LEMMA PackagesStep ==
  ASSUME EncInv, EncDrain \/ EncEOF \/ EncWhole \/ EncPart \/ EncWriteSeals \/ EncClose
  PROVE  EncInv' /\ dec.status = "none" /\ dec' = dec
  <1>1. EncInv' BY EncDrainInv, EncEOFInv, EncWholeInv, EncPartInv, EncWriteSealsInv, EncCloseInv
  <1>2. dec' = dec BY DEF EncDrain, EncEOF, EncWhole, EncPart, EncWriteSeals, EncClose
  <1>3. \/ enc.status # "eof"
        \/ enc.offset > 0
        \/ ~EncEnds(enc)
        \/ SealNow(Len(enc.pending))
    BY Zenon DEF EncDrain, EncEOF, EncWhole, EncPart, EncWriteSeals, EncClose
  <1>4. QED BY <1>1, <1>2, <1>3, EncAlone

\* Who decrypts.
DecActs ==
  \/ \E n \in Rooms : DecRead(n) \/ DecWrite(n)
  \/ DecFirst \/ DecDrain \/ DecEOF \/ DecTampered \/ DecWhole \/ DecPart
  \/ DecWriteOpens \/ DecClose

\* A reader or writer that gives data goes on or ends.
LEMMA GivenGoesOn ==
  ASSUME NEW d, "status" \in DOMAIN d, d.status = "open", NEW s
  PROVE  /\ "status" \in DOMAIN Given(d, s)
         /\ Given(d, s).status \in {"open", "eof"}
  <1>1. CASE d.skip > 0 BY <1>1 DEF Given
  <1>2. CASE ~(d.skip > 0) BY <1>2 DEF Given
  <1>3. QED BY <1>1, <1>2

\* One that fails ends.
LEMMA FailsEnds ==
  ASSUME "status" \in DOMAIN dec, NEW err \in Failures, DecFails(err)
  PROVE  dec'.status # "none"
  BY DEF DecFails, Failures

\* Who decrypts has begun.
LEMMA DecGoesOn ==
  ASSUME "status" \in DOMAIN dec, dec.status = "open", DecActs
  PROVE  dec'.status # "none"
  <1>1. CASE \E n \in Rooms : DecRead(n) \/ DecWrite(n)
    <2>1. PICK n \in Rooms : DecRead(n) \/ DecWrite(n) BY <1>1
    <2>2. CASE DecRead(n) BY <2>2 DEF DecRead
    <2>3. CASE DecWrite(n) /\ dec.finalized
      <3>1. DecFails("unexpected data") /\ "unexpected data" \in Failures
        BY <2>3 DEF DecWrite, Failures
      <3>2. QED BY <3>1, FailsEnds
    <2>4. CASE DecWrite(n) /\ ~dec.finalized BY <2>4 DEF DecWrite
    <2>5. QED BY <2>1, <2>2, <2>3, <2>4
  <1>2. CASE DecFirst
    <2>1. CASE dec.src = <<>>
      <3>1. DecFails("eof") /\ "eof" \in Failures BY <1>2, <2>1 DEF DecFirst, Failures
      <3>2. QED BY <3>1, FailsEnds
    <2>2. CASE dec.src # <<>> /\ dec.src[1].kind # "lead"
      <3>1. DecFails("unsupported version") /\ "unsupported version" \in Failures
        BY <1>2, <2>2 DEF DecFirst, Failures
      <3>2. QED BY <3>1, FailsEnds
    <2>3. CASE dec.src # <<>> /\ dec.src[1].kind = "lead" BY <1>2, <2>3 DEF DecFirst
    <2>4. QED BY <2>1, <2>2, <2>3
  <1>3. CASE DecDrain
    <2>1. PICK o, s : dec' = Given([dec EXCEPT !.offset = o], s) BY <1>3 DEF DecDrain
    <2>2. "status" \in DOMAIN [dec EXCEPT !.offset = o] /\ [dec EXCEPT !.offset = o].status = "open"
      OBVIOUS
    <2>3. QED BY <2>1, <2>2, GivenGoesOn
  <1>4. CASE DecEOF
    <2>1. PICK err : err \in Failures /\ DecFails(err) BY <1>4 DEF DecEOF, Failures
    <2>2. QED BY <2>1, FailsEnds
  <1>5. CASE DecTampered
    <2>1. DecFails("tampered") /\ "tampered" \in Failures BY <1>5 DEF DecTampered, Failures
    <2>2. QED BY <2>1, FailsEnds
  <1>6. PICK o : o = Opened(dec, Fetched(dec)) OBVIOUS
  <1>7. "status" \in DOMAIN o /\ o.status = "open" BY <1>6 DEF Opened
  <1>8. CASE DecWhole
    <2>1. dec' = Given(o, Payload(Fetched(dec))) BY <1>6, <1>8 DEF DecWhole
    <2>2. QED BY <1>7, <2>1, GivenGoesOn
  <1>9. CASE DecPart
    <2>1. PICK b, x, s : dec' = [Given([o EXCEPT !.buffer = b, !.offset = x], s) EXCEPT !.room = 0]
      BY <1>6, <1>9 DEF DecPart
    <2>2. PICK q : q = [o EXCEPT !.buffer = b, !.offset = x] OBVIOUS
    <2>3. "status" \in DOMAIN q /\ q.status = "open" BY <1>7, <2>2
    <2>4. "status" \in DOMAIN Given(q, s) /\ Given(q, s).status \in {"open", "eof"}
      BY <2>3, GivenGoesOn
    <2>5. PICK g : g = Given(q, s) OBVIOUS
    <2>6. dec' = [g EXCEPT !.room = 0] /\ "status" \in DOMAIN g /\ g.status \in {"open", "eof"}
      BY <2>1, <2>2, <2>4, <2>5
    <2>7. QED BY <2>6
  <1>10. CASE DecWriteOpens
    <2>1. PICK p : p = Fetched([dec EXCEPT !.src = dec.pending]) OBVIOUS
    <2>2. CASE ~Opens(dec, p)
      <3>1. DecFails("tampered") /\ "tampered" \in Failures
        BY <1>10, <2>1, <2>2 DEF DecWriteOpens, Failures
      <3>2. QED BY <3>1, FailsEnds
    <2>3. CASE Opens(dec, p)
      <3>1. dec' = [Opened(dec, p) EXCEPT !.src = dec.src, !.pending = After(dec.pending, Len(p)),
                                          !.out = @ \o Payload(p)]
        BY <1>10, <2>1, <2>3 DEF DecWriteOpens
      <3>2. PICK q : q = Opened(dec, p) OBVIOUS
      <3>3. "status" \in DOMAIN q /\ q.status = "open" BY <3>2 DEF Opened
      <3>4. QED BY <3>1, <3>2, <3>3
    <2>4. QED BY <2>2, <2>3
  <1>11. CASE DecClose
    <2>1. PICK x \in BOOLEAN : x <=> (dec.version = 10 \/ dec.finalized \/ ~Opens(dec, dec.pending))
      BY Zenon
    <2>2. CASE dec.pending = <<>>
      <3>1. DecFails("eof") /\ "eof" \in Failures BY <1>11, <2>2 DEF DecClose, Failures
      <3>2. QED BY <3>1, FailsEnds
    <2>3. CASE dec.pending # <<>> /\ x
      <3>1. DecFails("tampered") /\ "tampered" \in Failures
        BY <1>11, <2>1, <2>3 DEF DecClose, Failures
      <3>2. QED BY <3>1, FailsEnds
    <2>4. CASE dec.pending # <<>> /\ ~x
      <3>1. dec' = [dec EXCEPT !.out = @ \o Payload(dec.pending), !.pending = <<>>,
                               !.finalized = dec.pending[2].final, !.status = "eof"]
        BY <1>11, <2>1, <2>4 DEF DecClose
      <3>2. QED BY <3>1
    <2>5. QED BY <2>2, <2>3, <2>4
  <1>12. QED BY <1>1, <1>2, <1>3, <1>4, <1>5, <1>8, <1>9, <1>10, <1>11 DEF DecActs

\* A step of decrypting.
LEMMA DecActsStep ==
  ASSUME EncInv, DecInv, DecActs
  PROVE  EncInv' /\ DecInv'
  <1>1. dec.status = "open" /\ UNCHANGED <<job, enc, wire, same>>
    BY Zenon DEF DecActs, DecRead, DecWrite, DecFirst, DecDrain, DecEOF, DecTampered, DecWhole, DecPart,
       DecWriteOpens, DecClose, DecOpens, Reading, Writing, DecFails
  <1>2. DecInv'
    <2>1. CASE \E n \in Rooms : DecRead(n) \/ DecWrite(n)
      <3>1. PICK n \in Rooms : DecRead(n) \/ DecWrite(n) BY <2>1
      <3>2. n \in Nat BY DAREAssumption
      <3>3. QED BY <3>1, <3>2, DecReadInv, DecWriteInv
    <2>2. CASE DecFirst \/ DecDrain \/ DecEOF \/ DecTampered
      BY <2>2, DecFirstInv, DecDrainInv, DecEOFInv, DecTamperedInv
    <2>3. CASE DecWhole \/ DecPart \/ DecWriteOpens \/ DecClose
      BY <2>3, DecWholeInv, DecPartInv, DecWriteOpensInv, DecCloseInv
    <2>4. QED BY <2>1, <2>2, <2>3 DEF DecActs
  <1>3. dec'.status # "none"
    <2>1. "status" \in DOMAIN dec
      <3>1. dec \in DecTypes(Toks(job)) BY <1>1, DecIs
      <3>2. QED BY <3>1 DEF DecTypes
    <2>2. QED BY <1>1, <2>1, DecGoesOn
  <1>4. QED BY <1>1, <1>2, <1>3, DecStep

\* A step of either.
LEMMA DARENextInv == DAREInv /\ [DARENext]_dareVars => DAREInv'
  <1>1. SUFFICES ASSUME DAREInv, [DARENext]_dareVars PROVE DAREInv' OBVIOUS
  <1>2. EncInv /\ DecInv BY <1>1 DEF DAREInv
  <1>3. CASE UNCHANGED dareVars
    <2>1. job' = job /\ enc' = enc /\ wire' = wire /\ same' = same /\ dec' = dec
      BY <1>3 DEF dareVars
    <2>2. EncInv' BY <1>2, <2>1 DEF EncInv
    <2>3. DecInv' BY <1>2, <2>1 DEF DecInv
    <2>4. QED BY <2>2, <2>3 DEF DAREInv
  <1>4. CASE \E n \in Rooms : EncRead(n) \/ EncWrite(n)
    <2>1. EncInv' /\ dec.status = "none" /\ dec' = dec BY <1>2, <1>4, EncodersStep
    <2>2. QED BY <1>2, <2>1, EncKeepsDec DEF DAREInv
  <1>5. CASE EncDrain \/ EncEOF \/ EncWhole \/ EncPart \/ EncWriteSeals \/ EncClose
    <2>1. EncInv' /\ dec.status = "none" /\ dec' = dec BY <1>2, <1>5, PackagesStep
    <2>2. QED BY <1>2, <2>1, EncKeepsDec DEF DAREInv
  <1>6. CASE Send BY <1>2, <1>6, SendEncInv, SendDecInv DEF DAREInv
  <1>7. CASE DecActs BY <1>2, <1>7, DecActsStep DEF DAREInv
  <1>8. QED BY <1>1, <1>3, <1>4, <1>5, <1>6, <1>7, Zenon DEF DARENext, DecActs

\* The end of the range is in the data.
LEMMA OffsetFits ==
  ASSUME NEW j, Job(j)
  PROVE  /\ j.off \in Nat /\ j.off <= Len(j.plain) /\ Len(j.plain) \in Nat
         /\ WantedLen(j) \in Nat /\ j.off + WantedLen(j) <= Len(j.plain)
  <1>1. j.off \in Nat /\ j.length \in Nat /\ Len(j.plain) \in Nat BY JobIs, PlainIs
  <1>2. CASE j.to \in {"reader", "writer"}
    <2>1. j.off = 0 BY <1>2, JobIs
    <2>2. WantedLen(j) = Len(j.plain) BY <1>2 DEF WantedLen
    <2>3. QED BY <1>1, <2>1, <2>2
  <1>3. CASE j.to \notin {"reader", "writer"}
    <2>1. j.off + j.length <= Len(j.plain) BY <1>3, JobIs
    <2>2. WantedLen(j) = j.length BY <1>3 DEF WantedLen
    <2>3. QED BY <1>1, <2>1, <2>2
  <1>4. QED BY <1>2, <1>3

\* Before anything is read nothing came out.
LEMMA AlwaysDecrypted ==
  ASSUME DAREInv
  PROVE  Job(job) /\ Decrypted(job, dec)
  <1>1. EncInv /\ DecInv /\ Job(job) BY DEF DAREInv, EncInv
  <1>2. CASE dec.status = "none"
    <2>1. dec.out = <<>> BY <1>1, <1>2 DEF DecInv
    <2>2. PICK o \in Nat, l \in Nat, w \in Nat :
            o = job.off /\ l = Len(job.plain) /\ o <= l /\ w = WantedLen(job)
      BY <1>1, OffsetFits
    <2>3. job.plain \in Seq(Toks(job)) BY <1>1, PlainIs
    <2>4. Part(job.plain, o, o) = <<>> BY <2>2, <2>3, NoPart
    <2>5. Len(<<>>) = 0 /\ <<>> \in Seq(Toks(job)) /\ o + 0 = o /\ "none" # "eof" BY <2>2
    <2>6. QED BY <1>1, <1>2, <2>1, <2>2, <2>4, <2>5 DEF Decrypted
  <1>3. CASE dec.status = "open"
    <2>1. "open" # "none" OBVIOUS
    <2>2. DecOk(job, wire, dec) BY <1>1, <1>3, <2>1 DEF DecInv
    <2>3. QED BY <1>1, <2>2, OkIsDecrypted
  <1>4. CASE dec.status \notin {"none", "open"} BY <1>1, <1>4 DEF DecInv
  <1>5. QED BY <1>2, <1>3, <1>4

\* What is wanted is what lies between the offsets.
LEMMA WantedIs ==
  ASSUME Job(job)
  PROVE  Wanted = Part(job.plain, job.off, job.off + WantedLen(job))
  <1>1. CASE job.to \in {"reader", "writer"}
    <2>1. job.off = 0 /\ Len(job.plain) \in Nat /\ job.plain \in Seq(Toks(job))
      BY <1>1, JobIs, PlainIs
    <2>2. WantedLen(job) = Len(job.plain) /\ Wanted = job.plain BY <1>1 DEF WantedLen, Wanted
    <2>3. Part(job.plain, 0, Len(job.plain)) = job.plain BY <2>1, WholePart
    <2>4. 0 + Len(job.plain) = Len(job.plain) BY <2>1
    <2>5. QED BY <2>1, <2>2, <2>3, <2>4
  <1>2. CASE job.to \notin {"reader", "writer"} BY <1>2 DEF WantedLen, Wanted, Part
  <1>3. QED BY <1>1, <1>2

\* What came out so far is right.
LEMMA DecryptedIsPlaintext ==
  ASSUME DAREInv
  PROVE  OnlyPlaintext
  <1>1. Job(job) /\ Decrypted(job, dec) BY AlwaysDecrypted
  <1>2. PICK T, p, s, v : T = Toks(job) /\ p = job.plain /\ s = dec.out /\ v = Wanted OBVIOUS
  <1>3. PICK o \in Nat, n \in Nat, m \in Nat :
          o = job.off /\ n = WantedLen(job) /\ o + n <= Len(p) /\ m = Len(s) /\ m <= n /\ s \in Seq(T)
    <2>1. dec.out \in Seq(Toks(job)) /\ Len(dec.out) <= WantedLen(job) BY <1>1 DEF Decrypted
    <2>2. /\ job.off \in Nat /\ WantedLen(job) \in Nat /\ job.off + WantedLen(job) <= Len(job.plain)
      BY <1>1, OffsetFits
    <2>3. QED BY <1>2, <2>1, <2>2
  <1>4. p \in Seq(T) BY <1>1, <1>2, PlainIs
  <1>5. v = Part(p, o, o + n) BY <1>1, <1>2, <1>3, WantedIs
  <1>6. s = Part(p, o, o + m) BY <1>1, <1>2, <1>3 DEF Decrypted
  <1>7. v \in Seq(T) /\ Len(v) = n
    <2>1. PICK y \in Nat : y = o + n /\ o <= y /\ y - o = n /\ y <= Len(p) BY <1>3
    <2>2. Part(p, o, y) \in Seq(T) /\ Len(Part(p, o, y)) = y - o BY <1>4, <2>1, PartIs
    <2>3. QED BY <1>5, <2>1, <2>2
  <1>8. SubSeq(v, 1, m) = s
    <2>1. o + n \in Nat /\ o <= o + n /\ (o + n) - o = n /\ o + 0 = o OBVIOUS
    <2>2. Part(Part(p, o, o + n), 0, m) = Part(p, o + 0, o + m) BY <1>3, <1>4, <2>1, PartOfPart
    <2>3. Part(v, 0, m) = s BY <1>5, <1>6, <2>1, <2>2
    <2>4. QED BY <2>3 DEF Part
  <1>9. IsPrefix(s, v)
    <2>1. SubSeq(s, 1, m) = s
      <3>1. Part(s, 0, Len(s)) = s BY <1>3, WholePart
      <3>2. QED BY <1>3, <3>1 DEF Part
    <2>2. Len(s) <= Len(v) /\ SubSeq(s, 1, Len(s)) = SubSeq(v, 1, Len(s)) BY <1>3, <1>7, <1>8, <2>1
    <2>3. QED BY <2>2 DEF IsPrefix
  <1>10. ASSUME dec.status = "eof" /\ dec.version = 20 /\ job.to # "writer" PROVE dec.out = Wanted
    <2>1. Len(dec.out) = WantedLen(job) BY <1>1, <1>10 DEF Decrypted
    <2>2. m = n BY <1>2, <1>3, <2>1
    <2>3. QED BY <1>2, <1>5, <1>6, <2>2
  <1>11. QED BY <1>2, <1>9, <1>10 DEF OnlyPlaintext

(***************************************************************************)
(* All of an intact stream comes out.                                      *)
(***************************************************************************)
\* Stream w has the k packages of the data.
AllMade(j, w, k) ==
  Made(j, w, k) /\ Edge(j, k) = Len(j.plain) /\ (k > 0 => Edge(j, k - 1) < Len(j.plain))

\* A package before the last.
LEMMA NumberIs ==
  ASSUME NEW j, Job(j), NEW w, NEW k \in Nat, AllMade(j, w, k), NEW i \in Nat, i < k
  PROVE  /\ i \in Numbers(j)
         /\ Edge(j, i + 1) = Len(j.plain) <=> i + 1 = k
  <1>1. PICK m \in Nat : m = k - 1 /\ i <= m
    <2>1. k - 1 \in Nat /\ i <= k - 1 OBVIOUS
    <2>2. QED BY <2>1
  <1>2. k > 0 /\ Edge(j, k) = Len(j.plain) /\ Edge(j, m) < Len(j.plain) BY <1>1 DEF AllMade
  <1>3. Edge(j, i) <= Edge(j, m) BY <1>1, EdgesGrow
  <1>4. Edge(j, i) \in Nat /\ Edge(j, m) \in Nat /\ Len(j.plain) \in Nat BY EdgeIs
  <1>5. i \in Numbers(j) BY <1>2, <1>3, <1>4 DEF Numbers
  <1>6. ASSUME i + 1 # k PROVE Edge(j, i + 1) # Len(j.plain)
    <2>1. i + 1 \in Nat /\ i + 1 <= m BY <1>1, <1>6
    <2>2. Edge(j, i + 1) <= Edge(j, m) BY <1>1, <2>1, EdgesGrow
    <2>3. Edge(j, i + 1) \in Nat BY EdgeIs
    <2>4. QED BY <1>2, <1>4, <2>2, <2>3
  <1>7. ASSUME i + 1 = k PROVE Edge(j, i + 1) = Len(j.plain) BY <1>2, <1>7
  <1>8. QED BY <1>5, <1>6, <1>7

\* Packages are where the last ended.
LEMMA NextInStream ==
  ASSUME NEW j, Job(j), NEW w, NEW k \in Nat, AllMade(j, w, k), NEW i \in Nat, NEW e \in Nat, i < e, e <= k,
         NEW a, a = Part(w, Start(j, i), Start(j, e)), NEW n, n = Len(Package(j, i))
  PROVE  /\ n \in Nat /\ n <= Len(a) /\ Len(a) \in Nat /\ a \in Seq(Toks(j))
         /\ Upto(a, n) = Package(j, i)
         /\ After(a, n) = Part(w, Start(j, i + 1), Start(j, e))
         /\ a[1] = Lead(j, i)
  <1>1. i \in Numbers(j) /\ i + 1 \in Nat /\ i + 1 <= e
    <2>1. i < k OBVIOUS
    <2>2. i \in Numbers(j) BY <2>1, NumberIs
    <2>3. QED BY <2>2
  <1>2. w \in Seq(Toks(j)) /\ Len(w) = Start(j, k) /\ Part(w, Start(j, i), Start(j, i + 1)) = Package(j, i)
    BY DEF AllMade, Made, InOrder
  <1>3. PICK x \in Nat, y \in Nat, z \in Nat :
          x = Start(j, i) /\ y = Start(j, i + 1) /\ z = Start(j, e) /\ x <= y /\ y <= z /\ z <= Len(w)
    <2>1. Start(j, i + 1) <= Start(j, e) BY <1>1, EdgesGrow, StartsGrow
    <2>2. Start(j, e) <= Start(j, k) BY StartsGrow
    <2>3. Start(j, i) <= Start(j, i + 1)
      <3>1. i <= i + 1 OBVIOUS
      <3>2. QED BY <1>1, <3>1, StartsGrow
    <2>4. Start(j, i) \in Nat /\ Start(j, i + 1) \in Nat /\ Start(j, e) \in Nat BY <1>1, StartIs
    <2>5. QED BY <1>2, <2>1, <2>2, <2>3, <2>4
  <1>4. PICK T : T = Toks(j) OBVIOUS
  <1>5. w \in Seq(T) BY <1>2, <1>4
  <1>6. Part(w, x, y) = Package(j, i) /\ a = Part(w, x, z) BY <1>2, <1>3
  <1>7. Len(Part(w, x, y)) = y - x /\ Part(w, x, y) \in Seq(T)
    <2>1. y <= Len(w)
      <3>1. Len(w) \in Nat BY <1>5
      <3>2. QED BY <1>3, <3>1
    <2>2. QED BY <1>3, <1>5, <2>1, PartIs
  <1>8. a \in Seq(T) /\ Len(a) = z - x
    <2>1. x <= z BY <1>3
    <2>2. w \in Seq(T) /\ z <= Len(w) BY <1>3, <1>5
    <2>3. /\ Part(w, x, z) \in Seq(T) /\ Len(Part(w, x, z)) = z - x /\ Len(Part(w, x, z)) \in Nat
          /\ \A m \in 1 .. z - x : Part(w, x, z)[m] = w[x + m]
      BY <2>1, <2>2, PartIs
    <2>4. QED BY <1>6, <2>3
  <1>9. n = y - x /\ n \in Nat /\ n <= Len(a) /\ Len(a) \in Nat BY <1>3, <1>6, <1>7, <1>8
  <1>10. PICK m \in Nat : m = n /\ x + m = y /\ m <= z - x /\ z - x \in Nat /\ x + (z - x) = z
    <2>1. PICK m \in Nat : m = n BY <1>9
    <2>2. m = y - x BY <1>9, <2>1
    <2>3. x <= y /\ y <= z BY <1>3
    <2>4. x + m = y /\ m <= z - x /\ z - x \in Nat /\ x + (z - x) = z BY <2>2, <2>3
    <2>5. QED BY <2>1, <2>4
  <1>11. Upto(a, n) = Package(j, i)
    <2>1. x <= z /\ 0 <= m /\ m <= z - x /\ 0 \in Nat BY <1>3, <1>10
    <2>2. Part(Part(w, x, z), 0, m) = Part(w, x + 0, x + m) BY <1>3, <1>5, <2>1, PartOfPart
    <2>3. x + 0 = x OBVIOUS
    <2>4. Part(a, 0, m) = Part(w, x, y) BY <1>6, <1>10, <2>2, <2>3
    <2>5. Upto(a, m) = Part(a, 0, m) BY DEF Upto, Part
    <2>6. QED BY <1>6, <1>10, <2>4, <2>5
  <1>12. After(a, n) = Part(w, Start(j, i + 1), Start(j, e))
    <2>1. PICK l \in Nat : l = z - x /\ l = Len(a) /\ m <= l /\ x + l = z
      <3>1. PICK l \in Nat : l = z - x BY <1>10
      <3>2. m <= l /\ x + l = z BY <1>10, <3>1
      <3>3. QED BY <1>8, <3>1, <3>2
    <2>2. x <= z /\ l <= z - x /\ z <= Len(w)
      <3>1. x <= z /\ z <= Len(w) BY <1>3
      <3>2. QED BY <2>1, <3>1
    <2>3. Part(Part(w, x, z), m, l) = Part(w, x + m, x + l)
      <3>1. m <= l BY <2>1
      <3>2. QED BY <1>5, <2>2, <3>1, PartOfPart
    <2>4. Part(a, m, l) = Part(w, y, z) BY <1>6, <1>10, <2>1, <2>3
    <2>5. After(a, m) = Part(a, m, l) BY <2>1 DEF After, Part
    <2>6. QED BY <1>3, <1>10, <2>4, <2>5
  <1>13. a[1] = Lead(j, i)
    <2>1. Package(j, i)[1] = Lead(j, i) /\ Len(Package(j, i)) = Len(Piece(j, i)) + 3 /\ Len(Piece(j, i)) \in Nat
      BY <1>1, PackageIs, PieceIs
    <2>2. n > 0 BY <2>1
    <2>3. a \in Seq(T) /\ m <= Len(a) /\ 1 <= m BY <1>8, <1>9, <1>10, <2>2
    <2>4. Upto(a, m)[1] = a[1]
      <3>1. PICK b : b = Upto(a, m) OBVIOUS
      <3>2. b = SubSeq(a, 1, m) BY <3>1 DEF Upto
      <3>3. b[1] = a[1] BY <2>3, <3>2
      <3>4. QED BY <3>1, <3>3
    <2>5. QED BY <1>10, <1>11, <2>1, <2>4
  <1>14. QED BY <1>4, <1>8, <1>9, <1>11, <1>12, <1>13

\* Version 2.0 takes a whole package of the largest size, or the last.
LEMMA LargestNext ==
  ASSUME NEW j, Job(j), j.version = 20, NEW w, NEW k \in Nat, AllMade(j, w, k),
         NEW i \in Nat, NEW e \in Nat, i < e, e <= k,
         NEW a, a = Part(w, Start(j, i), Start(j, e)), NEW n, n = Len(Package(j, i))
  PROVE  /\ n = Least(Len(a), MaxPackageSize)
         /\ n < MaxPackageSize => i + 1 = k
         /\ Ends(j, i) \/ Len(Piece(j, i)) = MaxPayloadSize
         /\ Ends(j, i) <=> i + 1 = k
  <1>1. /\ n \in Nat /\ n <= Len(a) /\ Len(a) \in Nat
    BY NextInStream
  <1>2. i \in Numbers(j) /\ (Edge(j, i + 1) = Len(j.plain) <=> i + 1 = k)
    <2>1. i < k OBVIOUS
    <2>2. QED BY <2>1, NumberIs
  <1>3. PICK s \in Nat : s = MaxPayloadSize /\ s = j.size /\ MaxPackageSize = s + 3
    <2>1. j.size = MaxPayloadSize /\ MaxPayloadSize \in Nat \ {0} BY JobIs
    <2>2. QED BY <2>1 DEF MaxPackageSize, HeaderSize, TagSize
  <1>4. PICK p \in Nat : p = Len(Piece(j, i)) /\ n = p + 3 /\ p <= s
    BY <1>2, <1>3, PackageIs, PieceIs
  <1>5. Ends(j, i) <=> i + 1 = k BY <1>2 DEF Ends
  <1>6. ASSUME i + 1 # k PROVE p = s
    <2>1. Edge(j, i + 1) < Len(j.plain)
      <3>1. Edge(j, i + 1) # Len(j.plain) BY <1>2, <1>6
      <3>2. Edge(j, i + 1) <= Len(j.plain) /\ Edge(j, i + 1) \in Nat /\ Len(j.plain) \in Nat
        BY EdgeIs
      <3>3. QED BY <3>1, <3>2
    <2>2. Edge(j, i + 1) = Edge(j, i) + j.size BY <2>1, EdgeIs
    <2>3. p = Edge(j, i + 1) - Edge(j, i) BY <1>4, PieceIs
    <2>4. Edge(j, i) \in Nat BY EdgeIs
    <2>5. QED BY <1>3, <2>2, <2>3, <2>4
  <1>7. n = Least(Len(a), MaxPackageSize)
    <2>1. CASE i + 1 # k BY <1>1, <1>3, <1>4, <1>6, <2>1 DEF Least
    <2>2. CASE i + 1 = k
      <3>1. e = i + 1 BY <2>2
      <3>2. After(a, n) = Part(w, Start(j, i + 1), Start(j, e)) /\ a \in Seq(Toks(j))
        BY NextInStream
      <3>3. w \in Seq(Toks(j)) /\ Len(w) = Start(j, k) /\ Start(j, k) \in Nat
        BY StartIs DEF AllMade, Made
      <3>4. Part(w, Start(j, k), Start(j, k)) = <<>> BY <3>3, NoPart
      <3>5. After(a, n) = <<>> BY <2>2, <3>1, <3>2, <3>4
      <3>6. Len(After(a, n)) = Len(a) - n BY <1>1, <3>2, SplitIs
      <3>7. Len(<<>>) = 0 OBVIOUS
      <3>8. Len(a) - n = 0 BY <3>5, <3>6, <3>7
      <3>9. Len(a) = n BY <1>1, <3>8
      <3>10. QED BY <1>3, <1>4, <3>9 DEF Least
    <2>3. QED BY <2>1, <2>2
  <1>8. QED BY <1>3, <1>4, <1>5, <1>6, <1>7

\* A part without anything has no package.
LEMMA NothingNext ==
  ASSUME NEW j, Job(j), NEW w, NEW k \in Nat, AllMade(j, w, k), NEW i \in Nat, NEW e \in Nat, i <= e, e <= k,
         Part(w, Start(j, i), Start(j, e)) = <<>>
  PROVE  i = e
  <1>1. SUFFICES ASSUME i < e PROVE FALSE OBVIOUS
  <1>2. PICK a, n : a = Part(w, Start(j, i), Start(j, e)) /\ n = Len(Package(j, i)) OBVIOUS
  <1>3. n \in Nat /\ n <= Len(a) BY <1>1, <1>2, NextInStream
  <1>4. n > 0
    <2>1. i < k BY <1>1
    <2>2. i \in Numbers(j) BY <2>1, NumberIs
    <2>3. Len(Package(j, i)) = Len(Piece(j, i)) + 3 /\ Len(Piece(j, i)) \in Nat
      BY <2>2, PackageIs, PieceIs
    <2>4. QED BY <1>2, <2>3
  <1>5. Len(<<>>) = 0 OBVIOUS
  <1>6. QED BY <1>2, <1>3, <1>4, <1>5

\* The package of the number opens.
LEMMA PackageOpens ==
  ASSUME NEW j, Job(j), NEW d, NEW k, k \in Numbers(j), d.seq = k, d.version = j.version,
         j.version = 20 => ~d.finalized /\ d.refNonce \in {-1, 0}
                           /\ (Ends(j, k) \/ Len(Piece(j, k)) = MaxPayloadSize)
  PROVE  Opens(d, Package(j, k))
  <1>1. PICK p : p = Package(j, k) OBVIOUS
  <1>2. k \in Nat BY DEF Numbers
  <1>3. PICK l \in Nat : l = Len(Piece(j, k)) /\ l > 0
    <2>1. Edge(j, k) < Edge(j, k + 1) BY <1>2, EdgeIs DEF Numbers
    <2>2. Len(Piece(j, k)) = Edge(j, k + 1) - Edge(j, k) /\ Len(Piece(j, k)) \in Nat
      BY <1>2, PieceIs
    <2>3. Edge(j, k) \in Nat /\ Edge(j, k + 1) \in Nat BY <1>2, EdgeIs
    <2>4. QED BY <2>1, <2>2, <2>3
  <1>4. Len(p) = l + 3 /\ p[1] = Lead(j, k) /\ p[2] = Mark(j, k) /\ p[l + 3] = SealMark(j, k)
    BY <1>1, <1>3, PackageIs
  <1>5. p[1].kind = "lead" /\ p[1].version = j.version /\ p[1].len = l
    BY <1>3, <1>4 DEF Lead, TokenOf
  <1>6. p[2].kind = "nonce" /\ p[2].final = Ends(j, k) /\ p[2].nonce = (IF j.version = 10 THEN k ELSE 0)
    BY <1>4 DEF Mark, TokenOf
  <1>7. Last(p) = SealMark(j, k) BY <1>4 DEF Last
  <1>8. Last(p).of = <<j.version, l, k, Ends(j, k), Piece(j, k)>>
    BY <1>3, <1>7 DEF SealMark, TagOf, TokenOf
  <1>9. Payload(p) = Piece(j, k) BY <1>1, PayloadIs
  <1>10. Nonce(d.version, p[2].nonce, d.seq) = k BY <1>2, <1>6 DEF Nonce
  <1>11. Last(p).of = <<d.version, p[1].len, Nonce(d.version, p[2].nonce, d.seq), p[2].final, Payload(p)>>
    BY <1>5, <1>6, <1>8, <1>9, <1>10
  <1>12. Len(p) > HeaderSize + TagSize /\ Len(p) = HeaderSize + p[1].len + TagSize
    BY <1>3, <1>4, <1>5 DEF HeaderSize, TagSize
  <1>13. d.version = 10 => p[2].nonce = d.seq BY <1>6
  <1>14. d.version = 20 => ~d.finalized /\ (p[2].final \/ p[1].len = MaxPayloadSize) /\ d.refNonce \in {-1, p[2].nonce}
    <2>1. SUFFICES ASSUME j.version = 20
                   PROVE ~d.finalized /\ (p[2].final \/ p[1].len = MaxPayloadSize) /\ d.refNonce \in {-1, p[2].nonce}
      OBVIOUS
    <2>2. p[2].nonce = 0 BY <1>6, <2>1
    <2>3. QED BY <1>3, <1>5, <1>6, <2>1, <2>2
  <1>15. Opens(d, p) BY <1>5, <1>6, <1>11, <1>12, <1>13, <1>14 DEF Opens
  <1>16. QED BY <1>1, <1>15

\* A reader takes the next package, and a writer that has it all.
LEMMA TakesNext ==
  ASSUME NEW j, Job(j), NEW w, NEW k \in Nat, AllMade(j, w, k),
         NEW i \in Nat, NEW e \in Nat, i < e, e <= k,
         NEW a, a = Part(w, Start(j, i), Start(j, e)), NEW n, n = Len(Package(j, i)),
         NEW m \in Nat, n <= m, m <= Len(a), j.version = 20 => n = Least(m, MaxPackageSize),
         NEW q, q = Upto(a, m), NEW d, d.src = q, d.version = j.version
  PROVE  Fetched(d) = Package(j, i) /\ q[1] = Lead(j, i) /\ Len(q) = m
  <1>1. PICK T : T = Toks(j) OBVIOUS
  <1>2. n \in Nat /\ Len(a) \in Nat /\ a \in Seq(T) /\ Upto(a, n) = Package(j, i) /\ a[1] = Lead(j, i)
    BY <1>1, NextInStream
  <1>3. i \in Numbers(j)
    <2>1. i < k OBVIOUS
    <2>2. QED BY <2>1, NumberIs
  <1>4. PICK l \in Nat : l = Len(Piece(j, i)) /\ n = l + 3 BY <1>3, PackageIs, PieceIs
  <1>5. Len(q) = m /\ q \in Seq(T)
    <2>1. Len(Upto(a, m)) = m /\ Upto(a, m) \in Seq(T) BY <1>2, SplitIs
    <2>2. QED BY <2>1
  <1>6. q[1] = a[1]
    <2>1. 1 <= m BY <1>2, <1>4
    <2>2. q = SubSeq(a, 1, m) BY DEF Upto
    <2>3. QED BY <1>2, <2>1, <2>2
  <1>7. q[1].kind = "lead" /\ q[1].len = l
    <2>1. q[1] = Lead(j, i) BY <1>2, <1>6
    <2>2. QED BY <1>4, <2>1 DEF Lead, TokenOf
  <1>8. PICK x : x = IF d.version = 20 \/ d.src[1].kind # "lead" THEN MaxPackageSize
                     ELSE HeaderSize + d.src[1].len + TagSize
    OBVIOUS
  <1>9. Least(Len(d.src), x) = n
    <2>1. CASE j.version = 20 BY <1>5, <1>8, <2>1
    <2>2. CASE j.version # 20
      <3>1. x = HeaderSize + l + TagSize BY <1>7, <1>8, <2>2
      <3>2. x = n BY <1>4, <3>1 DEF HeaderSize, TagSize
      <3>3. QED BY <1>2, <1>5, <3>2 DEF Least
    <2>3. QED BY <2>1, <2>2
  <1>10. Fetched(d) = Upto(q, n) BY <1>8, <1>9 DEF Fetched
  <1>11. Upto(q, n) = Upto(a, n)
    <2>1. Part(Part(a, 0, m), 0, n) = Part(a, 0 + 0, 0 + n)
      <3>1. 0 \in Nat /\ 0 <= m /\ m <= Len(a) /\ 0 <= n /\ n <= m - 0 BY <1>2
      <3>2. QED BY <1>2, <3>1, PartOfPart
    <2>2. 0 + 0 = 0 /\ 0 + n = n BY <1>2
    <2>3. QED BY <2>1, <2>2, UptoIs
  <1>12. QED BY <1>2, <1>5, <1>6, <1>10, <1>11

\* The reader or writer has opened the packages before its number, of k, and those up
\* to e are ahead.
Intact(j, w, d, k, e) ==
  /\ AllMade(j, w, k) /\ e <= k /\ d.seq <= e
  /\ j.off + WantedLen(j) <= Edge(j, e) /\ (j.to \in {"reader", "writer"} => e = k)
  /\ Ahead(d) = Part(w, Start(j, d.seq), Start(j, e))
  /\ d.version \in {0, j.version}
  /\ (d.version = 0 => d.pending = <<>> /\ d.offset = 0 /\ d.room = 0)
  /\ (j.version = 20 => d.refNonce \in {-1, 0})
  /\ (d.finalized => d.seq = k)
  /\ ((d.version = 20 /\ d.seq = k) => d.finalized)

\* Something is ahead as long as the packages are not all opened.
LEMMA SomethingAhead ==
  ASSUME NEW j, Job(j), NEW w, NEW d, d.seq \in Nat, NEW k \in Nat, NEW e \in Nat, Intact(j, w, d, k, e)
  PROVE  (Ahead(d) = <<>>) <=> (d.seq = e)
  <1>1. PICK i \in Nat : i = d.seq OBVIOUS
  <1>2. AllMade(j, w, k) /\ i <= e /\ e <= k /\ Ahead(d) = Part(w, Start(j, i), Start(j, e))
    BY <1>1 DEF Intact
  <1>3. ASSUME Ahead(d) = <<>> PROVE i = e BY <1>2, <1>3, NothingNext
  <1>4. ASSUME i = e PROVE Ahead(d) = <<>>
    <2>1. w \in Seq(Toks(j)) /\ Len(w) = Start(j, k) BY <1>2 DEF AllMade, Made
    <2>2. Start(j, e) \in Nat /\ Start(j, e) <= Start(j, k) BY <1>2, StartIs, StartsGrow
    <2>3. Start(j, e) <= Len(w) BY <2>1, <2>2
    <2>4. Part(w, Start(j, e), Start(j, e)) = <<>> BY <2>1, <2>2, <2>3, NoPart
    <2>5. QED BY <1>2, <1>4, <2>4
  <1>5. QED BY <1>1, <1>3, <1>4

\* What is taken opens.
LEMMA IntactOpens ==
  ASSUME NEW j, Job(j), NEW w, NEW d, d.seq \in Nat, NEW k \in Nat, NEW e \in Nat, Intact(j, w, d, k, e),
         d.version # 0, d.seq < e
  PROVE  Opens(d, Package(j, d.seq)) /\ d.seq \in Numbers(j)
  <1>1. PICK i \in Nat : i = d.seq OBVIOUS
  <1>2. AllMade(j, w, k) /\ i < e /\ e <= k BY <1>1 DEF Intact
  <1>3. i < k BY <1>2
  <1>4. i \in Numbers(j) BY <1>2, <1>3, NumberIs
  <1>5. d.version = j.version BY DEF Intact
  <1>6. ASSUME j.version = 20
        PROVE  ~d.finalized /\ d.refNonce \in {-1, 0} /\ (Ends(j, i) \/ Len(Piece(j, i)) = MaxPayloadSize)
    <2>1. d.refNonce \in {-1, 0} /\ ~d.finalized BY <1>1, <1>3, <1>6 DEF Intact
    <2>2. PICK a, n : a = Part(w, Start(j, i), Start(j, e)) /\ n = Len(Package(j, i)) OBVIOUS
    <2>3. Ends(j, i) \/ Len(Piece(j, i)) = MaxPayloadSize BY <1>2, <1>6, <2>2, LargestNext
    <2>4. QED BY <2>1, <2>3
  <1>7. Opens(d, Package(j, i)) BY <1>1, <1>4, <1>5, <1>6, PackageOpens
  <1>8. QED BY <1>1, <1>4, <1>7

\* And then the next one is ahead.
LEMMA IntactNext ==
  ASSUME NEW j, Job(j), NEW w, NEW d, d.seq \in Nat, NEW k \in Nat, NEW e \in Nat, Intact(j, w, d, k, e),
         d.version # 0, d.seq < e, NEW p, p = Package(j, d.seq),
         NEW f, Ahead(f) = After(Ahead(d), Len(p)), f.seq = d.seq + 1, f.version = d.version,
         f.refNonce = p[2].nonce, f.finalized <=> (d.version = 20 /\ p[2].final)
  PROVE  Intact(j, w, f, k, e)
  <1>1. PICK i \in Nat : i = d.seq OBVIOUS
  <1>2. AllMade(j, w, k) /\ i < e /\ e <= k /\ Ahead(d) = Part(w, Start(j, i), Start(j, e))
    BY <1>1 DEF Intact
  <1>3. i < k BY <1>2
  <1>4. i \in Numbers(j) /\ (Edge(j, i + 1) = Len(j.plain) <=> i + 1 = k) BY <1>2, <1>3, NumberIs
  <1>5. p[2] = Mark(j, i) BY <1>1, <1>4, PackageIs
  <1>6. p[2].final = Ends(j, i) /\ p[2].nonce = (IF j.version = 10 THEN i ELSE 0)
    BY <1>5 DEF Mark, TokenOf
  <1>7. d.version = j.version /\ f.version # 0 /\ j.version \in {10, 20} BY JobIs DEF Intact
  <1>8. Ahead(f) = Part(w, Start(j, i + 1), Start(j, e))
    <2>1. PICK a, n : a = Part(w, Start(j, i), Start(j, e)) /\ n = Len(Package(j, i)) OBVIOUS
    <2>2. After(a, n) = Part(w, Start(j, i + 1), Start(j, e)) BY <1>2, <2>1, NextInStream
    <2>3. QED BY <1>1, <1>2, <2>1, <2>2
  <1>9. f.finalized <=> (d.version = 20 /\ i + 1 = k) BY <1>4, <1>6, <1>7 DEF Ends
  <1>10. j.version = 20 => f.refNonce \in {-1, 0} BY <1>6
  <1>11. f.seq = i + 1 /\ i + 1 <= e BY <1>1, <1>2
  <1>12. j.off + WantedLen(j) <= Edge(j, e) /\ (j.to \in {"reader", "writer"} => e = k)
    BY DEF Intact
  <1>13. QED BY <1>2, <1>7, <1>8, <1>9, <1>10, <1>11, <1>12 DEF Intact

\* A step that opens nothing.
LEMMA IntactStays ==
  ASSUME NEW j, NEW w, NEW d, NEW k \in Nat, NEW e \in Nat, Intact(j, w, d, k, e),
         NEW f, Ahead(f) = Ahead(d), f.seq = d.seq, f.version = d.version, d.version # 0,
         f.refNonce = d.refNonce, f.finalized = d.finalized
  PROVE  Intact(j, w, f, k, e)
  BY DEF Intact

\* When nothing is ahead and nothing left, everything came out.
LEMMA IntactEnds ==
  ASSUME NEW j, Job(j), NEW w, NEW d, DecAt(j, w, d, <<>>), NEW k \in Nat, NEW e \in Nat, Intact(j, w, d, k, e),
         Ahead(d) = <<>>
  PROVE  Len(d.out) = WantedLen(j) /\ d.seq = e /\ (j.to # "writer" /\ d.room > 0 => e = k)
  <1>1. Aligned(j, d, <<>>) /\ Limited(j, d, <<>>) /\ Len(<<>>) = 0 BY DEF DecAt
  <1>2. d \in DecTypes(Toks(j)) BY <1>1 DEF Aligned
  <1>3. PICK r \in Nat, s \in Nat, l \in Nat, n \in Nat :
          r = d.room /\ s = d.skip /\ l = d.left /\ n = Len(d.out) /\ d.seq \in Nat
    BY <1>2, DecFields
  <1>4. d.seq = e BY <1>3, SomethingAhead
  <1>5. PICK o \in Nat, x \in Nat, g \in Nat :
          o = j.off /\ x = WantedLen(j) /\ g = Edge(j, e) /\ o + x <= g
    <2>1. j.off \in Nat /\ WantedLen(j) \in Nat BY OffsetFits
    <2>2. Edge(j, e) \in Nat BY EdgeIs
    <2>3. j.off + WantedLen(j) <= Edge(j, e) BY DEF Intact
    <2>4. QED BY <2>1, <2>2, <2>3
  <1>6. o + n = g + s
    <2>1. j.off + Len(d.out) = Edge(j, d.seq) - 0 + d.skip BY <1>1 DEF Aligned
    <2>2. QED BY <1>3, <1>4, <1>5, <2>1
  <1>7. n <= x
    <2>1. CASE j.to \in {"reader", "writer"}
      <3>1. j.off + Len(d.out) <= Len(j.plain) /\ WantedLen(j) = Len(j.plain) /\ j.off = 0
        BY <1>1, <2>1, JobIs DEF Aligned, WantedLen
      <3>2. QED BY <1>3, <1>5, <3>1
    <2>2. CASE j.to \notin {"reader", "writer"}
      <3>1. d.left + Len(d.out) = j.length /\ WantedLen(j) = j.length
        BY <1>1, <2>2 DEF Limited, WantedLen
      <3>2. QED BY <1>3, <1>5, <3>1
    <2>3. QED BY <2>1, <2>2
  <1>8. n = x /\ s = 0 BY <1>5, <1>6, <1>7
  <1>9. ASSUME j.to # "writer", d.room > 0 PROVE e = k
    <2>1. CASE j.to \in {"reader", "writer"} BY <2>1 DEF Intact
    <2>2. CASE j.to \notin {"reader", "writer"}
      <3>1. d.left + Len(d.out) = j.length /\ WantedLen(j) = j.length
        BY <1>1, <2>2 DEF Limited, WantedLen
      <3>2. l = 0 BY <1>3, <1>5, <1>8, <3>1
      <3>3. d.room <= IF d.skip > 0 THEN d.skip ELSE d.left BY <1>1 DEF Limited
      <3>4. ~(d.skip > 0) BY <1>3, <1>8
      <3>5. r <= l BY <1>3, <3>3, <3>4
      <3>6. QED BY <1>3, <1>9, <3>2, <3>5
    <2>3. QED BY <2>1, <2>2
  <1>10. QED BY <1>3, <1>4, <1>5, <1>8, <1>9

\* An intact stream goes on to be read, or all of it came out.
IntactInv ==
  (same /\ dec.status # "none") =>
    /\ dec.status \in {"open", "eof"}
    /\ dec.status = "open" => \E k, e \in Nat : Intact(job, wire, dec, k, e)
    /\ dec.status = "eof" => Len(dec.out) = WantedLen(job)

\* Who reads an intact stream.
LEMMA IntactIs ==
  ASSUME EncInv, DecInv, IntactInv, dec.status = "open", same
  PROVE  /\ Job(job) /\ DecOk(job, wire, dec) /\ dec \in DecTypes(Toks(job)) /\ dec.seq \in Nat
         /\ \E k, e \in Nat : Intact(job, wire, dec, k, e)
  <1>1. Job(job) /\ DecOk(job, wire, dec) /\ dec \in DecTypes(Toks(job)) BY DecIs
  <1>2. dec.seq \in Nat BY <1>1, DecFields
  <1>3. "open" # "none" OBVIOUS
  <1>4. \E k, e \in Nat : Intact(job, wire, dec, k, e) BY <1>3, Zenon DEF IntactInv
  <1>5. QED BY <1>1, <1>2, <1>4

\* It goes on.
LEMMA IntactGoesOn ==
  ASSUME NEW k \in Nat, NEW e \in Nat, Intact(job, wire, dec', k, e), UNCHANGED <<job, enc, wire, same>>,
         dec'.status = "open"
  PROVE  IntactInv'
  <1>1. job' = job /\ wire' = wire OBVIOUS
  <1>2. Intact(job', wire', dec', k, e) BY <1>1
  <1>3. "open" # "eof" OBVIOUS
  <1>4. QED BY <1>2, <1>3 DEF IntactInv

\* It ends.
LEMMA IntactDone ==
  ASSUME UNCHANGED <<job, enc, wire, same>>, dec'.status = "eof", Len(dec'.out) = WantedLen(job)
  PROVE  IntactInv'
  <1>1. Len(dec'.out) = WantedLen(job') OBVIOUS
  <1>2. "open" # "eof" OBVIOUS
  <1>3. QED BY <1>1, <1>2 DEF IntactInv

\* A stream that something happened to.
LEMMA NotIntact ==
  ASSUME UNCHANGED <<job, enc, wire, same>>, ~same
  PROVE  IntactInv'
  BY DEF IntactInv

\* What giving data leaves alone.
LEMMA GivenKeeps ==
  ASSUME NEW T, NEW d \in DecTypes(T), NEW s
  PROVE  /\ Given(d, s).seq = d.seq /\ Given(d, s).version = d.version /\ Given(d, s).src = d.src
         /\ Given(d, s).pending = d.pending /\ Given(d, s).refNonce = d.refNonce
         /\ Given(d, s).finalized = d.finalized /\ Ahead(Given(d, s)) = Ahead(d)
  <1>1. PICK g : g = Given(d, s) OBVIOUS
  <1>2. CASE d.skip > 0
    <2>1. PICK x, y : g = [d EXCEPT !.skip = x, !.room = y] BY <1>1, <1>2 DEF Given
    <2>2. g.seq = d.seq /\ g.version = d.version /\ g.src = d.src /\ g.pending = d.pending
          /\ g.refNonce = d.refNonce /\ g.finalized = d.finalized
      BY <2>1 DEF DecTypes
    <2>3. Ahead(g) = Ahead(d) BY <2>2 DEF Ahead
    <2>4. QED BY <1>1, <2>2, <2>3
  <1>3. CASE ~(d.skip > 0)
    <2>1. g = [d EXCEPT !.out = @ \o s, !.left = @ - Len(s), !.room = @ - Len(s),
                        !.status = IF d.left = Len(s) THEN "eof" ELSE @]
      BY <1>1, <1>3, Zenon DEF Given
    <2>2. PICK x, y, z, v : g = [d EXCEPT !.out = x, !.left = y, !.room = z, !.status = v] BY <2>1
    <2>3. g.seq = d.seq /\ g.version = d.version /\ g.src = d.src /\ g.pending = d.pending
          /\ g.refNonce = d.refNonce /\ g.finalized = d.finalized
      BY <2>2 DEF DecTypes
    <2>4. Ahead(g) = Ahead(d) BY <2>3 DEF Ahead
    <2>5. QED BY <1>1, <2>3, <2>4
  <1>4. QED BY <1>2, <1>3

\* The caller of an intact stream gets the last of what it asked for.
LEMMA GivenEnds ==
  ASSUME NEW j, Job(j), NEW w, NEW d, NEW r, DecAt(j, w, d, r), d.status = "open",
         j.to # "writer", NEW n \in Nat, n <= Len(r), n <= d.room,
         Given(d, Upto(r, n)).status = "eof"
  PROVE  Len(Given(d, Upto(r, n)).out) = WantedLen(j)
  <1>1. Aligned(j, d, r) /\ Limited(j, d, r) BY DEF DecAt
  <1>2. PICK T : T = Toks(j) OBVIOUS
  <1>3. d \in DecTypes(T) /\ r \in Seq(T) /\ d.out \in Seq(T) BY <1>1, <1>2, DecFields DEF Aligned
  <1>4. PICK s : s = Upto(r, n) OBVIOUS
  <1>5. s \in Seq(T) /\ Len(s) = n BY <1>3, <1>4, SplitIs
  <1>6. PICK g : g = Given(d, s) OBVIOUS
  <1>7. PICK l \in Nat, m \in Nat, x \in Nat : l = d.left /\ m = Len(d.out) /\ x = Len(r)
    BY <1>3, DecFields
  <1>8. CASE d.skip > 0
    <2>1. g = [d EXCEPT !.skip = d.skip - Len(s), !.room = d.room - Len(s)] BY <1>6, <1>8 DEF Given
    <2>2. g.status = "open" BY <1>3, <2>1 DEF DecTypes
    <2>3. QED BY <1>4, <1>6, <2>2
  <1>9. CASE ~(d.skip > 0)
    <2>1. PICK st : st = IF l = n THEN "eof" ELSE "open" OBVIOUS
    <2>2. g = [d EXCEPT !.out = d.out \o s, !.left = l - n, !.room = d.room - n, !.status = st]
      BY <1>5, <1>6, <1>7, <1>9, <2>1, Zenon DEF Given
    <2>3. g.status = st /\ g.out = d.out \o s BY <1>3, <2>2 DEF DecTypes
    <2>4. l = n BY <1>4, <1>6, <2>1, <2>3
    <2>5. Len(g.out) = m + n
      <3>1. PICK q : q = d.out OBVIOUS
      <3>2. q \in Seq(T) /\ s \in Seq(T) BY <1>3, <1>5, <3>1
      <3>3. Len(q \o s) = Len(q) + Len(s) BY <3>2, JoinIs
      <3>4. QED BY <1>5, <1>7, <2>3, <3>1, <3>3
    <2>6. CASE j.to \in {"reader", "writer"}
      <3>1. d.left > Len(r) + Len(Ahead(d)) BY <1>1, <2>6 DEF Limited
      <3>2. PICK y \in Nat : y = Len(Ahead(d)) BY <1>3, DecFields
      <3>3. FALSE BY <1>7, <2>4, <3>1, <3>2
      <3>4. QED BY <3>3
    <2>7. CASE j.to \notin {"reader", "writer"}
      <3>1. d.left + Len(d.out) = j.length /\ WantedLen(j) = j.length
        BY <1>1, <2>7 DEF Limited, WantedLen
      <3>2. QED BY <1>4, <1>6, <1>7, <2>4, <2>5, <3>1
    <2>8. QED BY <2>6, <2>7
  <1>10. QED BY <1>8, <1>9

\* The first byte of an intact stream is a version.
LEMMA FirstIntact ==
  ASSUME EncInv, DecInv, IntactInv, DecFirst
  PROVE  IntactInv'
  <1>1. dec.status = "open" /\ dec.version = 0 BY DEF DecFirst
  <1>2. CASE ~same
    <2>1. UNCHANGED <<job, enc, wire, same>> BY DEF DecFirst, DecFails
    <2>2. QED BY <1>2, <2>1, NotIntact
  <1>3. CASE same
    <2>1. PICK T, s : T = Toks(job) /\ s = dec.src OBVIOUS
    <2>2. /\ Job(job) /\ DecOk(job, wire, dec) /\ dec \in DecTypes(T) /\ dec.seq \in Nat
          /\ \E k, e \in Nat : Intact(job, wire, dec, k, e)
      BY <1>1, <1>3, <2>1, IntactIs
    <2>3. PICK k \in Nat, e \in Nat : Intact(job, wire, dec, k, e) BY <2>2
    <2>4. s \in Seq(T) /\ dec.pending = <<>> /\ dec.offset = 0 /\ dec.room = 0
      BY <1>1, <2>1, <2>2, <2>3, DecFields DEF Intact
    <2>5. Ahead(dec) = s
      <3>1. <<>> \o s = s BY <2>4
      <3>2. QED BY <2>1, <2>4, <3>1 DEF Ahead
    <2>6. CASE s = <<>>
      <3>1. DecFails("eof") BY <2>1, <2>6 DEF DecFirst
      <3>2. dec' = [dec EXCEPT !.status = "eof", !.room = 0] /\ UNCHANGED <<job, enc, wire, same>>
        BY <3>1 DEF DecFails
      <3>3. dec'.status = "eof" /\ dec'.out = dec.out BY <2>2, <3>2 DEF DecTypes
      <3>4. DecAt(job, wire, dec, <<>>)
        <4>1. ~(dec.offset > 0) BY <2>4
        <4>2. Rest(dec) = <<>> BY <4>1, Zenon DEF Rest
        <4>3. QED BY <2>2, <4>2 DEF DecOk
      <3>5. Len(dec.out) = WantedLen(job) BY <2>2, <2>3, <2>5, <2>6, <3>4, IntactEnds
      <3>6. QED BY <3>2, <3>3, <3>5, IntactDone
    <2>7. CASE s # <<>>
      <3>1. dec.seq # e BY <2>2, <2>3, <2>5, <2>7, SomethingAhead
      <3>2. PICK i \in Nat : i = dec.seq BY <2>2
      <3>3. AllMade(job, wire, k) /\ i < e /\ e <= k /\ s = Part(wire, Start(job, i), Start(job, e))
        <4>1. AllMade(job, wire, k) /\ i <= e /\ e <= k /\ s = Part(wire, Start(job, i), Start(job, e))
          BY <2>3, <2>5, <3>2 DEF Intact
        <4>2. i # e BY <3>1, <3>2
        <4>3. QED BY <4>1, <4>2
      <3>4. s[1] = Lead(job, i)
        <4>1. PICK n : n = Len(Package(job, i)) OBVIOUS
        <4>2. QED BY <2>2, <3>3, <4>1, NextInStream
      <3>5. s[1].kind = "lead" /\ s[1].version = job.version BY <3>4 DEF Lead, TokenOf
      <3>6. PICK v : v = job.version /\ v # 0 BY <2>2, JobIs
      <3>7. dec' = [dec EXCEPT !.version = v] /\ UNCHANGED <<job, enc, wire, same>>
        BY <2>1, <2>7, <3>5, <3>6 DEF DecFirst
      <3>8. PICK f : f = dec' OBVIOUS
      <3>9. f.status = "open" /\ f.version = v /\ f.src = dec.src /\ f.pending = dec.pending
             /\ f.seq = dec.seq /\ f.refNonce = dec.refNonce /\ f.finalized = dec.finalized
        BY <1>1, <2>2, <3>7, <3>8 DEF DecTypes
      <3>10. Ahead(f) = Ahead(dec) BY <3>9 DEF Ahead
      <3>11. i # k BY <3>3
      <3>12. Intact(job, wire, f, k, e) BY <2>3, <3>2, <3>6, <3>9, <3>10, <3>11 DEF Intact
      <3>13. QED BY <3>7, <3>8, <3>9, <3>12, IntactGoesOn
    <2>8. QED BY <2>6, <2>7
  <1>4. QED BY <1>2, <1>3

\* A Read of an intact stream begins.
LEMMA ReadIntact ==
  ASSUME EncInv, DecInv, IntactInv, NEW n \in Nat, DecRead(n)
  PROVE  IntactInv'
  <1>1. dec.status = "open" /\ dec.version # 0 /\ UNCHANGED <<job, enc, wire, same>>
    BY DEF DecRead, Reading
  <1>2. CASE ~same BY <1>1, <1>2, NotIntact
  <1>3. CASE same
    <2>1. PICK m : dec' = [dec EXCEPT !.room = m] BY DEF DecRead
    <2>2. /\ dec \in DecTypes(Toks(job)) /\ \E k, e \in Nat : Intact(job, wire, dec, k, e)
      BY <1>1, <1>3, IntactIs
    <2>3. PICK k \in Nat, e \in Nat : Intact(job, wire, dec, k, e) BY <2>2
    <2>4. PICK f : f = dec' OBVIOUS
    <2>5. f.status = "open" /\ f.version = dec.version /\ f.src = dec.src /\ f.pending = dec.pending
          /\ f.seq = dec.seq /\ f.refNonce = dec.refNonce /\ f.finalized = dec.finalized
      BY <1>1, <2>1, <2>2, <2>4 DEF DecTypes
    <2>6. Ahead(f) = Ahead(dec) BY <2>5 DEF Ahead
    <2>7. Intact(job, wire, f, k, e) BY <1>1, <2>3, <2>5, <2>6, IntactStays
    <2>8. QED BY <1>1, <2>4, <2>5, <2>7, IntactGoesOn
  <1>4. QED BY <1>2, <1>3

\* Giving data of an intact stream: d is the reader that has it.
LEMMA GivenIntact ==
  ASSUME NEW d, NEW r, NEW k \in Nat, NEW e \in Nat, Job(job), DecAt(job, wire, d, r),
         d.status = "open", job.to # "writer", d.version # 0, Intact(job, wire, d, k, e),
         NEW n \in Nat, n <= Len(r), n <= d.room, UNCHANGED <<job, enc, wire, same>>,
         dec'.status = Given(d, Upto(r, n)).status, dec'.out = Given(d, Upto(r, n)).out,
         dec'.seq = Given(d, Upto(r, n)).seq, dec'.version = Given(d, Upto(r, n)).version,
         dec'.refNonce = Given(d, Upto(r, n)).refNonce, dec'.finalized = Given(d, Upto(r, n)).finalized,
         Ahead(dec') = Ahead(Given(d, Upto(r, n)))
  PROVE  IntactInv'
  <1>1. d \in DecTypes(Toks(job)) BY DEF DecAt, Aligned
  <1>2. PICK g : g = Given(d, Upto(r, n)) OBVIOUS
  <1>3. g.seq = d.seq /\ g.version = d.version /\ g.refNonce = d.refNonce
        /\ g.finalized = d.finalized /\ Ahead(g) = Ahead(d)
    BY <1>1, <1>2, GivenKeeps
  <1>4. "status" \in DOMAIN d BY <1>1 DEF DecTypes
  <1>5. g.status \in {"open", "eof"} BY <1>2, <1>4, GivenGoesOn
  <1>6. CASE g.status = "eof"
    <2>1. Len(g.out) = WantedLen(job) BY <1>2, <1>6, GivenEnds
    <2>2. QED BY <1>2, <1>6, <2>1, IntactDone
  <1>7. CASE g.status = "open"
    <2>1. PICK f : f = dec' OBVIOUS
    <2>2. f.seq = d.seq /\ f.version = d.version /\ f.refNonce = d.refNonce
          /\ f.finalized = d.finalized /\ Ahead(f) = Ahead(d) /\ f.status = "open"
      BY <1>2, <1>3, <1>7, <2>1
    <2>3. Intact(job, wire, f, k, e) BY <2>2, IntactStays
    <2>4. QED BY <2>1, <2>2, <2>3, IntactGoesOn
  <1>8. QED BY <1>5, <1>6, <1>7

\* What the last Read left in the buffer.
LEMMA DrainIntact ==
  ASSUME EncInv, DecInv, IntactInv, DecDrain
  PROVE  IntactInv'
  <1>1. dec.status = "open" /\ job.to # "writer" /\ dec.offset > 0 /\ UNCHANGED <<job, enc, wire, same>>
    BY DEF DecDrain, Reading
  <1>2. CASE ~same BY <1>1, <1>2, NotIntact
  <1>3. CASE same
    <2>1. PICK T, d, rest : T = Toks(job) /\ d = dec /\ rest = After(dec.buffer, dec.offset) OBVIOUS
    <2>2. /\ Job(job) /\ DecOk(job, wire, d) /\ d \in DecTypes(T) /\ d.seq \in Nat
          /\ \E k, e \in Nat : Intact(job, wire, d, k, e)
      BY <1>1, <1>3, <2>1, IntactIs
    <2>3. PICK k \in Nat, e \in Nat : Intact(job, wire, d, k, e) BY <2>2
    <2>4. d.version # 0
      <3>1. d.version = 0 => d.offset = 0 BY <2>3 DEF Intact
      <3>2. QED BY <1>1, <2>1, <3>1
    <2>5. DecAt(job, wire, d, rest)
      <3>1. d.offset > 0 BY <1>1, <2>1
      <3>2. Rest(d) = rest BY <2>1, <3>1, Zenon DEF Rest
      <3>3. QED BY <2>2, <3>2 DEF DecOk
    <2>6. PICK c \in Nat, m \in Nat, x \in Nat : c = d.offset /\ m = d.room /\ x = Len(rest)
      <3>1. rest \in Seq(T) BY <2>1, <2>5 DEF DecAt, Aligned
      <3>2. QED BY <2>2, <3>1, DecFields
    <2>7. PICK n \in Nat : n = Least(m, x) /\ n <= m /\ n <= x BY <2>6 DEF Least
    <2>8. PICK o \in Nat : o = IF m < x THEN c + n ELSE 0 BY <2>6, <2>7
    <2>9. dec' = Given([d EXCEPT !.offset = o], Upto(rest, n))
      <3>1. dec' = Given([dec EXCEPT !.offset = IF dec.room < Len(rest) THEN @ + Least(dec.room, Len(rest)) ELSE 0],
                         Upto(rest, Least(dec.room, Len(rest))))
        BY <2>1 DEF DecDrain
      <3>2. [dec EXCEPT !.offset = IF dec.room < Len(rest) THEN @ + Least(dec.room, Len(rest)) ELSE 0]
              = [d EXCEPT !.offset = o]
        BY <2>1, <2>2, <2>6, <2>7, <2>8 DEF DecTypes
      <3>3. Least(dec.room, Len(rest)) = n BY <2>1, <2>6, <2>7
      <3>4. QED BY <3>1, <3>2, <3>3, Zenon
    <2>10. PICK f : f = [d EXCEPT !.offset = o] OBVIOUS
    <2>11. /\ f \in DecTypes(T) /\ f.src = d.src /\ f.pending = d.pending /\ f.seq = d.seq
           /\ f.finalized = d.finalized /\ f.skip = d.skip /\ f.left = d.left /\ f.out = d.out
           /\ f.status = d.status /\ f.refNonce = d.refNonce
           /\ f.version = d.version /\ f.room = d.room
      BY <2>2, <2>8, <2>10 DEF DecTypes
    <2>12. DecAt(job, wire, f, rest)
      <3>1. f.room <= IF d.skip > 0 THEN d.skip ELSE d.left BY <2>5, <2>11 DEF DecAt, Limited
      <3>2. f.status # "eof" BY <1>1, <2>1, <2>11
      <3>3. f \in DecTypes(Toks(job)) BY <2>1, <2>11
      <3>4. QED BY <2>5, <2>11, <3>1, <3>2, <3>3, SameAt
    <2>13. Intact(job, wire, f, k, e) /\ f.version # 0
      <3>1. Ahead(f) = Ahead(d) BY <2>11 DEF Ahead
      <3>2. Intact(job, wire, f, k, e) BY <2>3, <2>4, <2>11, <3>1, IntactStays
      <3>3. QED BY <2>4, <2>11, <3>2
    <2>14. f.status = "open" /\ n <= Len(rest) /\ n <= f.room BY <1>1, <2>1, <2>6, <2>7, <2>11
    <2>15. PICK g : g = Given(f, Upto(rest, n)) OBVIOUS
    <2>16. dec' = g BY <2>9, <2>10, <2>15
    <2>17. /\ dec'.status = Given(f, Upto(rest, n)).status /\ dec'.out = Given(f, Upto(rest, n)).out
           /\ dec'.seq = Given(f, Upto(rest, n)).seq /\ dec'.version = Given(f, Upto(rest, n)).version
           /\ dec'.refNonce = Given(f, Upto(rest, n)).refNonce
           /\ dec'.finalized = Given(f, Upto(rest, n)).finalized
           /\ Ahead(dec') = Ahead(Given(f, Upto(rest, n)))
      BY <2>15, <2>16
    <2>18. QED BY <1>1, <2>2, <2>7, <2>12, <2>13, <2>14, <2>17, GivenIntact
  <1>4. QED BY <1>2, <1>3

\* A reader holds nothing back, and the buffer is empty.
LEMMA ReaderHolds ==
  ASSUME NEW j, NEW w, NEW d, DecOk(j, w, d), j.to # "writer", d.offset = 0
  PROVE  Ahead(d) = d.src /\ DecAt(j, w, d, <<>>) /\ d.src \in Seq(Toks(j)) /\ d.pending = <<>>
  <1>1. ~(d.offset > 0) OBVIOUS
  <1>2. Rest(d) = <<>> BY <1>1, Zenon DEF Rest
  <1>3. DecAt(j, w, d, <<>>) BY <1>2 DEF DecOk
  <1>4. d \in DecTypes(Toks(j)) /\ d.pending = <<>> BY <1>3 DEF DecAt, Aligned, Limited
  <1>5. d.src \in Seq(Toks(j)) BY <1>4, DecFields
  <1>6. PICK s : s = d.src OBVIOUS
  <1>7. <<>> \o s = s BY <1>5, <1>6
  <1>8. Ahead(d) = d.src BY <1>4, <1>6, <1>7 DEF Ahead
  <1>9. QED BY <1>3, <1>4, <1>5, <1>8

\* An intact stream is read to its end.
LEMMA EOFIntact ==
  ASSUME EncInv, DecInv, IntactInv, DecEOF
  PROVE  IntactInv'
  <1>1. /\ dec.status = "open" /\ job.to # "writer" /\ dec.offset = 0 /\ dec.room > 0 /\ dec.src = <<>>
        /\ DecFails(IF dec.version = 20 /\ ~dec.finalized THEN "unexpected EOF" ELSE "eof")
    BY DEF DecEOF, Reading
  <1>2. UNCHANGED <<job, enc, wire, same>> BY <1>1 DEF DecFails
  <1>3. CASE ~same BY <1>2, <1>3, NotIntact
  <1>4. CASE same
    <2>1. /\ Job(job) /\ DecOk(job, wire, dec) /\ dec \in DecTypes(Toks(job))
          /\ \E k, e \in Nat : Intact(job, wire, dec, k, e)
      BY <1>1, <1>4, IntactIs
    <2>2. PICK k \in Nat, e \in Nat : Intact(job, wire, dec, k, e) BY <2>1
    <2>3. Ahead(dec) = <<>> /\ DecAt(job, wire, dec, <<>>) BY <1>1, <2>1, ReaderHolds
    <2>4. Len(dec.out) = WantedLen(job) /\ dec.seq = e /\ (job.to # "writer" /\ dec.room > 0 => e = k)
      BY <2>1, <2>2, <2>3, IntactEnds
    <2>5. ~(dec.version = 20 /\ ~dec.finalized) BY <1>1, <2>2, <2>4 DEF Intact
    <2>6. DecFails("eof") BY <1>1, <2>5
    <2>7. dec' = [dec EXCEPT !.status = "eof", !.room = 0] BY <2>6 DEF DecFails
    <2>8. dec'.status = "eof" /\ dec'.out = dec.out BY <2>1, <2>7 DEF DecTypes
    <2>9. QED BY <1>2, <2>4, <2>8, IntactDone
  <1>5. QED BY <1>3, <1>4

\* A reader takes the next package of an intact stream, and it opens.
LEMMA FetchedIntact ==
  ASSUME NEW j, Job(j), NEW w, NEW d, DecOk(j, w, d), j.to # "writer", d.offset = 0, d.room > 0, d.src # <<>>,
         NEW k \in Nat, NEW e \in Nat, Intact(j, w, d, k, e)
  PROVE  /\ d.version # 0 /\ d.seq \in Nat /\ d.seq < e /\ d.seq \in Numbers(j)
         /\ Fetched(d) = Package(j, d.seq) /\ Opens(d, Fetched(d))
  <1>1. Ahead(d) = d.src /\ d.src \in Seq(Toks(j)) /\ d \in DecTypes(Toks(j))
    BY ReaderHolds DEF DecOk, DecAt, Aligned
  <1>2. PICK i \in Nat : i = d.seq BY <1>1, DecFields
  <1>3. d.version # 0
    <2>1. d.version = 0 => d.room = 0 BY DEF Intact
    <2>2. QED BY <2>1
  <1>4. PICK a, n : a = d.src /\ n = Len(Package(j, i)) OBVIOUS
  <1>5. AllMade(j, w, k) /\ i <= e /\ e <= k /\ a = Part(w, Start(j, i), Start(j, e)) /\ d.version = j.version
    BY <1>1, <1>2, <1>3, <1>4 DEF Intact
  <1>6. i # e
    <2>1. d.seq \in Nat /\ Ahead(d) # <<>> BY <1>1, <1>2
    <2>2. QED BY <1>2, <2>1, SomethingAhead
  <1>7. i < e BY <1>5, <1>6
  <1>8. n \in Nat /\ n <= Len(a) /\ Len(a) \in Nat /\ a \in Seq(Toks(j))
    BY <1>4, <1>5, <1>7, NextInStream
  <1>9. PICK m \in Nat : m = Len(a) BY <1>8
  <1>10. j.version = 20 => n = Least(m, MaxPackageSize) BY <1>4, <1>5, <1>7, <1>9, LargestNext
  <1>11. d.src = Upto(a, m) BY <1>4, <1>8, <1>9, AllGiven
  <1>12. n <= m /\ m <= Len(a) BY <1>8, <1>9
  <1>13. PICK q : q = Upto(a, m) /\ d.src = q BY <1>11
  <1>14. Fetched(d) = Package(j, i) BY <1>4, <1>5, <1>7, <1>10, <1>12, <1>13, TakesNext
  <1>15. Opens(d, Package(j, i)) /\ i \in Numbers(j) BY <1>2, <1>3, <1>7, IntactOpens
  <1>16. QED BY <1>2, <1>3, <1>7, <1>14, <1>15

\* What opening a package changes.
LEMMA OpenedIs ==
  ASSUME NEW T, NEW d \in DecTypes(T), NEW p
  PROVE  /\ Opened(d, p).src = After(d.src, Len(p)) /\ Opened(d, p).pending = d.pending
         /\ Opened(d, p).seq = d.seq + 1 /\ Opened(d, p).version = d.version
         /\ Opened(d, p).refNonce = p[2].nonce
         /\ Opened(d, p).finalized = (d.version = 20 /\ p[2].final)
         /\ Opened(d, p).status = d.status
  <1>1. PICK x, c, s, k : x = p[2].nonce /\ c = (d.version = 20 /\ p[2].final) /\ s = After(d.src, Len(p))
                          /\ k = d.seq + 1
    OBVIOUS
  <1>2. PICK f : f = Opened(d, p) OBVIOUS
  <1>3. f = [d EXCEPT !.src = s, !.seq = k, !.refNonce = x, !.finalized = c]
    <2>1. f = [d EXCEPT !.src = After(@, Len(p)), !.seq = @ + 1, !.refNonce = p[2].nonce,
            !.finalized = d.version = 20 /\ p[2].final]
      BY <1>2, Zenon DEF Opened
    <2>2. QED BY <1>1, <2>1
  <1>4. f.src = s /\ f.pending = d.pending /\ f.seq = k /\ f.version = d.version /\ f.refNonce = x
        /\ f.finalized = c /\ f.status = d.status
    BY <1>3 DEF DecTypes
  <1>5. QED BY <1>1, <1>2, <1>4

\* The packages after the next are ahead of the reader that opened it.
LEMMA OpenedIntact ==
  ASSUME NEW j, Job(j), NEW w, NEW d, DecOk(j, w, d), j.to # "writer", d.offset = 0, d.room > 0, d.src # <<>>,
         NEW k \in Nat, NEW e \in Nat, Intact(j, w, d, k, e), NEW f, f = Opened(d, Fetched(d))
  PROVE  Intact(j, w, f, k, e) /\ f.version # 0
  <1>1. PICK p : p = Fetched(d) OBVIOUS
  <1>2. /\ d.version # 0 /\ d.seq \in Nat /\ d.seq < e /\ p = Package(j, d.seq)
    BY <1>1, FetchedIntact
  <1>3. Ahead(d) = d.src /\ d.src \in Seq(Toks(j)) /\ d \in DecTypes(Toks(j)) /\ d.pending = <<>>
    BY ReaderHolds DEF DecOk, DecAt, Aligned
  <1>4. f = Opened(d, p) BY <1>1
  <1>5. f.src = After(d.src, Len(p)) /\ f.pending = d.pending /\ f.seq = d.seq + 1 /\ f.version = d.version
        /\ f.refNonce = p[2].nonce /\ f.finalized = (d.version = 20 /\ p[2].final)
    <2>1. d \in DecTypes(Toks(j)) BY <1>3
    <2>2. /\ Opened(d, p).src = After(d.src, Len(p)) /\ Opened(d, p).pending = d.pending
          /\ Opened(d, p).seq = d.seq + 1 /\ Opened(d, p).version = d.version
          /\ Opened(d, p).refNonce = p[2].nonce
          /\ Opened(d, p).finalized = (d.version = 20 /\ p[2].final)
          /\ Opened(d, p).status = d.status
      BY <2>1, OpenedIs
    <2>3. QED BY <1>4, <2>2
  <1>6. Ahead(f) = After(Ahead(d), Len(p))
    <2>1. PICK s : s = After(d.src, Len(p)) OBVIOUS
    <2>2. s \in Seq(Toks(j))
      <3>1. d.seq \in Numbers(j) BY FetchedIntact
      <3>2. Len(p) \in Nat BY <1>2, <3>1, PackageIs
      <3>3. QED BY <1>3, <2>1, <3>2, AfterFits
    <2>3. <<>> \o s = s BY <2>2
    <2>4. QED BY <1>3, <1>5, <2>1, <2>3 DEF Ahead
  <1>7. f.finalized <=> (d.version = 20 /\ p[2].final) BY <1>5
  <1>8. f.version # 0 BY <1>2, <1>5
  <1>9. Intact(j, w, f, k, e) BY <1>2, <1>5, <1>6, <1>7, IntactNext
  <1>10. QED BY <1>8, <1>9

\* No package of an intact stream is refused.
LEMMA TamperedIntact ==
  ASSUME EncInv, DecInv, IntactInv, DecTampered
  PROVE  IntactInv'
  <1>1. /\ dec.status = "open" /\ job.to # "writer" /\ dec.offset = 0 /\ dec.room > 0 /\ dec.src # <<>>
        /\ ~Opens(dec, Fetched(dec)) /\ UNCHANGED <<job, enc, wire, same>>
    BY DEF DecTampered, Reading, DecFails
  <1>2. ASSUME same PROVE FALSE
    <2>1. /\ Job(job) /\ DecOk(job, wire, dec) /\ \E k, e \in Nat : Intact(job, wire, dec, k, e)
      BY <1>1, <1>2, IntactIs
    <2>2. PICK k \in Nat, e \in Nat : Intact(job, wire, dec, k, e) BY <2>1
    <2>3. Opens(dec, Fetched(dec)) BY <1>1, <2>1, <2>2, FetchedIntact
    <2>4. QED BY <1>1, <2>3
  <1>3. QED BY <1>1, <1>2, NotIntact

\* A package goes to the caller.
LEMMA WholeIntact ==
  ASSUME EncInv, DecInv, IntactInv, DecWhole
  PROVE  IntactInv'
  <1>1. PICK p, f, r : p = Fetched(dec) /\ f = Opened(dec, p) /\ r = Payload(p) OBVIOUS
  <1>2. /\ dec.status = "open" /\ job.to # "writer" /\ dec.offset = 0 /\ dec.room > 0 /\ dec.src # <<>>
        /\ Opens(dec, p) /\ dec.room >= MaxPayloadSize /\ UNCHANGED <<job, enc, wire, same>>
        /\ dec' = Given(f, r)
    BY <1>1 DEF DecWhole, DecOpens, Reading
  <1>3. CASE ~same BY <1>2, <1>3, NotIntact
  <1>4. CASE same
    <2>1. /\ Job(job) /\ DecOk(job, wire, dec) /\ dec \in DecTypes(Toks(job))
          /\ \E k, e \in Nat : Intact(job, wire, dec, k, e)
      BY <1>2, <1>4, IntactIs
    <2>2. PICK k \in Nat, e \in Nat : Intact(job, wire, dec, k, e) BY <2>1
    <2>3. f = Opened(dec, Fetched(dec)) BY <1>1
    <2>4. Intact(job, wire, f, k, e) /\ f.version # 0 BY <1>2, <2>1, <2>2, <2>3, OpenedIntact
    <2>5. DecAt(job, wire, dec, <<>>) BY <1>2, <2>1, ReaderHolds
    <2>6. /\ DecAt(job, wire, f, r) /\ r \in Seq(Toks(job)) /\ Len(r) \in Nat /\ Len(r) <= MaxPayloadSize
          /\ f.status = "open" /\ f.room = dec.room
      BY <1>1, <1>2, <2>1, <2>5, ReaderOpens
    <2>7. PICK n \in Nat : n = Len(r) BY <2>6
    <2>8. Upto(r, n) = r BY <2>6, <2>7, AllGiven
    <2>9. n <= Len(r) /\ n <= f.room
      <3>1. dec.room \in Nat /\ MaxPayloadSize \in Nat BY <2>1, DecFields, DAREAssumption
      <3>2. QED BY <1>2, <2>6, <2>7, <3>1
    <2>10. PICK g : g = Given(f, Upto(r, n)) OBVIOUS
    <2>11. dec' = g BY <1>2, <2>8, <2>10
    <2>12. /\ dec'.status = Given(f, Upto(r, n)).status /\ dec'.out = Given(f, Upto(r, n)).out
           /\ dec'.seq = Given(f, Upto(r, n)).seq /\ dec'.version = Given(f, Upto(r, n)).version
           /\ dec'.refNonce = Given(f, Upto(r, n)).refNonce
           /\ dec'.finalized = Given(f, Upto(r, n)).finalized
           /\ Ahead(dec') = Ahead(Given(f, Upto(r, n)))
      BY <2>10, <2>11
    <2>13. f.status = "open" /\ Job(job) /\ job.to # "writer" /\ UNCHANGED <<job, enc, wire, same>>
      BY <1>2, <2>1, <2>6
    <2>14. QED BY <2>4, <2>6, <2>7, <2>9, <2>12, <2>13, GivenIntact
  <1>5. QED BY <1>3, <1>4

\* A part of it does, and the buffer keeps the rest.
LEMMA PartIntact ==
  ASSUME EncInv, DecInv, IntactInv, DecPart
  PROVE  IntactInv'
  <1>1. PICK p, r, f : p = Fetched(dec) /\ r = Payload(p) /\ f = Opened(dec, p) OBVIOUS
  <1>2. /\ dec.status = "open" /\ job.to # "writer" /\ dec.offset = 0 /\ dec.room > 0 /\ dec.src # <<>>
        /\ Opens(dec, p) /\ UNCHANGED <<job, enc, wire, same>>
        /\ dec' = [Given([f EXCEPT !.buffer = r, !.offset = IF dec.room < Len(r) THEN Least(dec.room, Len(r)) ELSE 0],
                         Upto(r, Least(dec.room, Len(r)))) EXCEPT !.room = 0]
    BY <1>1 DEF DecPart, DecOpens, Reading
  <1>3. CASE ~same BY <1>2, <1>3, NotIntact
  <1>4. CASE same
    <2>1. /\ Job(job) /\ DecOk(job, wire, dec) /\ dec \in DecTypes(Toks(job))
          /\ \E k, e \in Nat : Intact(job, wire, dec, k, e)
      BY <1>2, <1>4, IntactIs
    <2>2. PICK k \in Nat, e \in Nat : Intact(job, wire, dec, k, e) BY <2>1
    <2>3. f = Opened(dec, Fetched(dec)) BY <1>1
    <2>4. Intact(job, wire, f, k, e) /\ f.version # 0 BY <1>2, <2>1, <2>2, <2>3, OpenedIntact
    <2>5. DecAt(job, wire, dec, <<>>) BY <1>2, <2>1, ReaderHolds
    <2>6. /\ DecAt(job, wire, f, r) /\ r \in Seq(Toks(job)) /\ Len(r) \in Nat
          /\ f.status = "open" /\ f.room = dec.room
      BY <1>1, <1>2, <2>1, <2>5, ReaderOpens
    <2>7. PICK m \in Nat, x \in Nat : m = dec.room /\ x = Len(r) BY <2>1, <2>6, DecFields
    <2>8. PICK n \in Nat : n = Least(m, x) /\ n <= m /\ n <= x BY <2>7 DEF Least
    <2>9. PICK o \in Nat : o = IF m < x THEN n ELSE 0 BY <2>8
    <2>10. PICK g : g = [f EXCEPT !.buffer = r, !.offset = o] OBVIOUS
    <2>11. dec' = [Given(g, Upto(r, n)) EXCEPT !.room = 0]
      <3>1. PICK l, y : l = Least(dec.room, Len(r))
                        /\ y = IF dec.room < Len(r) THEN Least(dec.room, Len(r)) ELSE 0
        OBVIOUS
      <3>2. dec' = [Given([f EXCEPT !.buffer = r, !.offset = y], Upto(r, l)) EXCEPT !.room = 0]
        BY <1>2, <3>1
      <3>3. l = n /\ y = o BY <2>7, <2>8, <2>9, <3>1
      <3>4. QED BY <2>10, <3>2, <3>3
    <2>12. f \in DecTypes(Toks(job)) /\ Limited(job, f, r) BY <2>6 DEF DecAt, Aligned
    <2>13. /\ g \in DecTypes(Toks(job)) /\ g.src = f.src /\ g.pending = f.pending /\ g.seq = f.seq
           /\ g.finalized = f.finalized /\ g.skip = f.skip /\ g.left = f.left /\ g.out = f.out
           /\ g.status = f.status /\ g.version = f.version /\ g.room = f.room /\ g.refNonce = f.refNonce
      BY <2>6, <2>10, <2>12 DEF DecTypes
    <2>14. DecAt(job, wire, g, r) /\ g.status = "open" /\ g.room = f.room
      <3>1. g.room <= IF f.skip > 0 THEN f.skip ELSE f.left BY <2>12, <2>13 DEF Limited
      <3>2. g.status # "eof" BY <2>6, <2>13
      <3>3. DecAt(job, wire, g, r) BY <2>6, <2>13, <3>1, <3>2, SameAt
      <3>4. QED BY <2>6, <2>13, <3>3
    <2>15. Intact(job, wire, g, k, e) /\ g.version # 0
      <3>1. Ahead(g) = Ahead(f) BY <2>13 DEF Ahead
      <3>2. Intact(job, wire, g, k, e) BY <2>4, <2>13, <3>1, IntactStays
      <3>3. QED BY <2>4, <2>13, <3>2
    <2>16. n <= Len(r) /\ n <= g.room BY <2>6, <2>7, <2>8, <2>14
    <2>17. PICK h : h = Given(g, Upto(r, n)) OBVIOUS
    <2>18. DecAt(job, wire, h, After(r, n)) BY <1>2, <2>1, <2>8, <2>14, <2>16, <2>17, GivenAt
    <2>19. h \in DecTypes(Toks(job)) /\ dec' = [h EXCEPT !.room = 0]
      BY <2>11, <2>17, <2>18 DEF DecAt, Aligned
    <2>20. dec'.status = h.status /\ dec'.out = h.out /\ dec'.seq = h.seq /\ dec'.version = h.version
           /\ dec'.refNonce = h.refNonce /\ dec'.finalized = h.finalized
           /\ dec'.src = h.src /\ dec'.pending = h.pending
      BY <2>19 DEF DecTypes
    <2>21. Ahead(dec') = Ahead(h) BY <2>20 DEF Ahead
    <2>22. /\ dec'.status = Given(g, Upto(r, n)).status /\ dec'.out = Given(g, Upto(r, n)).out
           /\ dec'.seq = Given(g, Upto(r, n)).seq /\ dec'.version = Given(g, Upto(r, n)).version
           /\ dec'.refNonce = Given(g, Upto(r, n)).refNonce
           /\ dec'.finalized = Given(g, Upto(r, n)).finalized
           /\ Ahead(dec') = Ahead(Given(g, Upto(r, n)))
      BY <2>17, <2>20, <2>21
    <2>23. Job(job) /\ job.to # "writer" /\ UNCHANGED <<job, enc, wire, same>> BY <1>2, <2>1
    <2>24. QED BY <2>8, <2>14, <2>15, <2>16, <2>22, <2>23, GivenIntact
  <1>5. QED BY <1>3, <1>4

\* Nothing is written after the last package of an intact stream.
LEMMA WriteIntact ==
  ASSUME EncInv, DecInv, IntactInv, NEW n \in Nat, n > 0, DecWrite(n)
  PROVE  IntactInv'
  <1>1. dec.status = "open" /\ job.to = "writer" /\ dec.version # 0 /\ n <= Len(dec.src)
        /\ UNCHANGED <<job, enc, wire, same>>
    BY DEF DecWrite, Writing, DecFails
  <1>2. CASE ~same BY <1>1, <1>2, NotIntact
  <1>3. CASE same
    <2>1. PICK T, s, q : T = Toks(job) /\ s = dec.src /\ q = dec.pending OBVIOUS
    <2>2. /\ Job(job) /\ DecOk(job, wire, dec) /\ dec \in DecTypes(T) /\ dec.seq \in Nat
          /\ \E k, e \in Nat : Intact(job, wire, dec, k, e)
      BY <1>1, <1>3, <2>1, IntactIs
    <2>3. PICK k \in Nat, e \in Nat : Intact(job, wire, dec, k, e) BY <2>2
    <2>4. s \in Seq(T) /\ q \in Seq(T) /\ n <= Len(s) BY <1>1, <2>1, <2>2, DecFields
    <2>5. Upto(s, n) \in Seq(T) /\ After(s, n) \in Seq(T) /\ Upto(s, n) \o After(s, n) = s
      BY <2>4, SplitIs
    <2>6. ~dec.finalized
      <3>1. Len(q \o s) = Len(q) + Len(s) /\ Len(q) \in Nat /\ Len(s) \in Nat BY <2>4, JoinIs
      <3>2. Len(<<>>) = 0 OBVIOUS
      <3>3. Ahead(dec) = q \o s BY <2>1 DEF Ahead
      <3>4. Len(Ahead(dec)) > 0 BY <2>4, <3>1, <3>3
      <3>5. Ahead(dec) # <<>> BY <3>2, <3>4
      <3>6. dec.seq # e BY <2>2, <2>3, <3>5, SomethingAhead
      <3>7. dec.seq <= e /\ e <= k /\ (dec.finalized => dec.seq = k) BY <2>3 DEF Intact
      <3>8. QED BY <2>2, <3>6, <3>7
    <2>7. PICK a, b : a = After(s, n) /\ b = q \o Upto(s, n) OBVIOUS
    <2>8. dec' = [dec EXCEPT !.src = a, !.pending = b]
      <3>1. dec' = [dec EXCEPT !.src = After(@, n), !.pending = @ \o Upto(dec.src, n)]
        BY <2>6 DEF DecWrite
      <3>2. QED BY <2>1, <2>7, <3>1
    <2>9. PICK f : f = dec' OBVIOUS
    <2>10. f.status = "open" /\ f.version = dec.version /\ f.src = a /\ f.pending = b
           /\ f.seq = dec.seq /\ f.refNonce = dec.refNonce /\ f.finalized = dec.finalized
      BY <1>1, <2>2, <2>8, <2>9 DEF DecTypes
    <2>11. Ahead(f) = Ahead(dec)
      <3>1. PICK u : u = Upto(s, n) OBVIOUS
      <3>2. u \in Seq(T) /\ a \in Seq(T) /\ q \in Seq(T) /\ u \o a = s BY <2>4, <2>5, <2>7, <3>1
      <3>3. (q \o u) \o a = q \o (u \o a)
        <4>1. q \in Seq(T) /\ u \in Seq(T) /\ a \in Seq(T) BY <3>2
        <4>2. QED BY <4>1, ConcatAssociative
      <3>4. QED BY <2>1, <2>7, <2>10, <3>1, <3>2, <3>3 DEF Ahead
    <2>12. Intact(job, wire, f, k, e) BY <1>1, <2>3, <2>10, <2>11, IntactStays
    <2>13. QED BY <1>1, <2>9, <2>10, <2>12, IntactGoesOn
  <1>4. QED BY <1>2, <1>3

\* The writer of an intact stream has m tokens; its next package has n.
Waiting(j, w, d, k, e, m, n) ==
  /\ d \in DecTypes(Toks(j)) /\ d.version # 0 /\ d.pending # <<>>
  /\ k \in Nat /\ e \in Nat /\ Intact(j, w, d, k, e)
  /\ m = Len(d.pending) /\ n = Len(Package(j, d.seq))

\* What the writer has of the next package of an intact stream: all of it, or less.
LEMMA PendingIntact ==
  ASSUME NEW j, Job(j), NEW w, NEW d, NEW k, NEW e, NEW m, NEW n, Waiting(j, w, d, k, e, m, n)
  PROVE  /\ m \in Nat \ {0} /\ n \in Nat /\ n > 3 /\ d.seq \in Nat /\ d.seq < e
         /\ m <= Len(Ahead(d)) /\ n <= Len(Ahead(d)) /\ d.pending = Upto(Ahead(d), m)
         /\ d.pending[1] = Lead(j, d.seq) /\ n = HeaderSize + d.pending[1].len + TagSize
         /\ Upto(Ahead(d), n) = Package(j, d.seq)
         /\ j.version = 20 => /\ n = Least(Len(Ahead(d)), MaxPackageSize)
                              /\ n < MaxPackageSize => d.seq + 1 = k
  <1>1. /\ d \in DecTypes(Toks(j)) /\ d.version # 0 /\ d.pending # <<>>
        /\ k \in Nat /\ e \in Nat /\ Intact(j, w, d, k, e)
        /\ m = Len(d.pending) /\ n = Len(Package(j, d.seq))
    BY DEF Waiting
  <1>2. PICK T, q, s, a, i : T = Toks(j) /\ q = d.pending /\ s = d.src /\ a = Ahead(d) /\ i = d.seq
    OBVIOUS
  <1>3. q \in Seq(T) /\ s \in Seq(T) /\ i \in Nat BY <1>1, <1>2, DecFields
  <1>4. a = q \o s BY <1>2 DEF Ahead
  <1>5. m \in Nat \ {0} BY <1>1, <1>2, <1>3
  <1>6. Len(a) = m + Len(s) /\ Len(s) \in Nat /\ a \in Seq(T)
    <2>1. Len(q \o s) = Len(q) + Len(s) /\ Len(s) \in Nat /\ q \o s \in Seq(T) BY <1>3, JoinIs
    <2>2. QED BY <1>1, <1>2, <1>4, <2>1
  <1>7. m <= Len(a) /\ Len(a) > 0 BY <1>5, <1>6
  <1>8. a # <<>>
    <2>1. Len(<<>>) = 0 OBVIOUS
    <2>2. QED BY <1>7, <2>1
  <1>9. Upto(a, m) = q
    <2>1. 0 \in Nat /\ 0 <= m /\ m <= Len(q) /\ m \in Nat BY <1>1, <1>2, <1>5
    <2>2. Part(q \o s, 0, m) = Part(q, 0, m) BY <1>3, <2>1, PartOfFirst
    <2>3. Part(q, 0, Len(q)) = q BY <1>3, WholePart
    <2>4. Upto(a, m) = Part(a, 0, m) BY UptoIs
    <2>5. QED BY <1>1, <1>2, <1>4, <2>2, <2>3, <2>4
  <1>10. AllMade(j, w, k) /\ i <= e /\ e <= k /\ a = Part(w, Start(j, i), Start(j, e))
    BY <1>1, <1>2 DEF Intact
  <1>11. i < e
    <2>1. d.seq # e
      <3>1. d.seq \in Nat /\ Ahead(d) # <<>> BY <1>2, <1>3, <1>8
      <3>2. (Ahead(d) = <<>>) <=> (d.seq = e) BY <1>1, <3>1, SomethingAhead
      <3>3. QED BY <3>1, <3>2
    <2>2. QED BY <1>1, <1>2, <1>3, <1>10, <2>1
  <1>12. n = Len(Package(j, i)) BY <1>1, <1>2
  <1>13. n \in Nat /\ n <= Len(a) /\ Upto(a, n) = Package(j, i) /\ a[1] = Lead(j, i)
    BY <1>1, <1>3, <1>10, <1>11, <1>12, NextInStream
  <1>14. q[1] = a[1]
    <2>1. q = SubSeq(a, 1, m) BY <1>9 DEF Upto
    <2>2. 1 <= m /\ m <= Len(a) /\ m \in Nat BY <1>5, <1>7
    <2>3. QED BY <1>6, <2>1, <2>2
  <1>15. q[1].len = Len(Piece(j, i))
    <2>1. q[1] = Lead(j, i) BY <1>13, <1>14
    <2>2. QED BY <2>1 DEF Lead, TokenOf
  <1>16. i \in Numbers(j)
    <2>1. i < k BY <1>1, <1>3, <1>10, <1>11
    <2>2. QED BY <1>1, <1>3, <1>10, <2>1, NumberIs
  <1>17. n = Len(Piece(j, i)) + 3 /\ Len(Piece(j, i)) \in Nat /\ Len(Piece(j, i)) > 0
    <2>1. n = Len(Piece(j, i)) + 3 BY <1>12, <1>16, PackageIs
    <2>2. Len(Piece(j, i)) = Edge(j, i + 1) - Edge(j, i) BY <1>3, PieceIs
    <2>3. Edge(j, i) < Edge(j, i + 1) /\ Edge(j, i) \in Nat /\ Edge(j, i + 1) \in Nat
      BY <1>3, <1>16, EdgeIs DEF Numbers
    <2>4. QED BY <2>1, <2>2, <2>3
  <1>18. n = HeaderSize + q[1].len + TagSize /\ n > 3 BY <1>15, <1>17 DEF HeaderSize, TagSize
  <1>19. ASSUME j.version = 20
         PROVE  n = Least(Len(a), MaxPackageSize) /\ (n < MaxPackageSize => i + 1 = k)
    BY <1>1, <1>3, <1>10, <1>11, <1>12, <1>19, LargestNext
  <1>20. QED BY <1>2, <1>3, <1>5, <1>7, <1>9, <1>11, <1>13, <1>14, <1>18, <1>19

\* A writer has a package of an intact stream when it is complete.
LEMMA CompleteIntact ==
  ASSUME NEW j, Job(j), NEW w, NEW d, NEW k, NEW e, NEW m, NEW n, Waiting(j, w, d, k, e, m, n)
  PROVE  Complete(d) <=> IF j.version = 20 THEN m >= MaxPackageSize ELSE m >= n
  <1>1. /\ d \in DecTypes(Toks(j)) /\ d.version # 0 /\ d.pending # <<>>
        /\ k \in Nat /\ e \in Nat /\ Intact(j, w, d, k, e)
        /\ m = Len(d.pending) /\ n = Len(Package(j, d.seq))
    BY DEF Waiting
  <1>2. PICK q : q = d.pending OBVIOUS
  <1>3. /\ m \in Nat \ {0} /\ n \in Nat /\ n > 3 
        /\ q[1] = Lead(j, d.seq) /\ n = HeaderSize + q[1].len + TagSize
    <2>1. /\ m \in Nat \ {0} /\ n \in Nat /\ n > 3 /\ d.seq \in Nat /\ d.seq < e
          /\ m <= Len(Ahead(d)) /\ n <= Len(Ahead(d)) /\ d.pending = Upto(Ahead(d), m)
          /\ d.pending[1] = Lead(j, d.seq) /\ n = HeaderSize + d.pending[1].len + TagSize
          /\ Upto(Ahead(d), n) = Package(j, d.seq)
          /\ j.version = 20 => /\ n = Least(Len(Ahead(d)), MaxPackageSize)
                               /\ n < MaxPackageSize => d.seq + 1 = k
      BY PendingIntact
    <2>2. QED BY <1>2, <2>1
  <1>4. q[1].kind = "lead" BY <1>3 DEF Lead, TokenOf
  <1>5. d.version = j.version BY <1>1 DEF Intact
  <1>6. PICK c \in Nat : c = MaxPackageSize /\ c > 3
    BY DAREAssumption DEF MaxPackageSize, HeaderSize, TagSize
  <1>7. PICK b \in BOOLEAN : b <=> (d.version = 20 \/ Len(d.pending) <= HeaderSize \/ d.pending[1].kind # "lead")
    BY Zenon
  <1>8. Complete(d) <=> (Len(d.pending) >= (IF b THEN MaxPackageSize ELSE HeaderSize + d.pending[1].len + TagSize))
    BY <1>7, Zenon DEF Complete
  <1>9. b <=> (j.version = 20 \/ m <= 2) BY <1>1, <1>2, <1>3, <1>4, <1>5, <1>7 DEF HeaderSize
  <1>10. CASE j.version = 20
    <2>1. b BY <1>9, <1>10
    <2>2. Complete(d) <=> (Len(d.pending) >= MaxPackageSize) BY <1>8, <2>1
    <2>3. QED BY <1>1, <1>10, <2>2
  <1>11. CASE j.version # 20 /\ m <= 2
    <2>1. Complete(d) <=> (m >= c) BY <1>1, <1>6, <1>8, <1>9, <1>11
    <2>2. ~(m >= c) /\ ~(m >= n) BY <1>3, <1>6, <1>11
    <2>3. QED BY <1>11, <2>1, <2>2
  <1>12. CASE j.version # 20 /\ ~(m <= 2)
    <2>1. ~b BY <1>9, <1>12
    <2>2. Complete(d) <=> (Len(d.pending) >= HeaderSize + d.pending[1].len + TagSize) BY <1>8, <2>1
    <2>3. Complete(d) <=> (m >= n) BY <1>1, <1>2, <1>3, <2>2
    <2>4. QED BY <1>12, <2>3
  <1>13. QED BY <1>10, <1>11, <1>12

\* A complete package of an intact stream opens.
LEMMA WriterTakes ==
  ASSUME NEW j, Job(j), NEW w, NEW d, NEW k, NEW e, NEW m, NEW n, Waiting(j, w, d, k, e, m, n), Complete(d),
         NEW f, f.src = d.pending, f.version = d.version
  PROVE  Fetched(f) = Package(j, d.seq) /\ n <= m
  <1>1. /\ d \in DecTypes(Toks(j)) /\ d.version # 0
        /\ k \in Nat /\ e \in Nat /\ Intact(j, w, d, k, e) /\ n = Len(Package(j, d.seq))
    BY DEF Waiting
  <1>2. /\ m \in Nat \ {0} /\ n \in Nat /\ d.seq \in Nat /\ d.seq < e
        /\ m <= Len(Ahead(d)) /\ n <= Len(Ahead(d)) /\ d.pending = Upto(Ahead(d), m)
        /\ j.version = 20 => n = Least(Len(Ahead(d)), MaxPackageSize)
    BY PendingIntact
  <1>3. PICK a, i, q : a = Ahead(d) /\ i = d.seq /\ q = d.pending OBVIOUS
  <1>4. AllMade(j, w, k) /\ e <= k /\ a = Part(w, Start(j, i), Start(j, e)) /\ d.version = j.version
    BY <1>1, <1>3 DEF Intact
  <1>5. Complete(d) <=> IF j.version = 20 THEN m >= MaxPackageSize ELSE m >= n BY CompleteIntact
  <1>6. PICK c \in Nat, l \in Nat : c = MaxPackageSize /\ l = Len(a) /\ m <= l
    <2>1. MaxPackageSize \in Nat BY DAREAssumption DEF MaxPackageSize, HeaderSize, TagSize
    <2>2. a \in Seq(Toks(j)) BY <1>1, <1>3, DecFields
    <2>3. QED BY <1>2, <1>3, <2>1, <2>2
  <1>7. n <= m /\ (j.version = 20 => n = Least(m, c))
    <2>1. CASE j.version = 20
      <3>1. m >= c /\ n = Least(l, c) BY <1>2, <1>3, <1>5, <1>6, <2>1
      <3>2. QED BY <1>2, <1>6, <3>1 DEF Least
    <2>2. CASE j.version # 20
      <3>1. m >= n BY <1>5, <2>2
      <3>2. QED BY <1>2, <2>2, <3>1
    <2>3. QED BY <2>1, <2>2
  <1>8. i \in Nat /\ i < e /\ n = Len(Package(j, i)) /\ m \in Nat /\ m <= Len(a) /\ q = Upto(a, m)
    BY <1>1, <1>2, <1>3
  <1>9. f.src = q /\ f.version = j.version /\ (j.version = 20 => n = Least(m, MaxPackageSize))
    BY <1>3, <1>4, <1>6, <1>7
  <1>10. Fetched(f) = Package(j, i) BY <1>1, <1>4, <1>7, <1>8, <1>9, TakesNext
  <1>11. QED BY <1>3, <1>7, <1>10

\* It opens, and its data is given on.
LEMMA WriteOpensIntact ==
  ASSUME EncInv, DecInv, IntactInv, DecWriteOpens
  PROVE  IntactInv'
  <1>1. PICK d, p : d = [dec EXCEPT !.src = dec.pending] /\ p = Fetched(d) OBVIOUS
  <1>2. dec.status = "open" /\ job.to = "writer" /\ dec.version # 0 /\ Complete(dec)
        /\ UNCHANGED <<job, enc, wire, same>>
    BY DEF DecWriteOpens, Writing, DecFails
  <1>3. CASE ~same BY <1>2, <1>3, NotIntact
  <1>4. CASE same
    <2>1. PICK T, s, q : T = Toks(job) /\ s = dec.src /\ q = dec.pending OBVIOUS
    <2>2. /\ Job(job) /\ dec \in DecTypes(T) /\ dec.seq \in Nat
          /\ \E k, e \in Nat : Intact(job, wire, dec, k, e)
      BY <1>2, <1>4, <2>1, IntactIs
    <2>3. PICK k \in Nat, e \in Nat : Intact(job, wire, dec, k, e) BY <2>2
    <2>4. s \in Seq(T) /\ q \in Seq(T) /\ Len(q) \in Nat BY <2>1, <2>2, DecFields
    <2>5. q # <<>>
      <3>1. PICK b \in BOOLEAN : b <=> (dec.version = 20 \/ Len(dec.pending) <= HeaderSize \/ dec.pending[1].kind # "lead")
        BY Zenon
      <3>2. Len(dec.pending) >= (IF b THEN MaxPackageSize ELSE HeaderSize + dec.pending[1].len + TagSize)
        BY <1>2, <3>1, Zenon DEF Complete
      <3>3. CASE b
        <4>1. MaxPackageSize \in Nat /\ MaxPackageSize > 3
          BY DAREAssumption DEF MaxPackageSize, HeaderSize, TagSize
        <4>2. Len(q) >= MaxPackageSize BY <2>1, <3>2, <3>3
        <4>3. Len(q) > 0 BY <2>4, <4>1, <4>2
        <4>4. Len(<<>>) = 0 OBVIOUS
        <4>5. QED BY <4>3, <4>4
      <3>4. CASE ~b
        <4>1. ~(Len(q) <= HeaderSize) BY <2>1, <3>1, <3>4
        <4>2. Len(q) > 0 BY <2>4, <4>1 DEF HeaderSize
        <4>3. Len(<<>>) = 0 OBVIOUS
        <4>4. QED BY <4>2, <4>3
      <3>5. QED BY <3>3, <3>4
    <2>6. PICK m, n : m = Len(q) /\ n = Len(Package(job, dec.seq)) OBVIOUS
    <2>7. Waiting(job, wire, dec, k, e, m, n) BY <1>2, <2>1, <2>2, <2>3, <2>5, <2>6 DEF Waiting
    <2>8. d.src = dec.pending /\ d.version = dec.version BY <1>1, <2>2 DEF DecTypes
    <2>9. p = Package(job, dec.seq) /\ n <= m
      <3>1. Fetched(d) = Package(job, dec.seq) /\ n <= m BY <1>2, <2>2, <2>7, <2>8, WriterTakes
      <3>2. QED BY <1>1, <3>1
    <2>10. dec.seq < e /\ n \in Nat /\ m \in Nat BY <2>2, <2>7, PendingIntact
    <2>11. Opens(dec, p)
      <3>1. Opens(dec, Package(job, dec.seq)) BY <1>2, <2>2, <2>3, <2>10, IntactOpens
      <3>2. QED BY <2>9, <3>1
    <2>12. dec' = [Opened(dec, p) EXCEPT !.src = dec.src, !.pending = After(dec.pending, Len(p)),
                    !.out = @ \o Payload(p)]
      BY <1>1, <2>11 DEF DecWriteOpens
    <2>13. PICK g, f : g = Opened(dec, p) /\ f = dec' OBVIOUS
    <2>14. g.seq = dec.seq + 1 /\ g.version = dec.version /\ g.refNonce = p[2].nonce
           /\ g.finalized = (dec.version = 20 /\ p[2].final) /\ g.status = dec.status
      BY <2>2, <2>13, OpenedIs
    <2>15. DOMAIN g = DOMAIN dec BY <2>13 DEF Opened
    <2>16. PICK a, o : a = After(q, n) /\ o = g.out \o Payload(p) OBVIOUS
    <2>17. f = [g EXCEPT !.src = s, !.pending = a, !.out = o]
      BY <2>1, <2>6, <2>9, <2>12, <2>13, <2>16
    <2>18. f.seq = g.seq /\ f.version = g.version /\ f.refNonce = g.refNonce /\ f.finalized = g.finalized
           /\ f.status = g.status /\ f.src = s /\ f.pending = a
      BY <2>2, <2>15, <2>17 DEF DecTypes
    <2>19. Ahead(f) = After(Ahead(dec), Len(p))
      <3>1. After(q, n) \o s = After(q \o s, n)
        <4>1. PICK x \in Nat, y \in Nat : x = Len(q) /\ y = Len(s) /\ n <= x BY <2>4, <2>6, <2>9
        <4>2. Len(q \o s) = x + y BY <2>4, <4>1, JoinIs
        <4>3. Part(q \o s, n, Len(q) + y) = Part(q, n, Len(q)) \o Part(s, 0, y)
          <5>1. q \in Seq(T) /\ s \in Seq(T) /\ n \in Nat /\ n <= Len(q) /\ y \in Nat /\ y <= Len(s)
            BY <2>4, <2>10, <4>1
          <5>2. QED BY <5>1, PartAcross
        <4>4. Part(s, 0, Len(s)) = s BY <2>4, WholePart
        <4>5. QED BY <4>1, <4>2, <4>3, <4>4, UptoIs
      <3>2. QED BY <2>1, <2>6, <2>9, <2>16, <2>18, <3>1 DEF Ahead
    <2>20. f.seq = dec.seq + 1 /\ f.version = dec.version /\ f.refNonce = p[2].nonce
           /\ (f.finalized <=> (dec.version = 20 /\ p[2].final))
      BY <2>14, <2>18
    <2>21. Intact(job, wire, f, k, e) BY <1>2, <2>2, <2>3, <2>9, <2>10, <2>19, <2>20, IntactNext
    <2>22. dec'.status = "open" BY <1>2, <2>13, <2>14, <2>18
    <2>23. QED BY <1>2, <2>13, <2>21, <2>22, IntactGoesOn
  <1>5. QED BY <1>3, <1>4

\* What Close finds of an intact stream is its last package.
LEMMA LastIsPending ==
  ASSUME NEW j, Job(j), j.to = "writer", NEW w, NEW d, NEW k, NEW e, NEW m, NEW n,
         Waiting(j, w, d, k, e, m, n), d.src = <<>>, ~Complete(d)
  PROVE  /\ d.pending = Package(j, d.seq) /\ d.seq \in Nat /\ d.seq < e /\ d.seq + 1 = k
         /\ j.version = 20 /\ d.version = 20
  <1>1. /\ d \in DecTypes(Toks(j)) /\ d.version # 0
        /\ k \in Nat /\ e \in Nat /\ Intact(j, w, d, k, e) /\ m = Len(d.pending)
    BY DEF Waiting
  <1>2. /\ m \in Nat \ {0} /\ n \in Nat /\ d.seq \in Nat /\ d.seq < e
        /\ m <= Len(Ahead(d)) /\ n <= Len(Ahead(d)) /\ d.pending = Upto(Ahead(d), m)
        /\ Upto(Ahead(d), n) = Package(j, d.seq)
        /\ j.version = 20 => /\ n = Least(Len(Ahead(d)), MaxPackageSize)
                             /\ n < MaxPackageSize => d.seq + 1 = k
    BY PendingIntact
  <1>3. PICK q : q = d.pending OBVIOUS
  <1>4. q \in Seq(Toks(j)) BY <1>1, <1>3, DecFields
  <1>5. Ahead(d) = q
    <2>1. q \o <<>> = q BY <1>4
    <2>2. QED BY <1>3, <2>1 DEF Ahead
  <1>6. Len(Ahead(d)) = m BY <1>1, <1>3, <1>5
  <1>7. Complete(d) <=> IF j.version = 20 THEN m >= MaxPackageSize ELSE m >= n BY CompleteIntact
  <1>8. j.version = 20 /\ d.version = 20
    <2>1. m >= n BY <1>2, <1>6
    <2>2. j.version = 20 BY <1>7, <2>1
    <2>3. QED BY <1>1, <2>2 DEF Intact
  <1>9. PICK c \in Nat : c = MaxPackageSize
    BY DAREAssumption DEF MaxPackageSize, HeaderSize, TagSize
  <1>10. n = m /\ n < c /\ d.seq + 1 = k
    <2>1. ~(m >= c) BY <1>7, <1>8, <1>9
    <2>2. n = Least(m, c) BY <1>2, <1>6, <1>8, <1>9
    <2>3. n = m /\ n < c BY <1>2, <1>9, <2>1, <2>2 DEF Least
    <2>4. QED BY <1>2, <1>8, <1>9, <2>3
  <1>11. q = Package(j, d.seq) BY <1>2, <1>3, <1>10
  <1>12. QED BY <1>2, <1>3, <1>8, <1>10, <1>11

\* Close of an intact stream opens the last package, and everything came out.
LEMMA CloseIntact ==
  ASSUME EncInv, DecInv, IntactInv, DecClose
  PROVE  IntactInv'
  <1>1. dec.status = "open" /\ job.to = "writer" /\ dec.version # 0 /\ dec.src = <<>> /\ ~Complete(dec)
        /\ UNCHANGED <<job, enc, wire, same>>
    BY DEF DecClose, Writing, DecFails
  <1>2. CASE ~same BY <1>1, <1>2, NotIntact
  <1>3. CASE same
    <2>1. PICK T, q : T = Toks(job) /\ q = dec.pending OBVIOUS
    <2>2. /\ Job(job) /\ DecOk(job, wire, dec) /\ dec \in DecTypes(T) /\ dec.seq \in Nat
          /\ \E k, e \in Nat : Intact(job, wire, dec, k, e)
      BY <1>1, <1>3, <2>1, IntactIs
    <2>3. PICK k \in Nat, e \in Nat : Intact(job, wire, dec, k, e) BY <2>2
    <2>4. q \in Seq(T) /\ dec.out \in Seq(T) /\ Len(dec.out) \in Nat BY <2>1, <2>2, DecFields
    <2>5. DecAt(job, wire, dec, <<>>) BY <1>1, <2>2, WriterRest
    <2>6. CASE q = <<>>
      <3>1. DecFails("eof") BY <2>1, <2>6 DEF DecClose
      <3>2. dec' = [dec EXCEPT !.status = "eof", !.room = 0] BY <3>1 DEF DecFails
      <3>3. dec'.status = "eof" /\ dec'.out = dec.out BY <2>2, <3>2 DEF DecTypes
      <3>4. Ahead(dec) = <<>>
        <4>1. <<>> \o <<>> = <<>> OBVIOUS
        <4>2. QED BY <1>1, <2>1, <2>6, <4>1 DEF Ahead
      <3>5. Len(dec.out) = WantedLen(job) BY <2>2, <2>3, <2>5, <3>4, IntactEnds
      <3>6. QED BY <1>1, <3>3, <3>5, IntactDone
    <2>7. CASE q # <<>>
      <3>1. PICK m, n : m = Len(q) /\ n = Len(Package(job, dec.seq)) OBVIOUS
      <3>2. Waiting(job, wire, dec, k, e, m, n) BY <1>1, <2>1, <2>2, <2>3, <2>7, <3>1 DEF Waiting
      <3>3. /\ dec.pending = Package(job, dec.seq) /\ dec.seq \in Nat /\ dec.seq < e /\ dec.seq + 1 = k
            /\ job.version = 20 /\ dec.version = 20
        BY <1>1, <2>2, <3>2, LastIsPending
      <3>4. Opens(dec, dec.pending) /\ dec.seq \in Numbers(job)
        <4>1. Opens(dec, Package(job, dec.seq)) /\ dec.seq \in Numbers(job)
          BY <1>1, <2>2, <2>3, <3>3, IntactOpens
        <4>2. QED BY <3>3, <4>1
      <3>5. ~dec.finalized
        <4>1. dec.finalized => dec.seq = k BY <2>3 DEF Intact
        <4>2. QED BY <3>3, <4>1
      <3>6. dec' = [dec EXCEPT !.out = @ \o Payload(dec.pending), !.pending = <<>>,
                               !.finalized = dec.pending[2].final, !.status = "eof"]
        BY <2>1, <2>7, <3>3, <3>4, <3>5 DEF DecClose
      <3>7. PICK o, x : o = dec.out \o Payload(dec.pending) /\ x = dec.pending[2].final OBVIOUS
      <3>8. dec' = [dec EXCEPT !.out = o, !.pending = <<>>, !.finalized = x, !.status = "eof"]
        BY <3>6, <3>7
      <3>9. dec'.status = "eof" /\ dec'.out = o BY <2>2, <3>8 DEF DecTypes
      <3>10. Len(o) = WantedLen(job)
        <4>1. PICK i \in Nat : i = dec.seq BY <2>2
        <4>2. Payload(dec.pending) = Piece(job, i)
          <5>1. Payload(Package(job, i)) = Piece(job, i) BY <2>2, <3>4, <4>1, PayloadIs
          <5>2. QED BY <3>3, <4>1, <5>1
        <4>3. Piece(job, i) \in Seq(T) /\ Len(Piece(job, i)) = Edge(job, i + 1) - Edge(job, i)
          BY <2>1, <2>2, PieceIs
        <4>4. PICK r : r = Piece(job, i) OBVIOUS
        <4>5. Len(o) = Len(dec.out) + Len(r)
          <5>1. PICK u : u = dec.out OBVIOUS
          <5>2. u \in Seq(T) /\ r \in Seq(T) BY <2>4, <4>3, <4>4, <5>1
          <5>3. Len(u \o r) = Len(u) + Len(r) BY <5>2, JoinIs
          <5>4. QED BY <3>7, <4>2, <4>4, <5>1, <5>3
        <4>6. dec.skip = 0 /\ job.off = 0 /\ WantedLen(job) = Len(job.plain)
          <5>1. job.to \in {"reader", "writer"} BY <1>1
          <5>2. dec.skip = 0 BY <2>5, <5>1 DEF DecAt, Limited
          <5>3. QED BY <2>2, <5>1, <5>2, JobIs DEF WantedLen
        <4>7. job.off + Len(dec.out) = Edge(job, dec.seq) - Len(<<>>) + dec.skip
          BY <2>5 DEF DecAt, Aligned
        <4>8. Edge(job, i) \in Nat /\ Edge(job, i + 1) \in Nat BY <2>2, EdgeIs
        <4>9. Len(<<>>) = 0 OBVIOUS
        <4>10. Len(dec.out) = Edge(job, i) BY <2>4, <4>1, <4>6, <4>7, <4>8, <4>9
        <4>11. Edge(job, i + 1) = Len(job.plain)
          <5>1. Edge(job, k) = Len(job.plain) BY <2>3 DEF Intact, AllMade
          <5>2. QED BY <3>3, <4>1, <5>1
        <4>12. QED BY <4>3, <4>4, <4>5, <4>6, <4>8, <4>10, <4>11
      <3>11. QED BY <1>1, <3>9, <3>10, IntactDone
    <2>8. QED BY <2>6, <2>7
  <1>4. QED BY <1>2, <1>3

\* A new reader or writer of packages t up to e of an intact stream.
LEMMA NewIntact ==
  ASSUME NEW j, Job(j), NEW w, NEW k \in Nat, NEW t \in Nat, NEW e \in Nat, AllMade(j, w, k),
         t <= e, e <= k, j.off + WantedLen(j) <= Edge(j, e), j.to \in {"reader", "writer"} => e = k,
         NEW s, s = Part(w, Start(j, t), Start(j, e)), NEW m, NEW l
  PROVE  Intact(j, w, NewDec(s, t, m, l), k, e)
  <1>1. PICK d : d = NewDec(s, t, m, l) OBVIOUS
  <1>2. s \in Seq(Toks(j))
    <2>1. w \in Seq(Toks(j)) /\ Len(w) = Start(j, k) BY DEF AllMade, Made
    <2>2. PICK a \in Nat, b \in Nat : a = Start(j, t) /\ b = Start(j, e) /\ a <= b /\ b <= Len(w)
      <3>1. Start(j, t) <= Start(j, e) /\ Start(j, e) <= Start(j, k) BY StartsGrow
      <3>2. Start(j, t) \in Nat /\ Start(j, e) \in Nat BY StartIs
      <3>3. QED BY <2>1, <3>1, <3>2
    <2>3. Part(w, a, b) \in Seq(Toks(j)) BY <2>1, <2>2, PartIs
    <2>4. QED BY <2>2, <2>3
  <1>3. /\ d.seq = t /\ d.src = s /\ d.pending = <<>> /\ d.version = 0 /\ d.offset = 0 /\ d.room = 0
        /\ d.refNonce = -1 /\ ~d.finalized
    BY <1>1 DEF NewDec
  <1>4. Ahead(d) = s
    <2>1. <<>> \o s = s BY <1>2
    <2>2. QED BY <1>3, <2>1 DEF Ahead
  <1>5. Intact(j, w, d, k, e)
    <2>1. d.seq <= e BY <1>3
    <2>2. d.refNonce \in {-1, 0} BY <1>3
    <2>3. d.version # 20 /\ d.version \in {0, j.version} BY <1>3
    <2>4. Ahead(d) = Part(w, Start(j, d.seq), Start(j, e)) BY <1>3, <1>4
    <2>5. QED BY <1>3, <2>1, <2>2, <2>3, <2>4 DEF Intact
  <1>6. QED BY <1>1, <1>5

\* An intact stream is read from the beginning.
LEMMA AllIntact ==
  ASSUME NEW j, Job(j), j.to \in {"reader", "writer"}, NEW w, NEW k \in Nat, AllMade(j, w, k)
  PROVE  Intact(j, w, NewDec(w, 0, 0, NoLimit(w)), k, k)
  <1>1. w \in Seq(Toks(j)) /\ Len(w) = Start(j, k) /\ Edge(j, k) = Len(j.plain) BY DEF AllMade, Made
  <1>2. Start(j, 0) = 0 BY StartIs
  <1>3. Part(w, 0, Len(w)) = w BY <1>1, WholePart
  <1>4. w = Part(w, Start(j, 0), Start(j, k)) BY <1>1, <1>2, <1>3
  <1>5. j.off + WantedLen(j) <= Edge(j, k) BY <1>1, OffsetFits
  <1>6. k <= k /\ 0 <= k /\ 0 \in Nat OBVIOUS
  <1>7. PICK l : l = NoLimit(w) OBVIOUS
  <1>8. Intact(j, w, NewDec(w, 0, 0, l), k, k) BY <1>4, <1>5, <1>6, NewIntact
  <1>9. QED BY <1>7, <1>8

\* It is read from an offset on.
LEMMA AtIntact ==
  ASSUME NEW j, Job(j), j.to = "readAt", NEW w, NEW k \in Nat, AllMade(j, w, k),
         NEW d, d = NewDec(After(w, Least((j.off \div MaxPayloadSize) * MaxPackageSize, Len(w))),
                           j.off \div MaxPayloadSize, j.off % MaxPayloadSize, j.length)
  PROVE  \E e \in Nat : Intact(j, w, d, k, e)
  <1>1. w \in Seq(Toks(j)) /\ Len(w) = Start(j, k) /\ Edge(j, k) = Len(j.plain)
        /\ (k > 0 => Edge(j, k - 1) < Len(j.plain))
    BY DEF AllMade, Made
  <1>2. PICK t \in Numbers(j) :
          /\ t = j.off \div MaxPayloadSize /\ t < k /\ t * MaxPackageSize = Start(j, t)
    <2>1. j.to \in {"readAt", "range"} OBVIOUS
    <2>2. /\ Job(j) /\ k \in Nat /\ Edge(j, k) = Len(j.plain) /\ (k > 0 => Edge(j, k - 1) < Len(j.plain))
      BY <1>1
    <2>3. \E t \in Numbers(j), e \in Nat, s \in Nat : RangeAt(j, k, t, e, s) BY <2>1, <2>2, RangeIs
    <2>4. PICK t \in Numbers(j), e \in Nat :
           t = j.off \div MaxPayloadSize /\ t < e /\ e <= k /\ t * MaxPackageSize = Start(j, t)
      BY <2>3, Zenon DEF RangeAt
    <2>5. t \in Nat BY DEF Numbers
    <2>6. t < k BY <2>4, <2>5
    <2>7. QED BY <2>4, <2>6
  <1>3. t \in Nat BY <1>2 DEF Numbers
  <1>4. PICK a \in Nat : a = Start(j, t) /\ a <= Len(w)
    <2>1. Start(j, t) <= Start(j, k) BY <1>2, <1>3, StartsGrow
    <2>2. QED BY <1>1, <1>3, <2>1, StartIs
  <1>5. Least(a, Len(w)) = a BY <1>1, <1>4 DEF Least
  <1>6. After(w, a) = Part(w, Start(j, t), Start(j, k))
    <2>1. After(w, a) = Part(w, a, Len(w)) BY UptoIs
    <2>2. QED BY <1>1, <1>4, <2>1
  <1>7. PICK s, m, l : s = After(w, a) /\ m = j.off % MaxPayloadSize /\ l = j.length OBVIOUS
  <1>8. d = NewDec(s, t, m, l) BY <1>2, <1>4, <1>5, <1>7
  <1>9. j.off + WantedLen(j) <= Edge(j, k) BY <1>1, OffsetFits
  <1>10. t <= k /\ k <= k BY <1>2, <1>3
  <1>11. s = Part(w, Start(j, t), Start(j, k)) /\ (j.to \in {"reader", "writer"} => k = k)
    BY <1>6, <1>7
  <1>12. Intact(j, w, NewDec(s, t, m, l), k, k) BY <1>3, <1>9, <1>10, <1>11, NewIntact
  <1>13. QED BY <1>8, <1>12

\* A range of it is read.
LEMMA RangeIntact ==
  ASSUME NEW j, Job(j), j.to = "range", NEW w, NEW k \in Nat, AllMade(j, w, k),
         NEW r, r = GetDecryptedRange(Len(w), j.off, j.length),
         NEW d, d = NewDec(SubSeq(w, r.encOff + 1, r.encOff + r.encLength), r.seq, r.skip, j.length)
  PROVE  \E e \in Nat : Intact(j, w, d, k, e)
  <1>1. w \in Seq(Toks(j)) /\ Len(w) = Start(j, k) /\ Edge(j, k) = Len(j.plain)
        /\ (k > 0 => Edge(j, k - 1) < Len(j.plain))
    BY DEF AllMade, Made
  <1>2. PICK t \in Numbers(j), e \in Nat, s \in Nat :
           /\ t < e /\ e <= k
           /\ j.off + j.length <= Edge(j, e)
           /\ GetDecryptedRange(Start(j, k), j.off, j.length)
                = [encOff |-> Start(j, t), seq |-> t, skip |-> s, encLength |-> Start(j, e) - Start(j, t)]
    <2>1. j.to \in {"readAt", "range"} OBVIOUS
    <2>2. /\ Job(j) /\ k \in Nat /\ Edge(j, k) = Len(j.plain) /\ (k > 0 => Edge(j, k - 1) < Len(j.plain))
      BY <1>1
    <2>3. \E t \in Numbers(j), e \in Nat, s \in Nat : RangeAt(j, k, t, e, s) BY <2>1, <2>2, RangeIs
    <2>4. QED BY <2>3, Zenon DEF RangeAt
  <1>3. t \in Nat BY <1>2 DEF Numbers
  <1>4. PICK a \in Nat, b \in Nat : a = Start(j, t) /\ b = Start(j, e) BY <1>3, StartIs
  <1>5. r.encOff = a /\ r.seq = t /\ r.skip = s /\ r.encLength = b - a BY <1>1, <1>2, <1>4
  <1>6. PICK v, l : v = SubSeq(w, a + 1, b) /\ l = j.length OBVIOUS
  <1>7. d = NewDec(v, t, s, l)
    <2>1. a + (b - a) = b BY <1>4
    <2>2. QED BY <1>5, <1>6, <2>1
  <1>8. v = Part(w, Start(j, t), Start(j, e)) BY <1>4, <1>6 DEF Part
  <1>9. j.off + WantedLen(j) <= Edge(j, e)
    <2>1. WantedLen(j) = j.length BY DEF WantedLen
    <2>2. QED BY <1>2, <2>1
  <1>10. t <= e /\ e <= k /\ (j.to \in {"reader", "writer"} => e = k) BY <1>2, <1>3
  <1>11. Intact(j, w, NewDec(v, t, s, l), k, e) BY <1>3, <1>8, <1>9, <1>10, NewIntact
  <1>12. QED BY <1>7, <1>11

\* Nothing happened to the stream before it is sent.
LEMMA SendIntact ==
  ASSUME EncInv, DecInv, Send
  PROVE  IntactInv'
  <1>1. /\ enc.status = "eof" /\ dec.status = "none" /\ UNCHANGED <<job, enc>>
        /\ \/ /\ job.to \in {"reader", "writer"}
              /\ \E w \in {wire} \cup Altered(wire) :
                   /\ wire' = w
                   /\ same' = (w = wire)
                   /\ dec' = NewDec(w, 0, 0, NoLimit(w))
           \/ job.to = "readAt" /\ dec' = ReadAt(wire) /\ UNCHANGED <<wire, same>>
           \/ job.to = "range" /\ dec' = ReadRange(wire) /\ UNCHANGED <<wire, same>>
    BY DEF Send
  <1>2. dec'.status = "open" BY SendEncInv
  <1>3. Job(job) /\ Whole(job, wire) BY <1>1 DEF EncInv, EncMade, MadeSoFar
  <1>4. PICK k \in Nat : AllMade(job, wire, k) BY <1>3 DEF Whole, AllMade
  <1>5. SUFFICES ASSUME same' PROVE \E i, e \in Nat : Intact(job, wire', dec', i, e)
    <2>1. dec'.status \in {"open", "eof"} /\ dec'.status # "eof" BY <1>2
    <2>2. QED BY <1>1, <2>1, Zenon DEF IntactInv
  <1>6. CASE job.to \in {"reader", "writer"}
    <2>1. wire' = wire /\ dec' = NewDec(wire', 0, 0, NoLimit(wire')) BY <1>1, <1>5, <1>6
    <2>2. dec' = NewDec(wire, 0, 0, NoLimit(wire)) BY <2>1
    <2>3. Intact(job, wire, NewDec(wire, 0, 0, NoLimit(wire)), k, k) BY <1>3, <1>4, <1>6, AllIntact
    <2>4. QED BY <2>1, <2>2, <2>3
  <1>7. CASE job.to = "readAt"
    <2>1. dec' = ReadAt(wire) /\ wire' = wire BY <1>1, <1>7
    <2>2. dec' = NewDec(After(wire, Least((job.off \div MaxPayloadSize) * MaxPackageSize, Len(wire))),
                        job.off \div MaxPayloadSize, job.off % MaxPayloadSize, job.length)
      BY <2>1 DEF ReadAt
    <2>3. \E e \in Nat : Intact(job, wire, dec', k, e) BY <1>3, <1>4, <1>7, <2>2, AtIntact
    <2>4. QED BY <2>1, <2>3
  <1>8. CASE job.to = "range"
    <2>1. dec' = ReadRange(wire) /\ wire' = wire BY <1>1, <1>8
    <2>2. PICK r : r = GetDecryptedRange(Len(wire), job.off, job.length) OBVIOUS
    <2>3. dec' = NewDec(SubSeq(wire, r.encOff + 1, r.encOff + r.encLength), r.seq, r.skip, job.length)
      BY <2>1, <2>2 DEF ReadRange
    <2>4. \E e \in Nat : Intact(job, wire, dec', k, e) BY <1>3, <1>4, <1>8, <2>2, <2>3, RangeIntact
    <2>5. QED BY <2>1, <2>4
  <1>9. QED BY <1>1, <1>6, <1>7, <1>8

\* Before the stream is sent nothing is read of it.
LEMMA NothingRead ==
  ASSUME dec.status = "none", dec' = dec
  PROVE  IntactInv'
  <1>1. dec'.status = "none" OBVIOUS
  <1>2. QED BY <1>1 DEF IntactInv

\* Whoever reads an intact stream.
LEMMA ReadersIntact ==
  ASSUME EncInv, DecInv, IntactInv, DecActs
  PROVE  IntactInv'
  <1>1. CASE \E n \in Rooms : DecRead(n) \/ DecWrite(n)
    <2>1. PICK n \in Rooms : DecRead(n) \/ DecWrite(n) BY <1>1
    <2>2. n \in Nat /\ n > 0 BY DAREAssumption
    <2>3. QED BY <2>1, <2>2, ReadIntact, WriteIntact
  <1>2. CASE DecFirst \/ DecDrain \/ DecEOF \/ DecTampered \/ DecWhole \/ DecPart
    BY <1>2, FirstIntact, DrainIntact, EOFIntact, TamperedIntact, WholeIntact, PartIntact
  <1>3. CASE DecWriteOpens \/ DecClose BY <1>3, WriteOpensIntact, CloseIntact
  <1>4. QED BY <1>1, <1>2, <1>3 DEF DecActs

(***************************************************************************)
(* The theorems.                                                           *)
(***************************************************************************)
\* All of it.
StreamInv == DAREInv /\ IntactInv

\* Nothing is made yet, or read.
LEMMA StreamInit == DAREInit => StreamInv
  <1>1. SUFFICES ASSUME DAREInit PROVE DAREInv /\ IntactInv BY DEF StreamInv
  <1>2. dec.status = "none"
    <2>1. dec = [NewDec(<<>>, 0, 0, 0) EXCEPT !.status = "none"] BY <1>1 DEF DAREInit
    <2>2. QED BY <2>1 DEF NewDec
  <1>3. QED BY <1>1, <1>2, DAREInitInv DEF IntactInv

\* Every step keeps it.
LEMMA StreamNext == StreamInv /\ [DARENext]_dareVars => StreamInv'
  <1>1. SUFFICES ASSUME StreamInv, [DARENext]_dareVars PROVE StreamInv' OBVIOUS
  <1>2. EncInv /\ DecInv /\ IntactInv /\ DAREInv' BY <1>1, DARENextInv DEF StreamInv, DAREInv
  <1>3. CASE \E n \in Rooms : EncRead(n) \/ EncWrite(n)
    BY <1>2, <1>3, EncodersStep, NothingRead DEF StreamInv
  <1>4. CASE EncDrain \/ EncEOF \/ EncWhole \/ EncPart \/ EncWriteSeals \/ EncClose
    BY <1>2, <1>4, PackagesStep, NothingRead DEF StreamInv
  <1>5. CASE Send BY <1>2, <1>5, SendIntact DEF StreamInv
  <1>6. CASE DecActs BY <1>2, <1>6, ReadersIntact DEF StreamInv
  <1>7. CASE UNCHANGED dareVars
    <2>1. job' = job /\ wire' = wire /\ same' = same /\ dec' = dec BY <1>7 DEF dareVars
    <2>2. IntactInv' BY <1>2, <2>1 DEF IntactInv
    <2>3. QED BY <1>2, <2>2 DEF StreamInv
  <1>8. QED BY <1>1, <1>3, <1>4, <1>5, <1>6, <1>7, Zenon DEF DARENext, DecActs

\* What comes out of an intact stream is all that went in, and it is as long as it
\* should be.
LEMMA IntactStream ==
  ASSUME StreamInv
  PROVE  IntactIsDecrypted
  <1>1. EncInv /\ DecInv /\ IntactInv /\ DAREInv BY DEF StreamInv, DAREInv
  <1>2. same => dec.status \in {"none", "open", "eof"} BY <1>1, Zenon DEF IntactInv
  <1>3. ASSUME same, dec.status = "eof" PROVE dec.out = Wanted
    <2>1. "eof" # "none" OBVIOUS
    <2>2. Len(dec.out) = WantedLen(job) BY <1>1, <1>3, <2>1 DEF IntactInv
    <2>3. Job(job) /\ Decrypted(job, dec) BY <1>1, AlwaysDecrypted
    <2>4. dec.out = Part(job.plain, job.off, job.off + Len(dec.out)) BY <2>3 DEF Decrypted
    <2>5. Wanted = Part(job.plain, job.off, job.off + WantedLen(job)) BY <2>3, WantedIs
    <2>6. QED BY <2>2, <2>4, <2>5
  <1>4. ASSUME enc.status = "eof", same, job.size = MaxPayloadSize
        PROVE  /\ Len(wire) = EncryptedSize(Len(job.plain))
               /\ DecryptedSize(Len(wire)) = Len(job.plain)
    <2>1. Job(job) /\ Whole(job, wire)
      <3>1. CASE dec.status = "none" BY <1>1, <1>4, <3>1 DEF EncInv, EncMade, MadeSoFar
      <3>2. CASE dec.status # "none" BY <1>1, <1>4, <3>2 DEF EncInv
      <3>3. QED BY <3>1, <3>2
    <2>2. PICK k \in Nat : /\ Made(job, wire, k) /\ Edge(job, k) = Len(job.plain)
                           /\ (k > 0 => Edge(job, k - 1) < Len(job.plain))
      BY <2>1 DEF Whole
    <2>3. Len(wire) = Start(job, k) BY <2>2 DEF Made
    <2>4. /\ Start(job, k) = EncryptedSize(Len(job.plain))
          /\ DecryptedSize(Start(job, k)) = Len(job.plain)
      BY <1>4, <2>1, <2>2, SizesIs
    <2>5. QED BY <2>3, <2>4
  <1>5. QED BY <1>2, <1>3, <1>4 DEF IntactIsDecrypted

\* How encrypting and decrypting readers and writers (pkg/sio) stand to the data: EncInv
\* and DecInv whatever happened to the stream, IntactInv if nothing did.
THEOREM StreamInvAlways == DARESpec => []StreamInv
  BY StreamInit, StreamNext, PTL DEF DARESpec

\* Whatever happened to a stream, only what was encrypted comes out, and all of it if a
\* reader of version 2.0 found the end; and an intact stream is decrypted completely, from
\* any offset and for any range, whoever made it: for any sizes of payloads, data and
\* buffers, and any way to cut the stream into reads and writes (encReader, encWriter,
\* decReader, decWriter, ReadAt, GetDecryptedRange).
THEOREM DecryptedAsEncryptedAlways == DARESpec => []DecryptedAsEncrypted
  <1>1. StreamInv => DecryptedAsEncrypted
    BY DecryptedIsPlaintext, IntactStream DEF StreamInv, DecryptedAsEncrypted
  <1>2. QED BY <1>1, StreamInvAlways, PTL
=============================================================================
