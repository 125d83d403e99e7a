------------------------- MODULE WebSessionsProofs -------------------------
(***************************************************************************)
(* Proofs about web sessions: ServedAsAllowed, for any number of clients,  *)
(* users, names, requests and changes of rights.                           *)
(*                                                                         *)
(* The plan of a request is made once, when it is sent, and is only        *)
(* shortened afterwards: the invariant says of every plan that what it     *)
(* does is asked for before, and of every request that this was answered.  *)
(* A plan over many names is a concatenation (FlattenSeq); what it         *)
(* contains is proved by an induction over the natural numbers, stated     *)
(* with sets.                                                              *)
(*                                                                         *)
(* At the end, by the same lemmas about sequences, uploads in signed       *)
(* chunks: StreamIsSigned, for any size of chunk, payload and buffer.      *)
(***************************************************************************)
EXTENDS WebSessions, ChunkedUpload, FiniteSetTheorems, SequenceTheorems, WellFoundedInduction, TLAPS

(***************************************************************************)
(* The invariant                                                           *)
(***************************************************************************)

StepKinds ==
  {"ask", "may", "need", "got", "act", "try", "show", "auth", "verify", "owner", "notOwner",
   "walk", "user", "current", "setSecret", "sign", "urlToken", "presign"}

StepNames == {Bucket, NoName} \cup Objects \cup Folders \cup {names[1] : names \in Selections}

StepSet ==
  [do : StepKinds, action : Actions \cup {"ServerInfo", "GenerateAuth", NoName}, name : StepNames]

Everybody == AllHolders \cup {Owner, Anybody}

CredsSet == [key : Everybody, secret : Secrets \cup {OwnerSecret}, until : Nat]

\* A request is a record.
Formed(r) ==
  /\ DOMAIN r = {"op", "token", "args", "who", "plan", "got", "creds", "served", "issued",
                 "unseen", "vouched", "changed"}
  /\ r.op \in WebOps \cup S3Ops
  /\ r.token \in WebTokens \cup {NoToken}
  /\ r.creds \in CredsSet
  /\ r.plan \in Seq(StepSet)
  /\ r.vouched \in BOOLEAN /\ r.changed \in BOOLEAN
  /\ DOMAIN r.args = {"key", "current", "secret"}
  /\ r.args.secret \in Secrets \cup {OwnerSecret} /\ r.args.key \in Everybody
  /\ r.issued \subseteq CredsSet
  /\ r.who = Speaker(r.op, r.token, r.args)

\* The request had, or needs no, right to do this.
Seen(r, e) == r.who = Owner \/ e \notin r.unseen

RightOf(r, s) == <<r.who, s.action, s.name>>

\* Every effect is asked for, and asked for before it.
Covered(r, i) ==
  LET s == r.plan[i]
  IN \/ s.action = "ServerInfo" /\ r.op \in WebOps \ (Public \cup {"Login"})
     \/ s.action = "GenerateAuth"
          /\ (r.who = Owner \/ \E j \in 1 .. (i - 1) : r.plan[j].do = "owner")
     \/ s.action \in Actions
          /\ \/ Seen(r, RightOf(r, s))
             \/ \E j \in 1 .. (i - 1) :
                  /\ r.plan[j].do = "ask"
                  /\ r.plan[j].action = s.action /\ r.plan[j].name = s.name

\* What comes before the steps of a session.
Before(kind) ==
  CASE kind = "sign" -> {"setSecret"}
    [] kind = "setSecret" -> {"current"}
    [] kind = "current" -> {"user"}
    [] kind \in {"urlToken", "presign"} -> {"user"}
    [] OTHER -> StepKinds

OpsWith(kind) ==
  CASE kind = "auth" -> WebOps \ {"Login"}
    [] kind = "verify" -> S3Ops
    [] kind = "sign" -> {"Login", "SetAuth"}
    [] kind \in {"setSecret", "current"} -> {"SetAuth"}
    [] kind \in {"urlToken", "presign"} -> {"CreateURLToken", "PresignedGet"}
    [] kind = "user" -> {"SetAuth", "CreateURLToken", "PresignedGet"}
    [] OTHER -> WebOps \cup S3Ops

PlanFits(r) ==
  \A i \in 1 .. Len(r.plan) :
    /\ r.plan[i].do \in {"act", "try"} => Covered(r, i)
    /\ r.plan[i].do \in {"ask", "may"} => r.plan[i].action \in Actions
    /\ r.op \in OpsWith(r.plan[i].do)
    /\ r.plan[i].do = "auth" => i = 1
    /\ i > 1 => r.plan[i - 1].do \in Before(r.plan[i].do)

AtHead(r, kinds) == r.plan # << >> /\ r.plan[1].do \in kinds

HistoryFits(r, accts, held, time) ==
  /\ r.unseen \cap held = {}
  /\ Vouched(r, accts, time) => r.vouched
  /\ \A g \in r.got : g[1] \in Actions /\ Seen(r, <<r.who, g[1], g[2]>>)

\* Before its token was looked at a request has done nothing.
Unchecked(r) ==
  /\ r.served = {} /\ r.issued = {} /\ r.got = {}
  /\ r.plan = << >> \/ AtHead(r, {"auth", "verify"})

\* The token of a web request that was looked at.
TokenFits(r, accts) ==
  (r.op \in WebOps \ {"Login"} /\ r.plan # << >> /\ ~AtHead(r, {"auth"})) =>
    /\ r.token = NoToken => r.op \in Public
    /\ r.token # NoToken =>
         /\ r.who = Owner => r.token.secret = OwnerSecret
         /\ (r.who \in Holders /\ r.op # "SetAuth" /\ ~r.changed) =>
              accts[r.who].secret = r.token.secret

\* The credentials a session signs with.
CredsFit(r) ==
  /\ AtHead(r, {"sign", "setSecret", "current", "urlToken", "presign"}) => r.creds.key = r.who
  /\ AtHead(r, {"sign", "setSecret"}) => r.creds.secret = r.args.secret
  /\ AtHead(r, {"urlToken", "presign"}) =>
       \/ r.changed \/ r.who \in TempHolders
       \/ r.creds.secret = r.token.secret

RequestFits(r, accts, held, time) ==
  /\ Formed(r) /\ PlanFits(r) /\ HistoryFits(r, accts, held, time)
  /\ r.vouched \/ Unchecked(r)
  /\ TokenFits(r, accts) /\ CredsFit(r)
  /\ EffectsAllowed(r) /\ IssuesAllowed(r)

\* What accounts may become.
AccountTypes ==
  [AllHolders -> [secret : Secrets \cup {OwnerSecret}, status : {"on", "off", "gone"}]]

WebTypes ==
  /\ accounts \in AccountTypes
  /\ clock \in Nat
  /\ tokens \subseteq WebTokens
  /\ web = [b \in Browsers |-> web[b]]

SessionsInv ==
  /\ WebTypes
  /\ \A b \in Browsers :
       web[b] = NoWebRequest \/ RequestFits(web[b], accounts, rights, clock)

(***************************************************************************)
(* Induction                                                               *)
(***************************************************************************)

\* A set of numbers has a least one.
LEMMA LeastNumber ==
  ASSUME NEW T, T \subseteq Nat, T # {}
  PROVE  \E n \in T : \A m \in T : n <= m
  <1>1. PICK R : IsWellFoundedOn(R, Nat) /\ \A x, y \in Nat : ~(<<y, x>> \in R) => x <= y
    <2>1. IsWellFoundedOn(OpToRel(<, Nat), Nat) BY NatLessThanWellFounded
    <2>2. \A x, y \in Nat : ~(<<y, x>> \in OpToRel(<, Nat)) => x <= y BY DEF OpToRel
    <2> DEFINE Q == OpToRel(<, Nat)
    <2>3. IsWellFoundedOn(Q, Nat) /\ \A x, y \in Nat : ~(<<y, x>> \in Q) => x <= y BY <2>1, <2>2
    <2> HIDE DEF Q
    <2>4. QED BY <2>3
  <1>2. \E x \in T : \A y \in T : ~(<<y, x>> \in R) BY <1>1, WFMin, Zenon
  <1>3. PICK x \in T : \A y \in T : ~(<<y, x>> \in R) BY <1>2
  <1>4. ASSUME NEW m \in T PROVE x <= m BY <1>1, <1>3, Zenon
  <1>5. QED BY <1>4

\* What holds of 0, and of a number when it holds of the one before it, holds
\* of every number.
LEMMA SetInduction ==
  ASSUME NEW T, 0 \in T, \A n \in Nat : n \in T => n + 1 \in T
  PROVE  Nat \subseteq T
  <1> SUFFICES ASSUME NEW k \in Nat, k \notin T PROVE FALSE
    OBVIOUS
  <1> DEFINE B == Nat \ T
  <1>1. B \subseteq Nat /\ B # {} OBVIOUS
  <1> HIDE DEF B
  <1>2. PICK n \in B : \A m \in B : n <= m BY <1>1, LeastNumber
  <1> USE DEF B
  <1>3. n # 0 /\ n - 1 \in Nat /\ n - 1 \in T BY <1>2
  <1>4. QED BY <1>2, <1>3

(***************************************************************************)
(* One sequence after the other                                            *)
(***************************************************************************)

\* "part" is in "whole", after the first "o" elements.
Block(whole, part, o) ==
  /\ o \in Nat /\ o + Len(part) <= Len(whole)
  /\ \A m \in 1 .. Len(part) : whole[o + m] = part[m]

\* "whole" consists of the sequences of "parts".
Consists(whole, parts) ==
  /\ \A k \in 1 .. Len(parts) : \E o \in Nat : Block(whole, parts[k], o)
  /\ \A i \in 1 .. Len(whole) :
       \E k \in 1 .. Len(parts), o \in Nat :
         Block(whole, parts[k], o) /\ i - o \in 1 .. Len(parts[k])

\* A part of one of two sequences is a part of both, one after the other.
LEMMA BlocksOfConcat ==
  ASSUME NEW S, NEW f \in Seq(S), NEW g \in Seq(S)
  PROVE  /\ \A part, o : part \in Seq(S) /\ Block(f, part, o) => Block(f \o g, part, o)
         /\ \A part, o : part \in Seq(S) /\ Block(g, part, o) => Block(f \o g, part, Len(f) + o)
         /\ Block(f \o g, g, Len(f))
  <1>1. /\ f \o g \in Seq(S) /\ Len(f \o g) = Len(f) + Len(g)
        /\ Len(f) \in Nat /\ Len(g) \in Nat
        /\ \A i \in 1 .. Len(f) : (f \o g)[i] = f[i]
        /\ \A i \in 1 .. Len(g) : (f \o g)[Len(f) + i] = g[i]
    BY ConcatProperties, LenProperties
  <1> DEFINE h == f \o g
  <1> HIDE DEF h
  <1>2. /\ Len(h) = Len(f) + Len(g)
        /\ \A i \in 1 .. Len(f) : h[i] = f[i]
        /\ \A i \in 1 .. Len(g) : h[Len(f) + i] = g[i]
    BY <1>1 DEF h
  <1>3. ASSUME NEW part \in Seq(S), NEW o, Block(f, part, o) PROVE Block(h, part, o)
    <2>1. o \in Nat /\ Len(part) \in Nat /\ o + Len(part) <= Len(f) BY <1>3, LenProperties DEF Block
    <2>2. ASSUME NEW m \in 1 .. Len(part) PROVE h[o + m] = part[m]
      <3>1. o + m \in 1 .. Len(f) BY <1>1, <2>1
      <3>2. f[o + m] = part[m] BY <1>3 DEF Block
      <3>3. QED BY <1>2, <3>1, <3>2
    <2>3. QED BY <1>1, <1>2, <2>1, <2>2 DEF Block
  <1>4. ASSUME NEW part \in Seq(S), NEW o, Block(g, part, o) PROVE Block(h, part, Len(f) + o)
    <2>1. o \in Nat /\ Len(part) \in Nat /\ o + Len(part) <= Len(g) BY <1>4, LenProperties DEF Block
    <2>2. ASSUME NEW m \in 1 .. Len(part) PROVE h[(Len(f) + o) + m] = part[m]
      <3>1. o + m \in 1 .. Len(g) /\ (Len(f) + o) + m = Len(f) + (o + m) BY <1>1, <2>1
      <3>2. g[o + m] = part[m] BY <1>4 DEF Block
      <3>3. QED BY <1>2, <3>1, <3>2
    <2>3. QED BY <1>1, <1>2, <2>1, <2>2 DEF Block
  <1>5. Block(h, g, Len(f)) BY <1>1, <1>2 DEF Block
  <1>6. QED BY <1>3, <1>4, <1>5 DEF h

\* The function that FlattenSeq is computed by.
FlattensTo(seqs, f, n) ==
  f = [i \in 1 .. n |-> IF i = 1 THEN seqs[i] ELSE f[i - 1] \o seqs[i]]

\* There is a function that puts the first n sequences one after the other, for
\* every n.
LEMMA FlattenExists ==
  ASSUME NEW seqs
  PROVE  \A n \in Nat : \E f : FlattensTo(seqs, f, n)
  <1> DEFINE T == {n \in Nat : \E f : FlattensTo(seqs, f, n)}
  <1>1. 0 \in T
    <2> DEFINE f == [i \in 1 .. 0 |-> seqs[i]]
    <2>1. f = [i \in 1 .. 0 |-> IF i = 1 THEN seqs[i] ELSE f[i - 1] \o seqs[i]] OBVIOUS
    <2>2. QED BY <2>1 DEF FlattensTo
  <1>2. ASSUME NEW n \in Nat, n \in T PROVE n + 1 \in T
    <2>1. PICK f : f = [i \in 1 .. n |-> IF i = 1 THEN seqs[i] ELSE f[i - 1] \o seqs[i]]
      BY <1>2 DEF FlattensTo
    <2> DEFINE last == IF n = 0 THEN seqs[1] ELSE f[n] \o seqs[n + 1]
               g == [i \in 1 .. (n + 1) |-> IF i = n + 1 THEN last ELSE f[i]]
    <2>2. ASSUME NEW i \in 1 .. (n + 1)
          PROVE  g[i] = IF i = 1 THEN seqs[i] ELSE g[i - 1] \o seqs[i]
      <3>1. CASE i = n + 1 BY <3>1
      <3>2. CASE i # n + 1
        <4>1. i \in 1 .. n /\ g[i] = f[i] BY <3>2
        <4>2. f[i] = IF i = 1 THEN seqs[i] ELSE f[i - 1] \o seqs[i] BY <2>1, <4>1
        <4>3. i # 1 => i - 1 \in 1 .. (n + 1) /\ i - 1 # n + 1 BY <4>1
        <4>4. QED BY <4>1, <4>2, <4>3
      <3>3. QED BY <3>1, <3>2
    <2>3. DOMAIN g = 1 .. (n + 1) /\ g = [i \in 1 .. (n + 1) |-> g[i]] OBVIOUS
    <2> HIDE DEF g
    <2>4. g = [i \in 1 .. (n + 1) |-> IF i = 1 THEN seqs[i] ELSE g[i - 1] \o seqs[i]] BY <2>2, <2>3
    <2>5. FlattensTo(seqs, g, n + 1) BY <2>4, Zenon DEF FlattensTo
    <2>6. n + 1 \in Nat OBVIOUS
    <2>7. QED BY <2>5, <2>6
  <1> HIDE DEF T
  <1>3. Nat \subseteq T BY <1>1, <1>2, SetInduction
  <1>4. QED BY <1>3 DEF T

\* FlattenSeq is the value of such a function.
LEMMA FlattenSeqUnfolds ==
  ASSUME NEW S, NEW seqs \in Seq(Seq(S)), seqs # << >>
  PROVE  \E f : /\ FlattensTo(seqs, f, Len(seqs)) /\ FlattenSeq(seqs) = f[Len(seqs)]
  <1>1. Len(seqs) \in Nat /\ Len(seqs) # 0 BY EmptySeq, LenProperties
  <1> DEFINE g == CHOOSE f : FlattensTo(seqs, f, Len(seqs))
  <1>2. FlattensTo(seqs, g, Len(seqs)) BY <1>1, FlattenExists
  <1>3. FlattenSeq(seqs) = g[Len(seqs)] BY <1>1 DEF FlattenSeq, FlattensTo
  <1>4. QED BY <1>2, <1>3

\* FlattenSeq puts sequences one after the other.
LEMMA FlattenSeqConsists ==
  ASSUME NEW S, NEW seqs \in Seq(Seq(S))
  PROVE  FlattenSeq(seqs) \in Seq(S) /\ Consists(FlattenSeq(seqs), seqs)
  <1>1. Len(seqs) \in Nat /\ \A k \in 1 .. Len(seqs) : seqs[k] \in Seq(S)
    BY LenProperties, ElementOfSeq
  <1>2. CASE seqs = << >>
    <2>1. Len(seqs) = 0 /\ FlattenSeq(seqs) = << >> BY <1>2 DEF FlattenSeq
    <2>2. << >> \in Seq(S) /\ Len(<< >>) = 0 OBVIOUS
    <2>3. QED BY <2>1, <2>2 DEF Consists
  <1>3. CASE seqs # << >>
    <2>1. Len(seqs) # 0 BY <1>3, EmptySeq
    <2>2. PICK f : FlattensTo(seqs, f, Len(seqs)) /\ FlattenSeq(seqs) = f[Len(seqs)]
      BY <1>3, FlattenSeqUnfolds
    <2>3. \A i \in 1 .. Len(seqs) : f[i] = IF i = 1 THEN seqs[i] ELSE f[i - 1] \o seqs[i]
      BY <2>2 DEF FlattensTo
    <2> DEFINE Holds(n) ==
                 /\ f[n] \in Seq(S)
                 /\ \A k \in 1 .. n : \E o \in Nat : Block(f[n], seqs[k], o)
                 /\ \A i \in 1 .. Len(f[n]) :
                      \E k \in 1 .. n, o \in Nat :
                        Block(f[n], seqs[k], o) /\ i - o \in 1 .. Len(seqs[k])
               T == {n \in Nat : n + 1 \in 1 .. Len(seqs) => Holds(n + 1)}
    <2>4. Holds(1)
      <3>1. f[1] = seqs[1] /\ seqs[1] \in Seq(S) /\ Len(seqs[1]) \in Nat
        BY <1>1, <2>1, <2>3, LenProperties
      <3>2. Block(f[1], seqs[1], 0) BY <3>1 DEF Block
      <3>3. \A i \in 1 .. Len(f[1]) : i - 0 \in 1 .. Len(seqs[1]) BY <3>1
      <3>4. QED BY <3>1, <3>2, <3>3
    <2>5. ASSUME NEW n \in 1 .. (Len(seqs) - 1), Holds(n) PROVE Holds(n + 1)
      <3>1. /\ n \in Nat /\ n + 1 \in 1 .. Len(seqs) /\ n + 1 # 1 /\ (n + 1) - 1 = n
            /\ seqs[n + 1] \in Seq(S)
        BY <1>1
      <3>2. f[n + 1] = f[n] \o seqs[n + 1] BY <2>3, <3>1
      <3> DEFINE a == f[n]
                 b == seqs[n + 1]
                 c == f[n + 1]
      <3>3. /\ a \in Seq(S) /\ b \in Seq(S) /\ c = a \o b
            /\ \A k \in 1 .. n : \E o \in Nat : Block(a, seqs[k], o)
            /\ \A i \in 1 .. Len(a) :
                 \E k \in 1 .. n, o \in Nat : Block(a, seqs[k], o) /\ i - o \in 1 .. Len(seqs[k])
        BY <2>5, <3>1, <3>2
      <3>4. \A k \in 1 .. n : seqs[k] \in Seq(S) BY <1>1, <3>1
      <3> HIDE DEF a, c, Holds
      <3>5. /\ c \in Seq(S) /\ Len(c) = Len(a) + Len(b) /\ Len(a) \in Nat /\ Len(b) \in Nat
        BY <3>3, ConcatProperties, LenProperties
      <3>6. /\ \A part, o : part \in Seq(S) /\ Block(a, part, o) => Block(c, part, o)
            /\ Block(c, b, Len(a))
        BY <3>3, BlocksOfConcat
      <3>7. \A k \in 1 .. (n + 1) : \E o \in Nat : Block(c, seqs[k], o)
        <4> TAKE k \in 1 .. (n + 1)
        <4>1. CASE k = n + 1 BY <3>5, <3>6, <4>1
        <4>2. CASE k # n + 1
          <5>1. k \in 1 .. n BY <3>1, <4>2
          <5>2. QED BY <3>3, <3>4, <3>6, <5>1
        <4>3. QED BY <4>1, <4>2
      <3>8. ASSUME NEW i \in 1 .. Len(c)
            PROVE  \E k \in 1 .. (n + 1), o \in Nat :
                     Block(c, seqs[k], o) /\ i - o \in 1 .. Len(seqs[k])
        <4>1. CASE i <= Len(a)
          <5>1. i \in 1 .. Len(a) BY <3>5, <4>1
          <5>2. PICK k \in 1 .. n, o \in Nat : Block(a, seqs[k], o) /\ i - o \in 1 .. Len(seqs[k])
            BY <3>3, <5>1
          <5>3. k \in 1 .. (n + 1) /\ Block(c, seqs[k], o) BY <3>1, <3>4, <3>6, <5>2
          <5>4. QED BY <5>2, <5>3
        <4>2. CASE ~(i <= Len(a))
          <5>1. i - Len(a) \in 1 .. Len(b) BY <3>5, <4>2
          <5>2. n + 1 \in 1 .. (n + 1) BY <3>1
          <5>3. QED BY <3>5, <3>6, <5>1, <5>2
        <4>3. QED BY <4>1, <4>2
      <3>9. QED BY <3>5, <3>7, <3>8 DEF Holds, c
    <2> HIDE DEF Holds
    <2>6. 0 \in T BY <2>4
    <2>7. ASSUME NEW n \in Nat, n \in T PROVE n + 1 \in T
      <3>1. ASSUME (n + 1) + 1 \in 1 .. Len(seqs) PROVE Holds((n + 1) + 1)
        <4>1. n + 1 \in 1 .. Len(seqs) /\ n + 1 \in 1 .. (Len(seqs) - 1) BY <1>1, <3>1
        <4>2. Holds(n + 1) BY <2>7, <4>1
        <4>3. QED BY <2>5, <4>1, <4>2
      <3>2. QED BY <3>1
    <2>8. Nat \subseteq T
      <3> HIDE DEF T
      <3>1. QED BY <2>6, <2>7, SetInduction
    <2>9. Len(seqs) - 1 \in Nat /\ (Len(seqs) - 1) + 1 = Len(seqs) /\ Len(seqs) \in 1 .. Len(seqs)
      BY <1>1, <2>1
    <2>10. Holds(Len(seqs))
      <3>1. Len(seqs) - 1 \in T BY <2>8, <2>9
      <3>2. QED BY <2>9, <3>1
    <2>11. QED BY <2>2, <2>10 DEF Holds, Consists
  <1>4. QED BY <1>2, <1>3

(***************************************************************************)
(* Plans                                                                   *)
(***************************************************************************)

Plain == {"ask", "may", "need", "got", "act", "try", "show", "walk"}

\* Every effect in the plan is asked for before, in the plan or in "asked".
Proper(plan, asked, kinds) ==
  /\ plan \in Seq(StepSet)
  /\ \A i \in 1 .. Len(plan) :
       /\ plan[i].do \in kinds
       /\ plan[i].do \in {"ask", "may", "act", "try"} => plan[i].action \in Actions
       /\ plan[i].do \in {"act", "try"} =>
            \/ <<plan[i].action, plan[i].name>> \in asked
            \/ \E j \in 1 .. (i - 1) :
                 plan[j].do = "ask" /\ plan[j].action = plan[i].action /\ plan[j].name = plan[i].name

Asks(plan) ==
  {<<plan[i].action, plan[i].name>> : i \in {j \in 1 .. Len(plan) : plan[j].do = "ask"}}

\* A handler that does nothing does nothing it did not ask for.
LEMMA ProperEmpty ==
  ASSUME NEW asked, NEW kinds
  PROVE  Proper(<< >>, asked, kinds)
  <1>1. << >> \in Seq(StepSet) /\ Len(<< >>) = 0 OBVIOUS
  <1>2. QED BY <1>1 DEF Proper

\* Of two sequences of steps the second may rely on what the first asked for.
LEMMA ProperConcat ==
  ASSUME NEW asked, NEW kinds, NEW f, NEW g,
         Proper(f, asked, kinds), Proper(g, asked \cup Asks(f), kinds)
  PROVE  Proper(f \o g, asked, kinds) /\ Asks(f \o g) = Asks(f) \cup Asks(g)
  <1>1. f \in Seq(StepSet) /\ g \in Seq(StepSet) BY DEF Proper
  <1> DEFINE h == f \o g
  <1>2. /\ h \in Seq(StepSet) /\ Len(h) = Len(f) + Len(g)
        /\ Len(f) \in Nat /\ Len(g) \in Nat
        /\ \A i \in 1 .. Len(f) : h[i] = f[i]
        /\ \A i \in 1 .. Len(g) : h[Len(f) + i] = g[i]
    BY <1>1, ConcatProperties, LenProperties
  <1> HIDE DEF h
  <1>3. Asks(h) = Asks(f) \cup Asks(g)
    <2>1. ASSUME NEW x \in Asks(h) PROVE x \in Asks(f) \cup Asks(g)
      <3>1. PICK i \in 1 .. Len(h) : h[i].do = "ask" /\ x = <<h[i].action, h[i].name>>
        BY <2>1 DEF Asks
      <3>2. CASE i <= Len(f)
        <4>1. i \in 1 .. Len(f) /\ h[i] = f[i] BY <1>2, <3>2
        <4>2. QED BY <3>1, <4>1 DEF Asks
      <3>3. CASE ~(i <= Len(f))
        <4>1. i - Len(f) \in 1 .. Len(g) /\ Len(f) + (i - Len(f)) = i BY <1>2, <3>3
        <4>2. h[i] = g[i - Len(f)] BY <1>2, <4>1
        <4>3. QED BY <3>1, <4>1, <4>2 DEF Asks
      <3>4. QED BY <3>2, <3>3
    <2>2. ASSUME NEW x \in Asks(f) PROVE x \in Asks(h)
      <3>1. PICK i \in 1 .. Len(f) : f[i].do = "ask" /\ x = <<f[i].action, f[i].name>>
        BY <2>2 DEF Asks
      <3>2. i \in 1 .. Len(h) /\ h[i] = f[i] BY <1>2
      <3>3. QED BY <3>1, <3>2 DEF Asks
    <2>3. ASSUME NEW x \in Asks(g) PROVE x \in Asks(h)
      <3>1. PICK i \in 1 .. Len(g) : g[i].do = "ask" /\ x = <<g[i].action, g[i].name>>
        BY <2>3 DEF Asks
      <3>2. Len(f) + i \in 1 .. Len(h) /\ h[Len(f) + i] = g[i] BY <1>2
      <3>3. QED BY <3>1, <3>2 DEF Asks
    <2>4. QED BY <2>1, <2>2, <2>3
  <1>4. ASSUME NEW i \in 1 .. Len(h)
        PROVE  /\ h[i].do \in kinds
               /\ h[i].do \in {"ask", "may", "act", "try"} => h[i].action \in Actions
               /\ h[i].do \in {"act", "try"} =>
                    \/ <<h[i].action, h[i].name>> \in asked
                    \/ \E j \in 1 .. (i - 1) :
                         h[j].do = "ask" /\ h[j].action = h[i].action /\ h[j].name = h[i].name
    <2>1. CASE i <= Len(f)
      <3>1. i \in 1 .. Len(f) /\ h[i] = f[i] /\ \A j \in 1 .. (i - 1) : h[j] = f[j] BY <1>2, <2>1
      <3>2. /\ f[i].do \in kinds
            /\ f[i].do \in {"ask", "may", "act", "try"} => f[i].action \in Actions
            /\ f[i].do \in {"act", "try"} =>
                 \/ <<f[i].action, f[i].name>> \in asked
                 \/ \E j \in 1 .. (i - 1) :
                      f[j].do = "ask" /\ f[j].action = f[i].action /\ f[j].name = f[i].name
        BY <3>1 DEF Proper
      <3>3. QED BY <3>1, <3>2
    <2>2. CASE ~(i <= Len(f))
      <3> DEFINE m == i - Len(f)
      <3>1. m \in 1 .. Len(g) /\ Len(f) + m = i BY <1>2, <2>2
      <3>2. h[i] = g[m] BY <1>2, <3>1
      <3> HIDE DEF m
      <3>3. /\ g[m].do \in kinds
            /\ g[m].do \in {"ask", "may", "act", "try"} => g[m].action \in Actions
            /\ g[m].do \in {"act", "try"} =>
                 \/ <<g[m].action, g[m].name>> \in asked \cup Asks(f)
                 \/ \E j \in 1 .. (m - 1) :
                      g[j].do = "ask" /\ g[j].action = g[m].action /\ g[j].name = g[m].name
        BY <3>1 DEF Proper
      <3>4. ASSUME <<g[m].action, g[m].name>> \in Asks(f)
            PROVE  \E j \in 1 .. (i - 1) :
                     h[j].do = "ask" /\ h[j].action = h[i].action /\ h[j].name = h[i].name
        <4>1. PICK j \in 1 .. Len(f) :
                f[j].do = "ask" /\ <<g[m].action, g[m].name>> = <<f[j].action, f[j].name>>
          BY <3>4 DEF Asks
        <4>2. j \in 1 .. (i - 1) /\ h[j] = f[j] BY <1>2, <3>1
        <4>3. QED BY <3>2, <4>1, <4>2
      <3>5. ASSUME NEW j \in 1 .. (m - 1),
                   g[j].do = "ask" /\ g[j].action = g[m].action /\ g[j].name = g[m].name
            PROVE  \E k \in 1 .. (i - 1) :
                     h[k].do = "ask" /\ h[k].action = h[i].action /\ h[k].name = h[i].name
        <4>1. j \in 1 .. Len(g) /\ Len(f) + j \in 1 .. (i - 1) BY <1>2, <3>1
        <4>2. h[Len(f) + j] = g[j] BY <1>2, <4>1
        <4>3. QED BY <3>2, <3>5, <4>1, <4>2
      <3>6. QED BY <3>2, <3>3, <3>4, <3>5
    <2>3. QED BY <2>1, <2>2
  <1>5. QED BY <1>2, <1>3, <1>4 DEF h, Proper

\* A plan for each of several names.
LEMMA ProperEach ==
  ASSUME NEW asked, NEW kinds, NEW seqs \in Seq(Seq(StepSet)),
         \A k \in 1 .. Len(seqs) : Proper(seqs[k], asked, kinds)
  PROVE  /\ Proper(FlattenSeq(seqs), asked, kinds)
         /\ \A k \in 1 .. Len(seqs) : Asks(seqs[k]) \subseteq Asks(FlattenSeq(seqs))
         /\ FlattenSeq(seqs) # << >> =>
              \E k \in 1 .. Len(seqs) : seqs[k] # << >> /\ FlattenSeq(seqs)[1] = seqs[k][1]
  <1> DEFINE h == FlattenSeq(seqs)
  <1>1. h \in Seq(StepSet) /\ Consists(h, seqs) BY FlattenSeqConsists
  <1> HIDE DEF h
  <1>2. Len(h) \in Nat /\ \A k \in 1 .. Len(seqs) : seqs[k] \in Seq(StepSet) /\ Len(seqs[k]) \in Nat
    BY <1>1, LenProperties, ElementOfSeq
  <1>3. ASSUME NEW i \in 1 .. Len(h)
        PROVE  /\ h[i].do \in kinds
               /\ h[i].do \in {"ask", "may", "act", "try"} => h[i].action \in Actions
               /\ h[i].do \in {"act", "try"} =>
                    \/ <<h[i].action, h[i].name>> \in asked
                    \/ \E j \in 1 .. (i - 1) :
                         h[j].do = "ask" /\ h[j].action = h[i].action /\ h[j].name = h[i].name
    <2>1. PICK k \in 1 .. Len(seqs), o \in Nat :
            Block(h, seqs[k], o) /\ i - o \in 1 .. Len(seqs[k])
      BY <1>1 DEF Consists
    <2> DEFINE g == seqs[k]
               m == i - o
    <2>2. /\ m \in 1 .. Len(g) /\ o + m = i /\ Len(g) \in Nat
          /\ \A j \in 1 .. Len(g) : h[o + j] = g[j]
          /\ Proper(g, asked, kinds)
      BY <1>2, <2>1 DEF Block
    <2> HIDE DEF m, g
    <2>3. h[i] = g[m] BY <2>2
    <2>4. /\ g[m].do \in kinds
          /\ g[m].do \in {"ask", "may", "act", "try"} => g[m].action \in Actions
          /\ g[m].do \in {"act", "try"} =>
               \/ <<g[m].action, g[m].name>> \in asked
               \/ \E j \in 1 .. (m - 1) :
                    g[j].do = "ask" /\ g[j].action = g[m].action /\ g[j].name = g[m].name
      BY <2>2 DEF Proper
    <2>5. ASSUME NEW j \in 1 .. (m - 1),
                 g[j].do = "ask" /\ g[j].action = g[m].action /\ g[j].name = g[m].name
          PROVE  \E n \in 1 .. (i - 1) :
                   h[n].do = "ask" /\ h[n].action = h[i].action /\ h[n].name = h[i].name
      <3>1. j \in 1 .. Len(g) /\ o + j \in 1 .. (i - 1) BY <2>2
      <3>2. h[o + j] = g[j] BY <2>2, <3>1
      <3>3. QED BY <2>3, <2>5, <3>1, <3>2
    <2>6. QED BY <2>3, <2>4, <2>5
  <1>4. ASSUME NEW k \in 1 .. Len(seqs), NEW x \in Asks(seqs[k]) PROVE x \in Asks(h)
    <2>1. PICK o \in Nat : Block(h, seqs[k], o) BY <1>1 DEF Consists
    <2>2. PICK i \in 1 .. Len(seqs[k]) :
            seqs[k][i].do = "ask" /\ x = <<seqs[k][i].action, seqs[k][i].name>>
      BY <1>4 DEF Asks
    <2>3. o + i \in 1 .. Len(h) /\ h[o + i] = seqs[k][i] BY <1>2, <2>1 DEF Block
    <2>4. QED BY <2>2, <2>3 DEF Asks
  <1>5. ASSUME h # << >>
        PROVE  \E k \in 1 .. Len(seqs) : seqs[k] # << >> /\ h[1] = seqs[k][1]
    <2>1. 1 \in 1 .. Len(h) BY <1>1, <1>2, <1>5, EmptySeq
    <2>2. PICK k \in 1 .. Len(seqs), o \in Nat :
            Block(h, seqs[k], o) /\ 1 - o \in 1 .. Len(seqs[k])
      BY <1>1, <2>1 DEF Consists
    <2>3. o = 0 /\ 1 \in 1 .. Len(seqs[k]) BY <1>2, <2>2
    <2>4. h[o + 1] = seqs[k][1] BY <2>2, <2>3 DEF Block
    <2>5. h[1] = seqs[k][1] /\ seqs[k] # << >> BY <2>3, <2>4, EmptySeq
    <2>6. QED BY <2>5
  <1>6. QED BY <1>1, <1>3, <1>4, <1>5 DEF h, Proper

\* The plans for one name.
LEMMA ProperTuples ==
  ASSUME NEW name \in StepNames, NEW action \in Actions, NEW asked, NEW kinds,
         Plain \subseteq kinds
  PROVE  /\ Proper(<<MustHave(action, name)>>, asked, kinds)
         /\ Proper(<<May(action, name)>>, asked, kinds)
         /\ Proper(<<Need(name)>>, asked, kinds)
         /\ Proper(<<Got(action, name)>>, asked, kinds)
         /\ Proper(<<Show(action, name)>>, asked, kinds)
         /\ <<action, name>> \in asked =>
              Proper(<<DoIt(action, name)>>, asked, kinds) /\ Proper(<<Try(action, name)>>, asked, kinds)
         /\ Asks(<<MustHave(action, name)>>) = {<<action, name>>}
  <1>1. /\ MustHave(action, name) \in StepSet /\ May(action, name) \in StepSet
        /\ Need(name) \in StepSet /\ Got(action, name) \in StepSet
        /\ Show(action, name) \in StepSet /\ DoIt(action, name) \in StepSet
        /\ Try(action, name) \in StepSet
    BY DEF MustHave, May, Need, Got, Show, DoIt, Try, Does, StepSet, StepKinds
  <1>2. QED BY <1>1 DEF Proper, Plain, Asks, MustHave, May, Need, Got, Show, DoIt, Try, Does

\* A plan without effects.
LEMMA ProperQuestions ==
  ASSUME NEW asked, NEW kinds, NEW p \in Seq(StepSet),
         \A i \in 1 .. Len(p) :
           /\ p[i].do \in kinds \ {"act", "try"}
           /\ p[i].do \in {"ask", "may"} => p[i].action \in Actions
  PROVE  Proper(p, asked, kinds)
  BY DEF Proper

\* A plan whose effects were asked for.
LEMMA ProperEffects ==
  ASSUME NEW asked, NEW kinds, NEW p \in Seq(StepSet),
         \A i \in 1 .. Len(p) :
           /\ p[i].do \in kinds
           /\ p[i].do \in {"ask", "may", "act", "try"} => p[i].action \in Actions
           /\ p[i].do \in {"act", "try"} => <<p[i].action, p[i].name>> \in asked
  PROVE  Proper(p, asked, kinds)
  BY DEF Proper

\* The literals of the model.
LEMMA ProperLiterals ==
  ASSUME NEW name \in StepNames, NEW action \in Actions, NEW asked, NEW kinds,
         Plain \subseteq kinds
  PROVE  /\ Proper(Asking(action, name), asked, kinds)
         /\ Proper(RemoveOne(name), asked, kinds)
         /\ Proper(AskForDownload(name), asked, kinds)
         /\ <<"GetObject", name>> \in Asks(AskForDownload(name))
         /\ Proper(ListBucketsWeb, asked, kinds)
         /\ Proper(ListObjectsWeb(name), asked, kinds)
  <1>1. /\ \A a \in Actions : MustHave(a, name) \in StepSet /\ May(a, name) \in StepSet
                /\ DoIt(a, name) \in StepSet /\ Try(a, name) \in StepSet /\ Show(a, name) \in StepSet
        /\ Need(name) \in StepSet /\ Session("walk") \in StepSet
    <2>1. NoName \in StepNames BY DEF StepNames
    <2>2. QED
      BY <2>1 DEF MustHave, May, Need, Got, Show, DoIt, Try, Session, Does, StepSet, StepKinds
  <1>2. Proper(Asking(action, name), asked, kinds)
    BY <1>1 DEF Asking, Proper, Plain, MustHave, DoIt, Does
  <1>3. /\ "DeleteObject" \in Actions /\ "BypassGovernanceRetention" \in Actions
        /\ "GetBucketObjectLockConfiguration" \in Actions /\ "GetObject" \in Actions
        /\ "GetObjectRetention" \in Actions /\ "GetObjectLegalHold" \in Actions
        /\ "ListAllMyBuckets" \in Actions /\ "ListBucket" \in Actions /\ "PutObject" \in Actions
        /\ Bucket \in StepNames
    BY DEF Actions, StepNames
  <1>4. Proper(RemoveOne(name), asked, kinds)
    <2>1. Proper(<<MustHave("DeleteObject", name), Session("walk")>>, asked, kinds)
      BY <1>1, <1>3 DEF Proper, Plain, MustHave, Session, Does
    <2>2. Proper(<<MustHave("DeleteObject", name), May("BypassGovernanceRetention", name),
                   May("GetBucketObjectLockConfiguration", name), Need(name),
                   Try("DeleteObject", name)>>, asked, kinds)
      <3> DEFINE p == <<MustHave("DeleteObject", name), May("BypassGovernanceRetention", name),
                        May("GetBucketObjectLockConfiguration", name), Need(name),
                        Try("DeleteObject", name)>>
      <3>1. p \in Seq(StepSet) /\ Len(p) = 5 BY <1>1, <1>3
      <3>2. /\ p[1] = MustHave("DeleteObject", name) /\ p[2] = May("BypassGovernanceRetention", name)
            /\ p[3] = May("GetBucketObjectLockConfiguration", name) /\ p[4] = Need(name)
            /\ p[5] = Try("DeleteObject", name)
        OBVIOUS
      <3> HIDE DEF p
      <3>3. /\ p[1].do = "ask" /\ p[1].action = "DeleteObject" /\ p[1].name = name
            /\ p[2].do = "may" /\ p[2].action \in Actions
            /\ p[3].do = "may" /\ p[3].action \in Actions
            /\ p[4].do = "need"
            /\ p[5].do = "try" /\ p[5].action = "DeleteObject" /\ p[5].name = name
        BY <1>3, <3>2 DEF MustHave, May, Need, Try, Does
      <3>4. ASSUME NEW i \in 1 .. Len(p)
            PROVE  /\ p[i].do \in kinds
                   /\ p[i].do \in {"ask", "may", "act", "try"} => p[i].action \in Actions
                   /\ p[i].do \in {"act", "try"} => i = 5
        <4>1. i \in {1, 2, 3, 4, 5} BY <3>1
        <4>2. QED BY <1>3, <3>3, <4>1 DEF Plain
      <3>5. QED
        <4>1. 1 \in 1 .. (5 - 1) OBVIOUS
        <4>2. Proper(p, asked, kinds) BY <3>1, <3>3, <3>4, <4>1 DEF Proper
        <4>3. QED BY <4>2 DEF p
    <2>3. CASE name \in Folders BY <2>1, <2>3 DEF RemoveOne
    <2>4. CASE name \notin Folders BY <2>2, <2>4 DEF RemoveOne
    <2>5. QED BY <2>3, <2>4
  <1>5. Proper(AskForDownload(name), asked, kinds)
    <2> DEFINE p == AskForDownload(name)
    <2>1. /\ p \in Seq(StepSet) /\ Len(p) = 3
          /\ p[1] = MustHave("GetObject", name) /\ p[2] = May("GetObjectRetention", name)
          /\ p[3] = May("GetObjectLegalHold", name)
      BY <1>1, <1>3 DEF AskForDownload
    <2> HIDE DEF p
    <2>2. /\ p[1].do = "ask" /\ p[1].action \in Actions /\ p[2].do = "may"
          /\ p[2].action \in Actions /\ p[3].do = "may" /\ p[3].action \in Actions
      BY <1>3, <2>1 DEF MustHave, May, Does
    <2>3. \A i \in 1 .. Len(p) : i \in {1, 2, 3} BY <2>1
    <2>4. Proper(p, asked, kinds) BY <2>1, <2>2, <2>3, ProperQuestions DEF Plain
    <2>5. QED BY <2>4 DEF p
  <1>6. <<"GetObject", name>> \in Asks(AskForDownload(name))
    <2>1. /\ 1 \in 1 .. Len(AskForDownload(name)) /\ AskForDownload(name)[1].do = "ask"
          /\ AskForDownload(name)[1].action = "GetObject" /\ AskForDownload(name)[1].name = name
      BY DEF AskForDownload, MustHave, May, Does
    <2>2. QED BY <2>1 DEF Asks
  <1>7. Proper(ListBucketsWeb, asked, kinds)
    <2>1. May("ListAllMyBuckets", Bucket) \in StepSet /\ Show("ListAllMyBuckets", Bucket) \in StepSet
      BY <1>3 DEF May, Show, Does, StepSet, StepKinds
    <2>2. QED BY <1>3, <2>1 DEF ListBucketsWeb, Proper, Plain, May, Show, Does
  <1>8. Proper(ListObjectsWeb(name), asked, kinds)
    <2> DEFINE p == ListObjectsWeb(name)
    <2>1. /\ p \in Seq(StepSet) /\ Len(p) = 5
          /\ p[1] = May("ListBucket", name) /\ p[2] = May("PutObject", name) /\ p[3] = Need(name)
          /\ p[4] = Show("PutObject", name) /\ p[5] = Show("ListBucket", name)
      BY <1>1, <1>3 DEF ListObjectsWeb
    <2> HIDE DEF p
    <2>2. /\ p[1].do = "may" /\ p[1].action \in Actions /\ p[2].do = "may"
          /\ p[2].action \in Actions /\ p[3].do = "need" /\ p[4].do = "show" /\ p[5].do = "show"
      BY <1>3, <2>1 DEF May, Need, Show, Does
    <2>3. \A i \in 1 .. Len(p) : i \in {1, 2, 3, 4, 5} BY <2>1
    <2>4. Proper(p, asked, kinds) BY <2>1, <2>2, <2>3, ProperQuestions DEF Plain
    <2>5. QED BY <2>4 DEF p
  <1>9. QED BY <1>2, <1>4, <1>5, <1>6, <1>7, <1>8

\* A plan for every name.
LEMMA EachIs ==
  ASSUME NEW names, names \in Seq(Objects \cup Folders), NEW parts,
         parts = [i \in DOMAIN names |-> parts[i]], NEW asked, NEW kinds,
         \A i \in DOMAIN names : Proper(parts[i], asked, kinds)
  PROVE  /\ parts \in Seq(Seq(StepSet))
         /\ Len(parts) = Len(names) /\ DOMAIN names = 1 .. Len(parts)
         /\ Proper(FlattenSeq(parts), asked, kinds)
         /\ \A i \in DOMAIN names : Asks(parts[i]) \subseteq Asks(FlattenSeq(parts))
         /\ FlattenSeq(parts) # << >> =>
              \E k \in DOMAIN names : parts[k] # << >> /\ FlattenSeq(parts)[1] = parts[k][1]
  <1>1. Len(names) \in Nat /\ DOMAIN names = 1 .. Len(names) BY LenProperties
  <1>2. \A i \in 1 .. Len(names) : parts[i] \in Seq(StepSet) BY <1>1 DEF Proper
  <1>3. parts \in Seq(Seq(StepSet)) /\ Len(parts) = Len(names) BY <1>1, <1>2, IsASeq
  <1>4. QED BY <1>1, <1>3, ProperEach

(***************************************************************************)
(* The plans of handlers                                                   *)
(***************************************************************************)
\* The actions and effects of handlers are in the sets of steps.
LEMMA ActionsAre ==
  {"CreateBucket", "DeleteBucket", "ForceDeleteBucket", "GetBucketLocation", "GetBucketPolicy",
   "PutBucketPolicy", "ListAllMyBuckets", "ListBucket", "PutObject", "PutObjectRetention",
   "PutObjectLegalHold", "GetObject", "GetObjectRetention", "GetObjectLegalHold",
   "DeleteObject"} \subseteq Actions
  BY DEF Actions

\* The names of a request are names of steps.
LEMMA NamesAre ==
  ASSUME NEW names \in Selections
  PROVE  /\ names \in Seq(Objects \cup Folders) /\ names[1] \in StepNames
         /\ \A i \in DOMAIN names : names[i] \in StepNames
  <1>1. names \in Seq(Objects \cup Folders) BY SelectionsAssumption
  <1>2. \A i \in DOMAIN names : names[i] \in Objects \cup Folders
    BY <1>1, LenProperties, ElementOfSeq
  <1>3. QED BY <1>1, <1>2 DEF StepNames

\* RemoveObject asks for every name before it removes it.
LEMMA RemoveProper ==
  ASSUME NEW names \in Selections, NEW who
  PROVE  Proper(RemoveObject(who, names), {}, Plain)
  <1> DEFINE asks == [i \in DOMAIN names |-> <<MustHave("DeleteObject", names[i])>>]
             removals == [i \in DOMAIN names |-> RemoveOne(names[i])]
  <1>1. RemoveObject(who, names) =
          (IF who = Anybody THEN FlattenSeq(asks) ELSE << >>) \o FlattenSeq(removals)
    BY DEF RemoveObject, Each
  <1>2. \A i \in DOMAIN names : Proper(asks[i], {}, Plain) /\ \A A : Proper(removals[i], A, Plain)
    BY NamesAre, ActionsAre, ProperTuples, ProperLiterals
  <1>3. asks = [i \in DOMAIN names |-> asks[i]] /\ removals = [i \in DOMAIN names |-> removals[i]]
    OBVIOUS
  <1> HIDE DEF asks, removals
  <1>4. Proper(FlattenSeq(asks), {}, Plain) BY <1>2, <1>3, NamesAre, EachIs
  <1>5. \A A : Proper(FlattenSeq(removals), A, Plain)
    <2> TAKE A
    <2>1. \A i \in DOMAIN names : Proper(removals[i], A, Plain) BY <1>2
    <2>2. QED BY <1>3, <2>1, NamesAre, EachIs
  <1>6. Proper(IF who = Anybody THEN FlattenSeq(asks) ELSE << >>, {}, Plain) BY <1>4, ProperEmpty
  <1>7. QED BY <1>1, <1>5, <1>6, ProperConcat

\* DownloadZip asks for all names before it reads the first.
LEMMA DownloadZipProper ==
  ASSUME NEW names \in Selections
  PROVE  Proper(DownloadZip(names), {}, Plain)
  <1> DEFINE asks == [i \in DOMAIN names |-> AskForDownload(names[i])]
             reads == [i \in DOMAIN names |-> IF names[i] \in Folders THEN << >>
                                              ELSE <<DoIt("GetObject", names[i])>>]
             asked == {} \cup Asks(FlattenSeq(asks))
  <1>1. DownloadZip(names) = FlattenSeq(asks) \o FlattenSeq(reads) BY DEF DownloadZip, Each
  <1>2. \A i \in DOMAIN names :
          Proper(asks[i], {}, Plain) /\ <<"GetObject", names[i]>> \in Asks(asks[i])
    BY NamesAre, ActionsAre, ProperLiterals
  <1>3. asks = [i \in DOMAIN names |-> asks[i]] /\ reads = [i \in DOMAIN names |-> reads[i]] OBVIOUS
  <1>4. /\ Proper(FlattenSeq(asks), {}, Plain)
        /\ \A i \in DOMAIN names : Asks(asks[i]) \subseteq Asks(FlattenSeq(asks))
    <2> HIDE DEF asks
    <2>1. QED BY <1>2, <1>3, NamesAre, EachIs
  <1>5. \A i \in DOMAIN names : <<"GetObject", names[i]>> \in asked BY <1>2, <1>4
  <1> HIDE DEF asked, asks
  <1>6. \A i \in DOMAIN names : Proper(reads[i], asked, Plain)
    BY <1>5, NamesAre, ActionsAre, ProperTuples, ProperEmpty
  <1> HIDE DEF reads
  <1>7. Proper(FlattenSeq(reads), asked, Plain) BY <1>3, <1>6, NamesAre, EachIs
  <1>8. QED BY <1>1, <1>4, <1>7, ProperConcat DEF asked

\* After the question, the effect.
LEMMA ProperMore ==
  ASSUME NEW f, NEW kinds, Proper(f, {}, kinds), Plain \subseteq kinds,
         NEW name \in StepNames, NEW action \in Actions, NEW g,
         \/ g = <<DoIt(action, name)>> /\ <<action, name>> \in Asks(f)
         \/ g \in {<<MustHave(action, name)>>, <<May(action, name)>>, <<Got(action, name)>>,
                   <<Show(action, name)>>, << >>}
  PROVE  Proper(f \o g, {}, kinds) /\ Asks(f) \subseteq Asks(f \o g)
  <1> DEFINE asked == {} \cup Asks(f)
  <1>1. Proper(g, asked, kinds)
    <2>1. CASE g = <<DoIt(action, name)>> /\ <<action, name>> \in Asks(f)
      <3>1. <<action, name>> \in asked BY <2>1
      <3> HIDE DEF asked
      <3>2. Proper(<<DoIt(action, name)>>, asked, kinds) BY <3>1, ProperTuples
      <3>3. QED BY <2>1, <3>2
    <2>2. CASE g = << >> BY <2>2, ProperEmpty
    <2>3. CASE g \in {<<MustHave(action, name)>>, <<May(action, name)>>, <<Got(action, name)>>,
                      <<Show(action, name)>>}
      <3> HIDE DEF asked
      <3>1. /\ Proper(<<MustHave(action, name)>>, asked, kinds)
            /\ Proper(<<May(action, name)>>, asked, kinds)
            /\ Proper(<<Got(action, name)>>, asked, kinds)
            /\ Proper(<<Show(action, name)>>, asked, kinds)
        BY ProperTuples
      <3>2. QED BY <2>3, <3>1
    <2>4. QED BY <2>1, <2>2, <2>3
  <1>2. QED BY <1>1, ProperConcat

\* Download asks for the object before it reads it.
LEMMA DownloadProper ==
  ASSUME NEW name \in StepNames
  PROVE  Proper(Download(name), {}, Plain)
  <1> DEFINE f == AskForDownload(name)
             g == <<DoIt("GetObject", name), Show("GetObjectRetention", name),
                    Show("GetObjectLegalHold", name)>>
             asked == {} \cup Asks(f)
  <1>1. Proper(f, {}, Plain) /\ <<"GetObject", name>> \in asked BY ActionsAre, ProperLiterals
  <1>2. Proper(g, asked, Plain)
    <2>1. /\ DoIt("GetObject", name) \in StepSet /\ Show("GetObjectRetention", name) \in StepSet
          /\ Show("GetObjectLegalHold", name) \in StepSet /\ "GetObject" \in Actions
      BY ActionsAre DEF DoIt, Show, Does, StepSet, StepKinds
    <2>2. /\ g \in Seq(StepSet) /\ Len(g) = 3
          /\ g[1] = DoIt("GetObject", name) /\ g[2] = Show("GetObjectRetention", name)
          /\ g[3] = Show("GetObjectLegalHold", name)
      BY <2>1
    <2> HIDE DEF g, asked
    <2>3. /\ g[1].do = "act" /\ g[1].action = "GetObject" /\ g[1].name = name
          /\ g[2].do = "show" /\ g[3].do = "show"
      BY <2>2 DEF DoIt, Show, Does
    <2>4. \A i \in 1 .. Len(g) : i \in {1, 2, 3} BY <2>2
    <2>5. QED BY <1>1, <2>1, <2>2, <2>3, <2>4, ProperEffects DEF Plain
  <1>3. Download(name) = f \o g BY DEF Download
  <1> HIDE DEF f, g
  <1>4. QED BY <1>1, <1>2, <1>3, ProperConcat DEF asked

\* Upload asks for the object before it writes it.
LEMMA UploadProper ==
  ASSUME NEW who, NEW name \in StepNames, NEW locked \in BOOLEAN
  PROVE  Proper(Upload(who, name, locked), {}, Plain)
  <1> DEFINE f == <<MustHave("PutObject", name)>>
             g == IF who = Anybody THEN << >>
                  ELSE <<May("PutObjectRetention", name), May("PutObjectLegalHold", name)>>
             h == IF locked THEN <<Got("PutObjectRetention", name)>> ELSE << >>
             k == <<DoIt("PutObject", name)>>
             l == IF locked THEN <<Show("PutObjectRetention", name)>> ELSE << >>
  <1>1. Upload(who, name, locked) = (((f \o g) \o h) \o k) \o l BY DEF Upload
  <1>2. Proper(f, {}, Plain) /\ <<"PutObject", name>> \in Asks(f) BY ActionsAre, ProperTuples
  <1>3. \A A : Proper(g, A, Plain)
    <2> TAKE A
    <2>1. Proper(<<May("PutObjectRetention", name), May("PutObjectLegalHold", name)>>, A, Plain)
      <3> DEFINE p == <<May("PutObjectRetention", name), May("PutObjectLegalHold", name)>>
      <3>1. /\ May("PutObjectRetention", name) \in StepSet /\ May("PutObjectLegalHold", name) \in StepSet
            /\ "PutObjectRetention" \in Actions /\ "PutObjectLegalHold" \in Actions
        BY ActionsAre DEF May, Does, StepSet, StepKinds
      <3>2. /\ p \in Seq(StepSet) /\ Len(p) = 2
            /\ p[1].do = "may" /\ p[1].action \in Actions /\ p[2].do = "may" /\ p[2].action \in Actions
        BY <3>1 DEF May, Does
      <3> HIDE DEF p
      <3>3. \A i \in 1 .. Len(p) : i \in {1, 2} BY <3>2
      <3>4. Proper(p, A, Plain) BY <3>2, <3>3, ProperQuestions DEF Plain
      <3>5. QED BY <3>4 DEF p
    <2>2. QED BY <2>1, ProperEmpty
  <1>4. Proper(f \o g, {}, Plain) /\ Asks(f) \subseteq Asks(f \o g)
    <2> HIDE DEF f, g
    <2>1. QED BY <1>2, <1>3, ProperConcat
  <1>5. Proper((f \o g) \o h, {}, Plain) /\ Asks(f \o g) \subseteq Asks((f \o g) \o h)
    <2>1. \/ h = <<Got("PutObjectRetention", name)>> \/ h = << >> OBVIOUS
    <2> HIDE DEF f, g, h
    <2>2. QED BY <1>4, <2>1, ActionsAre, ProperMore
  <1>6. Proper(((f \o g) \o h) \o k, {}, Plain)
    <2>1. <<"PutObject", name>> \in Asks((f \o g) \o h) BY <1>2, <1>4, <1>5
    <2> HIDE DEF f, g, h
    <2>2. QED BY <1>5, <2>1, ActionsAre, ProperMore
  <1>7. Proper((((f \o g) \o h) \o k) \o l, {}, Plain)
    <2>1. \/ l = <<Show("PutObjectRetention", name)>> \/ l = << >> OBVIOUS
    <2> HIDE DEF f, g, h, k, l
    <2>2. QED BY <1>6, <2>1, ActionsAre, ProperMore
  <1>8. QED BY <1>1, <1>7

\* Handlers of the browser that act on objects and buckets.
LEMMA WebHandlerProper ==
  ASSUME NEW r, NEW who, r.op \in WebOps,
         r.op \notin {"ServerInfo", "StorageInfo", "Login", "GenerateAuth", "SetAuth",
                      "CreateURLToken", "PresignedGet"},
         IF r.op \in Named THEN r.names \in Selections ELSE r.names = <<Bucket>>
  PROVE  Proper(WebHandler(r, who), {}, Plain)
  <1>1. Bucket \in StepNames BY DEF StepNames
  <1>2. CASE r.op = "MakeBucket"
    <2>1. WebHandler(r, who) = Asking("CreateBucket", Bucket) BY <1>2 DEF WebHandler
    <2>2. QED BY <1>1, <2>1, ActionsAre, ProperLiterals
  <1>3. CASE r.op = "DeleteBucket"
    <2>1. WebHandler(r, who) = Asking("DeleteBucket", Bucket) BY <1>3 DEF WebHandler
    <2>2. QED BY <1>1, <2>1, ActionsAre, ProperLiterals
  <1>4. CASE r.op = "ListBuckets"
    <2>1. WebHandler(r, who) = ListBucketsWeb BY <1>4 DEF WebHandler
    <2>2. QED BY <1>1, <2>1, ActionsAre, ProperLiterals
  <1>5. CASE r.op = "ListObjects"
    <2>1. WebHandler(r, who) = ListObjectsWeb(r.names[1]) /\ r.names \in Selections
      BY <1>5 DEF WebHandler, Named, Public
    <2>2. r.names[1] \in StepNames BY <2>1, NamesAre
    <2>3. QED BY <2>1, <2>2, ActionsAre, ProperLiterals
  <1>6. CASE r.op = "RemoveObject"
    <2>1. WebHandler(r, who) = RemoveObject(who, r.names) /\ r.names \in Selections
      BY <1>6 DEF WebHandler, Named, Public
    <2>2. QED BY <2>1, RemoveProper
  <1>7. CASE r.op = "Upload"
    <2>1. WebHandler(r, who) = Upload(who, r.names[1], FALSE) /\ r.names \in Selections
      BY <1>7 DEF WebHandler, Named, Public
    <2>2. QED BY <2>1, NamesAre, UploadProper
  <1>8. CASE r.op = "UploadLocked"
    <2>1. WebHandler(r, who) = Upload(who, r.names[1], TRUE) /\ r.names \in Selections
      BY <1>8 DEF WebHandler, Named, Public
    <2>2. QED BY <2>1, NamesAre, UploadProper
  <1>9. CASE r.op = "Download"
    <2>1. WebHandler(r, who) = Download(r.names[1]) /\ r.names \in Selections
      BY <1>9 DEF WebHandler, Named, Public
    <2>2. QED BY <2>1, NamesAre, DownloadProper
  <1>10. CASE r.op = "DownloadZip"
    <2>1. WebHandler(r, who) = DownloadZip(r.names) /\ r.names \in Selections
      BY <1>10 DEF WebHandler, Named, Public
    <2>2. QED BY <2>1, DownloadZipProper
  <1>11. CASE r.op \in {"GetBucketPolicy", "ListAllBucketPolicies"}
    <2>1. WebHandler(r, who) = Asking("GetBucketPolicy", Bucket) BY <1>11 DEF WebHandler
    <2>2. QED BY <1>1, <2>1, ActionsAre, ProperLiterals
  <1>12. CASE r.op = "SetBucketPolicy"
    <2>1. WebHandler(r, who) = Asking("PutBucketPolicy", Bucket) BY <1>12 DEF WebHandler
    <2>2. QED BY <1>1, <2>1, ActionsAre, ProperLiterals
  <1>13. QED BY <1>2, <1>3, <1>4, <1>5, <1>6, <1>7, <1>8, <1>9, <1>10, <1>11, <1>12 DEF WebOps

Signing == Plain \cup {"verify"}

\* A plan that begins with the signature, if it is one at all.
Signed(plan) == Proper(plan, {}, Signing) /\ (plan # << >> => plan[1].do = "verify")

\* A handler of the S3 API verifies the signature first.
LEMMA SignedConcat ==
  ASSUME NEW g, Proper(g, {}, Signing)
  PROVE  Signed(SignedRequest(g))
  <1> DEFINE f == <<Session("verify")>>
  <1>1. f \in Seq(StepSet) /\ Len(f) = 1 /\ f[1].do = "verify"
    BY DEF Session, Does, StepSet, StepKinds, StepNames
  <1>2. SignedRequest(g) = f \o g BY DEF SignedRequest
  <1> HIDE DEF f
  <1>3. Proper(f, {}, Signing) BY <1>1 DEF Proper, Signing
  <1>4. Asks(f) = {} BY <1>1 DEF Asks
  <1>5. Proper(g, {} \cup Asks(f), Signing) BY <1>4
  <1>6. Proper(f \o g, {}, Signing) BY <1>3, <1>5, ProperConcat
  <1>7. (f \o g)[1] = f[1]
    <2>1. g \in Seq(StepSet) BY <1>5 DEF Proper
    <2>2. QED BY <1>1, <2>1, ConcatProperties, LenProperties
  <1>8. QED BY <1>1, <1>2, <1>6, <1>7 DEF Signed

\* The names of a request, each of them once.
LEMMA SetToSeqOf ==
  ASSUME NEW S, IsFiniteSet(S)
  PROVE  /\ SetToSeq(S) \in Seq(S) /\ (S = {} => SetToSeq(S) = << >>)
  <1>1. Cardinality(S) \in Nat BY FS_CardinalityType
  <1>2. PICK f : ExistsBijection(1 .. Cardinality(S), S) /\ f \in Bijection(1 .. Cardinality(S), S)
    BY FS_CardinalityType DEF ExistsBijection
  <1>3. f \in [1 .. Cardinality(S) -> S] /\ IsInjective(f)
    BY <1>2 DEF Bijection, Injection, IsInjective
  <1>4. SetToSeq(S) \in [1 .. Cardinality(S) -> S] BY <1>3 DEF SetToSeq
  <1>5. SetToSeq(S) \in Seq(S) /\ Len(SetToSeq(S)) = Cardinality(S) BY <1>1, <1>4
  <1>6. ASSUME S = {} PROVE SetToSeq(S) = << >>
    <2>1. Cardinality(S) = 0 BY <1>6, FS_EmptySet
    <2>2. QED BY <1>5, <2>1, EmptySeq
  <1>7. QED BY <1>5, <1>6

\* DeleteMultipleObjects asks for every name, and shows the names it may delete.
LEMMA DeletionsSigned ==
  ASSUME NEW names \in Selections
  PROVE  Signed(DeleteMultipleObjects(names))
  <1> DEFINE asks == [i \in DOMAIN names |-> SignedRequest(<<May("DeleteObject", names[i])>>)]
             left == SetToSeq(Range(names))
             shows == [i \in DOMAIN left |-> <<Show("DeleteObject", left[i])>>]
  <1>1. DeleteMultipleObjects(names) = FlattenSeq(asks) \o FlattenSeq(shows)
    BY DEF DeleteMultipleObjects, Each
  <1>2. /\ names \in Seq(Objects \cup Folders) /\ Len(names) \in Nat
        /\ DOMAIN names = 1 .. Len(names)
        /\ \A i \in DOMAIN names : names[i] \in Objects \cup Folders /\ names[i] \in StepNames
    BY NamesAre, LenProperties, ElementOfSeq
  <1>3. /\ Range(names) \subseteq Objects \cup Folders /\ IsFiniteSet(Range(names))
        /\ names = << >> => Range(names) = {}
    <2>1. IsFiniteSet(1 .. Len(names)) BY <1>2, FS_Interval
    <2>2. Range(names) = {names[i] : i \in 1 .. Len(names)} BY <1>2 DEF Range
    <2>3. names \in Surjection(1 .. Len(names), Range(names))
      <3>1. names \in [1 .. Len(names) -> Range(names)] BY <1>2, <2>2
      <3>2. QED BY <2>2, <3>1 DEF Surjection
    <2>4. IsFiniteSet(Range(names)) BY <2>1, <2>3, FS_Surjection DEF ExistsSurjection
    <2>5. QED BY <1>2, <2>2, <2>4
  <1>4. /\ left \in Seq(Objects \cup Folders) /\ (names = << >> => left = << >>)
        /\ \A i \in DOMAIN left : left[i] \in StepNames
    <2>1. left \in Seq(Range(names)) /\ (Range(names) = {} => left = << >>) BY <1>3, SetToSeqOf
    <2>2. left \in Seq(Objects \cup Folders) BY <1>3, <2>1, SeqMonotonic
    <2>3. \A i \in DOMAIN left : left[i] \in Objects \cup Folders
      BY <2>2, LenProperties, ElementOfSeq
    <2>4. QED BY <1>3, <2>1, <2>2, <2>3 DEF StepNames
  <1> HIDE DEF left
  <1>5. /\ asks = [i \in DOMAIN names |-> asks[i]] /\ shows = [i \in DOMAIN left |-> shows[i]]
    OBVIOUS
  <1>6. \A i \in DOMAIN names : Signed(asks[i]) /\ asks[i] = SignedRequest(<<May("DeleteObject", names[i])>>)
    <2>1. \A i \in DOMAIN names : Proper(<<May("DeleteObject", names[i])>>, {}, Signing)
      BY <1>2, ActionsAre, ProperTuples DEF Signing
    <2>2. QED BY <2>1, SignedConcat
  <1>7. \A A : \A i \in DOMAIN left : Proper(shows[i], A, Signing)
    BY <1>4, ActionsAre, ProperTuples DEF Signing
  <1> HIDE DEF asks, shows
  <1>8. /\ Proper(FlattenSeq(asks), {}, Signing)
        /\ FlattenSeq(asks) # << >> =>
             \E k \in DOMAIN names : asks[k] # << >> /\ FlattenSeq(asks)[1] = asks[k][1]
    BY <1>2, <1>5, <1>6, EachIs DEF Signed
  <1>9. \A A : Proper(FlattenSeq(shows), A, Signing)
    <2> TAKE A
    <2>1. \A i \in DOMAIN left : Proper(shows[i], A, Signing) BY <1>7
    <2>2. QED BY <1>4, <1>5, <2>1, EachIs
  <1>10. Proper(FlattenSeq(asks) \o FlattenSeq(shows), {}, Signing) BY <1>8, <1>9, ProperConcat
  <1>11. FlattenSeq(asks) \in Seq(StepSet) /\ FlattenSeq(shows) \in Seq(StepSet)
    BY <1>8, <1>9 DEF Proper
  <1>12. CASE FlattenSeq(asks) # << >>
    <2>1. FlattenSeq(asks)[1].do = "verify" BY <1>6, <1>8, <1>12 DEF Signed
    <2>2. (FlattenSeq(asks) \o FlattenSeq(shows))[1] = FlattenSeq(asks)[1]
      <3>1. Len(FlattenSeq(asks)) \in Nat \ {0} /\ Len(FlattenSeq(shows)) \in Nat
        BY <1>11, <1>12, EmptySeq, LenProperties
      <3>2. QED BY <1>11, <3>1, ConcatProperties
    <2>3. QED BY <1>1, <1>10, <2>1, <2>2 DEF Signed
  <1>13. CASE FlattenSeq(asks) = << >>
    <2>1. names = << >>
      <3>1. SUFFICES ASSUME names # << >> PROVE FALSE OBVIOUS
      <3>2. 1 \in DOMAIN names BY <1>2, <3>1, EmptySeq
      <3>3. asks \in Seq(Seq(StepSet)) /\ DOMAIN names = 1 .. Len(asks)
        BY <1>2, <1>5, <1>6, EachIs DEF Signed
      <3>4. Consists(FlattenSeq(asks), asks) BY <3>3, FlattenSeqConsists
      <3>5. PICK o \in Nat : Block(FlattenSeq(asks), asks[1], o) BY <3>2, <3>3, <3>4 DEF Consists
      <3>6. asks[1] \in Seq(StepSet) /\ Len(asks[1]) <= 0
        <4>1. asks[1] \in Seq(StepSet) /\ Len(FlattenSeq(asks)) = 0
          BY <1>6, <1>13, <3>2 DEF Signed, Proper
        <4>2. QED BY <3>5, <4>1, LenProperties DEF Block
      <3>7. Len(asks[1]) = 2
        <4> DEFINE f == <<Session("verify")>>
                   g == <<May("DeleteObject", names[1])>>
        <4>1. asks[1] = f \o g BY <1>6, <3>2 DEF SignedRequest
        <4>2. Len(f \o g) = 2 OBVIOUS
        <4>3. QED BY <4>1, <4>2
      <3>8. QED BY <3>6, <3>7
    <2>2. shows = << >>
      <3>1. left = << >> /\ DOMAIN left = {} BY <1>4, <2>1
      <3>2. QED BY <3>1 DEF shows
    <2>3. FlattenSeq(shows) = << >> BY <2>2 DEF FlattenSeq
    <2>4. FlattenSeq(asks) \o FlattenSeq(shows) = << >> BY <1>13, <2>3
    <2>5. QED BY <1>1, <1>10, <2>4 DEF Signed
  <1>14. QED BY <1>12, <1>13

(***************************************************************************)
(* The plan of a request that was just sent                                *)
(***************************************************************************)
\* Every handler of the S3 API verifies the signature and asks before it acts.
LEMMA S3HandlerSigned ==
  ASSUME NEW r, r.op \in S3Ops,
         r.op \in Named => r.names \in Selections
  PROVE  Signed(S3Handler(r))
  <1>1. Bucket \in StepNames BY DEF StepNames
  <1>2. \A a \in Actions : Signed(SignedRequest(Asking(a, Bucket)))
    <2> TAKE a \in Actions
    <2>1. Proper(Asking(a, Bucket), {}, Signing) BY <1>1, ProperLiterals DEF Signing
    <2>2. QED BY <2>1, SignedConcat
  <1>3. Signed(ListBucketsS3)
    <2> DEFINE p == <<May("ListAllMyBuckets", Bucket), May("ListBucket", Bucket), Need(Bucket),
                      Show("ListAllMyBuckets", Bucket), Show("ListBucket", Bucket)>>
    <2>1. /\ May("ListAllMyBuckets", Bucket) \in StepSet /\ May("ListBucket", Bucket) \in StepSet
          /\ Need(Bucket) \in StepSet /\ Show("ListAllMyBuckets", Bucket) \in StepSet
          /\ Show("ListBucket", Bucket) \in StepSet
      <3>1. NoName \in StepNames BY DEF StepNames
      <3>2. QED BY <1>1, <3>1, ActionsAre DEF May, Need, Show, Does, StepSet, StepKinds
    <2>2. /\ p \in Seq(StepSet) /\ Len(p) = 5
          /\ p[1] = May("ListAllMyBuckets", Bucket) /\ p[2] = May("ListBucket", Bucket)
          /\ p[3] = Need(Bucket) /\ p[4] = Show("ListAllMyBuckets", Bucket)
          /\ p[5] = Show("ListBucket", Bucket)
      BY <2>1
    <2>3. ListBucketsS3 = SignedRequest(p) BY DEF ListBucketsS3
    <2> HIDE DEF p
    <2>4. /\ p[1].do = "may" /\ p[1].action \in Actions /\ p[2].do = "may" /\ p[2].action \in Actions
          /\ p[3].do = "need" /\ p[4].do = "show" /\ p[5].do = "show"
      BY <2>2, ActionsAre DEF May, Need, Show, Does
    <2>5. \A i \in 1 .. Len(p) : i \in {1, 2, 3, 4, 5} BY <2>2
    <2>6. Proper(p, {}, Signing) BY <2>2, <2>4, <2>5, ProperQuestions DEF Plain, Signing
    <2>7. QED BY <2>3, <2>6, SignedConcat
  <1>4. CASE r.op = "s3GetBucketLocation"
    <2>1. S3Handler(r) = SignedRequest(Asking("GetBucketLocation", Bucket)) BY <1>4 DEF S3Handler
    <2>2. QED BY <1>2, <2>1, ActionsAre
  <1>5. CASE r.op = "s3ListBuckets"
    <2>1. S3Handler(r) = ListBucketsS3 BY <1>5 DEF S3Handler
    <2>2. QED BY <1>3, <2>1
  <1>6. CASE r.op = "s3DeleteMultipleObjects"
    <2>1. S3Handler(r) = DeleteMultipleObjects(r.names) /\ r.names \in Selections
      BY <1>6 DEF S3Handler, Named
    <2>2. QED BY <2>1, DeletionsSigned
  <1>7. CASE r.op = "s3PutBucket"
    <2>1. S3Handler(r) = SignedRequest(Asking("CreateBucket", Bucket)) BY <1>7 DEF S3Handler
    <2>2. QED BY <1>2, <2>1, ActionsAre
  <1>8. CASE r.op = "s3HeadBucket"
    <2>1. S3Handler(r) = SignedRequest(Asking("ListBucket", Bucket)) BY <1>8 DEF S3Handler
    <2>2. QED BY <1>2, <2>1, ActionsAre
  <1>9. CASE r.op = "s3DeleteBucket"
    <2>1. S3Handler(r) = SignedRequest(Asking("DeleteBucket", Bucket)) BY <1>9 DEF S3Handler
    <2>2. QED BY <1>2, <2>1, ActionsAre
  <1>10. CASE r.op = "s3ForceDeleteBucket"
    <2>1. S3Handler(r) = SignedRequest(Asking("ForceDeleteBucket", Bucket)) BY <1>10 DEF S3Handler
    <2>2. QED BY <1>2, <2>1, ActionsAre
  <1>11. QED BY <1>4, <1>5, <1>6, <1>7, <1>8, <1>9, <1>10 DEF S3Ops

-----------------------------------------------------------------------------
(***************************************************************************)
(* A request that was just sent                                            *)
(***************************************************************************)

\* Only steps of a session need a certain step before them.
LEMMA BeforePlain ==
  ASSUME NEW kind \in Signing
  PROVE  /\ Before(kind) = StepKinds
         /\ kind # "verify" => OpsWith(kind) = WebOps \cup S3Ops
  BY DEF Signing, Plain, Before, OpsWith

\* Which handlers look at a token and which at a signature.
LEMMA OpsAre == OpsWith("verify") = S3Ops /\ OpsWith("auth") = WebOps \ {"Login"}
  BY DEF OpsWith

\* The steps of the S3 API and of plain handlers may be taken by any handler.
LEMMA KindsAre ==
  ASSUME NEW p \in Seq(StepSet)
  PROVE  \A i \in 1 .. Len(p) : p[i] \in StepSet /\ p[i].do \in StepKinds
  <1>1. \A s \in StepSet : s.do \in StepKinds BY DEF StepSet
  <1>2. \A i \in 1 .. Len(p) : p[i] \in StepSet BY ElementOfSeq
  <1>3. QED BY <1>1, <1>2

\* The plan of a request to the S3 API.
LEMMA SignedFits ==
  ASSUME NEW r, r.op \in S3Ops, Signed(r.plan)
  PROVE  PlanFits(r) /\ (r.plan = << >> \/ AtHead(r, {"verify"}))
  <1>1. r.plan \in Seq(StepSet) /\ Len(r.plan) \in Nat BY LenProperties DEF Signed, Proper
  <1>2. \A i \in 1 .. Len(r.plan) : r.plan[i].do \in StepKinds BY <1>1, KindsAre
  <1>3. ASSUME NEW i \in 1 .. Len(r.plan)
        PROVE  /\ r.plan[i].do \in Signing
               /\ r.plan[i].do \in {"ask", "may", "act", "try"} => r.plan[i].action \in Actions
               /\ r.plan[i].do \in {"act", "try"} =>
                    \E j \in 1 .. (i - 1) :
                      /\ r.plan[j].do = "ask" /\ r.plan[j].action = r.plan[i].action
                      /\ r.plan[j].name = r.plan[i].name
    BY DEF Signed, Proper
  <1>4. ASSUME NEW i \in 1 .. Len(r.plan)
        PROVE  /\ r.plan[i].do \in {"act", "try"} => Covered(r, i)
               /\ r.plan[i].do \in {"ask", "may"} => r.plan[i].action \in Actions
               /\ r.op \in OpsWith(r.plan[i].do)
               /\ r.plan[i].do # "auth"
               /\ i > 1 => r.plan[i - 1].do \in Before(r.plan[i].do)
    <2>1. r.plan[i].do \in {"act", "try"} => Covered(r, i) BY <1>3 DEF Covered
    <2>2. r.op \in OpsWith(r.plan[i].do) BY <1>3, BeforePlain, OpsAre
    <2>3. i > 1 => r.plan[i - 1].do \in Before(r.plan[i].do) BY <1>1, <1>2, <1>3, BeforePlain
    <2>4. r.plan[i].do # "auth" BY <1>3 DEF Signing, Plain
    <2>5. QED BY <1>3, <2>1, <2>2, <2>3, <2>4
  <1>5. QED BY <1>4 DEF PlanFits, Signed, AtHead

\* The plan of a web request, after the step that looks at the token.
LEMMA AuthConcat ==
  ASSUME NEW h \in Seq(StepSet), NEW p, p = <<Session("auth")>> \o h
  PROVE  /\ p \in Seq(StepSet) /\ Len(p) = 1 + Len(h) /\ Len(h) \in Nat /\ p # << >>
         /\ p[1].do = "auth" /\ \A i \in 1 .. Len(h) : p[1 + i] = h[i]
  <1> DEFINE f == <<Session("auth")>>
  <1>1. f \in Seq(StepSet) /\ Len(f) = 1 /\ f[1].do = "auth"
    BY DEF Session, Does, StepSet, StepKinds, StepNames
  <1>2. p = f \o h OBVIOUS
  <1> HIDE DEF f
  <1>3. /\ p \in Seq(StepSet) /\ Len(p) = Len(f) + Len(h) /\ Len(h) \in Nat
        /\ p[1] = f[1] /\ \A i \in 1 .. Len(h) : p[1 + i] = h[i]
    BY <1>1, <1>2, ConcatProperties, LenProperties
  <1>4. p # << >> BY <1>1, <1>3, EmptySeq
  <1>5. QED BY <1>1, <1>3, <1>4

\* The plan of a web handler that is not of a session.
LEMMA AuthFits ==
  ASSUME NEW r, r.op \in WebOps \ {"Login"}, NEW h, Proper(h, {}, Plain),
         r.plan = <<Session("auth")>> \o h
  PROVE  PlanFits(r)
  <1>1. h \in Seq(StepSet) BY DEF Proper
  <1>2. /\ r.plan \in Seq(StepSet) /\ Len(r.plan) = 1 + Len(h) /\ Len(h) \in Nat
        /\ r.plan[1].do = "auth" /\ \A i \in 1 .. Len(h) : r.plan[1 + i] = h[i]
    BY <1>1, AuthConcat
  <1>3. \A i \in 1 .. Len(r.plan) : r.plan[i].do \in StepKinds BY <1>2, KindsAre
  <1>4. ASSUME NEW i \in 1 .. Len(r.plan)
        PROVE  /\ r.plan[i].do \in {"act", "try"} => Covered(r, i)
               /\ r.plan[i].do \in {"ask", "may"} => r.plan[i].action \in Actions
               /\ r.op \in OpsWith(r.plan[i].do)
               /\ r.plan[i].do = "auth" => i = 1
               /\ i > 1 => r.plan[i - 1].do \in Before(r.plan[i].do)
    <2>1. CASE i = 1 BY <1>2, <2>1, OpsAre
    <2>2. CASE i # 1
      <3> DEFINE m == i - 1
      <3>1. m \in 1 .. Len(h) /\ 1 + m = i BY <1>2, <2>2
      <3>2. r.plan[i] = h[m] BY <1>2, <3>1
      <3> HIDE DEF m
      <3>3. /\ h[m].do \in Plain
            /\ h[m].do \in {"ask", "may", "act", "try"} => h[m].action \in Actions
            /\ h[m].do \in {"act", "try"} =>
                 \E j \in 1 .. (m - 1) :
                   h[j].do = "ask" /\ h[j].action = h[m].action /\ h[j].name = h[m].name
        BY <3>1 DEF Proper
      <3>4. r.plan[i].do \in {"act", "try"} => Covered(r, i)
        <4>1. SUFFICES ASSUME h[m].do \in {"act", "try"}
                       PROVE  \E k \in 1 .. (i - 1) :
                                /\ r.plan[k].do = "ask" /\ r.plan[k].action = h[m].action
                                /\ r.plan[k].name = h[m].name
          BY <3>2, <3>3 DEF Covered
        <4>2. PICK j \in 1 .. (m - 1) :
                h[j].do = "ask" /\ h[j].action = h[m].action /\ h[j].name = h[m].name
          BY <3>3, <4>1, Zenon
        <4>3. j \in 1 .. Len(h) /\ 1 + j \in 1 .. (i - 1)
          <5>1. m \in Nat /\ Len(h) \in Nat /\ m <= Len(h) /\ i = 1 + m BY <1>2, <3>1
          <5>2. QED BY <5>1
        <4>4. r.plan[1 + j] = h[j] BY <1>2, <4>3
        <4>5. QED BY <4>2, <4>3, <4>4
      <3>5. r.plan[i].do \in Signing /\ r.plan[i].do \notin {"verify", "auth"}
        BY <3>2, <3>3 DEF Signing, Plain
      <3>6. r.plan[i - 1].do \in StepKinds BY <1>2, <1>3, <2>2
      <3>7. r.op \in OpsWith(r.plan[i].do) /\ r.plan[i - 1].do \in Before(r.plan[i].do)
        BY <3>5, <3>6, BeforePlain
      <3>8. QED BY <2>2, <3>2, <3>3, <3>4, <3>5, <3>7
    <2>3. QED BY <2>1, <2>2
  <1>5. QED BY <1>4 DEF PlanFits

\* A step of a session is a step.
LEMMA SessionIs ==
  ASSUME NEW kind \in StepKinds
  PROVE  Session(kind) \in StepSet /\ Session(kind).do = kind
  <1>1. NoName \in StepNames BY DEF StepNames
  <1>2. QED BY <1>1 DEF Session, Does, StepSet

\* An effect that needs no right.
LEMMA DoItIs ==
  ASSUME NEW action \in {"ServerInfo", "GenerateAuth"}
  PROVE  /\ DoIt(action, Bucket) \in StepSet /\ DoIt(action, Bucket).do = "act"
         /\ DoIt(action, Bucket).action = action
  <1>1. Bucket \in StepNames BY DEF StepNames
  <1>2. QED BY <1>1 DEF DoIt, Does, StepSet, StepKinds

\* The plan of ServerInfo.
LEMMA ServerInfoFits ==
  ASSUME NEW r, r.op \in {"ServerInfo", "StorageInfo"},
         r.plan = <<Session("auth")>> \o <<DoIt("ServerInfo", Bucket)>>
  PROVE  PlanFits(r) /\ <<DoIt("ServerInfo", Bucket)>> \in Seq(StepSet)
  <1> DEFINE h == <<DoIt("ServerInfo", Bucket)>>
  <1>1. h \in Seq(StepSet) /\ Len(h) = 1 /\ h[1].do = "act" /\ h[1].action = "ServerInfo" BY DoItIs
  <1>2. r.plan = <<Session("auth")>> \o h OBVIOUS
  <1> HIDE DEF h
  <1>a. /\ r.plan \in Seq(StepSet) /\ Len(r.plan) = 1 + Len(h) /\ r.plan[1].do = "auth"
        /\ \A i \in 1 .. Len(h) : r.plan[1 + i] = h[i]
    BY <1>1, <1>2, AuthConcat
  <1>3. /\ r.plan \in Seq(StepSet) /\ Len(r.plan) = 2 /\ r.plan[1].do = "auth"
        /\ r.plan[1 + 1] = h[1]
    BY <1>1, <1>a
  <1>4. r.op \in WebOps \ (Public \cup {"Login"}) BY DEF WebOps, Public
  <1>5. r.plan[2].do = "act" /\ r.plan[2].action = "ServerInfo" BY <1>1, <1>3
  <1>6. Covered(r, 2) BY <1>4, <1>5 DEF Covered
  <1>7. r.op \in OpsWith("auth") /\ r.op \in OpsWith("act") /\ Before("act") = StepKinds
    BY <1>4 DEF OpsWith, Before
  <1>8. r.plan[1].do \in StepKinds BY <1>3 DEF StepKinds
  <1>9. \A i \in 1 .. Len(r.plan) : i \in {1, 2} /\ (i > 1 => i - 1 = 1) BY <1>3
  <1>10. PlanFits(r) BY <1>3, <1>5, <1>6, <1>7, <1>8, <1>9 DEF PlanFits
  <1>b. QED
    BY <1>1, <1>10 DEF h

\* The plan of GenerateAuth: only the owner gets to its effect.
LEMMA GenerateAuthFits ==
  ASSUME NEW r, r.op = "GenerateAuth", r.plan = <<Session("auth")>> \o GenerateAuth
  PROVE  PlanFits(r) /\ GenerateAuth \in Seq(StepSet)
  <1> DEFINE h == GenerateAuth
  <1>1. /\ h \in Seq(StepSet) /\ Len(h) = 2 /\ h[1].do = "owner"
        /\ h[2].do = "act" /\ h[2].action = "GenerateAuth"
    <2>1. "owner" \in StepKinds BY DEF StepKinds
    <2>2. Session("owner") \in StepSet /\ Session("owner").do = "owner" BY <2>1, SessionIs
    <2>3. QED BY <2>2, DoItIs DEF GenerateAuth
  <1>2. r.plan = <<Session("auth")>> \o h OBVIOUS
  <1> HIDE DEF h
  <1>a. /\ r.plan \in Seq(StepSet) /\ Len(r.plan) = 1 + Len(h) /\ r.plan[1].do = "auth"
        /\ \A i \in 1 .. Len(h) : r.plan[1 + i] = h[i]
    BY <1>1, <1>2, AuthConcat
  <1>3. /\ r.plan \in Seq(StepSet) /\ Len(r.plan) = 3 /\ r.plan[1].do = "auth"
        /\ r.plan[1 + 1] = h[1] /\ r.plan[1 + 2] = h[2]
    BY <1>1, <1>a
  <1>4. /\ r.plan[2].do = "owner" /\ r.plan[3].do = "act" /\ r.plan[3].action = "GenerateAuth"
    BY <1>1, <1>3
  <1>5. Covered(r, 3)
    <2>1. 2 \in 1 .. (3 - 1) OBVIOUS
    <2>2. QED BY <1>4, <2>1 DEF Covered
  <1>6. /\ r.op \in OpsWith("auth") /\ r.op \in OpsWith("act") /\ r.op \in OpsWith("owner")
        /\ Before("act") = StepKinds /\ Before("owner") = StepKinds
    BY DEF OpsWith, Before, WebOps
  <1>7. r.plan[1].do \in StepKinds /\ r.plan[2].do \in StepKinds BY <1>3, <1>4 DEF StepKinds
  <1>8. \A i \in 1 .. Len(r.plan) : i \in {1, 2, 3} /\ (i = 2 => i - 1 = 1) /\ (i = 3 => i - 1 = 2)
    BY <1>3
  <1>9. PlanFits(r) BY <1>3, <1>4, <1>5, <1>6, <1>7, <1>8 DEF PlanFits
  <1>b. QED
    BY <1>1, <1>9 DEF h

\* The plan of SetAuth: each of its steps comes after the one it relies on.
LEMMA SetAuthFits ==
  ASSUME NEW r, r.op = "SetAuth", r.plan = <<Session("auth")>> \o SetAuth
  PROVE  PlanFits(r) /\ SetAuth \in Seq(StepSet)
  <1> DEFINE h == SetAuth
  <1>1. /\ h \in Seq(StepSet) /\ Len(h) = 5 /\ h[1].do = "notOwner" /\ h[2].do = "user"
        /\ h[3].do = "current" /\ h[4].do = "setSecret" /\ h[5].do = "sign"
    <2>1. {"notOwner", "user", "current", "setSecret", "sign"} \subseteq StepKinds BY DEF StepKinds
    <2>2. \A kind \in {"notOwner", "user", "current", "setSecret", "sign"} :
            Session(kind) \in StepSet /\ Session(kind).do = kind
      BY <2>1, SessionIs
    <2>3. QED BY <2>2 DEF SetAuth
  <1>2. r.plan = <<Session("auth")>> \o h OBVIOUS
  <1> HIDE DEF h
  <1>a. /\ r.plan \in Seq(StepSet) /\ Len(r.plan) = 1 + Len(h) /\ r.plan[1].do = "auth"
        /\ \A i \in 1 .. Len(h) : r.plan[1 + i] = h[i]
    BY <1>1, <1>2, AuthConcat
  <1>3. /\ r.plan \in Seq(StepSet) /\ Len(r.plan) = 6 /\ r.plan[1].do = "auth"
        /\ r.plan[1 + 1] = h[1] /\ r.plan[1 + 2] = h[2] /\ r.plan[1 + 3] = h[3]
        /\ r.plan[1 + 4] = h[4] /\ r.plan[1 + 5] = h[5]
    BY <1>1, <1>a
  <1>4. /\ r.plan[2].do = "notOwner" /\ r.plan[3].do = "user" /\ r.plan[4].do = "current"
        /\ r.plan[5].do = "setSecret" /\ r.plan[6].do = "sign"
    BY <1>1, <1>3
  <1>5. /\ \A kind \in {"auth", "notOwner", "user", "current", "setSecret", "sign"} :
             r.op \in OpsWith(kind)
        /\ Before("notOwner") = StepKinds /\ Before("user") = StepKinds
        /\ Before("current") = {"user"} /\ Before("setSecret") = {"current"}
        /\ Before("sign") = {"setSecret"}
    BY DEF OpsWith, Before, WebOps, S3Ops
  <1>6. r.plan[1].do \in StepKinds /\ r.plan[2].do \in StepKinds BY <1>3, <1>4 DEF StepKinds
  <1>7. \A i \in 1 .. Len(r.plan) :
          /\ i \in {1, 2, 3, 4, 5, 6}
          /\ (i = 2 => i - 1 = 1) /\ (i = 3 => i - 1 = 2) /\ (i = 4 => i - 1 = 3)
          /\ (i = 5 => i - 1 = 4) /\ (i = 6 => i - 1 = 5)
    BY <1>3
  <1>8. PlanFits(r) BY <1>3, <1>4, <1>5, <1>6, <1>7 DEF PlanFits
  <1>b. QED
    BY <1>1, <1>8 DEF h

\* The plans of CreateURLToken and PresignedGet.
LEMMA URLFits ==
  ASSUME NEW r, r.op \in {"CreateURLToken", "PresignedGet"}, NEW kind \in {"urlToken", "presign"},
         r.plan = <<Session("auth")>> \o <<Session("user"), Session(kind)>>
  PROVE  PlanFits(r) /\ <<Session("user"), Session(kind)>> \in Seq(StepSet)
  <1> DEFINE h == <<Session("user"), Session(kind)>>
  <1>1. /\ h \in Seq(StepSet) /\ Len(h) = 2 /\ h[1].do = "user" /\ h[2].do = kind
    <2>1. "user" \in StepKinds /\ kind \in StepKinds BY DEF StepKinds
    <2>2. /\ Session("user") \in StepSet /\ Session("user").do = "user"
          /\ Session(kind) \in StepSet /\ Session(kind).do = kind
      BY <2>1, SessionIs
    <2>3. QED BY <2>2
  <1>2. r.plan = <<Session("auth")>> \o h OBVIOUS
  <1> HIDE DEF h
  <1>a. /\ r.plan \in Seq(StepSet) /\ Len(r.plan) = 1 + Len(h) /\ r.plan[1].do = "auth"
        /\ \A i \in 1 .. Len(h) : r.plan[1 + i] = h[i]
    BY <1>1, <1>2, AuthConcat
  <1>3. /\ r.plan \in Seq(StepSet) /\ Len(r.plan) = 3 /\ r.plan[1].do = "auth"
        /\ r.plan[1 + 1] = h[1] /\ r.plan[1 + 2] = h[2]
    BY <1>1, <1>a
  <1>4. r.plan[2].do = "user" /\ r.plan[3].do = kind BY <1>1, <1>3
  <1>5. /\ r.op \in OpsWith("auth") /\ r.op \in OpsWith("user") /\ r.op \in OpsWith(kind)
        /\ Before("user") = StepKinds /\ Before(kind) = {"user"}
    BY DEF OpsWith, Before, WebOps, S3Ops
  <1>6. r.plan[1].do \in StepKinds BY <1>3 DEF StepKinds
  <1>7. \A i \in 1 .. Len(r.plan) : i \in {1, 2, 3} /\ (i = 2 => i - 1 = 1) /\ (i = 3 => i - 1 = 2)
    BY <1>3
  <1>8. PlanFits(r)
    <2>1. kind \notin {"act", "try", "ask", "may", "auth"} OBVIOUS
    <2>2. ASSUME NEW i \in 1 .. Len(r.plan)
          PROVE  /\ r.plan[i].do \notin {"act", "try", "ask", "may"}
                 /\ r.op \in OpsWith(r.plan[i].do)
                 /\ r.plan[i].do = "auth" => i = 1
                 /\ i > 1 => r.plan[i - 1].do \in Before(r.plan[i].do)
      <3>1. CASE i = 1 BY <1>3, <1>5, <3>1
      <3>2. CASE i = 2 BY <1>4, <1>5, <1>6, <1>7, <3>2
      <3>3. CASE i = 3 BY <1>4, <1>5, <1>7, <2>1, <3>3
      <3>4. QED BY <1>7, <3>1, <3>2, <3>3
    <2>3. QED BY <2>2 DEF PlanFits
  <1>b. QED
    BY <1>1, <1>8 DEF h

\* The plan of Login.
LEMMA LoginFits ==
  ASSUME NEW r, r.op = "Login", r.plan = <<Session("sign")>>
  PROVE  PlanFits(r) /\ r.plan \in Seq(StepSet) /\ r.plan # << >> /\ r.plan[1].do = "sign"
  <1>1. "sign" \in StepKinds BY DEF StepKinds
  <1>2. Session("sign") \in StepSet /\ Session("sign").do = "sign" BY <1>1, SessionIs
  <1>3. /\ r.plan \in Seq(StepSet) /\ Len(r.plan) = 1 /\ r.plan[1].do = "sign"
    BY <1>2
  <1>a. r.plan # << >>
    BY <1>3, EmptySeq
  <1>4. r.op \in OpsWith("sign") BY DEF OpsWith
  <1>5. \A i \in 1 .. Len(r.plan) : i = 1 /\ ~(i > 1) BY <1>3
  <1>6. QED BY <1>3, <1>a, <1>4, <1>5 DEF PlanFits

\* The plan of a request that was just sent.
LEMMA SentFits ==
  ASSUME NEW op \in WebOps \cup S3Ops, NEW names, NEW who,
         IF op \in Named THEN names \in Selections ELSE names = <<Bucket>>,
         NEW r, r.op = op,
         r.plan = (IF op \in WebOps \ {"Login"} THEN <<Session("auth")>> ELSE << >>)
                    \o Handler([op |-> op, names |-> names], who)
  PROVE  /\ r.plan \in Seq(StepSet) /\ PlanFits(r)
         /\ IF op = "Login" THEN AtHead(r, {"sign"}) ELSE r.plan = << >> \/ AtHead(r, {"auth", "verify"})
         /\ op \in WebOps \ {"Login"} => AtHead(r, {"auth"})
  <1> DEFINE h == Handler([op |-> op, names |-> names], who)
             q == [op |-> op, names |-> names]
  <1>1. q.op = op /\ q.names = names OBVIOUS
  <1>2. "Login" \notin S3Ops /\ WebOps \cap S3Ops = {} BY DEF WebOps, S3Ops
  <1>3. CASE op \in S3Ops
    <2>1. h = S3Handler(q) BY <1>3 DEF Handler
    <2>2. q.op \in S3Ops /\ (q.op \in Named => q.names \in Selections) BY <1>1, <1>3
    <2> HIDE DEF q, h
    <2>3. Signed(h) BY <2>1, <2>2, S3HandlerSigned
    <2>4. r.plan = << >> \o h BY <1>2, <1>3 DEF h, q
    <2>5. r.plan = h /\ h \in Seq(StepSet)
      <3>1. h \in Seq(StepSet) BY <2>3 DEF Signed, Proper
      <3>2. QED BY <2>4, <3>1, ConcatEmptySeq
    <2>6. PlanFits(r) /\ (r.plan = << >> \/ AtHead(r, {"verify"})) BY <1>3, <2>3, <2>5, SignedFits
    <2>7. QED BY <1>2, <1>3, <2>5, <2>6 DEF AtHead
  <1>4. CASE op = "Login"
    <2>1. h = <<Session("sign")>> BY <1>2, <1>4 DEF Handler, WebHandler
    <2>2. r.plan = << >> \o <<Session("sign")>> BY <1>4, <2>1
    <2>3. r.plan = <<Session("sign")>>
      <3> DEFINE f == <<Session("sign")>>
      <3>1. "sign" \in StepKinds BY DEF StepKinds
      <3>2. f \in Seq(StepSet) BY <3>1, SessionIs
      <3>3. r.plan = << >> \o f BY <2>2
      <3> HIDE DEF f
      <3>4. r.plan = f BY <3>2, <3>3, ConcatEmptySeq
      <3>5. QED BY <3>4 DEF f
    <2>4. PlanFits(r) /\ r.plan \in Seq(StepSet) /\ r.plan # << >> /\ r.plan[1].do = "sign"
      <3>1. r.op = "Login" BY <1>4
      <3> HIDE DEF h, q
      <3>2. QED BY <2>3, <3>1, LoginFits
    <2>5. QED BY <1>4, <2>4 DEF AtHead
  <1>5. CASE op \in WebOps \ {"Login"}
    <2>1. h = WebHandler(q, who) BY <1>2, <1>5 DEF Handler
    <2>2. r.plan = <<Session("auth")>> \o h BY <1>5
    <2>3. h \in Seq(StepSet) /\ PlanFits(r)
      <3>1. CASE op \in {"ServerInfo", "StorageInfo"}
        <4>1. h = <<DoIt("ServerInfo", Bucket)>> BY <2>1, <3>1 DEF WebHandler
        <4>2. QED BY <2>2, <3>1, <4>1, ServerInfoFits
      <3>2. CASE op = "GenerateAuth"
        <4>1. h = GenerateAuth BY <2>1, <3>2 DEF WebHandler
        <4>2. QED BY <2>2, <3>2, <4>1, GenerateAuthFits
      <3>3. CASE op = "SetAuth"
        <4>1. h = SetAuth BY <2>1, <3>3 DEF WebHandler
        <4>2. QED BY <2>2, <3>3, <4>1, SetAuthFits
      <3>4. CASE op = "CreateURLToken"
        <4>1. h = <<Session("user"), Session("urlToken")>>
          BY <2>1, <3>4 DEF WebHandler, CreateURLToken
        <4>2. r.plan = <<Session("auth")>> \o <<Session("user"), Session("urlToken")>> BY <2>2, <4>1
        <4>3. r.op \in {"CreateURLToken", "PresignedGet"} /\ "urlToken" \in {"urlToken", "presign"}
          BY <3>4
        <4> HIDE DEF h, q
        <4>4. PlanFits(r) /\ <<Session("user"), Session("urlToken")>> \in Seq(StepSet)
          BY <4>2, <4>3, URLFits
        <4>5. QED BY <4>1, <4>4
      <3>5. CASE op = "PresignedGet"
        <4>1. h = <<Session("user"), Session("presign")>> BY <2>1, <3>5 DEF WebHandler, PresignedGet
        <4>2. r.plan = <<Session("auth")>> \o <<Session("user"), Session("presign")>> BY <2>2, <4>1
        <4>3. r.op \in {"CreateURLToken", "PresignedGet"} /\ "presign" \in {"urlToken", "presign"}
          BY <3>5
        <4> HIDE DEF h, q
        <4>4. PlanFits(r) /\ <<Session("user"), Session("presign")>> \in Seq(StepSet)
          BY <4>2, <4>3, URLFits
        <4>5. QED BY <4>1, <4>4
      <3>6. CASE op \notin {"ServerInfo", "StorageInfo", "Login", "GenerateAuth", "SetAuth",
                            "CreateURLToken", "PresignedGet"}
        <4> HIDE DEF q, h
        <4>1. Proper(h, {}, Plain) BY <1>1, <1>5, <2>1, <3>6, WebHandlerProper
        <4>2. QED BY <1>5, <2>2, <4>1, AuthFits DEF Proper
      <3>7. QED BY <1>5, <3>1, <3>2, <3>3, <3>4, <3>5, <3>6
    <2>4. r.plan \in Seq(StepSet) /\ r.plan # << >> /\ r.plan[1].do = "auth"
      <3> HIDE DEF h, q
      <3>1. QED BY <2>2, <2>3, AuthConcat
    <2>5. QED BY <1>5, <2>3, <2>4 DEF AtHead
  <1>6. QED BY <1>3, <1>4, <1>5

(***************************************************************************)
(* Steps of a request                                                      *)
(***************************************************************************)

\* What a step of the request itself leaves alone.
SameRequest(r, s) ==
  /\ DOMAIN s = DOMAIN r
  /\ s.op = r.op /\ s.token = r.token /\ s.args = r.args /\ s.who = r.who
  /\ s.unseen = r.unseen /\ s.vouched = r.vouched /\ s.changed = r.changed

\* The question that was answered with yes.
HeadHeld(r) ==
  /\ r.plan[1].do = "ask" => Seen(r, RightOf(r, r.plan[1]))
  /\ r.plan[1].do = "owner" => r.who = Owner

\* When the head of a plan is done the rest is a plan.
LEMMA PlanTail ==
  ASSUME NEW r, NEW s, r.plan \in Seq(StepSet), r.plan # << >>, PlanFits(r),
         s.op = r.op, s.who = r.who, s.unseen = r.unseen, s.plan = Tail(r.plan),
         HeadHeld(r)
  PROVE  /\ s.plan \in Seq(StepSet) /\ PlanFits(s)
         /\ s.plan # << >> => /\ s.plan[1].do # "auth"
                              /\ r.plan[1].do \in Before(s.plan[1].do)
                              /\ s.op \in OpsWith(s.plan[1].do)
  <1>1. Len(r.plan) \in Nat \ {0} BY EmptySeq
  <1>2. /\ s.plan \in Seq(StepSet) /\ Len(s.plan) = Len(r.plan) - 1
        /\ \A i \in 1 .. Len(s.plan) : s.plan[i] = r.plan[i + 1]
    BY <1>1, HeadTailProperties
  <1>3. \A i \in 1 .. Len(s.plan) : i + 1 \in 1 .. Len(r.plan) /\ i + 1 > 1 /\ (i + 1) - 1 = i
    BY <1>1, <1>2
  <1>4. ASSUME NEW i \in 1 .. Len(s.plan)
        PROVE  /\ r.plan[i + 1].do \in {"act", "try"} => Covered(r, i + 1)
               /\ r.plan[i + 1].do \in {"ask", "may"} => r.plan[i + 1].action \in Actions
               /\ r.op \in OpsWith(r.plan[i + 1].do)
               /\ r.plan[i + 1].do # "auth"
               /\ r.plan[i].do \in Before(r.plan[i + 1].do)
    <2>1. i + 1 # 1 BY <1>3
    <2>2. QED BY <1>3, <2>1 DEF PlanFits
  <1>5. ASSUME NEW i \in 1 .. Len(s.plan), Covered(r, i + 1)
        PROVE  Covered(s, i)
    <2> DEFINE k == i + 1
    <2>1. s.plan[i] = r.plan[k] /\ k \in 1 .. Len(r.plan) BY <1>2, <1>3
    <2>2. \A j \in 1 .. (k - 1) : j = 1 \/ (j - 1 \in 1 .. (i - 1) /\ r.plan[j] = s.plan[j - 1])
      <3>1. ASSUME NEW j \in 1 .. (k - 1), j # 1
            PROVE  j - 1 \in 1 .. (i - 1) /\ r.plan[j] = s.plan[j - 1]
        <4>1. j - 1 \in 1 .. (i - 1) /\ j - 1 \in 1 .. Len(s.plan) /\ (j - 1) + 1 = j BY <1>2, <3>1
        <4>2. QED BY <1>2, <4>1
      <3>2. QED BY <3>1
    <2> HIDE DEF k
    <2> DEFINE st == r.plan[k]
    <2>3. CASE st.action = "ServerInfo" /\ r.op \in WebOps \ (Public \cup {"Login"})
      BY <2>1, <2>3 DEF Covered
    <2>4. CASE st.action = "GenerateAuth"
                 /\ (r.who = Owner \/ \E j \in 1 .. (k - 1) : r.plan[j].do = "owner")
      <3>1. r.who = Owner \/ \E j \in 1 .. (i - 1) : s.plan[j].do = "owner"
        BY <2>2, <2>4 DEF HeadHeld
      <3>2. QED BY <2>1, <2>4, <3>1 DEF Covered
    <2>5. CASE st.action \in Actions /\ Seen(r, RightOf(r, st))
      BY <2>1, <2>5 DEF Covered, Seen, RightOf
    <2>6. CASE st.action \in Actions
                 /\ \E j \in 1 .. (k - 1) : /\ r.plan[j].do = "ask"
                                            /\ r.plan[j].action = st.action /\ r.plan[j].name = st.name
      <3>1. PICK j \in 1 .. (k - 1) : /\ r.plan[j].do = "ask"
                                      /\ r.plan[j].action = st.action /\ r.plan[j].name = st.name
        BY <2>6
      <3>2. CASE j = 1
        <4>1. Seen(r, RightOf(r, st)) BY <3>1, <3>2 DEF HeadHeld, RightOf
        <4>2. QED BY <2>1, <2>6, <4>1 DEF Covered, Seen, RightOf
      <3>3. CASE j # 1
        <4>1. /\ j - 1 \in 1 .. (i - 1) /\ s.plan[j - 1].do = "ask"
              /\ s.plan[j - 1].action = st.action /\ s.plan[j - 1].name = st.name
          BY <2>2, <3>1, <3>3
        <4>2. QED BY <2>1, <2>6, <4>1 DEF Covered
      <3>4. QED BY <3>2, <3>3
    <2>7. QED BY <1>5, <2>3, <2>4, <2>5, <2>6 DEF Covered, k
  <1>6. ASSUME NEW i \in 1 .. Len(s.plan)
        PROVE  /\ s.plan[i].do \in {"act", "try"} => Covered(s, i)
               /\ s.plan[i].do \in {"ask", "may"} => s.plan[i].action \in Actions
               /\ s.op \in OpsWith(s.plan[i].do)
               /\ s.plan[i].do # "auth"
               /\ i > 1 => s.plan[i - 1].do \in Before(s.plan[i].do)
    <2>1. s.plan[i] = r.plan[i + 1] BY <1>2
    <2>2. i > 1 => i - 1 \in 1 .. Len(s.plan) /\ s.plan[i - 1] = r.plan[i]
      <3>1. i > 1 => i - 1 \in 1 .. Len(s.plan) /\ (i - 1) + 1 = i BY <1>2
      <3>2. QED BY <1>2, <3>1
    <2>3. QED BY <1>4, <1>5, <2>1, <2>2
  <1>7. PlanFits(s) BY <1>6 DEF PlanFits
  <1>8. ASSUME s.plan # << >>
        PROVE  /\ s.plan[1].do # "auth"
               /\ r.plan[1].do \in Before(s.plan[1].do)
               /\ s.op \in OpsWith(s.plan[1].do)
    <2>1. 1 \in 1 .. Len(s.plan) BY <1>2, <1>8, EmptySeq
    <2>2. s.plan[1] = r.plan[1 + 1] BY <1>2, <2>1
    <2>3. QED BY <1>4, <1>6, <2>1, <2>2
  <1>9. QED BY <1>2, <1>7, <1>8

\* A request whose token was not looked at asks for nothing yet.
LEMMA HeadVouched ==
  ASSUME NEW r, NEW accts, NEW held, NEW time, RequestFits(r, accts, held, time),
         r.plan # << >>, r.plan[1].do \notin {"auth", "verify"}
  PROVE  r.vouched
  <1>1. ~AtHead(r, {"auth", "verify"}) BY DEF AtHead
  <1>2. QED BY <1>1 DEF RequestFits, Unchecked

\* What a token is worth does not depend on how far its request has come.
LEMMA SameVouched ==
  ASSUME NEW r, NEW s, NEW accts, NEW time, SameRequest(r, s)
  PROVE  Vouched(s, accts, time) = Vouched(r, accts, time)
  BY DEF SameRequest, Vouched

\* A request stays a request.
LEMMA SameFormed ==
  ASSUME NEW r, NEW s, SameRequest(r, s), Formed(r),
         s.creds \in CredsSet,
         s.issued \subseteq CredsSet,
         s.plan \in Seq(StepSet)
  PROVE  Formed(s)
  BY DEF SameRequest, Formed

\* A step that does nothing and hands out nothing is allowed.
LEMMA SameAllowed ==
  ASSUME NEW r, NEW s, SameRequest(r, s), s.served = r.served, s.issued = r.issued
  PROVE  /\ EffectsAllowed(r) => EffectsAllowed(s)
         /\ IssuesAllowed(r) => IssuesAllowed(s)
  BY DEF SameRequest, EffectsAllowed, IssuesAllowed

\* A request that ends.
LEMMA EndsFits ==
  ASSUME NEW r, NEW s, NEW accts, NEW held, NEW time, RequestFits(r, accts, held, time),
         SameRequest(r, s), s.plan = << >>, s.got = r.got, s.creds = r.creds,
         s.served = r.served, s.issued = r.issued
  PROVE  RequestFits(s, accts, held, time)
  <1>1. s.plan \in Seq(StepSet) /\ Len(s.plan) = 0 OBVIOUS
  <1>2. Formed(s)
    <2>1. Formed(r) BY DEF RequestFits
    <2>2. /\ s.creds \in CredsSet
          /\ s.issued \subseteq CredsSet
      BY <2>1 DEF Formed
    <2>3. QED BY <1>1, <2>1, <2>2, SameFormed
  <1>3. PlanFits(s) BY <1>1 DEF PlanFits
  <1>4. HistoryFits(s, accts, held, time)
    <2>1. HistoryFits(r, accts, held, time) BY DEF RequestFits
    <2>2. Vouched(s, accts, time) = Vouched(r, accts, time) BY SameVouched
    <2>3. QED BY <2>1, <2>2 DEF HistoryFits, SameRequest, Seen
  <1>5. s.vouched \/ Unchecked(s) BY DEF RequestFits, Unchecked, SameRequest
  <1>6. TokenFits(s, accts) /\ CredsFit(s) BY DEF TokenFits, CredsFit, AtHead
  <1>7. EffectsAllowed(s) /\ IssuesAllowed(s) BY SameAllowed DEF RequestFits
  <1>8. QED BY <1>2, <1>3, <1>4, <1>5, <1>6, <1>7 DEF RequestFits

\* A request that goes on.
LEMMA GoesOnFits ==
  ASSUME NEW r, NEW s, NEW accts, NEW held, NEW time, RequestFits(r, accts, held, time),
         r.plan # << >>, r.vouched, SameRequest(r, s), s.plan = Tail(r.plan), HeadHeld(r),
         \A g \in s.got : g \in r.got \/ (g[1] \in Actions /\ Seen(r, <<r.who, g[1], g[2]>>)),
         s.creds \in CredsSet,
         s.issued \subseteq CredsSet,
         EffectsAllowed(s), IssuesAllowed(s), TokenFits(s, accts), CredsFit(s)
  PROVE  RequestFits(s, accts, held, time)
  <1>1. /\ Formed(r) /\ PlanFits(r) /\ HistoryFits(r, accts, held, time)
        /\ r.plan \in Seq(StepSet)
    BY DEF RequestFits, Formed
  <1>2. s.plan \in Seq(StepSet) /\ PlanFits(s)
    <2>1. s.op = r.op /\ s.who = r.who /\ s.unseen = r.unseen BY DEF SameRequest
    <2>2. QED BY <1>1, <2>1, PlanTail
  <1>3. Formed(s) BY <1>1, <1>2, SameFormed
  <1>4. HistoryFits(s, accts, held, time)
    <2>1. Vouched(s, accts, time) = Vouched(r, accts, time) BY SameVouched
    <2>2. QED BY <1>1, <2>1 DEF HistoryFits, SameRequest, Seen
  <1>5. s.vouched BY DEF SameRequest
  <1>6. QED BY <1>2, <1>3, <1>4, <1>5 DEF RequestFits

\* What is known of the token stays known.
LEMMA TokenKept ==
  ASSUME NEW r, NEW s, NEW accts, SameRequest(r, s), TokenFits(r, accts),
         r.plan # << >>, r.plan[1].do # "auth"
  PROVE  TokenFits(s, accts)
  <1>1. ~AtHead(r, {"auth"}) BY DEF AtHead
  <1>2. QED BY <1>1 DEF TokenFits, SameRequest

\* Only a step of a session is followed by one that needs credentials.
LEMMA CredsLater ==
  ASSUME NEW r, NEW s, NEW accts, NEW held, NEW time, RequestFits(r, accts, held, time),
         r.plan # << >>, SameRequest(r, s), s.plan = Tail(r.plan), HeadHeld(r),
         r.plan[1].do \notin {"user", "current", "setSecret"}
  PROVE  CredsFit(s)
  <1>1. PlanFits(r) /\ r.plan \in Seq(StepSet) BY DEF RequestFits, Formed
  <1>2. s.op = r.op /\ s.who = r.who /\ s.unseen = r.unseen BY DEF SameRequest
  <1>3. s.plan # << >> => r.plan[1].do \in Before(s.plan[1].do) BY <1>1, <1>2, PlanTail
  <1>4. ~AtHead(s, {"sign", "setSecret", "current", "urlToken", "presign"})
    BY <1>3 DEF AtHead, Before
  <1>5. ~AtHead(s, {"sign", "setSecret"}) /\ ~AtHead(s, {"urlToken", "presign"}) BY <1>4 DEF AtHead
  <1>6. QED BY <1>4, <1>5 DEF CredsFit

\* The steps that are no steps of a session.
LEMMA PlainGoesOn ==
  ASSUME NEW r, NEW s, NEW accts, NEW held, NEW time, RequestFits(r, accts, held, time),
         r.plan # << >>, r.plan[1].do \notin {"auth", "verify", "user", "current", "setSecret"},
         SameRequest(r, s), s.plan = Tail(r.plan), HeadHeld(r), s.creds = r.creds,
         \A g \in s.got : g \in r.got \/ (g[1] \in Actions /\ Seen(r, <<r.who, g[1], g[2]>>)),
         s.issued \subseteq CredsSet,
         EffectsAllowed(s), IssuesAllowed(s)
  PROVE  RequestFits(s, accts, held, time)
  <1>1. r.vouched BY HeadVouched
  <1>2. s.creds \in CredsSet BY DEF RequestFits, Formed
  <1>3. TokenFits(s, accts)
    <2>1. TokenFits(r, accts) BY DEF RequestFits
    <2>2. QED BY <2>1, TokenKept
  <1>4. CredsFit(s) BY CredsLater
  <1>5. QED BY <1>1, <1>2, <1>3, <1>4, GoesOnFits

(***************************************************************************)
(* Steps that are taken by every handler                                   *)
(***************************************************************************)
\* What the invariant says of a running request.
LEMMA BusyFits ==
  ASSUME SessionsInv, NEW b \in Browsers, Busy(b)
  PROVE  RequestFits(web[b], accounts, rights, clock)
  BY DEF SessionsInv, Busy, NoWebRequest

\* One request changes, and nothing else but the tokens that are handed out.
LEMMA OneRequest ==
  ASSUME SessionsInv, NEW b \in Browsers, NEW s, web' = [web EXCEPT ![b] = s],
         accounts' = accounts, rights' = rights, clock' = clock, tokens' \subseteq WebTokens,
         s = NoWebRequest \/ RequestFits(s, accounts, rights, clock)
  PROVE  SessionsInv'
  <1>1. DOMAIN web = Browsers BY DEF SessionsInv, WebTypes
  <1>2. web' = [x \in Browsers |-> web'[x]] BY <1>1
  <1>3. \A x \in Browsers : web'[x] = IF x = b THEN s ELSE web[x] BY <1>1
  <1>4. WebTypes' BY <1>2 DEF SessionsInv, WebTypes
  <1>5. ASSUME NEW x \in Browsers
        PROVE  web'[x] = NoWebRequest \/ RequestFits(web'[x], accounts, rights, clock)
    BY <1>3 DEF SessionsInv
  <1>6. QED BY <1>4, <1>5 DEF SessionsInv

\* The request after a step that only goes on.
LEMMA GoesOnIs ==
  ASSUME NEW r, Formed(r), NEW s, s = [r EXCEPT !.plan = Tail(@)]
  PROVE  /\ SameRequest(r, s) /\ s.plan = Tail(r.plan) /\ s.got = r.got /\ s.creds = r.creds
         /\ s.served = r.served /\ s.issued = r.issued
  BY DEF Formed, SameRequest

\* The request after an error.
LEMMA EndedIs ==
  ASSUME NEW r, Formed(r), NEW s, s = [r EXCEPT !.plan = << >>]
  PROVE  /\ SameRequest(r, s) /\ s.plan = << >> /\ s.got = r.got /\ s.creds = r.creds
         /\ s.served = r.served /\ s.issued = r.issued
  BY DEF Formed, SameRequest

\* A handler that ends its request.
LEMMA EndsNowFits ==
  ASSUME SessionsInv, NEW b \in Browsers, Busy(b), EndsNow(b),
         accounts' = accounts, rights' = rights, clock' = clock, tokens' = tokens
  PROVE  SessionsInv'
  <1> DEFINE r == web[b]
             s == [r EXCEPT !.plan = << >>]
  <1>1. web' = [web EXCEPT ![b] = s] BY DEF EndsNow
  <1>2. RequestFits(r, accounts, rights, clock) BY BusyFits
  <1> HIDE DEF r
  <1>3. Formed(r) BY <1>2 DEF RequestFits
  <1>4. /\ SameRequest(r, s) /\ s.plan = << >> /\ s.got = r.got /\ s.creds = r.creds
        /\ s.served = r.served /\ s.issued = r.issued
    BY <1>3, EndedIs
  <1> HIDE DEF s
  <1>5. RequestFits(s, accounts, rights, clock) BY <1>2, <1>4, EndsFits
  <1>6. tokens' \subseteq WebTokens BY DEF SessionsInv, WebTypes
  <1>7. QED BY <1>1, <1>5, <1>6, OneRequest

\* What the invariant says of a request at the head of its plan.
LEMMA HeadIs ==
  ASSUME SessionsInv, NEW b \in Browsers, NEW kind, At(b, kind)
  PROVE  /\ Busy(b) /\ RequestFits(web[b], accounts, rights, clock)
         /\ web[b].plan # << >> /\ web[b].plan[1].do = kind /\ Head(web[b].plan) = web[b].plan[1]
         /\ 1 \in 1 .. Len(web[b].plan) /\ web[b].op \in OpsWith(kind)
  <1>1. Busy(b) /\ web[b].plan # << >> /\ Head(web[b].plan).do = kind BY DEF At
  <1>2. RequestFits(web[b], accounts, rights, clock) BY <1>1, BusyFits
  <1>3. web[b].plan \in Seq(StepSet) /\ PlanFits(web[b]) BY <1>2 DEF RequestFits, Formed
  <1>4. Head(web[b].plan) = web[b].plan[1] /\ 1 \in 1 .. Len(web[b].plan)
    <2>1. Len(web[b].plan) \in Nat \ {0} BY <1>1, <1>3, EmptySeq
    <2>2. QED BY <1>3, <2>1
  <1>5. web[b].op \in OpsWith(web[b].plan[1].do) BY <1>3, <1>4 DEF PlanFits
  <1>6. QED BY <1>1, <1>2, <1>4, <1>5

\* A step that is neither of the session nor asks for anything.
LEMMA GoesOnPlain ==
  ASSUME SessionsInv, NEW b \in Browsers, NEW kind, At(b, kind), GoesOn(b),
         kind \notin {"auth", "verify", "user", "current", "setSecret"}, HeadHeld(web[b]),
         accounts' = accounts, rights' = rights, clock' = clock, tokens' = tokens
  PROVE  SessionsInv'
  <1> DEFINE r == web[b]
             s == [r EXCEPT !.plan = Tail(@)]
  <1>1. web' = [web EXCEPT ![b] = s] BY DEF GoesOn, Continues
  <1>2. /\ RequestFits(r, accounts, rights, clock) /\ r.plan # << >> /\ HeadHeld(r)
        /\ r.plan[1].do = kind
    BY HeadIs
  <1> HIDE DEF r
  <1>3. Formed(r) BY <1>2 DEF RequestFits
  <1>4. /\ SameRequest(r, s) /\ s.plan = Tail(r.plan) /\ s.got = r.got /\ s.creds = r.creds
        /\ s.served = r.served /\ s.issued = r.issued
    BY <1>3, GoesOnIs
  <1> HIDE DEF s
  <1>5. /\ s.issued \subseteq CredsSet
        /\ EffectsAllowed(s) /\ IssuesAllowed(s)
    <2>1. EffectsAllowed(r) /\ IssuesAllowed(r) BY <1>2 DEF RequestFits
    <2>2. QED BY <1>3, <1>4, <2>1, SameAllowed DEF Formed
  <1>a. \A g \in s.got : g \in r.got
    BY <1>4
  <1>6. RequestFits(s, accounts, rights, clock) BY <1>2, <1>4, <1>5, <1>a, PlainGoesOn
  <1>7. tokens' \subseteq WebTokens BY DEF SessionsInv, WebTypes
  <1>8. QED BY <1>1, <1>6, <1>7, OneRequest

\* Decision: only the owner goes on at "owner".
LEMMA DecisionKeeps ==
  ASSUME SessionsInv, NEW b \in Browsers, Decision(b)
  PROVE  SessionsInv'
  <1>1. accounts' = accounts /\ rights' = rights /\ clock' = clock /\ tokens' = tokens
    BY DEF Decision, World
  <1>2. CASE At(b, "owner") /\ GoesOnIf(b, web[b].who = Owner)
    <2>1. web[b].plan[1].do = "owner" /\ Busy(b) BY <1>2, HeadIs
    <2>2. CASE web[b].who = Owner
      <3>1. HeadHeld(web[b]) /\ GoesOn(b) BY <1>2, <2>1, <2>2 DEF HeadHeld, GoesOnIf
      <3>2. QED BY <1>1, <1>2, <3>1, GoesOnPlain
    <2>3. CASE web[b].who # Owner
      <3>1. EndsNow(b) BY <1>2, <2>3 DEF GoesOnIf
      <3>2. QED BY <1>1, <2>1, <3>1, EndsNowFits
    <2>4. QED BY <2>2, <2>3
  <1>3. ASSUME NEW kind \in {"need", "got", "notOwner", "walk"}, At(b, kind),
               GoesOn(b) \/ EndsNow(b)
        PROVE  SessionsInv'
    <2>1. web[b].plan[1].do = kind /\ Busy(b) BY <1>3, HeadIs
    <2>2. HeadHeld(web[b]) BY <2>1 DEF HeadHeld
    <2>3. QED BY <1>1, <1>3, <2>1, <2>2, GoesOnPlain, EndsNowFits
  <1>4. ASSUME ~(At(b, "owner") /\ GoesOnIf(b, web[b].who = Owner))
        PROVE  \E kind \in {"need", "got", "notOwner", "walk"} :
                 At(b, kind) /\ (GoesOn(b) \/ EndsNow(b))
    BY <1>4 DEF Decision, GoesOnIf
  <1>5. QED BY <1>2, <1>3, <1>4

\* Reply.
LEMMA ReplyKeeps ==
  ASSUME SessionsInv, NEW b \in Browsers, Reply(b)
  PROVE  SessionsInv'
  <1>1. /\ web' = [web EXCEPT ![b] = NoWebRequest]
        /\ accounts' = accounts /\ rights' = rights /\ clock' = clock /\ tokens' = tokens
    BY DEF Reply, World
  <1>2. tokens' \subseteq WebTokens BY <1>1 DEF SessionsInv, WebTypes
  <1>3. QED BY <1>1, <1>2, OneRequest

(***************************************************************************)
(* Tokens, signatures and questions                                        *)
(***************************************************************************)
\* The client of a web request with a token.
LEMMA TokenHolder ==
  ASSUME NEW r, Formed(r), r.op \in WebOps \ {"Login"}, r.token # NoToken
  PROVE  r.token \in WebTokens /\ r.who = r.token.key /\ r.who \in {Owner} \cup AllHolders
  <1>1. r.op \notin S3Ops BY DEF WebOps, S3Ops
  <1>2. QED BY <1>1 DEF Formed, WebTokens, Speaker

\* webTokenAuthenticate takes tokens that are good at this moment.
LEMMA AuthenticVouched ==
  ASSUME SessionsInv, NEW r, Formed(r), r.op \in WebOps, r.token # NoToken, Authentic(r.token)
  PROVE  /\ Vouched(r, accounts, clock)
         /\ r.token.key = Owner => r.token.secret = OwnerSecret
         /\ r.token.key \in Holders => r.token.secret = accounts[r.token.key].secret
  <1> DEFINE t == r.token
  <1>1. t.key \in {Owner} \cup AllHolders BY DEF Formed, WebTokens
  <1>2. t.secret \in TokenSecrets(t.key) /\ clock <= t.until BY DEF Authentic
  <1>3. Owner \notin AllHolders /\ Holders \cap TempHolders = {} /\ AllHolders = Holders \cup TempHolders
    BY HoldersAssumption DEF AllHolders
  <1>8. r.op \notin S3Ops BY DEF WebOps, S3Ops
  <1> HIDE DEF t
  <1>4. CASE t.key = Owner
    <2>1. t.secret = OwnerSecret
      <3>1. t.key \notin TempHolders /\ t.key \notin Holders BY <1>3, <1>4
      <3>2. QED BY <1>2, <1>4, <3>1 DEF TokenSecrets
    <2>2. QED BY <1>2, <1>3, <1>4, <1>8, <2>1 DEF Vouched, t
  <1>5. CASE t.key \in TempHolders
    <2>1. t.key # Owner /\ t.key \notin Holders BY <1>3, <1>5
    <2>2. t.secret = OwnerSecret /\ accounts[t.key].status # "gone"
      BY <1>2, <1>5, <2>1 DEF TokenSecrets
    <2>3. QED BY <1>2, <1>5, <2>1, <2>2 DEF Vouched, t
  <1>6. CASE t.key \in Holders
    <2>1. t.key # Owner /\ t.key \notin TempHolders BY <1>3, <1>6
    <2>2. t.secret = accounts[t.key].secret /\ accounts[t.key].status = "on"
      BY <1>2, <1>6, <2>1 DEF TokenSecrets, Usable
    <2>3. QED BY <1>2, <1>6, <2>1, <2>2 DEF Vouched, t
  <1>7. QED BY <1>1, <1>3, <1>4, <1>5, <1>6

\* A signature that is verified is of a usable user, and so is the account.
LEMMA SignedVouched ==
  ASSUME SessionsInv, NEW r, Formed(r), r.op \in S3Ops,
         r.token # NoToken => /\ r.token.secret \in KeySecrets(r.token.key)
                              /\ KeySecrets(r.who) # {}
  PROVE  Vouched(r, accounts, clock)
  <1>5. KeySecrets(r.who) # {} => r.who = Owner \/ accounts[r.who].status = "on"
    BY DEF KeySecrets, Usable
  <1>1. CASE r.token = NoToken BY <1>1 DEF Vouched
  <1>2. CASE r.token # NoToken /\ r.token.key = Owner BY <1>2, <1>5 DEF Vouched, KeySecrets
  <1>3. CASE r.token # NoToken /\ r.token.key # Owner BY <1>3, <1>5 DEF Vouched, KeySecrets, Usable
  <1>4. QED BY <1>1, <1>2, <1>3

\* A step that looked at the token.
LEMMA LookedFits ==
  ASSUME SessionsInv, NEW b \in Browsers, NEW kind \in {"auth", "verify"}, At(b, kind), GoesOn(b),
         Vouched(web[b], accounts, clock), TokenFits([web[b] EXCEPT !.plan = Tail(@)], accounts),
         accounts' = accounts, rights' = rights, clock' = clock, tokens' = tokens
  PROVE  SessionsInv'
  <1> DEFINE r == web[b]
             s == [r EXCEPT !.plan = Tail(@)]
  <1>1. web' = [web EXCEPT ![b] = s] BY DEF GoesOn, Continues
  <1>2. /\ RequestFits(r, accounts, rights, clock) /\ r.plan # << >> /\ r.plan[1].do = kind
    BY HeadIs
  <1>b. Vouched(r, accounts, clock) /\ TokenFits(s, accounts)
    OBVIOUS
  <1> HIDE DEF r
  <1>3. Formed(r) /\ HeadHeld(r) /\ r.vouched BY <1>2, <1>b DEF RequestFits, HeadHeld, HistoryFits
  <1>4. /\ SameRequest(r, s) /\ s.plan = Tail(r.plan) /\ s.got = r.got /\ s.creds = r.creds
        /\ s.served = r.served /\ s.issued = r.issued
    BY <1>3, GoesOnIs
  <1> HIDE DEF s
  <1>5. /\ s.creds \in CredsSet
        /\ s.issued \subseteq CredsSet
    BY <1>3, <1>4 DEF Formed
  <1>6. EffectsAllowed(s) /\ IssuesAllowed(s)
    <2>1. EffectsAllowed(r) /\ IssuesAllowed(r) BY <1>2 DEF RequestFits
    <2>2. QED BY <1>4, <2>1, SameAllowed
  <1>7. CredsFit(s)
    <2>1. r.plan[1].do \notin {"user", "current", "setSecret"} BY <1>2
    <2>2. QED BY <1>2, <1>3, <1>4, <2>1, CredsLater
  <1>a. \A g \in s.got : g \in r.got
    BY <1>4
  <1>8. RequestFits(s, accounts, rights, clock)
    BY <1>2, <1>3, <1>4, <1>5, <1>6, <1>7, <1>a, <1>b, GoesOnFits
  <1>9. tokens' \subseteq WebTokens BY DEF SessionsInv, WebTypes
  <1>10. QED BY <1>1, <1>8, <1>9, OneRequest

\* Authenticate: a request goes on with a good token, or without one where anybody
\* may ask.
LEMMA AuthenticateKeeps ==
  ASSUME SessionsInv, NEW b \in Browsers, Authenticate(b)
  PROVE  SessionsInv'
  <1> DEFINE r == web[b]
             s == [r EXCEPT !.plan = Tail(@)]
             good == IF r.token = NoToken THEN r.op \in Public ELSE Authentic(r.token)
  <1>1. /\ accounts' = accounts /\ rights' = rights /\ clock' = clock /\ tokens' = tokens
        /\ At(b, "auth") /\ GoesOnIf(b, good)
    BY DEF Authenticate, World
  <1>2. Busy(b) /\ RequestFits(r, accounts, rights, clock) /\ r.op \in OpsWith("auth")
    BY <1>1, HeadIs
  <1>3. CASE ~good
    <2>1. EndsNow(b) BY <1>1, <1>3 DEF GoesOnIf
    <2>2. QED BY <1>1, <1>2, <2>1, EndsNowFits
  <1>4. CASE good
    <2>1. GoesOn(b) BY <1>1, <1>4 DEF GoesOnIf
    <2>2. Formed(r) /\ r.op \in WebOps \ {"Login"} BY <1>2 DEF RequestFits, OpsWith
    <2>3. /\ Vouched(r, accounts, clock)
          /\ r.token # NoToken =>
               /\ r.token.key = Owner => r.token.secret = OwnerSecret
               /\ r.token.key \in Holders => r.token.secret = accounts[r.token.key].secret
      <3>1. CASE r.token = NoToken BY <3>1 DEF Vouched
      <3>2. CASE r.token # NoToken BY <1>4, <2>2, <3>2, AuthenticVouched
      <3>3. QED BY <3>1, <3>2
    <2>4. r.token # NoToken => r.who = r.token.key BY <2>2, TokenHolder
    <2>5. SameRequest(r, s) BY <2>2, GoesOnIs
    <2>6. r.token = NoToken => r.op \in Public BY <1>4
    <2>7. TokenFits(s, accounts)
      <3> HIDE DEF r, s
      <3>1. QED BY <2>3, <2>4, <2>5, <2>6 DEF TokenFits, SameRequest
    <2>8. QED BY <1>1, <2>1, <2>3, <2>7, LookedFits
  <1>5. QED BY <1>3, <1>4

\* VerifySignature.
LEMMA VerifySignatureKeeps ==
  ASSUME SessionsInv, NEW b \in Browsers, VerifySignature(b)
  PROVE  SessionsInv'
  <1> DEFINE r == web[b]
             s == [r EXCEPT !.plan = Tail(@)]
             good == r.token # NoToken => /\ r.token.secret \in KeySecrets(r.token.key)
                                          /\ KeySecrets(r.who) # {}
  <1>1. /\ accounts' = accounts /\ rights' = rights /\ clock' = clock /\ tokens' = tokens
        /\ At(b, "verify") /\ GoesOnIf(b, good)
    BY DEF VerifySignature, World
  <1>2. Busy(b) /\ RequestFits(r, accounts, rights, clock) /\ r.op \in OpsWith("verify")
    BY <1>1, HeadIs
  <1>3. CASE ~good
    <2>1. EndsNow(b) BY <1>1, <1>3 DEF GoesOnIf
    <2>2. QED BY <1>1, <1>2, <2>1, EndsNowFits
  <1>4. CASE good
    <2>1. GoesOn(b) BY <1>1, <1>4 DEF GoesOnIf
    <2>2. Formed(r) /\ r.op \in S3Ops BY <1>2 DEF RequestFits, OpsWith
    <2>3. Vouched(r, accounts, clock) BY <1>4, <2>2, SignedVouched
    <2>4. s.op \notin WebOps
      <3>1. SameRequest(r, s) BY <2>2, GoesOnIs
      <3>2. S3Ops \cap WebOps = {} BY DEF WebOps, S3Ops
      <3>3. QED BY <2>2, <3>1, <3>2 DEF SameRequest
    <2>5. TokenFits(s, accounts)
      <3> HIDE DEF r, s
      <3>1. QED BY <2>4 DEF TokenFits
    <2>6. QED BY <1>1, <2>1, <2>3, <2>5, LookedFits
  <1>5. QED BY <1>3, <1>4

\* The rights the request was seen to have.
LEMMA AllowedSeen ==
  ASSUME SessionsInv, NEW b \in Browsers, NEW kind, At(b, kind), web[b].who = Owner \/ Right(b) \in rights
  PROVE  Seen(web[b], RightOf(web[b], web[b].plan[1]))
  <1>1. RequestFits(web[b], accounts, rights, clock) /\ Head(web[b].plan) = web[b].plan[1] BY HeadIs
  <1>2. Right(b) = RightOf(web[b], web[b].plan[1]) BY <1>1 DEF Right, RightOf
  <1>3. QED BY <1>1, <1>2 DEF RequestFits, HistoryFits, Seen

\* Question: what is answered with yes was a right at this moment.
LEMMA QuestionKeeps ==
  ASSUME SessionsInv, NEW b \in Browsers, Question(b)
  PROVE  SessionsInv'
  <1> DEFINE r == web[b]
             allowed == r.who = Owner \/ Right(b) \in rights
             g == IF allowed THEN r.got \cup {Noted(b)} ELSE r.got
             s == [[r EXCEPT !.got = g] EXCEPT !.plan = Tail(@)]
  <1>1. accounts' = accounts /\ rights' = rights /\ clock' = clock /\ tokens' = tokens
    BY DEF Question, World
  <1>2. CASE At(b, "ask") /\ GoesOnIf(b, allowed)
    <2>1. r.plan[1].do = "ask" /\ Busy(b) BY <1>2, HeadIs
    <2>2. CASE allowed
      <3>1. Seen(r, RightOf(r, r.plan[1])) /\ GoesOn(b) BY <1>2, <2>2, AllowedSeen DEF GoesOnIf
      <3>2. HeadHeld(r) BY <2>1, <3>1 DEF HeadHeld
      <3>3. QED BY <1>1, <1>2, <3>1, <3>2, GoesOnPlain
    <2>3. CASE ~allowed
      <3>1. EndsNow(b) BY <1>2, <2>3 DEF GoesOnIf
      <3>2. QED BY <1>1, <2>1, <3>1, EndsNowFits
    <2>4. QED BY <2>2, <2>3
  <1>3. CASE At(b, "may") /\ Continues(b, [r EXCEPT !.got = g])
    <2>1. web' = [web EXCEPT ![b] = s] BY <1>3 DEF Continues
    <2>2. /\ RequestFits(r, accounts, rights, clock) /\ r.plan # << >> /\ r.plan[1].do = "may"
          /\ Head(r.plan) = r.plan[1] /\ 1 \in 1 .. Len(r.plan)
      BY <1>3, HeadIs
    <2>3. Formed(r) /\ PlanFits(r) /\ HeadHeld(r) BY <2>2 DEF RequestFits, HeadHeld
    <2>4. r.plan[1].action \in Actions BY <2>2, <2>3 DEF PlanFits
    <2>5. \A x \in g : x \in r.got \/ (x[1] \in Actions /\ Seen(r, <<r.who, x[1], x[2]>>))
      <3>1. CASE allowed
        <4>1. Seen(r, RightOf(r, r.plan[1])) BY <1>3, <3>1, AllowedSeen
        <4>2. Noted(b) = <<r.plan[1].action, r.plan[1].name>> BY <2>2 DEF Noted
        <4>3. Seen(r, <<r.who, r.plan[1].action, r.plan[1].name>>) BY <4>1 DEF RightOf
        <4>4. Noted(b)[1] = r.plan[1].action /\ Noted(b)[2] = r.plan[1].name BY <4>2
        <4>5. Noted(b)[1] \in Actions /\ Seen(r, <<r.who, Noted(b)[1], Noted(b)[2]>>)
          BY <2>4, <4>3, <4>4
        <4>6. g = r.got \cup {Noted(b)} BY <3>1
        <4> HIDE DEF r, allowed, g
        <4>7. QED BY <4>5, <4>6
      <3>2. CASE ~allowed BY <3>2
      <3>3. QED BY <3>1, <3>2
    <2> HIDE DEF g
    <2>6. /\ SameRequest(r, s) /\ s.plan = Tail(r.plan) /\ s.got = g /\ s.creds = r.creds
          /\ s.served = r.served /\ s.issued = r.issued
      <3> HIDE DEF r
      <3>1. QED BY <2>3 DEF Formed, SameRequest
    <2> HIDE DEF r, s
    <2>7. /\ s.issued \subseteq CredsSet
          /\ EffectsAllowed(s) /\ IssuesAllowed(s)
      <3>1. EffectsAllowed(r) /\ IssuesAllowed(r) BY <2>2 DEF RequestFits
      <3>2. QED BY <2>3, <2>6, <3>1, SameAllowed DEF Formed
    <2>8. \A x \in s.got : x \in r.got \/ (x[1] \in Actions /\ Seen(r, <<r.who, x[1], x[2]>>))
      BY <2>5, <2>6
    <2>9. RequestFits(s, accounts, rights, clock) BY <2>2, <2>3, <2>6, <2>7, <2>8, PlainGoesOn
    <2>10. tokens' \subseteq WebTokens BY <1>1 DEF SessionsInv, WebTypes
    <2>11. QED BY <1>1, <2>1, <2>9, <2>10, OneRequest
  <1>4. QED BY <1>2, <1>3 DEF Question

(***************************************************************************)
(* Effects                                                                 *)
(***************************************************************************)
\* A request that was seen to have the right does what it asks for.
LEMMA MayServe ==
  ASSUME SessionsInv, NEW b \in Browsers, NEW kind \in {"act", "try", "show"}, At(b, kind),
         kind = "show" => Noted(b) \in web[b].got
  PROVE  LET r == web[b]
             a == r.plan[1].action
         IN  /\ a = "ServerInfo" => r.who # Anybody
             /\ a = "GenerateAuth" => r.who = Owner
             /\ a \notin {"ServerInfo", "GenerateAuth"} => Seen(r, RightOf(r, r.plan[1]))
             /\ Right(b) = RightOf(r, r.plan[1])
  <1> DEFINE r == web[b]
             a == r.plan[1].action
  <1>1. /\ RequestFits(r, accounts, rights, clock) /\ r.plan # << >> /\ r.plan[1].do = kind
        /\ Head(r.plan) = r.plan[1] /\ 1 \in 1 .. Len(r.plan)
    BY HeadIs
  <1>2. Right(b) = RightOf(r, r.plan[1]) /\ Noted(b) = <<a, r.plan[1].name>>
    BY <1>1 DEF Right, RightOf, Noted
  <1>3. "ServerInfo" \notin Actions /\ "GenerateAuth" \notin Actions BY DEF Actions
  <1>4. kind = "show" => Noted(b) \in r.got OBVIOUS
  <1> HIDE DEF r
  <1>5. CASE kind = "show"
    <2>1. Noted(b)[1] \in Actions /\ Seen(r, <<r.who, Noted(b)[1], Noted(b)[2]>>)
      BY <1>1, <1>4, <1>5 DEF RequestFits, HistoryFits
    <2>2. a \in Actions /\ Seen(r, RightOf(r, r.plan[1])) BY <1>2, <2>1 DEF RightOf
    <2>3. QED BY <1>2, <1>3, <2>2 DEF r
  <1>6. CASE kind \in {"act", "try"}
    <2>1. Covered(r, 1) BY <1>1, <1>6 DEF RequestFits, PlanFits
    <2>2. ~\E j \in 1 .. (1 - 1) : TRUE OBVIOUS
    <2>3. \/ a = "ServerInfo" /\ r.op \in WebOps \ (Public \cup {"Login"})
          \/ a = "GenerateAuth" /\ r.who = Owner
          \/ a \in Actions /\ Seen(r, RightOf(r, r.plan[1]))
      BY <2>1, <2>2 DEF Covered
    <2>4. ASSUME r.op \in WebOps \ (Public \cup {"Login"})
          PROVE  r.who # Anybody
      <3>1. ~AtHead(r, {"auth"}) BY <1>1, <1>6 DEF AtHead
      <3>2. r.token # NoToken BY <1>1, <2>4, <3>1 DEF RequestFits, TokenFits
      <3>3. Formed(r) /\ r.op \in WebOps \ {"Login"} BY <1>1, <2>4 DEF RequestFits
      <3>4. r.who \in {Owner} \cup AllHolders BY <3>2, <3>3, TokenHolder
      <3>5. QED BY <3>4, HoldersAssumption DEF AllHolders
    <2>5. QED BY <1>2, <1>3, <2>3, <2>4 DEF r
  <1>7. QED BY <1>5, <1>6

\* A request that does what it asked for.
LEMMA ServedFits ==
  ASSUME SessionsInv, NEW b \in Browsers, NEW kind \in {"act", "try", "show"}, At(b, kind),
         kind = "show" => Noted(b) \in web[b].got,
         Continues(b, [web[b] EXCEPT !.served = @ \cup {Right(b)}]),
         accounts' = accounts, rights' = rights, clock' = clock, tokens' = tokens
  PROVE  SessionsInv'
  <1> DEFINE r == web[b]
             e == Right(b)
             s == [[r EXCEPT !.served = @ \cup {e}] EXCEPT !.plan = Tail(@)]
  <1>1. web' = [web EXCEPT ![b] = s] BY DEF Continues
  <1>2. /\ RequestFits(r, accounts, rights, clock) /\ r.plan # << >> /\ r.plan[1].do = kind
    BY HeadIs
  <1>3. /\ r.plan[1].action = "ServerInfo" => r.who # Anybody
        /\ r.plan[1].action = "GenerateAuth" => r.who = Owner
        /\ r.plan[1].action \notin {"ServerInfo", "GenerateAuth"} => Seen(r, e)
        /\ e = RightOf(r, r.plan[1])
    <2>1. LET q == web[b]
              a == q.plan[1].action
          IN  /\ a = "ServerInfo" => q.who # Anybody
              /\ a = "GenerateAuth" => q.who = Owner
              /\ a \notin {"ServerInfo", "GenerateAuth"} => Seen(q, RightOf(q, q.plan[1]))
              /\ Right(b) = RightOf(q, q.plan[1])
      BY MayServe
    <2>2. QED BY <2>1
  <1> HIDE DEF r, e
  <1>4. Formed(r) /\ HeadHeld(r) BY <1>2 DEF RequestFits, HeadHeld
  <1>5. /\ SameRequest(r, s) /\ s.plan = Tail(r.plan) /\ s.got = r.got /\ s.creds = r.creds
        /\ s.served = r.served \cup {e} /\ s.issued = r.issued
    BY <1>4 DEF Formed, SameRequest
  <1> HIDE DEF s
  <1>6. r.vouched
    <2>1. r.plan[1].do \notin {"auth", "verify"} BY <1>2
    <2>2. QED BY <1>2, <2>1, HeadVouched
  <1>7. EffectsAllowed(s)
    <2>1. EffectsAllowed(r) BY <1>2 DEF RequestFits
    <2>2. e[2] = r.plan[1].action BY <1>3 DEF RightOf
    <2>3. s.vouched /\ s.who = r.who /\ s.unseen = r.unseen BY <1>5, <1>6 DEF SameRequest
    <2>4. CASE e[2] = "ServerInfo" BY <1>3, <1>5, <2>1, <2>2, <2>3, <2>4 DEF EffectsAllowed
    <2>5. CASE e[2] = "GenerateAuth" BY <1>3, <1>5, <2>1, <2>2, <2>3, <2>5 DEF EffectsAllowed
    <2>6. CASE e[2] \notin {"ServerInfo", "GenerateAuth"}
      BY <1>3, <1>5, <2>1, <2>2, <2>3, <2>6 DEF EffectsAllowed, Seen
    <2>7. QED BY <2>4, <2>5, <2>6
  <1>8. IssuesAllowed(s) BY <1>2, <1>5 DEF RequestFits, IssuesAllowed, SameRequest
  <1>9. s.issued \subseteq CredsSet BY <1>4, <1>5 DEF Formed
  <1>a. \A g \in s.got : g \in r.got
    BY <1>5
  <1>b. kind \notin {"auth", "verify", "user", "current", "setSecret"}
    OBVIOUS
  <1>10. RequestFits(s, accounts, rights, clock)
    BY <1>2, <1>4, <1>5, <1>7, <1>8, <1>9, <1>a, <1>b, PlainGoesOn
  <1>11. tokens' \subseteq WebTokens BY DEF SessionsInv, WebTypes
  <1>12. QED BY <1>1, <1>10, <1>11, OneRequest

\* Effect.
LEMMA EffectKeeps ==
  ASSUME SessionsInv, NEW b \in Browsers, Effect(b)
  PROVE  SessionsInv'
  <1> DEFINE served == Continues(b, [web[b] EXCEPT !.served = @ \cup {Right(b)}])
  <1>1. accounts' = accounts /\ rights' = rights /\ clock' = clock /\ tokens' = tokens
    BY DEF Effect, World
  <1>2. \E kind \in {"act", "try", "show"} :
          /\ At(b, kind)
          /\ \/ served /\ (kind = "show" => Noted(b) \in web[b].got)
             \/ GoesOn(b) \/ EndsNow(b)
    BY DEF Effect
  <1> HIDE DEF served
  <1>3. PICK kind \in {"act", "try", "show"} :
          /\ At(b, kind)
          /\ \/ served /\ (kind = "show" => Noted(b) \in web[b].got)
             \/ GoesOn(b) \/ EndsNow(b)
    BY <1>2
  <1>4. CASE served /\ (kind = "show" => Noted(b) \in web[b].got)
    <2>1. Continues(b, [web[b] EXCEPT !.served = @ \cup {Right(b)}]) BY <1>4 DEF served
    <2>2. QED BY <1>1, <1>3, <1>4, <2>1, ServedFits
  <1>5. Busy(b) /\ web[b].plan[1].do = kind BY <1>3, HeadIs
  <1>6. HeadHeld(web[b]) BY <1>5 DEF HeadHeld
  <1>7. kind \notin {"auth", "verify", "user", "current", "setSecret"} OBVIOUS
  <1>8. CASE GoesOn(b) BY <1>1, <1>3, <1>6, <1>7, <1>8, GoesOnPlain
  <1>9. CASE EndsNow(b) BY <1>1, <1>5, <1>9, EndsNowFits
  <1>10. QED BY <1>3, <1>4, <1>8, <1>9

(***************************************************************************)
(* Credentials of a session                                                *)
(***************************************************************************)
\* A step of a session: the client has shown a token.
LEMMA InSession ==
  ASSUME SessionsInv, NEW b \in Browsers,
         NEW kind \in {"user", "current", "setSecret", "sign", "urlToken", "presign"}, At(b, kind)
  PROVE  LET r == web[b]
         IN  /\ Formed(r) /\ r.vouched /\ HeadHeld(r) /\ r.op \in OpsWith(kind)
             /\ r.op # "Login" =>
                  /\ r.token # NoToken /\ r.who = r.token.key /\ r.who \in {Owner} \cup AllHolders
                  /\ r.who = Owner => r.token.secret = OwnerSecret
                  /\ (r.who \in Holders /\ r.op # "SetAuth" /\ ~r.changed) =>
                       accounts[r.who].secret = r.token.secret
  <1> DEFINE r == web[b]
  <1>1. /\ RequestFits(r, accounts, rights, clock) /\ r.plan # << >> /\ r.plan[1].do = kind
        /\ r.op \in OpsWith(kind)
    BY HeadIs
  <1> HIDE DEF r
  <1>2. Formed(r) /\ TokenFits(r, accounts) /\ HeadHeld(r) BY <1>1 DEF RequestFits, HeadHeld
  <1>3. r.plan[1].do \notin {"auth", "verify"} BY <1>1
  <1>4. r.vouched BY <1>1, <1>3, HeadVouched
  <1>5. ASSUME r.op # "Login"
        PROVE  /\ r.token # NoToken /\ r.who = r.token.key /\ r.who \in {Owner} \cup AllHolders
               /\ r.who = Owner => r.token.secret = OwnerSecret
               /\ (r.who \in Holders /\ r.op # "SetAuth" /\ ~r.changed) =>
                    accounts[r.who].secret = r.token.secret
    <2>1. r.op \in {"SetAuth", "CreateURLToken", "PresignedGet"} BY <1>1, <1>5 DEF OpsWith
    <2>2. r.op \in WebOps \ {"Login"} /\ r.op \notin Public BY <2>1 DEF WebOps, Public
    <2>3. ~AtHead(r, {"auth"}) BY <1>3 DEF AtHead
    <2>4. /\ r.token # NoToken
          /\ r.who = Owner => r.token.secret = OwnerSecret
          /\ (r.who \in Holders /\ r.op # "SetAuth" /\ ~r.changed) =>
               accounts[r.who].secret = r.token.secret
      BY <1>1, <1>2, <2>2, <2>3 DEF TokenFits
    <2>5. r.who = r.token.key /\ r.who \in {Owner} \cup AllHolders BY <1>2, <2>2, <2>4, TokenHolder
    <2>6. QED BY <2>4, <2>5
  <1>6. QED BY <1>1, <1>2, <1>4, <1>5 DEF r

\* New credentials for the next step of the session.
LEMMA CredsChange ==
  ASSUME SessionsInv, NEW b \in Browsers, NEW kind \in {"user", "current"}, At(b, kind),
         NEW c \in CredsSet, NEW s, s = [[web[b] EXCEPT !.creds = c] EXCEPT !.plan = Tail(@)],
         web' = [web EXCEPT ![b] = s], CredsFit(s),
         accounts' = accounts, rights' = rights, clock' = clock, tokens' = tokens
  PROVE  SessionsInv'
  <1> DEFINE r == web[b]
  <1>1. /\ RequestFits(r, accounts, rights, clock) /\ r.plan # << >> /\ r.plan[1].do = kind
    BY HeadIs
  <1>2. Formed(r) /\ r.vouched /\ HeadHeld(r) BY InSession
  <1>3. s = [[r EXCEPT !.creds = c] EXCEPT !.plan = Tail(@)] OBVIOUS
  <1> HIDE DEF r
  <1>4. /\ SameRequest(r, s) /\ s.plan = Tail(r.plan) /\ s.got = r.got /\ s.creds = c
        /\ s.served = r.served /\ s.issued = r.issued
    BY <1>2, <1>3 DEF Formed, SameRequest
  <1>5. EffectsAllowed(s) /\ IssuesAllowed(s)
    <2>1. EffectsAllowed(r) /\ IssuesAllowed(r) BY <1>1 DEF RequestFits
    <2>2. QED BY <1>4, <2>1, SameAllowed
  <1>6. /\ s.creds \in CredsSet
        /\ s.issued \subseteq CredsSet
    BY <1>2, <1>4 DEF Formed, CredsSet
  <1>7. TokenFits(s, accounts)
    <2>1. TokenFits(r, accounts) /\ r.plan[1].do # "auth" BY <1>1 DEF RequestFits
    <2>2. QED BY <1>1, <1>4, <2>1, TokenKept
  <1>8. \A g \in s.got : g \in r.got BY <1>4
  <1>9. RequestFits(s, accounts, rights, clock)
    BY <1>1, <1>2, <1>4, <1>5, <1>6, <1>7, <1>8, GoesOnFits
  <1>10. tokens' \subseteq WebTokens BY DEF SessionsInv, WebTypes
  <1>11. QED BY <1>9, <1>10, OneRequest

\* What comes after the head of the plan.
LEMMA NextHead ==
  ASSUME SessionsInv, NEW b \in Browsers, NEW kind, At(b, kind), HeadHeld(web[b]),
         NEW s, SameRequest(web[b], s), s.plan = Tail(web[b].plan), s.plan # << >>
  PROVE  kind \in Before(s.plan[1].do) /\ web[b].op \in OpsWith(s.plan[1].do)
  <1> DEFINE r == web[b]
  <1>1. /\ RequestFits(r, accounts, rights, clock) /\ r.plan # << >> /\ r.plan[1].do = kind
    BY HeadIs
  <1>2. r.plan \in Seq(StepSet) /\ PlanFits(r) BY <1>1 DEF RequestFits, Formed
  <1>3. s.op = r.op /\ s.who = r.who /\ s.unseen = r.unseen BY DEF SameRequest
  <1>4. HeadHeld(r) /\ s.plan = Tail(r.plan) /\ s.plan # << >> OBVIOUS
  <1> HIDE DEF r
  <1>5. r.plan[1].do \in Before(s.plan[1].do) /\ s.op \in OpsWith(s.plan[1].do)
    BY <1>1, <1>2, <1>3, <1>4, PlanTail
  <1>6. QED BY <1>1, <1>3, <1>5 DEF r

\* ReadUser: the credentials of the user who asks, with the secret of this moment.
LEMMA ReadUserKeeps ==
  ASSUME SessionsInv, NEW b \in Browsers, ReadUser(b)
  PROVE  SessionsInv'
  <1> DEFINE r == web[b]
  <1>1. /\ accounts' = accounts /\ rights' = rights /\ clock' = clock /\ tokens' = tokens
        /\ At(b, "user")
    BY DEF ReadUser, World
  <1>2. CASE CredsOf(r.who) = {}
    <2>1. Busy(b) /\ EndsNow(b) BY <1>1, <1>2 DEF ReadUser, At
    <2>2. QED BY <1>1, <2>1, EndsNowFits
  <1>3. CASE CredsOf(r.who) # {}
    <2>1. PICK c \in CredsOf(r.who) : Continues(b, [r EXCEPT !.creds = c]) BY <1>3 DEF ReadUser
    <2> DEFINE s == [[r EXCEPT !.creds = c] EXCEPT !.plan = Tail(@)]
    <2>2. web' = [web EXCEPT ![b] = s] BY <2>1 DEF Continues
    <2>3. /\ Formed(r) /\ r.vouched /\ HeadHeld(r) /\ r.op \in OpsWith("user")
          /\ r.op # "Login" =>
                  /\ r.token # NoToken /\ r.who = r.token.key /\ r.who \in {Owner} \cup AllHolders
                  /\ r.who = Owner => r.token.secret = OwnerSecret
                  /\ (r.who \in Holders /\ r.op # "SetAuth" /\ ~r.changed) =>
                       accounts[r.who].secret = r.token.secret
      BY <1>1, InSession
    <2>4. /\ SameRequest(r, s) /\ s.plan = Tail(r.plan) /\ s.creds = c
      BY <2>3 DEF Formed, SameRequest
    <2>5. r.op # "Login" /\ r.who \in {Owner} \cup AllHolders BY <2>3 DEF OpsWith
    <2>6. /\ c \in CredsSet /\ c.key = r.who
          /\ r.who = Owner => c.secret = OwnerSecret
          /\ r.who # Owner => c.secret = accounts[r.who].secret
      <3>1. CASE r.who = Owner
        <4>1. c = WebToken(Owner, OwnerSecret, 0) BY <2>1, <3>1 DEF CredsOf
        <4>2. QED BY <3>1, <4>1 DEF WebToken, CredsSet, Everybody
      <3>2. CASE r.who # Owner
        <4>1. c = WebToken(r.who, accounts[r.who].secret, 0) /\ r.who \in AllHolders
          BY <2>1, <3>2 DEF CredsOf, Usable
        <4>2. accounts[r.who].secret \in Secrets \cup {OwnerSecret}
          BY <4>1 DEF SessionsInv, WebTypes, AccountTypes
        <4>3. QED BY <3>2, <4>1, <4>2 DEF WebToken, CredsSet, Everybody
      <3>3. QED BY <3>1, <3>2
    <2>7. CredsFit(s)
      <3>1. s.plan # << >> => /\ "user" \in Before(s.plan[1].do)
                              /\ r.op \in OpsWith(s.plan[1].do)
        BY <1>1, <2>3, <2>4, NextHead
      <3>2. ~AtHead(s, {"sign", "setSecret"}) BY <3>1 DEF AtHead, Before
      <3>3. s.who = r.who /\ s.changed = r.changed /\ s.token = r.token BY <2>4 DEF SameRequest
      <3>4. ASSUME AtHead(s, {"urlToken", "presign"})
            PROVE  s.changed \/ s.who \in TempHolders \/ s.creds.secret = s.token.secret
        <4>1. r.op # "SetAuth" BY <3>1, <3>4 DEF AtHead, OpsWith
        <4>2. r.who \in {Owner} \cup Holders \cup TempHolders BY <2>5 DEF AllHolders
        <4>3. r.who \in Holders => r.who # Owner BY HoldersAssumption
        <4> HIDE DEF r, s
        <4>4. QED BY <2>3, <2>4, <2>5, <2>6, <3>3, <4>1, <4>2, <4>3
      <3> HIDE DEF r, s
      <3>5. QED BY <2>4, <2>6, <3>2, <3>3, <3>4 DEF CredsFit
    <2>8. QED BY <1>1, <2>2, <2>6, <2>7, CredsChange
  <1>4. QED BY <1>2, <1>3

\* CompareCurrent: SetAuth goes on with the new secret.
LEMMA CompareCurrentKeeps ==
  ASSUME SessionsInv, NEW b \in Browsers, CompareCurrent(b)
  PROVE  SessionsInv'
  <1> DEFINE r == web[b]
  <1>1. /\ accounts' = accounts /\ rights' = rights /\ clock' = clock /\ tokens' = tokens
        /\ At(b, "current")
    BY DEF CompareCurrent, World
  <1>2. CASE r.creds.secret # r.args.current
    <2>1. Busy(b) /\ EndsNow(b) BY <1>1, <1>2 DEF CompareCurrent, At
    <2>2. QED BY <1>1, <2>1, EndsNowFits
  <1>3. CASE r.creds.secret = r.args.current
    <2> DEFINE c == [r.creds EXCEPT !.secret = r.args.secret]
               s == [[r EXCEPT !.creds = c] EXCEPT !.plan = Tail(@)]
    <2>1. /\ RequestFits(r, accounts, rights, clock) /\ r.plan # << >>
          /\ r.plan[1].do = "current"
      BY <1>1, HeadIs
    <2>2. Formed(r) /\ r.vouched /\ HeadHeld(r) BY <1>1, InSession
    <2>3. Continues(b, [r EXCEPT !.creds.secret = r.args.secret]) BY <1>3 DEF CompareCurrent
    <2>4. web' = [web EXCEPT ![b] = s] BY <2>3 DEF Continues
    <2>5. c \in CredsSet /\ c.secret = r.args.secret /\ c.key = r.creds.key
      <3>1. /\ r.creds \in CredsSet
            /\ r.args.secret \in Secrets \cup {OwnerSecret}
        BY <2>2 DEF Formed
      <3>2. QED BY <3>1 DEF CredsSet
    <2>6. r.creds.key = r.who
      <3>1. AtHead(r, {"sign", "setSecret", "current", "urlToken", "presign"}) BY <2>1 DEF AtHead
      <3>2. QED BY <2>1, <3>1 DEF RequestFits, CredsFit
    <2> HIDE DEF c
    <2>7. /\ SameRequest(r, s) /\ s.plan = Tail(r.plan) /\ s.creds = c
      <3> HIDE DEF r
      <3>1. QED BY <2>2 DEF Formed, SameRequest
    <2>8. s.plan # << >> => "current" \in Before(s.plan[1].do) BY <1>1, <2>2, <2>7, NextHead
    <2>9. ~AtHead(s, {"urlToken", "presign"}) BY <2>8 DEF AtHead, Before
    <2>10. CredsFit(s)
      <3> HIDE DEF r, s
      <3>1. s.who = r.who /\ s.args = r.args BY <2>7 DEF SameRequest
      <3>2. QED BY <2>5, <2>6, <2>7, <2>9, <3>1 DEF CredsFit
    <2>11. s = [[r EXCEPT !.creds = c] EXCEPT !.plan = Tail(@)] OBVIOUS
    <2> HIDE DEF s
    <2>12. QED BY <1>1, <2>4, <2>5, <2>10, <2>11, CredsChange
  <1>4. QED BY <1>2, <1>3

(***************************************************************************)
(* Tokens that are handed out                                              *)
(***************************************************************************)
\* A token that is handed out.
LEMMA IssueFits ==
  ASSUME SessionsInv, NEW b \in Browsers, NEW kind \in {"sign", "urlToken", "presign"}, At(b, kind),
         NEW t \in CredsSet, t.key = web[b].who,
         \/ web[b].changed \/ t.key \in TempHolders \/ t.secret = web[b].args.secret
         \/ t.secret = web[b].token.secret,
         Continues(b, [web[b] EXCEPT !.issued = @ \cup {t}]),
         accounts' = accounts, rights' = rights, clock' = clock, tokens' \subseteq WebTokens
  PROVE  SessionsInv'
  <1> DEFINE r == web[b]
             s == [[r EXCEPT !.issued = @ \cup {t}] EXCEPT !.plan = Tail(@)]
  <1>1. web' = [web EXCEPT ![b] = s] BY DEF Continues
  <1>2. /\ RequestFits(r, accounts, rights, clock) /\ r.plan # << >> /\ r.plan[1].do = kind
    BY HeadIs
  <1>3. Formed(r) /\ r.vouched /\ HeadHeld(r) /\ (r.op # "Login" => r.token # NoToken) BY InSession
  <1>4. /\ t.key = r.who
        /\ \/ r.changed \/ t.key \in TempHolders \/ t.secret = r.args.secret
           \/ t.secret = r.token.secret
    OBVIOUS
  <1> HIDE DEF r
  <1>5. /\ SameRequest(r, s) /\ s.plan = Tail(r.plan) /\ s.got = r.got /\ s.creds = r.creds
        /\ s.served = r.served /\ s.issued = r.issued \cup {t}
    BY <1>3 DEF Formed, SameRequest
  <1> HIDE DEF s
  <1>6. EffectsAllowed(s) BY <1>2, <1>5 DEF RequestFits, EffectsAllowed, SameRequest
  <1>7. IssuesAllowed(s)
    <2>1. IssuesAllowed(r) BY <1>2 DEF RequestFits
    <2>2. /\ s.who = r.who /\ s.op = r.op /\ s.vouched = r.vouched /\ s.token = r.token
          /\ s.changed = r.changed /\ s.args = r.args
      BY <1>5 DEF SameRequest
    <2>3. QED BY <1>3, <1>4, <1>5, <2>1, <2>2 DEF IssuesAllowed
  <1>8. s.issued \subseteq CredsSet BY <1>3, <1>5 DEF Formed, CredsSet
  <1>9. \A g \in s.got : g \in r.got BY <1>5
  <1>10. kind \notin {"auth", "verify", "user", "current", "setSecret"} OBVIOUS
  <1>11. RequestFits(s, accounts, rights, clock)
    BY <1>2, <1>3, <1>5, <1>6, <1>7, <1>8, <1>9, <1>10, PlainGoesOn
  <1>12. QED BY <1>1, <1>11, OneRequest

\* The credentials a session signs with are of its user.
LEMMA CredsAtSign ==
  ASSUME SessionsInv, NEW b \in Browsers, NEW kind \in {"sign", "urlToken", "presign"}, At(b, kind)
  PROVE  LET r == web[b]
         IN  /\ r.creds \in CredsSet /\ r.creds.key = r.who
             /\ \/ r.changed \/ r.who \in TempHolders \/ r.creds.secret = r.args.secret
                \/ r.creds.secret = r.token.secret
  <1> DEFINE r == web[b]
  <1>1. /\ RequestFits(r, accounts, rights, clock) /\ r.plan # << >> /\ r.plan[1].do = kind
    BY HeadIs
  <1> HIDE DEF r
  <1>2. CredsFit(r) /\ r.creds \in CredsSet BY <1>1 DEF RequestFits, Formed, CredsSet
  <1>3. AtHead(r, {"sign", "setSecret", "current", "urlToken", "presign"}) BY <1>1 DEF AtHead
  <1>4. AtHead(r, {"sign", "setSecret"}) \/ AtHead(r, {"urlToken", "presign"}) BY <1>1 DEF AtHead
  <1>5. QED BY <1>2, <1>3, <1>4 DEF CredsFit, r

\* A token is signed for the user of the credentials.
LEMMA SignsKeeps ==
  ASSUME SessionsInv, NEW b \in Browsers, NEW kind \in {"sign", "urlToken"}, At(b, kind),
         NEW life \in Nat, Signs(b, life)
  PROVE  SessionsInv'
  <1> DEFINE r == web[b]
             c == r.creds
             t == WebToken(c.key, c.secret, clock + life)
             signed == c.secret \in KeySecrets(c.key) /\ c.key \notin TempHolders
  <1>1. CASE ~signed
    <2>1. EndsNow(b) /\ UNCHANGED World /\ Busy(b) BY <1>1 DEF Signs, At
    <2>2. accounts' = accounts /\ rights' = rights /\ clock' = clock /\ tokens' = tokens
      BY <2>1 DEF World
    <2>3. QED BY <2>1, <2>2, EndsNowFits
  <1>2. CASE signed
    <2>1. Issue(b, t) BY <1>2 DEF Signs
    <2>2. /\ c \in CredsSet /\ c.key = r.who
          /\ \/ r.changed \/ r.who \in TempHolders \/ c.secret = r.args.secret
             \/ c.secret = r.token.secret
      BY CredsAtSign
    <2>3. c.key \in {Owner} \cup AllHolders BY <1>2 DEF KeySecrets, Usable
    <2>4. clock + life \in Nat /\ tokens \subseteq WebTokens BY DEF SessionsInv, WebTypes
    <2>5. t \in WebTokens /\ t \in CredsSet /\ t.key = c.key /\ t.secret = c.secret
      <3> HIDE DEF c
      <3>1. QED BY <2>2, <2>3, <2>4 DEF WebToken, WebTokens, CredsSet
    <2> HIDE DEF t
    <2>6. /\ Continues(b, [r EXCEPT !.issued = @ \cup {t}])
          /\ tokens' = tokens \cup {t}
          /\ accounts' = accounts /\ rights' = rights /\ clock' = clock
      BY <2>1 DEF Issue
    <2>7. tokens' \subseteq WebTokens BY <2>4, <2>5, <2>6
    <2>8. QED BY <2>2, <2>5, <2>6, <2>7, IssueFits
  <1> HIDE DEF signed
  <1>3. QED BY <1>1, <1>2

\* The lifetimes of tokens are numbers.
LEMMA LivesAre ==
  WebLife \in Nat /\ URLLife \in Nat /\ PresignLife \in Nat
  BY HoldersAssumption

\* AuthenticateWeb, for Login and SetAuth.
LEMMA AuthenticateWebKeeps ==
  ASSUME SessionsInv, NEW b \in Browsers, AuthenticateWeb(b)
  PROVE  SessionsInv'
  <1>1. At(b, "sign") /\ Signs(b, WebLife) BY DEF AuthenticateWeb
  <1>2. QED BY <1>1, LivesAre, SignsKeeps

\* AuthenticateURL, with the session token of a temporary user or a signature.
LEMMA AuthenticateURLKeeps ==
  ASSUME SessionsInv, NEW b \in Browsers, AuthenticateURL(b)
  PROVE  SessionsInv'
  <1> DEFINE r == web[b]
             t == WebToken(r.creds.key, OwnerSecret, WebLife)
  <1>1. At(b, "urlToken") BY DEF AuthenticateURL
  <1>2. CASE r.creds.key \in TempHolders
    <2>1. Issue(b, t) BY <1>2 DEF AuthenticateURL
    <2>2. r.creds.key = r.who BY <1>1, CredsAtSign
    <2>3. /\ t \in WebTokens /\ t \in CredsSet /\ t.key = r.who /\ t.key \in TempHolders
      BY <1>2, <2>2, LivesAre DEF WebToken, WebTokens, CredsSet, Everybody, AllHolders
    <2> HIDE DEF t
    <2>4. /\ Continues(b, [r EXCEPT !.issued = @ \cup {t}])
          /\ tokens' = tokens \cup {t}
          /\ accounts' = accounts /\ rights' = rights /\ clock' = clock
      BY <2>1 DEF Issue
    <2>5. tokens' \subseteq WebTokens BY <2>3, <2>4 DEF SessionsInv, WebTypes
    <2>6. QED BY <1>1, <2>3, <2>4, <2>5, IssueFits
  <1>3. CASE r.creds.key \notin TempHolders
    <2>1. Signs(b, URLLife) BY <1>3 DEF AuthenticateURL
    <2>2. QED BY <1>1, <2>1, LivesAre, SignsKeeps
  <1>4. QED BY <1>2, <1>3

\* Presign: a URL is signed with the secret that was read.
LEMMA PresignKeeps ==
  ASSUME SessionsInv, NEW b \in Browsers, Presign(b)
  PROVE  SessionsInv'
  <1> DEFINE r == web[b]
             t == WebToken(r.creds.key, r.creds.secret, clock + PresignLife)
  <1>1. /\ At(b, "presign") /\ Continues(b, [r EXCEPT !.issued = @ \cup {t}])
        /\ accounts' = accounts /\ rights' = rights /\ clock' = clock /\ tokens' = tokens
    BY DEF Presign, World
  <1>2. /\ r.creds \in CredsSet /\ r.creds.key = r.who
        /\ \/ r.changed \/ r.who \in TempHolders \/ r.creds.secret = r.args.secret
           \/ r.creds.secret = r.token.secret
    BY <1>1, CredsAtSign
  <1>3. clock + PresignLife \in Nat /\ tokens' \subseteq WebTokens
    BY <1>1, LivesAre DEF SessionsInv, WebTypes
  <1>4. t \in CredsSet /\ t.key = r.creds.key /\ t.secret = r.creds.secret
    BY <1>2, <1>3 DEF WebToken, CredsSet
  <1> HIDE DEF t
  <1>5. QED BY <1>1, <1>2, <1>3, <1>4, IssueFits

(***************************************************************************)
(* Others                                                                  *)
(***************************************************************************)
\* What a request is told of the changes of the world.
Noticed(r, accts, held, time) ==
  [r EXCEPT !.unseen = @ \ held,
            !.vouched = @ \/ Vouched(r, accts, time),
            !.changed = @ \/ (r.who \in AllHolders /\ accts[r.who] # accounts[r.who])]

\* What Watched says of one request.
LEMMA WatchedIs ==
  ASSUME SessionsInv, NEW accts, NEW held, NEW time, NEW b \in Browsers
  PROVE  Watched(accts, held, time)[b] =
           IF ~Busy(b) THEN web[b] ELSE Noticed(web[b], accts, held, time)
  BY DEF Watched, Noticed

\* The request after the world has changed.
LEMMA NoticedIs ==
  ASSUME NEW r, Formed(r), NEW accts, NEW held, NEW time, NEW s,
         s = Noticed(r, accts, held, time)
  PROVE  /\ DOMAIN s = DOMAIN r /\ s.op = r.op /\ s.token = r.token /\ s.args = r.args
         /\ s.who = r.who /\ s.plan = r.plan /\ s.got = r.got /\ s.creds = r.creds
         /\ s.served = r.served /\ s.issued = r.issued /\ s.unseen = r.unseen \ held
         /\ s.vouched = (r.vouched \/ Vouched(r, accts, time))
         /\ s.changed = (r.changed \/ (r.who \in AllHolders /\ accts[r.who] # accounts[r.who]))
  BY DEF Formed, Noticed

\* A right once seen was seen.
LEMMA NoticedPlan ==
  ASSUME NEW r, NEW s, PlanFits(r), s.op = r.op, s.who = r.who, s.plan = r.plan,
         s.unseen \subseteq r.unseen
  PROVE  PlanFits(s)
  <1>1. \A e : Seen(r, e) => Seen(s, e) BY DEF Seen
  <1>2. \A i \in 1 .. Len(r.plan) : Covered(r, i) => Covered(s, i) BY <1>1 DEF Covered, RightOf
  <1>3. QED BY <1>2 DEF PlanFits

\* Whatever the world becomes, a request fits it: its history only grows.
LEMMA NoticedFits ==
  ASSUME NEW r, NEW accts, NEW held, NEW time, RequestFits(r, accounts, rights, clock), NEW s,
         s = Noticed(r, accts, held, time)
  PROVE  RequestFits(s, accts, held, time)
  <1>1. /\ Formed(r) /\ PlanFits(r) /\ HistoryFits(r, accounts, rights, clock)
        /\ r.vouched \/ Unchecked(r)
        /\ TokenFits(r, accounts) /\ CredsFit(r) /\ EffectsAllowed(r) /\ IssuesAllowed(r)
    BY DEF RequestFits
  <1>2. /\ DOMAIN s = DOMAIN r /\ s.op = r.op /\ s.token = r.token /\ s.args = r.args
        /\ s.who = r.who /\ s.plan = r.plan /\ s.got = r.got /\ s.creds = r.creds
        /\ s.served = r.served /\ s.issued = r.issued /\ s.unseen = r.unseen \ held
        /\ s.vouched = (r.vouched \/ Vouched(r, accts, time))
        /\ s.changed = (r.changed \/ (r.who \in AllHolders /\ accts[r.who] # accounts[r.who]))
    BY <1>1, NoticedIs
  <1>3. s.vouched \in BOOLEAN /\ s.changed \in BOOLEAN BY <1>1, <1>2 DEF Formed
  <1>4. Formed(s) BY <1>1, <1>2, <1>3 DEF Formed
  <1>5. PlanFits(s) BY <1>1, <1>2, NoticedPlan
  <1>6. /\ r.vouched => s.vouched
        /\ Vouched(r, accts, time) => s.vouched
        /\ ~s.changed => ~r.changed /\ (r.who \in AllHolders => accts[r.who] = accounts[r.who])
    BY <1>2
  <1>7. HistoryFits(s, accts, held, time)
    <2>1. Vouched(s, accts, time) = Vouched(r, accts, time) BY <1>2 DEF Vouched
    <2>2. QED BY <1>1, <1>2, <1>6, <2>1 DEF HistoryFits, Seen
  <1>8. s.vouched \/ Unchecked(s) BY <1>1, <1>2, <1>6 DEF Unchecked, AtHead
  <1>9. TokenFits(s, accts)
    <2>1. r.who \in Holders => r.who \in AllHolders BY DEF AllHolders
    <2>2. AtHead(s, {"auth"}) = AtHead(r, {"auth"}) BY <1>2 DEF AtHead
    <2>3. QED BY <1>1, <1>2, <1>6, <2>1, <2>2 DEF TokenFits
  <1>10. CredsFit(s)
    <2>1. \A kinds : AtHead(s, kinds) = AtHead(r, kinds) BY <1>2 DEF AtHead
    <2>2. r.changed => s.changed BY <1>2
    <2>3. QED BY <1>1, <1>2, <2>1, <2>2 DEF CredsFit
  <1>11. EffectsAllowed(s) BY <1>1, <1>2, <1>6 DEF EffectsAllowed
  <1>12. IssuesAllowed(s)
    <2>1. r.changed => s.changed BY <1>2
    <2>2. QED BY <1>1, <1>2, <1>6, <2>1 DEF IssuesAllowed
  <1>13. QED BY <1>4, <1>5, <1>7, <1>8, <1>9, <1>10, <1>11, <1>12 DEF RequestFits

\* ChangesWorld, for any accounts, rights and time.
LEMMA ChangesWorldKeeps ==
  ASSUME SessionsInv, NEW accts \in AccountTypes, NEW held, NEW time \in Nat,
         ChangesWorld(accts, held, time)
  PROVE  SessionsInv'
  <1>1. /\ accounts' = accts /\ rights' = held /\ clock' = time /\ tokens' = tokens
        /\ web' = Watched(accts, held, time)
    BY DEF ChangesWorld
  <1>2. web' = [b \in Browsers |-> web'[b]]
    <2> DEFINE f(b) == IF ~Busy(b) THEN web[b] ELSE
                         [web[b] EXCEPT
                             !.unseen = @ \ held,
                             !.vouched = @ \/ Vouched(web[b], accts, time),
                             !.changed = @ \/ (web[b].who \in AllHolders
                                               /\ accts[web[b].who] # accounts[web[b].who])]
    <2>1. web' = [b \in Browsers |-> f(b)] BY <1>1 DEF Watched
    <2> HIDE DEF f
    <2>2. QED BY <2>1
  <1>3. WebTypes' BY <1>1, <1>2 DEF SessionsInv, WebTypes, AccountTypes
  <1>4. ASSUME NEW b \in Browsers
        PROVE  web'[b] = NoWebRequest \/ RequestFits(web'[b], accts, held, time)
    <2>1. web'[b] = IF ~Busy(b) THEN web[b] ELSE Noticed(web[b], accts, held, time)
      BY <1>1, WatchedIs
    <2>2. CASE Busy(b)
      <3>1. RequestFits(web[b], accounts, rights, clock) BY <2>2, BusyFits
      <3>2. web'[b] = Noticed(web[b], accts, held, time) BY <2>1, <2>2
      <3>3. QED BY <3>1, <3>2, NoticedFits
    <2>3. CASE ~Busy(b)
      <3>1. web[b] = NoWebRequest
        <4>1. ASSUME RequestFits(web[b], accounts, rights, clock)
              PROVE  FALSE
          <5>1. web[b].op \in WebOps \cup S3Ops BY <4>1 DEF RequestFits, Formed
          <5>2. QED BY <2>3, <5>1 DEF Busy, WebOps, S3Ops
        <4>2. QED BY <4>1 DEF SessionsInv
      <3>2. QED BY <2>1, <2>3, <3>1
    <2>4. QED BY <2>2, <2>3
  <1>5. QED BY <1>1, <1>3, <1>4 DEF SessionsInv

\* Administrators and the clock.
LEMMA OthersKeep ==
  ASSUME SessionsInv, OthersStep
  PROVE  SessionsInv'
  <1>1. accounts \in AccountTypes /\ clock \in Nat BY DEF SessionsInv, WebTypes, AccountTypes
  <1>2. CASE \E b \in {x \in Browsers : Busy(x)} :
               \E right \in Questions(web[b]) \cap AllRights : Grant(right) \/ Revoke(right)
    <2>1. PICK right : Grant(right) \/ Revoke(right) BY <1>2
    <2>2. ChangesWorld(accounts, rights \cup {right}, clock) \/ ChangesWorld(accounts, rights \ {right}, clock)
      BY <2>1 DEF Grant, Revoke
    <2>3. QED BY <1>1, <2>2, ChangesWorldKeeps
  <1>3. CASE \E key \in AllHolders, account \in [secret : Secrets, status : {"on", "off", "gone"}] :
               ChangeUser(key, account)
    <2>1. PICK key \in AllHolders, account \in [secret : Secrets, status : {"on", "off", "gone"}] :
             ChangeUser(key, account)
      BY <1>3
    <2>2. ChangesWorld([accounts EXCEPT ![key] = account], rights, clock) BY <2>1 DEF ChangeUser
    <2>3. [accounts EXCEPT ![key] = account] \in AccountTypes BY <1>1 DEF AccountTypes
    <2>4. QED BY <1>1, <2>2, <2>3, ChangesWorldKeeps
  <1>4. CASE ClockTicks
    <2>1. ChangesWorld(accounts, rights, clock + 1) /\ clock + 1 \in Nat
      BY <1>1, <1>4 DEF ClockTicks
    <2>2. QED BY <1>1, <2>1, ChangesWorldKeeps
  <1>5. QED BY <1>2, <1>3, <1>4 DEF OthersStep

(***************************************************************************)
(* A secret is stored                                                      *)
(***************************************************************************)
\* SetAuth has no token to compare with once the secret is changed.
LEMMA SetAuthFitsAny ==
  ASSUME NEW r, NEW accts, NEW accts2, NEW held, NEW time, RequestFits(r, accts, held, time),
         r.op = "SetAuth", r.vouched
  PROVE  RequestFits(r, accts2, held, time)
  <1>1. HistoryFits(r, accts2, held, time) BY DEF RequestFits, HistoryFits
  <1>2. TokenFits(r, accts2) BY DEF RequestFits, TokenFits
  <1>3. QED BY <1>1, <1>2 DEF RequestFits

\* StoreSecret: the other requests see the secret change.
LEMMA StoreSecretKeeps ==
  ASSUME SessionsInv, NEW b \in Browsers, StoreSecret(b)
  PROVE  SessionsInv'
  <1> DEFINE r == web[b]
             s == [r EXCEPT !.plan = Tail(@)]
             accts == [accounts EXCEPT ![r.who].secret = r.args.secret]
  <1>1. /\ rights' = rights /\ clock' = clock /\ tokens' = tokens /\ At(b, "setSecret")
    BY DEF StoreSecret
  <1>2. /\ Busy(b) /\ RequestFits(r, accounts, rights, clock) /\ r.plan # << >>
        /\ r.plan[1].do = "setSecret"
    BY <1>1, HeadIs
  <1>3. /\ Formed(r) /\ r.vouched /\ HeadHeld(r) /\ r.op \in OpsWith("setSecret")
    BY <1>1, InSession
  <1>4. CASE accounts[r.who].status = "gone"
    <2>1. EndsNow(b) /\ accounts' = accounts BY <1>4 DEF StoreSecret
    <2>2. QED BY <1>1, <1>2, <2>1, EndsNowFits
  <1>5. CASE accounts[r.who].status # "gone"
    <2>1. /\ accounts' = accts
          /\ web' = [Watched(accounts', rights, clock) EXCEPT ![b] = s]
      BY <1>5 DEF StoreSecret
    <2>2. accts \in AccountTypes
      <3>1. accounts \in AccountTypes /\ r.args.secret \in Secrets \cup {OwnerSecret}
        BY <1>3 DEF SessionsInv, WebTypes, AccountTypes, Formed
      <3> HIDE DEF r
      <3>2. QED BY <3>1 DEF AccountTypes
    <2> HIDE DEF accts
    <2> DEFINE w == Watched(accts, rights, clock)
    <2>3. w = [x \in Browsers |-> w[x]] /\ DOMAIN w = Browsers
      <3> DEFINE f(x) == IF ~Busy(x) THEN web[x] ELSE
                           [web[x] EXCEPT
                             !.unseen = @ \ rights,
                             !.vouched = @ \/ Vouched(web[x], accts, clock),
                             !.changed = @ \/ (web[x].who \in AllHolders
                                               /\ accts[web[x].who] # accounts[web[x].who])]
      <3>1. w = [x \in Browsers |-> f(x)] BY DEF Watched
      <3> HIDE DEF f, w
      <3>2. QED BY <3>1
    <2>4. \A x \in Browsers : w[x] = IF ~Busy(x) THEN web[x] ELSE Noticed(web[x], accts, rights, clock)
      BY WatchedIs
    <2>5. web' = [w EXCEPT ![b] = s] BY <2>1
    <2> HIDE DEF w, s
    <2>6. /\ web' = [x \in Browsers |-> web'[x]]
          /\ \A x \in Browsers : web'[x] = IF x = b THEN s ELSE w[x]
      BY <2>3, <2>5
    <2>7. WebTypes' BY <1>1, <2>1, <2>2, <2>6 DEF SessionsInv, WebTypes, AccountTypes
    <2>8. RequestFits(s, accts, rights, clock)
      <3>1. s = [r EXCEPT !.plan = Tail(@)] BY DEF s
      <3>2. /\ SameRequest(r, s) /\ s.plan = Tail(r.plan) /\ s.got = r.got /\ s.creds = r.creds
            /\ s.served = r.served /\ s.issued = r.issued
        <4> HIDE DEF r
        <4>1. QED BY <1>3, <3>1, GoesOnIs
      <3>a. s.plan # << >> => "setSecret" \in Before(s.plan[1].do)
        BY <1>1, <1>3, <3>2, NextHead
      <3> HIDE DEF r
      <3>3. EffectsAllowed(s) /\ IssuesAllowed(s)
        <4>1. EffectsAllowed(r) /\ IssuesAllowed(r) BY <1>2 DEF RequestFits
        <4>2. QED BY <3>2, <4>1, SameAllowed
      <3>4. /\ s.creds \in CredsSet
            /\ s.issued \subseteq CredsSet
        BY <1>3, <3>2 DEF Formed
      <3>5. TokenFits(s, accounts)
        <4>1. TokenFits(r, accounts) /\ r.plan[1].do # "auth" BY <1>2 DEF RequestFits
        <4>2. QED BY <1>2, <3>2, <4>1, TokenKept
      <3>6. CredsFit(s)
        <4>1. AtHead(r, {"sign", "setSecret", "current", "urlToken", "presign"})
              /\ AtHead(r, {"sign", "setSecret"})
          BY <1>2 DEF AtHead
        <4>2. r.creds.key = r.who /\ r.creds.secret = r.args.secret
          BY <1>2, <4>1 DEF RequestFits, CredsFit
        <4>3. ~AtHead(s, {"urlToken", "presign"}) BY <3>a DEF AtHead, Before
        <4>4. s.who = r.who /\ s.args = r.args BY <3>2 DEF SameRequest
        <4>5. QED BY <3>2, <4>2, <4>3, <4>4 DEF CredsFit
      <3>7. \A g \in s.got : g \in r.got BY <3>2
      <3>8. RequestFits(s, accounts, rights, clock)
        BY <1>2, <1>3, <3>2, <3>3, <3>4, <3>5, <3>6, <3>7, GoesOnFits
      <3>9. s.op = "SetAuth" /\ s.vouched BY <1>3, <3>2 DEF SameRequest, OpsWith
      <3>10. QED BY <3>8, <3>9, SetAuthFitsAny
    <2>9. ASSUME NEW x \in Browsers
          PROVE  web'[x] = NoWebRequest \/ RequestFits(web'[x], accts, rights, clock)
      <3>1. CASE x = b BY <2>6, <2>8, <3>1
      <3>2. CASE x # b /\ web[x] = NoWebRequest
        <4>1. ~Busy(x) BY <3>2 DEF Busy, NoWebRequest
        <4>2. QED BY <2>4, <2>6, <3>2, <4>1
      <3>3. CASE x # b /\ web[x] # NoWebRequest
        <4>1. RequestFits(web[x], accounts, rights, clock) BY <3>3 DEF SessionsInv
        <4>2. Busy(x)
          <5>1. web[x].op \in WebOps \cup S3Ops BY <4>1 DEF RequestFits, Formed
          <5>2. QED BY <5>1 DEF Busy, WebOps, S3Ops
        <4>3. web'[x] = Noticed(web[x], accts, rights, clock) BY <2>4, <2>6, <3>3, <4>2
        <4>4. QED BY <4>1, <4>3, NoticedFits
      <3>4. QED BY <3>1, <3>2, <3>3
    <2>10. QED BY <1>1, <2>1, <2>7, <2>9 DEF SessionsInv
  <1>6. QED BY <1>4, <1>5

\* What a client may send is made of what there is.
LEMMA SentToken ==
  ASSUME SessionsInv, NEW op \in WebOps \cup S3Ops, NEW token \in Credentials(op)
  PROVE  token \in WebTokens \cup {NoToken} /\ (op = "Login" => token = NoToken)
  <1>1. tokens \subseteq WebTokens BY DEF SessionsInv, WebTypes
  <1>2. "Login" \notin S3Ops BY DEF S3Ops
  <1>3. CASE op = "Login" BY <1>2, <1>3 DEF Credentials
  <1>4. CASE op \in S3Ops BY <1>2, <1>4 DEF Credentials, WebToken, WebTokens
  <1>5. CASE op # "Login" /\ op \notin S3Ops BY <1>1, <1>5 DEF Credentials
  <1>6. QED BY <1>3, <1>4, <1>5

\* What Login and SetAuth take, and what the query of a signed request names.
LEMMA SentParameters ==
  ASSUME NEW op, NEW args \in Parameters(op)
  PROVE  /\ DOMAIN args = {"key", "current", "secret"}
         /\ args.secret \in Secrets \cup {OwnerSecret} /\ args.key \in Everybody
  <1>1. CASE op = "Login" BY <1>1 DEF Parameters, Everybody
  <1>2. CASE op = "SetAuth" BY <1>2 DEF Parameters, Everybody
  <1>3. CASE op # "Login" /\ op # "SetAuth" BY <1>3 DEF Parameters, Everybody
  <1>4. QED BY <1>1, <1>2, <1>3

(***************************************************************************)
(* Requests are sent, and every step                                       *)
(***************************************************************************)
\* A request that was just sent.
LEMMA SendRequestKeeps ==
  ASSUME SessionsInv, NEW b \in Browsers, NEW op \in OpsOf[b],
         NEW names, IF op \in Named THEN names \in Selections ELSE names = <<Bucket>>,
         NEW token \in Credentials(op), NEW args \in Parameters(op),
         SendRequest(b, op, names, token, args)
  PROVE  SessionsInv'
  <1> DEFINE who  == Speaker(op, token, args)
             plan == (IF op \in WebOps \ {"Login"} THEN <<Session("auth")>> ELSE << >>)
                       \o Handler([op |-> op, names |-> names], who)
             r == [op |-> op, token |-> token, args |-> args, who |-> who, plan |-> plan,
                   got |-> {}, creds |-> WebToken(who, args.secret, 0), served |-> {}, issued |-> {},
                   unseen |-> {}, vouched |-> FALSE, changed |-> FALSE]
             eff == Effects(r) \ rights
             good == Vouched(r, accounts, clock)
             s == [r EXCEPT !.unseen = eff, !.vouched = good]
  <1>1. /\ web' = [web EXCEPT ![b] = s]
        /\ accounts' = accounts /\ rights' = rights /\ clock' = clock /\ tokens' = tokens
    BY DEF SendRequest
  <1>2. op \in WebOps \cup S3Ops BY OpsAssumption
  <1>3. token \in WebTokens \cup {NoToken} /\ (op = "Login" => token = NoToken) BY <1>2, SentToken
  <1>4. /\ DOMAIN args = {"key", "current", "secret"}
        /\ args.secret \in Secrets \cup {OwnerSecret} /\ args.key \in Everybody
    BY SentParameters
  <1>5. who \in Everybody BY <1>3, <1>4 DEF Everybody, WebTokens, Speaker
  <1>6. good \in BOOLEAN /\ good = Vouched(r, accounts, clock) /\ eff \cap rights = {}
    <2> HIDE DEF r
    <2>1. QED BY DEF Vouched
  <1>7. WebToken(who, args.secret, 0) \in CredsSet
    <2> HIDE DEF who
    <2>1. QED BY <1>4, <1>5 DEF WebToken, CredsSet
  <1>a. who = Speaker(op, token, args)
    OBVIOUS
  <1>b. plan = (IF op \in WebOps \ {"Login"} THEN <<Session("auth")>> ELSE << >>)
                  \o Handler([op |-> op, names |-> names], who)
    OBVIOUS
  <1>c. r.op = op /\ r.token = token /\ r.who = who
    OBVIOUS
  <1> HIDE DEF who, plan, eff, good
  <1>8. /\ DOMAIN s = {"op", "token", "args", "who", "plan", "got", "creds", "served", "issued",
                       "unseen", "vouched", "changed"}
        /\ s.op = op /\ s.token = token /\ s.args = args /\ s.who = who /\ s.plan = plan
        /\ s.got = {} /\ s.creds = WebToken(who, args.secret, 0) /\ s.served = {} /\ s.issued = {}
        /\ s.unseen = eff /\ s.vouched = good /\ s.changed = FALSE
    OBVIOUS
  <1> HIDE DEF r, s
  <1>9. /\ s.plan \in Seq(StepSet) /\ PlanFits(s)
        /\ IF op = "Login" THEN AtHead(s, {"sign"})
           ELSE s.plan = << >> \/ AtHead(s, {"auth", "verify"})
        /\ op \in WebOps \ {"Login"} => AtHead(s, {"auth"})
    <2>1. /\ s.op = op
          /\ s.plan = (IF op \in WebOps \ {"Login"} THEN <<Session("auth")>> ELSE << >>)
                        \o Handler([op |-> op, names |-> names], who)
      BY <1>8, <1>b
    <2>2. IF op \in Named THEN names \in Selections ELSE names = <<Bucket>> OBVIOUS
    <2>3. QED BY <1>2, <2>1, <2>2, SentFits
  <1>10. Formed(s) BY <1>2, <1>3, <1>4, <1>6, <1>7, <1>8, <1>9, <1>a DEF Formed, CredsSet
  <1>11. HistoryFits(s, accounts, rights, clock)
    <2>1. Vouched(s, accounts, clock) = good BY <1>6, <1>8, <1>c DEF Vouched
    <2>2. QED BY <1>6, <1>8, <2>1 DEF HistoryFits
  <1>12. s.vouched \/ Unchecked(s)
    <2>1. CASE op = "Login"
      <3>1. Vouched(s, accounts, clock) BY <1>3, <1>8, <2>1 DEF Vouched
      <3>2. QED BY <1>11, <3>1 DEF HistoryFits
    <2>2. CASE op # "Login" BY <1>8, <1>9, <2>2 DEF Unchecked
    <2>3. QED BY <2>1, <2>2
  <1>13. TokenFits(s, accounts) BY <1>8, <1>9 DEF TokenFits
  <1>14. CredsFit(s)
    <2>1. s.creds.key = s.who /\ s.creds.secret = s.args.secret BY <1>8 DEF WebToken
    <2>2. ~AtHead(s, {"urlToken", "presign"}) BY <1>9 DEF AtHead
    <2>3. QED BY <2>1, <2>2 DEF CredsFit
  <1>15. EffectsAllowed(s) /\ IssuesAllowed(s) BY <1>8 DEF EffectsAllowed, IssuesAllowed
  <1>16. RequestFits(s, accounts, rights, clock)
    BY <1>9, <1>10, <1>11, <1>12, <1>13, <1>14, <1>15 DEF RequestFits
  <1>17. tokens' \subseteq WebTokens BY <1>1 DEF SessionsInv, WebTypes
  <1>18. QED BY <1>1, <1>16, <1>17, OneRequest

\* Every step keeps the invariant.
LEMMA StepKeeps ==
  ASSUME SessionsInv, SessionsNext
  PROVE  SessionsInv'
  <1>1. CASE OthersStep BY <1>1, OthersKeep
  <1>2. ASSUME NEW b \in Browsers, ClientStep(b)
        PROVE  SessionsInv'
    <2>1. CASE HandlerStep(b)
      BY <2>1, AuthenticateKeeps, VerifySignatureKeeps, QuestionKeeps, DecisionKeeps, EffectKeeps,
         ReadUserKeeps, CompareCurrentKeeps, StoreSecretKeeps, AuthenticateWebKeeps,
         AuthenticateURLKeeps, PresignKeeps, ReplyKeeps DEF HandlerStep
    <2>2. ASSUME NEW op \in OpsOf[b],
                 NEW names \in IF op \in Named THEN Selections ELSE {<<Bucket>>},
                 NEW token \in Credentials(op), NEW args \in Parameters(op),
                 SendRequest(b, op, names, token, args)
          PROVE  SessionsInv'
      <3>1. IF op \in Named THEN names \in Selections ELSE names = <<Bucket>> OBVIOUS
      <3>2. QED BY <2>2, <3>1, SendRequestKeeps
    <2>3. QED BY <1>2, <2>1, <2>2 DEF ClientStep
  <1>3. QED BY <1>1, <1>2 DEF SessionsNext

\* A step that changes nothing of the sessions.
LEMMA UnchangedKeeps ==
  ASSUME SessionsInv, UNCHANGED webVars
  PROVE  SessionsInv'
  <1>1. /\ accounts' = accounts /\ rights' = rights /\ clock' = clock /\ tokens' = tokens
        /\ web' = web
    BY DEF webVars
  <1>2. WebTypes' BY <1>1 DEF SessionsInv, WebTypes
  <1>3. QED BY <1>1, <1>2 DEF SessionsInv

\* Everybody has logged in and no request runs.
LEMMA InitHolds ==
  ASSUME SessionsInit
  PROVE  SessionsInv
  <1>1. (CHOOSE s \in Secrets : TRUE) \in Secrets BY HoldersAssumption
  <1>2. accounts \in AccountTypes BY <1>1 DEF SessionsInit, AccountTypes
  <1>3. tokens \subseteq WebTokens
    <2>1. \A k \in Holders : accounts[k].secret \in Secrets BY <1>1 DEF SessionsInit, AllHolders
    <2>2. \A k \in {Owner} \cup AllHolders, s \in Secrets \cup {OwnerSecret} :
            WebToken(k, s, WebLife) \in WebTokens
      BY LivesAre DEF WebToken, WebTokens
    <2>3. QED BY <2>1, <2>2 DEF SessionsInit, AllHolders
  <1>4. clock \in Nat /\ web = [b \in Browsers |-> web[b]] /\ \A b \in Browsers : web[b] = NoWebRequest
    BY DEF SessionsInit
  <1>5. QED BY <1>2, <1>3, <1>4 DEF SessionsInv, WebTypes, AccountTypes

\* The invariant: whatever rights, users, secrets and times become, a running
\* request has done nothing before its token was looked at (auth, verify), it has
\* asked for what the rest of its plan does, and it signs with credentials of its
\* own user (webRequestAuthenticate, checkRequestAuthType, SetAuth,
\* CreateURLToken, PresignedGet).
THEOREM SessionsInvAlways == SessionsSpec => []SessionsInv
  <1>1. SessionsInit => SessionsInv BY InitHolds
  <1>2. SessionsInv /\ [SessionsNext]_webVars => SessionsInv' BY StepKeeps, UnchangedKeeps
  <1>3. QED BY <1>1, <1>2, PTL DEF SessionsSpec

\* Every handler of the web and bucket API does only what its caller had the right
\* to do at some moment of the request, with a token that was good at some moment,
\* and hands out tokens only to whom they name (web-handlers.go, jwt.go), for any
\* number of clients, users, names, requests and changes.
THEOREM ServedAsAllowedAlways == SessionsSpec => []ServedAsAllowed
  <1>1. SessionsInv => ServedAsAllowed BY BusyFits DEF ServedAsAllowed, RequestFits
  <1>2. QED BY <1>1, SessionsInvAlways, PTL

(***************************************************************************)
(* Signed chunks: numbers and sequences                                    *)
(***************************************************************************)

\* What division leaves.
LEMMA Division ==
  ASSUME NEW a \in Nat, NEW c \in Nat \ {0}
  PROVE  \E q \in Nat, r \in 0 .. (c - 1) :
           a \div c = q /\ a % c = r /\ a = q * c + r
  <1>1. PICK q, r : q = a \div c /\ r = a % c OBVIOUS
  <1>2. q \in Nat /\ r \in 0 .. (c - 1) BY <1>1
  <1>3. r = a - q * c
    <2>1. \A x, y \in Int : y > 0 => x % y = x - (x \div y) * y OBVIOUS
    <2>2. QED BY <1>1, <2>1
  <1>4. a = q * c + r BY <1>2, <1>3
  <1>5. QED BY <1>1, <1>2, <1>4

\* Rounding up.
LEMMA RoundsUp ==
  ASSUME NEW n \in Nat, NEW c \in Nat \ {0}
  PROVE  \E q \in Nat : /\ (n + c - 1) \div c = q
                        /\ n <= q * c
                        /\ q > 0 => (q - 1) * c < n
  <1>1. n + c - 1 \in Nat OBVIOUS
  <1>2. PICK q \in Nat, r \in 0 .. (c - 1) : (n + c - 1) \div c = q /\ n + c - 1 = q * c + r
    BY <1>1, Division
  <1>3. n <= q * c /\ (q > 0 => (q - 1) * c < n) BY <1>2
  <1>4. QED BY <1>2, <1>3

\* Products grow.
LEMMA ProductsGrow ==
  ASSUME NEW a \in Nat, NEW b \in Nat, NEW c \in Nat, a <= b
  PROVE  a * c <= b * c
  OBVIOUS

\* One more sequence after the others.
LEMMA FlattenAppend ==
  ASSUME NEW S, NEW seqs \in Seq(Seq(S)), NEW x \in Seq(S), NEW more,
         Len(more) = Len(seqs) + 1, more \in Seq(Seq(S)),
         \A i \in 1 .. Len(seqs) : more[i] = seqs[i],
         more[Len(seqs) + 1] = x
  PROVE  FlattenSeq(more) = FlattenSeq(seqs) \o x
  <1>1. PICK n \in Nat : n = Len(seqs) BY LenProperties
  <1>2. more # << >> BY <1>1, EmptySeq
  <1>3. PICK g : FlattensTo(more, g, n + 1) /\ FlattenSeq(more) = g[n + 1]
    BY <1>1, <1>2, FlattenSeqUnfolds
  <1>4. \A i \in 1 .. (n + 1) : g[i] = IF i = 1 THEN more[i] ELSE g[i - 1] \o more[i]
    BY <1>3 DEF FlattensTo
  <1>5. CASE n = 0
    <2>1. seqs = << >> BY <1>1, <1>5, EmptySeq
    <2>2. FlattenSeq(seqs) = << >> BY <1>1, <1>5, <2>1 DEF FlattenSeq
    <2>3. g[1] = x BY <1>1, <1>4, <1>5
    <2>4. QED BY <1>3, <1>5, <2>2, <2>3, ConcatEmptySeq
  <1>6. CASE n # 0
    <2>1. seqs # << >> BY <1>1, <1>6, EmptySeq
    <2>2. PICK f : FlattensTo(seqs, f, n) /\ FlattenSeq(seqs) = f[n]
      BY <1>1, <2>1, FlattenSeqUnfolds
    <2>3. \A i \in 1 .. n : f[i] = IF i = 1 THEN seqs[i] ELSE f[i - 1] \o seqs[i]
      BY <2>2 DEF FlattensTo
    <2> DEFINE T == {m \in Nat : m + 1 <= n => g[m + 1] = f[m + 1]}
    <2>4. 0 \in T
      <3>1. f[1] = seqs[1] /\ g[1] = more[1] /\ more[1] = seqs[1] BY <1>1, <1>4, <1>6, <2>3
      <3>2. QED BY <3>1
    <2>5. ASSUME NEW m \in Nat, m \in T PROVE m + 1 \in T
      <3> SUFFICES ASSUME (m + 1) + 1 <= n PROVE g[(m + 1) + 1] = f[(m + 1) + 1]
        OBVIOUS
      <3>1. g[m + 1] = f[m + 1] BY <2>5
      <3>2. PICK k \in 1 .. n : k = (m + 1) + 1 /\ k # 1 /\ k - 1 = m + 1 OBVIOUS
      <3>3. f[k] = f[m + 1] \o seqs[k] BY <2>3, <3>2
      <3>4. g[k] = g[m + 1] \o more[k]
        <4>1. k \in 1 .. (n + 1) BY <3>2
        <4>2. g[k] = g[k - 1] \o more[k] BY <1>4, <3>2, <4>1
        <4>3. QED BY <3>2, <4>2
      <3>5. QED
        <4>1. more[k] = seqs[k] BY <1>1, <3>2
        <4>2. QED BY <3>1, <3>2, <3>3, <3>4, <4>1
    <2> HIDE DEF T
    <2>6. Nat \subseteq T BY <2>4, <2>5, SetInduction
    <2>7. n - 1 \in T BY <1>6, <2>6
    <2>8. g[n] = f[n] BY <1>6, <2>7 DEF T
    <2>9. g[n + 1] = g[n] \o more[n + 1]
      <3>1. PICK k \in 1 .. (n + 1) : k = n + 1 /\ k # 1 /\ k - 1 = n BY <1>6
      <3>2. g[k] = g[k - 1] \o more[k] BY <1>4, <3>1
      <3>3. QED BY <3>1, <3>2
    <2>10. QED BY <1>1, <1>3, <2>2, <2>8, <2>9
  <1>7. QED BY <1>5, <1>6

\* Three sequences after each other.
LEMMA Regroup ==
  ASSUME NEW S, NEW a \in Seq(S), NEW b \in Seq(S), NEW c \in Seq(S)
  PROVE  (a \o b) \o c = a \o (b \o c)
  BY ConcatAssociative

\* What comes first is a prefix.
LEMMA FirstIsPrefix ==
  ASSUME NEW S, NEW a \in Seq(S), NEW b \in Seq(S)
  PROVE  IsPrefix(a, a \o b)
  <1>1. PICK c : c = a \o b OBVIOUS
  <1>2. /\ c \in Seq(S) /\ Len(c) = Len(a) + Len(b) /\ Len(a) \in Nat /\ Len(b) \in Nat
        /\ \A i \in 1 .. Len(a) : c[i] = a[i]
    <2>1. /\ a \o b \in Seq(S) /\ Len(a \o b) = Len(a) + Len(b)
          /\ \A i \in 1 .. (Len(a) + Len(b)) :
               (a \o b)[i] = IF i <= Len(a) THEN a[i] ELSE b[i - Len(a)]
      BY ConcatProperties
    <2>2. Len(a) \in Nat /\ Len(b) \in Nat BY LenProperties
    <2>3. QED BY <1>1, <2>1, <2>2
  <1>3. PICK d : d = SubSeq(c, 1, Len(a)) OBVIOUS
  <1>4. d \in Seq(S) /\ Len(d) = Len(a) /\ \A i \in 1 .. Len(a) : d[i] = a[i]
    <2>1. \A i \in 1 .. Len(a) : c[i] \in S BY <1>2, ElementOfSeq
    <2>2. /\ SubSeq(c, 1, Len(a)) \in Seq(S)
          /\ Len(SubSeq(c, 1, Len(a))) = IF 1 <= Len(a) THEN Len(a) - 1 + 1 ELSE 0
          /\ \A i \in 1 .. (Len(a) - 1 + 1) : SubSeq(c, 1, Len(a))[i] = c[1 + i - 1]
      BY <1>2, <2>1, SubSeqProperties
    <2>3. QED BY <1>2, <1>3, <2>2
  <1>5. d = a BY <1>4, SeqEqual
  <1>6. SubSeq(a, 1, Len(a)) = a BY SubSeqFull
  <1>7. QED BY <1>1, <1>2, <1>3, <1>5, <1>6 DEF IsPrefix

(***************************************************************************)
(* Signed chunks: what the client signs                                    *)
(***************************************************************************)

\* The data of the first chunks, and how much that is.
First(p, k) == [j \in 1 .. k |-> ChunkData(p, j)]
Cut(p, k) == IF k * ChunkSize < Len(p) THEN k * ChunkSize ELSE Len(p)

\* The tokens that occur on the way.
Tokens(p) ==
  [kind : {"header", "data", "crlf"}, byte : Nat, size : Nat,
   sig : {First(p, k) : k \in 0 .. TotalChunks(p)}]

\* Where a chunk's tokens begin.
Place(p, k) == Cut(p, k) + 2 * k

\* The tokens of the first chunks.
FirstSigned(p, k) == FlattenSeq([i \in 1 .. k |-> SignChunk(p, i)])

\* The last chunk begins at the end of the data, and no other does.
LEMMA TotalIs ==
  ASSUME NEW p \in Payloads
  PROVE  /\ TotalChunks(p) \in Nat \ {0} /\ Len(p) \in Nat
         /\ Len(p) <= (TotalChunks(p) - 1) * ChunkSize
         /\ \A k \in Nat : k < TotalChunks(p) - 1 => k * ChunkSize < Len(p)
  <1>1. Len(p) \in Nat /\ ChunkSize \in Nat \ {0} BY ChunkAssumption, LenProperties
  <1>2. PICK q \in Nat : /\ (Len(p) + ChunkSize - 1) \div ChunkSize = q
                         /\ Len(p) <= q * ChunkSize
                         /\ q > 0 => (q - 1) * ChunkSize < Len(p)
    BY <1>1, RoundsUp
  <1>3. TotalChunks(p) = q + 1 BY <1>2 DEF TotalChunks
  <1>4. ASSUME NEW k \in Nat, k < q PROVE k * ChunkSize < Len(p)
    <2>1. q - 1 \in Nat /\ k <= q - 1 BY <1>4
    <2>2. k * ChunkSize <= (q - 1) * ChunkSize BY <1>1, <2>1, ProductsGrow
    <2>3. k * ChunkSize \in Nat /\ (q - 1) * ChunkSize \in Nat BY <1>1, <2>1
    <2>4. QED BY <1>1, <1>2, <1>4, <2>2, <2>3
  <1>5. QED BY <1>1, <1>2, <1>3, <1>4

\* The cuts go forward, to the end.
LEMMA CutIs ==
  ASSUME NEW p \in Payloads, NEW k \in 0 .. (TotalChunks(p) - 1)
  PROVE  /\ k \in Nat /\ k + 1 \in 1 .. TotalChunks(p)
         /\ Cut(p, k) \in 0 .. Len(p) /\ Cut(p, k + 1) \in 0 .. Len(p)
         /\ Cut(p, 0) = 0 /\ Cut(p, TotalChunks(p)) = Len(p)
         /\ Cut(p, k) <= Cut(p, k + 1)
         /\ Cut(p, k) = Cut(p, k + 1) <=> k + 1 = TotalChunks(p)
         /\ k + 1 = TotalChunks(p) => Cut(p, k) = Len(p)
         /\ k * ChunkSize <= Len(p) => Cut(p, k) = k * ChunkSize
         /\ k * ChunkSize > Len(p) => Cut(p, k) = Len(p) /\ Cut(p, k + 1) = Len(p)
  <1>1. PICK t \in Nat, n \in Nat, c \in Nat :
          /\ t = TotalChunks(p) /\ t # 0 /\ n = Len(p) /\ c = ChunkSize /\ c # 0
          /\ n <= (t - 1) * c
          /\ \A j \in Nat : j < t - 1 => j * c < n
    BY TotalIs, ChunkAssumption
  <1>2. k \in Nat /\ k < t BY <1>1
  <1>3. PICK a \in Nat, b \in Nat, z \in Nat :
          a = k * c /\ b = a + c /\ b = (k + 1) * c /\ z = t * c
    <2>1. PICK a \in Nat : a = k * c BY <1>1, <1>2
    <2>2. PICK z \in Nat : z = t * c BY <1>1
    <2>3. (k + 1) * c = a + c BY <1>1, <1>2, <2>1
    <2>4. a + c \in Nat BY <1>1, <2>1
    <2>5. QED BY <2>1, <2>2, <2>3, <2>4
  <1>4. 0 * c = 0 /\ n <= z
    <2>1. z = (t - 1) * c + c BY <1>1, <1>3
    <2>2. (t - 1) * c \in Nat BY <1>1
    <2>3. QED BY <1>1, <2>1, <2>2
  <1>5. /\ Cut(p, k) = IF a < n THEN a ELSE n
        /\ Cut(p, k + 1) = IF b < n THEN b ELSE n
        /\ Cut(p, 0) = IF 0 < n THEN 0 ELSE n
        /\ Cut(p, t) = IF z < n THEN z ELSE n
    BY <1>1, <1>3, <1>4 DEF Cut
  <1>6. k + 1 = t => n <= a BY <1>1, <1>2, <1>3
  <1>7. k + 1 # t => a < n BY <1>1, <1>2, <1>3
  <1>8. /\ Cut(p, k) \in 0 .. n /\ Cut(p, k + 1) \in 0 .. n
        /\ Cut(p, 0) = 0 /\ Cut(p, t) = n
        /\ Cut(p, k) <= Cut(p, k + 1)
    BY <1>1, <1>3, <1>4, <1>5
  <1>9. Cut(p, k) = Cut(p, k + 1) <=> k + 1 = t BY <1>1, <1>3, <1>5, <1>6, <1>7
  <1>10. /\ k + 1 = t => Cut(p, k) = n
         /\ a <= n => Cut(p, k) = a
         /\ a > n => Cut(p, k) = n /\ Cut(p, k + 1) = n
    BY <1>1, <1>3, <1>5, <1>6
  <1>11. k \in Nat /\ k + 1 \in 1 .. t BY <1>1, <1>2
  <1>12. QED BY <1>1, <1>3, <1>8, <1>9, <1>10, <1>11

\* The data of a chunk.
LEMMA ChunkIs ==
  ASSUME NEW p \in Payloads, NEW k \in 0 .. (TotalChunks(p) - 1)
  PROVE  /\ ChunkData(p, k + 1) \in Seq(Tokens(p))
         /\ Len(ChunkData(p, k + 1)) = Cut(p, k + 1) - Cut(p, k)
         /\ \A m \in 1 .. Len(ChunkData(p, k + 1)) :
              ChunkData(p, k + 1)[m] = Data(p[Cut(p, k) + m])
  <1>1. PICK a, n, from, to : /\ a = k * ChunkSize /\ n = Len(p)
                              /\ from = Cut(p, k) /\ to = Cut(p, k + 1)
    OBVIOUS
  <1>2. /\ k \in Nat /\ a \in Nat /\ n \in Nat /\ from \in 0 .. n /\ to \in 0 .. n
        /\ from <= to
        /\ a <= n => from = a
        /\ a > n => from = n /\ to = n
    BY <1>1, CutIs, TotalIs, ChunkAssumption
  <1>3. p \in Seq(Nat) BY ChunkAssumption
  <1>4. PICK s : s = SubSeq(p, a + 1, to) OBVIOUS
  <1>5. /\ s \in Seq(Nat) /\ Len(s) = to - from
        /\ \A m \in 1 .. Len(s) : s[m] = p[from + m]
    <2>1. \A i \in (a + 1) .. to : p[i] \in Nat BY <1>1, <1>2, <1>3
    <2>2. /\ SubSeq(p, a + 1, to) \in Seq(Nat)
          /\ Len(SubSeq(p, a + 1, to)) = IF a + 1 <= to THEN to - (a + 1) + 1 ELSE 0
          /\ \A i \in 1 .. (to - (a + 1) + 1) : SubSeq(p, a + 1, to)[i] = p[(a + 1) + i - 1]
      BY <1>2, <2>1, SubSeqProperties
    <2>3. s \in Seq(Nat) /\ Len(s) = to - from BY <1>2, <1>4, <2>2
    <2>4. ASSUME NEW m \in 1 .. Len(s) PROVE s[m] = p[from + m]
      <3>1. m \in 1 .. (to - (a + 1) + 1) /\ (a + 1) + m - 1 = from + m BY <1>2, <2>3, <2>4
      <3>2. QED BY <1>4, <2>2, <3>1
    <2>5. QED BY <2>3, <2>4
  <1>6. k + 1 - 1 = k /\ (k + 1 - 1) * ChunkSize + 1 = a + 1 BY <1>1, <1>2
  <1>7. ChunkData(p, k + 1) = Bytes(s)
    <2>1. to = IF (k + 1) * ChunkSize < Len(p) THEN (k + 1) * ChunkSize ELSE Len(p) BY <1>1 DEF Cut
    <2>2. QED BY <1>4, <1>6, <2>1 DEF ChunkData
  <1>8. PICK d : d = [i \in 1 .. Len(s) |-> Data(s[i])] OBVIOUS
  <1>9. ChunkData(p, k + 1) = d BY <1>7, <1>8 DEF Bytes
  <1>10. \A b \in Nat : Data(b) \in Tokens(p)
    <2>1. TotalChunks(p) \in Nat BY TotalIs
    <2>2. 0 \in 0 .. TotalChunks(p) BY <2>1
    <2>3. First(p, 0) = << >> BY DEF First
    <2>4. << >> \in {First(p, i) : i \in 0 .. TotalChunks(p)} BY <2>2, <2>3
    <2>5. QED BY <2>4 DEF Data, Tokens
  <1>11. Len(s) \in Nat /\ \A i \in 1 .. Len(s) : s[i] \in Nat BY <1>5
  <1>12. d \in Seq(Tokens(p)) /\ Len(d) = Len(s) BY <1>8, <1>10, <1>11
  <1>13. \A m \in 1 .. Len(d) : d[m] = Data(p[from + m]) BY <1>5, <1>8, <1>12
  <1>14. QED BY <1>1, <1>5, <1>9, <1>12, <1>13

\* The data of the first chunks is a sequence of sequences, one for each chunk.
LEMMA FirstIs ==
  ASSUME NEW p \in Payloads, NEW k \in 0 .. TotalChunks(p)
  PROVE  First(p, k) \in Seq(Seq(Tokens(p))) /\ Len(First(p, k)) = k
  <1>1. k \in Nat BY TotalIs
  <1>2. ASSUME NEW j \in 1 .. k PROVE ChunkData(p, j) \in Seq(Tokens(p))
    <2>1. PICK i \in 0 .. (TotalChunks(p) - 1) : j = i + 1
      <3>1. j - 1 \in 0 .. (TotalChunks(p) - 1) /\ j = (j - 1) + 1 BY <1>1, TotalIs
      <3>2. QED BY <3>1
    <2>2. QED BY <2>1, ChunkIs
  <1>3. QED BY <1>1, <1>2 DEF First

\* A chunk more.
LEMMA FirstAppend ==
  ASSUME NEW p \in Payloads, NEW k \in 0 .. (TotalChunks(p) - 1)
  PROVE  First(p, k + 1) = Append(First(p, k), ChunkData(p, k + 1))
  <1>1. k \in Nat /\ k + 1 \in 0 .. TotalChunks(p) /\ k \in 0 .. TotalChunks(p) BY TotalIs
  <1>2. PICK S, d : /\ S = Seq(Tokens(p)) /\ d = ChunkData(p, k + 1) /\ d \in S BY ChunkIs
  <1>3. /\ First(p, k) \in Seq(S) /\ Len(First(p, k)) = k
        /\ First(p, k + 1) \in Seq(S) /\ Len(First(p, k + 1)) = k + 1
    BY <1>1, <1>2, FirstIs
  <1>4. /\ \A j \in 1 .. k : First(p, k + 1)[j] = First(p, k)[j]
        /\ First(p, k + 1)[k + 1] = d
    BY <1>1, <1>2 DEF First
  <1>5. PICK a, b : a = First(p, k) /\ b = First(p, k + 1) OBVIOUS
  <1>6. /\ Append(a, d) \in Seq(S) /\ Len(Append(a, d)) = k + 1
        /\ \A j \in 1 .. k : Append(a, d)[j] = a[j]
        /\ Append(a, d)[k + 1] = d
    BY <1>2, <1>3, <1>5, AppendProperties
  <1>7. PICK c : c = Append(a, d) OBVIOUS
  <1>8. b = c
    <2>1. \A j \in 1 .. Len(b) : b[j] = c[j] BY <1>1, <1>3, <1>4, <1>5, <1>6, <1>7
    <2>2. QED BY <1>3, <1>5, <1>6, <1>7, <2>1, SeqEqual
  <1>9. QED BY <1>2, <1>5, <1>7, <1>8

\* Every byte is a token.
LEMMA BytesAre ==
  ASSUME NEW p \in Payloads
  PROVE  /\ Bytes(p) \in Seq(Tokens(p)) /\ Len(Bytes(p)) = Len(p)
         /\ \A i \in 1 .. Len(p) : Bytes(p)[i] = Data(p[i])
  <1>1. TotalChunks(p) \in Nat /\ Len(p) \in Nat BY TotalIs
  <1>2. 0 \in 0 .. TotalChunks(p) /\ First(p, 0) = << >> BY <1>1 DEF First
  <1>3. << >> \in {First(p, i) : i \in 0 .. TotalChunks(p)} BY <1>2
  <1>4. \A b \in Nat : Data(b) \in Tokens(p) BY <1>3 DEF Data, Tokens
  <1>5. p \in Seq(Nat) BY ChunkAssumption
  <1>6. QED BY <1>1, <1>4, <1>5 DEF Bytes

\* The data of the first chunks is the beginning of the data.
LEMMA VerifiedIs ==
  ASSUME NEW p \in Payloads
  PROVE  \A k \in 0 .. TotalChunks(p) :
           FlattenSeq(First(p, k)) = SubSeq(Bytes(p), 1, Cut(p, k))
  <1> DEFINE T == {k \in Nat : k <= TotalChunks(p) =>
                     FlattenSeq(First(p, k)) = SubSeq(Bytes(p), 1, Cut(p, k))}
  <1>1. TotalChunks(p) \in Nat \ {0} /\ Len(p) \in Nat BY TotalIs
  <1>2. 0 \in T
    <2>1. First(p, 0) = << >> BY DEF First
    <2>2. FlattenSeq(First(p, 0)) = << >> BY <2>1 DEF FlattenSeq
    <2>3. Cut(p, 0) = 0
      <3>1. 0 \in 0 .. (TotalChunks(p) - 1) BY <1>1
      <3>2. QED BY <3>1, CutIs
    <2>4. SubSeq(Bytes(p), 1, 0) = << >> BY SubSeqEmpty
    <2>5. FlattenSeq(First(p, 0)) = SubSeq(Bytes(p), 1, Cut(p, 0)) BY <2>2, <2>3, <2>4
    <2>6. QED BY <2>5
  <1>3. ASSUME NEW k \in Nat, k \in T PROVE k + 1 \in T
    <2> SUFFICES ASSUME k + 1 <= TotalChunks(p)
                 PROVE  FlattenSeq(First(p, k + 1)) = SubSeq(Bytes(p), 1, Cut(p, k + 1))
      BY <1>3
    <2>1. k \in 0 .. (TotalChunks(p) - 1) /\ k \in 0 .. TotalChunks(p) /\ k + 1 \in 0 .. TotalChunks(p)
      BY <1>1
    <2>2. PICK S, a, d, b, w : /\ S = Tokens(p) /\ a = First(p, k) /\ d = ChunkData(p, k + 1)
                               /\ b = First(p, k + 1) /\ w = Bytes(p)
      OBVIOUS
    <2>3. /\ d \in Seq(S) /\ a \in Seq(Seq(S)) /\ b \in Seq(Seq(S)) /\ Len(a) = k /\ Len(b) = k + 1
          /\ b = Append(a, d)
      BY <2>1, <2>2, FirstIs, FirstAppend, ChunkIs
    <2>4. (\A i \in 1 .. Len(a) : b[i] = a[i]) /\ b[Len(a) + 1] = d BY <2>3, AppendProperties
    <2>5. FlattenSeq(b) = FlattenSeq(a) \o d BY <2>3, <2>4, FlattenAppend
    <2>6. PICK from, to : from = Cut(p, k) /\ to = Cut(p, k + 1) OBVIOUS
    <2>7. FlattenSeq(a) = SubSeq(w, 1, from) BY <1>3, <2>1, <2>2, <2>6
    <2>8. /\ from \in 0 .. Len(p) /\ to \in 0 .. Len(p) /\ from <= to
      BY <2>1, <2>6, CutIs
    <2>9. /\ w \in Seq(S) /\ Len(w) = Len(p) /\ \A i \in 1 .. Len(p) : w[i] = Data(p[i])
      BY <2>2, BytesAre
    <2>10. d = SubSeq(w, from + 1, to)
      <3>1. PICK s : s = SubSeq(w, from + 1, to) OBVIOUS
      <3>2. /\ s \in Seq(S) /\ Len(s) = to - from
            /\ \A i \in 1 .. (to - from) : s[i] = w[from + i]
        <4>1. \A i \in (from + 1) .. to : w[i] \in S BY <1>1, <2>8, <2>9, ElementOfSeq
        <4>2. /\ SubSeq(w, from + 1, to) \in Seq(S)
              /\ Len(SubSeq(w, from + 1, to)) = IF from + 1 <= to THEN to - (from + 1) + 1 ELSE 0
              /\ \A i \in 1 .. (to - (from + 1) + 1) : SubSeq(w, from + 1, to)[i] = w[(from + 1) + i - 1]
          BY <1>1, <2>8, <4>1, SubSeqProperties
        <4>3. QED BY <1>1, <2>8, <3>1, <4>2
      <3>3. Len(d) = to - from /\ \A m \in 1 .. Len(d) : d[m] = Data(p[from + m])
        <4>1. /\ Len(ChunkData(p, k + 1)) = Cut(p, k + 1) - Cut(p, k)
              /\ \A m \in 1 .. Len(ChunkData(p, k + 1)) :
                   ChunkData(p, k + 1)[m] = Data(p[Cut(p, k) + m])
          BY <2>1, ChunkIs
        <4>2. d = ChunkData(p, k + 1) /\ from = Cut(p, k) /\ to = Cut(p, k + 1) BY <2>2, <2>6
        <4>3. QED BY <4>1, <4>2, Zenon
      <3>4. \A m \in 1 .. Len(d) : d[m] = s[m]
        <4> SUFFICES ASSUME NEW m \in 1 .. Len(d) PROVE d[m] = s[m]
          OBVIOUS
        <4>1. m \in 1 .. (to - from) /\ from + m \in 1 .. Len(p) BY <1>1, <2>8, <3>3
        <4>2. d[m] = Data(p[from + m]) BY <3>3
        <4>3. s[m] = w[from + m] /\ w[from + m] = Data(p[from + m]) BY <2>9, <3>2, <4>1
        <4>4. QED BY <4>2, <4>3
      <3>5. d = s BY <2>3, <3>2, <3>3, <3>4, SeqEqual
      <3>6. QED BY <3>1, <3>5
    <2>11. SubSeq(w, 1, from) \o SubSeq(w, from + 1, to) = SubSeq(w, 1, to)
      BY <1>1, <2>8, <2>9, ConcatAdjacentSubSeq
    <2>12. QED BY <2>2, <2>5, <2>6, <2>7, <2>10, <2>11
  <1> HIDE DEF T
  <1>4. Nat \subseteq T BY <1>2, <1>3, SetInduction
  <1>5. ASSUME NEW k \in 0 .. TotalChunks(p) PROVE k \in T /\ k <= TotalChunks(p) BY <1>1, <1>4
  <1>6. QED BY <1>5 DEF T

(***************************************************************************)
(* Signed chunks: what is sent, token by token                             *)
(***************************************************************************)

\* The tokens of a chunk: its header, its data and the line end.
LEMMA SignChunkIs ==
  ASSUME NEW p \in Payloads, NEW k \in 0 .. (TotalChunks(p) - 1)
  PROVE  /\ SignChunk(p, k + 1) \in Seq(Tokens(p))
         /\ Len(SignChunk(p, k + 1)) = Cut(p, k + 1) - Cut(p, k) + 2
         /\ SignChunk(p, k + 1)[1] = Header(Cut(p, k + 1) - Cut(p, k), First(p, k + 1))
         /\ \A m \in 1 .. (Cut(p, k + 1) - Cut(p, k)) :
              SignChunk(p, k + 1)[m + 1] = ChunkData(p, k + 1)[m]
         /\ SignChunk(p, k + 1)[Cut(p, k + 1) - Cut(p, k) + 2] = CRLF
  <1>1. PICK n, d : n = Cut(p, k + 1) - Cut(p, k) /\ d = ChunkData(p, k + 1) OBVIOUS
  <1>2. /\ k \in Nat /\ k + 1 \in 1 .. TotalChunks(p) /\ n \in Nat
        /\ TotalChunks(p) \in Nat /\ Len(p) \in Nat
    <2>1. TotalChunks(p) \in Nat /\ Len(p) \in Nat BY TotalIs
    <2>2. /\ k \in Nat /\ k + 1 \in 1 .. TotalChunks(p)
          /\ Cut(p, k) \in 0 .. Len(p) /\ Cut(p, k + 1) \in 0 .. Len(p)
          /\ Cut(p, k) <= Cut(p, k + 1)
      BY CutIs
    <2>3. QED BY <1>1, <2>1, <2>2
  <1>3. d \in Seq(Tokens(p)) /\ Len(d) = n
    <2>1. /\ ChunkData(p, k + 1) \in Seq(Tokens(p))
          /\ Len(ChunkData(p, k + 1)) = Cut(p, k + 1) - Cut(p, k)
      BY ChunkIs
    <2>2. QED BY <1>1, <2>1
  <1>4. PICK h, z : h = Header(n, First(p, k + 1)) /\ z = CRLF OBVIOUS
  <1>5. h \in Tokens(p) /\ z \in Tokens(p)
    <2>1. First(p, k + 1) \in {First(p, i) : i \in 0 .. TotalChunks(p)} BY <1>2
    <2>2. << >> \in {First(p, i) : i \in 0 .. TotalChunks(p)}
      <3>1. First(p, 0) = << >> BY DEF First
      <3>2. QED BY <1>2, <3>1
    <2>3. h \in Tokens(p) BY <1>2, <1>4, <2>1 DEF Header, Tokens
    <2>4. z \in Tokens(p) BY <1>4, <2>2 DEF CRLF, Tokens
    <2>5. QED BY <2>3, <2>4
  <1>6. SignChunk(p, k + 1) = <<h>> \o d \o <<z>> BY <1>1, <1>3, <1>4 DEF SignChunk, First
  <1>7. PICK S : S = Tokens(p) OBVIOUS
  <1>8. PICK a, c, e : a = <<h>> /\ c = <<z>> /\ e = a \o d OBVIOUS
  <1>9. a \in Seq(S) /\ Len(a) = 1 /\ a[1] = h /\ c \in Seq(S) /\ Len(c) = 1 /\ c[1] = z
    BY <1>5, <1>7, <1>8
  <1>10. /\ e \in Seq(S) /\ Len(e) = 1 + n
         /\ e[1] = h /\ \A m \in 1 .. n : e[m + 1] = d[m]
    <2>1. /\ a \o d \in Seq(S) /\ Len(a \o d) = Len(a) + Len(d)
          /\ \A i \in 1 .. (Len(a) + Len(d)) :
               (a \o d)[i] = IF i <= Len(a) THEN a[i] ELSE d[i - Len(a)]
      BY <1>3, <1>7, <1>9, ConcatProperties
    <2>2. QED BY <1>2, <1>3, <1>8, <1>9, <2>1
  <1>11. PICK f : f = e \o c OBVIOUS
  <1>12. /\ f \in Seq(S) /\ Len(f) = n + 2
         /\ f[1] = h /\ f[n + 2] = z
         /\ \A m \in 1 .. n : f[m + 1] = d[m]
    <2>1. /\ e \o c \in Seq(S) /\ Len(e \o c) = Len(e) + Len(c)
          /\ \A i \in 1 .. (Len(e) + Len(c)) :
               (e \o c)[i] = IF i <= Len(e) THEN e[i] ELSE c[i - Len(e)]
      BY <1>9, <1>10, ConcatProperties
    <2>2. QED BY <1>2, <1>9, <1>10, <1>11, <2>1
  <1>13. SignChunk(p, k + 1) = f BY <1>6, <1>8, <1>11
  <1>14. QED BY <1>1, <1>4, <1>7, <1>12, <1>13

\* Chunks follow each other.
LEMMA PlaceIs ==
  ASSUME NEW p \in Payloads, NEW k \in 0 .. (TotalChunks(p) - 1)
  PROVE  /\ Place(p, k) \in Nat /\ Place(p, k + 1) \in Nat /\ Place(p, 0) = 0
         /\ Place(p, k + 1) = Place(p, k) + Len(SignChunk(p, k + 1))
         /\ Place(p, k + 1) = Place(p, k) + (Cut(p, k + 1) - Cut(p, k)) + 2
  <1>1. TotalChunks(p) \in Nat /\ Len(p) \in Nat BY TotalIs
  <1>2. /\ k \in Nat /\ Cut(p, k) \in 0 .. Len(p) /\ Cut(p, k + 1) \in 0 .. Len(p)
        /\ Cut(p, 0) = 0
    BY CutIs
  <1>3. Len(SignChunk(p, k + 1)) = Cut(p, k + 1) - Cut(p, k) + 2 BY SignChunkIs
  <1>4. QED BY <1>1, <1>2, <1>3 DEF Place

\* Where the tokens are.
LEMMA FirstSignedIs ==
  ASSUME NEW p \in Payloads
  PROVE  \A k \in 0 .. TotalChunks(p) :
           /\ FirstSigned(p, k) \in Seq(Tokens(p)) /\ Len(FirstSigned(p, k)) = Place(p, k)
           /\ \A j \in 0 .. (k - 1) : \A m \in 1 .. Len(SignChunk(p, j + 1)) :
                FirstSigned(p, k)[Place(p, j) + m] = SignChunk(p, j + 1)[m]
  <1> DEFINE Holds(k) ==
               /\ FirstSigned(p, k) \in Seq(Tokens(p)) /\ Len(FirstSigned(p, k)) = Place(p, k)
               /\ \A j \in 0 .. (k - 1) : \A m \in 1 .. Len(SignChunk(p, j + 1)) :
                    FirstSigned(p, k)[Place(p, j) + m] = SignChunk(p, j + 1)[m]
             T == {k \in Nat : k <= TotalChunks(p) => Holds(k)}
  <1>1. TotalChunks(p) \in Nat \ {0} BY TotalIs
  <1>2. 0 \in T
    <2>1. [i \in 1 .. 0 |-> SignChunk(p, i)] = << >> OBVIOUS
    <2>2. FirstSigned(p, 0) = << >> BY <2>1 DEF FirstSigned, FlattenSeq
    <2>3. Place(p, 0) = 0
      <3>1. 0 \in 0 .. (TotalChunks(p) - 1) BY <1>1
      <3>2. QED BY <3>1, PlaceIs
    <2>4. << >> \in Seq(Tokens(p)) /\ Len(<< >>) = 0 OBVIOUS
    <2>5. \A j \in 0 .. (0 - 1) : FALSE OBVIOUS
    <2>6. FirstSigned(p, 0) \in Seq(Tokens(p)) /\ Len(FirstSigned(p, 0)) = Place(p, 0)
      BY <2>2, <2>3, <2>4
    <2>7. Holds(0) BY <2>5, <2>6
    <2>8. QED BY <2>7
  <1>3. ASSUME NEW k \in Nat, k \in T PROVE k + 1 \in T
    <2> SUFFICES ASSUME k + 1 <= TotalChunks(p) PROVE Holds(k + 1)
      OBVIOUS
    <2>1. k \in 0 .. (TotalChunks(p) - 1) /\ k <= TotalChunks(p) BY <1>1
    <2>2. Holds(k) BY <1>3, <2>1
    <2>3. PICK S, a, b, x, w :
            /\ S = Tokens(p) /\ x = SignChunk(p, k + 1) /\ w = FirstSigned(p, k)
            /\ a = [i \in 1 .. k |-> SignChunk(p, i)]
            /\ b = [i \in 1 .. (k + 1) |-> SignChunk(p, i)]
      OBVIOUS
    <2>4. x \in Seq(S) BY <2>1, <2>3, SignChunkIs
    <2>5. ASSUME NEW i \in 1 .. (k + 1) PROVE SignChunk(p, i) \in Seq(S)
      <3>1. i - 1 \in 0 .. (TotalChunks(p) - 1) /\ i = (i - 1) + 1 BY <1>1
      <3>2. SignChunk(p, (i - 1) + 1) \in Seq(Tokens(p)) BY <3>1, SignChunkIs
      <3>3. QED BY <2>3, <3>1, <3>2
    <2>6. /\ a \in Seq(Seq(S)) /\ b \in Seq(Seq(S)) /\ Len(a) = k /\ Len(b) = k + 1
          /\ \A i \in 1 .. k : b[i] = a[i]
          /\ b[k + 1] = x
      BY <2>3, <2>5
    <2>7. FlattenSeq(b) = FlattenSeq(a) \o x BY <2>4, <2>6, FlattenAppend
    <2>8. PICK v : v = FirstSigned(p, k + 1) /\ v = w \o x BY <2>3, <2>7 DEF FirstSigned
    <2>9. w \in Seq(S) /\ Len(w) = Place(p, k) BY <2>2, <2>3
    <2>10. /\ v \in Seq(S) /\ Len(v) = Len(w) + Len(x)
           /\ \A i \in 1 .. (Len(w) + Len(x)) : v[i] = IF i <= Len(w) THEN w[i] ELSE x[i - Len(w)]
      BY <2>4, <2>8, <2>9, ConcatProperties
    <2>11. Len(v) = Place(p, k + 1) BY <2>1, <2>3, <2>9, <2>10, PlaceIs
    <2>12. ASSUME NEW j \in 0 .. k, NEW m \in 1 .. Len(SignChunk(p, j + 1))
           PROVE  v[Place(p, j) + m] = SignChunk(p, j + 1)[m]
      <3>1. CASE j = k
        <4>1. PICK o \in Nat : o = Place(p, k) /\ Len(w) = o BY <2>1, <2>9, PlaceIs
        <4>2. m \in 1 .. Len(x) /\ Len(x) \in Nat BY <2>3, <2>4, <3>1
        <4>3. v[o + m] = x[(o + m) - o]
          <5>1. o + m \in 1 .. (Len(w) + Len(x)) /\ ~(o + m <= Len(w)) BY <4>1, <4>2
          <5>2. QED BY <2>10, <4>1, <5>1
        <4>4. (o + m) - o = m BY <4>1, <4>2
        <4>5. QED BY <2>3, <3>1, <4>1, <4>3, <4>4
      <3>2. CASE j # k
        <4>1. j \in 0 .. (k - 1) BY <3>2
        <4>2. w[Place(p, j) + m] = SignChunk(p, j + 1)[m] BY <2>2, <2>3, <4>1
        <4>3. Place(p, j) \in Nat /\ Place(p, j + 1) = Place(p, j) + Len(SignChunk(p, j + 1))
          BY <1>1, <2>1, PlaceIs
        <4>4. Place(p, j + 1) <= Place(p, k)
          <5>1. TotalChunks(p) \in Nat /\ Len(p) \in Nat BY TotalIs
          <5>2. Cut(p, j + 1) <= Cut(p, k) /\ Cut(p, j + 1) \in Nat /\ Cut(p, k) \in Nat
            <6>1. ChunkSize \in Nat BY ChunkAssumption
            <6>2. (j + 1) * ChunkSize <= k * ChunkSize BY <2>1, <4>1, <6>1, ProductsGrow
            <6>3. PICK y \in Nat, z \in Nat : y = (j + 1) * ChunkSize /\ z = k * ChunkSize BY <6>1
            <6>4. QED BY <5>1, <6>2, <6>3 DEF Cut
          <5>3. QED BY <4>1, <5>2 DEF Place
        <4>5. PICK o \in Nat, n \in Nat, y \in Nat :
                o = Place(p, j) /\ n = Len(SignChunk(p, j + 1)) /\ y = Len(w) /\ y = Place(p, k)
          <5>1. Len(SignChunk(p, j + 1)) \in Nat BY <1>1, <2>1, SignChunkIs, LenProperties
          <5>2. QED BY <2>9, <4>3, <5>1, LenProperties
        <4>6. o + n <= y BY <4>3, <4>4, <4>5
        <4>7. o + m \in 1 .. Len(w) BY <4>5, <4>6
        <4>8. Len(x) \in Nat BY <2>4
        <4>9. v[o + m] = w[o + m] BY <2>10, <4>5, <4>7, <4>8
        <4>10. QED BY <4>2, <4>5, <4>9
      <3>3. QED BY <3>1, <3>2
    <2>13. QED BY <2>3, <2>8, <2>10, <2>11, <2>12
  <1> HIDE DEF T
  <1>4. Nat \subseteq T BY <1>2, <1>3, SetInduction
  <1>5. ASSUME NEW k \in 0 .. TotalChunks(p) PROVE Holds(k)
    <2>1. k \in T /\ k <= TotalChunks(p) BY <1>1, <1>4
    <2>2. QED BY <2>1 DEF T
  <1>6. QED BY <1>5

\* Everything is sent.
LEMMA SentIs ==
  ASSUME NEW p \in Payloads
  PROVE  /\ Sent(p) = Stream(p) /\ Stream(p) = FirstSigned(p, TotalChunks(p))
         /\ Stream(p) \in Seq(Tokens(p)) /\ Len(Stream(p)) = Len(p) + 2 * TotalChunks(p)
  <1>1. Stream(p) = FirstSigned(p, TotalChunks(p)) BY DEF Stream, FirstSigned
  <1>2. PICK t \in Nat \ {0}, n \in Nat : t = TotalChunks(p) /\ n = Len(p) BY TotalIs
  <1>3. Stream(p) \in Seq(Tokens(p)) /\ Len(Stream(p)) = n + 2 * t
    <2>1. t \in 0 .. TotalChunks(p) /\ t - 1 \in 0 .. (TotalChunks(p) - 1) BY <1>2
    <2>2. FirstSigned(p, t) \in Seq(Tokens(p)) /\ Len(FirstSigned(p, t)) = Place(p, t)
      BY <2>1, FirstSignedIs
    <2>3. Cut(p, TotalChunks(p)) = Len(p) BY <2>1, CutIs
    <2>4. QED BY <1>1, <1>2, <2>2, <2>3 DEF Place
  <1>4. GetStreamLength(p) = IF n = 0 THEN 0 ELSE n + 2 * t
    <2>1. PICK c \in Nat \ {0} : c = ChunkSize BY ChunkAssumption
    <2>2. PICK q \in Nat, r \in 0 .. (c - 1) : n \div c = q /\ n % c = r /\ n = q * c + r
      BY Division
    <2>3. GetStreamLength(p) =
            IF n = 0 THEN 0 ELSE q * (c + 2) + (IF r > 0 THEN r + 2 ELSE 0) + 2
      BY <1>2, <2>1, <2>2 DEF GetStreamLength
    <2>4. PICK x \in Nat : x = q * c /\ q * (c + 2) = x + 2 * q
      <3>1. q * c \in Nat BY <2>1
      <3>2. q * (c + 2) = q * c + 2 * q BY <2>1
      <3>3. QED BY <3>1, <3>2
    <2>5. /\ n <= (t - 1) * c
          /\ \A k \in Nat : k < t - 1 => k * c < n
      BY <1>2, <2>1, TotalIs
    <2>6. CASE r = 0
      <3>1. ~(q < t - 1) BY <2>2, <2>4, <2>5, <2>6
      <3>2. ASSUME q > t - 1 PROVE FALSE
        <4>1. t * c <= q * c BY <1>2, <2>1, <3>2, ProductsGrow
        <4>2. t * c = (t - 1) * c + c BY <1>2, <2>1
        <4>3. (t - 1) * c \in Nat BY <1>2, <2>1
        <4>4. QED BY <2>1, <2>2, <2>4, <2>5, <2>6, <4>1, <4>2, <4>3
      <3>3. t = q + 1 BY <1>2, <3>1, <3>2
      <3>4. QED BY <2>2, <2>3, <2>4, <2>6, <3>3
    <2>7. CASE r # 0
      <3>1. (q + 1) * c = x + c BY <2>1, <2>4
      <3>2. ~(q + 1 < t - 1)
        <4>1. q + 1 < t - 1 => (q + 1) * c < n BY <2>5
        <4>2. QED BY <2>1, <2>2, <2>4, <3>1, <4>1
      <3>3. ASSUME q >= t - 1 PROVE FALSE
        <4>1. t - 1 \in Nat BY <1>2
        <4>2. (t - 1) * c <= q * c BY <2>1, <3>3, <4>1, ProductsGrow
        <4>3. (t - 1) * c \in Nat BY <2>1, <4>1
        <4>4. QED BY <2>2, <2>4, <2>5, <2>7, <4>2, <4>3
      <3>4. t = q + 2 BY <1>2, <3>2, <3>3
      <3>5. QED BY <2>2, <2>3, <2>4, <2>7, <3>4
    <2>8. QED BY <2>6, <2>7
  <1>5. Sent(p) = Stream(p)
    <2>1. SubSeq(Stream(p), 1, Len(Stream(p))) = Stream(p) BY <1>3, SubSeqFull
    <2>2. n # 0 => GetStreamLength(p) = Len(Stream(p)) BY <1>3, <1>4
    <2>3. QED BY <1>2, <1>4, <2>1, <2>2 DEF Sent
  <1>6. QED BY <1>1, <1>2, <1>3, <1>5

\* A change leaves a sequence of tokens.
LEMMA ChangedFits ==
  ASSUME NEW p \in Payloads, NEW s \in Seq(Tokens(p)), NEW b \in Changed(s)
  PROVE  b \in Seq(Tokens(p))
  <1>1. PICK S, X : S = Tokens(p) /\ X = {First(p, k) : k \in 0 .. TotalChunks(p)} OBVIOUS
  <1>2. S = [kind : {"header", "data", "crlf"}, byte : Nat, size : Nat, sig : X] BY <1>1 DEF Tokens
  <1>3. s \in Seq(S) /\ Len(s) \in Nat /\ \A i \in 1 .. Len(s) : s[i] \in S BY <1>1
  <1>4. CASE \E i \in 1 .. Len(s), j \in 1 .. Len(s) : b = Without(s, i, j)
    <2>1. PICK i \in 1 .. Len(s), j \in 1 .. Len(s) :
            b = SubSeq(s, 1, i - 1) \o SubSeq(s, j + 1, Len(s))
      BY <1>4 DEF Without
    <2>2. SubSeq(s, 1, i - 1) \in Seq(S) BY <1>3, SubSeqProperties
    <2>3. SubSeq(s, j + 1, Len(s)) \in Seq(S) BY <1>3, SubSeqProperties
    <2>4. b \in Seq(S) BY <2>1, <2>2, <2>3, ConcatProperties
    <2>5. QED BY <1>1, <2>4
  <1>5. CASE \E i \in (1 .. Len(s)) \ {Len(s)} : b = Swapped(s, i)
    <2>1. PICK i \in (1 .. Len(s)) \ {Len(s)} : b = [s EXCEPT ![i] = s[i + 1], ![i + 1] = s[i]]
      BY <1>5 DEF Swapped
    <2>2. i \in 1 .. Len(s) /\ i + 1 \in 1 .. Len(s) BY <1>3
    <2>3. PICK x \in S, y \in S : x = s[i] /\ y = s[i + 1] BY <1>3, <2>2
    <2>4. b = [[s EXCEPT ![i] = y] EXCEPT ![i + 1] = x] BY <2>1, <2>3
    <2>5. PICK u : u = [s EXCEPT ![i] = y] OBVIOUS
    <2>6. u \in Seq(S) /\ Len(u) = Len(s) BY <1>3, <2>2, <2>3, <2>5, ExceptSeq
    <2>7. [u EXCEPT ![i + 1] = x] \in Seq(S) BY <2>2, <2>3, <2>6, ExceptSeq
    <2>8. QED BY <1>1, <2>4, <2>5, <2>7
  <1>6. ASSUME NEW i \in 1 .. Len(s), NEW x \in S, b = [s EXCEPT ![i] = x]
        PROVE  b \in Seq(Tokens(p))
    <2>1. [s EXCEPT ![i] = x] \in Seq(S) BY <1>3, <1>6, ExceptSeq
    <2>2. QED BY <1>1, <1>6, <2>1
  <1>7. CASE \E i \in 1 .. Len(s) : b = WithByte(s, i, s[i].byte + 1)
    <2>1. PICK i \in 1 .. Len(s) : b = [s EXCEPT ![i].byte = s[i].byte + 1] BY <1>7 DEF WithByte
    <2>2. PICK v \in S : v = s[i] BY <1>3
    <2>3. [v EXCEPT !.byte = v.byte + 1] \in S BY <1>2, <2>2
    <2>4. b = [s EXCEPT ![i] = [v EXCEPT !.byte = v.byte + 1]] BY <2>1, <2>2
    <2>5. QED BY <1>6, <2>3, <2>4
  <1>8. CASE \E i \in 1 .. Len(s), n \in 0 .. 3 : b = WithSize(s, i, n)
    <2>1. PICK i \in 1 .. Len(s), n \in 0 .. 3 : b = [s EXCEPT ![i].size = n] BY <1>8 DEF WithSize
    <2>2. PICK v \in S : v = s[i] BY <1>3
    <2>3. [v EXCEPT !.size = n] \in S BY <1>2, <2>2
    <2>4. b = [s EXCEPT ![i] = [v EXCEPT !.size = n]] BY <2>1, <2>2
    <2>5. QED BY <1>6, <2>3, <2>4
  <1>9. \/ \E i \in 1 .. Len(s), j \in 1 .. Len(s) : b = Without(s, i, j)
        \/ \E i \in (1 .. Len(s)) \ {Len(s)} : b = Swapped(s, i)
        \/ \E i \in 1 .. Len(s) : b = WithByte(s, i, s[i].byte + 1)
        \/ \E i \in 1 .. Len(s), n \in 0 .. 3 : b = WithSize(s, i, n)
    BY DEF Changed
  <1>10. QED BY <1>4, <1>5, <1>7, <1>8, <1>9

\* What is left of what was sent.
Rest(p, o) == SubSeq(Stream(p), o + 1, Len(Stream(p)))

\* What is left after some more was read.
LEMMA RestIs ==
  ASSUME NEW p \in Payloads, NEW o \in Nat, NEW n \in Nat, o + n <= Len(Stream(p))
  PROVE  /\ Len(Rest(p, o)) = Len(Stream(p)) - o
         /\ SubSeq(Rest(p, o), n + 1, Len(Rest(p, o))) = Rest(p, o + n)
         /\ Len(SubSeq(Rest(p, o), 1, n)) = n
         /\ \A m \in 1 .. n : SubSeq(Rest(p, o), 1, n)[m] = Stream(p)[o + m]
  <1>1. PICK s, S, l : /\ s = Stream(p) /\ S = Tokens(p) /\ l = Len(s) /\ s \in Seq(S)
                       /\ l \in Nat /\ o + n <= l
    BY SentIs, LenProperties
  <1>2. \A i \in 1 .. l : s[i] \in S BY <1>1
  <1>3. PICK r : r = SubSeq(s, o + 1, l) OBVIOUS
  <1>4. r \in Seq(S) /\ Len(r) = l - o /\ \A i \in 1 .. (l - o) : r[i] = s[o + i]
    <2>1. \A i \in (o + 1) .. l : s[i] \in S BY <1>2
    <2>2. /\ SubSeq(s, o + 1, l) \in Seq(S)
          /\ Len(SubSeq(s, o + 1, l)) = IF o + 1 <= l THEN l - (o + 1) + 1 ELSE 0
          /\ \A i \in 1 .. (l - (o + 1) + 1) : SubSeq(s, o + 1, l)[i] = s[(o + 1) + i - 1]
      BY <1>1, <2>1, SubSeqProperties
    <2>3. QED BY <1>1, <1>3, <2>2
  <1>5. PICK a, z : a = SubSeq(r, 1, n) /\ z = SubSeq(r, n + 1, l - o) OBVIOUS
  <1>6. a \in Seq(S) /\ Len(a) = n /\ \A i \in 1 .. n : a[i] = s[o + i]
    <2>1. \A i \in 1 .. n : r[i] \in S /\ r[i] = s[o + i] BY <1>1, <1>2, <1>4
    <2>2. /\ SubSeq(r, 1, n) \in Seq(S)
          /\ Len(SubSeq(r, 1, n)) = IF 1 <= n THEN n - 1 + 1 ELSE 0
          /\ \A i \in 1 .. (n - 1 + 1) : SubSeq(r, 1, n)[i] = r[1 + i - 1]
      BY <2>1, SubSeqProperties
    <2>3. QED BY <1>5, <2>1, <2>2
  <1>7. z \in Seq(S) /\ Len(z) = l - (o + n) /\ \A i \in 1 .. (l - (o + n)) : z[i] = s[(o + n) + i]
    <2>1. \A i \in (n + 1) .. (l - o) : r[i] \in S /\ r[i] = s[o + i] BY <1>1, <1>2, <1>4
    <2>2. /\ SubSeq(r, n + 1, l - o) \in Seq(S)
          /\ Len(SubSeq(r, n + 1, l - o)) = IF n + 1 <= l - o THEN (l - o) - (n + 1) + 1 ELSE 0
          /\ \A i \in 1 .. ((l - o) - (n + 1) + 1) :
               SubSeq(r, n + 1, l - o)[i] = r[(n + 1) + i - 1]
      BY <1>1, <2>1, SubSeqProperties
    <2>3. QED BY <1>1, <1>5, <2>1, <2>2
  <1>8. PICK y : y = SubSeq(s, (o + n) + 1, l) OBVIOUS
  <1>9. y \in Seq(S) /\ Len(y) = l - (o + n) /\ \A i \in 1 .. (l - (o + n)) : y[i] = s[(o + n) + i]
    <2>1. \A i \in ((o + n) + 1) .. l : s[i] \in S BY <1>2
    <2>2. /\ SubSeq(s, (o + n) + 1, l) \in Seq(S)
          /\ Len(SubSeq(s, (o + n) + 1, l)) =
               IF (o + n) + 1 <= l THEN l - ((o + n) + 1) + 1 ELSE 0
          /\ \A i \in 1 .. (l - ((o + n) + 1) + 1) :
               SubSeq(s, (o + n) + 1, l)[i] = s[((o + n) + 1) + i - 1]
      BY <1>1, <2>1, SubSeqProperties
    <2>3. y \in Seq(S) /\ Len(y) = l - (o + n) BY <1>1, <1>8, <2>2
    <2>4. ASSUME NEW i \in 1 .. (l - (o + n)) PROVE y[i] = s[(o + n) + i]
      <3>1. i \in 1 .. (l - ((o + n) + 1) + 1) /\ ((o + n) + 1) + i - 1 = (o + n) + i BY <1>1, <2>4
      <3>2. QED BY <1>8, <2>2, <3>1
    <2>5. QED BY <2>3, <2>4
  <1>10. y = z BY <1>7, <1>9, SeqEqual
  <1>11. Rest(p, o) = r /\ Rest(p, o + n) = y BY <1>1, <1>3, <1>8 DEF Rest
  <1>12. QED BY <1>1, <1>4, <1>5, <1>6, <1>10, <1>11

(***************************************************************************)
(* Signed chunks: what the reader hands out                                *)
(*                                                                         *)
(* Of a body that may have been changed: a chunk is verified when its data *)
(* is the next of the client, the end is only reached behind all of them, and *)
(* what was handed out is what is verified and a part of the chunk in progress. *)
(***************************************************************************)

\* The reader: what it verified are first chunks of the client, and the last
\* chunk is without data.
ReaderFits(r, p) ==
  /\ r = [state |-> r.state, n |-> r.n, lastChunk |-> r.lastChunk,
          chunkSignature |-> r.chunkSignature,
          chunkSHA256Writer |-> r.chunkSHA256Writer, seedSignature |-> r.seedSignature]
  /\ r.state \in {"readChunkHeader", "readChunkTrailer", "readChunk", "verifyChunk", "eofChunk"}
  /\ r.n \in Nat
  /\ r.lastChunk \in BOOLEAN
  /\ \E k \in 0 .. TotalChunks(p) : r.chunkSignature = First(p, k)
  /\ \E k \in 0 .. TotalChunks(p) : r.seedSignature = First(p, k)
  /\ r.chunkSHA256Writer \in Seq(Tokens(p))
  /\ r.state = "readChunkHeader" \/ r.lastChunk => r.chunkSHA256Writer = << >>
  /\ r.state \in {"readChunkHeader", "readChunk"} => ~r.lastChunk
  /\ r.state = "eofChunk" =>
       r.chunkSHA256Writer = << >> /\ r.seedSignature = First(p, TotalChunks(p))

\* What was read is what was handed out or will be.
Handed(r) == FlattenSeq(r.seedSignature) \o r.chunkSHA256Writer

\* Of a body that anything may have happened to.
IntegrityInv ==
  /\ payload \in Payloads
  /\ body \in Seq(Tokens(payload))
  /\ ReaderFits(reader, payload)
  /\ call = [room |-> call.room, got |-> call.got]
  /\ call.room \in Nat /\ call.got \in Seq(Tokens(payload))
  /\ delivered \in Seq(Tokens(payload))
  /\ outcome = "open" => delivered \o call.got = Handed(reader)
  /\ outcome # "open" => call = Idle
  /\ IsPrefix(delivered, Handed(reader))
  /\ outcome = "eof" => delivered = Bytes(payload)

\* What is verified is a sequence of tokens, and so is what the reader handed on.
LEMMA HandedIs ==
  ASSUME NEW p \in Payloads, NEW r, ReaderFits(r, p)
  PROVE  /\ FlattenSeq(r.seedSignature) \in Seq(Tokens(p))
         /\ Handed(r) \in Seq(Tokens(p))
         /\ IsPrefix(FlattenSeq(r.seedSignature), Bytes(p))
  <1>1. PICK k \in 0 .. TotalChunks(p) : r.seedSignature = First(p, k) BY DEF ReaderFits
  <1>2. PICK c, w, v, S : /\ c = Cut(p, k) /\ w = Bytes(p) /\ v = FlattenSeq(r.seedSignature)
                          /\ S = Tokens(p)
    OBVIOUS
  <1>3. v = SubSeq(w, 1, c) BY <1>1, <1>2, VerifiedIs
  <1>4. TotalChunks(p) \in Nat \ {0} /\ Len(p) \in Nat BY TotalIs
  <1>5. c \in 0 .. Len(p)
    <2>1. ChunkSize \in Nat BY ChunkAssumption
    <2>2. PICK x \in Nat : x = k * ChunkSize BY <1>4, <2>1
    <2>3. QED BY <1>2, <1>4, <2>2 DEF Cut
  <1>6. w \in Seq(S) /\ Len(w) = Len(p) BY <1>2, BytesAre
  <1>7. v \in Seq(S) /\ Len(v) = c
    <2>1. \A i \in 1 .. c : w[i] \in S BY <1>4, <1>5, <1>6, ElementOfSeq
    <2>2. /\ SubSeq(w, 1, c) \in Seq(S)
          /\ Len(SubSeq(w, 1, c)) = IF 1 <= c THEN c - 1 + 1 ELSE 0
      BY <1>4, <1>5, <2>1, SubSeqProperties
    <2>3. QED BY <1>3, <1>4, <1>5, <2>2
  <1>8. SubSeq(v, 1, Len(v)) = v BY <1>7, SubSeqFull
  <1>9. IsPrefix(v, w) BY <1>3, <1>4, <1>5, <1>6, <1>7, <1>8 DEF IsPrefix
  <1>10. r.chunkSHA256Writer \in Seq(S) BY <1>2 DEF ReaderFits
  <1>11. v \o r.chunkSHA256Writer \in Seq(S) BY <1>7, <1>10, ConcatProperties
  <1>12. QED BY <1>2, <1>7, <1>9, <1>11 DEF Handed

\* A step that keeps going keeps what is handed out behind what was read.
LEMMA OpenFits ==
  ASSUME NEW p \in Payloads, NEW r, ReaderFits(r, p), NEW d \in Seq(Tokens(p)),
         NEW g \in Seq(Tokens(p)), d \o g = Handed(r)
  PROVE  IsPrefix(d, Handed(r))
  BY FirstIsPrefix

\* The signatures that occur are of the first chunks.
LEMMA TokenIs ==
  ASSUME NEW p \in Payloads, NEW t \in Tokens(p)
  PROVE  /\ t = [kind |-> t.kind, byte |-> t.byte, size |-> t.size, sig |-> t.sig]
         /\ t.size \in Nat /\ \E k \in 0 .. TotalChunks(p) : t.sig = First(p, k)
  BY DEF Tokens

\* The initial states have the invariant.
LEMMA IntegrityInit == ChunkInit => IntegrityInv
  <1> SUFFICES ASSUME ChunkInit PROVE IntegrityInv
    OBVIOUS
  <1>1. payload \in Payloads BY DEF ChunkInit
  <1>2. body \in Seq(Tokens(payload))
    <2>1. Sent(payload) \in Seq(Tokens(payload)) BY <1>1, SentIs
    <2>2. body = Sent(payload) \/ body \in Changed(Sent(payload)) BY DEF ChunkInit
    <2>3. QED BY <1>1, <2>1, <2>2, ChangedFits
  <1>3. TotalChunks(payload) \in Nat BY <1>1, TotalIs
  <1>4. First(payload, 0) = << >> BY DEF First
  <1>5. << >> \in Seq(Tokens(payload)) OBVIOUS
  <1>6. ReaderFits(reader, payload)
    <2>1. reader = [state |-> "readChunkHeader", n |-> 0, lastChunk |-> FALSE, chunkSignature |-> <<>>,
                    chunkSHA256Writer |-> <<>>, seedSignature |-> <<>>]
      BY DEF ChunkInit, NewSignV4ChunkedReader
    <2>2. \E k \in 0 .. TotalChunks(payload) : << >> = First(payload, k) BY <1>3, <1>4
    <2>3. QED BY <1>5, <2>1, <2>2 DEF ReaderFits
  <1>7. Handed(reader) = << >>
    <2>1. reader.seedSignature = << >> /\ reader.chunkSHA256Writer = << >>
      BY DEF ChunkInit, NewSignV4ChunkedReader
    <2>2. FlattenSeq(<< >>) = << >> BY DEF FlattenSeq
    <2>3. QED BY <2>1, <2>2, <1>5, ConcatEmptySeq DEF Handed
  <1>8. call = Idle /\ delivered = << >> /\ outcome = "open" BY DEF ChunkInit
  <1>9. << >> \o << >> = << >> BY <1>5, ConcatEmptySeq
  <1>10. IsPrefix(<< >>, << >>) BY DEF IsPrefix
  <1>11. QED BY <1>1, <1>2, <1>5, <1>6, <1>7, <1>8, <1>9, <1>10 DEF IntegrityInv, Idle

\* An error keeps the invariant.
LEMMA HandedSame ==
  ASSUME NEW r, NEW s, r = s
  PROVE  Handed(r) = Handed(s)
  BY DEF Handed

LEMMA FailsKeep ==
  ASSUME IntegrityInv, NEW err \in {"malformed", "unexpected EOF", "signature mismatch"}, Fails(err)
  PROVE  IntegrityInv'
  <1>1. /\ outcome' = err /\ call' = Idle /\ payload' = payload /\ body' = body
        /\ reader' = reader /\ delivered' = delivered
    BY DEF Fails
  <1>2. ReaderFits(reader', payload') BY <1>1 DEF IntegrityInv, ReaderFits
  <1>3. Handed(reader') = Handed(reader) BY <1>1, HandedSame
  <1>4. << >> \in Seq(Tokens(payload')) BY EmptySeq
  <1>5. payload' \in Payloads /\ body' \in Seq(Tokens(payload')) /\ delivered' \in Seq(Tokens(payload'))
    BY <1>1 DEF IntegrityInv
  <1>6. IsPrefix(delivered', Handed(reader')) BY <1>1, <1>3 DEF IntegrityInv
  <1>7. QED BY <1>1, <1>2, <1>4, <1>5, <1>6 DEF IntegrityInv, Idle

\* A step after which the call goes on, or the next is awaited.
LEMMA OpenStep ==
  ASSUME IntegrityInv, NEW b \in Seq(Tokens(payload)), NEW r, ReaderFits(r, payload),
         NEW n \in Nat, NEW g \in Seq(Tokens(payload)), NEW d \in Seq(Tokens(payload)),
         d \o g = Handed(r),
         payload' = payload, body' = b, reader' = r, call' = [room |-> n, got |-> g],
         delivered' = d, outcome' = "open"
  PROVE  IntegrityInv'
  <1>1. payload \in Payloads BY DEF IntegrityInv
  <1>2. IsPrefix(d, Handed(r)) BY <1>1, OpenFits
  <1>3. ReaderFits(reader', payload') /\ Handed(reader') = Handed(r) OBVIOUS
  <1>4. body' \in Seq(Tokens(payload')) /\ delivered' \in Seq(Tokens(payload')) OBVIOUS
  <1>5. /\ call' = [room |-> call'.room, got |-> call'.got]
        /\ call'.room \in Nat /\ call'.got \in Seq(Tokens(payload'))
        /\ call'.got = g
    OBVIOUS
  <1>6. delivered' \o call'.got = Handed(reader') /\ IsPrefix(delivered', Handed(reader'))
    BY <1>2, <1>3, <1>5
  <1>7. QED BY <1>1, <1>3, <1>4, <1>5, <1>6 DEF IntegrityInv

\* Read is called.
LEMMA ReadKeeps ==
  ASSUME IntegrityInv, NEW n \in BufferSizes, Read(n)
  PROVE  IntegrityInv'
  <1>1. /\ outcome = "open" /\ call = Idle /\ call' = [room |-> n, got |-> << >>]
        /\ payload' = payload /\ body' = body /\ reader' = reader /\ delivered' = delivered
        /\ outcome' = outcome
    BY DEF Read
  <1>2. n \in Nat /\ << >> \in Seq(Tokens(payload)) BY ChunkAssumption
  <1>3. delivered \o << >> = Handed(reader) BY <1>1 DEF IntegrityInv, Idle
  <1>4. PICK b, r, d, g : b = body /\ r = reader /\ d = delivered /\ g = << >> OBVIOUS
  <1>5. /\ b \in Seq(Tokens(payload)) /\ ReaderFits(r, payload)
        /\ d \in Seq(Tokens(payload)) /\ g \in Seq(Tokens(payload)) /\ d \o g = Handed(r)
    BY <1>2, <1>3, <1>4 DEF IntegrityInv
  <1>6. QED BY <1>1, <1>2, <1>4, <1>5, OpenStep

\* A header is read.
LEMMA ReadChunkHeaderKeeps ==
  ASSUME IntegrityInv, ReadChunkHeader
  PROVE  IntegrityInv'
  <1>1. outcome = "open" /\ reader.state = "readChunkHeader" BY DEF ReadChunkHeader, InState
  <1>2. CASE body = << >> \/ Head(body).kind = "data" BY <1>2, FailsKeep DEF ReadChunkHeader
  <1>3. CASE ~(body = << >> \/ Head(body).kind = "data")
    <2>1. PICK S, r, line, b : /\ S = Tokens(payload) /\ line = Head(body) /\ b = Tail(body)
                               /\ r = reader
      OBVIOUS
    <2>2. payload \in Payloads /\ ReaderFits(r, payload) BY <2>1 DEF IntegrityInv
    <2>3. line \in S /\ b \in Seq(S) BY <1>3, <2>1, HeadTailProperties DEF IntegrityInv
    <2>4. line.size \in Nat /\ \E k \in 0 .. TotalChunks(payload) : line.sig = First(payload, k)
      BY <2>1, <2>2, <2>3, TokenIs
    <2>5. PICK next : next = [reader EXCEPT
                  !.n = line.size,
                  !.chunkSignature = line.sig,
                  !.lastChunk = @ \/ line.size = 0,
                  !.state = IF line.size = 0 THEN "readChunkTrailer" ELSE "readChunk"]
      OBVIOUS
    <2>6. /\ reader' = next /\ body' = b /\ payload' = payload /\ call' = call
          /\ delivered' = delivered /\ outcome' = outcome
      BY <1>3, <2>1, <2>5 DEF ReadChunkHeader
    <2>7. PICK last \in BOOLEAN, st \in {"readChunkTrailer", "readChunk"} :
            /\ last <=> line.size = 0
            /\ st = IF line.size = 0 THEN "readChunkTrailer" ELSE "readChunk"
      OBVIOUS
    <2>8. r.lastChunk = FALSE /\ r.chunkSHA256Writer = << >> BY <1>1, <2>1, <2>2 DEF ReaderFits
    <2>9. next = [state |-> st, n |-> line.size, lastChunk |-> last, chunkSignature |-> line.sig,
                  chunkSHA256Writer |-> << >>, seedSignature |-> r.seedSignature]
      <3>1. r = [state |-> r.state, n |-> r.n, lastChunk |-> r.lastChunk,
                 chunkSignature |-> r.chunkSignature,
                 chunkSHA256Writer |-> r.chunkSHA256Writer, seedSignature |-> r.seedSignature]
        BY <2>2 DEF ReaderFits
      <3>2. (FALSE \/ line.size = 0) = last BY <2>7
      <3>3. QED BY <2>1, <2>5, <2>7, <2>8, <3>1, <3>2
    <2>10. ReaderFits(next, payload)
      <3>1. << >> \in Seq(Tokens(payload)) OBVIOUS
      <3>2. \E k \in 0 .. TotalChunks(payload) : r.seedSignature = First(payload, k)
        BY <2>2 DEF ReaderFits
      <3>3. st = "readChunk" => ~last BY <2>7
      <3>4. QED BY <2>4, <2>9, <3>1, <3>2, <3>3 DEF ReaderFits
    <2>11. Handed(next) = Handed(r) BY <2>8, <2>9 DEF Handed
    <2>12. PICK n, g, d : n = call.room /\ g = call.got /\ d = delivered OBVIOUS
    <2>13. /\ n \in Nat /\ g \in Seq(Tokens(payload)) /\ d \in Seq(Tokens(payload))
           /\ d \o g = Handed(next) /\ call' = [room |-> n, got |-> g]
      BY <1>1, <2>1, <2>6, <2>11, <2>12 DEF IntegrityInv
    <2>14. b \in Seq(Tokens(payload)) BY <2>1, <2>3
    <2>15. QED BY <1>1, <2>6, <2>10, <2>12, <2>13, <2>14, OpenStep
  <1>4. QED BY <1>2, <1>3

\* A line end is read.
LEMMA ReadChunkTrailerKeeps ==
  ASSUME IntegrityInv, ReadChunkTrailer
  PROVE  IntegrityInv'
  <1>1. outcome = "open" /\ reader.state = "readChunkTrailer" BY DEF ReadChunkTrailer, InState
  <1>2. CASE body = << >> \/ Head(body).kind # "crlf" BY <1>2, FailsKeep DEF ReadChunkTrailer
  <1>3. CASE ~(body = << >> \/ Head(body).kind # "crlf")
    <2>1. PICK r, b, next, n, g, d : /\ b = Tail(body) /\ r = reader
                                     /\ next = [r EXCEPT !.state = "verifyChunk"]
                                     /\ n = call.room /\ g = call.got /\ d = delivered
      OBVIOUS
    <2>2. payload \in Payloads /\ ReaderFits(r, payload) BY <2>1 DEF IntegrityInv
    <2>3. b \in Seq(Tokens(payload)) BY <1>3, <2>1, HeadTailProperties DEF IntegrityInv
    <2>4. /\ reader' = next /\ body' = b /\ payload' = payload /\ call' = call
          /\ delivered' = delivered /\ outcome' = outcome
      BY <1>3, <2>1 DEF ReadChunkTrailer
    <2>5. next = [state |-> "verifyChunk", n |-> r.n, lastChunk |-> r.lastChunk,
                  chunkSignature |-> r.chunkSignature,
                  chunkSHA256Writer |-> r.chunkSHA256Writer, seedSignature |-> r.seedSignature]
      BY <2>1, <2>2 DEF ReaderFits
    <2>6. ReaderFits(next, payload) BY <2>2, <2>5 DEF ReaderFits
    <2>7. Handed(next) = Handed(r) BY <2>5 DEF Handed
    <2>8. /\ n \in Nat /\ g \in Seq(Tokens(payload)) /\ d \in Seq(Tokens(payload))
          /\ d \o g = Handed(next) /\ call' = [room |-> n, got |-> g]
      BY <1>1, <2>1, <2>4, <2>7 DEF IntegrityInv
    <2>9. QED BY <1>1, <2>1, <2>3, <2>4, <2>6, <2>8, OpenStep
  <1>4. QED BY <1>2, <1>3

\* Some data is read, a buffer is full, or the connection ended.
LEMMA ReadChunkKeeps ==
  ASSUME IntegrityInv, ReadChunk
  PROVE  IntegrityInv'
  <1>1. outcome = "open" /\ reader.state = "readChunk" BY DEF ReadChunk, InState
  <1>2. PICK r, n, g, d, S : /\ r = reader /\ n = call.room /\ g = call.got /\ d = delivered
                             /\ S = Tokens(payload)
    OBVIOUS
  <1>3. /\ payload \in Payloads /\ ReaderFits(r, payload) /\ body \in Seq(S)
        /\ n \in Nat /\ g \in Seq(S) /\ d \in Seq(S) /\ d \o g = Handed(r)
    BY <1>1, <1>2 DEF IntegrityInv
  <1>4. CASE call.room = 0 /\ delivered' = delivered \o call.got /\ call' = Idle
             /\ UNCHANGED <<payload, intact, body, reader, outcome>>
    <2>1. PICK e, h, b : e = d \o g /\ h = << >> /\ b = body OBVIOUS
    <2>2. e \in Seq(S) /\ h \in Seq(S) /\ e \o h = Handed(r)
      <3>1. d \o g \in Seq(S) BY <1>3, ConcatProperties
      <3>2. e \o << >> = e BY <2>1, <3>1, ConcatEmptySeq
      <3>3. << >> \in Seq(S) OBVIOUS
      <3>4. QED BY <1>3, <2>1, <3>1, <3>2, <3>3
    <2>3. call' = [room |-> 0, got |-> h] /\ 0 \in Nat /\ delivered' = e /\ body' = b
          /\ payload' = payload /\ reader' = r /\ outcome' = "open"
      BY <1>1, <1>2, <1>4, <2>1 DEF Idle
    <2>4. b \in Seq(Tokens(payload)) /\ e \in Seq(Tokens(payload)) /\ h \in Seq(Tokens(payload))
      BY <1>2, <1>3, <2>1, <2>2
    <2>5. QED BY <1>3, <2>2, <2>3, <2>4, OpenStep
  <1>5. CASE Fails("unexpected EOF") BY <1>5, FailsKeep
  <1>6. ASSUME NEW n0 \in 1 .. Len(body), n0 <= call.room, n0 <= reader.n,
               body' = SubSeq(body, n0 + 1, Len(body)),
               call' = [room |-> call.room - n0, got |-> call.got \o SubSeq(body, 1, n0)],
               reader' = [reader EXCEPT
                     !.n = @ - n0,
                     !.chunkSHA256Writer = @ \o SubSeq(body, 1, n0),
                     !.state = IF reader.n = n0 THEN "readChunkTrailer" ELSE @],
               UNCHANGED <<payload, intact, delivered, outcome>>
        PROVE  IntegrityInv'
    <2>1. PICK rbuf, b, w, left, room, st :
            /\ rbuf = SubSeq(body, 1, n0) /\ b = SubSeq(body, n0 + 1, Len(body))
            /\ w = r.chunkSHA256Writer \o rbuf /\ left = r.n - n0 /\ room = n - n0
            /\ st = IF r.n = n0 THEN "readChunkTrailer" ELSE r.state
      OBVIOUS
    <2>2. n0 \in Nat /\ n0 <= Len(body) /\ Len(body) \in Nat /\ \A i \in 1 .. Len(body) : body[i] \in S
      BY <1>3
    <2>3. rbuf \in Seq(S) /\ b \in Seq(S)
      <3>1. SubSeq(body, 1, n0) \in Seq(S) BY <2>2, SubSeqProperties
      <3>2. SubSeq(body, n0 + 1, Len(body)) \in Seq(S) BY <2>2, SubSeqProperties
      <3>3. QED BY <2>1, <3>1, <3>2
    <2>4. r.n \in Nat /\ r.chunkSHA256Writer \in Seq(S) /\ r.state = "readChunk" /\ r.lastChunk = FALSE
      BY <1>1, <1>2, <1>3 DEF ReaderFits
    <2>5. w \in Seq(S) /\ left \in Nat /\ room \in Nat /\ st \in {"readChunkTrailer", "readChunk"}
      <3>1. w \in Seq(S)
        <4>1. r.chunkSHA256Writer \o rbuf \in Seq(S) BY <2>3, <2>4, ConcatProperties
        <4>2. QED BY <2>1, <4>1
      <3>2. QED
        <4>1. n0 <= n /\ n0 <= r.n /\ n \in Nat /\ r.n \in Nat /\ n0 \in Nat
          BY <1>2, <1>3, <1>6, <2>2, <2>4
        <4>2. left = r.n - n0 /\ room = n - n0 BY <2>1
        <4>3. left \in Nat /\ room \in Nat BY <4>1, <4>2
        <4>4. st \in {"readChunkTrailer", "readChunk"} BY <2>1, <2>4
        <4>5. QED BY <3>1, <4>3, <4>4
    <2>6. PICK next : next = [r EXCEPT !.n = left, !.chunkSHA256Writer = w, !.state = st] OBVIOUS
    <2>7. reader' = next BY <1>2, <1>6, <2>1, <2>6
    <2>8. next = [state |-> st, n |-> left, lastChunk |-> r.lastChunk,
                  chunkSignature |-> r.chunkSignature,
                  chunkSHA256Writer |-> w, seedSignature |-> r.seedSignature]
      <3>1. r = [state |-> r.state, n |-> r.n, lastChunk |-> r.lastChunk,
                 chunkSignature |-> r.chunkSignature,
                 chunkSHA256Writer |-> r.chunkSHA256Writer, seedSignature |-> r.seedSignature]
        BY <1>3 DEF ReaderFits
      <3>2. QED BY <2>6, <3>1
    <2>9. ReaderFits(next, payload)
      <3>1. /\ \E k \in 0 .. TotalChunks(payload) : r.chunkSignature = First(payload, k)
            /\ \E k \in 0 .. TotalChunks(payload) : r.seedSignature = First(payload, k)
        BY <1>3 DEF ReaderFits
      <3>2. QED BY <1>2, <2>4, <2>5, <2>8, <3>1 DEF ReaderFits
    <2>10. PICK h, v : h = g \o rbuf /\ v = FlattenSeq(r.seedSignature) OBVIOUS
    <2>11. v \in Seq(S) BY <1>2, <1>3, <2>10, HandedIs
    <2>12. h \in Seq(S) /\ d \o h = (d \o g) \o rbuf
      <3>1. g \o rbuf \in Seq(S) BY <1>3, <2>3, ConcatProperties
      <3>2. (d \o g) \o rbuf = d \o (g \o rbuf)
        <4>1. d \in Seq(S) /\ g \in Seq(S) /\ rbuf \in Seq(S) BY <1>3, <2>3
        <4>2. QED BY <4>1, Regroup
      <3>3. QED BY <2>10, <3>1, <3>2
    <2>13. Handed(next) = Handed(r) \o rbuf
      <3>1. (v \o r.chunkSHA256Writer) \o rbuf = v \o w
        <4>1. (v \o r.chunkSHA256Writer) \o rbuf = v \o (r.chunkSHA256Writer \o rbuf)
          <5>1. PICK x : x = r.chunkSHA256Writer OBVIOUS
          <5>2. v \in Seq(S) /\ x \in Seq(S) /\ rbuf \in Seq(S) BY <2>3, <2>4, <2>11, <5>1
          <5>3. (v \o x) \o rbuf = v \o (x \o rbuf) BY <5>2, Regroup
          <5>4. QED BY <5>1, <5>3
        <4>2. QED BY <2>1, <4>1
      <3>2. Handed(next) = v \o w /\ Handed(r) = v \o r.chunkSHA256Writer BY <2>8, <2>10 DEF Handed
      <3>3. QED BY <3>1, <3>2
    <2>14. d \o h = Handed(next) BY <1>3, <2>12, <2>13
    <2>15. /\ body' = b /\ call' = [room |-> room, got |-> h] /\ payload' = payload
           /\ delivered' = d /\ outcome' = "open"
      BY <1>1, <1>2, <1>6, <2>1, <2>10
    <2>16. /\ b \in Seq(Tokens(payload)) /\ h \in Seq(Tokens(payload))
           /\ d \in Seq(Tokens(payload))
      BY <1>2, <1>3, <2>3, <2>12
    <2>17. QED BY <2>5, <2>7, <2>9, <2>14, <2>15, <2>16, OpenStep
  <1>7. QED BY <1>4, <1>5, <1>6 DEF ReadChunk

\* Only the next chunk fits behind a signature.
LEMMA NextFirst ==
  ASSUME NEW p \in Payloads, NEW k \in 0 .. TotalChunks(p), NEW j \in 0 .. TotalChunks(p),
         NEW w \in Seq(Tokens(p)), Append(First(p, k), w) = First(p, j)
  PROVE  j = k + 1 /\ k \in 0 .. (TotalChunks(p) - 1) /\ w = ChunkData(p, k + 1)
  <1>1. TotalChunks(p) \in Nat BY TotalIs
  <1>2. PICK f, h, S, c : f = First(p, k) /\ h = First(p, j) /\ S = Seq(Tokens(p)) /\ c = ChunkData(p, j)
    OBVIOUS
  <1>3. f \in Seq(S) /\ Len(f) = k /\ h \in Seq(S) /\ Len(h) = j /\ w \in S BY <1>2, FirstIs
  <1>4. Append(f, w) = h BY <1>2
  <1>5. Len(Append(f, w)) = Len(f) + 1 /\ Append(f, w)[Len(f) + 1] = w BY <1>3
  <1>6. j = k + 1 BY <1>3, <1>4, <1>5
  <1>7. h[j] = w BY <1>3, <1>4, <1>5, <1>6
  <1>8. h = [i \in 1 .. j |-> ChunkData(p, i)] BY <1>2 DEF First
  <1>9. j \in 1 .. j BY <1>1, <1>6
  <1>10. h[j] = c BY <1>2, <1>8, <1>9
  <1>11. k \in 0 .. (TotalChunks(p) - 1) BY <1>1, <1>6
  <1>12. QED BY <1>2, <1>6, <1>7, <1>10, <1>11

\* A chunk that is verified changes nothing of what was read.
LEMMA VerifiedMore ==
  ASSUME NEW p \in Payloads, NEW k \in 0 .. (TotalChunks(p) - 1)
  PROVE  FlattenSeq(First(p, k + 1)) = FlattenSeq(First(p, k)) \o ChunkData(p, k + 1)
  <1>1. TotalChunks(p) \in Nat \ {0} /\ k \in 0 .. TotalChunks(p) /\ k + 1 \in 0 .. TotalChunks(p)
    BY TotalIs
  <1>2. PICK f, h, S, c : /\ f = First(p, k) /\ h = First(p, k + 1) /\ S = Tokens(p)
                          /\ c = ChunkData(p, k + 1)
    OBVIOUS
  <1>3. f \in Seq(Seq(S)) /\ Len(f) = k /\ h \in Seq(Seq(S)) /\ Len(h) = k + 1
    BY <1>1, <1>2, FirstIs
  <1>4. c \in Seq(S) BY <1>2, ChunkIs
  <1>5. h = Append(f, c) BY <1>2, FirstAppend
  <1>6. /\ \A i \in 1 .. Len(f) : h[i] = f[i]
        /\ h[Len(f) + 1] = c /\ Len(h) = Len(f) + 1
    BY <1>3, <1>4, <1>5
  <1>7. FlattenSeq(h) = FlattenSeq(f) \o c BY <1>3, <1>4, <1>6, FlattenAppend
  <1>8. QED BY <1>2, <1>7

\* The whole is verified at the end.
LEMMA VerifiedAll ==
  ASSUME NEW p \in Payloads
  PROVE  FlattenSeq(First(p, TotalChunks(p))) = Bytes(p)
  <1>1. TotalChunks(p) \in Nat \ {0} /\ 0 \in 0 .. (TotalChunks(p) - 1) BY TotalIs
  <1>2. Cut(p, TotalChunks(p)) = Len(p) BY <1>1, CutIs
  <1>3. FlattenSeq(First(p, TotalChunks(p))) = SubSeq(Bytes(p), 1, Cut(p, TotalChunks(p)))
    BY <1>1, VerifiedIs
  <1>4. PICK w, S : w = Bytes(p) /\ S = Tokens(p) OBVIOUS
  <1>5. w \in Seq(S) /\ Len(w) = Len(p) BY <1>4, BytesAre
  <1>6. SubSeq(w, 1, Len(w)) = w BY <1>5, SubSeqFull
  <1>7. QED BY <1>2, <1>3, <1>4, <1>5, <1>6

\* A chunk is verified.
LEMMA VerifyChunkKeeps ==
  ASSUME IntegrityInv, VerifyChunk
  PROVE  IntegrityInv'
  <1>1. outcome = "open" /\ reader.state = "verifyChunk" BY DEF VerifyChunk, InState
  <1>2. PICK r, w, new : /\ r = reader /\ w = r.chunkSHA256Writer
                         /\ new = Append(r.seedSignature, w)
    OBVIOUS
  <1>3. CASE r.chunkSignature # new BY <1>2, <1>3, FailsKeep DEF VerifyChunk
  <1>4. CASE r.chunkSignature = new
    <2>1. payload \in Payloads /\ ReaderFits(r, payload) BY <1>2 DEF IntegrityInv
    <2>2. PICK k \in 0 .. TotalChunks(payload) : r.seedSignature = First(payload, k)
      BY <2>1 DEF ReaderFits
    <2>3. PICK j \in 0 .. TotalChunks(payload) : r.chunkSignature = First(payload, j)
      BY <2>1 DEF ReaderFits
    <2>4. w \in Seq(Tokens(payload)) /\ (r.lastChunk => w = << >>) /\ r.lastChunk \in BOOLEAN
      BY <1>2, <2>1 DEF ReaderFits
    <2>5. Append(First(payload, k), w) = First(payload, j) BY <1>2, <1>4, <2>2, <2>3
    <2>6. /\ j = k + 1 /\ k \in 0 .. (TotalChunks(payload) - 1)
          /\ w = ChunkData(payload, k + 1)
      BY <2>1, <2>4, <2>5, NextFirst
    <2>7. new = First(payload, j) BY <1>4, <2>3
    <2>8. FlattenSeq(new) = Handed(r)
      <3>1. FlattenSeq(First(payload, k + 1)) = FlattenSeq(First(payload, k)) \o ChunkData(payload, k + 1)
        BY <2>1, <2>6, VerifiedMore
      <3>2. QED BY <1>2, <2>2, <2>6, <2>7, <3>1 DEF Handed
    <2>9. r.lastChunk => new = First(payload, TotalChunks(payload))
      <3>1. SUFFICES ASSUME r.lastChunk PROVE j = TotalChunks(payload) BY <2>7
      <3>2. Len(ChunkData(payload, k + 1)) = 0 BY <2>4, <2>6, <3>1, EmptySeq
      <3>3. Len(ChunkData(payload, k + 1)) = Cut(payload, k + 1) - Cut(payload, k)
        BY <2>1, <2>6, ChunkIs
      <3>4. /\ Cut(payload, k) \in 0 .. Len(payload) /\ Cut(payload, k + 1) \in 0 .. Len(payload)
            /\ Cut(payload, k) = Cut(payload, k + 1) <=> k + 1 = TotalChunks(payload)
        BY <2>1, <2>6, CutIs
      <3>5. Len(payload) \in Nat BY <2>1, TotalIs
      <3>6. QED BY <2>6, <3>2, <3>3, <3>4, <3>5
    <2>10. PICK st : st = IF r.lastChunk THEN "eofChunk" ELSE "readChunkHeader" OBVIOUS
    <2>11. PICK next : next = [r EXCEPT !.seedSignature = new, !.chunkSHA256Writer = <<>>, !.state = st]
      OBVIOUS
    <2>12. /\ reader' = next /\ payload' = payload /\ body' = body /\ call' = call
           /\ delivered' = delivered /\ outcome' = outcome
      BY <1>2, <1>4, <2>10, <2>11 DEF VerifyChunk
    <2>13. next = [state |-> st, n |-> r.n, lastChunk |-> r.lastChunk,
                   chunkSignature |-> r.chunkSignature,
                   chunkSHA256Writer |-> << >>, seedSignature |-> new]
      BY <2>1, <2>11 DEF ReaderFits
    <2>14. ReaderFits(next, payload)
      <3>1. << >> \in Seq(Tokens(payload)) BY EmptySeq
      <3>2. /\ \E i \in 0 .. TotalChunks(payload) : r.chunkSignature = First(payload, i)
            /\ \E i \in 0 .. TotalChunks(payload) : new = First(payload, i)
        BY <2>3, <2>7
      <3>3. st \in {"readChunkHeader", "eofChunk"} /\ (st = "eofChunk" <=> r.lastChunk)
        BY <2>4, <2>10
      <3>4. r.n \in Nat BY <2>1 DEF ReaderFits
      <3>5. QED BY <2>4, <2>9, <2>13, <3>1, <3>2, <3>3, <3>4 DEF ReaderFits
    <2>15. Handed(next) = Handed(r)
      <3>1. Handed(r) \in Seq(Tokens(payload)) BY <2>1, HandedIs
      <3>2. FlattenSeq(new) \o << >> = FlattenSeq(new) BY <2>8, <3>1, ConcatEmptySeq
      <3>3. Handed(next) = FlattenSeq(new) \o << >> BY <2>13 DEF Handed
      <3>4. QED BY <2>8, <3>2, <3>3
    <2>16. PICK b, n, g, d : b = body /\ n = call.room /\ g = call.got /\ d = delivered OBVIOUS
    <2>17. /\ n \in Nat /\ g \in Seq(Tokens(payload)) /\ d \in Seq(Tokens(payload))
           /\ b \in Seq(Tokens(payload))
           /\ d \o g = Handed(next) /\ call' = [room |-> n, got |-> g]
      BY <1>1, <1>2, <2>12, <2>15, <2>16 DEF IntegrityInv
    <2>18. QED BY <1>1, <2>12, <2>14, <2>16, <2>17, OpenStep
  <1>5. QED BY <1>3, <1>4

\* The end is reached.
LEMMA EOFChunkKeeps ==
  ASSUME IntegrityInv, EOFChunk
  PROVE  IntegrityInv'
  <1>1. outcome = "open" /\ reader.state = "eofChunk" BY DEF EOFChunk, InState
  <1>2. /\ delivered' = delivered \o call.got /\ call' = Idle /\ outcome' = "eof"
        /\ payload' = payload /\ body' = body /\ reader' = reader
    BY DEF EOFChunk
  <1>3. PICK r, S : r = reader /\ S = Tokens(payload) OBVIOUS
  <1>4. payload \in Payloads /\ ReaderFits(r, payload) BY <1>3 DEF IntegrityInv
  <1>5. r.chunkSHA256Writer = << >> /\ r.seedSignature = First(payload, TotalChunks(payload))
    BY <1>1, <1>3, <1>4 DEF ReaderFits
  <1>6. Bytes(payload) \in Seq(S) BY <1>3, <1>4, BytesAre
  <1>7. Handed(r) = Bytes(payload)
    <2>1. Bytes(payload) \o << >> = Bytes(payload) BY <1>6, ConcatEmptySeq
    <2>2. FlattenSeq(r.seedSignature) = Bytes(payload) BY <1>4, <1>5, VerifiedAll
    <2>3. QED BY <1>5, <2>1, <2>2 DEF Handed
  <1>8. delivered' = Bytes(payload) BY <1>1, <1>2, <1>3, <1>7 DEF IntegrityInv
  <1>9. Handed(reader') = Bytes(payload)
    <2>1. reader' = r BY <1>2, <1>3
    <2>2. QED BY <1>7, <2>1, HandedSame
  <1>10. IsPrefix(delivered', Handed(reader'))
    <2>1. PICK w : w = Bytes(payload) OBVIOUS
    <2>2. w \in Seq(S) BY <1>6, <2>1
    <2>3. IsPrefix(w, w \o << >>) BY <2>2, EmptySeq, FirstIsPrefix
    <2>4. w \o << >> = w BY <2>2, ConcatEmptySeq
    <2>5. QED BY <1>8, <1>9, <2>1, <2>3, <2>4
  <1>11. ReaderFits(reader', payload') BY <1>2, <1>3, <1>4 DEF ReaderFits
  <1>12. << >> \in Seq(Tokens(payload')) BY EmptySeq
  <1>13. /\ payload' \in Payloads /\ body' \in Seq(Tokens(payload'))
         /\ delivered' \in Seq(Tokens(payload')) /\ delivered' = Bytes(payload')
    BY <1>2, <1>3, <1>4, <1>6, <1>8 DEF IntegrityInv
  <1>14. QED BY <1>2, <1>10, <1>11, <1>12, <1>13 DEF IntegrityInv, Idle

\* Every step keeps the invariant.
LEMMA IntegrityNext == IntegrityInv /\ [ChunkNext]_chunkVars => IntegrityInv'
  <1> SUFFICES ASSUME IntegrityInv, [ChunkNext]_chunkVars PROVE IntegrityInv'
    OBVIOUS
  <1>1. ASSUME NEW n \in BufferSizes, Read(n) PROVE IntegrityInv' BY <1>1, ReadKeeps
  <1>2. CASE ReadChunkHeader BY <1>2, ReadChunkHeaderKeeps
  <1>3. CASE ReadChunkTrailer BY <1>3, ReadChunkTrailerKeeps
  <1>4. CASE ReadChunk BY <1>4, ReadChunkKeeps
  <1>5. CASE VerifyChunk BY <1>5, VerifyChunkKeeps
  <1>6. CASE EOFChunk BY <1>6, EOFChunkKeeps
  <1>7. CASE UNCHANGED chunkVars
    <2>1. UNCHANGED <<payload, body, reader, call, delivered, outcome>> BY <1>7 DEF chunkVars
    <2>2. ReaderFits(reader', payload') BY <2>1 DEF IntegrityInv, ReaderFits
    <2>3. Handed(reader') = Handed(reader) BY <2>1, HandedSame
    <2>4. IsPrefix(delivered', Handed(reader')) BY <2>1, <2>3 DEF IntegrityInv
    <2>5. outcome' = "open" => delivered' \o call'.got = Handed(reader')
      BY <2>1, <2>3 DEF IntegrityInv
    <2>6. QED BY <2>1, <2>2, <2>4, <2>5 DEF IntegrityInv, Idle
  <1>8. QED BY <1>1, <1>2, <1>3, <1>4, <1>5, <1>6, <1>7 DEF ChunkNext

(***************************************************************************)
(* Signed chunks: a body as it was sent                                    *)
(*                                                                         *)
(* The reader is never behind or ahead of the client's chunks: its state says *)
(* how much of the stream is left.                                         *)
(***************************************************************************)

\* Everything there is before the end of a chunk is sent.
LEMMA StreamReaches ==
  ASSUME NEW p \in Payloads, NEW k \in 0 .. (TotalChunks(p) - 1)
  PROVE  /\ Place(p, k) \in Nat /\ Place(p, k + 1) \in Nat
         /\ Len(Stream(p)) \in Nat /\ Place(p, k + 1) <= Len(Stream(p))
         /\ Len(ChunkData(p, k + 1)) \in Nat
         /\ Place(p, k + 1) = Place(p, k) + Len(ChunkData(p, k + 1)) + 2
         /\ Len(ChunkData(p, k + 1)) = 0 <=> k + 1 = TotalChunks(p)
         /\ Len(SignChunk(p, k + 1)) = Len(ChunkData(p, k + 1)) + 2
  <1>1. TotalChunks(p) \in Nat \ {0} /\ Len(p) \in Nat BY TotalIs
  <1>2. /\ Cut(p, k) \in 0 .. Len(p) /\ Cut(p, k + 1) \in 0 .. Len(p)
        /\ Cut(p, k) <= Cut(p, k + 1)
        /\ Cut(p, k) = Cut(p, k + 1) <=> k + 1 = TotalChunks(p)
    BY CutIs
  <1>3. PICK c, d, n, m : /\ c = Cut(p, k) /\ d = Cut(p, k + 1) /\ n = TotalChunks(p)
                          /\ m = Len(ChunkData(p, k + 1))
    OBVIOUS
  <1>4. m = d - c BY <1>3, ChunkIs
  <1>5. /\ c \in 0 .. Len(p) /\ d \in 0 .. Len(p) /\ c <= d /\ (c = d <=> k + 1 = n)
        /\ n \in Nat /\ k \in 0 .. (n - 1)
    BY <1>1, <1>2, <1>3
  <1>6. m \in Nat /\ (m = 0 <=> k + 1 = n) BY <1>1, <1>4, <1>5
  <1>7. Place(p, k) = c + 2 * k /\ Place(p, k + 1) = d + 2 * (k + 1) BY <1>3 DEF Place
  <1>8. Len(Stream(p)) = Len(p) + 2 * n BY <1>3, SentIs
  <1>9. Len(SignChunk(p, k + 1)) = m + 2 BY <1>3, <1>4, SignChunkIs
  <1>10. /\ Place(p, k) \in Nat /\ Place(p, k + 1) \in Nat /\ Len(Stream(p)) \in Nat
         /\ Place(p, k + 1) <= Len(Stream(p)) /\ Place(p, k + 1) = Place(p, k) + m + 2
    BY <1>1, <1>4, <1>5, <1>7, <1>8
  <1>11. QED BY <1>3, <1>6, <1>9, <1>10

\* What is sent, chunk by chunk.
LEMMA StreamAt ==
  ASSUME NEW p \in Payloads, NEW k \in 0 .. (TotalChunks(p) - 1)
  PROVE  LET c == ChunkData(p, k + 1)
         IN  /\ Stream(p)[Place(p, k) + 1] = Header(Len(c), First(p, k + 1))
             /\ \A m \in 1 .. Len(c) : Stream(p)[Place(p, k) + 1 + m] = c[m]
             /\ Stream(p)[Place(p, k + 1)] = CRLF
  <1> DEFINE c == ChunkData(p, k + 1)
             x == SignChunk(p, k + 1)
  <1>1. TotalChunks(p) \in Nat \ {0} /\ Len(p) \in Nat BY TotalIs
  <1>2. /\ Cut(p, k) \in 0 .. Len(p) /\ Cut(p, k + 1) \in 0 .. Len(p)
        /\ Len(c) = Cut(p, k + 1) - Cut(p, k)
    BY CutIs, ChunkIs
  <1>3. /\ x[1] = Header(Len(c), First(p, k + 1))
        /\ \A m \in 1 .. Len(c) : x[m + 1] = c[m]
        /\ x[Len(c) + 2] = CRLF
    BY <1>2, SignChunkIs
  <1>4. /\ Place(p, k) \in Nat /\ Place(p, k + 1) = Place(p, k) + Len(c) + 2
        /\ Len(c) \in Nat /\ Len(x) = Len(c) + 2
    BY StreamReaches
  <1>5. \A m \in 1 .. Len(x) : Stream(p)[Place(p, k) + m] = x[m]
    <2>1. TotalChunks(p) \in 0 .. TotalChunks(p) BY <1>1
    <2>2. \A j \in 0 .. (TotalChunks(p) - 1) : \A m \in 1 .. Len(SignChunk(p, j + 1)) :
            FirstSigned(p, TotalChunks(p))[Place(p, j) + m] = SignChunk(p, j + 1)[m]
      BY <2>1, FirstSignedIs
    <2>3. QED BY <2>2, SentIs
  <1> HIDE DEF c, x
  <1>6. Stream(p)[Place(p, k) + 1] = x[1] BY <1>4, <1>5
  <1>7. ASSUME NEW m \in 1 .. Len(c) PROVE Stream(p)[Place(p, k) + 1 + m] = c[m]
    <2>1. m + 1 \in 1 .. Len(x) /\ Place(p, k) + (m + 1) = Place(p, k) + 1 + m BY <1>4
    <2>2. Stream(p)[Place(p, k) + (m + 1)] = x[m + 1] BY <1>5, <2>1
    <2>3. QED BY <1>3, <2>1, <2>2
  <1>8. Stream(p)[Place(p, k + 1)] = CRLF
    <2>1. Len(c) + 2 \in 1 .. Len(x) /\ Place(p, k + 1) = Place(p, k) + (Len(c) + 2) BY <1>4
    <2>2. Stream(p)[Place(p, k) + (Len(c) + 2)] = x[Len(c) + 2] BY <1>5, <2>1
    <2>3. QED BY <1>3, <2>1, <2>2
  <1>9. QED BY <1>3, <1>6, <1>7, <1>8 DEF c

\* The next token of what is left.
LEMMA RestStarts ==
  ASSUME NEW p \in Payloads, NEW o \in Nat, o < Len(Stream(p))
  PROVE  /\ Rest(p, o) # << >> /\ Head(Rest(p, o)) = Stream(p)[o + 1]
         /\ Tail(Rest(p, o)) = Rest(p, o + 1)
  <1>1. PICK s, b, n, S : /\ s = Stream(p) /\ b = Rest(p, o) /\ n = Len(s) /\ S = Tokens(p) OBVIOUS
  <1>2. s \in Seq(S) /\ n \in Nat BY <1>1, SentIs, LenProperties
  <1>3. b \in Seq(S)
    <2>1. \A i \in o + 1 .. n : s[i] \in S BY <1>1, <1>2, ElementOfSeq
    <2>2. SubSeq(s, o + 1, n) \in Seq(S) BY <1>2, <2>1, SubSeqProperties
    <2>3. QED BY <1>1, <2>2 DEF Rest
  <1>4. o + 1 <= Len(Stream(p)) BY <1>1, <1>2
  <1>5. /\ Len(b) = n - o /\ SubSeq(b, 2, Len(b)) = Rest(p, o + 1)
        /\ Len(SubSeq(b, 1, 1)) = 1 /\ SubSeq(b, 1, 1)[1] = s[o + 1]
    <2>1. /\ Len(Rest(p, o)) = Len(Stream(p)) - o
          /\ SubSeq(Rest(p, o), 1 + 1, Len(Rest(p, o))) = Rest(p, o + 1)
          /\ Len(SubSeq(Rest(p, o), 1, 1)) = 1
          /\ \A m \in 1 .. 1 : SubSeq(Rest(p, o), 1, 1)[m] = Stream(p)[o + m]
      BY <1>4, RestIs
    <2>2. 1 + 1 = 2 /\ 1 \in 1 .. 1 OBVIOUS
    <2>3. QED BY <1>1, <2>1, <2>2
  <1>6. b # << >> BY <1>1, <1>2, <1>5, EmptySeq
  <1>7. Tail(b) = SubSeq(b, 2, Len(b)) BY <1>3, <1>6, TailIsSubSeq
  <1>8. Head(b) = b[1] BY <1>3, <1>6
  <1>9. SubSeq(b, 1, 1)[1] = b[1]
    <2>1. Len(b) \in Nat /\ 1 <= Len(b) BY <1>1, <1>2, <1>5
    <2>2. \A i \in 1 .. 1 : b[i] \in S BY <1>3, <2>1, ElementOfSeq
    <2>3. \A i \in 1 .. 1 - 1 + 1 : SubSeq(b, 1, 1)[i] = b[1 + i - 1] BY <2>2, SubSeqProperties
    <2>4. QED BY <2>3
  <1>10. QED BY <1>1, <1>5, <1>6, <1>7, <1>8, <1>9

\* The beginning of a chunk is read.
Begins(w, c) == Len(w) <= Len(c) /\ \A i \in 1 .. Len(w) : w[i] = c[i]

\* The reader is in the chunk after the first k, as the client sent it.
InChunk(r, b, p, k) ==
  LET c == ChunkData(p, k + 1)
      w == r.chunkSHA256Writer
  IN  /\ r.chunkSignature = First(p, k + 1)
      /\ r.lastChunk <=> k + 1 = TotalChunks(p)
      /\ \/ /\ r.state = "readChunk"
            /\ Begins(w, c) /\ r.n > 0 /\ r.n + Len(w) = Len(c)
            /\ b = Rest(p, Place(p, k) + 1 + Len(w))
         \/ r.state = "readChunkTrailer" /\ w = c /\ b = Rest(p, Place(p, k + 1) - 1)
         \/ r.state = "verifyChunk" /\ w = c /\ b = Rest(p, Place(p, k + 1))

\* It has verified the first k chunks.
Track(r, b, p, k) ==
  /\ r.seedSignature = First(p, k)
  /\ r.state # "eofChunk" => k < TotalChunks(p)
  /\ r.state = "readChunkHeader" => b = Rest(p, Place(p, k))
  /\ r.state \in {"readChunk", "readChunkTrailer", "verifyChunk"} => InChunk(r, b, p, k)

\* A body that arrives as it was sent is never refused: the reader knows where it is.
TrackInv ==
  intact => /\ outcome \in {"open", "eof"}
            /\ outcome = "open" =>
                 \E k \in 0 .. TotalChunks(payload) : Track(reader, body, payload, k)

\* The initial states have the invariant.
LEMMA TrackInit == ChunkInit => TrackInv
  <1> SUFFICES ASSUME ChunkInit, intact PROVE TrackInv
    BY DEF TrackInv
  <1>1. payload \in Payloads /\ body = Sent(payload) /\ reader = NewSignV4ChunkedReader /\ outcome = "open"
    BY DEF ChunkInit
  <1>2. TotalChunks(payload) \in Nat \ {0} /\ 0 \in 0 .. (TotalChunks(payload) - 1) BY <1>1, TotalIs
  <1>3. Place(payload, 0) = 0 BY <1>1, <1>2, PlaceIs
  <1>4. Rest(payload, 0) = body
    <2>1. PICK s, S : s = Stream(payload) /\ S = Tokens(payload) OBVIOUS
    <2>2. s \in Seq(S) /\ body = s BY <1>1, <2>1, SentIs
    <2>3. SubSeq(s, 1, Len(s)) = s BY <2>2, SubSeqFull
    <2>4. Rest(payload, 0) = SubSeq(s, 0 + 1, Len(s)) BY <2>1 DEF Rest
    <2>5. QED BY <2>2, <2>3, <2>4
  <1>5. First(payload, 0) = << >> BY DEF First
  <1>6. reader.state = "readChunkHeader" /\ reader.seedSignature = << >>
    BY <1>1 DEF NewSignV4ChunkedReader
  <1>7. Track(reader, body, payload, 0) BY <1>2, <1>3, <1>4, <1>5, <1>6 DEF Track
  <1>8. QED BY <1>1, <1>2, <1>7 DEF TrackInv

\* A header is read: of the next chunk.
LEMMA TrackHeader ==
  ASSUME NEW p \in Payloads, NEW k \in 0 .. (TotalChunks(p) - 1), NEW r, ReaderFits(r, p),
         r.state = "readChunkHeader", NEW b, Track(r, b, p, k)
  PROVE  /\ b # << >> /\ Head(b).kind = "header"
         /\ \A st, next :
              /\ st = IF Head(b).size = 0 THEN "readChunkTrailer" ELSE "readChunk"
              /\ next = [r EXCEPT !.n = Head(b).size, !.chunkSignature = Head(b).sig,
                                  !.lastChunk = @ \/ Head(b).size = 0, !.state = st]
              => Track(next, Tail(b), p, k)
  <1>1. PICK c, m, o : /\ c = ChunkData(p, k + 1) /\ m = Len(c) /\ o = Place(p, k) OBVIOUS
  <1>2. /\ o \in Nat /\ Place(p, k + 1) = o + m + 2 /\ m \in Nat
        /\ o + m + 2 <= Len(Stream(p)) /\ Len(Stream(p)) \in Nat
        /\ (m = 0 <=> k + 1 = TotalChunks(p))
    BY <1>1, StreamReaches
  <1>3. b = Rest(p, o) BY <1>1 DEF Track
  <1>4. o < Len(Stream(p)) BY <1>2
  <1>5. b # << >> /\ Head(b) = Stream(p)[o + 1] /\ Tail(b) = Rest(p, o + 1)
    BY <1>2, <1>3, <1>4, RestStarts
  <1>6. Head(b) = Header(m, First(p, k + 1)) BY <1>1, <1>5, StreamAt
  <1>7. Head(b).kind = "header" /\ Head(b).size = m /\ Head(b).sig = First(p, k + 1)
    BY <1>6 DEF Header
  <1>8. ASSUME NEW st, NEW next,
               st = IF Head(b).size = 0 THEN "readChunkTrailer" ELSE "readChunk",
               next = [r EXCEPT !.n = Head(b).size, !.chunkSignature = Head(b).sig,
                                !.lastChunk = @ \/ Head(b).size = 0, !.state = st]
        PROVE  Track(next, Tail(b), p, k)
    <2>1. /\ r.lastChunk = FALSE /\ r.chunkSHA256Writer = << >>
          /\ r = [state |-> r.state, n |-> r.n, lastChunk |-> r.lastChunk,
                  chunkSignature |-> r.chunkSignature,
                  chunkSHA256Writer |-> r.chunkSHA256Writer, seedSignature |-> r.seedSignature]
      BY DEF ReaderFits
    <2>2. PICK last \in BOOLEAN : last <=> m = 0 OBVIOUS
    <2>3. (FALSE \/ Head(b).size = 0) = last BY <1>7, <2>2
    <2>4. next = [state |-> st, n |-> m, lastChunk |-> last, chunkSignature |-> First(p, k + 1),
                  chunkSHA256Writer |-> << >>, seedSignature |-> r.seedSignature]
      BY <1>7, <1>8, <2>1, <2>3
    <2>5. r.seedSignature = First(p, k) BY DEF Track
    <2>6. k < TotalChunks(p) BY TotalIs
    <2>7. InChunk(next, Tail(b), p, k)
      <3>1. next.chunkSignature = First(p, k + 1) /\ (next.lastChunk <=> k + 1 = TotalChunks(p))
        BY <1>2, <2>2, <2>4
      <3>2. CASE m = 0
        <4>1. c = << >> BY <1>1, <3>2, ChunkIs, EmptySeq
        <4>2. (o + m + 2) - 1 = o + 1 BY <1>2, <3>2
        <4>3. Tail(b) = Rest(p, Place(p, k + 1) - 1) BY <1>2, <1>5, <4>2
        <4>4. next.state = "readChunkTrailer" /\ next.chunkSHA256Writer = c
          <5>1. st = "readChunkTrailer" BY <1>7, <1>8, <3>2
          <5>2. QED BY <2>4, <4>1, <5>1
        <4>5. QED BY <1>1, <3>1, <4>3, <4>4 DEF InChunk
      <3>3. CASE m # 0
        <4>1. next.state = "readChunk" /\ next.chunkSHA256Writer = << >> /\ next.n = m
          <5>1. st = "readChunk" BY <1>7, <1>8, <3>3
          <5>2. QED BY <2>4, <5>1
        <4>2. Len(<< >>) = 0 OBVIOUS
        <4>3. Begins(<< >>, c) BY <1>1, <1>2, <4>2 DEF Begins
        <4>4. m > 0 /\ m + 0 = m /\ o + 1 + 0 = o + 1 BY <1>2, <3>3
        <4>5. Tail(b) = Rest(p, Place(p, k) + 1 + Len(<< >>)) BY <1>1, <1>5, <4>2, <4>4
        <4>6. QED BY <1>1, <3>1, <4>1, <4>2, <4>3, <4>4, <4>5 DEF InChunk
      <3>4. QED BY <3>2, <3>3
    <2>8. next.seedSignature = First(p, k) /\ next.state # "readChunkHeader" /\ next.state # "eofChunk"
      BY <1>8, <2>4, <2>5
    <2>9. QED BY <2>6, <2>7, <2>8 DEF Track
  <1>9. QED BY <1>5, <1>7, <1>8

\* A line end is read: behind the data of the chunk.
LEMMA TrackTrailer ==
  ASSUME NEW p \in Payloads, NEW k \in 0 .. (TotalChunks(p) - 1), NEW r, ReaderFits(r, p),
         r.state = "readChunkTrailer", NEW b, Track(r, b, p, k)
  PROVE  /\ b # << >> /\ Head(b).kind = "crlf"
         /\ \A next : next = [r EXCEPT !.state = "verifyChunk"] => Track(next, Tail(b), p, k)
  <1>1. PICK c, m, o : /\ c = ChunkData(p, k + 1) /\ m = Len(c) /\ o = Place(p, k + 1) - 1 OBVIOUS
  <1>2. /\ o \in Nat /\ Place(p, k + 1) = o + 1 /\ o < Len(Stream(p))
    BY <1>1, StreamReaches
  <1>3. InChunk(r, b, p, k) BY DEF Track
  <1>4. /\ r.chunkSHA256Writer = c /\ b = Rest(p, o) /\ r.chunkSignature = First(p, k + 1)
        /\ r.lastChunk <=> k + 1 = TotalChunks(p)
    BY <1>1, <1>3 DEF InChunk
  <1>5. b # << >> /\ Head(b) = Stream(p)[o + 1] /\ Tail(b) = Rest(p, o + 1)
    BY <1>2, <1>4, RestStarts
  <1>6. Head(b).kind = "crlf"
    <2>1. Stream(p)[Place(p, k + 1)] = CRLF BY StreamAt
    <2>2. QED BY <1>2, <1>5, <2>1 DEF CRLF
  <1>7. ASSUME NEW next, next = [r EXCEPT !.state = "verifyChunk"]
        PROVE  Track(next, Tail(b), p, k)
    <2>1. next = [state |-> "verifyChunk", n |-> r.n, lastChunk |-> r.lastChunk,
                  chunkSignature |-> r.chunkSignature,
                  chunkSHA256Writer |-> r.chunkSHA256Writer, seedSignature |-> r.seedSignature]
      BY <1>7 DEF ReaderFits
    <2>2. r.seedSignature = First(p, k) BY DEF Track
    <2>3. k < TotalChunks(p) BY TotalIs
    <2>4. InChunk(next, Tail(b), p, k) BY <1>1, <1>2, <1>4, <1>5, <2>1 DEF InChunk
    <2>5. QED BY <2>1, <2>2, <2>3, <2>4 DEF Track
  <1>8. QED BY <1>5, <1>6, <1>7

\* A chunk that was sent is verified.
LEMMA TrackVerify ==
  ASSUME NEW p \in Payloads, NEW k \in 0 .. (TotalChunks(p) - 1), NEW r, ReaderFits(r, p),
         r.state = "verifyChunk", NEW b, Track(r, b, p, k)
  PROVE  /\ r.chunkSignature = Append(r.seedSignature, r.chunkSHA256Writer)
         /\ \A st, next :
              /\ st = IF r.lastChunk THEN "eofChunk" ELSE "readChunkHeader"
              /\ next = [r EXCEPT !.seedSignature = Append(r.seedSignature, r.chunkSHA256Writer),
                                  !.chunkSHA256Writer = <<>>, !.state = st]
              => Track(next, b, p, k + 1)
  <1>1. InChunk(r, b, p, k) /\ r.seedSignature = First(p, k) BY DEF Track
  <1>2. /\ r.chunkSHA256Writer = ChunkData(p, k + 1) /\ b = Rest(p, Place(p, k + 1))
        /\ r.chunkSignature = First(p, k + 1) /\ (r.lastChunk <=> k + 1 = TotalChunks(p))
    BY <1>1 DEF InChunk
  <1>3. First(p, k + 1) = Append(r.seedSignature, r.chunkSHA256Writer) BY <1>1, <1>2, FirstAppend
  <1>4. ASSUME NEW st, NEW next,
               st = IF r.lastChunk THEN "eofChunk" ELSE "readChunkHeader",
               next = [r EXCEPT !.seedSignature = Append(r.seedSignature, r.chunkSHA256Writer),
                                !.chunkSHA256Writer = <<>>, !.state = st]
        PROVE  Track(next, b, p, k + 1)
    <2>1. next = [state |-> st, n |-> r.n, lastChunk |-> r.lastChunk,
                  chunkSignature |-> r.chunkSignature,
                  chunkSHA256Writer |-> << >>, seedSignature |-> First(p, k + 1)]
      BY <1>3, <1>4 DEF ReaderFits
    <2>2. st # "eofChunk" => k + 1 < TotalChunks(p)
      <3>1. st # "eofChunk" => k + 1 # TotalChunks(p) BY <1>2, <1>4
      <3>2. TotalChunks(p) \in Nat BY TotalIs
      <3>3. QED BY <3>1, <3>2
    <2>3. next.seedSignature = First(p, k + 1) /\ next.state = st BY <2>1
    <2>4. st \in {"eofChunk", "readChunkHeader"} BY <1>4
    <2>5. b = Rest(p, Place(p, k + 1)) BY <1>2
    <2>6. QED BY <2>2, <2>3, <2>4, <2>5 DEF Track
  <1>5. QED BY <1>2, <1>3, <1>4

\* Data is read: of the chunk.
LEMMA TrackRead ==
  ASSUME NEW p \in Payloads, NEW k \in 0 .. (TotalChunks(p) - 1), NEW r, ReaderFits(r, p),
         r.state = "readChunk", NEW b, Track(r, b, p, k)
  PROVE  /\ b # << >>
         /\ \A n0 \in 1 .. Len(b) : \A st, next :
              /\ n0 <= r.n
              /\ st = IF r.n = n0 THEN "readChunkTrailer" ELSE "readChunk"
              /\ next = [r EXCEPT !.n = @ - n0, !.chunkSHA256Writer = @ \o SubSeq(b, 1, n0),
                                  !.state = st]
              => Track(next, SubSeq(b, n0 + 1, Len(b)), p, k)
  <1>1. PICK c, m, o, w, l, S : /\ c = ChunkData(p, k + 1) /\ m = Len(c) /\ w = r.chunkSHA256Writer
                                /\ l = Len(w) /\ o = Place(p, k) + 1 + l /\ S = Tokens(p)
    OBVIOUS
  <1>2. InChunk(r, b, p, k) BY DEF Track
  <1>3. /\ Begins(w, c) /\ r.n > 0 /\ r.n + l = m /\ b = Rest(p, o)
        /\ r.chunkSignature = First(p, k + 1) /\ (r.lastChunk <=> k + 1 = TotalChunks(p))
    BY <1>1, <1>2 DEF InChunk
  <1>4. w \in Seq(S) /\ r.n \in Nat BY <1>1 DEF ReaderFits
  <1>5. l \in Nat BY <1>1, <1>4, LenProperties
  <1>6. /\ Place(p, k) \in Nat /\ Place(p, k + 1) = Place(p, k) + m + 2 /\ m \in Nat
        /\ Place(p, k + 1) <= Len(Stream(p)) /\ Len(Stream(p)) \in Nat
    BY <1>1, StreamReaches
  <1>7. o \in Nat /\ o + r.n < Len(Stream(p)) /\ o < Len(Stream(p))
    <2>1. PICK q, e, z, n : q = Place(p, k) /\ e = Place(p, k + 1) /\ z = Len(Stream(p)) /\ n = r.n
      OBVIOUS
    <2>2. q \in Nat /\ e = q + m + 2 /\ m \in Nat /\ e <= z /\ z \in Nat BY <1>6, <2>1
    <2>3. n \in Nat /\ n > 0 /\ n + l = m /\ o = q + 1 + l BY <1>1, <1>3, <1>4, <2>1
    <2>4. o \in Nat /\ o + n < z /\ o < z BY <1>5, <2>2, <2>3
    <2>5. QED BY <2>1, <2>4
  <1>8. b # << >> BY <1>3, <1>7, RestStarts
  <1>9. ASSUME NEW n0 \in 1 .. Len(b), NEW st, NEW next, n0 <= r.n,
               st = IF r.n = n0 THEN "readChunkTrailer" ELSE "readChunk",
               next = [r EXCEPT !.n = @ - n0, !.chunkSHA256Writer = @ \o SubSeq(b, 1, n0),
                                !.state = st]
        PROVE  Track(next, SubSeq(b, n0 + 1, Len(b)), p, k)
    <2>1. n0 \in Nat /\ n0 >= 1
      <3>1. Len(b) = Len(Stream(p)) - o
        <4>1. 0 \in Nat /\ o + 0 <= Len(Stream(p)) BY <1>6, <1>7
        <4>2. Len(Rest(p, o)) = Len(Stream(p)) - o BY <1>7, <4>1, RestIs
        <4>3. QED BY <1>3, <4>2
      <3>2. PICK z, l0 : z = Len(Stream(p)) /\ l0 = Len(b) OBVIOUS
      <3>3. l0 = z - o /\ o \in Nat /\ z \in Nat /\ o < z BY <1>6, <1>7, <3>1, <3>2
      <3>4. l0 \in Nat BY <3>3
      <3>5. n0 \in 1 .. l0 BY <1>9, <3>2
      <3>6. QED BY <3>4, <3>5
    <2>2. o + n0 <= Len(Stream(p)) BY <1>4, <1>6, <1>7, <1>9, <2>1
    <2>3. PICK x, v, left : x = SubSeq(b, 1, n0) /\ v = w \o x /\ left = r.n - n0 OBVIOUS
    <2>4. /\ SubSeq(b, n0 + 1, Len(b)) = Rest(p, o + n0)
          /\ Len(x) = n0 /\ \A i \in 1 .. n0 : x[i] = Stream(p)[o + i]
      BY <1>3, <1>7, <2>1, <2>2, <2>3, RestIs
    <2>5. x \in Seq(S)
      <3>1. b \in Seq(S)
        <4>1. Stream(p) \in Seq(S) BY <1>1, SentIs
        <4>2. PICK s : s = Stream(p) OBVIOUS
        <4>3. \A i \in o + 1 .. Len(s) : s[i] \in S BY <1>6, <1>7, <4>1, <4>2, ElementOfSeq
        <4>4. SubSeq(s, o + 1, Len(s)) \in Seq(S) BY <1>6, <1>7, <4>2, <4>3, SubSeqProperties
        <4>5. QED BY <1>3, <4>2, <4>4 DEF Rest
      <3>2. Len(b) \in Nat /\ n0 <= Len(b) BY <3>1, LenProperties
      <3>3. \A i \in 1 .. n0 : b[i] \in S BY <2>1, <3>1, <3>2, ElementOfSeq
      <3>4. SubSeq(b, 1, n0) \in Seq(S) BY <2>1, <3>3, SubSeqProperties
      <3>5. QED BY <2>3, <3>4
    <2>6. \A i \in 1 .. n0 : x[i] = c[l + i]
      <3>1. SUFFICES ASSUME NEW i \in 1 .. n0 PROVE x[i] = c[l + i] OBVIOUS
      <3>2. x[i] = Stream(p)[o + i] BY <2>4
      <3>3. l + i \in 1 .. m /\ o + i = Place(p, k) + 1 + (l + i)
        <4>1. PICK q, n : q = Place(p, k) /\ n = r.n OBVIOUS
        <4>2. q \in Nat /\ n \in Nat /\ n + l = m /\ o = q + 1 + l /\ n0 <= n
          BY <1>1, <1>3, <1>4, <1>6, <1>9, <4>1
        <4>3. l + i \in 1 .. m /\ o + i = q + 1 + (l + i) BY <1>5, <2>1, <4>2
        <4>4. QED BY <4>1, <4>3
      <3>4. Stream(p)[Place(p, k) + 1 + (l + i)] = c[l + i]
        <4>1. \A j \in 1 .. m : Stream(p)[Place(p, k) + 1 + j] = c[j] BY <1>1, StreamAt
        <4>2. QED BY <3>3, <4>1
      <3>5. QED BY <3>2, <3>3, <3>4
    <2>7. v \in Seq(S) /\ Len(v) = l + n0
          /\ \A i \in 1 .. (l + n0) : v[i] = IF i <= l THEN w[i] ELSE x[i - l]
      <3>1. /\ w \o x \in Seq(S) /\ Len(w \o x) = Len(w) + Len(x)
            /\ \A i \in 1 .. (Len(w) + Len(x)) : (w \o x)[i] = IF i <= Len(w) THEN w[i] ELSE x[i - Len(w)]
        BY <1>4, <2>5, ConcatProperties
      <3>2. QED BY <1>1, <2>3, <2>4, <3>1
    <2>8. Begins(v, c)
      <3>1. l + n0 <= m BY <1>3, <1>4, <1>5, <1>6, <1>9, <2>1
      <3>2. ASSUME NEW i \in 1 .. (l + n0) PROVE v[i] = c[i]
        <4>1. CASE i <= l
          <5>1. v[i] = w[i] BY <2>7, <4>1
          <5>2. i \in 1 .. Len(w) BY <1>1, <1>5, <2>1, <4>1
          <5>3. QED BY <1>3, <5>1, <5>2 DEF Begins
        <4>2. CASE ~(i <= l)
          <5>1. v[i] = x[i - l] BY <2>7, <4>2
          <5>2. i - l \in 1 .. n0 /\ l + (i - l) = i BY <1>5, <2>1, <4>2
          <5>3. QED BY <2>6, <5>1, <5>2
        <4>3. QED BY <4>1, <4>2
      <3>3. QED BY <1>1, <2>7, <3>1, <3>2 DEF Begins
    <2>9. next = [state |-> st, n |-> left, lastChunk |-> r.lastChunk,
                  chunkSignature |-> r.chunkSignature,
                  chunkSHA256Writer |-> v, seedSignature |-> r.seedSignature]
      <3>1. r = [state |-> r.state, n |-> r.n, lastChunk |-> r.lastChunk,
                  chunkSignature |-> r.chunkSignature,
                  chunkSHA256Writer |-> r.chunkSHA256Writer, seedSignature |-> r.seedSignature]
        BY DEF ReaderFits
      <3>2. next = [r EXCEPT !.n = left, !.chunkSHA256Writer = v, !.state = st] BY <1>1, <1>9, <2>3
      <3>3. QED BY <3>1, <3>2
    <2>10. r.seedSignature = First(p, k) BY DEF Track
    <2>11. k < TotalChunks(p) BY TotalIs
    <2>12. PICK rest : rest = SubSeq(b, n0 + 1, Len(b)) OBVIOUS
    <2>13. rest = Rest(p, o + n0) BY <2>4, <2>12
    <2>14. InChunk(next, rest, p, k)
      <3>1. next.chunkSignature = First(p, k + 1) /\ (next.lastChunk <=> k + 1 = TotalChunks(p))
            /\ next.chunkSHA256Writer = v /\ next.n = left /\ next.state = st
        BY <1>3, <2>9
      <3>2. CASE r.n = n0
        <4>1. l + n0 = m BY <1>3, <1>4, <1>5, <2>1, <3>2
        <4>2. v = c
          <5>1. c \in Seq(S) BY <1>1, ChunkIs
          <5>2. Len(v) = Len(c) /\ \A i \in 1 .. Len(v) : v[i] = c[i]
            BY <1>1, <2>7, <2>8, <4>1 DEF Begins
          <5>3. QED BY <2>7, <5>1, <5>2, SeqEqual
        <4>3. o + n0 = Place(p, k + 1) - 1
          <5>1. PICK q, e : q = Place(p, k) /\ e = Place(p, k + 1) OBVIOUS
          <5>2. q \in Nat /\ e = q + m + 2 /\ m \in Nat /\ o = q + 1 + l BY <1>1, <1>6, <5>1
          <5>3. o + n0 = e - 1 BY <1>5, <2>1, <4>1, <5>2
          <5>4. QED BY <5>1, <5>3
        <4>4. st = "readChunkTrailer" BY <1>9, <3>2
        <4>5. rest = Rest(p, Place(p, k + 1) - 1) BY <2>13, <4>3
        <4>6. QED BY <1>1, <3>1, <4>2, <4>4, <4>5 DEF InChunk
      <3>3. CASE r.n # n0
        <4>1. st = "readChunk" BY <1>9, <3>3
        <4>2. left > 0 /\ left + (l + n0) = m BY <1>3, <1>4, <1>5, <1>9, <2>1, <2>3, <3>3
        <4>3. o + n0 = Place(p, k) + 1 + (l + n0) BY <1>1, <1>5, <1>6, <2>1
        <4>4. rest = Rest(p, Place(p, k) + 1 + Len(v)) BY <2>7, <2>13, <4>3
        <4>5. left + Len(v) = Len(c) BY <1>1, <2>7, <4>2
        <4>6. QED BY <1>1, <2>8, <3>1, <4>1, <4>2, <4>4, <4>5 DEF InChunk
      <3>4. QED BY <3>2, <3>3
    <2>15. next.seedSignature = First(p, k) /\ next.state # "readChunkHeader" BY <1>9, <2>9, <2>10
    <2>16. QED BY <2>11, <2>12, <2>14, <2>15 DEF Track
  <1>10. QED BY <1>8, <1>9

\* A step on the way leaves the upload open, after some chunks.
LEMMA TrackGoesOn ==
  ASSUME payload' = payload, outcome' = "open", NEW r, NEW b, reader' = r, body' = b,
         NEW k \in 0 .. TotalChunks(payload), Track(r, b, payload, k)
  PROVE  TrackInv'
  <1>1. PICK p : p = payload OBVIOUS
  <1>2. k \in 0 .. TotalChunks(p) /\ Track(r, b, p, k) BY <1>1
  <1>3. payload' = p BY <1>1
  <1>4. \E j \in 0 .. TotalChunks(payload') : Track(reader', body', payload', j) BY <1>2, <1>3
  <1>5. QED BY <1>4 DEF TrackInv

\* Every step keeps the invariant.
LEMMA TrackNext == IntegrityInv /\ TrackInv /\ [ChunkNext]_chunkVars => TrackInv'
  <1> SUFFICES ASSUME IntegrityInv, TrackInv, [ChunkNext]_chunkVars, intact' PROVE TrackInv'
    BY DEF TrackInv
  <1>1. PICK r, b, p : r = reader /\ b = body /\ p = payload OBVIOUS
  <1>2. p \in Payloads /\ ReaderFits(r, p) BY <1>1 DEF IntegrityInv
  <1>3. TotalChunks(p) \in Nat \ {0} BY <1>2, TotalIs
  <1>4. payload' = payload /\ intact' = intact
    BY DEF ChunkNext, Read, ReadChunkHeader, ReadChunkTrailer, ReadChunk, VerifyChunk, EOFChunk,
           Fails, chunkVars
  <1>5. intact /\ outcome \in {"open", "eof"} BY <1>4 DEF TrackInv
  <1>6. CASE outcome # "open"
    <2>1. UNCHANGED <<outcome, reader, body>>
      BY <1>6 DEF ChunkNext, Read, ReadChunkHeader, ReadChunkTrailer, ReadChunk, VerifyChunk,
                  EOFChunk, InState, chunkVars
    <2>2. QED BY <1>5, <1>6, <2>1 DEF TrackInv
  <1>7. CASE outcome = "open"
    <2>1. PICK k \in 0 .. TotalChunks(p) : Track(r, b, p, k) BY <1>1, <1>5, <1>7 DEF TrackInv
    <2>2. r.state # "eofChunk" => k \in 0 .. (TotalChunks(p) - 1) BY <1>3, <2>1 DEF Track
    <2>3. k \in 0 .. TotalChunks(payload) /\ Track(r, b, payload, k) BY <1>1, <2>1
    <2>4. ASSUME NEW n \in BufferSizes, Read(n) PROVE TrackInv'
      <3>1. payload' = payload /\ outcome' = "open" /\ reader' = r /\ body' = b
        BY <1>1, <1>7, <2>4 DEF Read
      <3>2. QED BY <2>3, <3>1, TrackGoesOn
    <2>5. CASE ReadChunkHeader
      <3>1. r.state = "readChunkHeader" BY <1>1, <2>5 DEF ReadChunkHeader, InState
      <3>2. k \in 0 .. (TotalChunks(p) - 1) BY <2>2, <3>1
      <3>3. PICK st, next, rest :
              /\ st = IF Head(b).size = 0 THEN "readChunkTrailer" ELSE "readChunk"
              /\ next = [r EXCEPT !.n = Head(b).size, !.chunkSignature = Head(b).sig,
                                  !.lastChunk = @ \/ Head(b).size = 0, !.state = st]
              /\ rest = Tail(b)
        OBVIOUS
      <3>4. b # << >> /\ Head(b).kind = "header" /\ Track(next, rest, p, k)
        BY <1>2, <2>1, <3>1, <3>2, <3>3, TrackHeader
      <3>5. reader' = next /\ body' = rest /\ outcome' = "open"
        BY <1>1, <1>7, <2>5, <3>3, <3>4 DEF ReadChunkHeader
      <3>6. Track(next, rest, payload, k) BY <1>1, <3>4
      <3>7. QED BY <1>4, <2>3, <3>5, <3>6, TrackGoesOn
    <2>6. CASE ReadChunkTrailer
      <3>1. r.state = "readChunkTrailer" BY <1>1, <2>6 DEF ReadChunkTrailer, InState
      <3>2. k \in 0 .. (TotalChunks(p) - 1) BY <2>2, <3>1
      <3>3. PICK next, rest : next = [r EXCEPT !.state = "verifyChunk"] /\ rest = Tail(b) OBVIOUS
      <3>4. b # << >> /\ Head(b).kind = "crlf" /\ Track(next, rest, p, k)
        BY <1>2, <2>1, <3>1, <3>2, <3>3, TrackTrailer
      <3>5. reader' = next /\ body' = rest /\ outcome' = "open"
        BY <1>1, <1>7, <2>6, <3>3, <3>4 DEF ReadChunkTrailer
      <3>6. Track(next, rest, payload, k) BY <1>1, <3>4
      <3>7. QED BY <1>4, <2>3, <3>5, <3>6, TrackGoesOn
    <2>7. CASE ReadChunk
      <3>1. r.state = "readChunk" BY <1>1, <2>7 DEF ReadChunk, InState
      <3>2. k \in 0 .. (TotalChunks(p) - 1) BY <2>2, <3>1
      <3>3. b # << >> BY <1>2, <2>1, <3>1, <3>2, TrackRead
      <3>4. CASE call.room = 0 /\ UNCHANGED <<payload, intact, body, reader, outcome>>
        <4>1. reader' = r /\ body' = b /\ outcome' = "open" BY <1>1, <1>7, <3>4
        <4>2. QED BY <1>4, <2>3, <4>1, TrackGoesOn
      <3>5. ASSUME NEW n0 \in 1 .. Len(body), n0 <= reader.n,
                   body' = SubSeq(body, n0 + 1, Len(body)),
                   reader' = [reader EXCEPT
                     !.n = @ - n0,
                     !.chunkSHA256Writer = @ \o SubSeq(body, 1, n0),
                     !.state = IF reader.n = n0 THEN "readChunkTrailer" ELSE @],
                   UNCHANGED outcome
            PROVE  TrackInv'
        <4>1. PICK st, next, rest :
                /\ st = IF r.n = n0 THEN "readChunkTrailer" ELSE "readChunk"
                /\ next = [r EXCEPT !.n = @ - n0, !.chunkSHA256Writer = @ \o SubSeq(b, 1, n0),
                                    !.state = st]
                /\ rest = SubSeq(b, n0 + 1, Len(b))
          OBVIOUS
        <4>2. n0 \in 1 .. Len(b) /\ n0 <= r.n BY <1>1, <3>5
        <4>3. Track(next, rest, p, k) BY <1>2, <2>1, <3>1, <3>2, <4>1, <4>2, TrackRead
        <4>4. reader' = next /\ body' = rest /\ outcome' = "open" BY <1>1, <1>7, <3>1, <3>5, <4>1
        <4>5. Track(next, rest, payload, k) BY <1>1, <4>3
        <4>6. QED BY <1>4, <2>3, <4>4, <4>5, TrackGoesOn
      <3>6. QED BY <1>1, <2>7, <3>3, <3>4, <3>5 DEF ReadChunk
    <2>8. CASE VerifyChunk
      <3>1. r.state = "verifyChunk" BY <1>1, <2>8 DEF VerifyChunk, InState
      <3>2. k \in 0 .. (TotalChunks(p) - 1) BY <2>2, <3>1
      <3>3. PICK st, next :
              /\ st = IF r.lastChunk THEN "eofChunk" ELSE "readChunkHeader"
              /\ next = [r EXCEPT !.seedSignature = Append(r.seedSignature, r.chunkSHA256Writer),
                                  !.chunkSHA256Writer = <<>>, !.state = st]
        OBVIOUS
      <3>4. /\ r.chunkSignature = Append(r.seedSignature, r.chunkSHA256Writer)
            /\ Track(next, b, p, k + 1)
        BY <1>2, <2>1, <3>1, <3>2, <3>3, TrackVerify
      <3>5. reader' = next /\ body' = b /\ outcome' = "open"
        BY <1>1, <1>7, <2>8, <3>3, <3>4 DEF VerifyChunk
      <3>6. Track(next, b, payload, k + 1) /\ k + 1 \in 0 .. TotalChunks(payload)
        BY <1>1, <1>3, <3>2, <3>4
      <3>7. QED BY <1>4, <3>5, <3>6, TrackGoesOn
    <2>9. CASE EOFChunk BY <1>5, <2>9 DEF EOFChunk, TrackInv
    <2>10. CASE UNCHANGED chunkVars
      <3>1. payload' = payload /\ outcome' = "open" /\ reader' = r /\ body' = b
        BY <1>1, <1>7, <2>10 DEF chunkVars
      <3>2. QED BY <2>3, <3>1, TrackGoesOn
    <2>11. QED BY <2>4, <2>5, <2>6, <2>7, <2>8, <2>9, <2>10 DEF ChunkNext
  <1>8. QED BY <1>6, <1>7

\* The two invariants say what StreamIsSigned does.
LEMMA StreamFollows == IntegrityInv /\ TrackInv => StreamIsSigned
  <1> SUFFICES ASSUME IntegrityInv, TrackInv PROVE StreamIsSigned
    OBVIOUS
  <1>1. payload \in Payloads /\ ReaderFits(reader, payload) BY DEF IntegrityInv
  <1>2. PICK r, p : r = reader /\ p = payload OBVIOUS
  <1>3. IsPrefix(FlattenSeq(r.seedSignature), Bytes(p)) BY <1>1, <1>2, HandedIs
  <1>4. /\ outcome = "eof" => delivered = Bytes(payload)
        /\ IsPrefix(delivered, Handed(reader))
    BY DEF IntegrityInv
  <1>5. IsPrefix(delivered, FlattenSeq(reader.seedSignature) \o reader.chunkSHA256Writer)
    BY <1>4 DEF Handed
  <1>6. IsPrefix(FlattenSeq(reader.seedSignature), Bytes(payload)) BY <1>2, <1>3
  <1>7. intact => outcome \in {"open", "eof"} BY DEF TrackInv
  <1>8. QED BY <1>4, <1>5, <1>6, <1>7 DEF StreamIsSigned

\* s3ChunkedReader.Read has verified first chunks of the client and nothing else,
\* and on a body that was left alone it is where the client's chunks are.
THEOREM ChunkInvAlways == ChunkSpec => [](IntegrityInv /\ TrackInv)
  <1>1. ChunkInit => IntegrityInv /\ TrackInv BY IntegrityInit, TrackInit
  <1>2. (IntegrityInv /\ TrackInv) /\ [ChunkNext]_chunkVars => (IntegrityInv /\ TrackInv)'
    BY IntegrityNext, TrackNext
  <1>3. QED BY <1>1, <1>2, PTL DEF ChunkSpec

\* StreamIsSigned: what s3ChunkedReader hands out is what the client signed, for
\* any chunk size, payload, buffer and change on the way, and a body that was left
\* alone is accepted.
THEOREM StreamIsSignedAlways == ChunkSpec => []StreamIsSigned
  BY ChunkInvAlways, StreamFollows, PTL
=============================================================================
