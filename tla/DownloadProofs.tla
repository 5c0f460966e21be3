---------------------------- MODULE DownloadProofs ----------------------------
(***************************************************************************)
(* Proofs about the loaders that download from a server, and about the     *)
(* functions of URLStringUtil they split urls with.                        *)
(*                                                                         *)
(*   - URLStringUtil: each function returns the one way its grammar        *)
(*     derives a url, for urls of any length;                              *)
(*   - SFTPDevice: a download delivers the whole file or nothing, and      *)
(*     answers once;                                                       *)
(*   - HTTPDevice: a running deadline guards the phase the load is in, and *)
(*     a load is answered once;                                            *)
(*   - WSDevice: the one path that answers twice is the failed resolver's, *)
(*     and the context is stopped under a load only after such a second    *)
(*     answer.                                                             *)
(*                                                                         *)
(* The devices share no state: each theorem is about the specification of  *)
(* one of them (Spec, HttpSpec, WsSpec), whatever the others do.           *)
(***************************************************************************)
EXTENDS SFTPDevice, HTTPDevice, WSDevice, FiniteSetTheorems, SequenceTheorems, WellFoundedInduction, TLAPS

-----------------------------------------------------------------------------
(* Positions in a sequence. *)

\* The natural numbers are well founded: this takes the place of an induction.
LEMMA SmallestExists ==
  ASSUME NEW I \in SUBSET Nat, I # {}
  PROVE  \E x \in I : \A y \in I : x <= y
<1> DEFINE R == OpToRel(<, Nat)
<1>1. \E x \in I : \A y \in I : ~(<<y, x>> \in R)
  <2>1. IsWellFoundedOn(R, Nat)
    BY NatLessThanWellFounded
  <2> HIDE DEF R
  <2> QED BY <2>1, WFMin
<1>2. \A x, y \in Nat : ~(<<y, x>> \in R) => x <= y
  BY DEF OpToRel
<1> QED BY <1>1, <1>2

LEMMA LargestExists ==
  ASSUME NEW n \in Nat, NEW I \in SUBSET (0..n), I # {}
  PROVE  \E x \in I : \A y \in I : x >= y
<1> DEFINE J == {n - i : i \in I}
<1>1. J \in SUBSET Nat /\ J # {} /\ \A i \in I : n - i \in J
  <2>1. \A i \in I : n - i \in Nat
    OBVIOUS
  <2>2. \A i \in I : n - i \in J
    OBVIOUS
  <2>3. PICK i \in I : TRUE
    OBVIOUS
  <2>4. n - i \in J
    BY <2>2
  <2>5. J \subseteq Nat
    BY <2>1
  <2> QED BY <2>2, <2>4, <2>5
<1>2. PICK x \in I : \A k \in J : n - x <= k
  <2>1. PICK j \in J : \A k \in J : j <= k
    <3> HIDE DEF J
    <3> QED BY <1>1, SmallestExists
  <2> QED BY <2>1
<1> HIDE DEF J
<1>3. \A y \in I : n - x <= n - y
  BY <1>1, <1>2
<1> QED BY <1>3

LEMMA MinProperties ==
  ASSUME NEW I \in SUBSET Nat, I # {}
  PROVE  Min(I) \in I /\ \A y \in I : Min(I) <= y
BY SmallestExists DEF Min

LEMMA MaxProperties ==
  ASSUME NEW n \in Nat, NEW I \in SUBSET (0..n), I # {}
  PROVE  Max(I) \in I /\ \A y \in I : Max(I) >= y
BY LargestExists DEF Max

\* std::string::find returns the first position of c, or npos if there is none.
LEMMA FindProperties ==
  ASSUME NEW S, NEW s \in Seq(S), NEW c
  PROVE  \/ Find(s, c) = 0 /\ \A i \in 1..Len(s) : s[i] # c
         \/ /\ Find(s, c) \in 1..Len(s) /\ s[Find(s, c)] = c
            /\ \A i \in 1..Len(s) : s[i] = c => Find(s, c) <= i
<1> DEFINE I == {i \in 1..Len(s) : s[i] = c}
<1>1. Find(s, c) = IF I # {} THEN Min(I) ELSE 0
  BY DEF Find, SelectInSeq
<1>2. I \in SUBSET Nat
  OBVIOUS
<1>3. I # {} => Min(I) \in I /\ \A y \in I : Min(I) <= y
  BY <1>2, MinProperties
<1> QED BY <1>1, <1>3

\* rfind returns the last one.
LEMMA RFindProperties ==
  ASSUME NEW S, NEW s \in Seq(S), NEW c
  PROVE  \/ RFind(s, c) = 0 /\ \A i \in 1..Len(s) : s[i] # c
         \/ /\ RFind(s, c) \in 1..Len(s) /\ s[RFind(s, c)] = c
            /\ \A i \in 1..Len(s) : s[i] = c => RFind(s, c) >= i
<1> DEFINE I == {i \in 1..Len(s) : s[i] = c}
<1>1. RFind(s, c) = IF I # {} THEN Max(I) ELSE 0
  BY DEF RFind, SelectLastInSeq
<1>2. Len(s) \in Nat /\ I \in SUBSET (0..Len(s))
  BY LenProperties
<1>3. I # {} => Max(I) \in I /\ \A y \in I : Max(I) >= y
  BY <1>2, MaxProperties
<1> QED BY <1>1, <1>3

LEMMA HasProperties ==
  ASSUME NEW S, NEW s \in Seq(S), NEW c
  PROVE  Has(s, c) <=> \E i \in 1..Len(s) : s[i] = c
BY FindProperties DEF Has

\* What substr takes from a sequence.
LEMMA BeforeProperties ==
  ASSUME NEW S, NEW s \in Seq(S), NEW i \in 1..(Len(s) + 1)
  PROVE  /\ Before(s, i) \in Seq(S) /\ Len(Before(s, i)) = i - 1
         /\ \A j \in 1..(i - 1) : Before(s, i)[j] = s[j]
         /\ Before(s, i) = Empty <=> i = 1
<1>1. Len(s) \in Nat /\ \A j \in 1..(i - 1) : s[j] \in S
  BY LenProperties, ElementOfSeq
<1>2. /\ Before(s, i) \in Seq(S) /\ Len(Before(s, i)) = i - 1
      /\ \A j \in 1..(i - 1) : Before(s, i)[j] = s[j]
  <2>1. i - 1 \in Int /\ 1 \in Int /\ (1 <= i - 1 \/ i - 1 = 0)
    BY <1>1
  <2>2. /\ SubSeq(s, 1, i - 1) \in Seq(S)
        /\ Len(SubSeq(s, 1, i - 1)) = IF 1 <= i - 1 THEN (i - 1) - 1 + 1 ELSE 0
        /\ \A j \in 1..((i - 1) - 1 + 1) : SubSeq(s, 1, i - 1)[j] = s[1 + j - 1]
    BY <1>1, <2>1, SubSeqProperties
  <2> QED BY <1>1, <2>1, <2>2 DEF Before
<1>3. Before(s, i) = Empty <=> i = 1
  BY <1>1, <1>2, EmptySeq DEF Empty
<1> QED BY <1>2, <1>3

LEMMA FromProperties ==
  ASSUME NEW S, NEW s \in Seq(S), NEW i \in 1..(Len(s) + 1)
  PROVE  /\ From(s, i) \in Seq(S) /\ Len(From(s, i)) = Len(s) - i + 1
         /\ \A j \in 1..(Len(s) - i + 1) : From(s, i)[j] = s[i + j - 1]
         /\ From(s, i) = Empty <=> i = Len(s) + 1
<1>1. Len(s) \in Nat /\ \A j \in i..Len(s) : s[j] \in S
  BY LenProperties, ElementOfSeq
<1>2. /\ From(s, i) \in Seq(S) /\ Len(From(s, i)) = Len(s) - i + 1
      /\ \A j \in 1..(Len(s) - i + 1) : From(s, i)[j] = s[i + j - 1]
  <2>1. i \in Int /\ Len(s) \in Int /\ (i <= Len(s) \/ i = Len(s) + 1)
    BY <1>1
  <2>2. /\ SubSeq(s, i, Len(s)) \in Seq(S)
        /\ Len(SubSeq(s, i, Len(s))) = IF i <= Len(s) THEN Len(s) - i + 1 ELSE 0
        /\ \A j \in 1..(Len(s) - i + 1) : SubSeq(s, i, Len(s))[j] = s[i + j - 1]
    BY <1>1, <2>1, SubSeqProperties
  <2> QED BY <1>1, <2>1, <2>2 DEF From
<1>3. From(s, i) = Empty <=> i = Len(s) + 1
  BY <1>1, <1>2, EmptySeq DEF Empty
<1> QED BY <1>2, <1>3

\* The rest of a sequence from a symbol on, put together again.
LEMMA FromSplits ==
  ASSUME NEW S, NEW s \in Seq(S), NEW i \in 1..Len(s)
  PROVE  From(s, i) = <<s[i]>> \o From(s, i + 1) /\ Tail(From(s, i)) = From(s, i + 1)
<1>1. Len(s) \in i..Len(s)
  BY LenProperties
<1> QED BY <1>1, SubSeqRecursiveFirst, HeadTailOfSubSeq DEF From

LEMMA Whole ==
  ASSUME NEW S, NEW s \in Seq(S)
  PROVE  From(s, 1) = s /\ Before(s, 0) = Empty
<1>1. SubSeq(s, 1, 0 - 1) = << >>
  BY SubSeqEmpty
<1> QED BY <1>1, SubSeqFull DEF From, Before, Empty

-----------------------------------------------------------------------------
(* The ways to split a sequence. *)

\* The pair of what is before and after position i.
Around(s, i) == <<Before(s, i), From(s, i + 1)>>

LEMMA AroundProperties ==
  ASSUME NEW S, NEW s \in Seq(S), NEW i \in 1..Len(s)
  PROVE  /\ Around(s, i)[1] = Before(s, i) /\ Around(s, i)[2] = From(s, i + 1)
         /\ Before(s, i) \in Seq(S) /\ From(s, i + 1) \in Seq(S)
         /\ Before(s, i) = Empty <=> i = 1
         /\ From(s, i + 1) = Empty <=> i = Len(s)
         /\ \A c : Has(Before(s, i), c) <=> \E j \in 1..(i - 1) : s[j] = c
         /\ \A c : Has(From(s, i + 1), c) <=> \E j \in (i + 1)..Len(s) : s[j] = c
<1>1. Len(s) \in Nat /\ i \in 1..(Len(s) + 1) /\ i + 1 \in 1..(Len(s) + 1)
  BY LenProperties
<1>2. /\ Before(s, i) \in Seq(S) /\ Len(Before(s, i)) = i - 1
      /\ \A j \in 1..(i - 1) : Before(s, i)[j] = s[j]
      /\ Before(s, i) = Empty <=> i = 1
  BY <1>1, BeforeProperties
<1>3. /\ From(s, i + 1) \in Seq(S) /\ Len(From(s, i + 1)) = Len(s) - i
      /\ \A j \in 1..(Len(s) - i) : From(s, i + 1)[j] = s[i + j]
      /\ From(s, i + 1) = Empty <=> i = Len(s)
  <2>1. Len(s) - (i + 1) + 1 = Len(s) - i /\ \A j \in 1..(Len(s) - i) : (i + 1) + j - 1 = i + j
    BY <1>1
  <2>2. i + 1 = Len(s) + 1 <=> i = Len(s)
    BY <1>1
  <2>3. /\ From(s, i + 1) \in Seq(S) /\ Len(From(s, i + 1)) = Len(s) - (i + 1) + 1
        /\ \A j \in 1..(Len(s) - (i + 1) + 1) : From(s, i + 1)[j] = s[(i + 1) + j - 1]
        /\ From(s, i + 1) = Empty <=> i + 1 = Len(s) + 1
    BY <1>1, FromProperties
  <2> QED BY <2>1, <2>2, <2>3
<1>4. ASSUME NEW c PROVE Has(Before(s, i), c) <=> \E j \in 1..(i - 1) : s[j] = c
  BY <1>2, HasProperties
<1>5. ASSUME NEW c PROVE Has(From(s, i + 1), c) <=> \E j \in (i + 1)..Len(s) : s[j] = c
  <2>1. Has(From(s, i + 1), c) <=> \E j \in 1..(Len(s) - i) : s[i + j] = c
    <3>1. Has(From(s, i + 1), c) <=> \E j \in 1..Len(From(s, i + 1)) : From(s, i + 1)[j] = c
      BY <1>3, HasProperties
    <3> QED BY <1>3, <3>1
  <2>2. ASSUME NEW j \in (i + 1)..Len(s), s[j] = c PROVE \E k \in 1..(Len(s) - i) : s[i + k] = c
    <3>1. j - i \in 1..(Len(s) - i) /\ i + (j - i) = j
      BY <1>1
    <3> QED BY <2>2, <3>1
  <2>3. \A k \in 1..(Len(s) - i) : i + k \in (i + 1)..Len(s)
    BY <1>1
  <2> QED BY <2>1, <2>2, <2>3
<1> QED BY <1>2, <1>3, <1>4, <1>5 DEF Around

LEMMA SplitsAtPositions ==
  ASSUME NEW S, NEW s \in Seq(S), NEW c
  PROVE  SplitsAt(s, c) = {Around(s, i) : i \in {j \in 1..Len(s) : s[j] = c}}
<1> DEFINE Split(i) == <<SubSeq(s, 1, i), SubSeq(s, i + 1, Len(s))>>
<1>1. Len(s) \in Nat
  BY LenProperties
<1>2. ASSUME NEW i \in 0..Len(s)
      PROVE  /\ Split(i)[2] # Empty /\ Split(i)[2][1] = c <=> i + 1 \in 1..Len(s) /\ s[i + 1] = c
             /\ i + 1 \in 1..Len(s) => <<Split(i)[1], Tail(Split(i)[2])>> = Around(s, i + 1)
  <2>1. i + 1 \in 1..(Len(s) + 1) /\ Split(i)[2] = From(s, i + 1)
    BY <1>1 DEF From
  <2>2. From(s, i + 1) # Empty <=> i + 1 \in 1..Len(s)
    BY <1>1, <2>1, FromProperties
  <2>3. ASSUME i + 1 \in 1..Len(s)
        PROVE  /\ From(s, i + 1)[1] = s[i + 1] /\ Tail(From(s, i + 1)) = From(s, i + 2)
               /\ Before(s, i + 1) = SubSeq(s, 1, i)
    <3>1. 1 \in 1..(Len(s) - (i + 1) + 1) /\ (i + 1) + 1 - 1 = i + 1 /\ (i + 1) + 1 = i + 2
          /\ (i + 1) - 1 = i
      BY <1>1, <2>3
    <3>2. From(s, i + 1)[1] = s[i + 1]
      BY <2>1, <3>1, FromProperties
    <3> QED BY <2>3, <3>1, <3>2, FromSplits DEF Before
  <2>4. (i + 1) + 1 = i + 2
    BY <1>1
  <2> QED BY <2>1, <2>2, <2>3, <2>4 DEF Around
<1>3. SplitsAt(s, c) = {<<p[1], Tail(p[2])>> : p \in {q \in {Split(i) : i \in 0..Len(s)} :
                                                        q[2] # Empty /\ q[2][1] = c}}
  BY DEF SplitsAt, Splits
<1>4. ASSUME NEW x \in SplitsAt(s, c)
      PROVE  x \in {Around(s, i) : i \in {j \in 1..Len(s) : s[j] = c}}
  <2>1. PICK i \in 0..Len(s) : /\ Split(i)[2] # Empty /\ Split(i)[2][1] = c
                               /\ x = <<Split(i)[1], Tail(Split(i)[2])>>
    BY <1>3, <1>4
  <2> HIDE DEF Split
  <2> QED BY <1>2, <2>1
<1>5. ASSUME NEW i \in 1..Len(s), s[i] = c
      PROVE  Around(s, i) \in SplitsAt(s, c)
  <2>1. i - 1 \in 0..Len(s) /\ (i - 1) + 1 = i
    BY <1>1
  <2>2. Split(i - 1)[2] # Empty /\ Split(i - 1)[2][1] = c
        /\ <<Split(i - 1)[1], Tail(Split(i - 1)[2])>> = Around(s, i)
    <3> HIDE DEF Split
    <3> QED BY <1>2, <1>5, <2>1
  <2> HIDE DEF Split
  <2> QED BY <1>3, <2>1, <2>2
<1> QED BY <1>4, <1>5

\* There is one way to split a sequence at its first c, if it has one.
LEMMA FirstSplit ==
  ASSUME NEW S, NEW s \in Seq(S), NEW c
  PROVE  FirstSplits(s, c) = IF Has(s, c) THEN {Around(s, Find(s, c))} ELSE {}
<1>1. FirstSplits(s, c) = {p \in {Around(s, i) : i \in {j \in 1..Len(s) : s[j] = c}} : ~Has(p[1], c)}
  BY SplitsAtPositions DEF FirstSplits
<1>2. Len(s) \in Nat
  BY LenProperties
<1>3. ASSUME NEW i \in 1..Len(s), s[i] = c
      PROVE  Has(s, c) /\ (~Has(Around(s, i)[1], c) <=> i = Find(s, c))
  <2>1. /\ Find(s, c) \in 1..Len(s) /\ s[Find(s, c)] = c
        /\ \A j \in 1..Len(s) : s[j] = c => Find(s, c) <= j
    BY <1>3, FindProperties
  <2>2. Has(Around(s, i)[1], c) <=> \E j \in 1..(i - 1) : s[j] = c
    BY AroundProperties
  <2>3. (\E j \in 1..(i - 1) : s[j] = c) <=> i # Find(s, c)
    BY <1>2, <1>3, <2>1
  <2> QED BY <2>1, <2>2, <2>3 DEF Has
<1>4. ASSUME Has(s, c) PROVE Find(s, c) \in 1..Len(s) /\ s[Find(s, c)] = c
  BY <1>4, FindProperties DEF Has
<1> QED BY <1>1, <1>3, <1>4

\* parseIPFSUrl accepts what its grammar derives, and returns the one derivation.
LEMMA IPFSUrls ==
  ASSUME NEW u \in Seq(Symbols)
  PROVE  LET i == parseIPFSUrl(u)
         IN  IPFSGrammar(u) = IF i.ok THEN {[cid |-> i.cid, file |-> i.file]} ELSE {}
<1> DEFINE f == Find(u, "/")
<1>1. FirstSplits(u, "/") = IF f # 0 THEN {Around(u, f)} ELSE {}
  BY FirstSplit DEF Has
<1>2. f # 0 => f \in 1..Len(u)
  BY FindProperties
<1>3. ASSUME f # 0
      PROVE  /\ Around(u, f)[1] = Before(u, f) /\ Around(u, f)[2] = From(u, f + 1)
             /\ Before(u, f) # Empty <=> f > 1
  <2>1. f \in 1..Len(u) /\ (f > 1 <=> f # 1)
    BY <1>2, <1>3
  <2> QED BY <2>1, AroundProperties
<1>4. CASE f = 0
  BY <1>1, <1>4 DEF IPFSGrammar, parseIPFSUrl
<1>5. CASE f # 0
  <2>1. /\ parseIPFSUrl(u).ok = (f > 1)
        /\ parseIPFSUrl(u).cid = Before(u, f) /\ parseIPFSUrl(u).file = From(u, f + 1)
    BY <1>5 DEF parseIPFSUrl
  <2>2. IPFSGrammar(u) = {[cid |-> p[1], file |-> p[2]] : p \in {q \in {Around(u, f)} : q[1] # Empty}}
    BY <1>1, <1>5 DEF IPFSGrammar
  <2> HIDE DEF f
  <2>3. CASE f > 1
    <3>1. {q \in {Around(u, f)} : q[1] # Empty} = {Around(u, f)}
      BY <1>3, <1>5, <2>3
    <3>2. IPFSGrammar(u) = {[cid |-> Around(u, f)[1], file |-> Around(u, f)[2]]}
      BY <2>2, <3>1
    <3> QED BY <1>3, <1>5, <2>1, <2>3, <3>2
  <2>4. CASE ~(f > 1)
    <3>1. {q \in {Around(u, f)} : q[1] # Empty} = {}
      BY <1>3, <1>5, <2>4
    <3>2. IPFSGrammar(u) = {}
      BY <2>2, <3>1
    <3> QED BY <2>1, <2>4, <3>2
  <2> QED BY <2>3, <2>4
<1> QED BY <1>4, <1>5

\* parseHTTPUrl does so too.
LEMMA HTTPUrls ==
  ASSUME NEW u \in Seq(Symbols)
  PROVE  LET h == parseHTTPUrl(u)
         IN  HTTPGrammar(u) = IF h.ok THEN {[host |-> h.host, port |-> h.port, path |-> h.path]} ELSE {}
<1> DEFINE f == Find(u, "/")
           A == Before(u, f)
           k == Find(A, ":")
           w == From(u, f)
           Host(p) == {[host |-> q[1], port |-> q[2], path |-> <<"/">> \o p[2]] :
                         q \in {r \in FirstSplits(p[1], ":") : r[1] # Empty /\ r[2] # Empty}}
           Bare(p) == IF Has(p[1], ":") \/ p[1] = Empty THEN {}
                      ELSE {[host |-> p[1], port |-> DefaultPort, path |-> <<"/">> \o p[2]]}
<1>1. FirstSplits(u, "/") = IF f # 0 THEN {Around(u, f)} ELSE {}
  BY FirstSplit DEF Has
<1>2. HTTPGrammar(u) = UNION {Host(p) \cup Bare(p) : p \in FirstSplits(u, "/")}
  BY DEF HTTPGrammar
<1>3. CASE f = 0
  <2>1. HTTPGrammar(u) = {}
    <3> HIDE DEF Host, Bare, f
    <3> QED BY <1>1, <1>2, <1>3
  <2>2. parseHTTPUrl(u).ok = FALSE
    BY <1>3 DEF parseHTTPUrl
  <2> QED BY <2>1, <2>2
<1>4. CASE f # 0
  <2>1. f \in 1..Len(u) /\ u[f] = "/"
    BY <1>4, FindProperties
  <2>2. /\ Around(u, f)[1] = A /\ Around(u, f)[2] = From(u, f + 1) /\ A \in Seq(Symbols)
        /\ <<"/">> \o From(u, f + 1) = w
    <3> HIDE DEF f
    <3>1. w = <<u[f]>> \o From(u, f + 1)
      BY <2>1, FromSplits
    <3>2. Around(u, f)[1] = A /\ Around(u, f)[2] = From(u, f + 1) /\ A \in Seq(Symbols)
      BY <2>1, AroundProperties
    <3> QED BY <2>1, <3>1, <3>2
  <2>3. FirstSplits(A, ":") = IF k # 0 THEN {Around(A, k)} ELSE {}
    BY <2>2, FirstSplit DEF Has
  <2>4. HTTPGrammar(u) = Host(Around(u, f)) \cup Bare(Around(u, f))
    <3> HIDE DEF Host, Bare, f
    <3> QED BY <1>1, <1>2, <1>4
  <2>5. HTTPGrammar(u) =
           {[host |-> q[1], port |-> q[2], path |-> w] :
              q \in {r \in FirstSplits(A, ":") : r[1] # Empty /\ r[2] # Empty}}
           \cup (IF k # 0 \/ A = Empty THEN {}
                 ELSE {[host |-> A, port |-> DefaultPort, path |-> w]})
    <3> HIDE DEF f, A, w
    <3> QED BY <2>2, <2>4 DEF Has
  <2>6. CASE A = Empty
    <3>1. k = 0
      BY <2>2, <2>6, FindProperties, EmptySeq DEF Empty
    <3>2. HTTPGrammar(u) = {}
      <4> HIDE DEF f, A, w, k
      <4> QED BY <2>3, <2>5, <2>6, <3>1
    <3>3. parseHTTPUrl(u).ok = FALSE
      BY <1>4, <2>6 DEF parseHTTPUrl
    <3> QED BY <3>2, <3>3
  <2>7. CASE A # Empty /\ k = 0
    <3>1. HTTPGrammar(u) = {[host |-> A, port |-> DefaultPort, path |-> w]}
      <4> HIDE DEF f, A, w, k
      <4> QED BY <2>3, <2>5, <2>7
    <3>2. DefaultPort # Empty
      BY DEF DefaultPort, Empty
    <3>3. /\ parseHTTPUrl(u).ok /\ parseHTTPUrl(u).host = A
          /\ parseHTTPUrl(u).port = DefaultPort /\ parseHTTPUrl(u).path = w
      BY <1>4, <2>7, <3>2 DEF parseHTTPUrl
    <3> HIDE DEF f, A, w, k
    <3> QED BY <3>1, <3>3
  <2>8. CASE A # Empty /\ k # 0
    <3>1. /\ Around(A, k)[1] = Before(A, k) /\ Around(A, k)[2] = From(A, k + 1)
      BY <2>2, <2>8, FindProperties, AroundProperties
    <3>2. HTTPGrammar(u) = {[host |-> q[1], port |-> q[2], path |-> w] :
                              q \in {r \in {Around(A, k)} : r[1] # Empty /\ r[2] # Empty}}
      <4> HIDE DEF f, A, w, k
      <4> QED BY <2>3, <2>5, <2>8
    <3>3. /\ parseHTTPUrl(u).ok = (From(A, k + 1) # Empty /\ Before(A, k) # Empty)
          /\ parseHTTPUrl(u).host = Before(A, k)
          /\ parseHTTPUrl(u).port = From(A, k + 1) /\ parseHTTPUrl(u).path = w
      BY <1>4, <2>8 DEF parseHTTPUrl
    <3> HIDE DEF f, A, w, k
    <3>4. CASE From(A, k + 1) # Empty /\ Before(A, k) # Empty
      <4>1. {r \in {Around(A, k)} : r[1] # Empty /\ r[2] # Empty} = {Around(A, k)}
        BY <3>1, <3>4
      <4>2. HTTPGrammar(u) = {[host |-> Around(A, k)[1], port |-> Around(A, k)[2], path |-> w]}
        BY <3>2, <4>1
      <4> QED BY <3>1, <3>3, <3>4, <4>2
    <3>5. CASE ~(From(A, k + 1) # Empty /\ Before(A, k) # Empty)
      <4>1. {r \in {Around(A, k)} : r[1] # Empty /\ r[2] # Empty} = {}
        BY <3>1, <3>5
      <4>2. HTTPGrammar(u) = {}
        BY <3>2, <4>1
      <4> QED BY <3>3, <3>5, <4>2
    <3> QED BY <3>4, <3>5
  <2> QED BY <2>6, <2>7, <2>8
<1> QED BY <1>3, <1>4

\* getURLComponents takes what follows the last dot for the extension.
LEMMA Extensions ==
  ASSUME NEW b \in Seq(Symbols)
  PROVE  ExtensionGrammar(b) = {IF RFind(b, ".") = 0 THEN Empty ELSE From(b, RFind(b, ".") + 1)}
<1> DEFINE d == RFind(b, ".")
<1>0. Len(b) \in Nat
  BY LenProperties
<1>1. CASE d = 0
  BY <1>1, RFindProperties, HasProperties DEF ExtensionGrammar
<1>2. CASE d # 0
  <2>1. /\ d \in 1..Len(b) /\ b[d] = "." /\ \A i \in 1..Len(b) : b[i] = "." => d >= i
    BY <1>2, RFindProperties
  <2>2. Has(b, ".")
    BY <2>1, HasProperties
  <2>3. ASSUME NEW i \in 1..Len(b), b[i] = "."
        PROVE  ~Has(Around(b, i)[2], ".") <=> i = d
    <3>1. Has(Around(b, i)[2], ".") <=> \E j \in (i + 1)..Len(b) : b[j] = "."
      BY AroundProperties
    <3> HIDE DEF d
    <3>2. i # d => d \in (i + 1)..Len(b)
      BY <1>0, <2>1, <2>3
    <3>3. i = d => \A j \in (i + 1)..Len(b) : b[j] # "."
      BY <1>0, <2>1
    <3> QED BY <2>1, <3>1, <3>2, <3>3
  <2>4. ExtensionGrammar(b) =
          {p[2] : p \in {q \in {Around(b, i) : i \in {j \in 1..Len(b) : b[j] = "."}} : ~Has(q[2], ".")}}
    BY <2>2, SplitsAtPositions DEF ExtensionGrammar
  <2> HIDE DEF d
  <2>5. {q \in {Around(b, i) : i \in {j \in 1..Len(b) : b[j] = "."}} : ~Has(q[2], ".")} = {Around(b, d)}
    BY <2>1, <2>3
  <2>6. ExtensionGrammar(b) = {Around(b, d)[2]}
    BY <2>4, <2>5
  <2>7. Around(b, d)[2] = From(b, d + 1)
    BY <2>1, AroundProperties
  <2> QED BY <1>2, <2>6, <2>7 DEF d
<1> QED BY <1>1, <1>2

\* "://" stands at position i.
SchemeAt(u, i) == i \in 1..(Len(u) - 2) /\ u[i] = ":" /\ u[i + 1] = "/" /\ u[i + 2] = "/"

LEMMA SchemeWord ==
  ASSUME NEW S, NEW s \in Seq(S), NEW i \in 1..(Len(s) - 2)
  PROVE  SubSeq(s, i, i + 2) = <<":", "/", "/">> <=> SchemeAt(s, i)
<1>1. Len(s) \in Nat /\ \A j \in i..(i + 2) : s[j] \in S
  BY LenProperties, ElementOfSeq
<1>2. /\ SubSeq(s, i, i + 2) \in Seq(S) /\ Len(SubSeq(s, i, i + 2)) = 3
      /\ \A j \in 1..3 : SubSeq(s, i, i + 2)[j] = s[i + j - 1]
  <2>1. i \in Int /\ i + 2 \in Int /\ i <= i + 2 /\ (i + 2) - i + 1 = 3
    BY <1>1
  <2>2. /\ SubSeq(s, i, i + 2) \in Seq(S)
        /\ Len(SubSeq(s, i, i + 2)) = IF i <= i + 2 THEN (i + 2) - i + 1 ELSE 0
        /\ \A j \in 1..((i + 2) - i + 1) : SubSeq(s, i, i + 2)[j] = s[i + j - 1]
    BY <1>1, <2>1, SubSeqProperties
  <2> QED BY <2>1, <2>2
<1>3. /\ SubSeq(s, i, i + 2)[1] = s[i] /\ SubSeq(s, i, i + 2)[2] = s[i + 1]
      /\ SubSeq(s, i, i + 2)[3] = s[i + 2]
  <2>1. 1 \in 1..3 /\ 2 \in 1..3 /\ 3 \in 1..3 /\ i + 1 - 1 = i /\ i + 2 - 1 = i + 1 /\ i + 3 - 1 = i + 2
    BY <1>1
  <2> QED BY <1>2, <2>1
<1>4. ASSUME SchemeAt(s, i) PROVE SubSeq(s, i, i + 2) = <<":", "/", "/">>
  <2> DEFINE t == SubSeq(s, i, i + 2)
             W == <<":", "/", "/">>
             X == S \cup {":", "/"}
  <2>1. t \in Seq(X) /\ W \in Seq(X) /\ Len(W) = 3
    BY <1>2, SeqMonotonic
  <2>2. t[1] = W[1] /\ t[2] = W[2] /\ t[3] = W[3]
    BY <1>3, <1>4 DEF SchemeAt
  <2>3. \A j \in 1..3 : j = 1 \/ j = 2 \/ j = 3
    OBVIOUS
  <2>4. Len(t) = Len(W) /\ \A j \in 1..Len(t) : t[j] = W[j]
    <3> HIDE DEF t, W
    <3>1. Len(t) = 3
      BY <1>2 DEF t
    <3> QED BY <2>1, <2>2, <2>3, <3>1
  <2> HIDE DEF t, W, X
  <2>5. t = W
    BY <2>1, <2>4, SeqEqual
  <2> QED BY <2>5 DEF t, W
<1>5. ASSUME SubSeq(s, i, i + 2) = <<":", "/", "/">> PROVE SchemeAt(s, i)
  <2>1. s[i] = <<":", "/", "/">>[1] /\ s[i + 1] = <<":", "/", "/">>[2] /\ s[i + 2] = <<":", "/", "/">>[3]
    BY <1>3, <1>5
  <2> QED BY <2>1 DEF SchemeAt
<1> QED BY <1>4, <1>5

\* SchemeEnd is the first of these positions.
LEMMA SchemeEndProperties ==
  ASSUME NEW u \in Seq(Symbols)
  PROVE  \/ SchemeEnd(u) = 0 /\ \A i : ~SchemeAt(u, i)
         \/ /\ SchemeAt(u, SchemeEnd(u))
            /\ \A i : SchemeAt(u, i) => SchemeEnd(u) <= i
<1> DEFINE n == IF Len(u) > 2 THEN Len(u) - 2 ELSE 0
           words == [i \in 1..(Len(u) - 2) |-> SubSeq(u, i, i + 2)]
           I == {i \in 1..Len(words) : words[i] = <<":", "/", "/">>}
<1>1. Len(u) \in Nat
  BY LenProperties
<1>2. n \in Nat /\ 1..(Len(u) - 2) = 1..n
  BY <1>1
<1>3. Len(words) = n
  <2>1. words \in [1..n -> {SubSeq(u, i, i + 2) : i \in 1..n}]
    BY <1>2
  <2> HIDE DEF words, n
  <2>2. words \in Seq({SubSeq(u, i, i + 2) : i \in 1..n})
    <3>1. \A S : [1..n -> S] \subseteq Seq(S)
      BY <1>2, SeqDef
    <3> QED BY <2>1, <3>1
  <2>3. Len(words) \in Nat /\ DOMAIN words = 1..Len(words)
    BY <2>2, LenProperties
  <2>4. DOMAIN words = 1..n
    BY <2>1
  <2>5. /\ n \in 1..n <=> n \in 1..Len(words)
        /\ Len(words) \in 1..n <=> Len(words) \in 1..Len(words)
    BY <2>3, <2>4
  <2>6. \A a, b \in Nat : (a \in 1..a <=> a \in 1..b) /\ (b \in 1..a <=> b \in 1..b) => b = a
    OBVIOUS
  <2>7. n \in Nat /\ Len(words) \in Nat
    BY <1>2, <2>3
  <2> QED BY <2>5, <2>6, <2>7
<1>4. \A i : i \in I <=> SchemeAt(u, i)
  <2>1. ASSUME NEW i PROVE i \in I <=> i \in 1..(Len(u) - 2) /\ SubSeq(u, i, i + 2) = <<":", "/", "/">>
    BY <1>2, <1>3
  <2>2. \A i \in 1..(Len(u) - 2) : SubSeq(u, i, i + 2) = <<":", "/", "/">> <=> SchemeAt(u, i)
    BY SchemeWord
  <2>3. \A i : SchemeAt(u, i) => i \in 1..(Len(u) - 2)
    BY DEF SchemeAt
  <2> HIDE DEF I
  <2> QED BY <2>1, <2>2, <2>3
<1>5. SchemeEnd(u) = IF I # {} THEN Min(I) ELSE 0
  BY DEF SchemeEnd, SelectInSeq
<1>6. I \in SUBSET Nat
  <2> HIDE DEF I
  <2> QED BY <1>1, <1>4 DEF SchemeAt
<1>7. I # {} => Min(I) \in I /\ \A y \in I : Min(I) <= y
  <2> HIDE DEF I
  <2> QED BY <1>6, MinProperties
<1> HIDE DEF I
<1> QED BY <1>4, <1>5, <1>7

\* A url can be split before "://" where it stands, and nowhere else.
LEMMA SchemeSplits ==
  ASSUME NEW u \in Seq(Symbols), NEW i \in 0..Len(u)
  PROVE  (\E rest \in Splits(From(u, i + 1)) : rest[1] = <<":", "/", "/">>) <=> SchemeAt(u, i + 1)
<1> DEFINE t == From(u, i + 1)
<1>1. Len(u) \in Nat /\ i + 1 \in 1..(Len(u) + 1)
  BY LenProperties
<1>2. t \in Seq(Symbols) /\ Len(t) = Len(u) - i /\ \A j \in 1..(Len(u) - i) : t[j] = u[i + j]
  <2>1. Len(u) - (i + 1) + 1 = Len(u) - i /\ \A j \in 1..(Len(u) - i) : (i + 1) + j - 1 = i + j
    BY <1>1
  <2>2. /\ t \in Seq(Symbols) /\ Len(t) = Len(u) - (i + 1) + 1
        /\ \A j \in 1..(Len(u) - (i + 1) + 1) : t[j] = u[(i + 1) + j - 1]
    BY <1>1, FromProperties
  <2> HIDE DEF t
  <2> QED BY <2>1, <2>2
<1> HIDE DEF t
<1>3. Len(t) \in Nat
  BY <1>2, LenProperties
<1>4. Splits(t) = {<<SubSeq(t, 1, j), SubSeq(t, j + 1, Len(t))>> : j \in 0..Len(t)}
  BY DEF Splits
<1>5. ASSUME NEW j \in 0..Len(t), SubSeq(t, 1, j) = <<":", "/", "/">> PROVE j = 3
  <2>1. j + 1 \in 1..(Len(t) + 1) /\ (j + 1) - 1 = j
    BY <1>3
  <2>2. Len(SubSeq(t, 1, j)) = j
    BY <1>2, <2>1, BeforeProperties DEF Before
  <2>3. Len(<<":", "/", "/">>) = 3
    OBVIOUS
  <2> QED BY <1>5, <2>2, <2>3
<1>6. (\E rest \in Splits(t) : rest[1] = <<":", "/", "/">>) <=> 3 \in 0..Len(t) /\ SubSeq(t, 1, 3) = <<":", "/", "/">>
  <2>1. (\E rest \in Splits(t) : rest[1] = <<":", "/", "/">>)
          <=> \E j \in 0..Len(t) : SubSeq(t, 1, j) = <<":", "/", "/">>
    <3> DEFINE L(j) == SubSeq(t, 1, j)
               D(j) == <<L(j), SubSeq(t, j + 1, Len(t))>>
    <3>1. \A j : D(j)[1] = L(j)
      OBVIOUS
    <3>2. Splits(t) = {D(j) : j \in 0..Len(t)}
      BY <1>4
    <3> HIDE DEF D
    <3> QED BY <3>1, <3>2
  <2> QED BY <1>5, <2>1
<1>7. 3 \in 0..Len(t) /\ SubSeq(t, 1, 3) = <<":", "/", "/">> <=> SchemeAt(t, 1)
  <2>1. (3 \in 0..Len(t) <=> 1 \in 1..(Len(t) - 2)) /\ 1 + 2 = 3
    BY <1>3
  <2> QED BY <1>2, <2>1, SchemeWord DEF SchemeAt
<1>8. SchemeAt(t, 1) <=> SchemeAt(u, i + 1)
  <2>1. 1 \in 1..(Len(t) - 2) <=> i + 1 \in 1..(Len(u) - 2)
    BY <1>1, <1>2
  <2>2. ASSUME 1 \in 1..(Len(t) - 2)
        PROVE  t[1] = u[i + 1] /\ t[1 + 1] = u[(i + 1) + 1] /\ t[1 + 2] = u[(i + 1) + 2]
    <3>1. /\ 1 \in 1..(Len(u) - i) /\ 2 \in 1..(Len(u) - i) /\ 3 \in 1..(Len(u) - i)
          /\ (i + 1) + 1 = i + 2 /\ (i + 1) + 2 = i + 3 /\ 1 + 1 = 2 /\ 1 + 2 = 3
      BY <1>1, <1>2, <2>2
    <3> QED BY <1>2, <3>1
  <2> QED BY <2>1, <2>2 DEF SchemeAt
<1> QED BY <1>6, <1>7, <1>8 DEF t

\* getURLComponents accepts what its grammar derives, and returns the one
\* derivation.
LEMMA ComponentUrls ==
  ASSUME NEW u \in Seq(Symbols)
  PROVE  LET c == getURLComponents(u)
         IN  /\ ComponentsGrammar(u) = IF c.ok THEN {[prefix |-> c.prefix, base |-> c.base]} ELSE {}
             /\ ExtensionGrammar(c.base) = {c.extension}
<1> DEFINE P(i) == <<SubSeq(u, 1, i), SubSeq(u, i + 1, Len(u))>>
           all == {p \in Splits(u) : \E rest \in Splits(p[2]) : rest[1] = <<":", "/", "/">>}
           short == {q \in all : \A r \in all : Len(q[1]) <= Len(r[1])}
           n == SchemeEnd(u)
<1>1. Len(u) \in Nat
  BY LenProperties
<1>2. ComponentsGrammar(u) = {[prefix |-> p[1], base |-> SubSeq(p[2], 4, Len(p[2]))] : p \in short}
  BY DEF ComponentsGrammar
<1>3. all = {P(i) : i \in {j \in 0..Len(u) : SchemeAt(u, j + 1)}}
  <2>1. Splits(u) = {P(i) : i \in 0..Len(u)}
    BY DEF Splits
  <2>2. \A i \in 0..Len(u) :
          (\E rest \in Splits(P(i)[2]) : rest[1] = <<":", "/", "/">>) <=> SchemeAt(u, i + 1)
    BY SchemeSplits DEF From
  <2> HIDE DEF P
  <2> QED BY <2>1, <2>2
<1>4. CASE n = 0
  <2>1. \A i : ~SchemeAt(u, i)
    BY <1>4, SchemeEndProperties DEF SchemeAt
  <2>2. ComponentsGrammar(u) = {}
    <3> HIDE DEF P
    <3>1. all = {}
      BY <1>3, <2>1
    <3> HIDE DEF all
    <3> QED BY <1>2, <3>1
  <2>3. /\ getURLComponents(u).ok = FALSE /\ getURLComponents(u).base = Empty
        /\ getURLComponents(u).extension = Empty
    BY <1>4 DEF getURLComponents
  <2>4. ExtensionGrammar(Empty) = {Empty}
    <3>1. Empty \in Seq(Symbols) /\ Len(Empty) = 0
      BY EmptySeq DEF Empty
    <3>2. Has(Empty, ".") <=> \E i \in 1..Len(Empty) : Empty[i] = "."
      BY <3>1, HasProperties
    <3> QED BY <3>1, <3>2 DEF ExtensionGrammar
  <2> QED BY <2>2, <2>3, <2>4
<1>5. CASE n # 0
  <2>1. n \in 1..(Len(u) - 2) /\ SchemeAt(u, n) /\ \A i : SchemeAt(u, i) => n <= i
    BY <1>5, SchemeEndProperties DEF SchemeAt
  <2> HIDE DEF n
  <2>2. n - 1 \in 0..Len(u) /\ (n - 1) + 1 = n /\ \A i \in 0..Len(u) : SchemeAt(u, i + 1) => n - 1 <= i
    BY <1>1, <2>1
  <2>3. \A i \in 0..Len(u) : Len(P(i)[1]) = i
    <3>1. ASSUME NEW i \in 0..Len(u) PROVE Len(SubSeq(u, 1, i)) = i
      <4>1. i + 1 \in 1..(Len(u) + 1) /\ (i + 1) - 1 = i
        BY <1>1
      <4> QED BY <4>1, BeforeProperties DEF Before
    <3> QED BY <3>1
  <2>4. short = {P(n - 1)}
    <3> HIDE DEF P, all
    <3>1. P(n - 1) \in all /\ Len(P(n - 1)[1]) = n - 1
      BY <1>3, <2>1, <2>2, <2>3
    <3>2. \A r \in all : Len(P(n - 1)[1]) <= Len(r[1])
      BY <1>3, <2>2, <2>3
    <3>3. ASSUME NEW q \in short PROVE q = P(n - 1)
      <4>1. PICK i \in 0..Len(u) : SchemeAt(u, i + 1) /\ q = P(i)
        BY <1>3
      <4>2. i <= n - 1 /\ n - 1 <= i
        BY <2>2, <2>3, <3>1, <4>1
      <4>3. i = n - 1
        BY <2>1, <4>2
      <4> QED BY <4>1, <4>3
    <3> QED BY <3>1, <3>2, <3>3
  <2>5. P(n - 1)[1] = Before(u, n) /\ P(n - 1)[2] = From(u, n)
    BY <2>2 DEF Before, From
  <2>6. ComponentsGrammar(u) = {[prefix |-> Before(u, n), base |-> From(From(u, n), 4)]}
    <3> HIDE DEF P, short
    <3> QED BY <1>2, <2>4, <2>5 DEF From
  <2>7. From(From(u, n), 4) = From(u, n + 3) /\ From(u, n + 3) \in Seq(Symbols)
    <3>1. n \in 1..(Len(u) + 1) /\ n + 3 \in 1..(Len(u) + 1)
      BY <1>1, <2>1
    <3>2. /\ From(u, n) \in Seq(Symbols) /\ Len(From(u, n)) = Len(u) - n + 1
          /\ \A j \in 1..(Len(u) - n + 1) : From(u, n)[j] = u[n + j - 1]
      BY <3>1, FromProperties
    <3>3. /\ From(u, n + 3) \in Seq(Symbols) /\ Len(From(u, n + 3)) = Len(u) - (n + 3) + 1
          /\ \A j \in 1..(Len(u) - (n + 3) + 1) : From(u, n + 3)[j] = u[(n + 3) + j - 1]
      BY <3>1, FromProperties
    <3>4. 4 \in 1..(Len(From(u, n)) + 1)
      BY <1>1, <2>1, <3>2
    <3>5. /\ From(From(u, n), 4) \in Seq(Symbols) /\ Len(From(From(u, n), 4)) = Len(From(u, n)) - 4 + 1
          /\ \A j \in 1..(Len(From(u, n)) - 4 + 1) : From(From(u, n), 4)[j] = From(u, n)[4 + j - 1]
      <4> DEFINE v == From(u, n)
      <4>1. v \in Seq(Symbols) /\ 4 \in 1..(Len(v) + 1)
        BY <3>2, <3>4
      <4> HIDE DEF v
      <4>2. /\ From(v, 4) \in Seq(Symbols) /\ Len(From(v, 4)) = Len(v) - 4 + 1
            /\ \A j \in 1..(Len(v) - 4 + 1) : From(v, 4)[j] = v[4 + j - 1]
        <5>1. \A i \in 1..(Len(v) + 1) :
                /\ From(v, i) \in Seq(Symbols) /\ Len(From(v, i)) = Len(v) - i + 1
                /\ \A j \in 1..(Len(v) - i + 1) : From(v, i)[j] = v[i + j - 1]
          BY <4>1, FromProperties
        <5> QED BY <4>1, <5>1
      <4> QED BY <4>2 DEF v
    <3>6. Len(From(From(u, n), 4)) = Len(From(u, n + 3))
      BY <1>1, <2>1, <3>2, <3>3, <3>5
    <3>7. ASSUME NEW j \in 1..Len(From(From(u, n), 4)) PROVE From(From(u, n), 4)[j] = From(u, n + 3)[j]
      <4>1. /\ j \in 1..(Len(From(u, n)) - 4 + 1) /\ j \in 1..(Len(u) - (n + 3) + 1)
            /\ 4 + j - 1 \in 1..(Len(u) - n + 1) /\ n + (4 + j - 1) - 1 = (n + 3) + j - 1
        BY <1>1, <2>1, <3>2, <3>5
      <4> QED BY <3>2, <3>3, <3>5, <4>1
    <3> QED BY <3>3, <3>5, <3>6, <3>7, SeqEqual
  <2>8. LET b == From(u, n + 3)
            c == getURLComponents(u)
        IN  /\ c.ok = TRUE /\ c.prefix = Before(u, n) /\ c.base = b
            /\ c.extension = IF RFind(b, ".") = 0 THEN Empty ELSE From(b, RFind(b, ".") + 1)
    BY <1>5 DEF getURLComponents, n
  <2> QED BY <2>6, <2>7, <2>8, Extensions
<1> QED BY <1>4, <1>5

\* What comes before and after the first c; all of it comes after when there is none.
LEMMA AroundFirst ==
  ASSUME NEW S, NEW s \in Seq(S), NEW c
  PROVE  /\ Before(s, Find(s, c)) \in Seq(S) /\ From(s, Find(s, c) + 1) \in Seq(S)
         /\ FirstSplits(s, c) \cup (IF Has(s, c) THEN {} ELSE {<<Empty, s>>}) = {Around(s, Find(s, c))}
<1>1. CASE Find(s, c) = 0
  <2>1. Before(s, 0) = Empty /\ From(s, 0 + 1) = s /\ Empty \in Seq(S)
    BY Whole, EmptySeq DEF Empty
  <2>2. FirstSplits(s, c) = {} /\ ~Has(s, c)
    BY <1>1, FirstSplit DEF Has
  <2> QED BY <1>1, <2>1, <2>2 DEF Around
<1>2. CASE Find(s, c) # 0
  <2>1. Find(s, c) \in 1..Len(s)
    BY <1>2, FindProperties
  <2>2. Before(s, Find(s, c)) \in Seq(S) /\ From(s, Find(s, c) + 1) \in Seq(S)
    BY <2>1, AroundProperties
  <2>3. FirstSplits(s, c) = {Around(s, Find(s, c))} /\ Has(s, c)
    BY <1>2, FirstSplit DEF Has
  <2> QED BY <2>2, <2>3
<1> QED BY <1>1, <1>2

\* parseSFTPUrl splits a url at its first "@" and the first "/" after that.
LEMMA SFTPUrls ==
  ASSUME NEW u \in Seq(Symbols)
  PROVE  LET lo == Before(u, Find(u, "@"))
             place == From(u, Find(u, "@") + 1)
             s == Find(place, "/")
         IN  /\ lo \in Seq(Symbols)
             /\ s \in Nat
             /\ SFTPGrammar(u) = IF s > 1 THEN {[login |-> lo, host |-> Before(place, s), path |-> From(place, s)]}
                                 ELSE {}
<1> DEFINE at == Find(u, "@")
           lo == Before(u, at)
           place == From(u, at + 1)
           s == Find(place, "/")
           Of(p) == {[login |-> p[1], host |-> q[1], path |-> <<"/">> \o q[2]] :
                       q \in {r \in FirstSplits(p[2], "/") : r[1] # Empty}}
<1>1. /\ lo \in Seq(Symbols) /\ place \in Seq(Symbols)
      /\ FirstSplits(u, "@") \cup (IF Has(u, "@") THEN {} ELSE {<<Empty, u>>}) = {Around(u, at)}
  BY AroundFirst
<1>2. SFTPGrammar(u) = Of(Around(u, at))
  <2>1. SFTPGrammar(u) = UNION {Of(p) : p \in FirstSplits(u, "@") \cup
                                               (IF Has(u, "@") THEN {} ELSE {<<Empty, u>>})}
    BY DEF SFTPGrammar
  <2>2. SFTPGrammar(u) = UNION {Of(p) : p \in {Around(u, at)}}
    <3> HIDE DEF Of, at
    <3> QED BY <1>1, <2>1
  <2> HIDE DEF Of, at
  <2> QED BY <2>2
<1>3. Around(u, at)[1] = lo /\ Around(u, at)[2] = place
  BY DEF Around
<1> HIDE DEF at, lo, place
<1>4. SFTPGrammar(u) = {[login |-> lo, host |-> q[1], path |-> <<"/">> \o q[2]] :
                          q \in {r \in FirstSplits(place, "/") : r[1] # Empty}}
  BY <1>2, <1>3
<1>5. FirstSplits(place, "/") = IF s # 0 THEN {Around(place, s)} ELSE {}
  BY <1>1, FirstSplit DEF Has
<1>6. Len(place) \in Nat /\ (s # 0 => s \in 1..Len(place) /\ place[s] = "/")
  BY <1>1, FindProperties, LenProperties
<1>7. s \in Nat
  BY <1>6
<1> HIDE DEF s
<1>8. CASE s = 0
  <2>1. SFTPGrammar(u) = {}
    BY <1>4, <1>5, <1>8
  <2> QED BY <1>1, <1>7, <1>8, <2>1 DEF s, lo, place, at
<1>9. CASE s # 0
  <2>1. /\ Around(place, s)[1] = Before(place, s) /\ Around(place, s)[2] = From(place, s + 1)
        /\ Before(place, s) = Empty <=> s = 1
    BY <1>1, <1>6, <1>9, AroundProperties
  <2>2. <<"/">> \o From(place, s + 1) = From(place, s)
    BY <1>1, <1>6, <1>9, FromSplits
  <2>3. CASE s > 1
    <3>1. {r \in {Around(place, s)} : r[1] # Empty} = {Around(place, s)}
      BY <1>7, <2>1, <2>3
    <3>2. SFTPGrammar(u) = {[login |-> lo, host |-> Around(place, s)[1], path |-> <<"/">> \o Around(place, s)[2]]}
      BY <1>4, <1>5, <1>9, <3>1
    <3>3. SFTPGrammar(u) = {[login |-> lo, host |-> Before(place, s), path |-> From(place, s)]}
      BY <2>1, <2>2, <3>2
    <3> QED BY <1>1, <1>7, <2>3, <3>3 DEF s, lo, place, at
  <2>4. CASE ~(s > 1)
    <3>1. {r \in {Around(place, s)} : r[1] # Empty} = {}
      BY <1>7, <1>9, <2>1, <2>4
    <3>2. SFTPGrammar(u) = {}
      BY <1>4, <1>5, <1>9, <3>1
    <3> QED BY <1>1, <1>7, <2>4, <3>2 DEF s, lo, place, at
  <2> QED BY <2>3, <2>4
<1> QED BY <1>8, <1>9

\* The user of a login ends at its first colon; what follows is a password unless it
\* names a key, and then it is that key.
LEMMA LoginUrls ==
  ASSUME NEW lo \in Seq(Symbols)
  PROVE  LET l == Credentials(lo)
         IN  /\ \A k \in LoginGrammar(lo) :
                  /\ l.user = k.user
                  /\ Range(k.secret) \cap Words = {} => l.pass = k.secret
             /\ (l.pass # Empty => l.publickey_file = Empty /\ l.privatekey_file = Empty)
             /\ l.publickey_file # Empty => l.privatekey_file = Empty
             /\ l.privatekey_pass # Empty => l.pass = Empty /\ l.publickey_file = Empty
<1> DEFINE c == Find(lo, ":")
           user == IF c = 0 THEN lo ELSE Before(lo, c)
           pass == IF c = 0 THEN Empty ELSE From(lo, c + 1)
           pub == KeyFile(pass, "pubkey_identifier")
           key == KeyFile(pass, "privkey_identifier")
           phrase == Find(key, "key_passphrase")
           file == IF phrase = 0 THEN key ELSE Before(key, phrase)
           phr == IF phrase = 0 THEN Empty ELSE From(key, phrase + 1)
           l == Credentials(lo)
<1>1. FirstSplits(lo, ":") \cup (IF Has(lo, ":") THEN {} ELSE {<<lo, Empty>>}) = {<<user, pass>>}
  <2>1. CASE c = 0
    BY <2>1, FirstSplit DEF Has
  <2>2. CASE c # 0
    BY <2>2, FirstSplit DEF Has, Around
  <2> QED BY <2>1, <2>2
<1>2. LoginGrammar(lo) = {[user |-> user, secret |-> pass]}
  <2>1. LoginGrammar(lo) = {[user |-> p[1], secret |-> p[2]] : p \in {<<user, pass>>}}
    BY <1>1 DEF LoginGrammar
  <2> HIDE DEF user, pass
  <2> QED BY <2>1
<1>3. pass \in Seq(Symbols)
  <2>1. Empty \in Seq(Symbols)
    BY EmptySeq DEF Empty
  <2>2. From(lo, c + 1) \in Seq(Symbols)
    BY AroundFirst
  <2> QED BY <2>1, <2>2
<1>4. lo = Empty => user = Empty /\ pass = Empty
  <2>1. ASSUME lo = Empty PROVE c = 0
    <3>1. Len(lo) = 0
      BY <2>1, EmptySeq DEF Empty
    <3>2. c = 0 \/ c \in 1..Len(lo)
      BY FindProperties
    <3> QED BY <3>1, <3>2
  <2> QED BY <2>1
<1>5. l = IF lo = Empty THEN NoCredentials
          ELSE IF Has(pass, "pubkey_identifier")
            THEN [NoCredentials EXCEPT !.user = user, !.publickey_file = pub]
          ELSE IF Has(pass, "privkey_identifier")
            THEN [NoCredentials EXCEPT !.user = user, !.privatekey_file = file, !.privatekey_pass = phr]
            ELSE [NoCredentials EXCEPT !.user = user, !.pass = pass]
  BY DEF Credentials
<1> HIDE DEF c, user, pass, pub, key, phrase, file, phr, l
<1>6. /\ l.user = user
      /\ (l.pass # Empty => l.publickey_file = Empty /\ l.privatekey_file = Empty)
      /\ l.publickey_file # Empty => l.privatekey_file = Empty
      /\ l.privatekey_pass # Empty => l.pass = Empty /\ l.publickey_file = Empty
      /\ ~Has(pass, "pubkey_identifier") /\ ~Has(pass, "privkey_identifier") => l.pass = pass
  <2>1. CASE lo = Empty
    BY <1>4, <1>5, <2>1 DEF NoCredentials
  <2>2. CASE lo # Empty /\ Has(pass, "pubkey_identifier")
    BY <1>5, <2>2 DEF NoCredentials
  <2>3. CASE lo # Empty /\ ~Has(pass, "pubkey_identifier") /\ Has(pass, "privkey_identifier")
    BY <1>5, <2>3 DEF NoCredentials
  <2>4. CASE lo # Empty /\ ~Has(pass, "pubkey_identifier") /\ ~Has(pass, "privkey_identifier")
    BY <1>5, <2>4 DEF NoCredentials
  <2> QED BY <2>1, <2>2, <2>3, <2>4
<1>7. ASSUME Range(pass) \cap Words = {}, NEW w \in Words PROVE ~Has(pass, w)
  <2>1. DOMAIN pass = 1..Len(pass)
    BY <1>3, LenProperties
  <2>2. \A i \in 1..Len(pass) : pass[i] # w
    BY <1>7, <2>1 DEF Range
  <2> QED BY <1>3, <2>2, HasProperties
<1>8. Range(pass) \cap Words = {} => l.pass = pass
  BY <1>6, <1>7 DEF Words
<1>9. \A k \in LoginGrammar(lo) : k.user = user /\ k.secret = pass
  BY <1>2
<1> QED BY <1>6, <1>8, <1>9 DEF l

-----------------------------------------------------------------------------
(* The download of an SFTPDevice. *)

LEMMA UrlsAreSequences ==
  Urls \subseteq Seq(Symbols)
<1>1. \A S, n : n \in Nat => BoundedSeq(S, n) \subseteq Seq(S)
  BY SeqDef DEF BoundedSeq, SeqOf
<1>2. \A S : S \subseteq Symbols => Seq(S) \subseteq Seq(Symbols)
  BY SeqMonotonic
<1>3. Characters \subseteq Symbols /\ Words \cup {":", "x"} \subseteq Symbols
  BY DEF Symbols, Characters
<1>4. BoundedSeq(Characters, MaxUrl) \subseteq Seq(Symbols)
  BY <1>1, <1>2, <1>3, BoundsAreNat
<1>5. ASSUME NEW s \in BoundedSeq(Words \cup {":", "x"}, MaxSecret)
      PROVE  <<"x", ":">> \o s \o <<"@", "x", "/">> \in Seq(Symbols)
  <2>1. s \in Seq(Symbols)
    BY <1>1, <1>2, <1>3, BoundsAreNat
  <2>2. <<"x", ":">> \in Seq(Symbols) /\ <<"@", "x", "/">> \in Seq(Symbols)
    BY DEF Symbols, Characters
  <2>3. <<"x", ":">> \o s \in Seq(Symbols)
    BY <2>1, <2>2, ConcatProperties
  <2> QED BY <2>2, <2>3, ConcatProperties
<1> QED BY <1>4, <1>5 DEF Urls, Logins

\* The places of a download.
Position == {"connect", "handshake", "auth", "init", "open", "stat", "read", "idle", "ended",
             "threw"}

LEMMA ChainPlaces ==
  /\ Chain \in Seq(Position) /\ Len(Chain) = 7 /\ DOMAIN Chain = 1..7
  /\ Chain[1] = "connect" /\ Chain[2] = "handshake" /\ Chain[3] = "auth" /\ Chain[4] = "init"
  /\ Chain[5] = "open" /\ Chain[6] = "stat" /\ Chain[7] = "read"
  /\ \A i \in 1..7 : i = 1 \/ i = 2 \/ i = 3 \/ i = 4 \/ i = 5 \/ i = 6 \/ i = 7
<1>1. Chain \in Seq(Position)
  BY DEF Chain, Position
<1>2. /\ Chain[1] = "connect" /\ Chain[2] = "handshake" /\ Chain[3] = "auth" /\ Chain[4] = "init"
      /\ Chain[5] = "open" /\ Chain[6] = "stat" /\ Chain[7] = "read"
  BY DEF Chain
<1>3. Len(Chain) = 7 /\ DOMAIN Chain = 1..7
  BY DEF Chain
<1>4. \A i \in 1..7 : i = 1 \/ i = 2 \/ i = 3 \/ i = 4 \/ i = 5 \/ i = 6 \/ i = 7
  OBVIOUS
<1> QED BY <1>1, <1>2, <1>3, <1>4

\* Each handler of the chain calls the next one.
LEMMA ChainOrder ==
  /\ Chain[Find(Chain, "connect") + 1] = "handshake"
  /\ Chain[Find(Chain, "handshake") + 1] = "auth"
  /\ Chain[Find(Chain, "auth") + 1] = "init"
  /\ Chain[Find(Chain, "init") + 1] = "open"
  /\ Chain[Find(Chain, "open") + 1] = "stat"
  /\ Chain[Find(Chain, "stat") + 1] = "read"
<1>1. \A i, j \in 1..7 : Chain[i] = Chain[j] => i = j
  BY ChainPlaces
<1>2. ASSUME NEW k \in 1..7 PROVE Find(Chain, Chain[k]) = k
  <2>1. Find(Chain, Chain[k]) \in 1..7 /\ Chain[Find(Chain, Chain[k])] = Chain[k]
    BY ChainPlaces, FindProperties
  <2> QED BY <1>1, <2>1
<1>3. /\ Find(Chain, "connect") = 1 /\ Find(Chain, "handshake") = 2 /\ Find(Chain, "auth") = 3
      /\ Find(Chain, "init") = 4 /\ Find(Chain, "open") = 5 /\ Find(Chain, "stat") = 6
  BY <1>2, ChainPlaces
<1> QED BY <1>3, ChainPlaces

\* The steps of a download, without the functions they are written with.
Advance(from, to) == step = from /\ step' = to /\ UNCHANGED <<failures, answers>>

LEMMA ChainSteps ==
  /\ Steps = Position
  /\ Succeeds("connect") <=> Advance("connect", "handshake")
  /\ Succeeds("handshake") <=> Advance("handshake", "auth")
  /\ Succeeds("auth") <=> Advance("auth", "init")
  /\ Succeeds("init") <=> Advance("init", "open")
  /\ Succeeds("open") <=> Advance("open", "stat")
  /\ Succeeds("stat") <=> Advance("stat", "read")
<1>1. Range(Chain) = {"connect", "handshake", "auth", "init", "open", "stat", "read"}
  <2>1. Range(Chain) = {Chain[i] : i \in 1..7}
    BY ChainPlaces DEF Range
  <2> QED BY <2>1, ChainPlaces
<1>2. Steps = Position
  BY <1>1 DEF Steps, Position
<1> QED BY <1>2, ChainOrder DEF Succeeds, Advance

\* A download has answered exactly when it has ended.
SftpAnswered ==
  IF step = "ended" THEN answers = <<"data">> \/ answers = <<"null">> ELSE answers = << >>

\* A failure is reported with an answer, or by a host that does not resolve.
SftpFailures ==
  /\ step \notin {"connect", "ended"} => failures = 0
  /\ step = "connect" => failures \in {0, 1}
  /\ answers = <<"data">> => failures = 0
  /\ answers = <<"null">> => failures > 0

\* Nothing is read before the size is known, and no more than that.
SftpRead ==
  /\ step \notin {"read", "ended"} => totalBytesRead = 0
  /\ answers = <<"data">> => totalBytesRead = file_size_ /\ file_size_ > 0

\* A session is freed after its last use, and has been authenticated then.
SftpSession ==
  /\ step \in {"init", "open", "stat", "read"} => method # "none"
  /\ session = "freed" => step = "ended" /\ answers = <<"null">> /\ method # "none"

SftpTypes ==
  /\ url \in Seq(Symbols) /\ step \in Position
  /\ remote \in 0..MaxSize /\ file_size_ \in 0..MaxSize /\ totalBytesRead \in 0..file_size_
  /\ session \in {"none", "live", "freed"}
  /\ method \in {"none", "private key", "public key", "password"}
  /\ failures \in 0..2

SftpInv == SftpTypes /\ SftpAnswered /\ SftpFailures /\ SftpRead /\ SftpSession

LEMMA Answering ==
  ASSUME answers = << >>, NEW a
  PROVE  Append(answers, a) = <<a>>
OBVIOUS

LEMMA AnswersDiffer ==
  /\ <<"data">> # <<"null">> /\ <<"data">> # << >> /\ <<"null">> # << >>
  /\ <<"data">> \in Seq(Answers) /\ <<"null">> \in Seq(Answers) /\ << >> \in Seq(Answers)
BY DEF Answers

LEMMA SftpNumbers ==
  ASSUME SftpTypes
  PROVE  /\ remote \in Nat /\ remote <= MaxSize
         /\ file_size_ \in Nat /\ totalBytesRead \in Nat /\ totalBytesRead <= file_size_
         /\ failures \in Nat
<1>1. /\ remote \in 0..MaxSize /\ file_size_ \in 0..MaxSize /\ totalBytesRead \in 0..file_size_
      /\ failures \in 0..2
  BY DEF SftpTypes
<1>2. MaxSize \in Nat
  BY BoundsAreNat
<1>3. \A n \in Nat : \A i \in 0..n : i \in Nat /\ i <= n
  OBVIOUS
<1> QED BY <1>1, <1>2, <1>3

LEMMA SftpInitial ==
  ASSUME Init
  PROVE  SftpInv
<1>1. url \in Seq(Symbols)
  BY UrlsAreSequences DEF Init
<1>2. SftpTypes
  BY <1>1, BoundsAreNat DEF Init, SftpTypes, Position
<1> QED BY <1>2, AnswersDiffer DEF Init, SftpInv, SftpAnswered, SftpFailures, SftpRead, SftpSession

LEMMA FailureCounts ==
  ASSUME failures = 0 \/ failures = 1, Null
  PROVE  failures' \in 0..2 /\ failures' > 0
<1>1. failures' = failures + 1
  BY DEF Null
<1> QED BY <1>1

\* A handler that fails ends the download.
LEMMA SftpFails ==
  ASSUME SftpInv, step # "ended", Null, UNCHANGED <<url, remote, file_size_, totalBytesRead>>,
         session' = session \/ (session' = "freed" /\ step = "read"),
         method' \in {"none", "private key", "public key", "password"}, method # "none" => method' # "none"
  PROVE  SftpInv'
<1>1. answers' = <<"null">>
  BY Answering DEF SftpInv, SftpAnswered, Null
<1>2. step' = "ended" /\ failures' \in 0..2 /\ failures' > 0
  <2>1. failures = 0 \/ failures = 1
    BY DEF SftpInv, SftpFailures
  <2>2. step' = "ended"
    BY DEF Null
  <2> QED BY <2>1, <2>2, FailureCounts
<1>3. SftpTypes'
  <2>1. failures' \in 0..2 /\ step' \in Position
    BY <1>2 DEF Position
  <2>2. session' \in {"none", "live", "freed"}
    BY DEF SftpInv, SftpTypes
  <2> QED BY <2>1, <2>2 DEF SftpInv, SftpTypes, transfer
<1>4. SftpAnswered' /\ SftpFailures' /\ SftpRead'
  BY <1>1, <1>2, AnswersDiffer DEF SftpAnswered, SftpFailures, SftpRead
<1>5. SftpSession'
  <2>1. session = "freed" => FALSE
    BY DEF SftpInv, SftpSession
  <2>2. session' = "freed" => method' # "none"
    BY <2>1 DEF SftpInv, SftpSession
  <2> QED BY <1>1, <1>2, <2>2 DEF SftpSession
<1> QED BY <1>3, <1>4, <1>5 DEF SftpInv

\* A handler that succeeds calls the next one.
LEMMA SftpSucceeds ==
  ASSUME SftpInv, step \in {"connect", "handshake", "auth", "init", "open"}, failures = 0,
         step' \in {"handshake", "auth", "init", "open", "stat"}, UNCHANGED <<failures, answers>>,
         UNCHANGED <<url, remote, file_size_, totalBytesRead, session>>, method' \in {"none", "private key", "public key", "password"},
         step' \in {"init", "open", "stat"} => method' # "none"
  PROVE  SftpInv'
<1>1. SftpTypes'
  BY DEF SftpInv, SftpTypes, Position
<1>2. SftpAnswered' /\ answers' = << >> /\ failures' = 0
  BY DEF SftpInv, SftpAnswered
<1>3. SftpFailures'
  BY <1>2, AnswersDiffer DEF SftpFailures
<1>4. SftpRead'
  BY <1>2, AnswersDiffer DEF SftpInv, SftpRead
<1>5. SftpSession'
  BY DEF SftpInv, SftpSession
<1> QED BY <1>1, <1>2, <1>3, <1>4, <1>5 DEF SftpInv

LEMMA SftpInductive ==
  ASSUME SftpInv, [Next]_vars
  PROVE  SftpInv'
<1> USE DEF SftpInv
<1>1. /\ step \in Position /\ method \in {"none", "private key", "public key", "password"}
      /\ step \notin {"connect", "ended"} => failures = 0
      /\ step \in {"init", "open", "stat", "read"} => method # "none"
  BY DEF SftpTypes, SftpFailures, SftpSession
<1>2. CASE LoadASync
  <2>1. SftpTypes'
    <3>1. failures' \in 0..2 /\ step' \in Position /\ session' \in {"none", "live", "freed"}
      BY <1>2 DEF LoadASync, Position
    <3> QED BY <1>2, <3>1 DEF LoadASync, SftpTypes, transfer
  <2>2. SftpAnswered' /\ answers' = << >>
    BY <1>2 DEF LoadASync, SftpAnswered
  <2>3. SftpFailures' /\ SftpRead' /\ SftpSession'
    BY <1>2, <2>2, AnswersDiffer DEF LoadASync, SftpFailures, SftpRead, SftpSession, transfer
  <2> QED BY <2>1, <2>2, <2>3
<1>3. CASE Connected
  <2>1. CASE failures = 0 /\ Succeeds("connect")
    <3>1. Advance("connect", "handshake")
      BY <2>1, ChainSteps
    <3> QED BY <1>1, <1>3, <2>1, <3>1, SftpSucceeds DEF Connected, transfer, Advance
  <2>2. CASE Fails("connect")
    BY <1>1, <1>3, <2>2, SftpFails DEF Connected, Fails, transfer
  <2> QED BY <1>3, <2>1, <2>2 DEF Connected
<1>4. CASE StartSFTPHandshake
  <2>1. CASE Succeeds("handshake")
    <3>1. Advance("handshake", "auth") /\ failures = 0
      BY <1>1, <2>1, ChainSteps DEF Advance
    <3> QED BY <1>1, <1>4, <3>1, SftpSucceeds DEF StartSFTPHandshake, transfer, Advance
  <2>2. CASE Fails("handshake")
    BY <1>1, <1>4, <2>2, SftpFails DEF StartSFTPHandshake, Fails, transfer
  <2> QED BY <1>4, <2>1, <2>2 DEF StartSFTPHandshake
<1>5. CASE StartSFTPAuth
  <2>1. method' \in {"private key", "public key", "password"}
    BY <1>5 DEF StartSFTPAuth, Method
  <2>2. CASE Succeeds("auth")
    <3>1. Advance("auth", "init") /\ failures = 0
      BY <1>1, <2>2, ChainSteps DEF Advance
    <3> QED BY <1>1, <1>5, <2>1, <3>1, SftpSucceeds DEF StartSFTPAuth, transfer, Advance
  <2>3. CASE Fails("auth")
    BY <1>1, <1>5, <2>1, <2>3, SftpFails DEF StartSFTPAuth, Fails, transfer
  <2> QED BY <1>5, <2>2, <2>3 DEF StartSFTPAuth
<1>6. CASE StartCreateSFTP
  <2>1. CASE Succeeds("init")
    <3>1. Advance("init", "open") /\ failures = 0 /\ method # "none"
      BY <1>1, <2>1, ChainSteps DEF Advance
    <3> QED BY <1>1, <1>6, <3>1, SftpSucceeds DEF StartCreateSFTP, transfer, Advance
  <2>2. CASE Fails("init")
    BY <1>1, <1>6, <2>2, SftpFails DEF StartCreateSFTP, Fails, transfer
  <2> QED BY <1>6, <2>1, <2>2 DEF StartCreateSFTP
<1>7. CASE StartSFTPOpen
  <2>1. CASE Succeeds("open")
    <3>1. Advance("open", "stat") /\ failures = 0 /\ method # "none"
      BY <1>1, <2>1, ChainSteps DEF Advance
    <3> QED BY <1>1, <1>7, <3>1, SftpSucceeds DEF StartSFTPOpen, transfer, Advance
  <2>2. CASE Fails("open")
    BY <1>1, <1>7, <2>2, SftpFails DEF StartSFTPOpen, Fails, transfer
  <2> QED BY <1>7, <2>1, <2>2 DEF StartSFTPOpen
<1>8. CASE StartSFTPGetSize
  <2>1. CASE Succeeds("stat") /\ file_size_' = remote
    <3>1. Advance("stat", "read") /\ failures = 0 /\ method # "none" /\ totalBytesRead = 0 /\ answers = << >>
      BY <1>1, <2>1, ChainSteps DEF Advance, SftpRead, SftpAnswered
    <3>2. SftpTypes'
      <4>1. 0 \in 0..remote
        BY SftpNumbers
      <4>2. totalBytesRead' \in 0..file_size_' /\ file_size_' \in 0..MaxSize
        BY <1>8, <2>1, <3>1, <4>1 DEF StartSFTPGetSize, SftpTypes
      <4>3. step' \in Position /\ failures' = failures
        BY <3>1 DEF Advance, Position
      <4> QED BY <1>8, <4>2, <4>3 DEF StartSFTPGetSize, SftpTypes
    <3>3. SftpAnswered' /\ SftpFailures' /\ SftpRead'
      BY <1>8, <3>1, AnswersDiffer DEF StartSFTPGetSize, SftpAnswered, SftpFailures, SftpRead, Advance
    <3>4. SftpSession'
      BY <1>8, <3>1 DEF StartSFTPGetSize, SftpSession, Advance
    <3> QED BY <3>2, <3>3, <3>4
  <2>2. CASE Fails("stat") /\ UNCHANGED file_size_
    BY <1>1, <1>8, <2>2, SftpFails DEF StartSFTPGetSize, Fails, transfer
  <2>3. CASE /\ step = "stat" /\ step' = "threw" /\ file_size_' = remote
             /\ UNCHANGED <<failures, answers>>
    <3>1. failures = 0 /\ totalBytesRead = 0 /\ answers = << >>
      BY <1>1, <2>3 DEF SftpRead, SftpAnswered
    <3>2. totalBytesRead' \in 0..file_size_' /\ file_size_' \in 0..MaxSize
      <4>1. 0 \in 0..remote
        BY SftpNumbers
      <4> QED BY <1>8, <2>3, <3>1, <4>1 DEF StartSFTPGetSize, SftpTypes
    <3>3. SftpTypes'
      BY <1>8, <2>3, <3>2 DEF StartSFTPGetSize, SftpTypes, Position
    <3>4. SftpAnswered' /\ SftpFailures' /\ SftpRead'
      BY <1>8, <2>3, <3>1, AnswersDiffer DEF StartSFTPGetSize, SftpAnswered, SftpFailures, SftpRead
    <3>5. SftpSession'
      BY <1>8, <2>3 DEF StartSFTPGetSize, SftpSession
    <3> QED BY <3>3, <3>4, <3>5
  <2> QED BY <1>8, <2>1, <2>2, <2>3 DEF StartSFTPGetSize
<1>9. CASE GetBlocks
  <2>1. /\ step = "read" /\ failures = 0 /\ method # "none" /\ answers = << >>
        /\ UNCHANGED <<url, remote, file_size_, session, method, failures>>
    BY <1>1, <1>9 DEF GetBlocks, SftpAnswered
  <2>2. PICK rc \in 1..(file_size_ - totalBytesRead) :
          /\ totalBytesRead' = totalBytesRead + rc
          /\ IF totalBytesRead' >= file_size_
               THEN step' = "ended" /\ answers' = Append(answers, "data")
               ELSE UNCHANGED <<step, answers>>
    BY <1>9 DEF GetBlocks
  <2>3. file_size_ \in Nat /\ totalBytesRead' \in 0..file_size_ /\ totalBytesRead' > 0
    <3>1. file_size_ \in Nat /\ totalBytesRead \in Nat
      BY SftpNumbers
    <3> QED BY <2>2, <3>1
  <2>4. CASE totalBytesRead' >= file_size_
    <3>1. step' = "ended" /\ answers' = <<"data">> /\ totalBytesRead' = file_size_ /\ file_size_ > 0
      BY <2>1, <2>2, <2>3, <2>4, Answering
    <3>2. SftpTypes'
      BY <2>1, <2>3, <3>1 DEF SftpTypes, Position
    <3>3. SftpAnswered' /\ SftpFailures' /\ SftpRead'
      BY <2>1, <3>1, AnswersDiffer DEF SftpAnswered, SftpFailures, SftpRead
    <3>4. SftpSession'
      BY <2>1, <3>1 DEF SftpSession
    <3> QED BY <3>2, <3>3, <3>4
  <2>5. CASE ~(totalBytesRead' >= file_size_)
    <3>1. step' = step /\ answers' = answers
      BY <2>2, <2>5
    <3>2. SftpTypes'
      BY <2>1, <2>3, <3>1 DEF SftpTypes
    <3>3. SftpAnswered' /\ SftpFailures' /\ SftpRead' /\ SftpSession'
      BY <2>1, <3>1, AnswersDiffer DEF SftpAnswered, SftpFailures, SftpRead, SftpSession
    <3> QED BY <3>2, <3>3
  <2> QED BY <2>4, <2>5
<1>10. CASE GetBlocksFails
  BY <1>1, <1>10, SftpFails DEF GetBlocksFails, StartSFTPCleanup, transfer
<1>11. CASE Truncated
  <2>1. UNCHANGED <<url, step, file_size_, totalBytesRead, session, method, failures, answers>>
    BY <1>11 DEF Truncated
  <2>2. remote' \in 0..MaxSize
    <3>1. remote \in Nat /\ remote <= MaxSize
      BY SftpNumbers
    <3>2. PICK k \in 0..(remote - 1) : remote' = k
      BY <1>11 DEF Truncated
    <3> QED BY <3>1, <3>2, BoundsAreNat
  <2>3. SftpTypes'
    BY <2>1, <2>2 DEF SftpTypes
  <2> QED BY <2>1, <2>3 DEF SftpAnswered, SftpFailures, SftpRead, SftpSession
<1>12. CASE UNCHANGED vars
  BY <1>12 DEF vars, SftpTypes, SftpAnswered, SftpFailures, SftpRead, SftpSession
<1> QED BY <1>2, <1>3, <1>4, <1>5, <1>6, <1>7, <1>8, <1>9, <1>10, <1>11, <1>12 DEF Next, Download

\* The inductive invariant of an SFTP download, from the connection to its answer.
THEOREM SftpInvariant == Spec => []SftpInv
<1>1. Init => SftpInv
  BY SftpInitial
<1>2. SftpInv /\ [Next]_vars => SftpInv'
  BY SftpInductive
<1> QED BY <1>1, <1>2, PTL DEF Spec

\* Type correctness of an SFTP download, for files of any size.
THEOREM SftpTypeCorrect == Spec => []TypeOK
<1>1. SftpInv => TypeOK
  BY ChainSteps, AnswersDiffer DEF SftpInv, SftpTypes, SftpAnswered, TypeOK
<1> QED BY <1>1, SftpInvariant, PTL

\* getURLComponents, parseHTTPUrl, parseIPFSUrl and parseSFTPUrl return what the
\* grammars of urls and logins say, for urls of any length.
THEOREM ParsersCorrect == Spec => []ParsersMatchGrammar
<1>1. url \in Seq(Symbols) => UrlsMatchGrammar
  BY ComponentUrls, HTTPUrls, IPFSUrls DEF UrlsMatchGrammar
<1>2. ASSUME url \in Seq(Symbols) PROVE LoginsMatchGrammar
  <2> DEFINE lo == Before(url, Find(url, "@"))
             place == From(url, Find(url, "@") + 1)
             s == Find(place, "/")
             r == parseSFTPUrl(url)
             l == Credentials(lo)
  <2>1. /\ lo \in Seq(Symbols) /\ s \in Nat
        /\ SFTPGrammar(url) = IF s > 1 THEN {[login |-> lo, host |-> Before(place, s), path |-> From(place, s)]}
                              ELSE {}
    BY <1>2, SFTPUrls
  <2>2. /\ r.login = l /\ r.ok = (s > 1)
        /\ s # 0 => r.host = Before(place, s) /\ r.path = From(place, s)
    BY DEF parseSFTPUrl
  <2>3. /\ \A k \in LoginGrammar(lo) :
             /\ l.user = k.user
             /\ Range(k.secret) \cap Words = {} => l.pass = k.secret
        /\ (l.pass # Empty => l.publickey_file = Empty /\ l.privatekey_file = Empty)
        /\ l.publickey_file # Empty => l.privatekey_file = Empty
        /\ l.privatekey_pass # Empty => l.pass = Empty /\ l.publickey_file = Empty
    BY <2>1, LoginUrls
  <2> HIDE DEF lo, place, s, r, l
  <2>4. r.ok <=> SFTPGrammar(url) # {}
    BY <2>1, <2>2
  <2>5. \A g \in SFTPGrammar(url) : g.login = lo /\ r.host = g.host /\ r.path = g.path
    BY <2>1, <2>2
  <2> QED BY <2>2, <2>3, <2>4, <2>5 DEF LoginsMatchGrammar, r
<1>3. SftpInv => ParsersMatchGrammar
  BY <1>1, <1>2 DEF SftpInv, SftpTypes, ParsersMatchGrammar
<1> QED BY <1>3, SftpInvariant, PTL

\* An SFTP load delivers a whole file and no part of one, reports a failure exactly
\* when it delivers none, and frees its session after its last use.
THEOREM SftpDeliversWhole == Spec => []DeliversWholeFile
<1>1. SftpInv => DeliversWholeFile
  BY DEF SftpInv, SftpFailures, SftpRead, SftpSession, DeliversWholeFile
<1> QED BY <1>1, SftpInvariant, PTL

\* handle_read is called at most once: the download implements OneShot.
THEOREM SftpAnswersOnce == Spec => LoadAnsweredOnce
<1>1. Init => Contract!Init
  BY DEF Init, Contract!Init
<1>2. SftpInv /\ SftpInv' /\ [Next]_vars => [Contract!Next]_answers
  <2> SUFFICES ASSUME SftpInv, SftpInv', [Next]_vars PROVE [Contract!Next]_answers
    OBVIOUS
  <2>1. CASE step = "ended"
    <3>1. ~Next
      BY <2>1 DEF Next, LoadASync, Download, Connected, StartSFTPHandshake, StartSFTPAuth, StartCreateSFTP,
                  StartSFTPOpen, StartSFTPGetSize, GetBlocks, GetBlocksFails, Truncated, Succeeds, Fails
    <3> QED BY <3>1 DEF vars
  <2>2. CASE step # "ended"
    <3>1. answers = << >> /\ (answers' = << >> \/ answers' = <<"data">> \/ answers' = <<"null">>)
      BY <2>2 DEF SftpInv, SftpAnswered
    <3> QED BY <3>1 DEF Contract!Next, Contract!Answer, Answers
  <2> QED BY <2>1, <2>2
<1> QED BY <1>1, <1>2, SftpInvariant, PTL DEF Spec, LoadAnsweredOnce, Contract!Spec

-----------------------------------------------------------------------------
(* The download of an HTTPDevice. *)

\* A load has one answer once it is finished and none before, and no operation is
\* left then.
HttpAnswered ==
  IF phase = "finished" THEN op = "none" /\ \E a \in HttpAnswers : httpAnswers = <<a>>
                        ELSE httpAnswers = << >>

HttpArmed ==
  \A d \in Timers : deadline[d] = "armed" => phase \in Guarded /\ Guard(phase) = d

HttpTypes == phase \in Phases /\ deadline \in [Timers -> TimerStates]

HttpInv == HttpTypes /\ HttpAnswered /\ HttpArmed

\* What the timers of the phases are.
LEMMA HttpGuards ==
  /\ Guard("connecting") = "connect" /\ Guard("handshaking") = "handshake"
  /\ Guard("writing") = "read" /\ Guard("reading") = "read"
  /\ \A p : Guard(p) \in Timers
BY DEF Guard, Timers

\* A load that ends without a running timer.
LEMMA HttpEnds ==
  ASSUME HttpInv, phase # "finished", NEW a \in HttpAnswers, Answer(a),
         deadline' \in [Timers -> TimerStates], \A t \in Timers : deadline'[t] # "armed"
  PROVE  HttpInv'
<1>1. httpAnswers = << >>
  BY DEF HttpInv, HttpAnswered
<1>2. httpAnswers' = <<a>> /\ phase' = "finished" /\ op' = "none"
  BY <1>1 DEF Answer
<1> QED BY <1>2 DEF HttpInv, HttpTypes, HttpArmed, HttpAnswered, Phases

\* The timer of the phase is the only one that can be armed: once it is cancelled
\* none is.
LEMMA HttpCancels ==
  ASSUME HttpInv, NEW d \in Timers, deadline' = CancelDeadline(deadline, d),
         Guard(phase) = d
  PROVE  /\ deadline' \in [Timers -> TimerStates]
         /\ \A t \in Timers : deadline'[t] # "armed"
<1>1. deadline' = [deadline EXCEPT ![d] = IF @ = "armed" THEN "cancelled" ELSE @]
  BY DEF CancelDeadline
<1>2. deadline' \in [Timers -> TimerStates]
  BY <1>1 DEF HttpInv, HttpTypes, TimerStates
<1>3. ASSUME NEW t \in Timers PROVE deadline'[t] # "armed"
  BY <1>1 DEF HttpInv, HttpTypes, HttpArmed
<1> QED BY <1>2, <1>3

LEMMA HttpFails ==
  ASSUME HttpInv, NEW e \in HttpAnswers, phase # "finished", Fail(e)
  PROVE  HttpInv'
<1> DEFINE d == Guard(phase)
<1>1. d \in Timers
  BY HttpGuards
<1>2. PICK a \in HttpAnswers : Answer(a)
  BY DEF Fail, HttpAnswers, HttpErrors
<1>3. deadline' = CancelDeadline(deadline, d)
  BY DEF Fail
<1>4. /\ deadline' \in [Timers -> TimerStates]
      /\ \A t \in Timers : deadline'[t] # "armed"
  BY <1>1, <1>3, HttpCancels
<1> QED BY <1>2, <1>4, HttpEnds

\* The next phase begins: the timer of the last one is cancelled and its own armed.
LEMMA HttpBegins ==
  ASSUME HttpInv, phase # "finished", phase' \in Guarded, httpAnswers' = httpAnswers,
         NEW d \in Timers, \A t \in Timers : deadline[t] = "armed" => t = d,
         NEW n \in Timers, Guard(phase') = n,
         deadline' = ArmDeadline(CancelDeadline(deadline, d), n)
  PROVE  HttpInv'
<1> DEFINE c == CancelDeadline(deadline, d)
<1>1. c \in [Timers -> TimerStates] /\ \A t \in Timers : c[t] # "armed"
  BY DEF HttpInv, HttpTypes, HttpArmed, CancelDeadline, TimerStates
<1>2. deadline' = [c EXCEPT ![n] = "armed"]
  BY DEF ArmDeadline
<1> HIDE DEF c
<1>3. /\ deadline' \in [Timers -> TimerStates]
      /\ \A t \in Timers : deadline'[t] = "armed" => t = n
  BY <1>1, <1>2 DEF TimerStates
<1>4. phase' \in Phases /\ phase' # "finished"
  BY DEF Guarded, Phases
<1>5. httpAnswers' = << >>
  BY DEF HttpInv, HttpAnswered
<1> QED BY <1>3, <1>4, <1>5 DEF HttpInv, HttpTypes, HttpArmed, HttpAnswered

LEMMA HttpInductive ==
  ASSUME HttpInv, [HttpNext]_httpVars
  PROVE  HttpInv'
<1>1. /\ phase = "finished" => op = "none"
      /\ phase # "finished" => httpAnswers = << >>
      /\ deadline \in [Timers -> TimerStates]
      /\ phase \notin Guarded => \A t \in Timers : deadline[t] # "armed"
  BY DEF HttpInv, HttpTypes, HttpAnswered, HttpArmed
<1>2. CASE PostFailure
  <2>1. phase = "start" /\ phase' = "posted" /\ UNCHANGED <<op, deadline, httpAnswers>>
    BY <1>2 DEF PostFailure
  <2>2. \A t \in Timers : deadline[t] # "armed"
    BY <1>1, <2>1 DEF Guarded
  <2> QED BY <2>1, <2>2 DEF HttpInv, HttpTypes, HttpAnswered, HttpArmed, Phases
<1>3. CASE SetSNIFails
  <2>1. phase = "start" /\ Answer("threw") /\ deadline' = deadline
    BY <1>3 DEF SetSNIFails
  <2>2. \A t \in Timers : deadline[t] # "armed"
    BY <1>1, <2>1 DEF Guarded
  <2> QED BY <1>1, <2>1, <2>2, HttpEnds DEF HttpAnswers
<1>4. CASE StartHTTPDownload
  <2>1. /\ phase = "start" /\ phase' = "connecting" /\ httpAnswers' = httpAnswers
        /\ deadline' = ArmDeadline(deadline, "connect")
    BY <1>4 DEF StartHTTPDownload
  <2>2. \A t \in Timers : deadline[t] # "armed"
    BY <1>1, <2>1 DEF Guarded
  <2>3. /\ deadline' \in [Timers -> TimerStates]
        /\ \A t \in Timers : deadline'[t] = "armed" => t = "connect"
    BY <1>1, <2>1, <2>2 DEF ArmDeadline, TimerStates
  <2>4. phase' \in Phases /\ phase' \in Guarded /\ phase' # "finished" /\ httpAnswers' = << >>
    BY <1>1, <2>1 DEF Guarded, Phases
  <2> QED BY <2>1, <2>3, <2>4, HttpGuards DEF HttpInv, HttpTypes, HttpAnswered, HttpArmed
<1>5. ASSUME NEW r \in {"step", "ok", "error"}, PeerActs(r) PROVE HttpInv'
  BY <1>1, <1>5 DEF PeerActs, HttpInv, HttpTypes, HttpAnswered, HttpArmed
<1>6. ASSUME NEW d \in Timers, TimerDue(d) PROVE HttpInv'
  <2>1. deadline' = [deadline EXCEPT ![d] = "due"] /\ UNCHANGED <<phase, op, httpAnswers>>
    BY <1>6 DEF TimerDue
  <2>2. /\ deadline' \in [Timers -> TimerStates]
        /\ \A t \in Timers : deadline'[t] = "armed" => deadline[t] = "armed"
    BY <1>1, <2>1 DEF TimerStates
  <2> QED BY <2>1, <2>2 DEF HttpInv, HttpTypes, HttpAnswered, HttpArmed
<1>7. ASSUME NEW d \in Timers, DeadlineHandler(d) PROVE HttpInv'
  <2>1. /\ deadline' = [deadline EXCEPT ![d] = "expired"] /\ UNCHANGED <<phase, httpAnswers>>
        /\ op = "none" => op' = "none"
    BY <1>7 DEF DeadlineHandler
  <2>2. /\ deadline' \in [Timers -> TimerStates]
        /\ \A t \in Timers : deadline'[t] = "armed" => deadline[t] = "armed"
    BY <1>1, <2>1 DEF TimerStates
  <2> QED BY <2>1, <2>2 DEF HttpInv, HttpTypes, HttpAnswered, HttpArmed
<1>8. CASE HttpRunPosted
  <2>1. PICK e \in {"INVALID_URL", "COULD_NOT_RESOLVE"} : Answer(e)
    BY <1>8 DEF HttpRunPosted
  <2>2. phase = "posted" /\ deadline' = deadline /\ e \in HttpAnswers
    BY <1>8 DEF HttpRunPosted, HttpAnswers, HttpErrors
  <2>3. \A t \in Timers : deadline[t] # "armed"
    BY <1>1, <2>2 DEF Guarded
  <2> QED BY <1>1, <2>1, <2>2, <2>3, HttpEnds
<1>9. CASE Continue
  BY <1>1, <1>9 DEF Continue, HttpInv, HttpTypes, HttpAnswered, HttpArmed
<1>10. CASE TryNextEndpoint
  BY <1>10 DEF TryNextEndpoint, HttpInv, HttpTypes, HttpAnswered, HttpArmed
<1>11. CASE HttpConnected
  <2>1. /\ phase = "connecting" /\ phase' = "handshaking" /\ httpAnswers' = httpAnswers
        /\ deadline' = ArmDeadline(CancelDeadline(deadline, "connect"), "handshake")
    BY <1>11 DEF HttpConnected
  <2>2. \A t \in Timers : deadline[t] = "armed" => t = "connect"
    BY <2>1, HttpGuards DEF HttpInv, HttpArmed
  <2>3. "connect" \in Timers /\ "handshake" \in Timers /\ phase' \in Guarded
    BY <2>1 DEF Timers, Guarded
  <2> QED BY <2>1, <2>2, <2>3, HttpGuards, HttpBegins
<1>12. CASE ConnectFailed
  BY <1>12, HttpFails DEF ConnectFailed, HttpAnswers, HttpErrors
<1>13. CASE StartHTTPGet
  <2>1. /\ phase = "handshaking" /\ phase' = "writing" /\ httpAnswers' = httpAnswers
        /\ deadline' = ArmDeadline(CancelDeadline(deadline, "handshake"), "read")
    BY <1>13 DEF StartHTTPGet
  <2>2. \A t \in Timers : deadline[t] = "armed" => t = "handshake"
    BY <2>1, HttpGuards DEF HttpInv, HttpArmed
  <2>3. "handshake" \in Timers /\ "read" \in Timers /\ phase' \in Guarded
    BY <2>1 DEF Timers, Guarded
  <2> QED BY <2>1, <2>2, <2>3, HttpGuards, HttpBegins
<1>14. CASE HandshakeFailed
  BY <1>14, HttpFails DEF HandshakeFailed, HttpAnswers, HttpErrors
<1>15. CASE HttpWritten
  <2>1. phase = "writing" /\ phase' = "reading" /\ UNCHANGED <<deadline, httpAnswers>>
    BY <1>15 DEF HttpWritten
  <2>2. phase' \in Phases /\ phase' \in Guarded
    BY <2>1 DEF Phases, Guarded
  <2>3. HttpArmed'
    BY <2>1, <2>2, HttpGuards DEF HttpInv, HttpArmed
  <2> QED BY <1>1, <2>1, <2>2, <2>3 DEF HttpInv, HttpTypes, HttpAnswered
<1>16. CASE HttpWriteFailed
  BY <1>16, HttpFails DEF HttpWriteFailed, HttpAnswers, HttpErrors
<1>17. CASE ReadHandler
  <2>1. phase = "reading" /\ deadline' = CancelDeadline(deadline, "read")
    BY <1>17 DEF ReadHandler
  <2>2. PICK a \in HttpAnswers : Answer(a)
    BY <1>17 DEF ReadHandler, HttpAnswers, HttpErrors
  <2>3. /\ deadline' \in [Timers -> TimerStates]
        /\ \A t \in Timers : deadline'[t] # "armed"
    BY <2>1, HttpGuards, HttpCancels
  <2> QED BY <2>1, <2>2, <2>3, HttpEnds
<1>18. CASE ReadFailed
  BY <1>18, HttpFails DEF ReadFailed, HttpAnswers, HttpErrors
<1>19. CASE UNCHANGED httpVars
  BY <1>19 DEF httpVars, HttpInv, HttpTypes, HttpAnswered, HttpArmed
<1> QED BY <1>2, <1>3, <1>4, <1>5, <1>6, <1>7, <1>8, <1>9, <1>10, <1>11, <1>12, <1>13, <1>14, <1>15,
           <1>16, <1>17, <1>18, <1>19 DEF HttpNext, Handlers

\* The inductive invariant of an https load: its timers, and its answer.
THEOREM HttpInvariant == HttpSpec => []HttpInv
<1>1. HttpInit => HttpInv
  BY DEF HttpInv, HttpTypes, HttpArmed, HttpAnswered, HttpInit, Phases, TimerStates
<1>2. HttpInv /\ [HttpNext]_httpVars => HttpInv'
  BY HttpInductive
<1> QED BY <1>1, <1>2, PTL DEF HttpSpec

HttpOps == endpoints \in 0..MaxEndpoints /\ op \in Ops /\ late \in BOOLEAN

LEMMA HttpOpsInductive ==
  ASSUME HttpOps, [HttpNext]_httpVars
  PROVE  HttpOps'
<1>1. MaxEndpoints \in Nat /\ \A n \in 1..MaxEndpoints : n \in 0..MaxEndpoints
  BY MaxEndpointsIsPositive
<1>2. \A a : Answer(a) => HttpOps'
  BY DEF Answer, HttpOps, Ops
<1>3. CASE PostFailure \/ HttpConnected \/ StartHTTPGet \/ HttpWritten \/ Continue
  BY <1>3 DEF PostFailure, HttpConnected, StartHTTPGet, HttpWritten, Continue, Begin, HttpOps,
     Ops
<1>4. CASE SetSNIFails \/ HttpRunPosted \/ ReadHandler
  BY <1>2, <1>4 DEF SetSNIFails, HttpRunPosted, ReadHandler
<1>5. CASE ConnectFailed \/ HandshakeFailed \/ HttpWriteFailed \/ ReadFailed
  BY <1>2, <1>5 DEF ConnectFailed, HandshakeFailed, HttpWriteFailed, ReadFailed, Fail
<1>6. CASE StartHTTPDownload
  BY <1>1, <1>6 DEF StartHTTPDownload, Begin, HttpOps, Ops
<1>7. CASE TryNextEndpoint
  <2>1. endpoints \in 0..MaxEndpoints /\ endpoints > 1 /\ endpoints' = endpoints - 1
    BY <1>7 DEF TryNextEndpoint, HttpOps
  <2>2. endpoints' \in 0..MaxEndpoints
    BY <1>1, <2>1
  <2> QED BY <1>7, <2>2 DEF TryNextEndpoint, Begin, HttpOps, Ops
<1>8. ASSUME NEW r \in {"step", "ok", "error"}, PeerActs(r) PROVE HttpOps'
  BY <1>8 DEF PeerActs, HttpOps, Ops
<1>9. ASSUME NEW d \in Timers, TimerDue(d) \/ DeadlineHandler(d) PROVE HttpOps'
  BY <1>9 DEF TimerDue, DeadlineHandler, HttpOps, Ops
<1>10. CASE UNCHANGED httpVars
  BY <1>10 DEF httpVars, HttpOps
<1> QED BY <1>3, <1>4, <1>5, <1>6, <1>7, <1>8, <1>9, <1>10 DEF HttpNext, Handlers

\* Type correctness of an https load, for any number of addresses; a load has at most
\* one answer, of the ones listed.
THEOREM HttpTypeCorrect == HttpSpec => []HttpTypeOK
<1>1. HttpInit => HttpOps
  <2>1. 0 \in 0..MaxEndpoints
    BY MaxEndpointsIsPositive
  <2> QED BY <2>1 DEF HttpInit, HttpOps, Ops
<1>2. HttpOps /\ [HttpNext]_httpVars => HttpOps'
  BY HttpOpsInductive
<1>3. HttpInv /\ HttpOps => HttpTypeOK
  <2>1. << >> \in Seq(HttpAnswers) /\ \A a \in HttpAnswers : <<a>> \in Seq(HttpAnswers)
    OBVIOUS
  <2> QED BY <2>1 DEF HttpInv, HttpTypes, HttpAnswered, HttpOps, HttpTypeOK
<1> QED BY <1>1, <1>2, <1>3, HttpInvariant, PTL DEF HttpSpec

\* A running timer of an https load guards the phase the load is in, and nothing is
\* left running once handle_read was called, for any number of addresses.
THEOREM HttpDeadlines == HttpSpec => []OnlyCurrentDeadlineArmed
<1>1. HttpInv => OnlyCurrentDeadlineArmed
  BY DEF HttpInv, HttpArmed, HttpAnswered, OnlyCurrentDeadlineArmed
<1> QED BY <1>1, HttpInvariant, PTL

\* handle_read is called at most once for an https load: the device implements
\* OneShot.
THEOREM HttpAnswersOnce == HttpSpec => AnsweredOnce
<1>1. HttpInit => HttpContract!Init
  BY DEF HttpInit, HttpContract!Init
<1>2. HttpInv /\ HttpInv' /\ [HttpNext]_httpVars => [HttpContract!Next]_httpAnswers
  <2> SUFFICES ASSUME HttpInv, HttpInv', [HttpNext]_httpVars
               PROVE  [HttpContract!Next]_httpAnswers
    OBVIOUS
  <2>1. CASE phase = "finished"
    <3>1. op = "none"
      BY <2>1 DEF HttpInv, HttpAnswered
    <3> QED BY <2>1, <3>1 DEF HttpNext, Handlers, PostFailure, SetSNIFails,
              StartHTTPDownload, PeerActs, TimerDue, DeadlineHandler, HttpRunPosted,
              Continue, TryNextEndpoint, HttpConnected, ConnectFailed, StartHTTPGet,
              HandshakeFailed, HttpWritten, HttpWriteFailed, ReadHandler, ReadFailed, httpVars
  <2>2. CASE phase # "finished"
    <3>1. httpAnswers = << >> /\ (httpAnswers' = << >> \/ \E a \in HttpAnswers : httpAnswers' = <<a>>)
      BY <2>2 DEF HttpInv, HttpAnswered
    <3> QED BY <3>1 DEF HttpContract!Next, HttpContract!Answer
  <2> QED BY <2>1, <2>2
<1> QED BY <1>1, <1>2, HttpInvariant, PTL DEF HttpSpec, AnsweredOnce, HttpContract!Spec

-----------------------------------------------------------------------------
(* The loads of WSDevice, any number of them on one io_context. *)

(***************************************************************************)
(* Where a load is.  One whose name resolved has an operation in progress, *)
(* or one answer, or neither: it was not started or its write failed.  One *)
(* whose name did not has two answers to give, in either order.            *)
(***************************************************************************)
WsResolved(l) ==
  \/ pending[l] = {} /\ wsAnswers[l] = << >>
  \/ /\ \E x \in Operations \cup {"INVALID_URL"} : pending[l] = {x}
     /\ wsAnswers[l] = << >> /\ ~silent[l]
  \/ /\ pending[l] = {} /\ ~silent[l]
     /\ \E a \in WsAnswers : wsAnswers[l] = <<a>>

WsUnresolved(l) ==
  /\ ~silent[l]
  /\ \/ pending[l] = {"COULD_NOT_RESOLVE", "connect"} /\ wsAnswers[l] = << >>
     \/ pending[l] = {"connect"} /\ wsAnswers[l] = <<"COULD_NOT_RESOLVE">>
     \/ pending[l] = {"COULD_NOT_RESOLVE"} /\ wsAnswers[l] = <<"CONNECT_ERROR">>
     \/ /\ pending[l] = {}
        /\ wsAnswers[l] \in {<<"COULD_NOT_RESOLVE", "CONNECT_ERROR">>,
                             <<"CONNECT_ERROR", "COULD_NOT_RESOLVE">>}

WsLoadInv(l) == IF resolved[l] THEN WsResolved(l) ELSE WsUnresolved(l)

Begun == {l \in Loads : Started(l)}
Unanswered == {l \in Loads : Started(l) /\ wsAnswers[l] = << >>}
Twice == \E l \in Loads : ~resolved[l] /\ Len(wsAnswers[l]) = 2

(***************************************************************************)
(* The counter is the number of loads nobody has answered, until a load is *)
(* answered twice; a stopped context then means that there are none.       *)
(***************************************************************************)
WsCountInv ==
  /\ IsFiniteSet(Begun)
  /\ outstandingOperations_ \in Nat
  /\ outstandingOperations_ <= Cardinality(Begun)
  /\ ~Twice => /\ outstandingOperations_ = Cardinality(Unanswered)
               /\ stopped => Unanswered = {}

WsTypes ==
  /\ pending \in [Loads -> SUBSET (Operations \cup WsAnswers)]
  /\ resolved \in [Loads -> BOOLEAN]
  /\ wsAnswers \in [Loads -> Seq(WsAnswers)]
  /\ silent \in [Loads -> BOOLEAN]
  /\ stopped \in BOOLEAN

\* The inductive invariant.
WsInv == WsTypes /\ (\A l \in Loads : WsLoadInv(l)) /\ WsCountInv

-----------------------------------------------------------------------------
(* The counter of the wss loads. *)

LEMMA CountsFinite ==
  ASSUME WsInv
  PROVE  /\ IsFiniteSet(Begun) /\ Cardinality(Begun) \in Nat
         /\ IsFiniteSet(Unanswered) /\ Cardinality(Unanswered) \in Nat
         /\ Cardinality(Unanswered) = 0 <=> Unanswered = {}
<1>1. IsFiniteSet(Begun) /\ Unanswered \subseteq Begun
  BY DEF Begun, Unanswered, WsInv, WsCountInv
<1>2. IsFiniteSet(Begun) /\ IsFiniteSet(Unanswered)
  BY <1>1, FS_Subset
<1> QED BY <1>2, FS_CardinalityType, FS_EmptySet

\* What a step on load l leaves alone.
Elsewhere(l) ==
  \A k \in Loads \ {l} :
    /\ pending'[k] = pending[k] /\ resolved'[k] = resolved[k]
    /\ wsAnswers'[k] = wsAnswers[k] /\ silent'[k] = silent[k]

LEMMA ElsewhereKept ==
  ASSUME WsInv, NEW l \in Loads, Elsewhere(l)
  PROVE  /\ \A k \in Loads \ {l} : WsLoadInv(k)' /\ (Started(k)' <=> Started(k))
         /\ (\E k \in Loads \ {l} : ~resolved[k] /\ Len(wsAnswers[k]) = 2) => Twice'
<1>1. ASSUME NEW k \in Loads \ {l} PROVE WsLoadInv(k)' /\ (Started(k)' <=> Started(k))
  <2>1. WsLoadInv(k)
    BY DEF WsInv
  <2> QED BY <2>1 DEF Elsewhere, WsLoadInv, WsResolved, WsUnresolved, Started
<1>2. ASSUME NEW k \in Loads \ {l}, ~resolved[k], Len(wsAnswers[k]) = 2 PROVE Twice'
  <2>1. ~resolved'[k] /\ Len(wsAnswers'[k]) = 2
    BY <1>2 DEF Elsewhere
  <2> QED BY <2>1 DEF Twice
<1> QED BY <1>1, <1>2

\* A load that is started is counted, and the context runs.
LEMMA CountUp ==
  ASSUME WsInv, NEW l \in Loads, Elsewhere(l), ~Started(l), Started(l)',
         wsAnswers' = wsAnswers, outstandingOperations_' = outstandingOperations_ + 1,
         stopped' = FALSE
  PROVE  WsCountInv'
<1> USE DEF WsInv
<1>1. l \notin Begun /\ Begun' = Begun \cup {l}
  BY ElsewhereKept DEF Begun
<1>2. wsAnswers[l] = << >> /\ l \notin Unanswered /\ Unanswered' = Unanswered \cup {l}
  <2>1. wsAnswers[l] = << >>
    BY DEF Started
  <2> QED BY <2>1, ElsewhereKept DEF Unanswered
<1>3. /\ Cardinality(Begun') = Cardinality(Begun) + 1
      /\ Cardinality(Unanswered') = Cardinality(Unanswered) + 1
  BY <1>1, <1>2, CountsFinite, FS_AddElement
<1>4. Len(wsAnswers[l]) # 2
  BY <1>2
<1>5. Twice => Twice'
  BY <1>4, ElsewhereKept DEF Twice
<1>6. outstandingOperations_ \in Nat /\ outstandingOperations_ <= Cardinality(Begun)
  BY DEF WsCountInv
<1>7. outstandingOperations_' \in Nat /\ outstandingOperations_' <= Cardinality(Begun')
  BY <1>3, <1>6, CountsFinite
<1>8. ~Twice' => outstandingOperations_' = Cardinality(Unanswered')
  BY <1>3, <1>5 DEF WsCountInv
<1>9. IsFiniteSet(Begun')
  BY <1>1, CountsFinite, FS_AddElement
<1> QED BY <1>7, <1>8, <1>9 DEF WsCountInv

\* A step between two operations of a load, or its failed write, counts nothing.
LEMMA CountSame ==
  ASSUME WsInv, NEW l \in Loads, Elsewhere(l), Started(l), Started(l)',
         wsAnswers' = wsAnswers, resolved' = resolved,
         UNCHANGED <<outstandingOperations_, stopped>>
  PROVE  WsCountInv'
<1>1. Begun' = Begun
  BY ElsewhereKept DEF Begun
<1>2. Unanswered' = Unanswered
  BY ElsewhereKept DEF Unanswered
<1>3. Twice' <=> Twice
  BY DEF Twice
<1> QED BY <1>1, <1>2, <1>3 DEF WsInv, WsCountInv

\* handle_read gives a load's count back, at its first answer; a second answer is
\* that of a load whose name did not resolve.
LEMMA CountDown ==
  ASSUME WsInv, NEW l \in Loads, NEW a \in WsAnswers, Elsewhere(l), HandleRead(l, a),
         Started(l), resolved' = resolved,
         wsAnswers[l] = << >> \/ (~resolved[l] /\ Len(wsAnswers[l]) = 1)
  PROVE  WsCountInv'
<1> USE DEF WsInv
<1>1. /\ wsAnswers' = [wsAnswers EXCEPT ![l] = Append(@, a)]
      /\ outstandingOperations_' = IF outstandingOperations_ <= 0
                                   THEN outstandingOperations_ ELSE outstandingOperations_ - 1
      /\ stopped' = (outstandingOperations_ <= 1)
  BY DEF HandleRead
<1>2. wsAnswers[l] \in Seq(WsAnswers) /\ wsAnswers'[l] = Append(wsAnswers[l], a)
  BY <1>1 DEF WsTypes
<1>3. wsAnswers'[l] # << >> /\ Len(wsAnswers'[l]) = Len(wsAnswers[l]) + 1
  BY <1>2, AppendProperties
<1>4. Begun' = Begun
  BY <1>3, ElsewhereKept DEF Begun, Started
<1>5. outstandingOperations_ \in Nat /\ outstandingOperations_ <= Cardinality(Begun)
  BY DEF WsCountInv
<1>6. outstandingOperations_' \in Nat /\ outstandingOperations_' <= Cardinality(Begun')
  BY <1>1, <1>4, <1>5, CountsFinite
<1>7. ASSUME ~Twice'
      PROVE  outstandingOperations_' = Cardinality(Unanswered') /\ (stopped' => Unanswered' = {})
  <2>1. wsAnswers[l] = << >>
    <3>1. SUFFICES ASSUME ~resolved[l], Len(wsAnswers[l]) = 1 PROVE FALSE
      OBVIOUS
    <3>2. Len(wsAnswers'[l]) = 2 /\ ~resolved'[l]
      BY <1>3, <3>1
    <3> QED BY <1>7, <3>2 DEF Twice
  <2>2. ~Twice
    <3>1. Len(wsAnswers[l]) # 2
      BY <2>1
    <3> QED BY <1>7, <3>1, ElsewhereKept DEF Twice
  <2>3. l \in Unanswered /\ Unanswered' = Unanswered \ {l}
    BY <1>3, <2>1, ElsewhereKept DEF Unanswered, Elsewhere
  <2>4. Cardinality(Unanswered') = Cardinality(Unanswered) - 1
    BY <2>3, CountsFinite, FS_RemoveElement
  <2>5. outstandingOperations_ = Cardinality(Unanswered) /\ Cardinality(Unanswered) # 0
    BY <2>2, <2>3, CountsFinite DEF WsCountInv
  <2>6. outstandingOperations_' = Cardinality(Unanswered')
    BY <1>1, <1>5, <2>4, <2>5
  <2>7. IsFiniteSet(Unanswered')
    BY <2>3, CountsFinite, FS_RemoveElement
  <2>8. stopped' => Cardinality(Unanswered') = 0
    <3>1. stopped' => outstandingOperations_ <= 1
      BY <1>1, Zenon
    <3> QED BY <1>5, <2>4, <2>5, <3>1
  <2> QED BY <2>6, <2>7, <2>8, FS_EmptySet
<1>8. IsFiniteSet(Begun')
  BY <1>4, CountsFinite
<1> QED BY <1>6, <1>7, <1>8 DEF WsCountInv

-----------------------------------------------------------------------------
(* The steps of the wss loads. *)

LEMMA StartStep ==
  ASSUME WsInv, NEW l \in Loads,
         LoadASyncInvalidURL(l) \/ StartWSDownload(l) \/ StartWSDownloadUnresolved(l)
  PROVE  WsInv'
<1> USE DEF WsInv
<1>1. /\ ~Started(l) /\ pending[l] = {} /\ wsAnswers[l] = << >> /\ ~silent[l]
      /\ outstandingOperations_' = outstandingOperations_ + 1 /\ stopped' = FALSE
      /\ UNCHANGED <<wsAnswers, silent>>
  BY DEF LoadASyncInvalidURL, StartWSDownload, StartWSDownloadUnresolved, Start, Started
<1>2. resolved[l]
  <2>1. WsLoadInv(l) /\ "connect" \notin pending[l] /\ "COULD_NOT_RESOLVE" \notin pending[l]
    BY <1>1
  <2>2. \A x, y : <<x, y>> # << >>
    OBVIOUS
  <2> QED BY <1>1, <2>1, <2>2 DEF WsLoadInv, WsUnresolved
<1>3. \/ /\ pending' = [pending EXCEPT ![l] = {"INVALID_URL"}] /\ resolved' = resolved
      \/ /\ pending' = [pending EXCEPT ![l] = {"connect"}] /\ resolved' = resolved
      \/ /\ pending' = [pending EXCEPT ![l] = {"COULD_NOT_RESOLVE", "connect"}]
         /\ resolved' = [resolved EXCEPT ![l] = FALSE]
  BY DEF LoadASyncInvalidURL, StartWSDownload, StartWSDownloadUnresolved, Start
<1>4. WsTypes'
  <2>1. pending' \in [Loads -> SUBSET (Operations \cup WsAnswers)]
    BY <1>3 DEF WsTypes, Operations, WsAnswers, WsErrors
  <2>2. resolved' \in [Loads -> BOOLEAN]
    BY <1>3 DEF WsTypes
  <2> QED BY <1>1, <2>1, <2>2 DEF WsTypes
<1>5. Elsewhere(l)
  BY <1>1, <1>3 DEF Elsewhere, WsTypes
<1>6. WsLoadInv(l)' /\ Started(l)'
  <2>1. /\ wsAnswers'[l] = << >> /\ ~silent'[l]
        /\ \/ pending'[l] = {"INVALID_URL"} /\ resolved'[l]
           \/ pending'[l] = {"connect"} /\ resolved'[l]
           \/ pending'[l] = {"COULD_NOT_RESOLVE", "connect"} /\ ~resolved'[l]
    BY <1>1, <1>2, <1>3 DEF WsTypes
  <2> QED BY <2>1 DEF WsLoadInv, WsResolved, WsUnresolved, Started, Operations
<1>7. WsCountInv'
  BY <1>1, <1>5, <1>6, CountUp
<1> QED BY <1>4, <1>5, <1>6, <1>7, ElsewhereKept

LEMMA ProceedStep ==
  ASSUME WsInv, NEW l \in Loads, NEW o \in Operations, NEW next \in Operations,
         o = "connect" => resolved[l], Proceed(l, o, next)
  PROVE  WsInv'
<1> USE DEF WsInv
<1>1. /\ o \in pending[l] /\ pending' = [pending EXCEPT ![l] = (@ \ {o}) \cup {next}]
      /\ UNCHANGED <<resolved, wsAnswers, silent, outstandingOperations_, stopped>>
  BY DEF Proceed
<1>2. resolved[l] /\ pending[l] = {o} /\ wsAnswers[l] = << >> /\ ~silent[l]
  BY <1>1 DEF WsLoadInv, WsResolved, WsUnresolved, Operations
<1>3. pending'[l] = {next} /\ \A k \in Loads \ {l} : pending'[k] = pending[k]
  BY <1>1, <1>2 DEF WsTypes
<1>4. WsTypes'
  BY <1>1 DEF WsTypes
<1>5. Elsewhere(l)
  BY <1>1, <1>3 DEF Elsewhere
<1>6. WsLoadInv(l)' /\ Started(l)' /\ Started(l)
  BY <1>1, <1>2, <1>3 DEF WsLoadInv, WsResolved, Started
<1>7. WsCountInv'
  BY <1>1, <1>5, <1>6, CountSame
<1> QED BY <1>4, <1>5, <1>6, <1>7, ElsewhereKept

LEMMA WriteFailedStep ==
  ASSUME WsInv, NEW l \in Loads, WsWriteFailed(l)
  PROVE  WsInv'
<1> USE DEF WsInv
<1>1. /\ "write" \in pending[l] /\ pending' = [pending EXCEPT ![l] = @ \ {"write"}]
      /\ silent' = [silent EXCEPT ![l] = TRUE]
      /\ UNCHANGED <<resolved, wsAnswers, outstandingOperations_, stopped>>
  BY DEF WsWriteFailed
<1>2. resolved[l] /\ pending[l] = {"write"} /\ wsAnswers[l] = << >>
  BY <1>1 DEF WsLoadInv, WsResolved, WsUnresolved
<1>3. /\ pending'[l] = {} /\ silent'[l]
      /\ \A k \in Loads \ {l} : pending'[k] = pending[k] /\ silent'[k] = silent[k]
  BY <1>1, <1>2 DEF WsTypes
<1>4. WsTypes'
  BY <1>1 DEF WsTypes
<1>5. Elsewhere(l)
  BY <1>1, <1>3 DEF Elsewhere
<1>6. WsLoadInv(l)' /\ Started(l)' /\ Started(l)
  BY <1>1, <1>2, <1>3 DEF WsLoadInv, WsResolved, Started
<1>7. WsCountInv'
  BY <1>1, <1>5, <1>6, CountSame
<1> QED BY <1>4, <1>5, <1>6, <1>7, ElsewhereKept

LEMMA AppendToOne ==
  ASSUME NEW x \in WsAnswers, NEW y \in WsAnswers
  PROVE  Append(<<x>>, y) = <<x, y>>
<1>1. <<x>> \in Seq(WsAnswers) /\ Len(<<x>>) = 1 /\ <<x>>[1] = x
  OBVIOUS
<1>2. <<x, y>> \in Seq(WsAnswers) /\ Len(<<x, y>>) = 2 /\ <<x, y>>[1] = x /\ <<x, y>>[2] = y
  OBVIOUS
<1> DEFINE s == Append(<<x>>, y)
<1>3. s \in Seq(WsAnswers) /\ Len(s) = 2 /\ s[1] = x /\ s[2] = y
  BY <1>1, AppendProperties
<1>4. \A i \in 1 .. Len(s) : s[i] = <<x, y>>[i]
  BY <1>2, <1>3
<1> HIDE DEF s
<1>5. s = <<x, y>>
  BY <1>2, <1>3, <1>4, SeqEqual
<1> QED BY <1>5 DEF s

\* A handler that answers: a posted answer, or an operation that ends the download.
LEMMA AnswerStep ==
  ASSUME WsInv, NEW l \in Loads, NEW o \in Operations \cup WsAnswers, NEW a \in WsAnswers,
         o \in pending[l], pending' = [pending EXCEPT ![l] = @ \ {o}],
         o = "connect" => a = "CONNECT_ERROR", o \in WsAnswers => a = o,
         HandleRead(l, a), UNCHANGED <<resolved, silent>>
  PROVE  WsInv'
<1> USE DEF WsInv
<1>1. wsAnswers' = [wsAnswers EXCEPT ![l] = Append(@, a)] /\ stopped' \in BOOLEAN
  BY DEF HandleRead
<1>2. /\ pending'[l] = pending[l] \ {o} /\ wsAnswers'[l] = Append(wsAnswers[l], a)
      /\ wsAnswers[l] \in Seq(WsAnswers)
      /\ \A k \in Loads \ {l} : pending'[k] = pending[k] /\ wsAnswers'[k] = wsAnswers[k]
  BY <1>1 DEF WsTypes
<1>3. WsTypes'
  <2>1. Append(wsAnswers[l], a) \in Seq(WsAnswers)
    BY <1>2
  <2> QED BY <1>1, <2>1 DEF WsTypes
<1>4. Elsewhere(l)
  BY <1>2 DEF Elsewhere
<1>5. wsAnswers[l] = << >> \/ (~resolved[l] /\ Len(wsAnswers[l]) = 1)
  <2>1. WsLoadInv(l) /\ pending[l] # {}
    OBVIOUS
  <2>2. \A x : Len(<<x>>) = 1
    OBVIOUS
  <2> QED BY <2>1, <2>2 DEF WsLoadInv, WsResolved, WsUnresolved
<1>6. WsLoadInv(l)'
  <2>1. CASE resolved[l]
    <3>1. pending[l] = {o} /\ wsAnswers[l] = << >> /\ ~silent[l]
      BY <2>1 DEF WsLoadInv, WsResolved
    <3>2. pending'[l] = {} /\ wsAnswers'[l] = <<a>>
      BY <1>2, <3>1
    <3> QED BY <2>1, <3>1, <3>2 DEF WsLoadInv, WsResolved
  <2>2. CASE ~resolved[l]
    <3>1. ~silent'[l] /\ ~resolved'[l] /\ WsUnresolved(l)
      BY <2>2 DEF WsLoadInv, WsUnresolved
    <3>2. CASE pending[l] = {"COULD_NOT_RESOLVE", "connect"} /\ wsAnswers[l] = << >>
      <4>1. wsAnswers'[l] = <<a>>
        BY <1>2, <3>2
      <4>2. CASE o = "connect"
        BY <1>2, <3>1, <3>2, <4>1, <4>2 DEF WsLoadInv, WsUnresolved
      <4>3. CASE o = "COULD_NOT_RESOLVE"
        <5>1. a = "COULD_NOT_RESOLVE"
          BY <4>3 DEF WsAnswers, WsErrors
        <5> QED BY <1>2, <3>1, <3>2, <4>1, <4>3, <5>1 DEF WsLoadInv, WsUnresolved
      <4> QED BY <3>2, <4>2, <4>3
    <3>3. CASE pending[l] = {"connect"} /\ wsAnswers[l] = <<"COULD_NOT_RESOLVE">>
      <4>1. pending'[l] = {} /\ wsAnswers'[l] = <<"COULD_NOT_RESOLVE", "CONNECT_ERROR">>
        <5>1. o = "connect" /\ a = "CONNECT_ERROR"
          BY <3>3
        <5>2. Append(<<"COULD_NOT_RESOLVE">>, a) = <<"COULD_NOT_RESOLVE", a>>
          BY AppendToOne DEF WsAnswers, WsErrors
        <5> QED BY <1>2, <3>3, <5>1, <5>2
      <4> QED BY <3>1, <4>1 DEF WsLoadInv, WsUnresolved
    <3>4. CASE pending[l] = {"COULD_NOT_RESOLVE"} /\ wsAnswers[l] = <<"CONNECT_ERROR">>
      <4>1. a = "COULD_NOT_RESOLVE"
        BY <3>4 DEF WsAnswers, WsErrors
      <4>2. pending'[l] = {} /\ wsAnswers'[l] = <<"CONNECT_ERROR", "COULD_NOT_RESOLVE">>
        <5>1. Append(<<"CONNECT_ERROR">>, a) = <<"CONNECT_ERROR", a>>
          BY AppendToOne DEF WsAnswers, WsErrors
        <5> QED BY <1>2, <3>4, <4>1, <5>1
      <4> QED BY <3>1, <4>2 DEF WsLoadInv, WsUnresolved
    <3> QED BY <3>1, <3>2, <3>3, <3>4 DEF WsUnresolved
  <2> QED BY <2>1, <2>2
<1>7. WsCountInv'
  BY <1>4, <1>5, CountDown DEF Started
<1> QED BY <1>3, <1>4, <1>6, <1>7, ElsewhereKept

LEMMA FinishStep ==
  ASSUME WsInv, NEW l \in Loads, NEW o \in Operations, NEW a \in WsAnswers,
         o = "connect" => a = "CONNECT_ERROR", Finish(l, o, a)
  PROVE  WsInv'
<1>1. o \notin WsAnswers
  BY DEF Operations, WsAnswers, WsErrors
<1> QED BY <1>1, AnswerStep DEF Finish

LEMMA HandlerStep ==
  ASSUME WsInv, NEW l \in Loads, Handler(l)
  PROVE  WsInv'
<1> USE DEF Operations, WsAnswers, WsErrors
<1>1. ASSUME NEW a \in WsAnswers, WsRunPosted(l, a) PROVE WsInv'
  BY <1>1, AnswerStep DEF WsRunPosted
<1>2. CASE WsConnected(l)
  BY <1>2, ProceedStep, FinishStep DEF WsConnected
<1>3. CASE Handshaken(l)
  BY <1>3, ProceedStep, FinishStep DEF Handshaken
<1>4. CASE WSHandshaken(l)
  BY <1>4, ProceedStep, FinishStep DEF WSHandshaken
<1>5. CASE WsWritten(l)
  BY <1>5, ProceedStep DEF WsWritten
<1>6. CASE WsWriteFailed(l)
  BY <1>6, WriteFailedStep
<1>7. CASE ReadDone(l)
  BY <1>7, FinishStep DEF ReadDone
<1> QED BY <1>1, <1>2, <1>3, <1>4, <1>5, <1>6, <1>7 DEF Handler

-----------------------------------------------------------------------------
(* The theorems about the wss loads. *)

\* The inductive invariant of the loads and the counter.
THEOREM WsInvariant == WsSpec => []WsInv
<1>1. WsInit => WsInv
  <2> SUFFICES ASSUME WsInit PROVE WsInv
    OBVIOUS
  <2> USE DEF WsInit
  <2>1. WsTypes
    <3>1. << >> \in Seq(WsAnswers)
      BY EmptySeq
    <3> QED BY <3>1 DEF WsTypes
  <2>2. \A l \in Loads : WsLoadInv(l) /\ ~Started(l)
    BY DEF WsLoadInv, WsResolved, Started
  <2>3. Begun = {} /\ Unanswered = {}
    BY <2>2 DEF Begun, Unanswered
  <2>4. WsCountInv
    BY <2>3, FS_EmptySet DEF WsCountInv
  <2> QED BY <2>1, <2>2, <2>4 DEF WsInv
<1>2. WsInv /\ [WsNext]_wsVars => WsInv'
  <2> SUFFICES ASSUME WsInv, [WsNext]_wsVars PROVE WsInv'
    OBVIOUS
  <2>1. CASE WsNext
    BY <2>1, StartStep, HandlerStep DEF WsNext
  <2>2. CASE UNCHANGED wsVars
    <3>1. UNCHANGED <<pending, resolved, wsAnswers, silent, outstandingOperations_, stopped>>
      BY <2>2 DEF wsVars
    <3>2. WsTypes' /\ \A l \in Loads : WsLoadInv(l)'
      BY <3>1 DEF WsInv, WsTypes, WsLoadInv, WsResolved, WsUnresolved
    <3>3. Begun' = Begun /\ Unanswered' = Unanswered /\ (Twice' <=> Twice)
      BY <3>1 DEF Begun, Unanswered, Twice, Started
    <3>4. WsCountInv'
      BY <3>1, <3>3 DEF WsInv, WsCountInv
    <3> QED BY <3>2, <3>4 DEF WsInv
  <2> QED BY <2>1, <2>2
<1> QED BY <1>1, <1>2, PTL DEF WsSpec

\* Type correctness; the counter never exceeds the number of loads.
THEOREM WsTypeCorrect == WsSpec => []WsTypeOK
<1>1. WsInv => WsTypeOK
  <2> SUFFICES ASSUME WsInv PROVE WsTypeOK
    OBVIOUS
  <2>1. Begun \subseteq Loads
    BY DEF Begun
  <2>2. Cardinality(Begun) <= Cardinality(Loads) /\ Cardinality(Loads) \in Nat
    BY <2>1, LoadsFinite, FS_Subset, FS_CardinalityType
  <2>3. outstandingOperations_ \in 0 .. Cardinality(Loads)
    BY <2>2, CountsFinite DEF WsInv, WsCountInv
  <2> QED BY <2>3 DEF WsInv, WsTypes, WsTypeOK
<1> QED BY <1>1, WsInvariant, PTL

\* handle_read is called a second time only for a load whose host name did not
\* resolve, and then once with each of the two errors.
THEOREM WsTwiceOnlyUnresolved == WsSpec => []TwiceOnlyUnresolved
<1>1. WsInv => TwiceOnlyUnresolved
  <2> SUFFICES ASSUME WsInv, NEW l \in Loads, Len(wsAnswers[l]) > 1
               PROVE  /\ ~resolved[l]
                      /\ wsAnswers[l] \in {<<"COULD_NOT_RESOLVE", "CONNECT_ERROR">>,
                                           <<"CONNECT_ERROR", "COULD_NOT_RESOLVE">>}
    BY DEF TwiceOnlyUnresolved
  <2>1. WsLoadInv(l)
    BY DEF WsInv
  <2>2. ~(wsAnswers[l] = << >>) /\ ~(\E a : wsAnswers[l] = <<a>>)
    <3>1. ASSUME wsAnswers[l] = << >> PROVE FALSE
      BY <3>1, EmptySeq
    <3>2. ASSUME NEW a, wsAnswers[l] = <<a>> PROVE FALSE
      <4>1. Len(<<a>>) = 1
        OBVIOUS
      <4> QED BY <3>2, <4>1
    <3> QED BY <3>1, <3>2
  <2> QED BY <2>1, <2>2 DEF WsLoadInv, WsResolved, WsUnresolved
<1> QED BY <1>1, WsInvariant, PTL

\* The context is stopped under a load in progress only after the second answer of a
\* load whose host name did not resolve: the counter never misses a load.
THEOREM WsStranding == WsSpec => []StrandedOnlyByUnresolved
<1>1. WsInv => StrandedOnlyByUnresolved
  <2> SUFFICES ASSUME WsInv, stopped, NEW l \in Loads, pending[l] # {}, wsAnswers[l] = << >>
               PROVE  Twice
    BY DEF StrandedOnlyByUnresolved, Twice
  <2>1. l \in Unanswered
    BY DEF Unanswered, Started
  <2> QED BY <2>1 DEF WsInv, WsCountInv
<1> QED BY <1>1, WsInvariant, PTL
=============================================================================
