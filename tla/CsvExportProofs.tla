-------------------------- MODULE CsvExportProofs --------------------------
(***************************************************************************)
(* Proofs about CsvExport, for every set of texts without a byte order     *)
(* mark, every number of columns and rows, and every limit that a mark     *)
(* fits in: an induction along the text, as a reader goes.                 *)
(***************************************************************************)
EXTENDS CsvExport, SequenceTheorems, WellFoundedInduction, TLAPS

-----------------------------------------------------------------------------
(* Induction, over a set of naturals.                                      *)

\* A set that has 0, and with every natural its successor, has all of them.
LEMMA SetInduction ==
  ASSUME NEW T, 0 \in T, \A n \in Nat : n \in T => n + 1 \in T
  PROVE  \A n \in Nat : n \in T
<1> DEFINE R == {ss \in Nat \X Nat : ss[1] < ss[2]}
<1>1. IsWellFoundedOn(R, Nat)
  BY NatLessThanWellFounded DEF OpToRel
<1> SUFFICES ASSUME Nat \ T # {} PROVE FALSE
  OBVIOUS
<1>2. PICK x \in Nat \ T : \A y \in Nat \ T : ~(<<y, x>> \in R)
  <2>1. Nat \ T \subseteq Nat
    OBVIOUS
  <2> HIDE DEF R
  <2> QED  BY <1>1, <2>1, WFMin
<1>3. x # 0 /\ x - 1 \in Nat /\ x - 1 \in T
  <2>1. x \in Nat /\ x \notin T
    BY <1>2
  <2>2. \A y \in Nat : y < x => y \in T
    BY <1>2
  <2> QED
    BY <2>1, <2>2
<1> QED
  BY <1>3, <1>2, (x - 1) + 1 = x

-----------------------------------------------------------------------------
(* Recursion along a sequence: a function that takes the steps is the one  *)
(* that the definition means.                                              *)

ReadsAlong(at, r, text) ==
  at = [i \in 0..Len(text) |-> IF i = 0 THEN r ELSE Reads(at[i - 1], text[i])]

LEMMA AlongSteps ==
  ASSUME NEW S, NEW text \in Seq(S), NEW r, NEW at, ReadsAlong(at, r, text)
  PROVE  /\ at[0] = r
         /\ \A i \in 1..Len(text) : at[i] = Reads(at[i - 1], text[i])
<1>1. Len(text) \in Nat
  BY LenProperties
<1>2. \A i \in 0..Len(text) :
        at[i] = IF i = 0 THEN r ELSE Reads(at[i - 1], text[i])
  BY DEF ReadsAlong
<1> QED
  BY <1>1, <1>2

LEMMA AfterIs ==
  ASSUME NEW S, NEW text \in Seq(S), NEW r, NEW at, ReadsAlong(at, r, text)
  PROVE  After(r, text) = at[Len(text)]
<1>1. Len(text) \in Nat
  BY LenProperties
<1> DEFINE it == CHOOSE f : ReadsAlong(f, r, text)
<1>2. ReadsAlong(it, r, text)
  <2> HIDE DEF it
  <2> QED  BY DEF it
<1>3. After(r, text) = it[Len(text)]
  BY DEF After, ReadsAlong
<1> HIDE DEF it
<1> DEFINE T == {n \in Nat : n <= Len(text) => it[n] = at[n]}
<1>4. 0 \in T
  BY <1>1, <1>2 DEF ReadsAlong
<1>5. ASSUME NEW n \in Nat, n \in T PROVE n + 1 \in T
  <2> SUFFICES ASSUME n + 1 <= Len(text) PROVE it[n + 1] = at[n + 1]
    OBVIOUS
  <2>1. it[n + 1] = Reads(it[n], text[n + 1]) /\ at[n + 1] = Reads(at[n], text[n + 1])
    BY <1>1, <1>2 DEF ReadsAlong
  <2> QED
    BY <1>1, <1>5, <2>1
<1> HIDE DEF T
<1>6. Len(text) \in T
  BY <1>1, <1>4, <1>5, SetInduction
<1> QED
  BY <1>3, <1>6 DEF T

\* And there is one.
LEMMA ReadsAlongExists ==
  ASSUME NEW S, NEW text \in Seq(S), NEW r
  PROVE  \E at : ReadsAlong(at, r, text)
<1>1. Len(text) \in Nat
  BY LenProperties
<1> DEFINE Upto(n, at) ==
             at = [i \in 0..n |-> IF i = 0 THEN r ELSE Reads(at[i - 1], text[i])]
           T == {n \in Nat : \E at : Upto(n, at)}
<1> HIDE DEF Upto
<1>2. 0 \in T
  <2>1. Upto(0, [i \in 0..0 |-> r])
    BY DEF Upto
  <2> QED  BY <2>1
<1>3. ASSUME NEW n \in Nat, n \in T PROVE n + 1 \in T
  <2>1. PICK at : Upto(n, at)
    BY <1>3
  <2> DEFINE g == [i \in 0..(n + 1) |->
                     IF i = n + 1 THEN Reads(at[n], text[n + 1]) ELSE at[i]]
  <2>2. Upto(n + 1, g)
    BY <2>1 DEF Upto
  <2> HIDE DEF g
  <2> QED  BY <2>2
<1> HIDE DEF T
<1>4. Len(text) \in T
  BY <1>1, <1>2, <1>3, SetInduction
<1> QED
  BY <1>4 DEF T, Upto, ReadsAlong

\* Reading nothing, one symbol, one text after another.
LEMMA AfterNothing == \A r : After(r, <<>>) = r
<1> SUFFICES ASSUME NEW r PROVE After(r, <<>>) = r
  OBVIOUS
<1> DEFINE at == [i \in 0..0 |-> r]
<1>1. <<>> \in Seq({}) /\ Len(<<>>) = 0
  BY EmptySeq
<1>2. ReadsAlong(at, r, <<>>)
  BY <1>1 DEF ReadsAlong
<1>3. at[0] = r
  OBVIOUS
<1> HIDE DEF at
<1> QED
  BY <1>1, <1>2, <1>3, AfterIs

LEMMA AfterOne == \A r, c : After(r, <<c>>) = Reads(r, c)
<1> SUFFICES ASSUME NEW r, NEW c PROVE After(r, <<c>>) = Reads(r, c)
  OBVIOUS
<1> DEFINE at == [i \in 0..1 |-> IF i = 0 THEN r ELSE Reads(r, c)]
<1>1. <<c>> \in Seq({c}) /\ Len(<<c>>) = 1
  OBVIOUS
<1>2. ReadsAlong(at, r, <<c>>)
  BY <1>1 DEF ReadsAlong
<1>3. at[1] = Reads(r, c)
  OBVIOUS
<1> HIDE DEF at
<1> QED
  BY <1>1, <1>2, <1>3, AfterIs

LEMMA AfterBoth ==
  ASSUME NEW S, NEW text \in Seq(S), NEW more \in Seq(S), NEW r
  PROVE  After(r, text \o more) = After(After(r, text), more)
<1>1. /\ Len(text) \in Nat /\ Len(more) \in Nat
      /\ text \o more \in Seq(S)
      /\ Len(text \o more) = Len(text) + Len(more)
      /\ \A i \in 1..(Len(text) + Len(more)) :
           (text \o more)[i] =
             IF i <= Len(text) THEN text[i] ELSE more[i - Len(text)]
  BY LenProperties, ConcatProperties
<1>2. PICK at : ReadsAlong(at, r, text)
  BY ReadsAlongExists
<1>3. PICK bt : ReadsAlong(bt, After(r, text), more)
  BY ReadsAlongExists
<1> DEFINE both == [i \in 0..Len(text \o more) |->
                      IF i <= Len(text) THEN at[i] ELSE bt[i - Len(text)]]
<1>4. at[Len(text)] = After(r, text) /\ bt[Len(more)] = After(After(r, text), more)
  BY <1>2, <1>3, AfterIs
<1>5. bt[0] = After(r, text)
  BY <1>3, AlongSteps
<1>6. ASSUME NEW i \in 0..Len(text \o more)
      PROVE  both[i] = IF i = 0 THEN r ELSE Reads(both[i - 1], (text \o more)[i])
  <2>1. CASE i <= Len(text)
    <3>1. both[i] = at[i] /\ (i # 0 => both[i - 1] = at[i - 1])
      BY <1>1, <2>1
    <3>2. at[i] = IF i = 0 THEN r ELSE Reads(at[i - 1], text[i])
      BY <1>1, <1>2, <2>1, AlongSteps
    <3>3. i # 0 => (text \o more)[i] = text[i]
      BY <1>1, <2>1
    <3> HIDE DEF both
    <3> QED
      BY <3>1, <3>2, <3>3
  <2>2. CASE ~(i <= Len(text))
    <3> DEFINE k == i - Len(text)
    <3>1. k \in 1..Len(more) /\ i # 0
      BY <1>1, <2>2
    <3>2. both[i] = bt[k] /\ both[i - 1] = bt[k - 1]
      <4>1. CASE k = 1
        <5>1. i - 1 = Len(text)
          BY <1>1, <4>1, <3>1
        <5> QED
          BY <1>1, <1>4, <1>5, <2>2, <3>1, <4>1, <5>1
      <4>2. CASE k # 1
        BY <1>1, <2>2, <3>1, <4>2
      <4> QED
        BY <4>1, <4>2
    <3>3. bt[k] = Reads(bt[k - 1], more[k])
      BY <1>1, <1>3, <3>1, AlongSteps
    <3>4. (text \o more)[i] = more[k]
      BY <1>1, <2>2
    <3> HIDE DEF both, k
    <3> QED
      BY <3>1, <3>2, <3>3, <3>4
  <2> QED
    BY <2>1, <2>2
<1>7. ReadsAlong(both, r, text \o more)
  BY <1>6 DEF ReadsAlong
<1>8. both[Len(text \o more)] = bt[Len(more)]
  BY <1>1, <1>4, <1>5
<1> HIDE DEF both
<1> QED
  BY <1>1, <1>4, <1>7, <1>8, AfterIs

Flattens(f, texts) ==
  f = [i \in 1..Len(texts) |->
         IF i = 1 THEN texts[i] ELSE f[i - 1] \o texts[i]]

LEMMA FlattenSteps ==
  ASSUME NEW S, NEW texts \in Seq(S), NEW f, Flattens(f, texts)
  PROVE  /\ \A i \in 1..Len(texts) :
              f[i] = IF i = 1 THEN texts[i] ELSE f[i - 1] \o texts[i]
         /\ 1 <= Len(texts) => f[1] = texts[1]
         /\ \A n \in Nat : n + 2 <= Len(texts) =>
              f[n + 2] = f[n + 1] \o texts[n + 2]
<1>1. Len(texts) \in Nat
  BY LenProperties
<1>2. \A i \in 1..Len(texts) :
        f[i] = IF i = 1 THEN texts[i] ELSE f[i - 1] \o texts[i]
  BY DEF Flattens
<1>3. 1 <= Len(texts) => f[1] = texts[1]
  BY <1>1, <1>2
<1>4. ASSUME NEW n \in Nat, n + 2 <= Len(texts)
      PROVE  f[n + 2] = f[n + 1] \o texts[n + 2]
  <2>1. n + 2 \in 1..Len(texts) /\ n + 2 # 1 /\ (n + 2) - 1 = n + 1
    BY <1>1, <1>4
  <2> QED
    BY <1>2, <2>1
<1> QED
  BY <1>2, <1>3, <1>4

LEMMA FlattenIs ==
  ASSUME NEW S, NEW texts \in Seq(S), Len(texts) # 0,
         NEW f, Flattens(f, texts)
  PROVE  FlattenSeq(texts) = f[Len(texts)]
<1>1. Len(texts) \in Nat
  BY LenProperties
<1> DEFINE it == CHOOSE g : Flattens(g, texts)
<1>2. Flattens(it, texts)
  <2> HIDE DEF it
  <2> QED  BY DEF it
<1>3. FlattenSeq(texts) = it[Len(texts)]
  BY DEF FlattenSeq, Flattens
<1> HIDE DEF it
<1> DEFINE T == {n \in Nat : n + 1 <= Len(texts) => it[n + 1] = f[n + 1]}
<1>4. 0 \in T
  <2>1. 1 <= Len(texts) => it[1] = texts[1] /\ f[1] = texts[1]
    BY <1>2, FlattenSteps
  <2> QED  BY <2>1
<1>5. ASSUME NEW n \in Nat, n \in T PROVE n + 1 \in T
  <2> SUFFICES ASSUME n + 2 <= Len(texts) PROVE it[n + 2] = f[n + 2]
    OBVIOUS
  <2>1. it[n + 2] = it[n + 1] \o texts[n + 2] /\ f[n + 2] = f[n + 1] \o texts[n + 2]
    BY <1>2, FlattenSteps
  <2>2. it[n + 1] = f[n + 1]
    BY <1>1, <1>5
  <2> QED
    BY <2>1, <2>2
<1> HIDE DEF T
<1>6. Len(texts) - 1 \in Nat /\ (Len(texts) - 1) + 1 = Len(texts)
  BY <1>1
<1>7. Len(texts) - 1 \in T
  BY <1>4, <1>5, <1>6, SetInduction
<1> QED
  BY <1>1, <1>3, <1>6, <1>7 DEF T

LEMMA FlattensExists ==
  ASSUME NEW S, NEW texts \in Seq(S)
  PROVE  \E f : Flattens(f, texts)
<1>1. Len(texts) \in Nat
  BY LenProperties
<1> DEFINE Upto(n, f) ==
             f = [i \in 1..n |-> IF i = 1 THEN texts[i] ELSE f[i - 1] \o texts[i]]
           T == {n \in Nat : \E f : Upto(n, f)}
<1> HIDE DEF Upto
<1>2. 0 \in T
  <2>1. Upto(0, [i \in 1..0 |-> texts[i]])
    BY DEF Upto
  <2> QED  BY <2>1
<1>3. ASSUME NEW n \in Nat, n \in T PROVE n + 1 \in T
  <2>1. PICK f : Upto(n, f)
    BY <1>3
  <2> DEFINE g == [i \in 1..(n + 1) |->
                     IF i = n + 1
                     THEN IF i = 1 THEN texts[i] ELSE f[n] \o texts[i]
                     ELSE f[i]]
  <2>2. ASSUME NEW i \in 1..(n + 1)
        PROVE  g[i] = IF i = 1 THEN texts[i] ELSE g[i - 1] \o texts[i]
    <3>1. CASE i = n + 1
      BY <3>1
    <3>2. CASE i # n + 1
      <4>1. i \in 1..n /\ g[i] = f[i] /\ (i # 1 => g[i - 1] = f[i - 1])
        BY <3>2
      <4>2. f[i] = IF i = 1 THEN texts[i] ELSE f[i - 1] \o texts[i]
        BY <2>1, <4>1 DEF Upto
      <4> HIDE DEF g
      <4> QED  BY <4>1, <4>2
    <3> QED  BY <3>1, <3>2
  <2>3. Upto(n + 1, g)
    BY <2>2 DEF Upto
  <2> HIDE DEF g
  <2> QED  BY <2>3
<1> HIDE DEF T
<1>4. Len(texts) \in T
  BY <1>1, <1>2, <1>3, SetInduction
<1> QED
  BY <1>4 DEF T, Upto, Flattens

\* Flattening nothing, one text, and one text more.
LEMMA FlattenNone == FlattenSeq(<<>>) = <<>>
BY DEF FlattenSeq

LEMMA FlattenMore ==
  ASSUME NEW S, NEW texts \in Seq(Seq(S)), NEW text \in Seq(S)
  PROVE  FlattenSeq(Append(texts, text)) =
           IF Len(texts) = 0 THEN text ELSE FlattenSeq(texts) \o text
<1> DEFINE more == Append(texts, text)
           n == Len(texts)
<1>1. /\ n \in Nat /\ more \in Seq(Seq(S)) /\ Len(more) = n + 1
      /\ \A i \in 1..n : more[i] = texts[i]
      /\ more[n + 1] = text
  BY LenProperties, AppendProperties
<1> HIDE DEF more, n
<1>2. PICK f : Flattens(f, texts)
  BY FlattensExists
<1> DEFINE g == [i \in 1..(n + 1) |->
                   IF i = n + 1 THEN IF n = 0 THEN text ELSE f[n] \o text
                   ELSE f[i]]
<1>3. ASSUME NEW i \in 1..(n + 1)
      PROVE  g[i] = IF i = 1 THEN more[i] ELSE g[i - 1] \o more[i]
  <2>1. CASE i = n + 1
    BY <1>1, <2>1
  <2>2. CASE i # n + 1
    <3>1. i \in 1..n /\ g[i] = f[i] /\ (i # 1 => g[i - 1] = f[i - 1])
      BY <1>1, <2>2
    <3>2. f[i] = IF i = 1 THEN texts[i] ELSE f[i - 1] \o texts[i]
      <4>1. \A k \in 1..Len(texts) :
              f[k] = IF k = 1 THEN texts[k] ELSE f[k - 1] \o texts[k]
        BY <1>2, FlattenSteps
      <4> QED  BY <3>1, <4>1 DEF n
    <3> HIDE DEF g
    <3> QED
      BY <1>1, <3>1, <3>2
  <2> QED
    BY <2>1, <2>2
<1>4. Flattens(g, more)
  BY <1>1, <1>3 DEF Flattens
<1>5. g[n + 1] = IF n = 0 THEN text ELSE f[n] \o text
  BY <1>1
<1> HIDE DEF g
<1>6. FlattenSeq(more) = g[n + 1]
  BY <1>1, <1>4, FlattenIs
<1>7. n # 0 => FlattenSeq(texts) = f[n]
  BY <1>2, FlattenIs DEF n
<1> QED
  BY <1>5, <1>6, <1>7 DEF more, n

\* Texts in a set stay in it.
LEMMA FlattenType ==
  ASSUME NEW S, NEW texts \in Seq(Seq(S))
  PROVE  FlattenSeq(texts) \in Seq(S)
<1>1. /\ Len(texts) \in Nat
      /\ \A i \in 1..Len(texts) : texts[i] \in Seq(S)
  BY LenProperties, ElementOfSeq
<1>2. CASE Len(texts) = 0
  <2>1. texts = <<>>
    BY <1>2, EmptySeq
  <2> QED  BY <2>1, FlattenNone, EmptySeq
<1>3. CASE Len(texts) # 0
  <2>1. PICK f : Flattens(f, texts)
    BY FlattensExists
  <2> DEFINE T == {n \in Nat : n + 1 <= Len(texts) => f[n + 1] \in Seq(S)}
  <2>2. 0 \in T
    <3>1. f[1] = texts[1]
      <4>1. 1 <= Len(texts)
        BY <1>1, <1>3
      <4> QED  BY <2>1, <4>1, FlattenSteps
    <3> QED  BY <1>1, <3>1
  <2>3. ASSUME NEW n \in Nat, n \in T PROVE n + 1 \in T
    <3> SUFFICES ASSUME n + 2 <= Len(texts) PROVE f[n + 2] \in Seq(S)
      OBVIOUS
    <3>2. f[n + 2] = f[n + 1] \o texts[n + 2]
      BY <2>1, FlattenSteps
    <3>3. f[n + 1] \in Seq(S) /\ texts[n + 2] \in Seq(S)
      BY <1>1, <2>3
    <3> QED
      BY <3>2, <3>3, ConcatProperties
  <2> HIDE DEF T
  <2>4. Len(texts) - 1 \in Nat /\ (Len(texts) - 1) + 1 = Len(texts)
    BY <1>1, <1>3
  <2>5. Len(texts) - 1 \in T
    BY <2>2, <2>3, <2>4, SetInduction
  <2>6. f[Len(texts)] \in Seq(S)
    BY <1>1, <2>4, <2>5 DEF T
  <2> QED
    BY <1>3, <2>1, <2>6, FlattenIs
<1> QED
  BY <1>2, <1>3

\* A flattening without regard to the case of the empty one.
LEMMA FlattenAppend ==
  ASSUME NEW S, NEW texts \in Seq(Seq(S)), NEW text \in Seq(S)
  PROVE  FlattenSeq(Append(texts, text)) = FlattenSeq(texts) \o text
<1>1. CASE Len(texts) = 0
  <2>1. texts = <<>>
    BY <1>1, EmptySeq
  <2> QED
    BY <1>1, <2>1, FlattenMore, FlattenNone, ConcatEmptySeq
<1>2. CASE Len(texts) # 0
  BY <1>2, FlattenMore
<1> QED
  BY <1>1, <1>2

-----------------------------------------------------------------------------
(* Sequences.                                                              *)

LEMMA AppendIs ==
  \A S : \A s \in Seq(S), x \in S : Append(s, x) = s \o <<x>> /\ <<x>> \in Seq(S)
BY AppendProperties, ConcatProperties, SeqEqual

\* A sequence, read from the start one element at a time.
LEMMA PrefixMore ==
  ASSUME NEW S, NEW s \in Seq(S)
  PROVE  /\ SubSeq(s, 1, 0) = <<>> /\ SubSeq(s, 1, Len(s)) = s
         /\ \A i \in 0..Len(s) : SubSeq(s, 1, i) \in Seq(S) /\ Len(SubSeq(s, 1, i)) = i
         /\ \A i \in 1..Len(s) :
              SubSeq(s, 1, i) = Append(SubSeq(s, 1, i - 1), s[i])
<1>1. Len(s) \in Nat /\ \A i \in 1..Len(s) : s[i] \in S
  BY LenProperties, ElementOfSeq
<1>2. ASSUME NEW i \in 0..Len(s)
      PROVE  SubSeq(s, 1, i) \in Seq(S) /\ Len(SubSeq(s, 1, i)) = i
  <2>1. \A k \in 1..i : s[k] \in S
    BY <1>1
  <2> QED  BY <1>1, <2>1, SubSeqProperties
<1>3. ASSUME NEW i \in 1..Len(s)
      PROVE  SubSeq(s, 1, i) = Append(SubSeq(s, 1, i - 1), s[i])
  <2>1. SubSeq(s, 1, i) = SubSeq(s, 1, i - 1) \o <<s[i]>>
    <3>1. 1 \in 1..Len(s) /\ i \in 1..Len(s)
      BY <1>1
    <3> QED  BY <3>1, SubSeqRecursiveSecond
  <2>2. SubSeq(s, 1, i - 1) \in Seq(S) /\ s[i] \in S
    BY <1>1, <1>2
  <2> QED  BY <2>1, <2>2, AppendIs
<1> QED
  BY <1>2, <1>3, SubSeqEmpty, SubSeqFull

-----------------------------------------------------------------------------
(* The size of a text.                                                     *)

Symbols == Chars \cup {"bom", "header"}

\* The bytes that the size counts, symbol by symbol.
Bytes(c) == [byte \in 1..SymbolSize(c) |-> c]

LEMMA SymbolSizes ==
  /\ \A c \in Symbols : SymbolSize(c) \in Nat /\ Bytes(c) \in Seq(Symbols)
                        /\ Len(Bytes(c)) = SymbolSize(c)
  /\ \A c \in Chars : SymbolSize(c) = 1
  /\ SymbolSize("bom") = BomSize /\ SymbolSize("header") = HeaderSize
<1>1. BomSize \in Nat /\ HeaderSize \in Nat
  BY CsvAssumption DEF BomSize
<1>2. ASSUME NEW c \in Symbols
      PROVE  SymbolSize(c) \in Nat
  BY <1>1 DEF SymbolSize
<1>3. ASSUME NEW c \in Symbols
      PROVE  Bytes(c) \in Seq(Symbols) /\ Len(Bytes(c)) = SymbolSize(c)
  BY <1>2 DEF Bytes
<1> QED
  BY <1>1, <1>2, <1>3 DEF SymbolSize, Chars

LEMMA SizeMore ==
  ASSUME NEW text \in Seq(Symbols), NEW c \in Symbols
  PROVE  /\ SizeOf(text) \in Nat
         /\ SizeOf(Append(text, c)) = SizeOf(text) + SymbolSize(c)
<1> DEFINE bytes == [i \in DOMAIN text |-> Bytes(text[i])]
           more == Append(text, c)
           moreBytes == [i \in DOMAIN more |-> Bytes(more[i])]
<1>1. /\ Len(text) \in Nat /\ DOMAIN text = 1..Len(text)
      /\ \A i \in 1..Len(text) : text[i] \in Symbols
      /\ more \in Seq(Symbols) /\ Len(more) = Len(text) + 1
      /\ DOMAIN more = 1..(Len(text) + 1)
      /\ \A i \in 1..Len(text) : more[i] = text[i]
      /\ more[Len(text) + 1] = c
  BY LenProperties, AppendProperties, ElementOfSeq
<1> HIDE DEF more
<1>2. bytes \in Seq(Seq(Symbols)) /\ Len(bytes) = Len(text)
  BY <1>1, SymbolSizes
<1>3. moreBytes = Append(bytes, Bytes(c))
  <2>1. /\ Append(bytes, Bytes(c)) \in Seq(Seq(Symbols))
        /\ Len(Append(bytes, Bytes(c))) = Len(text) + 1
        /\ \A i \in 1..Len(text) : Append(bytes, Bytes(c))[i] = bytes[i]
        /\ Append(bytes, Bytes(c))[Len(text) + 1] = Bytes(c)
    BY <1>2, SymbolSizes, AppendProperties
  <2>2. moreBytes \in Seq(Seq(Symbols)) /\ Len(moreBytes) = Len(text) + 1
    BY <1>1, SymbolSizes
  <2>3. \A i \in 1..(Len(text) + 1) : moreBytes[i] = Append(bytes, Bytes(c))[i]
    BY <1>1, <2>1
  <2> HIDE DEF bytes, moreBytes
  <2> QED
    BY <2>1, <2>2, <2>3, SeqEqual
<1>4. SizeOf(text) = Len(FlattenSeq(bytes)) /\ SizeOf(more) = Len(FlattenSeq(moreBytes))
  BY DEF SizeOf, Bytes
<1> HIDE DEF bytes, moreBytes
<1>5. /\ FlattenSeq(bytes) \in Seq(Symbols)
      /\ FlattenSeq(moreBytes) = FlattenSeq(bytes) \o Bytes(c)
  BY <1>2, <1>3, SymbolSizes, FlattenType, FlattenAppend
<1> QED
  BY <1>4, <1>5, SymbolSizes, ConcatProperties, LenProperties DEF more

\* What is added to a text adds to its size, one byte for each character.
LEMMA SizeBoth ==
  ASSUME NEW text \in Seq(Symbols), NEW more \in Seq(Symbols)
  PROVE  /\ SizeOf(text) \in Nat /\ SizeOf(text \o more) \in Nat
         /\ SizeOf(text) <= SizeOf(text \o more)
         /\ more \in Seq(Chars) => SizeOf(text \o more) = SizeOf(text) + Len(more)
<1>1. Len(more) \in Nat /\ \A i \in 1..Len(more) : more[i] \in Symbols
  BY LenProperties, ElementOfSeq
<1>2. "bom" \in Symbols
  BY DEF Symbols
<1> DEFINE upto(n) == text \o SubSeq(more, 1, n)
           T == {n \in Nat : n <= Len(more) =>
                   /\ SizeOf(text) <= SizeOf(upto(n))
                   /\ more \in Seq(Chars) => SizeOf(upto(n)) = SizeOf(text) + n}
<1>3. \A n \in 0..Len(more) : upto(n) \in Seq(Symbols)
  BY PrefixMore, ConcatProperties
<1>4. upto(0) = text
  BY PrefixMore, ConcatEmptySeq
<1>5. ASSUME NEW n \in Nat, n + 1 <= Len(more)
      PROVE  upto(n + 1) = Append(upto(n), more[n + 1])
  <2>1. /\ SubSeq(more, 1, n) \in Seq(Symbols) /\ more[n + 1] \in Symbols
        /\ SubSeq(more, 1, n + 1) = Append(SubSeq(more, 1, n), more[n + 1])
    <3>1. n + 1 \in 1..Len(more) /\ (n + 1) - 1 = n /\ n \in 0..Len(more)
      BY <1>1, <1>5
    <3> QED  BY <1>1, <3>1, PrefixMore
  <2>2. /\ SubSeq(more, 1, n + 1) = SubSeq(more, 1, n) \o <<more[n + 1]>>
        /\ <<more[n + 1]>> \in Seq(Symbols)
    BY <2>1, AppendIs
  <2>3. text \o SubSeq(more, 1, n) \in Seq(Symbols)
    BY <2>1, ConcatProperties
  <2> QED
    BY <2>1, <2>2, <2>3, ConcatAssociative, AppendIs
<1> HIDE DEF upto
<1>6. 0 \in T
  BY <1>2, <1>4, SizeMore
<1>7. ASSUME NEW n \in Nat, n \in T PROVE n + 1 \in T
  <2> SUFFICES ASSUME n + 1 <= Len(more)
               PROVE  /\ SizeOf(text) <= SizeOf(upto(n + 1))
                      /\ more \in Seq(Chars) =>
                           SizeOf(upto(n + 1)) = SizeOf(text) + (n + 1)
    OBVIOUS
  <2>1. more[n + 1] \in Symbols /\ upto(n) \in Seq(Symbols)
    BY <1>1, <1>3
  <2>2. more \in Seq(Chars) => SymbolSize(more[n + 1]) = 1
    BY <1>1, ElementOfSeq, SymbolSizes
  <2>3. /\ SizeOf(upto(n + 1)) = SizeOf(upto(n)) + SymbolSize(more[n + 1])
        /\ SizeOf(upto(n)) \in Nat /\ SymbolSize(more[n + 1]) \in Nat
    BY <1>5, <2>1, SizeMore, SymbolSizes
  <2>4. SizeOf(text) \in Nat
    BY <1>2, SizeMore
  <2>5. /\ SizeOf(text) <= SizeOf(upto(n))
        /\ more \in Seq(Chars) => SizeOf(upto(n)) = SizeOf(text) + n
    BY <1>1, <1>7
  <2> QED
    BY <2>2, <2>3, <2>4, <2>5
<1> HIDE DEF T
<1>8. Len(more) \in T
  BY <1>1, <1>6, <1>7, SetInduction
<1>9. upto(Len(more)) = text \o more /\ upto(Len(more)) \in Seq(Symbols)
  BY <1>1, <1>3, SubSeqFull DEF upto
<1>10. SizeOf(text) \in Nat /\ SizeOf(text \o more) \in Nat
  BY <1>2, <1>9, SizeMore
<1>11. /\ SizeOf(text) <= SizeOf(upto(Len(more)))
       /\ more \in Seq(Chars) => SizeOf(upto(Len(more))) = SizeOf(text) + Len(more)
  BY <1>1, <1>8 DEF T
<1> QED
  BY <1>9, <1>10, <1>11

LEMMA SizeOne ==
  ASSUME NEW c \in Symbols
  PROVE  SizeOf(<<c>>) = SymbolSize(c)
<1>1. <<>> \in Seq(Symbols) /\ Append(<<>>, c) = <<c>>
  BY EmptySeq
<1>2. SizeOf(<<>>) = 0
  <2>1. [i \in DOMAIN <<>> |-> [byte \in 1..SymbolSize(<<>>[i]) |-> <<>>[i]]] = <<>>
    OBVIOUS
  <2> QED
    BY <2>1, FlattenNone DEF SizeOf
<1>3. SizeOf(Append(<<>>, c)) = SizeOf(<<>>) + SymbolSize(c)
  BY <1>1, SizeMore
<1>4. SymbolSize(c) \in Nat
  BY SymbolSizes
<1> QED
  BY <1>1, <1>2, <1>3, <1>4

-----------------------------------------------------------------------------
(* What a reader makes of a field.                                         *)

Modes == {"mark", "header", "between", "plain", "quoted", "after", "malformed"}
Texts == Seq(Symbols)
Readers == [mode : Modes, field : Texts, fields : Seq(Texts), rows : Seq(Seq(Texts))]

\* A symbol takes a reader to a reader, and adds at most one row.
LEMMA ReadsType ==
  ASSUME NEW r \in Readers, NEW c \in Symbols
  PROVE  /\ Reads(r, c) \in Readers
         /\ \/ Reads(r, c).rows = r.rows
            \/ \E row \in Seq(Texts) : Reads(r, c).rows = Append(r.rows, row)
<1>1. /\ r.mode \in Modes /\ r.field \in Texts /\ r.fields \in Seq(Texts)
      /\ r.rows \in Seq(Seq(Texts))
  BY DEF Readers
<1>2. /\ Append(r.field, c) \in Texts /\ Append(r.fields, r.field) \in Seq(Texts)
      /\ Append(r.rows, Append(r.fields, r.field)) \in Seq(Seq(Texts))
      /\ <<>> \in Texts /\ <<>> \in Seq(Texts)
  BY <1>1, AppendProperties, EmptySeq DEF Texts
<1>3. \A m \in Modes : /\ Turns(r, m) \in Readers /\ Turns(r, m).rows = r.rows
                       /\ Adds(r, c, m) \in Readers /\ Adds(r, c, m).rows = r.rows
  BY <1>1, <1>2 DEF Turns, Adds, Reader, Readers
<1>4. Ends(r) \in Readers /\ Ends(r).rows = r.rows
  BY <1>1, <1>2 DEF Ends, Reader, Readers, Modes
<1>5. EndsRow(r) \in Readers /\ EndsRow(r).rows = Append(r.rows, Append(r.fields, r.field))
  BY <1>1, <1>2 DEF EndsRow, Reader, Readers, Modes
<1>6. \/ Reads(r, c) = r \/ Reads(r, c) = Ends(r) \/ Reads(r, c) = EndsRow(r)
      \/ \E m \in Modes : Reads(r, c) = Turns(r, m) \/ Reads(r, c) = Adds(r, c, m)
  BY <1>1 DEF Reads, Modes
<1> HIDE DEF Modes
<1> QED
  BY <1>2, <1>3, <1>4, <1>5, <1>6

\* A text takes a reader to a reader, and its rows are kept.
LEMMA AfterType ==
  ASSUME NEW r \in Readers, NEW text \in Texts
  PROVE  /\ After(r, text) \in Readers
         /\ \E more \in Seq(Seq(Texts)) : After(r, text).rows = r.rows \o more
<1>1. Len(text) \in Nat /\ \A i \in 1..Len(text) : text[i] \in Symbols
  BY LenProperties, ElementOfSeq DEF Texts
<1>2. PICK at : ReadsAlong(at, r, text)
  BY ReadsAlongExists DEF Texts
<1>3. at[0] = r /\ \A i \in 1..Len(text) : at[i] = Reads(at[i - 1], text[i])
  BY <1>2, AlongSteps DEF Texts
<1>4. r.rows \in Seq(Seq(Texts)) /\ <<>> \in Seq(Seq(Texts))
  BY EmptySeq DEF Readers
<1> DEFINE Kept(s) == \E more \in Seq(Seq(Texts)) : s.rows = r.rows \o more
           T == {n \in Nat : n <= Len(text) => at[n] \in Readers /\ Kept(at[n])}
<1> HIDE DEF Kept
<1>5. 0 \in T
  <2>1. r.rows = r.rows \o <<>>
    BY <1>4, ConcatEmptySeq
  <2>2. Kept(r)
    BY <1>4, <2>1 DEF Kept
  <2> QED
    BY <1>3, <2>2
<1>6. ASSUME NEW n \in Nat, n \in T PROVE n + 1 \in T
  <2> SUFFICES ASSUME n + 1 <= Len(text)
               PROVE  at[n + 1] \in Readers /\ Kept(at[n + 1])
    OBVIOUS
  <2>1. at[n] \in Readers /\ Kept(at[n]) /\ text[n + 1] \in Symbols
    BY <1>1, <1>6
  <2>2. at[n + 1] = Reads(at[n], text[n + 1])
    <3>1. n + 1 \in 1..Len(text) /\ (n + 1) - 1 = n
      BY <1>1
    <3> QED  BY <1>3, <3>1
  <2>3. /\ at[n + 1] \in Readers
        /\ \/ at[n + 1].rows = at[n].rows
           \/ \E row \in Seq(Texts) : at[n + 1].rows = Append(at[n].rows, row)
    BY <2>1, <2>2, ReadsType
  <2>4. PICK more \in Seq(Seq(Texts)) : at[n].rows = r.rows \o more
    BY <2>1 DEF Kept
  <2>5. ASSUME NEW row \in Seq(Texts), at[n + 1].rows = Append(at[n].rows, row)
        PROVE  Kept(at[n + 1])
    <3>1. more \o <<row>> \in Seq(Seq(Texts))
      BY <2>4, ConcatProperties
    <3>2. Append(at[n].rows, row) = r.rows \o (more \o <<row>>)
      <4> DEFINE old == r.rows
                 Row == Seq(Texts)
      <4>1. old \in Seq(Row) /\ more \in Seq(Row) /\ row \in Row
        BY <1>4
      <4>2. at[n].rows = old \o more
        BY <2>4
      <4> HIDE DEF old, Row
      <4>3. old \o more \in Seq(Row) /\ <<row>> \in Seq(Row)
        BY <4>1, ConcatProperties
      <4>4. Append(at[n].rows, row) = (old \o more) \o <<row>>
        BY <4>1, <4>2, <4>3, AppendIs
      <4>5. (old \o more) \o <<row>> = old \o (more \o <<row>>)
        BY <4>1, <4>3, ConcatAssociative
      <4> QED  BY <4>4, <4>5 DEF old
    <3> QED
      BY <2>4, <2>5, <3>1, <3>2 DEF Kept
  <2>6. at[n + 1].rows = at[n].rows => Kept(at[n + 1])
    BY <2>1 DEF Kept
  <2> QED
    BY <2>3, <2>5, <2>6
<1> HIDE DEF T
<1>7. Len(text) \in T
  BY <1>1, <1>5, <1>6, SetInduction
<1>8. After(r, text) = at[Len(text)]
  BY <1>2, AfterIs DEF Texts
<1> QED
  BY <1>1, <1>7, <1>8 DEF T, Kept

\* A field without its quotes has none, and no new character.
LEMMA WithoutQuotesType ==
  ASSUME NEW field \in Seq(Chars)
  PROVE  WithoutQuotes(field) \in Seq(Chars \ {"quote"})
<1> DEFINE pieces == [i \in DOMAIN field |->
                        IF field[i] = "quote" THEN <<>> ELSE <<field[i]>>]
           Some == Chars \ {"quote"}
<1>1. /\ Len(field) \in Nat /\ DOMAIN field = 1..Len(field)
      /\ \A i \in 1..Len(field) : field[i] \in Chars
  BY LenProperties, ElementOfSeq
<1>2. ASSUME NEW i \in 1..Len(field)
      PROVE  (IF field[i] = "quote" THEN <<>> ELSE <<field[i]>>) \in Seq(Some)
  <2>1. CASE field[i] = "quote"
    <3>1. <<>> \in Seq(Some)
      BY EmptySeq
    <3> QED  BY <2>1, <3>1
  <2>2. CASE field[i] # "quote"
    <3>1. field[i] \in Some
      BY <1>1, <2>2
    <3> HIDE DEF Some
    <3>2. <<field[i]>> \in Seq(Some)
      BY <3>1
    <3> QED  BY <2>2, <3>2
  <2> QED  BY <2>1, <2>2
<1> HIDE DEF Some
<1>3. pieces \in Seq(Seq(Some))
  BY <1>1, <1>2
<1> HIDE DEF pieces
<1>4. FlattenSeq(pieces) \in Seq(Some)
  BY <1>3, FlattenType
<1> QED
  BY <1>4 DEF WithoutQuotes, pieces, Some

\* A field that needs no quotes has only plain characters, and is left as it is.
LEMMA PlainKept ==
  ASSUME NEW field \in Seq(Chars), ~NeedsQuotes(field)
  PROVE  field \in Seq({"other"}) /\ WithoutQuotes(field) = field
<1> DEFINE pieces == [i \in DOMAIN field |->
                        IF field[i] = "quote" THEN <<>> ELSE <<field[i]>>]
           f == [i \in 1..Len(pieces) |-> SubSeq(field, 1, i)]
<1>1. /\ Len(field) \in Nat /\ DOMAIN field = 1..Len(field)
      /\ \A i \in 1..Len(field) : field[i] \in Chars
      /\ field \in [1..Len(field) -> Chars]
  BY LenProperties, ElementOfSeq
<1>2. \A i \in 1..Len(field) : field[i] = "other"
  BY <1>1 DEF NeedsQuotes, ToSet, Chars
<1>3. field \in Seq({"other"})
  BY <1>1, <1>2
<1>4. pieces \in Seq(Seq(Chars)) /\ Len(pieces) = Len(field)
  BY <1>1
<1>5. \A i \in 1..Len(field) : pieces[i] = <<field[i]>>
  BY <1>1, <1>2
<1>6. CASE Len(field) = 0
  <2>1. field = <<>> /\ pieces = <<>>
    BY <1>4, <1>6, EmptySeq
  <2> QED
    BY <1>3, <2>1, FlattenNone DEF WithoutQuotes
<1>7. CASE Len(field) # 0
  <2>1. ASSUME NEW i \in 1..Len(pieces)
        PROVE  f[i] = IF i = 1 THEN pieces[i] ELSE f[i - 1] \o pieces[i]
    <3>1. /\ SubSeq(field, 1, i) = SubSeq(field, 1, i - 1) \o <<field[i]>>
          /\ SubSeq(field, 1, 0) = <<>>
      <4>1. /\ SubSeq(field, 1, i) = Append(SubSeq(field, 1, i - 1), field[i])
            /\ SubSeq(field, 1, i - 1) \in Seq(Chars) /\ field[i] \in Chars
        BY <1>1, <1>4, PrefixMore
      <4> QED  BY <4>1, AppendIs, PrefixMore
    <3>2. pieces[i] = <<field[i]>> /\ <<field[i]>> \in Seq(Chars)
      BY <1>1, <1>4, <1>5
    <3>3. f[i] = SubSeq(field, 1, i) /\ (i # 1 => f[i - 1] = SubSeq(field, 1, i - 1))
      BY <1>1, <1>4
    <3>4. i = 1 => SubSeq(field, 1, i) = <<field[i]>>
      <4>1. <<>> \o <<field[i]>> = <<field[i]>>
        BY <3>2, ConcatEmptySeq
      <4>2. i = 1 => SubSeq(field, 1, i - 1) = <<>>
        BY <3>1
      <4> QED  BY <3>1, <4>1, <4>2
    <3> HIDE DEF pieces, f
    <3> QED  BY <3>1, <3>2, <3>3, <3>4
  <2>2. f[Len(pieces)] = field
    BY <1>1, <1>4, <1>7, PrefixMore
  <2>3. Flattens(f, pieces)
    BY <2>1 DEF Flattens
  <2> HIDE DEF pieces, f
  <2>4. FlattenSeq(pieces) = field
    BY <1>4, <1>7, <2>2, <2>3, FlattenIs
  <2> QED
    BY <1>3, <2>4 DEF WithoutQuotes, pieces
<1> QED
  BY <1>6, <1>7

\* The steps of a reader on what the export writes.
LEMMA ReadsFrom ==
  ASSUME NEW f, NEW fs, NEW rs
  PROVE  /\ \A c \in Chars \ {"quote"} :
              Reads(Reader("quoted", f, fs, rs), c) = Reader("quoted", Append(f, c), fs, rs)
         /\ Reads(Reader("between", f, fs, rs), "quote") = Reader("quoted", f, fs, rs)
         /\ Reads(Reader("quoted", f, fs, rs), "quote") = Reader("after", f, fs, rs)
<1>1. \A m, n, c : /\ Turns(Reader(m, f, fs, rs), n) = Reader(n, f, fs, rs)
                   /\ Adds(Reader(m, f, fs, rs), c, n) = Reader(n, Append(f, c), fs, rs)
  BY DEF Turns, Adds, Reader
<1>2. \A m : Reader(m, f, fs, rs).mode = m
  BY DEF Reader
<1> QED
  BY <1>1, <1>2 DEF Reads, Chars

LEMMA QuotedStep ==
  ASSUME NEW f, NEW fs, NEW rs, NEW c, c \in Chars \ {"quote"}
  PROVE  Reads(Reader("quoted", f, fs, rs), c) = Reader("quoted", Append(f, c), fs, rs)
BY ReadsFrom

LEMMA PlainStep ==
  ASSUME NEW m \in {"between", "plain"}, NEW f, NEW fs, NEW rs
  PROVE  Reads(Reader(m, f, fs, rs), "other") = Reader("plain", Append(f, "other"), fs, rs)
<1> DEFINE r == Reader(m, f, fs, rs)
<1>1. r.mode \in {"between", "plain"}
  BY DEF Reader
<1>2. Adds(r, "other", "plain") = Reader("plain", Append(f, "other"), fs, rs)
  BY DEF Reader, Adds
<1> HIDE DEF r
<1>3. Reads(r, "other") = Adds(r, "other", "plain")
  BY <1>1 DEF Reads
<1> QED
  BY <1>2, <1>3 DEF r

LEMMA EndStep ==
  ASSUME NEW m \in {"between", "plain", "after"}, NEW f, NEW fs, NEW rs
  PROVE  /\ Reads(Reader(m, f, fs, rs), "delimiter") =
              Reader("between", <<>>, Append(fs, f), rs)
         /\ Reads(Reader(m, f, fs, rs), "newline") =
              Reader("between", <<>>, <<>>, Append(rs, Append(fs, f)))
<1> DEFINE r == Reader(m, f, fs, rs)
<1>1. r.mode \in {"between", "plain", "after"}
  BY DEF Reader
<1>2. /\ Ends(r) = Reader("between", <<>>, Append(fs, f), rs)
      /\ EndsRow(r) = Reader("between", <<>>, <<>>, Append(rs, Append(fs, f)))
  BY DEF Reader, Ends, EndsRow
<1> HIDE DEF r
<1>3. Reads(r, "delimiter") = Ends(r) /\ Reads(r, "newline") = EndsRow(r)
  BY <1>1 DEF Reads
<1> QED
  BY <1>2, <1>3 DEF r

LEMMA PlainRead ==
  ASSUME NEW fs, NEW rs, NEW text \in Seq({"other"})
  PROVE  \E m \in {"between", "plain"} :
           After(Reader("between", <<>>, fs, rs), text) = Reader(m, text, fs, rs)
<1> DEFINE r == Reader("between", <<>>, fs, rs)
           Mode(i) == IF i = 0 THEN "between" ELSE "plain"
           at == [i \in 0..Len(text) |-> Reader(Mode(i), SubSeq(text, 1, i), fs, rs)]
<1>1. Len(text) \in Nat /\ \A i \in 1..Len(text) : text[i] = "other"
  BY LenProperties, ElementOfSeq
<1>2. ASSUME NEW i \in 0..Len(text)
      PROVE  at[i] = IF i = 0 THEN r ELSE Reads(at[i - 1], text[i])
  <2>1. CASE i = 0
    <3>1. SubSeq(text, 1, 0) = <<>>
      BY PrefixMore
    <3> QED  BY <1>1, <2>1, <3>1
  <2>2. CASE i # 0
    <3>1. SubSeq(text, 1, i) = Append(SubSeq(text, 1, i - 1), "other")
      BY <1>1, <2>2, PrefixMore
    <3>2. /\ at[i] = Reader("plain", SubSeq(text, 1, i), fs, rs)
          /\ at[i - 1] = Reader(Mode(i - 1), SubSeq(text, 1, i - 1), fs, rs)
          /\ Mode(i - 1) \in {"between", "plain"}
          /\ text[i] = "other"
      BY <1>1, <2>2
    <3> DEFINE read == SubSeq(text, 1, i - 1)
    <3>3. Reads(Reader(Mode(i - 1), read, fs, rs), "other") =
            Reader("plain", Append(read, "other"), fs, rs)
      <4> DEFINE m == Mode(i - 1)
      <4>1. m \in {"between", "plain"}
        BY <3>2
      <4> HIDE DEF read, m
      <4>2. Reads(Reader(m, read, fs, rs), "other") =
              Reader("plain", Append(read, "other"), fs, rs)
        BY <4>1, PlainStep
      <4> QED  BY <4>2 DEF m
    <3> HIDE DEF at, Mode, r
    <3> QED
      BY <2>2, <3>1, <3>2, <3>3
  <2> QED  BY <2>1, <2>2
<1>3. ReadsAlong(at, r, text)
  <2> HIDE DEF r
  <2> QED  BY <1>2 DEF ReadsAlong
<1>4. at[Len(text)] = Reader(Mode(Len(text)), text, fs, rs)
  <2>1. SubSeq(text, 1, Len(text)) = text /\ Len(text) \in 0..Len(text)
    BY <1>1, PrefixMore
  <2> HIDE DEF Mode
  <2> QED  BY <2>1
<1>5. Mode(Len(text)) \in {"between", "plain"}
  OBVIOUS
<1> HIDE DEF at, Mode
<1> QED
  BY <1>3, <1>4, <1>5, AfterIs

LEMMA QuotedRead ==
  ASSUME NEW fs, NEW rs, NEW text \in Seq(Chars \ {"quote"})
  PROVE  After(Reader("quoted", <<>>, fs, rs), text) = Reader("quoted", text, fs, rs)
<1> DEFINE r == Reader("quoted", <<>>, fs, rs)
           at == [i \in 0..Len(text) |-> Reader("quoted", SubSeq(text, 1, i), fs, rs)]
<1>1. Len(text) \in Nat /\ \A i \in 1..Len(text) : text[i] \in Chars \ {"quote"}
  BY LenProperties, ElementOfSeq
<1>2. ASSUME NEW i \in 0..Len(text)
      PROVE  at[i] = IF i = 0 THEN r ELSE Reads(at[i - 1], text[i])
  <2>1. CASE i = 0
    <3>1. SubSeq(text, 1, 0) = <<>>
      BY PrefixMore
    <3> QED  BY <1>1, <2>1, <3>1
  <2>2. CASE i # 0
    <3>1. SubSeq(text, 1, i) = Append(SubSeq(text, 1, i - 1), text[i])
      BY <1>1, <2>2, PrefixMore
    <3>2. /\ at[i] = Reader("quoted", SubSeq(text, 1, i), fs, rs)
          /\ at[i - 1] = Reader("quoted", SubSeq(text, 1, i - 1), fs, rs)
          /\ text[i] \in Chars \ {"quote"}
      BY <1>1, <2>2
    <3> DEFINE read == SubSeq(text, 1, i - 1)
    <3>3. Reads(Reader("quoted", read, fs, rs), text[i]) =
            Reader("quoted", Append(read, text[i]), fs, rs)
      <4> DEFINE c == text[i]
      <4>1. c \in Chars \ {"quote"}
        BY <3>2
      <4> HIDE DEF read, c
      <4>2. Reads(Reader("quoted", read, fs, rs), c) =
              Reader("quoted", Append(read, c), fs, rs)
        BY <4>1, QuotedStep
      <4> QED  BY <4>2 DEF c
    <3> HIDE DEF at, r
    <3> QED
      BY <2>2, <3>1, <3>2, <3>3
  <2> QED  BY <2>1, <2>2
<1>3. ReadsAlong(at, r, text)
  <2> HIDE DEF r
  <2> QED  BY <1>2 DEF ReadsAlong
<1>4. at[Len(text)] = Reader("quoted", text, fs, rs)
  <2>1. SubSeq(text, 1, Len(text)) = text /\ Len(text) \in 0..Len(text)
    BY <1>1, PrefixMore
  <2> QED  BY <2>1
<1> HIDE DEF at
<1> QED
  BY <1>3, <1>4, AfterIs

\* A reader that starts a field has it, without its quotes, when the field is
\* read, and is where a delimiter or the end of the line may follow.
LEMMA FieldRead ==
  ASSUME NEW fs, NEW rs, NEW field \in Seq(Chars)
  PROVE  /\ EscapeCsvField(field) \in Seq(Chars)
         /\ \E m \in {"between", "plain", "after"} :
              After(Reader("between", <<>>, fs, rs), EscapeCsvField(field)) =
                Reader(m, WithoutQuotes(field), fs, rs)
<1>1. CASE ~NeedsQuotes(field)
  <2>1. field \in Seq({"other"}) /\ EscapeCsvField(field) = field /\ WithoutQuotes(field) = field
    BY <1>1, PlainKept DEF EscapeCsvField
  <2> QED
    BY <2>1, PlainRead
<1>2. CASE NeedsQuotes(field)
  <2> DEFINE text == WithoutQuotes(field)
             quote == <<"quote">>
  <2>1. text \in Seq(Chars \ {"quote"}) /\ text \in Seq(Chars)
    BY WithoutQuotesType
  <2>2. quote \in Seq(Chars)
    BY DEF Chars
  <2>3. EscapeCsvField(field) = (quote \o text) \o quote
    BY <1>2 DEF EscapeCsvField
  <2>4. After(Reader("between", <<>>, fs, rs), quote) = Reader("quoted", <<>>, fs, rs)
    BY AfterOne, ReadsFrom
  <2>5. After(Reader("quoted", text, fs, rs), quote) = Reader("after", text, fs, rs)
    BY AfterOne, ReadsFrom
  <2> HIDE DEF text, quote
  <2>6. quote \o text \in Seq(Chars) /\ (quote \o text) \o quote \in Seq(Chars)
    BY <2>1, <2>2, ConcatProperties
  <2>7. After(Reader("between", <<>>, fs, rs), quote \o text) = Reader("quoted", text, fs, rs)
    BY <2>1, <2>2, <2>4, AfterBoth, QuotedRead
  <2>8. After(Reader("between", <<>>, fs, rs), (quote \o text) \o quote)
          = Reader("after", text, fs, rs)
    <3> DEFINE start == quote \o text
    <3>1. start \in Seq(Chars) /\ After(Reader("between", <<>>, fs, rs), start)
                                   = Reader("quoted", text, fs, rs)
      BY <2>6, <2>7
    <3> HIDE DEF start
    <3>2. After(Reader("between", <<>>, fs, rs), start \o quote)
            = Reader("after", text, fs, rs)
      BY <2>2, <2>5, <3>1, AfterBoth
    <3> QED  BY <3>2 DEF start
  <2> QED
    BY <2>3, <2>6, <2>8 DEF text
<1> QED
  BY <1>1, <1>2

\* Rows, and what is left of one when it is read back.
RowSet == [1..Columns -> Fields]
Clean(row) == [k \in 1..Columns |-> WithoutQuotes(row[k])]

LEMMA RowType ==
  ASSUME NEW row \in RowSet
  PROVE  /\ Columns \in Nat /\ Columns # 0
         /\ \A k \in 1..Columns : row[k] \in Seq(Chars)
         /\ Clean(row) \in Seq(Texts) /\ Len(Clean(row)) = Columns
         /\ \A k \in 1..Columns : Clean(row)[k] = WithoutQuotes(row[k])
<1>1. Columns \in Nat /\ Columns # 0 /\ \A k \in 1..Columns : row[k] \in Seq(Chars)
  BY CsvAssumption DEF RowSet
<1>2. Seq(Chars \ {"quote"}) \subseteq Texts
  <2>1. Chars \ {"quote"} \subseteq Symbols
    BY DEF Symbols
  <2> QED  BY <2>1, SeqDef DEF Texts
<1>3. \A k \in 1..Columns : WithoutQuotes(row[k]) \in Texts
  BY <1>1, <1>2, WithoutQuotesType
<1> QED
  BY <1>1, <1>3 DEF Clean

\* The fields of a row that were read before the next one.
LEMMA RowSoFar ==
  ASSUME NEW row \in RowSet, NEW rs, NEW f,
         Flattens(f, [i \in 1..Columns |->
                        IF i = 1 THEN EscapeCsvField(row[1])
                        ELSE <<"delimiter">> \o EscapeCsvField(row[i])]),
         NEW n \in 1..Columns
  PROVE  /\ f[n] \in Seq(Chars)
         /\ \E m \in {"between", "plain", "after"} :
              After(Reader("between", <<>>, <<>>, rs), f[n]) =
                Reader(m, WithoutQuotes(row[n]), SubSeq(Clean(row), 1, n - 1), rs)
<1> DEFINE r == Reader("between", <<>>, <<>>, rs)
           delimiter == <<"delimiter">>
           piece(i) == IF i = 1 THEN EscapeCsvField(row[1])
                       ELSE delimiter \o EscapeCsvField(row[i])
           pieces == [i \in 1..Columns |-> piece(i)]
           Good(k) == /\ f[k] \in Seq(Chars)
                      /\ \E m \in {"between", "plain", "after"} :
                           After(r, f[k]) =
                             Reader(m, WithoutQuotes(row[k]),
                                    SubSeq(Clean(row), 1, k - 1), rs)
           T == {k \in Nat : k + 1 <= Columns => Good(k + 1)}
<1>1. Columns \in Nat /\ Columns # 0 /\ \A k \in 1..Columns : row[k] \in Seq(Chars)
  BY RowType
<1>2. delimiter \in Seq(Chars)
  BY DEF Chars
<1>3. \A k \in 1..Columns : EscapeCsvField(row[k]) \in Seq(Chars)
  BY <1>1, FieldRead
<1>4. pieces \in Seq(Seq(Chars)) /\ Len(pieces) = Columns
  <2> HIDE DEF delimiter
  <2>1. \A k \in 1..Columns : piece(k) \in Seq(Chars)
    BY <1>1, <1>2, <1>3, ConcatProperties
  <2> HIDE DEF piece
  <2> QED  BY <1>1, <2>1
<1>5. /\ f[1] = EscapeCsvField(row[1])
      /\ \A k \in Nat : k + 2 <= Columns =>
           f[k + 2] = f[k + 1] \o (delimiter \o EscapeCsvField(row[k + 2]))
  <2> DEFINE S == Seq(Chars)
  <2>1. Flattens(f, pieces)
    OBVIOUS
  <2> HIDE DEF delimiter, S
  <2>2. /\ pieces[1] = EscapeCsvField(row[1])
        /\ \A k \in Nat : k + 2 <= Columns =>
             pieces[k + 2] = delimiter \o EscapeCsvField(row[k + 2])
    BY <1>1
  <2>3. pieces \in Seq(S) /\ Len(pieces) = Columns
    BY <1>4 DEF S
  <2> HIDE DEF pieces
  <2>4. /\ 1 <= Columns => f[1] = pieces[1]
        /\ \A k \in Nat : k + 2 <= Columns => f[k + 2] = f[k + 1] \o pieces[k + 2]
    BY <2>1, <2>3, FlattenSteps
  <2>5. ASSUME NEW k \in Nat, k + 2 <= Columns
        PROVE  f[k + 2] = f[k + 1] \o (delimiter \o EscapeCsvField(row[k + 2]))
    BY <2>2, <2>4, <2>5
  <2>6. f[1] = EscapeCsvField(row[1])
    <3>1. 1 <= Columns
      BY <1>1
    <3> QED  BY <2>2, <2>4, <3>1
  <2> QED
    BY <2>5, <2>6
<1> HIDE DEF piece, Good, r
<1>6. 0 \in T
  <2>1. Clean(row) \in Seq(Texts)
    BY RowType
  <2>2. SubSeq(Clean(row), 1, 0) = <<>>
    BY <2>1, PrefixMore
  <2>3. Good(1)
    <3>1. EscapeCsvField(row[1]) \in Seq(Chars)
      BY <1>1, <1>3
    <3>2. \E m \in {"between", "plain", "after"} :
            After(r, EscapeCsvField(row[1])) = Reader(m, WithoutQuotes(row[1]), <<>>, rs)
      BY <1>1, FieldRead DEF r
    <3>3. 1 - 1 = 0
      OBVIOUS
    <3> QED  BY <1>5, <2>2, <3>1, <3>2, <3>3 DEF Good
  <2> QED  BY <2>3
<1>7. ASSUME NEW k \in Nat, k \in T PROVE k + 1 \in T
  <2> SUFFICES ASSUME k + 2 <= Columns PROVE Good(k + 2)
    OBVIOUS
  <2> DEFINE before == f[k + 1]
             field == EscapeCsvField(row[k + 2])
             seen == SubSeq(Clean(row), 1, k)
             now == SubSeq(Clean(row), 1, k + 1)
             w == WithoutQuotes(row[k + 1])
  <2>1. Good(k + 1) /\ k + 1 \in 1..Columns /\ k + 2 \in 1..Columns
    BY <1>1, <1>7
  <2>2. PICK m \in {"between", "plain", "after"} : After(r, before) = Reader(m, w, seen, rs)
    BY <2>1 DEF Good
  <2>3. before \in Seq(Chars) /\ field \in Seq(Chars)
    BY <1>3, <2>1 DEF Good
  <2>4. now = Append(seen, w)
    BY <2>1, RowType, PrefixMore
  <2>5. \E p \in {"between", "plain", "after"} :
          After(Reader("between", <<>>, now, rs), field) =
            Reader(p, WithoutQuotes(row[k + 2]), now, rs)
    BY <1>1, <2>1, FieldRead
  <2>6. f[k + 2] = before \o (delimiter \o field)
    BY <1>5
  <2> HIDE DEF before, field, seen, now, w
  <2>7. Reads(Reader(m, w, seen, rs), "delimiter") = Reader("between", <<>>, now, rs)
    BY <2>2, <2>4, EndStep
  <2>8. After(Reader(m, w, seen, rs), delimiter) = Reader("between", <<>>, now, rs)
    BY <2>7, AfterOne
  <2> HIDE DEF delimiter
  <2>9. delimiter \o field \in Seq(Chars) /\ before \o (delimiter \o field) \in Seq(Chars)
    BY <1>2, <2>3, ConcatProperties
  <2>10. After(Reader(m, w, seen, rs), delimiter \o field)
           = After(Reader("between", <<>>, now, rs), field)
    BY <1>2, <2>3, <2>8, AfterBoth
  <2>11. After(r, before \o (delimiter \o field))
           = After(Reader(m, w, seen, rs), delimiter \o field)
    <3> DEFINE more == delimiter \o field
    <3>1. more \in Seq(Chars)
      BY <2>9
    <3> HIDE DEF more
    <3>2. After(r, before \o more) = After(Reader(m, w, seen, rs), more)
      BY <2>2, <2>3, <3>1, AfterBoth
    <3> QED  BY <3>2 DEF more
  <2> QED
    BY <2>5, <2>6, <2>9, <2>10, <2>11 DEF Good, now
<1> HIDE DEF T
<1>8. n - 1 \in Nat /\ (n - 1) + 1 = n
  BY <1>1
<1>9. n - 1 \in T
  BY <1>6, <1>7, <1>8, SetInduction
<1>10. Good(n)
  BY <1>1, <1>8, <1>9 DEF T
<1> QED
  BY <1>10 DEF Good, r

\* A reader between two rows has one more when a line is read.
LEMMA RowRead ==
  ASSUME NEW row \in RowSet, NEW rs
  PROVE  /\ Line(row) \in Seq(Chars)
         /\ After(Reader("between", <<>>, <<>>, rs), Line(row)) =
              Reader("between", <<>>, <<>>, Append(rs, Clean(row)))
<1> DEFINE r == Reader("between", <<>>, <<>>, rs)
           newline == <<"newline">>
           pieces == [i \in 1..Columns |->
                        IF i = 1 THEN EscapeCsvField(row[1])
                        ELSE <<"delimiter">> \o EscapeCsvField(row[i])]
<1>1. Columns \in Nat /\ Columns # 0
  BY RowType
<1>2. pieces \in Seq(Seq(Chars)) /\ Len(pieces) = Columns
  <2> DEFINE piece(i) == IF i = 1 THEN EscapeCsvField(row[1])
                         ELSE <<"delimiter">> \o EscapeCsvField(row[i])
  <2>1. \A k \in 1..Columns : EscapeCsvField(row[k]) \in Seq(Chars)
    BY RowType, FieldRead
  <2>2. <<"delimiter">> \in Seq(Chars)
    BY DEF Chars
  <2>3. \A k \in 1..Columns : piece(k) \in Seq(Chars)
    BY <1>1, <2>1, <2>2, ConcatProperties
  <2>4. pieces = [i \in 1..Columns |-> piece(i)]
    OBVIOUS
  <2> HIDE DEF piece, pieces
  <2> QED  BY <1>1, <2>3, <2>4
<1>3. Line(row) = FlattenSeq(pieces) \o newline
  <2>1. Joined([i \in 1..Columns |-> EscapeCsvField(row[i])]) = FlattenSeq(pieces)
    BY <1>1 DEF Joined
  <2> QED  BY <2>1 DEF Line
<1>4. newline \in Seq(Chars)
  BY DEF Chars
<1>5. PICK f : Flattens(f, pieces)
  BY <1>2, FlattensExists
<1>6. /\ f[Columns] \in Seq(Chars)
      /\ \E m \in {"between", "plain", "after"} :
           After(r, f[Columns]) =
             Reader(m, WithoutQuotes(row[Columns]), SubSeq(Clean(row), 1, Columns - 1), rs)
  <2>1. Columns \in 1..Columns
    BY <1>1
  <2> QED  BY <1>5, <2>1, RowSoFar
<1> HIDE DEF r, pieces
<1>7. FlattenSeq(pieces) = f[Columns]
  BY <1>1, <1>2, <1>5, FlattenIs
<1> DEFINE seen == SubSeq(Clean(row), 1, Columns - 1)
           w == WithoutQuotes(row[Columns])
           all == f[Columns]
<1>8. PICK m \in {"between", "plain", "after"} : After(r, all) = Reader(m, w, seen, rs)
  BY <1>6
<1>9. Append(seen, w) = Clean(row)
  <2>1. Columns \in 1..Columns
    BY <1>1
  <2> DEFINE clean == Clean(row)
  <2>2. clean \in Seq(Texts) /\ Len(clean) = Columns /\ clean[Columns] = w
    BY <2>1, RowType
  <2> HIDE DEF clean, w
  <2>3. /\ SubSeq(clean, 1, Columns) = clean
        /\ SubSeq(clean, 1, Columns) = Append(SubSeq(clean, 1, Columns - 1), clean[Columns])
    BY <2>1, <2>2, PrefixMore
  <2> QED  BY <2>2, <2>3 DEF clean
<1>10. all \in Seq(Chars) /\ Line(row) = all \o newline
  BY <1>3, <1>6, <1>7
<1> HIDE DEF seen, w, all
<1>11. Reads(Reader(m, w, seen, rs), "newline") =
         Reader("between", <<>>, <<>>, Append(rs, Clean(row)))
  <2>1. Reads(Reader(m, w, seen, rs), "newline") =
          Reader("between", <<>>, <<>>, Append(rs, Append(seen, w)))
    BY <1>8, EndStep
  <2> QED  BY <1>9, <2>1
<1>12. After(Reader(m, w, seen, rs), newline) =
         Reader("between", <<>>, <<>>, Append(rs, Clean(row)))
  BY <1>11, AfterOne
<1> HIDE DEF newline
<1>13. After(r, all \o newline) = Reader("between", <<>>, <<>>, Append(rs, Clean(row)))
  BY <1>4, <1>8, <1>10, <1>12, AfterBoth
<1>14. all \o newline \in Seq(Chars)
  BY <1>4, <1>10, ConcatProperties
<1> QED
  BY <1>10, <1>13, <1>14 DEF r

-----------------------------------------------------------------------------
(* The inductive invariant.                                                *)

\* The closed parts, the part that is written, and that part with what the
\* file and the stream hold back: what the device would have after a flush.
Closed == SubSeq(parts, 1, Len(parts) - 1)
Current == parts[Len(parts)]
Held == kept \o buffer
Whole == Current \o Held

TypeOK ==
  /\ rows \in Seq(RowSet) /\ isFile \in BOOLEAN
  /\ parts \in Seq(Texts) /\ Len(parts) # 0
  /\ kept \in Texts /\ buffer \in Texts /\ failed \in BOOLEAN
  /\ written \in Nat
  /\ next \in Nat /\ next >= 1 /\ next <= Len(rows) + 1
  /\ stage \in {"rows", "over", "returned", "killed"}

\* A flush would let a reader have every row that was written, and leave it
\* where the next row starts.
ReadSoFar ==
  /\ After(ReaderStart, Whole) =
       Reader("between", <<>>, <<>>, After(ReaderStart, Whole).rows)
  /\ RowsOf(Closed) \o After(ReaderStart, Whole).rows = Readable(next - 1)

\* Nothing is held back by an export that returned, if no write failed.
Drained == stage = "returned" /\ ~failed => Held = <<>>

\* written is the size of the part, without the header; the rows that took a
\* part over the limit are the last of it.
AtMostOneRowOver(size) == \E k \in DOMAIN rows : size - Limit <= Len(Line(rows[k]))
Counted ==
  /\ SizeOf(Whole) = written + HeaderSize
  /\ stage = "over" => isFile /\ written > Limit
  /\ isFile /\ stage = "rows" => written <= Limit
  /\ isFile /\ written > Limit => AtMostOneRowOver(written)
ClosedOver ==
  isFile => \A i \in DOMAIN Closed :
              /\ SizeOf(Closed[i]) - HeaderSize > Limit
              /\ AtMostOneRowOver(SizeOf(Closed[i]) - HeaderSize)

\* No more is claimed once a part was opened after a failure.
Good == TypeOK /\ ReadSoFar /\ Drained /\ Counted /\ ClosedOver
IInv == hole \/ Good

-----------------------------------------------------------------------------
(* The parts, and what a reader has of them.                               *)

LEMMA TextsAre ==
  /\ Seq(Chars) \subseteq Texts
  /\ <<>> \in Texts /\ <<"bom">> \in Texts /\ <<"header">> \in Texts
  /\ ReaderStart \in Readers
<1>1. Chars \subseteq Symbols /\ "bom" \in Symbols /\ "header" \in Symbols
  BY DEF Symbols
<1>2. /\ <<>> \in Seq(Symbols) /\ <<"bom">> \in Seq(Symbols)
      /\ <<"header">> \in Seq(Symbols)
  BY <1>1, EmptySeq
<1>3. Seq(Chars) \subseteq Seq(Symbols)
  BY <1>1, SeqDef
<1>4. <<>> \in Seq(Texts) /\ <<>> \in Seq(Seq(Texts))
  BY EmptySeq
<1> QED
  BY <1>2, <1>3, <1>4 DEF Texts, ReaderStart, Reader, Readers, Modes

\* The mark and the header leave a reader where the first row starts.
LEMMA HeaderRead ==
  /\ After(ReaderStart, <<"bom">> \o <<"header">>) = Reader("between", <<>>, <<>>, <<>>)
  /\ After(ReaderStart, <<"bom">>).rows = <<>>
  /\ SizeOf(<<"bom">> \o <<"header">>) = BomSize + HeaderSize
<1> DEFINE bom == <<"bom">>
           header == <<"header">>
<1>1. bom \in Seq(Symbols) /\ header \in Seq(Symbols)
  BY TextsAre DEF Texts
<1>2. After(ReaderStart, bom) = Reader("header", <<>>, <<>>, <<>>)
  <2>1. Reads(ReaderStart, "bom") = Reader("header", <<>>, <<>>, <<>>)
    BY DEF Reads, Turns, ReaderStart, Reader
  <2> QED  BY <2>1, AfterOne
<1>3. After(Reader("header", <<>>, <<>>, <<>>), header) = Reader("between", <<>>, <<>>, <<>>)
  <2>1. Reads(Reader("header", <<>>, <<>>, <<>>), "header")
          = Reader("between", <<>>, <<>>, <<>>)
    BY DEF Reads, Turns, Reader
  <2> QED  BY <2>1, AfterOne
<1>4. SizeOf(bom) = BomSize
  <2>1. "bom" \in Symbols
    BY DEF Symbols
  <2> QED  BY <2>1, SizeOne, SymbolSizes
<1>5. SizeOf(bom \o header) = BomSize + HeaderSize
  <2>1. "header" \in Symbols /\ bom \o header = Append(bom, "header")
    BY <1>1, AppendIs DEF Symbols
  <2> HIDE DEF bom, header
  <2>2. SizeOf(Append(bom, "header")) = SizeOf(bom) + SymbolSize("header")
    BY <1>1, <2>1, SizeMore
  <2> QED  BY <1>4, <2>1, <2>2, SymbolSizes
<1>6. After(ReaderStart, bom).rows = <<>>
  BY <1>2 DEF Reader
<1> HIDE DEF bom, header
<1>7. After(ReaderStart, bom \o header) = Reader("between", <<>>, <<>>, <<>>)
  BY <1>1, <1>2, <1>3, AfterBoth
<1> QED
  BY <1>5, <1>6, <1>7 DEF bom, header

\* One text more, and its rows.
LEMMA RowsOfMore ==
  ASSUME NEW texts \in Seq(Texts), NEW text \in Texts
  PROVE  /\ RowsOf(texts) \in Seq(Seq(Texts))
         /\ After(ReaderStart, text).rows \in Seq(Seq(Texts))
         /\ RowsOf(Append(texts, text)) = RowsOf(texts) \o After(ReaderStart, text).rows
<1> DEFINE Read(t) == After(ReaderStart, t).rows
           more == Append(texts, text)
           read == [i \in DOMAIN texts |-> Read(texts[i])]
           readMore == [i \in DOMAIN more |-> Read(more[i])]
           Row == Seq(Texts)
<1>1. \A t \in Texts : Read(t) \in Seq(Row)
  BY TextsAre, AfterType DEF Readers
<1>2. /\ Len(texts) \in Nat /\ DOMAIN texts = 1..Len(texts)
      /\ \A i \in 1..Len(texts) : texts[i] \in Texts
      /\ more \in Seq(Texts) /\ Len(more) = Len(texts) + 1
      /\ DOMAIN more = 1..(Len(texts) + 1)
      /\ \A i \in 1..Len(texts) : more[i] = texts[i]
      /\ more[Len(texts) + 1] = text
  BY LenProperties, AppendProperties, ElementOfSeq
<1> HIDE DEF more, Read, Row
<1>3. read \in Seq(Seq(Row)) /\ Len(read) = Len(texts)
  BY <1>1, <1>2
<1>4. readMore = Append(read, Read(text))
  <2>1. /\ Append(read, Read(text)) \in Seq(Seq(Row))
        /\ Len(Append(read, Read(text))) = Len(texts) + 1
        /\ \A i \in 1..Len(texts) : Append(read, Read(text))[i] = read[i]
        /\ Append(read, Read(text))[Len(texts) + 1] = Read(text)
    BY <1>1, <1>3, AppendProperties
  <2>2. readMore \in Seq(Seq(Row)) /\ Len(readMore) = Len(texts) + 1
    BY <1>1, <1>2
  <2>3. \A i \in 1..(Len(texts) + 1) : readMore[i] = Append(read, Read(text))[i]
    BY <1>2, <2>1
  <2> HIDE DEF read, readMore
  <2> QED
    BY <2>1, <2>2, <2>3, SeqEqual
<1>5. RowsOf(texts) = FlattenSeq(read) /\ RowsOf(more) = FlattenSeq(readMore)
  BY DEF RowsOf, Read
<1> HIDE DEF read, readMore
<1>6. /\ FlattenSeq(read) \in Seq(Row)
      /\ FlattenSeq(readMore) = FlattenSeq(read) \o Read(text)
  BY <1>1, <1>3, <1>4, FlattenType, FlattenAppend
<1>7. Read(text) \in Seq(Row)
  BY <1>1
<1> QED
  BY <1>5, <1>6, <1>7 DEF more, Read, Row

\* The parts are the closed ones and the one that is written.
LEMMA PartsAre ==
  ASSUME TypeOK
  PROVE  /\ Closed \in Seq(Texts) /\ Current \in Texts
         /\ Held \in Texts /\ Whole \in Texts
         /\ parts = Append(Closed, Current)
         /\ Len(Closed) = Len(parts) - 1 /\ Len(parts) \in Nat \ {0}
         /\ \A i \in 1..(Len(parts) - 1) : Closed[i] = parts[i]
<1>1. /\ parts \in Seq(Texts) /\ Len(parts) \in Nat \ {0}
      /\ kept \in Texts /\ buffer \in Texts
  BY LenProperties DEF TypeOK
<1>2. Len(parts) \in 1..Len(parts) /\ Len(parts) - 1 \in 0..Len(parts)
  BY <1>1
<1>3. Closed \in Seq(Texts) /\ Len(Closed) = Len(parts) - 1
  BY <1>1, <1>2, PrefixMore DEF Closed
<1>4. Current \in Texts
  BY <1>1, <1>2, ElementOfSeq DEF Current
<1>5. Held \in Texts /\ Whole \in Texts
  BY <1>1, <1>4, ConcatProperties DEF Held, Whole, Texts
<1>6. parts = Append(Closed, Current)
  BY <1>1, <1>2, PrefixMore DEF Closed, Current
<1>7. \A i \in 1..(Len(parts) - 1) : Closed[i] = parts[i]
  BY <1>1, <1>3, <1>6, AppendProperties
<1> QED
  BY <1>1, <1>3, <1>4, <1>5, <1>6, <1>7

\* Parts that end with another text.
LEMMA PartsBecome ==
  ASSUME NEW texts \in Seq(Texts), NEW text \in Texts, parts' = Append(texts, text)
  PROVE  /\ parts' \in Seq(Texts) /\ Len(parts') # 0
         /\ Closed' = texts /\ Current' = text
<1>1. /\ Len(texts) \in Nat /\ parts' \in Seq(Texts) /\ Len(parts') = Len(texts) + 1
      /\ \A i \in 1..Len(texts) : parts'[i] = texts[i]
      /\ parts'[Len(texts) + 1] = text
  BY LenProperties, AppendProperties
<1>2. Current' = text
  BY <1>1 DEF Current
<1>3. Closed' = SubSeq(parts', 1, Len(texts))
  BY <1>1 DEF Closed
<1>4. SubSeq(parts', 1, Len(texts)) = texts
  <2> DEFINE p == parts'
             s == SubSeq(p, 1, Len(texts))
  <2>1. p \in Seq(Texts) /\ \A i \in 1..Len(texts) : p[i] \in Texts
    BY <1>1, ElementOfSeq
  <2>2. s \in Seq(Texts) /\ Len(s) = Len(texts) /\ \A i \in 1..Len(texts) : s[i] = p[i]
    <3> HIDE DEF p
    <3> QED  BY <1>1, <2>1, SubSeqProperties
  <2> HIDE DEF s
  <2> QED  BY <1>1, <2>2, SeqEqual
<1> QED
  BY <1>1, <1>2, <1>3, <1>4

\* What goes to the device goes to the last part.
LEMMA OnDeviceIs ==
  ASSUME TypeOK, NEW text \in Texts
  PROVE  /\ OnDevice(text) = Append(Closed, Current \o text)
         /\ Current \o text \in Texts
<1>1. /\ Closed \in Seq(Texts) /\ Current \in Texts /\ Len(Closed) = Len(parts) - 1
      /\ Len(parts) \in Nat \ {0} /\ \A i \in 1..(Len(parts) - 1) : Closed[i] = parts[i]
      /\ parts \in Seq(Texts)
  BY PartsAre DEF TypeOK
<1>2. Current \o text \in Texts
  BY <1>1, ConcatProperties DEF Texts
<1> DEFINE p == OnDevice(text)
           q == Append(Closed, Current \o text)
<1>3. /\ q \in Seq(Texts) /\ Len(q) = Len(parts)
      /\ \A i \in 1..(Len(parts) - 1) : q[i] = Closed[i]
      /\ q[Len(parts)] = Current \o text
  BY <1>1, <1>2, AppendProperties
<1>4. /\ p \in Seq(Texts) /\ Len(p) = Len(parts)
      /\ \A i \in 1..(Len(parts) - 1) : p[i] = parts[i]
      /\ p[Len(parts)] = Current \o text
  <2>1. parts \in [1..Len(parts) -> Texts] /\ Len(parts) \in 1..Len(parts)
    BY <1>1
  <2>2. p \in [1..Len(parts) -> Texts]
    BY <1>2, <2>1 DEF OnDevice, Current
  <2> QED
    BY <1>1, <2>1, <2>2 DEF OnDevice, Current
<1>5. ASSUME NEW i \in 1..Len(parts) PROVE p[i] = q[i]
  <2> HIDE DEF p, q
  <2>1. CASE i = Len(parts)
    BY <1>3, <1>4, <2>1
  <2>2. CASE i # Len(parts)
    <3>1. i \in 1..(Len(parts) - 1)
      BY <1>1, <2>2
    <3> QED  BY <1>1, <1>3, <1>4, <3>1
  <2> QED  BY <2>1, <2>2
<1> HIDE DEF p, q
<1>6. p = q
  BY <1>1, <1>3, <1>4, <1>5, SeqEqual
<1> QED
  BY <1>2, <1>6 DEF p, q

-----------------------------------------------------------------------------
(* The invariant holds of every state.                                     *)

LEMMA InitGood == Init => Good
<1> SUFFICES ASSUME Init PROVE Good
  OBVIOUS
<1> DEFINE bom == <<"bom">>
           header == <<"header">>
<1> DEFINE first == IF isFile THEN <<>> ELSE bom
<1>1. /\ parts = Append(<<>>, first) /\ buffer = header
      /\ kept = IF isFile THEN bom ELSE <<>>
  BY DEF Init
<1>2. /\ bom \in Texts /\ header \in Texts /\ <<>> \in Seq(Texts)
      /\ first \in Texts /\ kept \in Texts
  BY <1>1, TextsAre, EmptySeq
<1>3. BomSize \in Nat /\ HeaderSize \in Nat /\ Limit \in Nat /\ BomSize <= Limit
  BY CsvAssumption DEF BomSize
<1>4. rows \in Seq(RowSet)
  <2>1. PICK n \in 0..MaxRows : rows \in [1..n -> RowSet]
    BY DEF Init, RowSet
  <2> QED  BY <2>1
<1> HIDE DEF bom, header, first
<1>5. parts \in Seq(Texts) /\ Len(parts) # 0
  BY <1>1, <1>2, AppendProperties
<1>6. TypeOK
  <2>1. Len(rows) \in Nat
    BY <1>4
  <2>2. isFile \in BOOLEAN /\ failed \in BOOLEAN /\ stage = "rows"
        /\ next = 1 /\ written = BomSize
    BY DEF Init
  <2> QED  BY <1>1, <1>2, <1>3, <1>4, <1>5, <2>1, <2>2 DEF TypeOK
<1>7. Closed = <<>> /\ Current = first
  <2>1. Len(<<>>) = 0 /\ Len(parts) = 1 /\ parts[1] = first
    BY <1>1, <1>2, AppendProperties
  <2> QED  BY <1>5, <2>1, PrefixMore DEF Closed, Current
<1>8. Whole = <<"bom">> \o <<"header">>
  <2>1. <<>> \o (bom \o header) = bom \o header /\ <<>> \o header = header
    BY <1>2, ConcatProperties, ConcatEmptySeq DEF Texts
  <2> QED BY <1>1, <1>7, <2>1 DEF Held, Whole, first, bom, header
<1>9. ReadSoFar
  <2>1. After(ReaderStart, Whole) = Reader("between", <<>>, <<>>, <<>>)
    BY <1>8, HeaderRead
  <2>2. Reader("between", <<>>, <<>>, <<>>).rows = <<>>
    BY DEF Reader
  <2>3. RowsOf(Closed) = <<>>
    BY <1>7, FlattenNone DEF RowsOf
  <2>4. <<>> \o <<>> = <<>>
    <3>1. <<>> \in Seq({})
      BY EmptySeq
    <3> QED  BY <3>1, ConcatEmptySeq
  <2>5. Readable(next - 1) = <<>>
    BY DEF Init, Readable
  <2> QED  BY <2>1, <2>2, <2>3, <2>4, <2>5 DEF ReadSoFar
<1>10. Drained
  BY DEF Init, Drained
<1>11. Counted
  BY <1>3, <1>8, HeaderRead DEF Init, Counted
<1>12. ClosedOver
  BY <1>7 DEF ClosedOver
<1> QED
  BY <1>6, <1>9, <1>10, <1>11, <1>12 DEF Good

\* A step that only moves text to the device.
LEMMA WholeKept ==
  ASSUME Good, Closed' = Closed, Whole' = Whole,
         UNCHANGED <<rows, isFile, written, next>>,
         stage' \in {stage, "returned", "killed"}
  PROVE  ReadSoFar' /\ Counted' /\ ClosedOver'
<1>1. ReadSoFar'
  BY DEF Good, ReadSoFar, Readable
<1>2. Counted'
  BY DEF Good, Counted, AtMostOneRowOver
<1>3. ClosedOver'
  BY DEF Good, ClosedOver, AtMostOneRowOver
<1> QED
  BY <1>1, <1>2, <1>3

LEMMA Assoc ==
  ASSUME NEW s \in Texts, NEW t \in Texts, NEW u \in Texts
  PROVE  (s \o t) \o u = s \o (t \o u)
BY ConcatAssociative DEF Texts

\* A text is what is before some place of it, and what is after.
LEMMA CutIs ==
  ASSUME NEW text \in Texts, NEW n \in 0..Len(text)
  PROVE  /\ SubSeq(text, 1, n) \in Texts
         /\ SubSeq(text, n + 1, Len(text)) \in Texts
         /\ text = SubSeq(text, 1, n) \o SubSeq(text, n + 1, Len(text))
<1> DEFINE front == SubSeq(text, 1, n)
           rest == SubSeq(text, n + 1, Len(text))
<1>1. /\ text \in Seq(Symbols) /\ Len(text) \in Nat /\ n \in Nat /\ n <= Len(text)
      /\ \A i \in 1..Len(text) : text[i] \in Symbols
  BY LenProperties, ElementOfSeq DEF Texts
<1>2. /\ front \in Seq(Symbols) /\ Len(front) = n
      /\ \A i \in 1..n : front[i] = text[i]
  BY <1>1
<1>3. /\ rest \in Seq(Symbols) /\ Len(rest) = Len(text) - n
      /\ \A i \in 1..(Len(text) - n) : rest[i] = text[n + i]
  BY <1>1
<1> HIDE DEF front, rest
<1>4. /\ front \o rest \in Seq(Symbols) /\ Len(front \o rest) = Len(front) + Len(rest)
      /\ \A i \in 1..(Len(front) + Len(rest)) :
           (front \o rest)[i] = IF i <= Len(front) THEN front[i] ELSE rest[i - Len(front)]
  BY <1>2, <1>3, ConcatProperties, Zenon
<1> DEFINE both == front \o rest
<1> HIDE DEF both
<1>5. /\ both \in Seq(Symbols) /\ Len(both) = Len(text)
      /\ \A i \in 1..Len(text) : both[i] = IF i <= n THEN front[i] ELSE rest[i - n]
  BY <1>1, <1>2, <1>3, <1>4 DEF both
<1>6. ASSUME NEW i \in 1..Len(text) PROVE both[i] = text[i]
  <2>1. CASE i <= n
    BY <1>1, <1>2, <1>5, <2>1
  <2>2. CASE ~(i <= n)
    <3>1. i - n \in 1..(Len(text) - n) /\ n + (i - n) = i
      BY <1>1, <2>2
    <3> QED BY <1>3, <1>5, <2>2, <3>1
  <2> QED BY <2>1, <2>2
<1>7. both = text
  BY <1>1, <1>5, <1>6, SeqEqual
<1> QED BY <1>2, <1>3, <1>7 DEF front, rest, both, Texts

\* A step that moves the first of what is held to the device.
LEMMA MovesGood ==
  ASSUME Good, NEW out \in Texts, parts' = OnDevice(out),
         kept' \in Texts, buffer' \in Texts, Held = out \o Held', failed' \in BOOLEAN,
         Drained', stage' \in {stage, "returned"},
         UNCHANGED <<rows, isFile, written, next>>
  PROVE  Good'
<1>1. /\ TypeOK /\ Closed \in Seq(Texts) /\ Current \in Texts
      /\ Held \in Texts /\ Held' \in Texts
  BY PartsAre, ConcatProperties DEF Good, Held, Texts
<1>2. parts' = Append(Closed, Current \o out) /\ Current \o out \in Texts
  BY <1>1, OnDeviceIs
<1>3. /\ parts' \in Seq(Texts) /\ Len(parts') # 0
      /\ Closed' = Closed /\ Current' = Current \o out
  BY <1>1, <1>2, PartsBecome
<1>4. Whole' = Whole
  <2>3. PICK left \in Texts : left = Held'
    BY <1>1
  <2>1. Whole' = (Current \o out) \o left
    BY <1>3, <2>3 DEF Whole
  <2>2. Whole = Current \o (out \o left)
    BY <2>3 DEF Whole
  <2>4. (Current \o out) \o left = Current \o (out \o left)
    <3>1. \A c \in Texts : (c \o out) \o left = c \o (out \o left)
      BY ONLY Assoc, out \in Texts, left \in Texts, Zenon
    <3> QED BY <1>1, <3>1, Zenon
  <2> QED  BY <2>1, <2>2, <2>4
<1>5. TypeOK'
  BY <1>1, <1>3 DEF TypeOK
<1>6. ReadSoFar' /\ Counted' /\ ClosedOver'
  BY <1>3, <1>4, WholeKept
<1> QED
  BY <1>5, <1>6 DEF Good

\* The stream hands on a text, all that it holds or all but the rest.
LEMMA FlushedIs ==
  ASSUME Good, NEW text \in Texts, NEW rest \in Texts, buffer = text \o rest,
         Flushed(text), buffer' = rest
  PROVE  /\ kept \o text \in Texts /\ parts' = OnDevice(kept \o text)
         /\ kept' \in Texts /\ buffer' \in Texts
         /\ Held' = rest /\ Held = (kept \o text) \o Held'
<1>1. kept \in Texts /\ <<>> \in Texts
  BY TextsAre DEF Good, TypeOK
<1>2. kept \o text \in Texts
  BY <1>1, ConcatProperties DEF Texts
<1>3. Held' = rest
  BY ConcatEmptySeq DEF Held, Flushed, Texts
<1>4. Held = (kept \o text) \o rest
  <2>1. (kept \o text) \o rest = kept \o (text \o rest)
    BY <1>1, Assoc, Zenon
  <2> QED BY <2>1 DEF Held
<1> QED BY <1>1, <1>2, <1>3, <1>4 DEF Flushed

LEMMA AllIs ==
  ASSUME TypeOK
  PROVE  <<>> \in Texts /\ buffer \in Texts /\ buffer = buffer \o <<>>
BY TextsAre, ConcatEmptySeq DEF TypeOK, Texts

LEMMA SpillGood ==
  ASSUME Good, Spill
  PROVE  Good'
<1>1. TypeOK /\ buffer \in Texts
  BY DEF Good, TypeOK
<1>2. PICK out \in Texts, left \in Texts :
        Flushed(out) /\ buffer' = left /\ buffer = out \o left
  <2>1. CASE Flushed(buffer) /\ buffer' = <<>>
    BY <1>1, <2>1, AllIs
  <2>2. CASE /\ Last(buffer) = "newline"
             /\ Flushed(Front(buffer)) /\ buffer' = <<"newline">>
    <3>1. Len(buffer) \in Nat /\ Len(buffer) # 0
      <4>1. buffer # <<>>
        BY DEF Spill
      <4> QED  BY <1>1, <4>1, EmptySeq, LenProperties DEF Texts
    <3>2. Front(buffer) = SubSeq(buffer, 1, Len(buffer) - 1)
      BY DEF Front
    <3>3. buffer[Len(buffer)] = "newline"
      BY <2>2 DEF Last
    <3>4. /\ SubSeq(buffer, 1, Len(buffer) - 1) \in Seq(Symbols)
          /\ buffer = Append(SubSeq(buffer, 1, Len(buffer) - 1), "newline")
      <4>1. Len(buffer) \in 1..Len(buffer) /\ Len(buffer) - 1 \in 0..Len(buffer)
        BY <3>1
      <4> QED  BY <1>1, <3>3, <4>1, PrefixMore DEF Texts
    <3>5. "newline" \in Symbols
      BY DEF Symbols, Chars
    <3>6. Front(buffer) \in Texts /\ <<"newline">> \in Texts
          /\ buffer = Front(buffer) \o <<"newline">>
      BY <3>2, <3>4, <3>5, AppendIs DEF Texts
    <3> QED  BY <2>2, <3>6
  <2> QED
    BY <2>1, <2>2 DEF Spill
<1>3. /\ kept \o out \in Texts /\ parts' = OnDevice(kept \o out)
      /\ kept' \in Texts /\ buffer' \in Texts /\ Held = (kept \o out) \o Held'
  BY <1>2, FlushedIs
<1>4. /\ UNCHANGED <<rows, isFile, failed, written, next, stage>>
      /\ stage \in {"rows", "over"}
  BY DEF Spill
<1>5. Drained' /\ failed' \in BOOLEAN
  BY <1>1, <1>4 DEF Drained, TypeOK
<1> HIDE DEF Good
<1> QED
  BY <1>3, <1>4, <1>5, MovesGood

\* What a device takes of a text, and what it does not.
LEMMA TakesIs ==
  ASSUME NEW text \in Texts, NEW n \in 0..Len(text), Takes(text, n)
  PROVE  /\ SubSeq(text, 1, n) \in Texts /\ kept' \in Texts
         /\ text = SubSeq(text, 1, n) \o kept'
         /\ parts' = OnDevice(SubSeq(text, 1, n))
BY CutIs DEF Takes

LEMMA WriteFailsGood ==
  ASSUME Good, WriteFails
  PROVE  Good'
<1>1. TypeOK /\ Held \in Texts /\ Len(Held) \in Nat
  BY PartsAre, LenProperties DEF Good, Texts
<1>2. PICK n \in 0..(Len(Held) - 1) : Takes(Held, n)
  BY DEF WriteFails, Held
<1>3. n \in 0..Len(Held)
  BY <1>1
<1> DEFINE out == SubSeq(Held, 1, n)
<1>4. /\ out \in Texts /\ kept' \in Texts /\ Held = out \o kept'
      /\ parts' = OnDevice(out)
  BY <1>1, <1>2, <1>3, TakesIs
<1>5. /\ UNCHANGED <<rows, isFile, written, next, stage>>
      /\ buffer' = <<>> /\ failed'
  BY DEF WriteFails
<1>6. Held' = kept' /\ buffer' \in Texts
  BY <1>4, <1>5, TextsAre, ConcatEmptySeq DEF Held, Texts
<1>7. Drained' /\ failed' \in BOOLEAN
  BY <1>5 DEF Drained, WriteFails
<1> HIDE DEF out
<1> QED
  BY <1>4, <1>5, <1>6, <1>7, MovesGood

\* The last flush, of an export that ends or that cannot open the next part.
LEMMA ReturnGood ==
  ASSUME Good, SplitFails \/ Finish
  PROVE  Good'
<1>1. TypeOK /\ kept \in Texts /\ buffer \in Texts /\ Len(kept) \in Nat
  BY LenProperties DEF Good, TypeOK, Texts
<1>2. stage' = "returned" /\ UNCHANGED <<rows, isFile, failed, written, next>>
  BY DEF SplitFails, Finish
<1>3. CASE ~failed
  <2>1. Flushed(buffer) /\ buffer' = <<>>
    BY <1>3 DEF SplitFails, Finish
  <2>2. /\ kept \o buffer \in Texts /\ parts' = OnDevice(kept \o buffer)
        /\ kept' \in Texts /\ buffer' \in Texts /\ Held' = <<>>
        /\ Held = (kept \o buffer) \o Held'
    BY <1>1, <2>1, AllIs, FlushedIs
  <2>3. Drained' /\ failed' \in BOOLEAN
    BY <1>1, <1>2, <2>2 DEF Drained, TypeOK
  <2> QED BY <1>2, <2>2, <2>3, MovesGood
<1>4. CASE failed /\ SplitFails
  <2>1. PICK n \in 0..Len(kept) : Takes(kept, n)
    BY <1>4 DEF SplitFails
  <2> DEFINE out == SubSeq(kept, 1, n)
  <2>2. /\ out \in Texts /\ kept' \in Texts /\ kept = out \o kept'
        /\ parts' = OnDevice(out) /\ buffer' = buffer
    BY <1>1, <1>4, <2>1, TakesIs DEF SplitFails
  <2> HIDE DEF out
  <2>0. PICK rest \in Texts : rest = kept'
    BY <2>2
  <2>3. Held' = rest \o buffer /\ Held = (out \o rest) \o buffer
    BY <2>0, <2>2 DEF Held
  <2>4. Held = out \o Held'
    <3>1. \A o, r, b \in Texts : (o \o r) \o b = o \o (r \o b)
      BY Assoc, Zenon
    <3>2. out \in Texts /\ rest \in Texts /\ buffer \in Texts
      BY <1>1, <2>2
    <3>3. (out \o rest) \o buffer = out \o (rest \o buffer)
      BY <3>1, <3>2, Zenon
    <3> QED BY <2>3, <3>3
  <2>5. Drained' /\ failed' \in BOOLEAN /\ buffer' \in Texts
    BY <1>1, <1>2, <1>4, <2>2 DEF Drained, TypeOK
  <2> QED BY <1>2, <2>2, <2>4, <2>5, MovesGood
<1>5. CASE failed /\ Finish
  <2>1. UNCHANGED <<parts, kept, buffer>>
    BY <1>5 DEF Finish
  <2>2. Closed' = Closed /\ Whole' = Whole
    BY <2>1 DEF Closed, Whole, Held, Current
  <2>3. ReadSoFar' /\ Counted' /\ ClosedOver'
    BY <1>2, <2>2, WholeKept
  <2>4. TypeOK' /\ Drained'
    BY <1>1, <1>2, <1>5, <2>1 DEF TypeOK, Drained
  <2> QED BY <2>3, <2>4 DEF Good
<1> QED
  BY <1>1, <1>3, <1>4, <1>5 DEF TypeOK

LEMMA WriteRowGood ==
  ASSUME Good, WriteRow
  PROVE  Good'
<1> DEFINE row == rows[next]
           line == Line(row)
           seen == After(ReaderStart, Whole).rows
<1>1. /\ TypeOK /\ Closed \in Seq(Texts) /\ Current \in Texts /\ Whole \in Texts
      /\ kept \in Texts /\ buffer \in Texts /\ Held \in Texts
      /\ rows \in Seq(RowSet) /\ next \in Nat /\ Len(rows) \in Nat
  BY PartsAre, LenProperties DEF Good, TypeOK
<1>2. next \in 1..Len(rows) /\ row \in RowSet
  <2>1. next \in 1..Len(rows)
    BY <1>1 DEF Good, TypeOK, WriteRow
  <2> QED  BY <1>1, <2>1, ElementOfSeq
<1>3. line \in Seq(Chars) /\ line \in Texts /\ Len(line) \in Nat
  BY <1>2, RowRead, TextsAre, LenProperties
<1>4. /\ buffer' = buffer \o line /\ written' = written + Len(line)
      /\ stage' = IF Over(written + Len(line)) THEN "over" ELSE "rows"
      /\ next' = next + 1 /\ stage = "rows"
      /\ UNCHANGED <<rows, isFile, parts, kept, failed>>
  BY DEF WriteRow
<1>5. Closed' = Closed /\ Current' = Current
  BY <1>4 DEF Closed, Current
<1> HIDE DEF line, row
<1>6. Whole' = Whole \o line
  <2>0. Held' = Held \o line
    <3>1. (kept \o buffer) \o line = kept \o (buffer \o line)
      BY <1>1, <1>3, Assoc, Zenon
    <3> QED BY <1>4, <3>1 DEF Held
  <2>1. Whole' = Current \o (Held \o line)
    BY <1>5, <2>0 DEF Whole
  <2>2. Whole \o line = Current \o (Held \o line)
    <3>1. (Current \o Held) \o line = Current \o (Held \o line)
      <4>1. Current \in Texts /\ Held \in Texts /\ line \in Texts
        BY <1>1, <1>3
      <4> QED  BY ONLY <4>1, Assoc, Zenon
    <3> QED BY <3>1 DEF Whole
  <2> QED  BY <2>1, <2>2
<1>7. TypeOK'
  <2>1. buffer' \in Texts
    BY <1>1, <1>3, <1>4, ConcatProperties DEF Texts
  <2>2. written' \in Nat
    BY <1>1, <1>3, <1>4 DEF TypeOK
  <2>3. next' \in Nat /\ next' >= 1 /\ next' <= Len(rows) + 1
    BY <1>2, <1>4
  <2> QED
    BY <1>1, <1>4, <2>1, <2>2, <2>3 DEF TypeOK
<1>8. ReadSoFar'
  <2>1. seen \in Seq(Seq(Texts)) /\ RowsOf(Closed) \in Seq(Seq(Texts))
    BY <1>1, RowsOfMore
  <2>2. After(ReaderStart, Whole) = Reader("between", <<>>, <<>>, seen)
    BY DEF Good, ReadSoFar
  <2>3. RowsOf(Closed) \o seen = Readable(next - 1)
    BY DEF Good, ReadSoFar
  <2> HIDE DEF seen
  <2>4. After(ReaderStart, Whole \o line)
          = Reader("between", <<>>, <<>>, Append(seen, Clean(row)))
    <3>1. After(Reader("between", <<>>, <<>>, seen), line)
            = Reader("between", <<>>, <<>>, Append(seen, Clean(row)))
      BY <1>2, RowRead DEF line
    <3> QED
      BY <1>1, <1>3, <2>2, <3>1, AfterBoth DEF Texts
  <2>5. After(ReaderStart, Whole').rows = Append(seen, Clean(row))
    BY <1>6, <2>4 DEF Reader
  <2>6. Clean(row) \in Seq(Texts)
    BY <1>2, RowType
  <2>7. RowsOf(Closed) \o Append(seen, Clean(row)) = Append(Readable(next - 1), Clean(row))
    <3> DEFINE S == Seq(Texts)
               old == RowsOf(Closed)
               one == <<Clean(row)>>
               c == Clean(row)
    <3>1. old \in Seq(S) /\ seen \in Seq(S) /\ c \in S
      BY <2>1, <2>6
    <3> HIDE DEF S, old, c
    <3>2. one \in Seq(S) /\ Append(seen, c) = seen \o one
      BY <3>1, AppendIs DEF c
    <3>3. old \o seen \in Seq(S)
      BY <3>1, ConcatProperties
    <3>4. Append(old \o seen, c) = (old \o seen) \o one
      BY <3>1, <3>3, AppendIs DEF c
    <3> HIDE DEF one
    <3>5. (old \o seen) \o one = old \o (seen \o one)
      BY <3>1, <3>2, ConcatAssociative
    <3>6. old \o Append(seen, c) = Append(old \o seen, c)
      BY <3>2, <3>4, <3>5
    <3> QED  BY <2>3, <3>6 DEF old, c
  <2>8. Append(Readable(next - 1), Clean(row)) = Readable(next)
    <3> DEFINE S == Seq(Texts)
               before == Readable(next - 1)
               after == Readable(next)
    <3>1. \A i \in 1..next : rows[i] \in RowSet /\ Clean(rows[i]) \in S
      <4>1. \A i \in 1..next : rows[i] \in RowSet
        BY <1>1, <1>2, ElementOfSeq
      <4> QED  BY <4>1, RowType
    <3>2. /\ before = [i \in 1..(next - 1) |-> Clean(rows[i])]
          /\ after = [i \in 1..next |-> Clean(rows[i])]
      BY DEF Readable, Clean
    <3> HIDE DEF S, before, after
    <3>3. before \in Seq(S) /\ Len(before) = next - 1
      BY <1>2, <3>1, <3>2
    <3>4. after \in Seq(S) /\ Len(after) = next
      BY <1>2, <3>1, <3>2
    <3>5. /\ Append(before, Clean(row)) \in Seq(S)
          /\ Len(Append(before, Clean(row))) = next
          /\ \A i \in 1..(next - 1) : Append(before, Clean(row))[i] = before[i]
          /\ Append(before, Clean(row))[next] = Clean(row)
      <4>1. Clean(row) \in S
        BY <2>6 DEF S
      <4> QED  BY <1>2, <3>3, <4>1, AppendProperties
    <3>6. ASSUME NEW i \in 1..next
          PROVE  Append(before, Clean(row))[i] = after[i]
      <4>1. CASE i = next
        BY <3>2, <3>5, <4>1 DEF row
      <4>2. CASE i # next
        <5>1. i \in 1..(next - 1)
          BY <1>2, <4>2
        <5> QED  BY <3>2, <3>5, <5>1
      <4> QED  BY <4>1, <4>2
    <3>7. Append(before, Clean(row)) = after
      BY <3>4, <3>5, <3>6, SeqEqual
    <3> QED  BY <3>7 DEF before, after
  <2>9. Readable(next - 1)' = Readable(next)
    <3>1. next' - 1 = next
      BY <1>1, <1>4
    <3> QED  BY <1>4, <3>1 DEF Readable
  <2>10. /\ ReadSoFar' = (/\ After(ReaderStart, Whole') =
                              Reader("between", <<>>, <<>>, After(ReaderStart, Whole').rows)
                          /\ RowsOf(Closed') \o After(ReaderStart, Whole').rows =
                              Readable(next - 1)')
    BY DEF ReadSoFar
  <2> QED
    BY <1>5, <1>6, <2>4, <2>5, <2>7, <2>8, <2>9, <2>10
<1>9. Drained'
  BY <1>4 DEF Drained
<1>10. Counted'
  <2>1. SizeOf(Whole)' = SizeOf(Whole) + Len(line)
    BY <1>1, <1>3, <1>6, SizeBoth DEF Texts
  <2>2. written \in Nat /\ HeaderSize \in Nat /\ Limit \in Nat
    BY <1>1, CsvAssumption DEF TypeOK
  <2>3. SizeOf(Whole) = written + HeaderSize /\ (isFile => written <= Limit)
    BY <1>4 DEF Good, Counted
  <2>4. SizeOf(Whole)' = written' + HeaderSize
    BY <1>3, <1>4, <2>1, <2>2, <2>3
  <2>5. isFile => written' - Limit <= Len(line)
    BY <1>3, <1>4, <2>2, <2>3
  <2>6. next \in DOMAIN rows /\ line = Line(rows[next])
    BY <1>1, <1>2 DEF line, row
  <2>7. isFile => AtMostOneRowOver(written)'
    BY <1>4, <2>5, <2>6 DEF AtMostOneRowOver
  <2>8. stage' = "over" <=> isFile /\ written' > Limit
    BY <1>4 DEF Over
  <2>9. isFile' = isFile /\ written' \in Nat
    BY <1>3, <1>4, <2>2
  <2> QED
    BY <1>4, <2>2, <2>4, <2>7, <2>8, <2>9 DEF Counted
<1>11. ClosedOver'
  BY <1>4, <1>5 DEF Good, ClosedOver, AtMostOneRowOver
<1> QED
  BY <1>7, <1>8, <1>9, <1>10, <1>11 DEF Good

LEMMA SplitGood ==
  ASSUME Good, Split
  PROVE  Good'
<1> DEFINE bom == <<"bom">>
           header == <<"header">>
           closed == Append(Closed, Whole)
           seen == After(ReaderStart, Whole).rows
<1>1. /\ TypeOK /\ Closed \in Seq(Texts) /\ Current \in Texts /\ Whole \in Texts
      /\ buffer \in Texts
  BY PartsAre DEF Good, TypeOK
<1>2. bom \in Texts /\ header \in Texts /\ <<>> \in Texts
  BY TextsAre
<1>3. /\ parts' = Append(closed, <<>>) /\ kept' = bom /\ buffer' = header
      /\ failed' = FALSE
  <2>1. OnDevice(kept \o buffer) = closed
    <3>1. Held \in Texts
      BY <1>1, PartsAre
    <3> QED BY <1>1, <3>1, OnDeviceIs DEF Whole, Held
  <2> QED  BY <2>1 DEF Split, Opens
<1>4. /\ closed \in Seq(Texts) /\ Len(closed) = Len(Closed) + 1 /\ Len(Closed) \in Nat
      /\ \A i \in 1..Len(Closed) : closed[i] = Closed[i]
      /\ closed[Len(Closed) + 1] = Whole
  BY <1>1, AppendProperties, LenProperties
<1>5. UNCHANGED <<rows, isFile, next>> /\ written' = BomSize /\ stage' = "rows"
      /\ stage = "over"
  BY DEF Split, Opens
<1> HIDE DEF bom, header, closed
<1>6. /\ parts' \in Seq(Texts) /\ Len(parts') # 0
      /\ Closed' = closed /\ Current' = <<>>
  BY <1>2, <1>3, <1>4, PartsBecome
<1>7. Whole' = <<"bom">> \o <<"header">>
  <2>1. bom \o header \in Texts
    BY <1>2, ConcatProperties DEF Texts
  <2>2. <<>> \o (bom \o header) = bom \o header
    BY <2>1, ConcatEmptySeq DEF Texts
  <2> QED BY <1>3, <1>6, <2>2 DEF Held, Whole, bom, header
<1>8. BomSize \in Nat /\ HeaderSize \in Nat /\ Limit \in Nat /\ BomSize <= Limit
  BY CsvAssumption DEF BomSize
<1>9. TypeOK'
  BY <1>1, <1>2, <1>3, <1>5, <1>6, <1>8 DEF TypeOK
<1>10. ReadSoFar'
  <2>1. After(ReaderStart, Whole') = Reader("between", <<>>, <<>>, <<>>)
    BY <1>7, HeaderRead
  <2>2. Reader("between", <<>>, <<>>, <<>>).rows = <<>>
    BY DEF Reader
  <2>3. RowsOf(closed) = RowsOf(Closed) \o seen
    BY <1>1, RowsOfMore DEF closed
  <2>4. RowsOf(Closed) \o seen = Readable(next - 1)
    BY DEF Good, ReadSoFar
  <2>5. RowsOf(closed) \o <<>> = RowsOf(closed)
    <3>1. RowsOf(closed) \in Seq(Seq(Texts))
      BY <1>2, <1>4, RowsOfMore
    <3> QED  BY <3>1, ConcatEmptySeq
  <2>6. Readable(next - 1)' = Readable(next - 1)
    BY <1>5 DEF Readable
  <2> HIDE DEF seen
  <2> QED
    BY <1>6, <2>1, <2>2, <2>3, <2>4, <2>5, <2>6 DEF ReadSoFar
<1>11. Drained'
  BY <1>5 DEF Drained
<1>12. Counted'
  BY <1>5, <1>7, <1>8, HeaderRead DEF Counted
<1>13. ClosedOver'
  <2>1. written \in Nat
    BY <1>1 DEF TypeOK
  <2>2. /\ isFile /\ written > Limit /\ AtMostOneRowOver(written)
        /\ SizeOf(Whole) - HeaderSize = written
    BY <1>5, <1>8, <2>1 DEF Good, Counted
  <2>3. ASSUME NEW i \in DOMAIN closed
        PROVE  /\ SizeOf(closed[i]) - HeaderSize > Limit
               /\ AtMostOneRowOver(SizeOf(closed[i]) - HeaderSize)
    <3>1. i \in 1..(Len(Closed) + 1) /\ DOMAIN Closed = 1..Len(Closed)
      BY <1>1, <1>4
    <3>2. CASE i = Len(Closed) + 1
      BY <1>4, <2>2, <3>2
    <3>3. CASE i # Len(Closed) + 1
      <4>1. i \in DOMAIN Closed /\ closed[i] = Closed[i]
        BY <1>4, <3>1, <3>3
      <4> QED  BY <2>2, <4>1 DEF Good, ClosedOver
    <3> QED  BY <3>2, <3>3
  <2>4. \A size : AtMostOneRowOver(size)' = AtMostOneRowOver(size)
    BY <1>5 DEF AtMostOneRowOver
  <2> QED
    BY <1>5, <1>6, <2>3, <2>4 DEF ClosedOver, AtMostOneRowOver
<1> QED
  BY <1>9, <1>10, <1>11, <1>12, <1>13 DEF Good

LEMMA NextIInv == IInv /\ [Next]_vars => IInv'
<1> SUFFICES ASSUME IInv, [Next]_vars, ~hole' PROVE Good'
  BY DEF IInv
<1>0. ~hole /\ Good
  BY DEF IInv, Next, vars, Spill, WriteFails, WriteRow, Split, SplitAfterFailure,
         SplitFails, Finish, Killed
<1>1. CASE Spill
  BY <1>0, <1>1, SpillGood
<1>2. CASE WriteFails
  BY <1>0, <1>2, WriteFailsGood
<1>3. CASE WriteRow
  BY <1>0, <1>3, WriteRowGood
<1>4. CASE Split
  BY <1>0, <1>4, SplitGood
<1>5. CASE SplitAfterFailure
  BY <1>5 DEF SplitAfterFailure
<1>6. CASE SplitFails \/ Finish
  BY <1>0, <1>6, ReturnGood
<1>7. CASE Killed \/ UNCHANGED vars
  <2>1. /\ UNCHANGED <<rows, isFile, deviceVars, written, next>>
        /\ stage' \in {stage, "killed"}
    BY <1>7 DEF Killed, vars
  <2>2. Closed' = Closed /\ Whole' = Whole
    BY <2>1 DEF Closed, Whole, Held, Current, deviceVars
  <2>3. ReadSoFar' /\ Counted' /\ ClosedOver'
    BY <1>0, <2>1, <2>2, WholeKept
  <2>4. TypeOK' /\ Drained'
    BY <1>0, <2>1 DEF Good, TypeOK, Drained, Held, deviceVars
  <2> QED  BY <2>3, <2>4 DEF Good
<1> QED
  BY <1>1, <1>2, <1>3, <1>4, <1>5, <1>6, <1>7 DEF Next

LEMMA Invariance == Spec => []IInv
<1>1. Init => IInv
  BY InitGood DEF IInv
<1> QED BY <1>1, NextIInv, PTL DEF Spec

-----------------------------------------------------------------------------
(* The properties.                                                         *)

\* Every export that returns has put on the device, across all splits, every
\* row that it came to, and a reader has each in its own shape, without its
\* quotes (exportCsv, escapeCsvField, openNextFile), whatever the texts.
THEOREM RowsAreReadBack == Spec => []RowsReadBack
<1>1. IInv => RowsReadBack
  <2> SUFFICES ASSUME Good, stage = "returned", ~failed
               PROVE  ReadBack = Readable(next - 1)
    BY DEF IInv, RowsReadBack, Intact
  <2>1. /\ TypeOK /\ Closed \in Seq(Texts) /\ Current \in Texts
        /\ parts = Append(Closed, Current)
    BY PartsAre DEF Good
  <2>2. Whole = Current
    <3>1. Current \o <<>> = Current
      BY <2>1, ConcatEmptySeq DEF Texts
    <3> QED  BY <3>1 DEF Good, Drained, Whole
  <2>3. ReadBack = RowsOf(Closed) \o After(ReaderStart, Current).rows
    BY <2>1, RowsOfMore DEF ReadBack
  <2> QED
    BY <2>2, <2>3 DEF Good, ReadSoFar
<1> QED
  BY <1>1, Invariance, PTL

\* At any time, and so when the daemon is killed, a reader of what the device
\* has finds the first of the rows that were written and no broken one,
\* whatever the stream holds back (exportCsv).
THEOREM AlwaysPrefix == Spec => []AlwaysAPrefix
<1>1. IInv => AlwaysAPrefix
  <2> SUFFICES ASSUME Good PROVE AlwaysAPrefix
    BY DEF IInv, AlwaysAPrefix
  <2> DEFINE now == After(ReaderStart, Current)
             old == RowsOf(Closed)
             S == Seq(Texts)
  <2>1. /\ TypeOK /\ Closed \in Seq(Texts) /\ Current \in Texts /\ Held \in Texts
        /\ parts = Append(Closed, Current)
    BY PartsAre DEF Good, TypeOK
  <2>2. ReadBack = old \o now.rows
    BY <2>1, RowsOfMore DEF ReadBack
  <2>3. old \in Seq(S) /\ now.rows \in Seq(S)
    BY <2>1, RowsOfMore
  <2>4. After(ReaderStart, Whole) = After(now, Held)
    BY <2>1, AfterBoth DEF Whole, Texts
  <2>5. now \in Readers
    BY <2>1, AfterType, TextsAre
  <2> HIDE DEF now, old
  <2>6. PICK more \in Seq(S) : After(now, Held).rows = now.rows \o more
    BY <2>1, <2>5, AfterType
  <2>7. Readable(next - 1) = old \o After(ReaderStart, Whole).rows
    BY DEF Good, ReadSoFar, old
  <2> DEFINE read == now.rows
  <2>8. Readable(next - 1) = old \o (read \o more)
    BY <2>4, <2>6, <2>7
  <2> HIDE DEF S
  <2>9. read \in Seq(S)
    BY <2>3
  <2> HIDE DEF read
  <2>10. old \o (read \o more) = (old \o read) \o more
    BY <2>3, <2>6, <2>9, ConcatAssociative
  <2> DEFINE got == old \o read
             all == got \o more
  <2>11. got \in Seq(S) /\ all \in Seq(S)
    BY <2>3, <2>6, <2>9, ConcatProperties
  <2>12. ReadBack = got /\ Readable(next - 1) = all
    BY <2>2, <2>8, <2>10 DEF read
  <2> HIDE DEF got
  <2>13. IsPrefix(got, all)
    <3>1. /\ Len(got) \in Nat /\ Len(all) \in Nat /\ Len(got) <= Len(all)
          /\ \A i \in 1..Len(got) : all[i] = got[i]
      BY <2>6, <2>11, ConcatProperties, LenProperties
    <3> HIDE DEF all
    <3>2. SubSeq(all, 1, Len(got)) = SubSeq(got, 1, Len(got))
      <4>1. /\ \A i \in 1..Len(got) : all[i] \in S /\ got[i] \in S
        BY <2>11, <3>1, ElementOfSeq
      <4>2. /\ SubSeq(all, 1, Len(got)) \in Seq(S)
            /\ Len(SubSeq(all, 1, Len(got))) = Len(got)
            /\ \A i \in 1..Len(got) : SubSeq(all, 1, Len(got))[i] = all[i]
        BY <2>11, <3>1, <4>1, SubSeqProperties
      <4>3. SubSeq(all, 1, Len(got)) = got
        BY <2>11, <3>1, <4>2, SeqEqual
      <4> QED  BY <2>11, <4>3, PrefixMore
    <3> QED  BY <3>1, <3>2 DEF IsPrefix
  <2> QED
    BY <2>12, <2>13 DEF AlwaysAPrefix
<1> QED
  BY <1>1, Invariance, PTL

\* A part of a file that was closed is larger than the limit, without its
\* header, and no part is larger than that by more than one row (exportCsv,
\* openNextFile).
THEOREM SplitsAtLimit == Spec => []SplitAtLimit
<1>1. IInv => SplitAtLimit
  <2> SUFFICES ASSUME Good, isFile
               PROVE  \A i \in DOMAIN parts :
                        LET excess == SizeOf(parts[i]) - HeaderSize - Limit
                        IN  /\ i # Len(parts) => excess > 0
                            /\ excess > 0 => \E k \in DOMAIN rows :
                                               excess <= Len(Line(rows[k]))
    <3>1. Good => Len(parts) \in Nat \ {0} /\ DOMAIN parts = 1..Len(parts)
      BY PartsAre DEF Good, TypeOK
    <3> QED  BY <3>1 DEF IInv, SplitAtLimit
  <2> TAKE i \in DOMAIN parts
  <2>1. /\ TypeOK /\ Closed \in Seq(Texts) /\ Current \in Texts /\ Held \in Texts
        /\ Len(Closed) = Len(parts) - 1 /\ Len(parts) \in Nat \ {0}
        /\ \A k \in 1..(Len(parts) - 1) : Closed[k] = parts[k]
        /\ DOMAIN Closed = 1..Len(Closed) /\ DOMAIN parts = 1..Len(parts)
    BY PartsAre DEF Good, TypeOK
  <2>2. HeaderSize \in Nat /\ Limit \in Nat /\ written \in Nat
    BY <2>1, CsvAssumption DEF TypeOK
  <2>3. ASSUME NEW k \in DOMAIN rows PROVE Len(Line(rows[k])) \in Nat
    <3>1. rows[k] \in RowSet
      BY <2>1 DEF TypeOK
    <3> QED  BY <3>1, RowRead, LenProperties
  <2> DEFINE size == SizeOf(parts[i])
  <2>4. size \in Nat
    <3>1. parts[i] \in Seq(Symbols) /\ "bom" \in Symbols
      BY <2>1, ElementOfSeq DEF TypeOK, Texts, Symbols
    <3> QED  BY <3>1, SizeMore
  <2>5. CASE i # Len(parts)
    <3>1. i \in DOMAIN Closed /\ parts[i] = Closed[i]
      BY <2>1, <2>5
    <3>2. size - HeaderSize > Limit /\ AtMostOneRowOver(size - HeaderSize)
      BY <3>1 DEF Good, ClosedOver
    <3> HIDE DEF size
    <3> QED
      BY <2>2, <2>3, <2>4, <2>5, <3>2 DEF AtMostOneRowOver, size
  <2>6. CASE i = Len(parts)
    <3>1. size <= SizeOf(Whole)
      <4>1. SizeOf(Current) <= SizeOf(Current \o Held)
        BY <2>1, SizeBoth DEF Texts
      <4> QED  BY <2>6, <4>1 DEF Whole, Current
    <3>2. SizeOf(Whole) = written + HeaderSize
      BY DEF Good, Counted
    <3> HIDE DEF size
    <3>3. ASSUME size - HeaderSize - Limit > 0
          PROVE  \E k \in DOMAIN rows : size - HeaderSize - Limit <= Len(Line(rows[k]))
      <4>1. written > Limit
        BY <2>2, <2>4, <3>1, <3>2, <3>3
      <4>2. PICK k \in DOMAIN rows : written - Limit <= Len(Line(rows[k]))
        BY <4>1 DEF Good, Counted, AtMostOneRowOver
      <4> QED  BY <2>2, <2>3, <2>4, <3>1, <3>2, <4>2
    <3> QED
      BY <2>6, <3>3 DEF size
  <2> QED
    BY <2>5, <2>6
<1> QED
  BY <1>1, Invariance, PTL
=====
