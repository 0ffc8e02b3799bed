-------------------------- MODULE LineCodecProofs --------------------------
(***************************************************************************)
(* What holds of the line codec for any messages, any maximal length, any  *)
(* bytes of other writers and any pieces.                                  *)
(***************************************************************************)
EXTENDS LineCodec, FiniteSetTheorems, SequenceTheorems, WellFoundedInduction, TLAPS

USE DEF writer, decoder

\* ---- the lines of a sequence

\* Numbers are well founded: the induction that the lemmas on sequences below rest on.
LEMMA Smallest ==
    ASSUME NEW T, T \subseteq Nat, T # {}
    PROVE  \E x \in T : \A y \in T : x <= y
  <1>1. PICK R : R = {ss \in Nat \X Nat : ss[1] < ss[2]}
    OBVIOUS
  <1>2. IsWellFoundedOn(R, Nat)
    BY <1>1, NatLessThanWellFounded DEF OpToRel
  <1>3. PICK x \in T : \A y \in T : <<y, x>> \notin R
    BY <1>2, WFMin
  <1>4. ASSUME NEW y \in T, y < x
        PROVE  <<y, x>> \in R
    <2>1. x \in Nat /\ y \in Nat /\ <<y, x>> \in Nat \X Nat
      OBVIOUS
    <2>2. <<y, x>>[1] = y /\ <<y, x>>[2] = x
      OBVIOUS
    <2>. QED  BY <1>1, <1>4, <2>1, <2>2
  <1>5. \A y \in T : x \in Nat /\ y \in Nat /\ ~ (y < x)
    BY <1>3, <1>4
  <1>. QED  BY <1>5

Below(s, i) == {j \in Ends(s) : j <= i}

LEMMA EndsFinite ==
    ASSUME NEW S, NEW s \in Seq(S)
    PROVE  /\ Len(s) \in Nat /\ Ends(s) \subseteq 1 .. Len(s) /\ IsFiniteSet(Ends(s))
           /\ Cardinality(Ends(s)) \in Nat
           /\ \A i \in Nat : IsFiniteSet(Below(s, i)) /\ Number(s, i) \in Nat
                             /\ Number(s, i) = Cardinality(Below(s, i))
           /\ Number(s, Len(s)) = Cardinality(Ends(s)) /\ Number(s, 0) = 0
  <1>1. Len(s) \in Nat /\ DOMAIN s = 1 .. Len(s)
    BY LenProperties
  <1>2. Ends(s) \subseteq 1 .. Len(s)
    BY <1>1 DEF Ends
  <1>3. IsFiniteSet(1 .. Len(s))
    BY <1>1, FS_Interval
  <1>4. IsFiniteSet(Ends(s))
    BY <1>2, <1>3, FS_Subset
  <1>5. \A i \in Nat : IsFiniteSet(Below(s, i))
    BY <1>4, FS_Subset DEF Below
  <1>6. \A T : IsFiniteSet(T) => Cardinality(T) \in Nat
    BY FS_CardinalityType
  <1>7. \A i : Number(s, i) = Cardinality(Below(s, i))
    BY DEF Number, Below
  <1>8. Below(s, Len(s)) = Ends(s) /\ Below(s, 0) = {}
    BY <1>1, <1>2 DEF Below
  <1>. QED  BY <1>1, <1>2, <1>4, <1>5, <1>6, <1>7, <1>8, FS_EmptySet

\* Numbers grow, by one from an end of a line to the next.
LEMMA NumbersGrow ==
    ASSUME NEW S, NEW s \in Seq(S), NEW i \in Nat, NEW j \in Nat, i <= j
    PROVE  /\ Number(s, i) <= Number(s, j)
           /\ j \in Ends(s) /\ i < j => Number(s, i) < Number(s, j)
           /\ (\A k \in Ends(s) : k <= i \/ j < k) => Number(s, i) = Number(s, j)
  <1>1. /\ IsFiniteSet(Below(s, j)) /\ Number(s, i) = Cardinality(Below(s, i))
        /\ Number(s, j) = Cardinality(Below(s, j)) /\ Number(s, i) \in Nat /\ Number(s, j) \in Nat
        /\ Ends(s) \subseteq Nat
    BY EndsFinite
  <1>2. Below(s, i) \subseteq Below(s, j)
    BY <1>1 DEF Below
  <1>3. Number(s, i) <= Number(s, j) /\ (Number(s, i) = Number(s, j) => Below(s, i) = Below(s, j))
    BY <1>1, <1>2, FS_Subset
  <1>4. j \in Ends(s) /\ i < j => Below(s, i) # Below(s, j)
    BY DEF Below
  <1>5. (\A k \in Ends(s) : k <= i \/ j < k) => Below(s, i) = Below(s, j)
    BY <1>1 DEF Below
  <1>. QED  BY <1>1, <1>3, <1>4, <1>5

LEMMA NextNumber ==
    ASSUME NEW S, NEW s \in Seq(S), NEW i \in Nat, NEW e \in Ends(s), i < e,
           \A k \in Ends(s) : k <= i \/ e <= k
    PROVE  Number(s, e) = Number(s, i) + 1
  <1>1. /\ IsFiniteSet(Below(s, i)) /\ Number(s, i) = Cardinality(Below(s, i)) /\ e \in Nat
        /\ Number(s, e) = Cardinality(Below(s, e)) /\ Ends(s) \subseteq Nat
    BY EndsFinite
  <1>2. Below(s, e) = Below(s, i) \cup {e} /\ e \notin Below(s, i)
    BY <1>1 DEF Below
  <1>3. Cardinality(Below(s, i) \cup {e}) = Cardinality(Below(s, i)) + 1
    <2>1. IsFiniteSet(Below(s, i)) /\ e \notin Below(s, i)
      BY <1>1, <1>2
    <2>. QED  BY <2>1, FS_AddElement
  <1>. QED  BY <1>1, <1>2, <1>3

\* The k-th end has number k.
LEMMA EndIs ==
    ASSUME NEW S, NEW s \in Seq(S), NEW e \in Ends(s)
    PROVE  End(s, Number(s, e)) = e /\ Number(s, e) \in 1 .. Cardinality(Ends(s))
  <1>1. /\ Ends(s) \subseteq Nat /\ e <= Len(s) /\ e \in Nat \ {0} /\ Len(s) \in Nat /\ Number(s, 0) = 0
        /\ Number(s, Len(s)) = Cardinality(Ends(s)) /\ \A i \in Nat : Number(s, i) \in Nat
    BY EndsFinite
  <1>2. Number(s, e) <= Cardinality(Ends(s)) /\ 0 < Number(s, e)
    BY <1>1, NumbersGrow
  <1>3. ASSUME NEW f \in Ends(s), Number(s, f) = Number(s, e)
        PROVE  f = e
    <2>1. f \in Nat /\ e \in Nat /\ Number(s, e) \in Nat /\ Number(s, f) \in Nat
      BY <1>1
    <2>2. ~ (f < e) /\ ~ (e < f)
      BY <1>3, <2>1, NumbersGrow
    <2>. QED  BY <2>1, <2>2
  <1>4. End(s, Number(s, e)) = e
    BY <1>3 DEF End
  <1>. QED  BY <1>1, <1>2, <1>4

\* An end behind i is the first behind it or follows that.
LEMMA FirstEnd ==
    ASSUME NEW S, NEW s \in Seq(S), NEW i \in Nat, \E e \in Ends(s) : i < e
    PROVE  \E e \in Ends(s) : i < e /\ \A k \in Ends(s) : k <= i \/ e <= k
  <1>1. Ends(s) \subseteq Nat
    BY EndsFinite
  <1>2. PICK T : T = {e \in Ends(s) : i < e}
    OBVIOUS
  <1>3. PICK e \in T : \A k \in T : e <= k
    BY <1>1, <1>2, Smallest
  <1>. QED  BY <1>1, <1>2, <1>3

LEMMA EveryNumber ==
    ASSUME NEW S, NEW s \in Seq(S), NEW n \in 1 .. Cardinality(Ends(s))
    PROVE  \E e \in Ends(s) : Number(s, e) = n
  <1>1. /\ Ends(s) \subseteq Nat \ {0} /\ Cardinality(Ends(s)) \in Nat /\ Number(s, 0) = 0
        /\ Number(s, Len(s)) = Cardinality(Ends(s)) /\ Len(s) \in Nat
        /\ \A i \in Nat : Number(s, i) \in Nat /\ \A e \in Ends(s) : e <= Len(s)
    <2>1. Len(s) \in Nat /\ Ends(s) \subseteq 1 .. Len(s)
      BY EndsFinite
    <2>2. Ends(s) \subseteq Nat \ {0} /\ \A e \in Ends(s) : e <= Len(s)
      BY <2>1
    <2>3. /\ Cardinality(Ends(s)) \in Nat /\ Number(s, 0) = 0 /\ Number(s, Len(s)) = Cardinality(Ends(s))
          /\ \A i \in Nat : Number(s, i) \in Nat
      BY EndsFinite
    <2>. QED  BY <2>1, <2>2, <2>3
  <1>2. PICK T : T = {k \in 1 .. Cardinality(Ends(s)) : \A e \in Ends(s) : Number(s, e) # k}
    OBVIOUS
  <1>3. ASSUME T # {}
        PROVE  FALSE
    <2>1. T \subseteq Nat
      BY <1>2
    <2>2. PICK k \in T : \A m \in T : k <= m
      BY <1>3, <2>1, Smallest
    <2>3. k \in 1 .. Cardinality(Ends(s))
      BY <1>2
    <2>4. PICK i \in Nat : Number(s, i) = k - 1 /\ i <= Len(s)
      <3>1. CASE k = 1
        BY <1>1, <3>1
      <3>2. CASE k # 1
        <4>1. k - 1 \in 1 .. Cardinality(Ends(s)) /\ k - 1 \notin T
          <5>1. PICK j : j = k - 1
            OBVIOUS
          <5>2. Cardinality(Ends(s)) \in Nat
            BY <1>1
          <5>3. j \in 1 .. Cardinality(Ends(s)) /\ j < k /\ j \in Nat /\ k \in Nat
            BY <2>3, <3>2, <5>1, <5>2
          <5>4. j \notin T
            BY <2>2, <5>3
          <5>. QED  BY <5>1, <5>3, <5>4
        <4>2. PICK e \in Ends(s) : Number(s, e) = k - 1
          BY <1>2, <4>1
        <4>. QED  BY <1>1, <4>2
      <3>. QED  BY <3>1, <3>2
    <2>5. \E e \in Ends(s) : i < e
      <3>1. Number(s, i) # Number(s, Len(s))
        BY <1>1, <2>3, <2>4
      <3>2. \E e \in Ends(s) : ~ (e <= i \/ Len(s) < e)
        BY <1>1, <2>4, <3>1, NumbersGrow
      <3>. QED  BY <1>1, <2>4, <3>2
    <2>6. PICK e \in Ends(s) : i < e /\ \A m \in Ends(s) : m <= i \/ e <= m
      BY <2>5, FirstEnd
    <2>7. Number(s, e) = k
      <3>1. Number(s, e) = Number(s, i) + 1
        BY <2>6, NextNumber
      <3>. QED  BY <1>1, <2>3, <2>4, <3>1
    <2>. QED  BY <1>2, <2>2, <2>7
  <1>. QED  BY <1>2, <1>3

\* A line lies between a boundary and the next end.
Boundary(s, i) == i = 0 \/ i \in Ends(s)
Line(s, i, e) ==
    i \in Nat /\ Boundary(s, i) /\ e \in Ends(s) /\ i < e /\ \A k \in Ends(s) : k <= i \/ e <= k

LEMMA BeginIs ==
    ASSUME NEW S, NEW s \in Seq(S), NEW i \in Nat, Boundary(s, i)
    PROVE  Begin(s, Number(s, i) + 1) = i + 1
  <1>1. \A k \in Nat : Number(s, k) \in Nat
    BY EndsFinite
  <1>2. CASE i = 0
    BY <1>2, EndsFinite DEF Begin
  <1>3. CASE i \in Ends(s)
    <2>1. End(s, Number(s, i)) = i /\ Number(s, i) \in Nat \ {0}
      BY <1>1, <1>3, EndIs
    <2>2. Number(s, i) + 1 # 1 /\ (Number(s, i) + 1) - 1 = Number(s, i)
      BY <2>1
    <2>. QED  BY <2>1, <2>2 DEF Begin
  <1>. QED  BY <1>2, <1>3 DEF Boundary

LEMMA LineAt ==
    ASSUME NEW S, NEW s \in Seq(S), NEW i, NEW e, Line(s, i, e)
    PROVE  /\ Number(s, e) = Number(s, i) + 1 /\ Number(s, e) \in 1 .. Cardinality(Ends(s))
           /\ Lines(s)[Number(s, e)] = Outcome(SubSeq(s, i + 1, e - 1))
  <1>1. i \in Nat /\ e \in Ends(s) /\ Boundary(s, i)
    BY DEF Line
  <1>2. Number(s, e) = Number(s, i) + 1
    BY <1>1, NextNumber DEF Line
  <1>3. End(s, Number(s, e)) = e /\ Number(s, e) \in 1 .. Cardinality(Ends(s))
    BY <1>1, EndIs
  <1>4. Begin(s, Number(s, e)) = i + 1
    BY <1>1, <1>2, BeginIs
  <1>. QED  BY <1>2, <1>3, <1>4 DEF Lines

LEMMA EveryLine ==
    ASSUME NEW S, NEW s \in Seq(S), NEW n \in 1 .. Cardinality(Ends(s))
    PROVE  \E i, e : Line(s, i, e) /\ Number(s, e) = n
  <1>0. /\ Ends(s) \subseteq Nat \ {0} /\ Cardinality(Ends(s)) \in Nat /\ Number(s, 0) = 0
        /\ \A k \in Nat : Number(s, k) \in Nat
    BY EndsFinite
  <1>1. PICK e \in Ends(s) : Number(s, e) = n
    BY EveryNumber
  <1>2. PICK i \in Nat : Boundary(s, i) /\ Number(s, i) = n - 1
    <2>1. CASE n = 1
      BY <1>0, <2>1 DEF Boundary
    <2>2. CASE n # 1
      <3>1. n - 1 \in 1 .. Cardinality(Ends(s))
        BY <1>0, <2>2
      <3>2. PICK j \in Ends(s) : Number(s, j) = n - 1
        BY <3>1, EveryNumber
      <3>. QED  BY <1>0, <3>2 DEF Boundary
    <2>. QED  BY <2>1, <2>2
  <1>3. e \in Nat /\ n \in Nat
    BY <1>0
  <1>4. i < e
    <2>1. e <= i => Number(s, e) <= Number(s, i)
      BY <1>3, NumbersGrow
    <2>. QED  BY <1>1, <1>2, <1>3, <2>1
  <1>5. ASSUME NEW k \in Ends(s), ~ (k <= i), ~ (e <= k)
        PROVE  FALSE
    <2>1. k \in Nat /\ i < k /\ k < e /\ Number(s, k) \in Nat
      BY <1>0, <1>3, <1>5
    <2>2. Number(s, i) < Number(s, k) /\ Number(s, k) < Number(s, e)
      BY <1>3, <2>1, NumbersGrow
    <2>. QED  BY <1>1, <1>2, <1>3, <2>1, <2>2
  <1>. QED  BY <1>1, <1>2, <1>4, <1>5 DEF Line

LEMMA RestAt ==
    ASSUME NEW S, NEW s \in Seq(S), NEW i \in Nat, Boundary(s, i), i <= Len(s),
           \A k \in Ends(s) : k <= i
    PROVE  Cardinality(Ends(s)) = Number(s, i) /\ Rest(s) = SubSeq(s, i + 1, Len(s))
  <1>1. Len(s) \in Nat /\ Number(s, Len(s)) = Cardinality(Ends(s))
    BY EndsFinite
  <1>2. Number(s, i) = Number(s, Len(s))
    BY <1>1, NumbersGrow
  <1>. QED  BY <1>1, <1>2, BeginIs DEF Rest

LEMMA NumbersStay ==
    ASSUME NEW S, NEW s \in Seq(S), NEW p \in Seq(S), NEW t, t = s \o p, NEW i \in 0 .. Len(s)
    PROVE  Number(t, i) = Number(s, i)
  <1>1. Number(t, i) = Cardinality({j \in Ends(t) : j <= i}) /\ Number(s, i) = Cardinality({j \in Ends(s) : j <= i})
    BY DEF Number
  <1>2. /\ Len(t) = Len(s) + Len(p) /\ Len(s) \in Nat /\ Len(p) \in Nat /\ DOMAIN t = 1 .. Len(t)
        /\ DOMAIN s = 1 .. Len(s) /\ \A k \in 1 .. Len(s) : k \in 1 .. Len(s) + Len(p) /\ k <= Len(s)
    BY ConcatProperties, LenProperties
  <1>3. \A k \in 1 .. Len(s) : t[k] = s[k]
    BY <1>2, ConcatProperties
  <1>4. {j \in Ends(t) : j <= i} = {j \in Ends(s) : j <= i}
    BY <1>2, <1>3 DEF Ends
  <1>. QED  BY <1>1, <1>4

Kept(s, t) ==
    \A k \in 1 .. Cardinality(Ends(s)) : k \in 1 .. Cardinality(Ends(t)) /\ Lines(t)[k] = Lines(s)[k]

\* A sequence whose lines all end in another one at the same places, with the same content.
LEMMA LinesKept ==
    ASSUME NEW S, NEW s \in Seq(S), NEW t \in Seq(S),
           \A i, e : Line(s, i, e) => /\ Line(t, i, e) /\ Number(t, e) = Number(s, e)
                                     /\ SubSeq(t, i + 1, e - 1) = SubSeq(s, i + 1, e - 1)
    PROVE  Kept(s, t)
  <1>1. SUFFICES ASSUME NEW k \in 1 .. Cardinality(Ends(s))
                 PROVE  k \in 1 .. Cardinality(Ends(t)) /\ Lines(t)[k] = Lines(s)[k]
    BY DEF Kept
  <1>2. PICK i, e : Line(s, i, e) /\ Number(s, e) = k
    BY EveryLine
  <1>3. /\ Line(t, i, e) /\ Number(t, e) = k
        /\ SubSeq(t, i + 1, e - 1) = SubSeq(s, i + 1, e - 1)
    BY <1>2
  <1>4. Lines(s)[k] = Outcome(SubSeq(s, i + 1, e - 1))
    BY <1>2, LineAt
  <1>5. /\ Number(t, e) \in 1 .. Cardinality(Ends(t))
        /\ Lines(t)[Number(t, e)] = Outcome(SubSeq(t, i + 1, e - 1))
    BY <1>3, LineAt
  <1>. QED  BY <1>3, <1>4, <1>5

\* What is appended changes no line that has ended.
LEMMA Extended ==
    ASSUME NEW S, NEW s \in Seq(S), NEW p \in Seq(S), NEW t, t = s \o p
    PROVE  /\ t \in Seq(S) /\ Len(t) = Len(s) + Len(p) /\ \A i \in 1 .. Len(s) : t[i] = s[i]
           /\ \A e : e \in Ends(s) <=> e \in Ends(t) /\ e <= Len(s)
           /\ \A i \in 0 .. Len(s) : Number(t, i) = Number(s, i)
           /\ \A i, e : Line(s, i, e) => Line(t, i, e)
           /\ Kept(s, t)
  <1>1. /\ t \in Seq(S) /\ Len(t) = Len(s) + Len(p) /\ Len(s) \in Nat /\ Len(p) \in Nat
        /\ DOMAIN t = 1 .. Len(t) /\ DOMAIN s = 1 .. Len(s)
        /\ \A i \in 1 .. Len(s) : t[i] = s[i]
    <2>1. t \in Seq(S) /\ Len(t) = Len(s) + Len(p) /\ Len(s) \in Nat /\ Len(p) \in Nat
      BY ConcatProperties, LenProperties
    <2>2. \A i \in 1 .. Len(s) : i \in 1 .. Len(s) + Len(p) /\ i <= Len(s)
      BY <2>1
    <2>. QED  BY <2>1, <2>2, ConcatProperties, LenProperties
  <1>2. \A e : e \in Ends(s) <=> e \in Ends(t) /\ e <= Len(s)
    BY <1>1 DEF Ends
  <1>3. \A i \in 0 .. Len(s) : Number(t, i) = Number(s, i)
    BY NumbersStay
  <1>4. \A i, e : Line(s, i, e) => Line(t, i, e)
    <2>1. Ends(t) \subseteq 1 .. Len(t) /\ Ends(s) \subseteq 1 .. Len(s)
      BY <1>1 DEF Ends
    <2>. QED  BY <1>1, <1>2, <2>1 DEF Line, Boundary
  <1>5. ASSUME NEW i, NEW e, Line(s, i, e)
        PROVE  /\ Line(t, i, e) /\ Number(t, e) = Number(s, e)
               /\ SubSeq(t, i + 1, e - 1) = SubSeq(s, i + 1, e - 1)
    <2>1. Line(t, i, e) /\ i \in Nat /\ e \in 1 .. Len(s) /\ i < e
      BY <1>4, <1>5, EndsFinite DEF Line
    <2>2. Number(t, e) = Number(s, e)
      BY <1>1, <1>3, <2>1
    <2>3. CASE i + 1 <= e - 1
      <3>1. i + 1 \in 1 .. Len(s) /\ e - 1 \in 1 .. Len(s)
        BY <1>1, <2>1, <2>3
      <3>2. SubSeq(t, i + 1, e - 1) = SubSeq(s, i + 1, e - 1)
        BY <3>1, SubSeqOfConcat1
      <3>. QED  BY <2>1, <2>2, <3>2
    <2>4. CASE e - 1 < i + 1
      <3>1. i + 1 \in Int /\ e - 1 \in Int
        BY <2>1
      <3>2. SubSeq(t, i + 1, e - 1) = SubSeq(s, i + 1, e - 1)
        BY <2>4, <3>1, SubSeqEmpty
      <3>. QED  BY <2>1, <2>2, <3>2
    <2>. QED  BY <2>1, <2>3, <2>4
  <1>6. Kept(s, t)
    BY <1>1, <1>5, LinesKept
  <1>. QED  BY <1>1, <1>2, <1>3, <1>4, <1>6

LEMMA LinesStay ==
    ASSUME NEW S, NEW s \in Seq(S), NEW p \in Seq(S), NEW t, t = s \o p, NEW k \in 1 .. Cardinality(Ends(s))
    PROVE  Lines(t)[k] = Lines(s)[k]
  <1>1. Kept(s, t)
    BY Extended
  <1>. QED  BY <1>1 DEF Kept


-----------------------------------------------------------------------------
\* ---- the decoder
Consumed == Len(taken) - Len(buf)

\* The buffer holds the end of what was read, and what was searched has no newline.
Buffered == Len(buf) <= Len(taken) /\ \A i \in 1 .. Len(buf) : buf[i] = taken[Consumed + i]
Searched == \A i \in 1 .. nextIndex : buf[i] # Newline

\* The decoder is in the line that begins behind s, and the lines before it are items.
At(s) ==
    /\ s \in 0 .. Consumed /\ Boundary(taken, s)
    /\ \A e \in Ends(taken) : e <= s \/ Consumed < e
    /\ \A k \in 1 .. Number(taken, s) : items[k] = Lines(taken)[k]

\* It reads that line, or skips it because it is too long, or has read the last one.
Reading(s) == ~discarding /\ s = Consumed /\ Len(items) = Number(taken, s)
Skipping(s) ==
    /\ discarding /\ Len(items) = Number(taken, s) + 1 /\ items[Len(items)] = Error
    /\ s + MaxLength + 1 <= Len(taken) /\ \A e \in Ends(taken) : e <= s \/ s + MaxLength + 1 < e
AtEnd == eof /\ ~discarding /\ buf = <<>> /\ items = Reference(taken, TRUE)
Decoded == AtEnd \/ \E s \in 0 .. Len(taken) : At(s) /\ (Reading(s) \/ Skipping(s))

\* It waits only when it has looked at everything, and ends when it has delivered everything.
Modes ==
    /\ mode = "read" =>
        ~eof /\ IF discarding THEN buf = <<>> ELSE nextIndex = Len(buf) /\ Len(buf) <= MaxLength
    /\ mode = "errored" => ~eof
    /\ mode = "over" /\ ~Failed => eof /\ items = Reference(taken, TRUE)

LEMMA Cut ==
    ASSUME NEW S, NEW s \in Seq(S), NEW n \in 0 .. Len(s)
    PROVE  /\ SubSeq(s, 1, n) \in Seq(S) /\ Len(SubSeq(s, 1, n)) = n
           /\ \A i \in 1 .. n : SubSeq(s, 1, n)[i] = s[i]
           /\ SubSeq(s, n + 1, Len(s)) \in Seq(S) /\ Len(SubSeq(s, n + 1, Len(s))) = Len(s) - n
           /\ \A i \in 1 .. Len(s) - n : SubSeq(s, n + 1, Len(s))[i] = s[n + i]
           /\ SubSeq(s, 1, n) \o SubSeq(s, n + 1, Len(s)) = s
  <1>1. Len(s) \in Nat /\ n \in Nat /\ n <= Len(s) /\ \A i \in 1 .. Len(s) : s[i] \in S
    BY LenProperties, ElementOfSeq
  <1>2. /\ SubSeq(s, 1, n) \in Seq(S) /\ Len(SubSeq(s, 1, n)) = n
        /\ \A i \in 1 .. n : SubSeq(s, 1, n)[i] = s[i]
    <2>1. \A i \in 1 .. n : s[i] \in S
      BY <1>1
    <2>. QED  BY <1>1, <2>1, SubSeqProperties
  <1>3. /\ SubSeq(s, n + 1, Len(s)) \in Seq(S) /\ Len(SubSeq(s, n + 1, Len(s))) = Len(s) - n
        /\ \A i \in 1 .. Len(s) - n : SubSeq(s, n + 1, Len(s))[i] = s[n + i]
    <2>1. \A i \in n + 1 .. Len(s) : s[i] \in S
      BY <1>1
    <2>2. n + 1 \in Int /\ Len(s) \in Int
      BY <1>1
    <2>3. /\ SubSeq(s, n + 1, Len(s)) \in Seq(S)
          /\ Len(SubSeq(s, n + 1, Len(s))) = IF n + 1 <= Len(s) THEN Len(s) - (n + 1) + 1 ELSE 0
          /\ \A i \in 1 .. Len(s) - (n + 1) + 1 : SubSeq(s, n + 1, Len(s))[i] = s[(n + 1) + i - 1]
      BY <2>1, <2>2, SubSeqProperties
    <2>. QED  BY <1>1, <2>3
  <1>4. SubSeq(s, 1, n) \o SubSeq(s, n + 1, Len(s)) = s
    <2>1. 1 \in 1 .. Len(s) + 1 /\ n \in 1 - 1 .. Len(s) /\ Len(s) \in n .. Len(s)
      BY <1>1
    <2>2. SubSeq(s, 1, n) \o SubSeq(s, n + 1, Len(s)) = SubSeq(s, 1, Len(s))
      BY <2>1, ConcatAdjacentSubSeq
    <2>. QED  BY <2>2, SubSeqFull
  <1>. QED  BY <1>2, <1>3, <1>4

-----------------------------------------------------------------------------
\* ---- types
LEMMA ParseTyped == \A line : Parse(line) \in Messages \cup {Error}
  BY DEF Parse

\* What is looked at lies in the buffer.
LEMMA Limits ==
    ASSUME TypeOK
    PROVE  /\ Len(buf) \in Nat /\ MaxLength \in Nat /\ nextIndex \in Nat /\ nextIndex <= ReadTo
           /\ ReadTo \in Nat /\ ReadTo <= Len(buf) /\ ReadTo <= MaxLength + 1
           /\ (ReadTo = Len(buf) \/ ReadTo = MaxLength + 1)
           /\ (Len(buf) <= MaxLength => ReadTo = Len(buf)) /\ (Len(buf) > MaxLength => ReadTo = MaxLength + 1)
           /\ buf \in Seq(Bytes)
  <1>1. buf \in Seq(Bytes) /\ MaxLength \in Nat /\ nextIndex \in 0 .. ReadTo
    BY LineCodecAssumption DEF TypeOK
  <1>2. Len(buf) \in Nat
    BY <1>1, LenProperties
  <1>. QED  BY <1>1, <1>2 DEF ReadTo, Smaller

LEMMA FirstIs ==
    ASSUME TypeOK, Newlines # {}
    PROVE  /\ FirstNewline \in Nat /\ nextIndex < FirstNewline /\ FirstNewline <= ReadTo
           /\ buf[FirstNewline] = Newline
           /\ \A i \in Nat : nextIndex < i /\ i < FirstNewline => buf[i] # Newline
  <1>1. Newlines \subseteq Nat
    BY Limits DEF Newlines
  <1>2. \E i \in Newlines : \A j \in Newlines : i <= j
    BY <1>1, Smallest
  <1>3. FirstNewline \in Newlines /\ \A j \in Newlines : FirstNewline <= j
    BY <1>2 DEF FirstNewline
  <1>4. FirstNewline \in nextIndex + 1 .. ReadTo /\ buf[FirstNewline] = Newline /\ FirstNewline \in Nat
    BY <1>1, <1>3 DEF Newlines
  <1>5. ASSUME NEW i \in Nat, nextIndex < i, i < FirstNewline, buf[i] = Newline
        PROVE  FALSE
    <2>1. i \in nextIndex + 1 .. ReadTo
      BY <1>4, <1>5, Limits
    <2>2. i \in Newlines
      BY <1>5, <2>1 DEF Newlines
    <2>. QED  BY <1>3, <1>4, <1>5, <2>2
  <1>. QED  BY <1>4, <1>5, Limits

LEMMA NoneThere ==
    ASSUME TypeOK, Newlines = {}
    PROVE  \A i \in Nat : nextIndex < i /\ i <= ReadTo => buf[i] # Newline
  <1>1. \A i \in Nat : nextIndex < i /\ i <= ReadTo => i \in nextIndex + 1 .. ReadTo
    BY Limits
  <1>. QED  BY <1>1 DEF Newlines

LEMMA Advanced ==
    ASSUME TypeOK, NEW n \in 0 .. Len(buf), Advance(n)
    PROVE  /\ buf' \in Seq(Bytes) /\ Len(buf') = Len(buf) - n
           /\ \A i \in 1 .. Len(buf) - n : buf'[i] = buf[n + i]
  BY Limits, Cut DEF Advance

LEMMA Emitted ==
    ASSUME TypeOK, NEW x \in Messages \cup {Error}, Emit(x)
    PROVE  /\ items' \in Seq(Messages \cup {Error}) /\ Len(items') = Len(items) + 1 /\ Len(items) \in Nat
           /\ items'[Len(items) + 1] = x /\ \A k \in 1 .. Len(items) : items'[k] = items[k]
  <1>1. items \in Seq(Messages \cup {Error})
    BY DEF TypeOK
  <1>. QED  BY <1>1, AppendProperties, LenProperties DEF Emit

LEMMA TypesInit == Init => TypeOK
  <1>. SUFFICES ASSUME Init PROVE TypeOK
    OBVIOUS
  <1>1. MaxLength \in Nat /\ MaxNoise \in Nat /\ 0 \in 0 .. MaxNoise
    BY LineCodecAssumption
  <1>2. /\ locked \in Seq(Messages) /\ items \in Seq(Messages \cup {Error})
        /\ unwritten \in Seq(Bytes) /\ pipe \in Seq(Bytes) /\ taken \in Seq(Bytes) /\ buf \in Seq(Bytes)
    BY EmptySeq DEF Init
  <1>3. nextIndex \in 0 .. ReadTo
    <2>1. nextIndex = 0 /\ Len(buf) = 0
      BY EmptySeq DEF Init
    <2>. QED  BY <1>1, <2>1 DEF ReadTo, Smaller
  <1>4. holder \in Messages \cup {None} /\ mode = "read" /\ noise = 0
    BY DEF Init
  <1>5. broken \in BOOLEAN /\ discarding \in BOOLEAN /\ eof \in BOOLEAN
    BY DEF Init
  <1>. QED  BY <1>1, <1>2, <1>3, <1>4, <1>5 DEF TypeOK

LEMMA TypesNext ==
    ASSUME TypeOK, [Next]_vars
    PROVE  TypeOK'
  <1>0. /\ locked \in Seq(Messages) /\ holder \in Messages \cup {None}
        /\ unwritten \in Seq(Bytes) /\ pipe \in Seq(Bytes) /\ taken \in Seq(Bytes) /\ buf \in Seq(Bytes)
        /\ broken \in BOOLEAN /\ discarding \in BOOLEAN /\ eof \in BOOLEAN /\ noise \in 0 .. MaxNoise
        /\ mode \in {"read", "decode", "errored", "over"} /\ items \in Seq(Messages \cup {Error})
        /\ nextIndex \in 0 .. ReadTo /\ MaxNoise \in Nat /\ MaxLength \in Nat
        /\ Messages \subseteq Bytes /\ Noise \subseteq Bytes /\ Brace \in Bytes /\ Newline \in Bytes
    BY LineCodecAssumption DEF TypeOK, Bytes, Noise, Blank
  <1>1. ASSUME NEW m \in Messages, Lock(m)
        PROVE  TypeOK'
    <2>1. Encode(m) \in Seq(Bytes)
      BY <1>0 DEF Encode, Text
    <2>2. locked' \in Seq(Messages) /\ unwritten' \in Seq(Bytes) /\ holder' = m
      BY <1>0, <1>1, <2>1, AppendProperties, ConcatProperties DEF Lock
    <2>. QED  BY <1>0, <1>1, <2>2 DEF Lock, TypeOK, ReadTo, Smaller
  <1>2. CASE Flush
    <2>1. PICK n \in 1 .. Len(unwritten) :
             /\ pipe' = pipe \o SubSeq(unwritten, 1, n)
             /\ unwritten' = SubSeq(unwritten, n + 1, Len(unwritten))
      BY <1>2 DEF Flush
    <2>2. n \in 0 .. Len(unwritten)
      OBVIOUS
    <2>3. SubSeq(unwritten, 1, n) \in Seq(Bytes) /\ SubSeq(unwritten, n + 1, Len(unwritten)) \in Seq(Bytes)
      BY <1>0, <2>2, Cut
    <2>4. pipe' \in Seq(Bytes) /\ unwritten' \in Seq(Bytes)
      BY <1>0, <2>1, <2>3, ConcatProperties
    <2>. QED  BY <1>0, <1>2, <2>4 DEF Flush, TypeOK, ReadTo, Smaller
  <1>3. CASE Unlock
    BY <1>0, <1>3 DEF Unlock, TypeOK, ReadTo, Smaller
  <1>4. CASE Break
    BY <1>0, <1>4 DEF Break, TypeOK, ReadTo, Smaller
  <1>5. CASE OtherBytes
    <2>1. PICK b \in Noise : pipe' = Append(pipe, b)
      BY <1>5 DEF OtherBytes
    <2>2. pipe' \in Seq(Bytes)
      BY <1>0, <2>1, AppendProperties
    <2>. QED  BY <1>0, <1>5, <2>2 DEF OtherBytes, TypeOK, ReadTo, Smaller
  <1>6. CASE Read
    <2>1. PICK n \in 1 .. Len(pipe) :
             /\ pipe' = SubSeq(pipe, n + 1, Len(pipe)) /\ buf' = buf \o SubSeq(pipe, 1, n)
             /\ taken' = taken \o SubSeq(pipe, 1, n)
      BY <1>6 DEF Read
    <2>2. n \in 0 .. Len(pipe)
      OBVIOUS
    <2>3. /\ SubSeq(pipe, 1, n) \in Seq(Bytes) /\ SubSeq(pipe, n + 1, Len(pipe)) \in Seq(Bytes)
          /\ Len(SubSeq(pipe, 1, n)) = n /\ Len(buf) \in Nat
      BY <1>0, <2>2, Cut, LenProperties
    <2>4. /\ pipe' \in Seq(Bytes) /\ buf' \in Seq(Bytes) /\ taken' \in Seq(Bytes)
          /\ Len(buf') = Len(buf) + n
      BY <1>0, <2>1, <2>3, ConcatProperties
    <2>5. nextIndex' = nextIndex /\ nextIndex \in Nat /\ nextIndex <= MaxLength + 1 /\ nextIndex <= Len(buf)
      BY <1>0, <1>6, <2>3 DEF Read, ReadTo, Smaller, decoder
    <2>6. Len(buf') \in Nat /\ nextIndex <= Len(buf')
      BY <2>3, <2>4, <2>5
    <2>7. nextIndex' \in 0 .. ReadTo'
      BY <2>5, <2>6 DEF ReadTo, Smaller
    <2>. QED  BY <1>0, <1>6, <2>4, <2>7 DEF Read, TypeOK
  <1>7. CASE ReadEof
    BY <1>0, <1>7 DEF ReadEof, TypeOK, ReadTo, Smaller
  <1>8. ASSUME nextIndex' = 0, Len(buf') \in Nat
        PROVE  nextIndex' \in 0 .. ReadTo'
    BY <1>0, <1>8 DEF ReadTo, Smaller
  <1>9. CASE StopDiscarding \/ FoundLine
    <2>1. Advance(FirstNewline) /\ FirstNewline \in 0 .. Len(buf) /\ nextIndex' = 0
      BY <1>9, FirstIs, Limits DEF StopDiscarding, FoundLine, LineStart
    <2>2. buf' \in Seq(Bytes) /\ Len(buf') \in Nat
      BY <2>1, Advanced, LenProperties
    <2>3. nextIndex' \in 0 .. ReadTo'
      BY <1>8, <2>1, <2>2
    <2>4. CASE StopDiscarding
      BY <1>0, <2>2, <2>3, <2>4 DEF StopDiscarding, TypeOK
    <2>5. CASE FoundLine
      <3>1. PICK item : item = Parse(SubSeq(buf, 1, FirstNewline - 1))
        OBVIOUS
      <3>2. item \in Messages \cup {Error} /\ Emit(item)
        BY <2>5, <3>1, ParseTyped DEF FoundLine, Fail
      <3>3. items' \in Seq(Messages \cup {Error}) /\ mode' \in {"read", "decode", "errored", "over"}
        BY <1>0, <2>5, <3>2, Emitted DEF FoundLine, Fail
      <3>. QED  BY <1>0, <2>2, <2>3, <2>5, <3>3 DEF FoundLine, TypeOK
    <2>. QED  BY <1>9, <2>4, <2>5
  <1>10. CASE Discard
    <2>1. buf' \in Seq(Bytes) /\ Len(buf') \in Nat /\ nextIndex' = 0
      <3>1. ReadTo \in 0 .. Len(buf) /\ Advance(ReadTo) /\ nextIndex' = 0
        BY <1>10, Limits DEF Discard, LineStart
      <3>. QED  BY <3>1, Advanced, LenProperties
    <2>. QED  BY <1>0, <1>8, <1>10, <2>1 DEF Discard, TypeOK
  <1>11. CASE LineTooLong
    <2>1. items' \in Seq(Messages \cup {Error}) /\ mode' \in {"read", "decode", "errored", "over"}
      BY <1>0, <1>11, Emitted DEF LineTooLong, Fail
    <2>. QED  BY <1>0, <1>11, <2>1 DEF LineTooLong, TypeOK, ReadTo, Smaller
  <1>12. CASE WaitForMore
    <2>1. nextIndex' = ReadTo /\ ReadTo' = ReadTo
      BY <1>12 DEF WaitForMore, ReadTo, Smaller
    <2>. QED  BY <1>0, <1>12, <2>1, Limits DEF WaitForMore, TypeOK
  <1>13. CASE LastLine
    <2>1. CASE UNCHANGED <<buf, items>> /\ mode' = "over"
      <3>1. Len(buf') \in Nat
        BY <2>1, Limits
      <3>. QED  BY <1>0, <1>8, <1>13, <2>1, <3>1 DEF LastLine, TypeOK
    <2>2. CASE /\ buf' = <<>>
               /\ IF Parse(buf) = Error THEN Fail("over") ELSE Emit(Parse(buf)) /\ UNCHANGED mode
      <3>1. items' \in Seq(Messages \cup {Error}) /\ mode' \in {"read", "decode", "errored", "over"}
        BY <1>0, <2>2, ParseTyped, Emitted DEF Fail
      <3>2. buf' \in Seq(Bytes) /\ Len(buf') \in Nat
        BY <2>2
      <3>. QED  BY <1>0, <1>8, <1>13, <3>1, <3>2 DEF LastLine, TypeOK
    <2>. QED  BY <1>13, <2>1, <2>2 DEF LastLine
  <1>14. CASE UNCHANGED vars
    BY <1>0, <1>14 DEF vars, TypeOK, ReadTo, Smaller
  <1>. QED
    BY <1>1, <1>2, <1>3, <1>4, <1>5, <1>6, <1>7, <1>9, <1>10, <1>11, <1>12, <1>13, <1>14
       DEF Next, Send, Receive

\* Every variable keeps its type, and the index lies in the part of the buffer the decoder looks
\* at, for any maximal length: decode never panics on its slice (async_rw.rs 205-209).
THEOREM CodecTyping == Spec => []TypeOK
  BY TypesInit, TypesNext, PTL DEF Spec

-----------------------------------------------------------------------------
\* ---- the decoder's invariant
LEMMA LinesTyped ==
    ASSUME NEW S, NEW s \in Seq(S)
    PROVE  Lines(s) \in Seq(Messages \cup {Error}) /\ Len(Lines(s)) = Cardinality(Ends(s))
  <1>1. \A line : Outcome(line) \in Messages \cup {Error}
    BY ParseTyped DEF Outcome
  <1>2. Cardinality(Ends(s)) \in Nat
    BY EndsFinite
  <1>3. Lines(s) \in [1 .. Cardinality(Ends(s)) -> Messages \cup {Error}]
    BY <1>1 DEF Lines
  <1>. QED  BY <1>2, <1>3

\* Where the buffer lies in what was read.
LEMMA InBuffer ==
    ASSUME TypeOK, Buffered
    PROVE  /\ Consumed \in Nat /\ Len(taken) = Consumed + Len(buf) /\ Len(taken) \in Nat /\ Len(buf) \in Nat
           /\ taken \in Seq(Bytes) /\ Ends(taken) \subseteq 1 .. Len(taken)
           /\ \A i \in 1 .. Len(buf) : Consumed + i \in Ends(taken) <=> buf[i] = Newline
           /\ \A e \in Ends(taken) : e <= Consumed \/ (e - Consumed \in 1 .. Len(buf) /\ buf[e - Consumed] = Newline)
  <1>1. taken \in Seq(Bytes) /\ buf \in Seq(Bytes)
    BY DEF TypeOK
  <1>2. Len(taken) \in Nat /\ Len(buf) \in Nat /\ DOMAIN taken = 1 .. Len(taken)
    BY <1>1, LenProperties
  <1>3. Consumed \in Nat /\ Len(taken) = Consumed + Len(buf)
    BY <1>2 DEF Consumed, Buffered
  <1>4. Ends(taken) \subseteq 1 .. Len(taken)
    BY <1>2 DEF Ends
  <1>5. \A i \in 1 .. Len(buf) : Consumed + i \in 1 .. Len(taken) /\ buf[i] = taken[Consumed + i]
    BY <1>2, <1>3 DEF Buffered
  <1>6. \A i \in 1 .. Len(buf) : Consumed + i \in Ends(taken) <=> buf[i] = Newline
    BY <1>2, <1>5 DEF Ends
  <1>7. ASSUME NEW e \in Ends(taken), ~ (e <= Consumed)
        PROVE  e - Consumed \in 1 .. Len(buf) /\ buf[e - Consumed] = Newline
    <2>1. e \in 1 .. Len(taken) /\ taken[e] = Newline
      BY <1>2 DEF Ends
    <2>2. e - Consumed \in 1 .. Len(buf) /\ Consumed + (e - Consumed) = e
      BY <1>2, <1>3, <1>7, <2>1
    <2>. QED  BY <1>5, <2>1, <2>2
  <1>. QED  BY <1>1, <1>2, <1>3, <1>4, <1>6, <1>7

LEMMA Middle ==
    ASSUME NEW S, NEW s \in Seq(S), NEW c \in Nat, NEW n \in Nat, c + n <= Len(s)
    PROVE  /\ SubSeq(s, c + 1, c + n) \in Seq(S) /\ Len(SubSeq(s, c + 1, c + n)) = n
           /\ \A i \in 1 .. n : SubSeq(s, c + 1, c + n)[i] = s[c + i]
  <1>1. Len(s) \in Nat /\ \A i \in 1 .. Len(s) : s[i] \in S
    BY LenProperties, ElementOfSeq
  <1>2. PICK f \in Int, l \in Int : f = c + 1 /\ l = c + n
    OBVIOUS
  <1>3. \A i \in f .. l : s[i] \in S
    BY <1>1, <1>2
  <1>4. /\ SubSeq(s, f, l) \in Seq(S) /\ Len(SubSeq(s, f, l)) = IF f <= l THEN l - f + 1 ELSE 0
        /\ \A i \in 1 .. l - f + 1 : SubSeq(s, f, l)[i] = s[f + i - 1]
    BY <1>3, SubSeqProperties
  <1>5. \A i \in 1 .. n : i \in 1 .. l - f + 1 /\ f + i - 1 = c + i
    BY <1>2
  <1>6. (IF f <= l THEN l - f + 1 ELSE 0) = n
    BY <1>2
  <1>7. Len(SubSeq(s, f, l)) = n
    BY <1>4, <1>6
  <1>8. \A i \in 1 .. n : SubSeq(s, f, l)[i] = s[c + i]
    BY <1>4, <1>5
  <1>. QED  BY <1>2, <1>4, <1>7, <1>8

LEMMA SameBytes ==
    ASSUME TypeOK, Buffered, NEW n \in 0 .. Len(buf)
    PROVE  SubSeq(taken, Consumed + 1, Consumed + n) = SubSeq(buf, 1, n)
  <1>1. n \in Int /\ Consumed \in Nat /\ Len(taken) = Consumed + Len(buf) /\ taken \in Seq(Bytes)
        /\ Len(buf) \in Nat /\ buf \in Seq(Bytes) /\ 0 <= n /\ n <= Len(buf)
    BY InBuffer DEF TypeOK
  <1>2. SubSeq(buf, 1, n) \in Seq(Bytes) /\ Len(SubSeq(buf, 1, n)) = n
        /\ \A i \in 1 .. n : SubSeq(buf, 1, n)[i] = buf[i]
    BY <1>1, Cut
  <1>4. /\ SubSeq(taken, Consumed + 1, Consumed + n) \in Seq(Bytes)
        /\ Len(SubSeq(taken, Consumed + 1, Consumed + n)) = n
        /\ \A i \in 1 .. n : SubSeq(taken, Consumed + 1, Consumed + n)[i] = taken[Consumed + i]
    <2>1. PICK c : c = Consumed
      OBVIOUS
    <2>2. taken \in Seq(Bytes) /\ c \in Nat /\ n \in Nat /\ c + n <= Len(taken)
      BY <1>1, <2>1
    <2>3. /\ SubSeq(taken, c + 1, c + n) \in Seq(Bytes) /\ Len(SubSeq(taken, c + 1, c + n)) = n
          /\ \A i \in 1 .. n : SubSeq(taken, c + 1, c + n)[i] = taken[c + i]
      BY <2>2, Middle
    <2>. QED  BY <2>1, <2>3
  <1>5. \A i \in 1 .. n : buf[i] = taken[Consumed + i]
    BY <1>1 DEF Buffered
  <1>. QED  BY <1>2, <1>4, <1>5, SeqEqual

\* Every line ends behind the part that was searched.
LEMMA Behind ==
    ASSUME TypeOK, Buffered, Searched, NEW n \in Nat,
           \A i \in Nat : nextIndex < i /\ i <= n => buf[i] # Newline
    PROVE  \A e \in Ends(taken) : e <= Consumed \/ Consumed + n < e
  <1>1. SUFFICES ASSUME NEW e \in Ends(taken), ~ (e <= Consumed), ~ (Consumed + n < e)
                 PROVE  FALSE
    OBVIOUS
  <1>2. e - Consumed \in 1 .. Len(buf) /\ buf[e - Consumed] = Newline /\ e \in Nat /\ Consumed \in Nat
    BY <1>1, InBuffer
  <1>3. nextIndex \in Nat /\ e - Consumed \in Nat /\ e - Consumed <= n /\ 1 <= e - Consumed
    BY <1>1, <1>2, Limits
  <1>4. CASE e - Consumed <= nextIndex
    BY <1>2, <1>3, <1>4 DEF Searched
  <1>5. CASE nextIndex < e - Consumed
    BY <1>2, <1>3, <1>5
  <1>. QED  BY <1>3, <1>4, <1>5

\* Leaving bytes behind keeps the buffer the end of what was read.
LEMMA StillBuffered ==
    ASSUME TypeOK, Buffered, NEW n \in 0 .. Len(buf), Advance(n), UNCHANGED taken
    PROVE  Buffered' /\ Consumed' = Consumed + n /\ Len(buf') = Len(buf) - n
  <1>1. /\ Len(buf') = Len(buf) - n /\ \A i \in 1 .. Len(buf) - n : buf'[i] = buf[n + i]
    BY Advanced
  <1>2. Consumed \in Nat /\ Len(taken) = Consumed + Len(buf) /\ Len(buf) \in Nat /\ Len(taken) \in Nat
    BY InBuffer
  <1>3. Consumed' = Consumed + n /\ Len(buf') <= Len(taken)
    BY <1>1, <1>2 DEF Consumed
  <1>4. ASSUME NEW i \in 1 .. Len(buf')
        PROVE  buf'[i] = taken[Consumed' + i]
    <2>1. i \in 1 .. Len(buf) - n /\ n + i \in 1 .. Len(buf) /\ Consumed' + i = Consumed + (n + i)
      BY <1>1, <1>2, <1>3
    <2>. QED  BY <1>1, <2>1 DEF Buffered
  <1>. QED  BY <1>1, <1>3, <1>4 DEF Buffered

\* Once every line has ended that can.
LEMMA Finally ==
    ASSUME TypeOK, NEW s \in Nat, Boundary(taken, s), s <= Len(taken), \A e \in Ends(taken) : e <= s,
           NEW final \in BOOLEAN
    PROVE  /\ Len(Rest(taken)) = Len(taken) - s /\ Rest(taken) = SubSeq(taken, s + 1, Len(taken))
           /\ Len(Lines(taken)) = Number(taken, s) /\ Number(taken, s) \in Nat
           /\ MaxLength < Len(taken) - s => Reference(taken, final) = Append(Lines(taken), Error)
  <1>1. taken \in Seq(Bytes)
    BY DEF TypeOK
  <1>2. Cardinality(Ends(taken)) = Number(taken, s) /\ Rest(taken) = SubSeq(taken, s + 1, Len(taken))
    BY <1>1, RestAt
  <1>3. Len(SubSeq(taken, s + 1, Len(taken))) = Len(taken) - s
    <2>1. s \in 0 .. Len(taken)
      BY <1>1, LenProperties
    <2>. QED  BY <1>1, <2>1, Cut
  <1>4. Len(Lines(taken)) = Number(taken, s) /\ Number(taken, s) \in Nat
    BY <1>1, <1>2, LinesTyped, EndsFinite
  <1>5. MaxLength < Len(taken) - s => Reference(taken, final) = Append(Lines(taken), Error)
    <2>1. Len(Rest(taken)) = Len(taken) - s /\ Len(taken) \in Nat /\ MaxLength \in Nat
      BY <1>1, <1>2, <1>3, LenProperties, LineCodecAssumption
    <2>. QED  BY <2>1 DEF Reference, Outcome
  <1>. QED  BY <1>2, <1>3, <1>4, <1>5

\* The inductive invariant of the decoder.
DecoderInv == TypeOK /\ Buffered /\ Searched /\ Decoded /\ Modes

LEMMA DecoderInit == Init => DecoderInv
  <1>. SUFFICES ASSUME Init PROVE DecoderInv
    OBVIOUS
  <1>1. /\ taken = <<>> /\ buf = <<>> /\ items = <<>> /\ nextIndex = 0 /\ mode = "read"
        /\ eof = FALSE /\ discarding = FALSE /\ MaxLength \in Nat
    BY LineCodecAssumption DEF Init
  <1>2. Len(taken) = 0 /\ Len(buf) = 0 /\ Len(items) = 0 /\ taken \in Seq(Bytes)
    BY <1>1, EmptySeq
  <1>3. Ends(taken) = {} /\ Number(taken, 0) = 0 /\ Consumed = 0
    <2>1. Ends(taken) \subseteq 1 .. Len(taken) /\ Number(taken, 0) = 0
      BY <1>2, EndsFinite
    <2>2. 1 .. Len(taken) = {}
      BY <1>2
    <2>. QED  BY <1>2, <2>1, <2>2 DEF Consumed
  <1>4. At(0) /\ Reading(0) /\ 0 \in 0 .. Len(taken)
    BY <1>1, <1>2, <1>3 DEF At, Reading, Boundary
  <1>. QED  BY <1>1, <1>2, <1>4, TypesInit DEF DecoderInv, Buffered, Searched, Decoded, Modes

\* What the writers do, and the end of the pipe, leave the decoder where it is.
LEMMA Still ==
    ASSUME DecoderInv, TypeOK', UNCHANGED <<taken, buf, decoder, items>>,
           UNCHANGED <<mode, eof>> \/ (~eof /\ mode' = "decode")
    PROVE  DecoderInv'
  <1>1. /\ Buffered' = Buffered /\ Searched' = Searched /\ Consumed' = Consumed
        /\ \A s : At(s)' = At(s) /\ Reading(s)' = Reading(s) /\ Skipping(s)' = Skipping(s)
    BY DEF Buffered, Searched, Consumed, At, Reading, Skipping, Boundary, Number, Ends, Lines, End, Begin
  <1>2. CASE UNCHANGED <<mode, eof>>
    <2>1. AtEnd' = AtEnd
      BY <1>2 DEF AtEnd, Reference, Lines, Rest, Number, Ends, End, Begin
    <2>2. Decoded' = Decoded
      BY <1>1, <2>1 DEF Decoded
    <2>3. Modes' = Modes
      BY <1>2 DEF Modes, Reference, Lines, Rest, Number, Ends, End, Begin, Failed
    <2>. QED  BY <1>1, <2>2, <2>3 DEF DecoderInv
  <1>3. CASE ~eof /\ mode' = "decode"
    <2>1. Modes'
      BY <1>3 DEF Modes
    <2>2. Decoded'
      BY <1>1, <1>3 DEF Decoded, DecoderInv, AtEnd
    <2>. QED  BY <1>1, <2>1, <2>2 DEF DecoderInv
  <1>. QED  BY <1>2, <1>3

LEMMA Appended ==
    ASSUME NEW S, NEW s \in Seq(S), NEW p \in Seq(S), NEW k \in 1 .. Len(p)
    PROVE  (s \o p)[Len(s) + k] = p[k]
  <1>1. Len(s) \in Nat /\ Len(p) \in Nat
    BY LenProperties
  <1>2. Len(s) + k \in 1 .. Len(s) + Len(p) /\ ~ (Len(s) + k <= Len(s)) /\ Len(s) + k - Len(s) = k
    BY <1>1
  <1>. QED  BY <1>2, ConcatProperties

LEMMA ReadKeeps ==
    ASSUME DecoderInv, TypeOK', Read
    PROVE  DecoderInv'
  <1>1. PICK n \in 1 .. Len(pipe) : buf' = buf \o SubSeq(pipe, 1, n) /\ taken' = taken \o SubSeq(pipe, 1, n)
    BY DEF Read
  <1>2. PICK p : p = SubSeq(pipe, 1, n)
    OBVIOUS
  <1>3. p \in Seq(Bytes) /\ pipe \in Seq(Bytes) /\ taken \in Seq(Bytes) /\ buf \in Seq(Bytes) /\ Len(p) \in Nat
    <2>1. pipe \in Seq(Bytes) /\ taken \in Seq(Bytes) /\ buf \in Seq(Bytes) /\ n \in 0 .. Len(pipe)
      BY DEF DecoderInv, TypeOK
    <2>. QED  BY <1>2, <2>1, Cut, LenProperties
  <1>4. /\ Len(taken') = Len(taken) + Len(p) /\ \A i \in 1 .. Len(taken) : taken'[i] = taken[i]
        /\ \A e : e \in Ends(taken) <=> e \in Ends(taken') /\ e <= Len(taken)
        /\ \A i \in 0 .. Len(taken) : Number(taken', i) = Number(taken, i)
        /\ \A k \in 1 .. Cardinality(Ends(taken)) : Lines(taken')[k] = Lines(taken)[k]
        /\ taken' \in Seq(Bytes)
    <2>1. PICK t : t = taken'
      OBVIOUS
    <2>2. t = taken \o p
      BY <1>1, <1>2, <2>1
    <2>3. /\ t \in Seq(Bytes) /\ Len(t) = Len(taken) + Len(p) /\ \A i \in 1 .. Len(taken) : t[i] = taken[i]
          /\ \A e : e \in Ends(taken) <=> e \in Ends(t) /\ e <= Len(taken)
          /\ \A i \in 0 .. Len(taken) : Number(t, i) = Number(taken, i)
          /\ \A k \in 1 .. Cardinality(Ends(taken)) : Lines(t)[k] = Lines(taken)[k]
      <3>1. /\ t \in Seq(Bytes) /\ Len(t) = Len(taken) + Len(p) /\ \A i \in 1 .. Len(taken) : t[i] = taken[i]
        BY <1>3, <2>2, Extended
      <3>2. \A e : e \in Ends(taken) <=> e \in Ends(t) /\ e <= Len(taken)
        BY <1>3, <2>2, Extended
      <3>3. \A i \in 0 .. Len(taken) : Number(t, i) = Number(taken, i)
        BY <1>3, <2>2, NumbersStay
      <3>4. \A k \in 1 .. Cardinality(Ends(taken)) : Lines(t)[k] = Lines(taken)[k]
        BY <1>3, <2>2, LinesStay
      <3>. QED  BY <3>1, <3>2, <3>3, <3>4
    <2>. QED  BY <2>1, <2>3
  <1>5. /\ Consumed \in Nat /\ Len(taken) = Consumed + Len(buf) /\ Len(buf) \in Nat /\ Len(taken) \in Nat
        /\ nextIndex \in Nat /\ nextIndex <= Len(buf)
    BY InBuffer, Limits DEF DecoderInv
  <1>6. /\ Len(buf') = Len(buf) + Len(p)
        /\ \A i \in 1 .. Len(buf) + Len(p) : buf'[i] = IF i <= Len(buf) THEN buf[i] ELSE p[i - Len(buf)]
    BY <1>1, <1>2, <1>3, ConcatProperties
  <1>7. Consumed' = Consumed /\ Len(buf') <= Len(taken')
    BY <1>3, <1>4, <1>5, <1>6 DEF Consumed
  <1>8. Buffered'
    <2>1. ASSUME NEW i \in 1 .. Len(buf')
          PROVE  buf'[i] = taken'[Consumed + i]
      <3>1. CASE i <= Len(buf)
        <4>1. i \in 1 .. Len(buf) /\ Consumed + i \in 1 .. Len(taken)
          BY <1>5, <1>6, <3>1
        <4>. QED  BY <1>4, <1>6, <3>1, <4>1 DEF Buffered, DecoderInv
      <3>2. CASE Len(buf) < i
        <4>0. PICK k : k = i - Len(buf)
          OBVIOUS
        <4>1. k \in 1 .. Len(p) /\ i = Len(buf) + k /\ Consumed + i = Len(taken) + k
          BY <1>3, <1>5, <1>6, <3>2, <4>0
        <4>2. buf'[Len(buf) + k] = p[k] /\ taken'[Len(taken) + k] = p[k]
          <5>1. (buf \o p)[Len(buf) + k] = p[k] /\ (taken \o p)[Len(taken) + k] = p[k]
            BY <1>3, <4>1, Appended
          <5>. QED  BY <1>1, <1>2, <5>1
        <4>. QED  BY <4>1, <4>2
      <3>. QED  BY <1>3, <1>5, <1>6, <3>1, <3>2
    <2>. QED  BY <1>7, <2>1 DEF Buffered
  <1>9. Searched'
    <2>1. \A i \in 1 .. nextIndex : i \in 1 .. Len(buf) + Len(p) /\ i <= Len(buf)
      BY <1>3, <1>5
    <2>. QED  BY <1>6, <2>1 DEF Searched, DecoderInv, Read
  <1>10. PICK s \in 0 .. Len(taken) : At(s) /\ (Reading(s) \/ Skipping(s))
    BY DEF DecoderInv, Decoded, AtEnd, Read
  <1>11. s \in 0 .. Len(taken') /\ s \in Nat /\ Number(taken', s) = Number(taken, s)
    BY <1>3, <1>4, <1>5
  <1>12. At(s)'
    <2>1. s \in 0 .. Consumed' /\ Boundary(taken', s)
      BY <1>4, <1>7, <1>10 DEF At, Boundary
    <2>2. \A e \in Ends(taken') : e \in Nat
      BY <1>4, EndsFinite
    <2>3. ASSUME NEW e \in Ends(taken')
          PROVE  e <= s \/ Consumed' < e
      <3>1. CASE e <= Len(taken)
        BY <1>4, <1>7, <1>10, <3>1 DEF At
      <3>2. CASE ~ (e <= Len(taken))
        BY <1>5, <1>7, <2>2, <3>2
      <3>. QED  BY <3>1, <3>2
    <2>4. ASSUME NEW k \in 1 .. Number(taken', s)
          PROVE  items'[k] = Lines(taken')[k]
      <3>1. k \in 1 .. Number(taken, s) /\ Number(taken, s) <= Cardinality(Ends(taken))
        BY <1>3, <1>5, <1>11, EndsFinite, NumbersGrow
      <3>2. k \in 1 .. Cardinality(Ends(taken))
        BY <1>3, <1>11, <3>1, EndsFinite
      <3>. QED  BY <1>4, <1>10, <3>1, <3>2 DEF At, Read
    <2>. QED  BY <2>1, <2>3, <2>4 DEF At
  <1>13. Reading(s) => Reading(s)'
    BY <1>7, <1>11 DEF Reading, Read
  <1>14. ASSUME Skipping(s)
         PROVE  Skipping(s)'
    <2>1. MaxLength \in Nat /\ s + MaxLength + 1 <= Len(taken)
      BY <1>14, LineCodecAssumption DEF Skipping
    <2>2. s + MaxLength + 1 <= Len(taken')
      BY <1>3, <1>4, <1>5, <1>11, <2>1
    <2>3. ASSUME NEW e \in Ends(taken')
          PROVE  e <= s \/ s + MaxLength + 1 < e
      <3>1. e \in Nat
        BY <1>4, EndsFinite
      <3>2. CASE e <= Len(taken)
        BY <1>4, <1>14, <3>2 DEF Skipping
      <3>3. CASE ~ (e <= Len(taken))
        BY <1>5, <1>11, <2>1, <3>1, <3>3
      <3>. QED  BY <3>2, <3>3
    <2>. QED  BY <1>11, <1>14, <2>2, <2>3 DEF Skipping, Read
  <1>15. Decoded'
    BY <1>10, <1>11, <1>12, <1>13, <1>14 DEF Decoded
  <1>16. Modes'
    BY DEF Modes, Read
  <1>. QED  BY <1>8, <1>9, <1>15, <1>16 DEF DecoderInv

\* What the items so far say after one more.
LEMMA OneMore ==
    ASSUME TypeOK, NEW s \in Nat, At(s), Len(items) = Number(taken, s), NEW x \in Messages \cup {Error}, Emit(x)
    PROVE  /\ \A k \in 1 .. Number(taken, s) : items'[k] = Lines(taken)[k]
           /\ items'[Number(taken, s) + 1] = x /\ Len(items') = Number(taken, s) + 1 /\ Number(taken, s) \in Nat
           /\ x = Error => Failed'
  <1>1. /\ items' \in Seq(Messages \cup {Error}) /\ Len(items') = Len(items) + 1 /\ Len(items) \in Nat
        /\ items'[Len(items) + 1] = x /\ \A k \in 1 .. Len(items) : items'[k] = items[k]
    BY Emitted
  <1>2. items' # <<>>
    BY <1>1, EmptySeq
  <1>. QED  BY <1>1, <1>2 DEF At, Failed, Last

\* The line in which the decoder is ends with the first newline it sees.
LEMMA LineSeen ==
    ASSUME TypeOK, Buffered, Searched, Newlines # {}, NEW s \in Nat, At(s)
    PROVE  /\ Line(taken, s, Consumed + FirstNewline)
           /\ FirstNewline \in 1 .. Len(buf) /\ FirstNewline \in 0 .. Len(buf) /\ FirstNewline <= MaxLength + 1
           /\ \A e \in Ends(taken) : e <= s \/ Consumed + FirstNewline <= e
  <1>1. /\ FirstNewline \in Nat /\ nextIndex < FirstNewline /\ FirstNewline <= ReadTo
        /\ buf[FirstNewline] = Newline
        /\ \A i \in Nat : nextIndex < i /\ i < FirstNewline => buf[i] # Newline
    BY FirstIs
  <1>2. /\ Len(buf) \in Nat /\ MaxLength \in Nat /\ nextIndex \in Nat /\ ReadTo <= Len(buf)
        /\ ReadTo \in Nat /\ ReadTo <= MaxLength + 1
    BY Limits
  <1>3. FirstNewline \in 1 .. Len(buf) /\ FirstNewline \in 0 .. Len(buf) /\ FirstNewline <= MaxLength + 1
    BY <1>1, <1>2
  <1>4. Consumed \in Nat /\ Ends(taken) \subseteq Nat /\ Consumed + FirstNewline \in Ends(taken)
    BY <1>1, <1>3, InBuffer
  <1>5. FirstNewline - 1 \in Nat /\ \A i \in Nat : nextIndex < i /\ i <= FirstNewline - 1 => buf[i] # Newline
    BY <1>1, <1>2
  <1>6. \A e \in Ends(taken) : e <= Consumed \/ Consumed + (FirstNewline - 1) < e
    BY <1>5, Behind
  <1>7. s \in 0 .. Consumed /\ Boundary(taken, s) /\ \A e \in Ends(taken) : e <= s \/ Consumed < e
    BY DEF At
  <1>8. ASSUME NEW e \in Ends(taken), ~ (e <= s)
        PROVE  Consumed + FirstNewline <= e
    <2>1. e \in Nat /\ Consumed < e
      BY <1>4, <1>7, <1>8
    <2>2. Consumed + (FirstNewline - 1) < e
      BY <1>4, <1>6, <2>1
    <2>. QED  BY <1>1, <1>4, <2>1, <2>2
  <1>9. s < Consumed + FirstNewline
    BY <1>1, <1>3, <1>4, <1>7
  <1>. QED  BY <1>3, <1>4, <1>7, <1>8, <1>9 DEF Line

\* Having read to the end of that line, it is in the next.
LEMMA NextLine ==
    ASSUME DecoderInv, TypeOK', Newlines # {}, NEW s \in Nat, At(s), Advance(FirstNewline), UNCHANGED taken,
           nextIndex' = 0, discarding' = FALSE, Len(items') = Number(taken, s) + 1,
           \A k \in 1 .. Number(taken, s) : items'[k] = Lines(taken)[k],
           items'[Number(taken, s) + 1] = Lines(taken)[Number(taken, s) + 1]
    PROVE  Buffered' /\ Searched' /\ Decoded'
  <1>1. PICK e : e = Consumed + FirstNewline
    OBVIOUS
  <1>2. /\ Line(taken, s, e) /\ FirstNewline \in 1 .. Len(buf) /\ FirstNewline \in 0 .. Len(buf)
        /\ \A f \in Ends(taken) : f <= s \/ e <= f
    BY <1>1, LineSeen DEF DecoderInv
  <1>3. Buffered' /\ Consumed' = e
    BY <1>1, <1>2, StillBuffered DEF DecoderInv
  <1>4. /\ Consumed \in Nat /\ Len(taken) = Consumed + Len(buf) /\ Len(buf) \in Nat /\ Len(taken) \in Nat
        /\ taken \in Seq(Bytes) /\ Ends(taken) \subseteq Nat
    BY InBuffer DEF DecoderInv
  <1>5. e \in Nat /\ e \in 0 .. Len(taken) /\ e \in Ends(taken) /\ s < e
    BY <1>1, <1>2, <1>4 DEF Line
  <1>6. Number(taken, e) = Number(taken, s) + 1 /\ Number(taken, s) \in Nat
    BY <1>2, <1>4, LineAt, EndsFinite
  <1>7. At(e)'
    <2>1. \A f \in Ends(taken) : f <= e \/ e < f
      BY <1>4, <1>5
    <2>2. \A k \in 1 .. Number(taken, e) : items'[k] = Lines(taken)[k]
      BY <1>6
    <2>3. e \in 0 .. Consumed' /\ Boundary(taken', e)
      BY <1>3, <1>5 DEF Boundary
    <2>4. Ends(taken') = Ends(taken) /\ Number(taken', e) = Number(taken, e) /\ Lines(taken') = Lines(taken)
      OBVIOUS
    <2>. QED  BY <1>3, <2>1, <2>2, <2>3, <2>4 DEF At
  <1>8. Reading(e)'
    <2>1. Number(taken', e) = Number(taken, e)
      OBVIOUS
    <2>. QED  BY <1>3, <1>6, <2>1 DEF Reading
  <1>9. Decoded'
    BY <1>5, <1>7, <1>8 DEF Decoded
  <1>10. Searched'
    BY DEF Searched
  <1>. QED  BY <1>3, <1>9, <1>10

LEMMA StopKeeps ==
    ASSUME DecoderInv, TypeOK', StopDiscarding
    PROVE  DecoderInv'
  <1>1. PICK s \in 0 .. Len(taken) : At(s) /\ Skipping(s)
    BY DEF DecoderInv, Decoded, AtEnd, Reading, StopDiscarding
  <1>2. s \in Nat /\ Number(taken, s) \in Nat /\ taken \in Seq(Bytes)
    <2>1. taken \in Seq(Bytes)
      BY DEF DecoderInv, TypeOK
    <2>. QED  BY <2>1, EndsFinite
  <1>3. PICK e : e = Consumed + FirstNewline
    OBVIOUS
  <1>4. Line(taken, s, e)
    BY <1>1, <1>2, <1>3, LineSeen DEF DecoderInv, StopDiscarding
  <1>5. Lines(taken)[Number(taken, s) + 1] = Error
    <2>1. /\ Number(taken, e) = Number(taken, s) + 1
          /\ Lines(taken)[Number(taken, e)] = Outcome(SubSeq(taken, s + 1, e - 1))
      BY <1>2, <1>4, LineAt
    <2>2. s + MaxLength + 1 < e /\ MaxLength \in Nat /\ e \in Nat /\ e <= Len(taken) /\ Len(taken) \in Nat
      <3>1. e \in Ends(taken) /\ s < e /\ e \in Nat /\ e <= Len(taken) /\ Len(taken) \in Nat
        BY <1>2, <1>4, EndsFinite DEF Line
      <3>. QED  BY <1>1, <1>2, <3>1, LineCodecAssumption DEF Skipping
    <2>3. Len(SubSeq(taken, s + 1, e - 1)) > MaxLength
      <3>1. PICK n : n = e - 1 - s
        OBVIOUS
      <3>2. n \in Nat /\ s + n = e - 1 /\ s + n <= Len(taken) /\ n > MaxLength
        BY <1>2, <2>2, <3>1
      <3>3. Len(SubSeq(taken, s + 1, s + n)) = n
        BY <1>2, <3>2, Middle
      <3>. QED  BY <3>2, <3>3
    <2>. QED  BY <2>1, <2>3 DEF Outcome
  <1>6. Buffered' /\ Searched' /\ Decoded'
    <2>1. /\ Len(items') = Number(taken, s) + 1
          /\ \A k \in 1 .. Number(taken, s) : items'[k] = Lines(taken)[k]
          /\ items'[Number(taken, s) + 1] = Lines(taken)[Number(taken, s) + 1]
      BY <1>1, <1>5 DEF At, Skipping, StopDiscarding
    <2>2. /\ Newlines # {} /\ Advance(FirstNewline) /\ UNCHANGED taken
          /\ nextIndex' = 0 /\ discarding' = FALSE
      BY DEF StopDiscarding, LineStart
    <2>. QED  BY <1>1, <1>2, <2>1, <2>2, NextLine
  <1>7. Modes'
    BY DEF Modes, StopDiscarding
  <1>. QED  BY <1>6, <1>7 DEF DecoderInv

LEMMA FoundKeeps ==
    ASSUME DecoderInv, TypeOK', FoundLine
    PROVE  DecoderInv'
  <1>1. Newlines # {} /\ ~discarding /\ buf # <<>>
    <2>1. buf = <<>> => Len(buf) = 0
      BY EmptySeq
    <2>2. Newlines # {} => FirstNewline \in Nat /\ FirstNewline <= ReadTo /\ nextIndex < FirstNewline
      BY FirstIs DEF DecoderInv
    <2>. QED  BY <2>1, <2>2, Limits DEF FoundLine, DecoderInv
  <1>2. PICK s \in 0 .. Len(taken) : At(s) /\ Reading(s)
    BY <1>1 DEF DecoderInv, Decoded, AtEnd, Skipping
  <1>3. s \in Nat /\ Number(taken, s) \in Nat /\ taken \in Seq(Bytes) /\ s = Consumed
    <2>1. taken \in Seq(Bytes)
      BY DEF DecoderInv, TypeOK
    <2>. QED  BY <1>2, <2>1, EndsFinite DEF Reading
  <1>4. PICK e : e = Consumed + FirstNewline
    OBVIOUS
  <1>5. /\ Line(taken, s, e) /\ FirstNewline \in 1 .. Len(buf) /\ FirstNewline <= MaxLength + 1
        /\ MaxLength \in Nat /\ Len(buf) \in Nat /\ buf \in Seq(Bytes)
    BY <1>1, <1>2, <1>3, <1>4, LineSeen, Limits DEF DecoderInv
  <1>6. PICK n : n = FirstNewline - 1
    OBVIOUS
  <1>7. n \in 0 .. Len(buf) /\ n <= MaxLength /\ Consumed + n = e - 1
    BY <1>3, <1>4, <1>5, <1>6
  <1>8. Lines(taken)[Number(taken, s) + 1] = Parse(SubSeq(buf, 1, n))
    <2>1. /\ Number(taken, e) = Number(taken, s) + 1
          /\ Lines(taken)[Number(taken, e)] = Outcome(SubSeq(taken, s + 1, e - 1))
      BY <1>3, <1>5, LineAt
    <2>2. SubSeq(taken, s + 1, e - 1) = SubSeq(buf, 1, n)
      BY <1>3, <1>7, SameBytes DEF DecoderInv
    <2>3. ~ (Len(SubSeq(buf, 1, n)) > MaxLength)
      BY <1>5, <1>7, Cut
    <2>. QED  BY <2>1, <2>2, <2>3 DEF Outcome
  <1>9. PICK item \in Messages \cup {Error} : item = Parse(SubSeq(buf, 1, n))
    BY ParseTyped
  <1>10. Emit(item) /\ (mode' = mode \/ (item = Error /\ (IF eof THEN mode' = "over" ELSE mode' \in {"errored", "over"})))
    BY <1>6, <1>9 DEF FoundLine, Fail
  <1>11. /\ \A k \in 1 .. Number(taken, s) : items'[k] = Lines(taken)[k]
         /\ items'[Number(taken, s) + 1] = item /\ Len(items') = Number(taken, s) + 1
         /\ item = Error => Failed'
    BY <1>2, <1>3, <1>10, OneMore DEF DecoderInv, Reading
  <1>12. Buffered' /\ Searched' /\ Decoded'
    <2>1. Advance(FirstNewline) /\ UNCHANGED taken /\ nextIndex' = 0 /\ discarding' = FALSE
      BY <1>1 DEF FoundLine, LineStart, DecoderInv, TypeOK
    <2>. QED  BY <1>1, <1>2, <1>3, <1>8, <1>9, <1>11, <2>1, NextLine
  <1>13. Modes'
    BY <1>10, <1>11 DEF Modes, FoundLine
  <1>. QED  BY <1>12, <1>13 DEF DecoderInv

LEMMA DiscardKeeps ==
    ASSUME DecoderInv, TypeOK', Discard
    PROVE  DecoderInv'
  <1>1. PICK s \in 0 .. Len(taken) : At(s) /\ Skipping(s)
    BY DEF DecoderInv, Decoded, AtEnd, Reading, Discard
  <1>2. /\ ReadTo \in Nat /\ ReadTo \in 0 .. Len(buf) /\ Advance(ReadTo) /\ UNCHANGED taken
        /\ \A i \in Nat : nextIndex < i /\ i <= ReadTo => buf[i] # Newline
    BY Limits, NoneThere DEF Discard, DecoderInv
  <1>3. Buffered' /\ Consumed' = Consumed + ReadTo /\ Len(buf') = Len(buf) - ReadTo
    BY <1>2, StillBuffered DEF DecoderInv
  <1>4. /\ Consumed \in Nat /\ Len(taken) = Consumed + Len(buf) /\ Len(buf) \in Nat
        /\ Ends(taken) \subseteq 1 .. Len(taken) /\ Len(taken) \in Nat
    BY InBuffer DEF DecoderInv
  <1>5. Ends(taken') = Ends(taken) /\ Number(taken', s) = Number(taken, s) /\ Lines(taken') = Lines(taken)
    BY <1>2
  <1>6. At(s)'
    <2>1. \A e \in Ends(taken) : e <= Consumed \/ Consumed + ReadTo < e
      BY <1>2, Behind DEF DecoderInv
    <2>2. s \in 0 .. Consumed /\ Boundary(taken, s) /\ \A e \in Ends(taken) : e <= s \/ Consumed < e
      BY <1>1 DEF At
    <2>3. \A e \in Ends(taken) : e <= s \/ Consumed + ReadTo < e
      BY <1>4, <2>1, <2>2
    <2>4. s \in 0 .. Consumed' /\ Boundary(taken', s)
      BY <1>2, <1>3, <1>4, <1>5, <2>2 DEF Boundary
    <2>. QED  BY <1>1, <1>3, <1>5, <2>3, <2>4 DEF At, Discard
  <1>7. Skipping(s)'
    BY <1>1, <1>2, <1>5 DEF Skipping, Discard
  <1>8. Decoded'
    BY <1>1, <1>2, <1>6, <1>7 DEF Decoded
  <1>9. Failed'
    <2>1. items # <<>>
      <3>1. taken \in Seq(Bytes) /\ s \in Nat
        BY DEF DecoderInv, TypeOK
      <3>2. Number(taken, s) \in Nat
        BY <3>1, EndsFinite
      <3>3. Len(items) # 0
        BY <1>1, <3>2 DEF Skipping
      <3>. QED  BY <3>3, EmptySeq
    <2>. QED  BY <1>1, <2>1 DEF Skipping, Failed, Last, Discard
  <1>10. Modes'
    BY <1>9 DEF Modes, Discard, DecoderInv, TypeOK
  <1>11. Searched'
    BY DEF Searched, Discard, LineStart
  <1>. QED  BY <1>3, <1>8, <1>10, <1>11 DEF DecoderInv

LEMMA TooLongKeeps ==
    ASSUME DecoderInv, TypeOK', LineTooLong
    PROVE  DecoderInv'
  <1>1. /\ ~discarding /\ Newlines = {} /\ Len(buf) > MaxLength /\ MaxLength \in Nat /\ ReadTo = MaxLength + 1
        /\ UNCHANGED <<taken, buf, nextIndex>> /\ discarding' = TRUE /\ Emit(Error) /\ Len(buf) \in Nat
        /\ IF eof THEN mode' = "over" ELSE mode' \in {"errored", "over"}
    BY Limits DEF LineTooLong, Fail, DecoderInv
  <1>2. buf # <<>>
    BY <1>1, EmptySeq
  <1>3. PICK s \in 0 .. Len(taken) : At(s) /\ Reading(s)
    BY <1>1, <1>2 DEF DecoderInv, Decoded, AtEnd, Skipping
  <1>4. s \in Nat /\ s = Consumed /\ Len(taken) = Consumed + Len(buf) /\ Len(taken) \in Nat
    BY <1>3, InBuffer DEF Reading, DecoderInv
  <1>5. /\ \A k \in 1 .. Number(taken, s) : items'[k] = Lines(taken)[k]
        /\ items'[Number(taken, s) + 1] = Error /\ Len(items') = Number(taken, s) + 1 /\ Failed'
    BY <1>1, <1>3, <1>4, OneMore DEF DecoderInv, Reading
  <1>6. \A e \in Ends(taken) : e <= s \/ s + MaxLength + 1 < e
    <2>1. \A e \in Ends(taken) : e <= Consumed \/ Consumed + (MaxLength + 1) < e
      BY <1>1, NoneThere, Behind DEF DecoderInv
    <2>2. Consumed + (MaxLength + 1) = s + MaxLength + 1
      BY <1>1, <1>4
    <2>. QED  BY <1>4, <2>1, <2>2
  <1>7. Buffered' /\ Searched' /\ Consumed' = Consumed
    BY <1>1 DEF DecoderInv, Buffered, Searched, Consumed
  <1>8. Ends(taken') = Ends(taken) /\ Number(taken', s) = Number(taken, s) /\ Lines(taken') = Lines(taken)
    BY <1>1
  <1>9. At(s)'
    BY <1>1, <1>3, <1>5, <1>7, <1>8 DEF At, Boundary
  <1>10. Skipping(s)'
    <2>1. s + MaxLength + 1 <= Len(taken)
      BY <1>1, <1>4
    <2>. QED  BY <1>1, <1>5, <1>6, <1>8, <2>1 DEF Skipping
  <1>11. Decoded'
    BY <1>1, <1>9, <1>10 DEF Decoded
  <1>12. Modes'
    BY <1>1, <1>5 DEF Modes, LineTooLong
  <1>. QED  BY <1>7, <1>11, <1>12 DEF DecoderInv

LEMMA WaitKeeps ==
    ASSUME DecoderInv, TypeOK', WaitForMore
    PROVE  DecoderInv'
  <1>1. /\ ~discarding /\ Newlines = {} /\ Len(buf) <= MaxLength /\ ~eof /\ nextIndex' = Len(buf)
        /\ UNCHANGED <<taken, buf, discarding, eof, items>> /\ mode' = "read"
    BY Limits DEF WaitForMore, DecoderInv
  <1>2. Searched'
    <2>1. \A i \in 1 .. nextIndex : buf[i] # Newline
      BY DEF DecoderInv, Searched
    <2>2. \A i \in Nat : nextIndex < i /\ i <= Len(buf) => buf[i] # Newline
      BY <1>1, NoneThere, Limits DEF DecoderInv
    <2>3. \A i \in 1 .. Len(buf) : i \in Nat /\ (i \in 1 .. nextIndex \/ nextIndex < i) /\ i <= Len(buf)
      BY Limits DEF DecoderInv
    <2>. QED  BY <1>1, <2>1, <2>2, <2>3 DEF Searched
  <1>3. Buffered' /\ Decoded'
    <2>1. \A s : At(s)' = At(s) /\ Reading(s)' = Reading(s)
      BY <1>1 DEF At, Reading, Consumed, Boundary, Number, Ends, Lines, End, Begin
    <2>2. \E s \in 0 .. Len(taken) : At(s) /\ Reading(s)
      BY <1>1 DEF DecoderInv, Decoded, AtEnd, Skipping
    <2>. QED  BY <1>1, <2>1, <2>2 DEF DecoderInv, Buffered, Decoded, Consumed
  <1>4. Modes'
    BY <1>1 DEF Modes
  <1>. QED  BY <1>2, <1>3, <1>4 DEF DecoderInv

\* All lines are items once the decoder is in the last.
LEMMA AllLines ==
    ASSUME TypeOK, NEW s \in Nat, At(s), Len(items) = Number(taken, s), Len(Lines(taken)) = Number(taken, s)
    PROVE  items = Lines(taken)
  <1>1. taken \in Seq(Bytes) /\ items \in Seq(Messages \cup {Error})
    BY DEF TypeOK
  <1>2. Lines(taken) \in Seq(Messages \cup {Error})
    BY <1>1, LinesTyped
  <1>. QED  BY <1>1, <1>2, SeqEqual DEF At

LEMMA LastKeeps ==
    ASSUME DecoderInv, TypeOK', LastLine
    PROVE  DecoderInv'
  <1>1. /\ ~discarding /\ Newlines = {} /\ Len(buf) <= MaxLength /\ eof = TRUE /\ nextIndex' = 0
        /\ UNCHANGED <<taken, discarding, eof>> /\ ReadTo = Len(buf) /\ Len(buf) \in Nat
        /\ buf \in Seq(Bytes) /\ taken \in Seq(Bytes) /\ MaxLength \in Nat
    BY Limits DEF LastLine, DecoderInv, TypeOK
  <1>2. Searched'
    BY <1>1 DEF Searched
  <1>3. CASE AtEnd
    <2>1. UNCHANGED <<buf, items>> /\ mode' = "over"
      BY <1>3 DEF AtEnd, LastLine
    <2>2. items = Reference(taken, TRUE) /\ buf = <<>>
      BY <1>3 DEF AtEnd
    <2>3. Reference(taken', TRUE) = Reference(taken, TRUE)
      BY <1>1
    <2>4. AtEnd' /\ Modes'
      BY <1>1, <2>1, <2>2, <2>3 DEF AtEnd, Modes
    <2>5. Buffered'
      BY <1>1, <2>1 DEF Buffered, DecoderInv, Consumed
    <2>. QED  BY <1>2, <2>4, <2>5 DEF DecoderInv, Decoded
  <1>4. CASE ~AtEnd
    <2>1. PICK s \in 0 .. Len(taken) : At(s) /\ Reading(s)
      BY <1>1, <1>4 DEF DecoderInv, Decoded, Skipping
    <2>2. /\ s \in Nat /\ s = Consumed /\ Len(taken) = Consumed + Len(buf) /\ Len(taken) \in Nat /\ s <= Len(taken)
          /\ Ends(taken) \subseteq 1 .. Len(taken) /\ Boundary(taken, s)
      BY <2>1, InBuffer DEF Reading, DecoderInv, At
    <2>3. \A e \in Ends(taken) : e <= s
      <3>1. \A e \in Ends(taken) : e <= Consumed \/ Consumed + Len(buf) < e
        BY <1>1, NoneThere, Behind DEF DecoderInv
      <3>. QED  BY <2>2, <3>1
    <2>4. Rest(taken) = buf
      <3>1. Rest(taken) = SubSeq(taken, Consumed + 1, Consumed + Len(buf))
        BY <2>2, <2>3, Finally DEF DecoderInv
      <3>2. Len(buf) \in 0 .. Len(buf)
        BY <1>1
      <3>. QED  BY <1>1, <3>1, <3>2, SameBytes, SubSeqFull DEF DecoderInv
    <2>5. items = Lines(taken)
      <3>1. Len(Lines(taken)) = Number(taken, s)
        BY <2>2, <2>3, Finally DEF DecoderInv
      <3>. QED  BY <2>1, <2>2, <3>1, AllLines DEF DecoderInv, Reading
    <2>6. CASE buf \in {<<>>, <<CarriageReturn>>}
      <3>1. UNCHANGED <<buf, items>> /\ mode' = "over"
        BY <2>6 DEF LastLine
      <3>2. Reference(taken, TRUE) = items
        BY <1>1, <2>4, <2>5, <2>6 DEF Reference
      <3>3. Reference(taken', TRUE) = Reference(taken, TRUE)
        BY <1>1
      <3>4. Modes'
        BY <1>1, <3>1, <3>2, <3>3 DEF Modes
      <3>5. Buffered' /\ Decoded'
        <4>1. \A t : At(t)' = At(t) /\ Reading(t)' = Reading(t)
          BY <1>1, <3>1 DEF At, Reading, Consumed, Boundary, Number, Ends, Lines, End, Begin
        <4>. QED  BY <1>1, <2>1, <3>1, <4>1 DEF Buffered, Decoded, DecoderInv, Consumed
      <3>. QED  BY <1>2, <3>4, <3>5 DEF DecoderInv
    <2>7. CASE buf \notin {<<>>, <<CarriageReturn>>}
      <3>1. PICK item \in Messages \cup {Error} : item = Parse(buf)
        BY ParseTyped
      <3>2. /\ buf' = <<>> /\ items' = Append(items, item)
            /\ mode' = "over" \/ mode' = "decode"
        BY <1>1, <2>7, <3>1 DEF LastLine, Fail, Emit
      <3>3. Reference(taken, TRUE) = items'
        <4>1. Outcome(buf) = item
          BY <1>1, <3>1 DEF Outcome
        <4>. QED  BY <2>4, <2>5, <2>7, <3>2, <4>1 DEF Reference
      <3>4. Reference(taken', TRUE) = Reference(taken, TRUE)
        BY <1>1
      <3>5. AtEnd' /\ Modes'
        BY <1>1, <3>2, <3>3, <3>4 DEF AtEnd, Modes
      <3>6. Buffered'
        <4>1. Len(buf') = 0
          BY <3>2, EmptySeq
        <4>. QED  BY <1>1, <2>2, <4>1 DEF Buffered
      <3>. QED  BY <1>2, <3>5, <3>6 DEF DecoderInv, Decoded
    <2>. QED  BY <2>6, <2>7
  <1>. QED  BY <1>3, <1>4

LEMMA DecoderNext ==
    ASSUME DecoderInv, [Next]_vars
    PROVE  DecoderInv'
  <1>0. TypeOK'
    BY TypesNext DEF DecoderInv
  <1>1. CASE (\E m \in Messages : Lock(m)) \/ Flush \/ Unlock \/ Break \/ OtherBytes \/ ReadEof \/ UNCHANGED vars
    <2>1. UNCHANGED <<taken, buf, decoder, items>> /\ (UNCHANGED <<mode, eof>> \/ (~eof /\ mode' = "decode"))
      BY <1>1 DEF Lock, Flush, Unlock, Break, OtherBytes, ReadEof, vars
    <2>. QED  BY <1>0, <2>1, Still
  <1>. QED
    BY <1>0, <1>1, ReadKeeps, StopKeeps, FoundKeeps, DiscardKeeps, TooLongKeeps, WaitKeeps, LastKeeps
       DEF Next, Send, Receive

LEMMA PrefixIs ==
    ASSUME NEW S, NEW s \in Seq(S), NEW t \in Seq(S), Len(s) <= Len(t), \A k \in 1 .. Len(s) : s[k] = t[k]
    PROVE  IsPrefix(s, t)
  <1>1. Len(s) \in Nat /\ Len(t) \in Nat /\ Len(s) \in 0 .. Len(t)
    BY LenProperties
  <1>2. /\ SubSeq(t, 1, Len(s)) \in Seq(S) /\ Len(SubSeq(t, 1, Len(s))) = Len(s)
        /\ \A k \in 1 .. Len(s) : SubSeq(t, 1, Len(s))[k] = t[k]
    BY <1>1, Cut
  <1>3. SubSeq(t, 1, Len(s)) = s
    BY <1>2, SeqEqual
  <1>4. SubSeq(s, 1, Len(s)) = s
    BY SubSeqFull
  <1>. QED  BY <1>3, <1>4 DEF IsPrefix

\* The items are what the lines amount to, unless the line it is in has more to say.
LEMMA ItemsAre ==
    ASSUME DecoderInv
    PROVE  /\ IsPrefix(items, Reference(taken, eof))
           /\ mode = "read" => items = Reference(taken, eof)
  <1>1. /\ items \in Seq(Messages \cup {Error}) /\ taken \in Seq(Bytes) /\ Lines(taken) \in Seq(Messages \cup {Error})
        /\ Len(Lines(taken)) = Cardinality(Ends(taken)) /\ Len(items) \in Nat /\ Len(Lines(taken)) \in Nat
        /\ eof \in BOOLEAN /\ discarding \in BOOLEAN /\ MaxLength \in Nat
    <2>1. items \in Seq(Messages \cup {Error}) /\ taken \in Seq(Bytes) /\ eof \in BOOLEAN /\ discarding \in BOOLEAN
      BY DEF DecoderInv, TypeOK
    <2>. QED  BY <2>1, LinesTyped, LenProperties, EndsFinite, LineCodecAssumption
  <1>2. PICK r : r = Reference(taken, eof)
    OBVIOUS
  <1>3. /\ r \in Seq(Messages \cup {Error}) /\ Len(Lines(taken)) <= Len(r)
        /\ \A k \in 1 .. Len(Lines(taken)) : r[k] = Lines(taken)[k]
    <2>1. \A line : Outcome(line) \in Messages \cup {Error}
      BY ParseTyped DEF Outcome
    <2>2. r = Lines(taken) \/ r = Append(Lines(taken), Outcome(Rest(taken)))
      BY <1>2 DEF Reference
    <2>3. CASE r = Lines(taken)
      BY <1>1, <2>3
    <2>4. CASE r = Append(Lines(taken), Outcome(Rest(taken)))
      <3>1. PICK l \in Seq(Messages \cup {Error}), x \in Messages \cup {Error} :
              l = Lines(taken) /\ x = Outcome(Rest(taken))
        BY <1>1, <2>1
      <3>2. r = Append(l, x) /\ Len(l) \in Nat
        BY <1>1, <2>4, <3>1
      <3>3. r \in Seq(Messages \cup {Error}) /\ Len(r) = Len(l) + 1 /\ \A k \in 1 .. Len(l) : r[k] = l[k]
        BY <3>2, AppendProperties
      <3>. QED  BY <3>1, <3>2, <3>3
    <2>. QED  BY <2>2, <2>3, <2>4
  <1>4. CASE AtEnd
    <2>1. items = r /\ eof
      BY <1>1, <1>2, <1>4 DEF AtEnd
    <2>2. IsPrefix(items, r)
      BY <1>1, <1>3, <2>1, PrefixIs
    <2>. QED  BY <1>2, <2>1, <2>2
  <1>5. CASE ~AtEnd
    <2>1. PICK s \in 0 .. Len(taken) : At(s) /\ (Reading(s) \/ Skipping(s))
      BY <1>5 DEF DecoderInv, Decoded
    <2>2. /\ s \in Nat /\ s <= Len(taken) /\ Boundary(taken, s) /\ Len(taken) \in Nat /\ Consumed \in Nat
          /\ Len(taken) = Consumed + Len(buf) /\ Len(buf) \in Nat /\ Ends(taken) \subseteq 1 .. Len(taken)
          /\ s <= Consumed /\ \A e \in Ends(taken) : e <= s \/ Consumed < e
      BY <2>1, InBuffer DEF DecoderInv, At
    <2>3. Number(taken, s) \in Nat /\ Number(taken, s) <= Len(Lines(taken))
      BY <1>1, <2>2, EndsFinite, NumbersGrow
    <2>4. \A k \in 1 .. Number(taken, s) : items[k] = r[k]
      <3>1. \A k \in 1 .. Number(taken, s) : k \in 1 .. Len(Lines(taken))
        BY <1>1, <2>3
      <3>. QED  BY <1>3, <2>1, <3>1 DEF At
    <2>5. CASE Reading(s)
      <3>1. IsPrefix(items, r)
        BY <1>1, <1>3, <2>3, <2>4, <2>5, PrefixIs DEF Reading
      <3>2. ASSUME mode = "read"
            PROVE  items = r
        <4>1. /\ ~eof /\ nextIndex = Len(buf) /\ Len(buf) <= MaxLength /\ s = Consumed
              /\ Len(items) = Number(taken, s)
          BY <2>5, <3>2 DEF DecoderInv, Modes, Reading
        <4>2. \A e \in Ends(taken) : e <= s
          <5>1. \A i \in Nat : nextIndex < i /\ i <= Len(buf) => buf[i] # Newline
            BY <2>2, <4>1
          <5>2. \A e \in Ends(taken) : e <= Consumed \/ Consumed + Len(buf) < e
            BY <2>2, <5>1, Behind DEF DecoderInv
          <5>. QED  BY <2>2, <4>1, <5>2
        <4>3. Len(Rest(taken)) = Len(taken) - s /\ Len(Lines(taken)) = Number(taken, s)
          BY <2>2, <4>2, Finally DEF DecoderInv
        <4>4. ~ (Len(Rest(taken)) > MaxLength)
          BY <1>1, <2>2, <4>1, <4>3
        <4>5. r = Lines(taken)
          BY <1>2, <4>1, <4>4 DEF Reference
        <4>6. items = Lines(taken)
          BY <2>1, <2>2, <4>1, <4>3, AllLines DEF DecoderInv
        <4>. QED  BY <4>5, <4>6
      <3>. QED  BY <1>2, <3>1, <3>2
    <2>6. CASE Skipping(s)
      <3>1. /\ discarding /\ Len(items) = Number(taken, s) + 1 /\ items[Number(taken, s) + 1] = Error
            /\ s + MaxLength + 1 <= Len(taken)
        BY <2>6 DEF Skipping
      <3>2. ASSUME \A e \in Ends(taken) : e <= s
            PROVE  items = r
        <4>1. /\ Len(Lines(taken)) = Number(taken, s)
              /\ MaxLength < Len(taken) - s => Reference(taken, eof) = Append(Lines(taken), Error)
          BY <1>1, <2>2, <3>2, Finally DEF DecoderInv
        <4>2. MaxLength < Len(taken) - s
          BY <1>1, <2>2, <3>1
        <4>3. r = Append(Lines(taken), Error)
          BY <1>2, <4>1, <4>2
        <4>4. Len(r) = Len(items) /\ r[Number(taken, s) + 1] = Error
          BY <1>1, <3>1, <4>1, <4>3, AppendProperties
        <4>5. \A k \in 1 .. Len(items) : items[k] = r[k]
          <5>1. \A k \in 1 .. Len(items) : k \in 1 .. Number(taken, s) \/ k = Number(taken, s) + 1
            BY <2>3, <3>1
          <5>. QED  BY <2>4, <3>1, <4>4, <5>1
        <4>. QED  BY <1>1, <1>3, <4>4, <4>5, SeqEqual
      <3>3. ASSUME ~ (\A e \in Ends(taken) : e <= s)
            PROVE  IsPrefix(items, r)
        <4>1. \E e \in Ends(taken) : s < e
          BY <2>2, <3>3
        <4>2. PICK e \in Ends(taken) : s < e /\ \A k \in Ends(taken) : k <= s \/ e <= k
          BY <1>1, <2>2, <4>1, FirstEnd
        <4>3. Line(taken, s, e)
          BY <2>2, <4>2 DEF Line
        <4>4. /\ Number(taken, e) = Number(taken, s) + 1 /\ Number(taken, e) \in 1 .. Cardinality(Ends(taken))
              /\ Lines(taken)[Number(taken, e)] = Outcome(SubSeq(taken, s + 1, e - 1))
          BY <1>1, <4>3, LineAt
        <4>5. s + MaxLength + 1 < e /\ e \in Nat /\ e <= Len(taken)
          BY <2>2, <2>6, <4>2 DEF Skipping
        <4>6. Len(SubSeq(taken, s + 1, e - 1)) > MaxLength
          <5>1. PICK n : n = e - 1 - s
            OBVIOUS
          <5>2. n \in Nat /\ s + n = e - 1 /\ s + n <= Len(taken) /\ n > MaxLength
            BY <1>1, <2>2, <4>5, <5>1
          <5>3. Len(SubSeq(taken, s + 1, s + n)) = n
            BY <1>1, <2>2, <5>2, Middle
          <5>. QED  BY <5>2, <5>3
        <4>7. Lines(taken)[Number(taken, s) + 1] = Error
          BY <4>4, <4>6 DEF Outcome
        <4>8. Number(taken, s) + 1 \in 1 .. Len(Lines(taken)) /\ r[Number(taken, s) + 1] = Error
          BY <1>1, <1>3, <4>4, <4>7
        <4>9. \A k \in 1 .. Len(items) : items[k] = r[k]
          <5>1. \A k \in 1 .. Len(items) : k \in 1 .. Number(taken, s) \/ k = Number(taken, s) + 1
            BY <2>3, <3>1
          <5>. QED  BY <2>4, <3>1, <4>8, <5>1
        <4>10. Len(items) <= Len(r)
          BY <1>1, <1>3, <3>1, <4>8, LenProperties
        <4>. QED  BY <1>1, <1>3, <4>9, <4>10, PrefixIs
      <3>4. IsPrefix(items, r)
        BY <1>1, <1>3, <3>2, <3>3, PrefixIs
      <3>5. ASSUME mode = "read"
            PROVE  items = r
        <4>1. buf = <<>>
          BY <3>1, <3>5 DEF DecoderInv, Modes
        <4>2. Len(buf) = 0
          BY <4>1, EmptySeq
        <4>3. \A e \in Ends(taken) : e <= s
          BY <2>2, <4>2
        <4>. QED  BY <3>2, <4>3
      <3>. QED  BY <1>2, <3>4, <3>5
    <2>. QED  BY <2>1, <2>5, <2>6
  <1>. QED  BY <1>4, <1>5

\* However the bytes are cut into pieces, whatever other bytes are among them and however long a
\* line is, for any maximal length, the reader gets what the lines of those bytes amount to, in
\* order, and lacks none of it when it waits for more or the stream ends (async_rw.rs 198-275).
THEOREM LinesAreFound == Spec => []PiecesDoNotMatter
  <1>1. DecoderInv => PiecesDoNotMatter
    <2>1. DecoderInv => (mode = "over" /\ ~Failed => items = Reference(taken, eof))
      BY DEF DecoderInv, Modes, TypeOK
    <2>. QED  BY <2>1, ItemsAre DEF PiecesDoNotMatter
  <1>. QED  BY <1>1, DecoderInit, DecoderNext, PTL DEF Spec

-----------------------------------------------------------------------------
\* ---- whole messages
\* What was sent lies on the pipe, before it or behind it.
Sent == taken \o pipe \o unwritten

\* The i-th byte belongs to the frame of the k-th message, each a text, its brace and a newline.
InFrames(s, l) ==
    \A i \in 1 .. Len(s) : \E k \in 1 .. Len(l) :
        \/ i = 3 * k - 2 /\ s[i] = l[k]
        \/ i = 3 * k - 1 /\ s[i] = Brace
        \/ i = 3 * k /\ s[i] = Newline

Written ==
    /\ noise = 0 => Len(Sent) = 3 * Len(locked) /\ InFrames(Sent, locked)
    /\ ~broken /\ holder = None => unwritten = <<>>
    /\ noise = 0 /\ eof /\ ~broken =>
        pipe = <<>> /\ holder = None /\ \A m \in Messages : Contains(locked, m)

\* A message, the brace and the newline are not confused.
LEMMA Distinct ==
    /\ Brace # Newline /\ CarriageReturn # Brace /\ CarriageReturn # Newline
    /\ \A m \in Messages : m # Newline /\ m # Brace /\ m # CarriageReturn /\ m # None /\ m # Error
  <1>1. ASSUME NEW a, NEW b, NEW c
        PROVE  IsFiniteSet({a, b, c}) /\ Cardinality({a, b, c}) \in Nat /\ Cardinality({a, b, c}) <= 3
    <2>1. {a, b} = {a} \cup {b} /\ {a, b, c} = {a, b} \cup {c}
      OBVIOUS
    <2>2. IsFiniteSet({a}) /\ Cardinality({a}) = 1
      BY FS_Singleton
    <2>3. IsFiniteSet({a, b}) /\ (Cardinality({a, b}) = 1 \/ Cardinality({a, b}) = 2)
      BY <2>1, <2>2, FS_AddElement
    <2>4. IsFiniteSet({a, b, c}) /\ (Cardinality({a, b, c}) = Cardinality({a, b})
                                     \/ Cardinality({a, b, c}) = Cardinality({a, b}) + 1)
      BY <2>1, <2>3, FS_AddElement
    <2>. QED  BY <2>3, <2>4
  <1>2. Cardinality({Newline, CarriageReturn, Brace, Junk}) = 4
    BY LineCodecAssumption
  <1>3. Brace # Newline
    <2>1. SUFFICES ASSUME Brace = Newline
                   PROVE  FALSE
      OBVIOUS
    <2>2. {Newline, CarriageReturn, Brace, Junk} = {Newline, CarriageReturn, Junk}
      BY <2>1
    <2>3. Cardinality({Newline, CarriageReturn, Junk}) = 4
      BY <1>2, <2>2
    <2>4. Cardinality({Newline, CarriageReturn, Junk}) <= 3
      BY <1>1
    <2>. QED  BY <2>3, <2>4
  <1>4. CarriageReturn # Brace
    <2>1. SUFFICES ASSUME CarriageReturn = Brace
                   PROVE  FALSE
      OBVIOUS
    <2>2. {Newline, CarriageReturn, Brace, Junk} = {Newline, Brace, Junk}
      BY <2>1
    <2>3. Cardinality({Newline, Brace, Junk}) = 4
      BY <1>2, <2>2
    <2>4. Cardinality({Newline, Brace, Junk}) <= 3
      BY <1>1
    <2>. QED  BY <2>3, <2>4
  <1>5. CarriageReturn # Newline
    <2>1. SUFFICES ASSUME CarriageReturn = Newline
                   PROVE  FALSE
      OBVIOUS
    <2>2. {Newline, CarriageReturn, Brace, Junk} = {Newline, Brace, Junk}
      BY <2>1
    <2>3. Cardinality({Newline, Brace, Junk}) = 4
      BY <1>2, <2>2
    <2>4. Cardinality({Newline, Brace, Junk}) <= 3
      BY <1>1
    <2>. QED  BY <2>3, <2>4
  <1>. QED  BY <1>3, <1>4, <1>5, LineCodecAssumption DEF Noise, Blank

LEMMA ParseMessage ==
    ASSUME NEW m \in Messages
    PROVE  Parse(<<m, Brace>>) = m /\ Parse(<<m>>) = Error
  <1>1. /\ DOMAIN <<m, Brace>> = {1, 2} /\ <<m, Brace>>[1] = m /\ <<m, Brace>>[2] = Brace
        /\ DOMAIN <<m>> = {1} /\ <<m>>[1] = m
    OBVIOUS
  <1>2. Reads(<<m, Brace>>, m)
    <2>1. \A k \in DOMAIN <<m, Brace>> \ {1, 2} : <<m, Brace>>[k] = CarriageReturn
      BY <1>1
    <2>2. 1 \in DOMAIN <<m, Brace>> /\ 2 \in DOMAIN <<m, Brace>> /\ 1 < 2
      BY <1>1
    <2>. QED  BY <1>1, <2>1, <2>2 DEF Reads
  <1>3. \A n \in Messages : Reads(<<m, Brace>>, n) => n = m
    <2>1. SUFFICES ASSUME NEW n \in Messages, Reads(<<m, Brace>>, n)
                   PROVE  n = m
      OBVIOUS
    <2>2. PICK i, j \in DOMAIN <<m, Brace>> : i < j /\ <<m, Brace>>[i] = n
      BY <2>1 DEF Reads
    <2>3. i = 1
      BY <1>1, <2>2
    <2>. QED  BY <1>1, <2>2, <2>3
  <1>4. {n \in Messages : Reads(<<m, Brace>>, n)} = {m}
    BY <1>2, <1>3
  <1>5. Parse(<<m, Brace>>) = m
    BY <1>4 DEF Parse
  <1>6. \A n : ~ Reads(<<m>>, n)
    <2>1. SUFFICES ASSUME NEW n, Reads(<<m>>, n)
                   PROVE  FALSE
      OBVIOUS
    <2>2. PICK i, j \in DOMAIN <<m>> : i < j
      BY <2>1 DEF Reads
    <2>. QED  BY <1>1, <2>2
  <1>7. {n \in Messages : Reads(<<m>>, n)} = {}
    BY <1>6
  <1>8. Parse(<<m>>) = Error
    BY <1>7 DEF Parse
  <1>. QED  BY <1>5, <1>8

LEMMA FrameEnds ==
    ASSUME NEW s \in Seq(Bytes), NEW l \in Seq(Messages), InFrames(s, l)
    PROVE  \A i \in 1 .. Len(s) : i \in Ends(s) <=> \E k \in 1 .. Len(l) : i = 3 * k
  <1>1. Len(s) \in Nat /\ Len(l) \in Nat /\ DOMAIN s = 1 .. Len(s) /\ \A k \in 1 .. Len(l) : l[k] \in Messages
    BY LenProperties, ElementOfSeq
  <1>2. SUFFICES ASSUME NEW i \in 1 .. Len(s)
                 PROVE  i \in Ends(s) <=> \E k \in 1 .. Len(l) : i = 3 * k
    OBVIOUS
  <1>3. PICK k \in 1 .. Len(l) : \/ i = 3 * k - 2 /\ s[i] = l[k]
                                 \/ i = 3 * k - 1 /\ s[i] = Brace
                                 \/ i = 3 * k /\ s[i] = Newline
    BY DEF InFrames
  <1>4. CASE i = 3 * k
    <2>1. s[i] = Newline
      BY <1>1, <1>3, <1>4
    <2>. QED  BY <1>1, <1>4, <2>1 DEF Ends
  <1>5. CASE i # 3 * k
    <2>1. s[i] # Newline
      BY <1>1, <1>3, <1>5, Distinct
    <2>2. \A j \in 1 .. Len(l) : i # 3 * j
      BY <1>1, <1>3, <1>5
    <2>. QED  BY <2>1, <2>2 DEF Ends
  <1>. QED  BY <1>4, <1>5

LEMMA FrameNumber ==
    ASSUME NEW s \in Seq(Bytes), NEW l \in Seq(Messages), InFrames(s, l), NEW n \in Nat, 3 * n <= Len(s)
    PROVE  Number(s, 3 * n) = n
  <1>1. /\ Len(s) \in Nat /\ Len(l) \in Nat /\ Number(s, 0) = 0 /\ Ends(s) \subseteq 1 .. Len(s)
    BY EndsFinite, LenProperties
  <1>2. \A i \in 1 .. Len(s) : i \in Ends(s) <=> \E k \in 1 .. Len(l) : i = 3 * k
    BY FrameEnds
  <1>3. PICK T : T = {j \in Nat : 3 * j <= Len(s) /\ Number(s, 3 * j) # j}
    OBVIOUS
  <1>4. ASSUME T # {}
        PROVE  FALSE
    <2>1. PICK j \in T : \A k \in T : j <= k
      BY <1>3, <1>4, Smallest
    <2>2. j \in Nat /\ 3 * j <= Len(s) /\ Number(s, 3 * j) # j
      BY <1>3, <2>1
    <2>3. j # 0
      BY <1>1, <2>2
    <2>4. PICK i : i = j - 1
      OBVIOUS
    <2>5. i \in Nat /\ 3 * i <= Len(s) /\ i \notin T /\ 3 * i \in Nat /\ 3 * j \in 1 .. Len(s)
          /\ 3 * j = 3 * i + 3 /\ i + 1 = j
      BY <1>1, <2>1, <2>2, <2>3, <2>4
    <2>6. Number(s, 3 * i) = i
      BY <1>3, <2>5
    <2>7. 3 * j \in Ends(s)
      <3>1. PICK k \in 1 .. Len(l) : 3 * j = 3 * k - 2 \/ 3 * j = 3 * k - 1 \/ 3 * j = 3 * k
        BY <2>5 DEF InFrames
      <3>2. 3 * j = 3 * k
        BY <1>1, <2>2, <3>1
      <3>. QED  BY <1>2, <2>5, <3>2
    <2>8. \A e \in Ends(s) : e <= 3 * i \/ 3 * j <= e
      <3>1. SUFFICES ASSUME NEW e \in Ends(s)
                     PROVE  e <= 3 * i \/ 3 * j <= e
        OBVIOUS
      <3>2. PICK k \in 1 .. Len(l) : e = 3 * k
        BY <1>1, <1>2
      <3>. QED  BY <1>1, <2>2, <2>5, <3>2
    <2>9. Number(s, 3 * j) = Number(s, 3 * i) + 1
      BY <2>5, <2>7, <2>8, NextNumber
    <2>. QED  BY <2>2, <2>5, <2>6, <2>9
  <1>. QED  BY <1>3, <1>4

\* A whole frame is a line with the outcome of its message.
LEMMA FrameLine ==
    ASSUME NEW s \in Seq(Bytes), NEW l \in Seq(Messages), InFrames(s, l), 1 < MaxLength,
           NEW k \in 1 .. Cardinality(Ends(s))
    PROVE  k \in 1 .. Len(l) /\ 3 * k <= Len(s) /\ Lines(s)[k] = l[k]
  <1>1. /\ Len(s) \in Nat /\ Len(l) \in Nat /\ Ends(s) \subseteq 1 .. Len(s) /\ MaxLength \in Nat
    BY EndsFinite, LenProperties, LineCodecAssumption
  <1>2. \A i \in 1 .. Len(s) : i \in Ends(s) <=> \E j \in 1 .. Len(l) : i = 3 * j
    BY FrameEnds
  <1>3. PICK i, e : Line(s, i, e) /\ Number(s, e) = k
    BY EveryLine
  <1>4. PICK j \in 1 .. Len(l) : e = 3 * j
    BY <1>1, <1>2, <1>3 DEF Line
  <1>5. i \in Nat /\ e \in Ends(s) /\ i < e /\ e <= Len(s) /\ \A f \in Ends(s) : f <= i \/ e <= f
    BY <1>1, <1>3 DEF Line
  <1>6. j = k
    <2>1. Number(s, 3 * j) = j
      BY <1>4, <1>5, FrameNumber
    <2>. QED  BY <1>3, <1>4, <2>1
  <1>7. i = 3 * k - 3
    <2>1. \E n \in Nat : i = 3 * n
      <3>1. CASE i = 0
        BY <3>1
      <3>2. CASE i \in Ends(s)
        <4>1. PICK m \in 1 .. Len(l) : i = 3 * m
          BY <1>1, <1>2, <3>2
        <4>2. m \in Nat
          OBVIOUS
        <4>. QED  BY <4>1, <4>2
      <3>. QED  BY <1>3, <3>1, <3>2 DEF Line, Boundary
    <2>2. k = 1 \/ 3 * (k - 1) \in Ends(s)
      <3>1. k # 1 => k - 1 \in 1 .. Len(l) /\ 3 * (k - 1) \in 1 .. Len(s)
        BY <1>1, <1>4, <1>5, <1>6
      <3>. QED  BY <1>2, <3>1
    <2>3. k = 1 \/ 3 * (k - 1) <= i
      BY <1>1, <1>4, <1>5, <1>6, <2>2
    <2>. QED  BY <1>1, <1>4, <1>5, <1>6, <2>1, <2>3
  <1>8. SubSeq(s, i + 1, e - 1) = <<l[k], Brace>>
    <2>1. i + 1 \in 1 .. Len(s) /\ i + 2 \in 1 .. Len(s) /\ e - 1 = i + 2
      BY <1>1, <1>4, <1>5, <1>6, <1>7
    <2>2. s[i + 1] = l[k]
      <3>1. PICK n \in 1 .. Len(l) : \/ i + 1 = 3 * n - 2 /\ s[i + 1] = l[n]
                                     \/ i + 1 = 3 * n - 1 \/ i + 1 = 3 * n
        BY <2>1 DEF InFrames
      <3>2. n = k /\ i + 1 = 3 * n - 2 /\ i + 1 # 3 * n - 1 /\ i + 1 # 3 * n
        BY <1>1, <1>4, <1>6, <1>7, <3>1
      <3>. QED  BY <3>1, <3>2
    <2>3. s[i + 2] = Brace
      <3>1. PICK n \in 1 .. Len(l) : \/ i + 2 = 3 * n - 2
                                     \/ i + 2 = 3 * n - 1 /\ s[i + 2] = Brace
                                     \/ i + 2 = 3 * n
        BY <2>1 DEF InFrames
      <3>. QED  BY <1>1, <1>4, <1>6, <1>7, <3>1
    <2>4. i \in Nat /\ 2 \in Nat /\ i + 2 <= Len(s)
      BY <1>5, <2>1
    <2>5. /\ SubSeq(s, i + 1, i + 2) \in Seq(Bytes) /\ Len(SubSeq(s, i + 1, i + 2)) = 2
          /\ \A n \in 1 .. 2 : SubSeq(s, i + 1, i + 2)[n] = s[i + n]
      BY <2>4, Middle
    <2>6. SubSeq(s, i + 1, i + 2)[1] = l[k] /\ SubSeq(s, i + 1, i + 2)[2] = Brace
      <3>1. 1 \in 1 .. 2 /\ 2 \in 1 .. 2
        OBVIOUS
      <3>. QED  BY <2>2, <2>3, <2>5, <3>1
    <2>7. l[k] \in Bytes /\ Brace \in Bytes
      BY <1>4, <1>6, ElementOfSeq DEF Bytes
    <2>8. PICK t : t = <<l[k], Brace>>
      OBVIOUS
    <2>9. /\ t \in Seq(Bytes) /\ Len(t) = 2 /\ \A n \in 1 .. 2 : SubSeq(s, i + 1, i + 2)[n] = t[n]
      <3>1. t \in Seq(Bytes) /\ Len(t) = 2 /\ t[1] = l[k] /\ t[2] = Brace
        BY <2>7, <2>8
      <3>2. \A n \in 1 .. 2 : n = 1 \/ n = 2
        OBVIOUS
      <3>. QED  BY <2>6, <3>1, <3>2
    <2>10. SubSeq(s, i + 1, i + 2) = t
      <3>1. PICK u : u = SubSeq(s, i + 1, i + 2)
        OBVIOUS
      <3>2. u \in Seq(Bytes) /\ Len(u) = 2
        BY <2>5, <3>1
      <3>3. t \in Seq(Bytes) /\ Len(t) = 2 /\ \A n \in 1 .. Len(u) : u[n] = t[n]
        BY <2>9, <3>1, <3>2
      <3>. QED  BY <3>1, <3>2, <3>3, SeqEqual
    <2>. QED  BY <2>1, <2>8, <2>10
  <1>9. Lines(s)[k] = Outcome(<<l[k], Brace>>)
    <2>1. Lines(s)[Number(s, e)] = Outcome(SubSeq(s, i + 1, e - 1))
      BY <1>3, LineAt
    <2>. QED  BY <1>3, <1>8, <2>1
  <1>10. Outcome(<<l[k], Brace>>) = l[k]
    <2>1. l[k] \in Messages /\ Len(<<l[k], Brace>>) = 2
      BY <1>4, <1>6, ElementOfSeq
    <2>2. ~ (Len(<<l[k], Brace>>) > MaxLength)
      BY <1>1, <2>1
    <2>. QED  BY <2>1, <2>2, ParseMessage DEF Outcome
  <1>. QED  BY <1>4, <1>5, <1>6, <1>9, <1>10

\* What is left behind the last whole frame is a part of one.
LEMMA FrameRest ==
    ASSUME NEW s \in Seq(Bytes), NEW l \in Seq(Messages), InFrames(s, l), 1 < MaxLength,
           NEW n \in Nat, n = Cardinality(Ends(s))
    PROVE  /\ 3 * n <= Len(s) /\ Len(s) < 3 * n + 3
           /\ Rest(s) = SubSeq(s, 3 * n + 1, Len(s)) /\ Len(Rest(s)) = Len(s) - 3 * n
           /\ Rest(s) # <<>> => n + 1 \in 1 .. Len(l) /\ Outcome(Rest(s)) \in {l[n + 1], Error}
  <1>0. Len(s) \in Nat /\ Len(l) \in Nat /\ MaxLength \in Nat
    BY LenProperties, LineCodecAssumption
  <1>1. Ends(s) \subseteq 1 .. Len(s) /\ Number(s, Len(s)) = n
    BY EndsFinite
  <1>2. \A i \in 1 .. Len(s) : i \in Ends(s) <=> \E j \in 1 .. Len(l) : i = 3 * j
    BY FrameEnds
  <1>3. 3 * n <= Len(s) /\ (n # 0 => n \in 1 .. Len(l))
    <2>1. CASE n = 0
      BY <1>0, <2>1
    <2>2. CASE n # 0
      <3>1. n \in 1 .. Cardinality(Ends(s))
        BY <2>2
      <3>. QED  BY <3>1, FrameLine
    <2>. QED  BY <2>1, <2>2
  <1>4. Len(s) < 3 * n + 3
    <2>1. SUFFICES ASSUME 3 * (n + 1) <= Len(s)
                   PROVE  FALSE
      BY <1>0
    <2>2. PICK k \in Nat : k = n + 1 /\ 3 * k \in Nat /\ 3 * k <= Len(s)
      BY <2>1
    <2>3. Number(s, 3 * k) = k
      BY <2>2, FrameNumber
    <2>4. Number(s, 3 * k) <= Number(s, Len(s))
      BY <1>0, <2>2, NumbersGrow
    <2>. QED  BY <1>1, <2>2, <2>3, <2>4
  <1>5. Boundary(s, 3 * n) /\ \A e \in Ends(s) : e <= 3 * n
    <2>1. n = 0 \/ 3 * n \in Ends(s)
      <3>1. n # 0 => 3 * n \in 1 .. Len(s)
        BY <1>0, <1>3
      <3>. QED  BY <1>2, <1>3, <3>1
    <2>2. \A e \in Ends(s) : e <= 3 * n
      <3>1. SUFFICES ASSUME NEW e \in Ends(s)
                     PROVE  e <= 3 * n
        OBVIOUS
      <3>2. PICK j \in 1 .. Len(l) : e = 3 * j
        BY <1>1, <1>2
      <3>3. e <= Len(s)
        BY <1>0, <1>1
      <3>. QED  BY <1>0, <1>4, <3>2, <3>3
    <2>. QED  BY <2>1, <2>2 DEF Boundary
  <1>6. Rest(s) = SubSeq(s, 3 * n + 1, Len(s))
    <2>1. 3 * n \in Nat
      OBVIOUS
    <2>. QED  BY <1>3, <1>5, <2>1, RestAt
  <1>7. PICK d : d = Len(s) - 3 * n
    OBVIOUS
  <1>8. d \in Nat /\ 3 * n + d = Len(s) /\ 3 * n \in Nat /\ d \in {0, 1, 2}
    <2>1. 3 * n <= Len(s)
      BY <1>3
    <2>2. d \in Nat /\ 3 * n + d = Len(s) /\ 3 * n \in Nat
      <3>1. PICK x \in Nat, c \in Nat : x = Len(s) /\ c = 3 * n
        BY <1>0
      <3>2. d = x - c /\ c <= x
        BY <1>7, <2>1, <3>1
      <3>3. d \in Nat /\ c + d = x
        BY <3>2
      <3>. QED  BY <3>1, <3>3
    <2>3. d < 3
      BY <1>0, <1>4, <1>7
    <2>. QED  BY <2>2, <2>3
  <1>9. /\ Rest(s) \in Seq(Bytes) /\ Len(Rest(s)) = d
        /\ \A i \in 1 .. d : Rest(s)[i] = s[3 * n + i]
    <2>1. PICK c \in Nat : c = 3 * n
      BY <1>8
    <2>2. d \in Nat /\ c + d <= Len(s)
      BY <1>0, <1>8, <2>1
    <2>3. /\ SubSeq(s, c + 1, c + d) \in Seq(Bytes) /\ Len(SubSeq(s, c + 1, c + d)) = d
          /\ \A i \in 1 .. d : SubSeq(s, c + 1, c + d)[i] = s[c + i]
      BY <2>2, Middle
    <2>. QED  BY <1>6, <1>8, <2>1, <2>3
  <1>10. ASSUME Rest(s) # <<>>
         PROVE  n + 1 \in 1 .. Len(l) /\ Outcome(Rest(s)) \in {l[n + 1], Error}
    <2>1. d # 0
      BY <1>9, <1>10, EmptySeq
    <2>2. 3 * n + 1 \in 1 .. Len(s)
      BY <1>0, <1>8, <2>1
    <2>3. PICK k \in 1 .. Len(l) : \/ 3 * n + 1 = 3 * k - 2 /\ s[3 * n + 1] = l[k]
                                   \/ 3 * n + 1 = 3 * k - 1 \/ 3 * n + 1 = 3 * k
      BY <2>2 DEF InFrames
    <2>4. k = n + 1 /\ s[3 * n + 1] = l[k]
      BY <1>0, <2>3
    <2>5. l[k] \in Messages /\ l[k] \in Bytes /\ Brace \in Bytes
      BY ElementOfSeq DEF Bytes
    <2>6. CASE d = 1
      <3>1. 1 \in 1 .. d /\ Rest(s)[1] = l[k]
        BY <1>9, <2>4, <2>6
      <3>2. PICK t : t = <<l[k]>>
        OBVIOUS
      <3>2a. t \in Seq(Bytes) /\ Len(t) = 1 /\ t[1] = l[k]
        BY <2>5, <3>2
      <3>3. \A i \in 1 .. Len(Rest(s)) : Rest(s)[i] = t[i]
        BY <1>9, <2>6, <3>1, <3>2a
      <3>4. Rest(s) = t
        BY <1>9, <2>6, <3>2a, <3>3, SeqEqual
      <3>5. Outcome(Rest(s)) = Error
        BY <2>5, <3>2, <3>4, ParseMessage DEF Outcome
      <3>. QED  BY <2>4, <3>5
    <2>7. CASE d = 2
      <3>1. 3 * n + 2 \in 1 .. Len(s)
        BY <1>0, <1>8, <2>7
      <3>2. PICK j \in 1 .. Len(l) : \/ 3 * n + 2 = 3 * j - 2
                                     \/ 3 * n + 2 = 3 * j - 1 /\ s[3 * n + 2] = Brace
                                     \/ 3 * n + 2 = 3 * j
        BY <3>1 DEF InFrames
      <3>3. s[3 * n + 2] = Brace
        BY <1>0, <3>2
      <3>4. 1 \in 1 .. d /\ 2 \in 1 .. d /\ Rest(s)[1] = l[k] /\ Rest(s)[2] = Brace
        BY <1>9, <2>4, <2>7, <3>3
      <3>5. PICK t : t = <<l[k], Brace>>
        OBVIOUS
      <3>5a. t \in Seq(Bytes) /\ Len(t) = 2 /\ t[1] = l[k] /\ t[2] = Brace
        BY <2>5, <3>5
      <3>6. \A i \in 1 .. Len(Rest(s)) : Rest(s)[i] = t[i]
        BY <1>9, <2>7, <3>4, <3>5a
      <3>7. Rest(s) = t
        BY <1>9, <2>7, <3>5a, <3>6, SeqEqual
      <3>8. Outcome(Rest(s)) = l[k]
        <4>1. ~ (Len(t) > MaxLength)
          BY <1>0, <3>5a
        <4>. QED  BY <2>5, <3>5, <3>7, <4>1, ParseMessage DEF Outcome
      <3>. QED  BY <2>4, <3>8
    <2>. QED  BY <1>8, <2>1, <2>6, <2>7
  <1>. QED  BY <1>3, <1>4, <1>6, <1>7, <1>9, <1>10

LEMMA WrittenInit == Init => Written
  <1>. SUFFICES ASSUME Init PROVE Written
    OBVIOUS
  <1>1. taken = <<>> /\ pipe = <<>> /\ unwritten = <<>> /\ locked = <<>> /\ eof = FALSE
    BY DEF Init
  <1>2. Sent = <<>>
    BY <1>1 DEF Sent
  <1>3. Len(Sent) = 0 /\ Len(locked) = 0
    BY <1>1, <1>2, EmptySeq
  <1>. QED  BY <1>1, <1>3 DEF Written, InFrames

LEMMA SentTyped ==
    ASSUME TypeOK
    PROVE  /\ taken \in Seq(Bytes) /\ pipe \in Seq(Bytes) /\ unwritten \in Seq(Bytes)
           /\ Sent \in Seq(Bytes) /\ Len(Sent) \in Nat /\ Len(taken) \in Nat
           /\ Len(taken) <= Len(Sent) /\ \A i \in 1 .. Len(taken) : taken[i] = Sent[i]
           /\ pipe = <<>> /\ unwritten = <<>> => Sent = taken
  <1>1. taken \in Seq(Bytes) /\ pipe \in Seq(Bytes) /\ unwritten \in Seq(Bytes)
    BY DEF TypeOK
  <1>2. PICK rest \in Seq(Bytes) : rest = pipe \o unwritten
    BY <1>1, ConcatProperties
  <1>3. Sent = taken \o rest
    BY <1>1, <1>2, ConcatAssociative DEF Sent
  <1>4. /\ Sent \in Seq(Bytes) /\ Len(Sent) = Len(taken) + Len(rest) /\ Len(taken) \in Nat /\ Len(rest) \in Nat
    BY <1>1, <1>3, ConcatProperties, LenProperties
  <1>5. \A i \in 1 .. Len(taken) : taken[i] = Sent[i]
    <2>1. \A i \in 1 .. Len(taken) : i \in 1 .. Len(taken) + Len(rest) /\ i <= Len(taken)
      BY <1>4
    <2>. QED  BY <1>1, <1>3, <2>1, ConcatProperties
  <1>6. pipe = <<>> /\ unwritten = <<>> => Sent = taken
    BY <1>1, ConcatEmptySeq DEF Sent
  <1>. QED  BY <1>1, <1>4, <1>5, <1>6

\* A frame more: t and k are w and l with the frame of m and m at their ends.
FrameMore(w, l, t, k, m, n) ==
    /\ Len(w) = 3 * n /\ Len(l) = n /\ Len(t) = 3 * n + 3 /\ Len(k) = n + 1
    /\ \A i \in 1 .. 3 * n : t[i] = w[i]
    /\ \A i \in 1 .. n : k[i] = l[i]
    /\ k[n + 1] = m /\ t[3 * n + 1] = m /\ t[3 * n + 2] = Brace /\ t[3 * n + 3] = Newline

LEMMA AnotherFrame ==
    ASSUME NEW w, NEW l, NEW t, NEW k, NEW m, NEW n \in Nat, InFrames(w, l), FrameMore(w, l, t, k, m, n)
    PROVE  InFrames(t, k)
  <1>. /\ Len(w) = 3 * n /\ Len(l) = n /\ Len(t) = 3 * n + 3 /\ Len(k) = n + 1
       /\ \A i \in 1 .. 3 * n : t[i] = w[i]
       /\ \A i \in 1 .. n : k[i] = l[i]
       /\ k[n + 1] = m /\ t[3 * n + 1] = m /\ t[3 * n + 2] = Brace /\ t[3 * n + 3] = Newline
    BY DEF FrameMore
  <1>1. SUFFICES ASSUME NEW i \in 1 .. Len(t)
                 PROVE  \E j \in 1 .. Len(k) : \/ i = 3 * j - 2 /\ t[i] = k[j]
                                               \/ i = 3 * j - 1 /\ t[i] = Brace
                                               \/ i = 3 * j /\ t[i] = Newline
    BY DEF InFrames
  <1>2. CASE i \in 1 .. 3 * n
    <2>1. PICK j \in 1 .. n : \/ i = 3 * j - 2 /\ w[i] = l[j]
                              \/ i = 3 * j - 1 /\ w[i] = Brace
                              \/ i = 3 * j /\ w[i] = Newline
      BY <1>2 DEF InFrames
    <2>2. j \in 1 .. Len(k) /\ k[j] = l[j] /\ t[i] = w[i]
      BY <1>2
    <2>. QED  BY <2>1, <2>2
  <1>3. CASE i \notin 1 .. 3 * n
    <2>1. i = 3 * n + 1 \/ i = 3 * n + 2 \/ i = 3 * n + 3
      BY <1>3
    <2>2. PICK j \in 1 .. Len(k) : j = n + 1
      OBVIOUS
    <2>3. 3 * n + 1 = 3 * j - 2 /\ 3 * n + 2 = 3 * j - 1 /\ 3 * n + 3 = 3 * j
      BY <2>2
    <2>. QED  BY <2>1, <2>2, <2>3
  <1>. QED  BY <1>2, <1>3

Joint(w, f) ==
    /\ Len(w \o f) = Len(w) + 3 /\ \A i \in 1 .. Len(w) : (w \o f)[i] = w[i]
    /\ \A i \in 1 .. 3 : (w \o f)[Len(w) + i] = f[i]

LEMMA Joined ==
    ASSUME NEW S, NEW w \in Seq(S), NEW f \in Seq(S), Len(f) = 3
    PROVE  Joint(w, f)
  <1>1. /\ Len(w \o f) = Len(w) + Len(f)
        /\ \A i \in 1 .. Len(w) + Len(f) : (w \o f)[i] = IF i <= Len(w) THEN w[i] ELSE f[i - Len(w)]
    BY ConcatProperties
  <1>2. Len(w) \in Nat
    BY LenProperties
  <1>3. \A i \in 1 .. Len(w) : i \in 1 .. Len(w) + Len(f) /\ i <= Len(w)
    BY <1>2
  <1>4. \A i \in 1 .. 3 : Len(w) + i \in 1 .. Len(w) + Len(f) /\ ~ (Len(w) + i <= Len(w)) /\ Len(w) + i - Len(w) = i
    BY <1>2
  <1>. QED  BY <1>1, <1>3, <1>4 DEF Joint

\* Concatenation is associative, named so that it is used only where it is asked for.
Assoc(a, b, c) == (a \o b) \o c = a \o (b \o c)

LEMMA Assocs ==
    ASSUME NEW S, NEW a \in Seq(S), NEW b \in Seq(S), NEW c \in Seq(S)
    PROVE  Assoc(a, b, c)
  BY ConcatAssociative DEF Assoc

\* Bytes that move on stay in their order.
InOrder(s, p, u, n) ==
    /\ (s \o (p \o SubSeq(u, 1, n))) \o SubSeq(u, n + 1, Len(u)) = (s \o p) \o u
    /\ (s \o SubSeq(u, 1, n)) \o SubSeq(u, n + 1, Len(u)) = s \o u

LEMMA Moved ==
    ASSUME NEW S, NEW s \in Seq(S), NEW p \in Seq(S), NEW u \in Seq(S), NEW n \in 0 .. Len(u)
    PROVE  InOrder(s, p, u, n)
  <1>1. PICK a, b : a = SubSeq(u, 1, n) /\ b = SubSeq(u, n + 1, Len(u))
    OBVIOUS
  <1>2. a \in Seq(S) /\ b \in Seq(S) /\ a \o b = u
    BY <1>1, Cut
  <1>3. s \o p \in Seq(S)
    BY ConcatProperties
  <1>4. Assoc(s, p, a) /\ Assoc(s \o p, a, b) /\ Assoc(s, a, b)
    BY <1>2, <1>3, Assocs
  <1>5. /\ (s \o p) \o a = s \o (p \o a)
        /\ ((s \o p) \o a) \o b = (s \o p) \o (a \o b)
        /\ (s \o a) \o b = s \o (a \o b)
    BY <1>4 DEF Assoc
  <1>. QED  BY <1>1, <1>2, <1>5 DEF InOrder

LEMMA LockedFrame ==
    ASSUME TypeOK, Len(Sent) = 3 * Len(locked), InFrames(Sent, locked), NEW m \in Messages, Lock(m)
    PROVE  Len(Sent') = 3 * Len(locked') /\ InFrames(Sent', locked')
  <1>1. /\ locked \in Seq(Messages) /\ locked' = Append(locked, m) /\ UNCHANGED <<taken, pipe>>
        /\ unwritten' = unwritten \o Encode(m)
    BY DEF TypeOK, Lock
  <1>2. Sent \in Seq(Bytes) /\ taken \in Seq(Bytes) /\ pipe \in Seq(Bytes) /\ unwritten \in Seq(Bytes)
    BY SentTyped
  <1>3. PICK f, x : f = Encode(m) /\ x = Text(m)
    OBVIOUS
  <1>4. x \in Seq(Bytes) /\ Newline \in Bytes /\ Len(x) = 2 /\ x[1] = m /\ x[2] = Brace
    <2>1. m \in Bytes /\ Brace \in Bytes /\ Newline \in Bytes
      BY DEF Bytes, Noise, Blank
    <2>. QED  BY <1>3, <2>1 DEF Text
  <1>5. f \in Seq(Bytes) /\ Len(f) = 3 /\ f[1] = m /\ f[2] = Brace /\ f[3] = Newline
    <2>1. f = Append(x, Newline)
      BY <1>3 DEF Encode
    <2>2. /\ f \in Seq(Bytes) /\ Len(f) = Len(x) + 1 /\ f[Len(x) + 1] = Newline
          /\ \A i \in 1 .. Len(x) : f[i] = x[i]
      <3>1. x \in Seq(Bytes) /\ Newline \in Bytes
        BY <1>4
      <3>. QED  BY <2>1, <3>1, AppendProperties
    <2>3. 1 \in 1 .. 2 /\ 2 \in 1 .. 2 /\ 2 + 1 = 3
      OBVIOUS
    <2>. QED  BY <1>4, <2>2, <2>3
  <1>6. Sent' = Sent \o f
    <2>1. taken \o pipe \in Seq(Bytes)
      BY <1>2, ConcatProperties
    <2>2. Assoc(taken \o pipe, unwritten, f)
      BY <1>2, <1>5, <2>1, Assocs
    <2>3. ((taken \o pipe) \o unwritten) \o f = (taken \o pipe) \o (unwritten \o f)
      BY <2>2 DEF Assoc
    <2>. QED  BY <1>1, <1>3, <2>3 DEF Sent
  <1>7. PICK n \in Nat : n = Len(locked)
    BY <1>1, LenProperties
  <1>8. Len(locked') = n + 1 /\ locked'[n + 1] = m /\ \A i \in 1 .. n : locked'[i] = locked[i]
    BY <1>1, <1>7, AppendProperties
  <1>9. /\ Len(Sent') = 3 * n + 3 /\ \A i \in 1 .. 3 * n : Sent'[i] = Sent[i]
        /\ Sent'[3 * n + 1] = m /\ Sent'[3 * n + 2] = Brace /\ Sent'[3 * n + 3] = Newline
    <2>1. PICK t, w : t = Sent' /\ w = Sent
      OBVIOUS
    <2>2. w \in Seq(Bytes) /\ t = w \o f /\ Len(w) = 3 * n
      BY <1>2, <1>6, <1>7, <2>1
    <2>3. f \in Seq(Bytes) /\ Len(f) = 3
      BY <1>5
    <2>4. Joint(w, f)
      BY <2>2, <2>3, Joined
    <2>5. 1 \in 1 .. 3 /\ 2 \in 1 .. 3 /\ 3 \in 1 .. 3
      OBVIOUS
    <2>6. /\ Len(t) = 3 * n + 3 /\ \A i \in 1 .. 3 * n : t[i] = w[i]
          /\ t[3 * n + 1] = f[1] /\ t[3 * n + 2] = f[2] /\ t[3 * n + 3] = f[3]
      BY <2>2, <2>4, <2>5 DEF Joint
    <2>. QED  BY <1>5, <2>1, <2>6
  <1>10. InFrames(Sent', locked')
    <2>1. PICK w, l, t, k : w = Sent /\ l = locked /\ t = Sent' /\ k = locked'
      OBVIOUS
    <2>2. Len(w) = 3 * n /\ Len(l) = n /\ InFrames(w, l)
      BY <1>7, <2>1
    <2>3. Len(k) = n + 1 /\ k[n + 1] = m /\ \A i \in 1 .. n : k[i] = l[i]
      BY <1>8, <2>1
    <2>4. /\ Len(t) = 3 * n + 3 /\ \A i \in 1 .. 3 * n : t[i] = w[i]
          /\ t[3 * n + 1] = m /\ t[3 * n + 2] = Brace /\ t[3 * n + 3] = Newline
      BY <1>9, <2>1
    <2>5. FrameMore(w, l, t, k, m, n)
      BY <2>2, <2>3, <2>4 DEF FrameMore
    <2>6. InFrames(t, k)
      BY <2>2, <2>5, AnotherFrame
    <2>. QED  BY <2>1, <2>6
  <1>. QED  BY <1>7, <1>8, <1>9, <1>10

LEMMA SentStays ==
    ASSUME TypeOK, Flush \/ Read
    PROVE  Sent' = Sent
  <1>1. taken \in Seq(Bytes) /\ pipe \in Seq(Bytes) /\ unwritten \in Seq(Bytes)
    BY SentTyped
  <1>2. CASE Flush
    <2>1. PICK n \in 1 .. Len(unwritten) :
            /\ pipe' = pipe \o SubSeq(unwritten, 1, n) /\ unwritten' = SubSeq(unwritten, n + 1, Len(unwritten))
            /\ taken' = taken
      BY <1>2 DEF Flush
    <2>2. n \in 0 .. Len(unwritten)
      OBVIOUS
    <2>3. (taken \o (pipe \o SubSeq(unwritten, 1, n))) \o SubSeq(unwritten, n + 1, Len(unwritten))
             = (taken \o pipe) \o unwritten
      <3>1. InOrder(taken, pipe, unwritten, n)
        BY <1>1, <2>2, Moved
      <3>. QED  BY <3>1 DEF InOrder
    <2>. QED  BY <2>1, <2>3 DEF Sent
  <1>3. CASE Read
    <2>1. PICK n \in 1 .. Len(pipe) :
            /\ taken' = taken \o SubSeq(pipe, 1, n) /\ pipe' = SubSeq(pipe, n + 1, Len(pipe))
            /\ unwritten' = unwritten
      BY <1>3 DEF Read
    <2>2. n \in 0 .. Len(pipe)
      OBVIOUS
    <2>3. (taken \o SubSeq(pipe, 1, n)) \o SubSeq(pipe, n + 1, Len(pipe)) = taken \o pipe
      <3>1. InOrder(taken, pipe, pipe, n)
        BY <1>1, <2>2, Moved
      <3>. QED  BY <3>1 DEF InOrder
    <2>. QED  BY <2>1, <2>3 DEF Sent
  <1>. QED  BY <1>2, <1>3

LEMMA WrittenNext ==
    ASSUME TypeOK, Written, [Next]_vars
    PROVE  Written'
  <1>1. noise \in Nat /\ \A m \in Messages : m # None
    BY LineCodecAssumption, Distinct DEF TypeOK
  <1>2. ASSUME NEW m \in Messages, Lock(m)
        PROVE  Written'
    <2>1. noise' = 0 => Len(Sent') = 3 * Len(locked') /\ InFrames(Sent', locked')
      BY <1>2, LockedFrame DEF Written, Lock
    <2>2. holder' # None /\ ~ (noise = 0 /\ eof /\ ~broken)
      BY <1>1, <1>2 DEF Written, Lock
    <2>. QED  BY <1>2, <2>1, <2>2 DEF Written, Lock
  <1>3. CASE Flush
    <2>1. Sent' = Sent /\ locked' = locked
      BY <1>3, SentStays DEF Flush
    <2>2. noise' = 0 => Len(Sent') = 3 * Len(locked') /\ InFrames(Sent', locked')
      BY <1>3, <2>1 DEF Written, Flush
    <2>3. holder # None /\ holder' = holder /\ UNCHANGED <<noise, eof, broken>>
      BY <1>3 DEF Flush
    <2>. QED  BY <2>2, <2>3 DEF Written
  <1>4. CASE Read
    <2>1. Sent' = Sent /\ locked' = locked
      BY <1>4, SentStays DEF Read
    <2>2. noise' = 0 => Len(Sent') = 3 * Len(locked') /\ InFrames(Sent', locked')
      BY <1>4, <2>1 DEF Written, Read
    <2>. QED  BY <1>4, <2>2 DEF Written, Read
  <1>5. CASE OtherBytes
    BY <1>1, <1>5 DEF OtherBytes, Written
  <1>6. CASE Unlock \/ Break \/ ReadEof \/ StopDiscarding \/ Discard \/ FoundLine \/ LineTooLong
             \/ WaitForMore \/ LastLine \/ UNCHANGED vars
    <2>1. UNCHANGED <<taken, pipe, unwritten, locked, noise>>
      BY <1>6 DEF Unlock, Break, ReadEof, StopDiscarding, Discard, FoundLine, LineTooLong,
                  WaitForMore, LastLine, vars
    <2>2. Sent' = Sent
      BY <2>1 DEF Sent
    <2>3. noise' = 0 => Len(Sent') = 3 * Len(locked') /\ InFrames(Sent', locked')
      BY <2>1, <2>2 DEF Written
    <2>4. CASE Unlock
      BY <2>1, <2>3, <2>4 DEF Written, Unlock
    <2>5. CASE Break
      BY <2>1, <2>3, <2>5 DEF Written, Break
    <2>6. CASE ReadEof
      <3>1. ~broken => \A m \in Messages : Contains(locked, m)
        <4>1. SUFFICES ASSUME ~broken, NEW m \in Messages
                       PROVE  Contains(locked, m)
          OBVIOUS
        <4>2. m \in Range(locked) /\ locked \in Seq(Messages)
          BY <2>6, <4>1 DEF ReadEof, Finished, TypeOK
        <4>3. PICK i \in 1 .. Len(locked) : locked[i] = m
          BY <4>2, LenProperties DEF Range
        <4>. QED  BY <4>3 DEF Contains
      <3>. QED  BY <2>1, <2>3, <2>6, <3>1 DEF Written, ReadEof, Finished
    <2>7. CASE StopDiscarding \/ Discard \/ FoundLine \/ LineTooLong \/ WaitForMore \/ LastLine \/ UNCHANGED vars
      <3>1. UNCHANGED <<holder, broken, eof>>
        BY <2>7 DEF StopDiscarding, Discard, FoundLine, LineTooLong, WaitForMore, LastLine, vars
      <3>. QED  BY <2>1, <2>3, <3>1 DEF Written
    <2>. QED  BY <1>6, <2>4, <2>5, <2>6, <2>7
  <1>. QED  BY <1>2, <1>3, <1>4, <1>5, <1>6 DEF Next, Send, Receive

LEMMA MessagesWhole ==
    ASSUME DecoderInv, PiecesDoNotMatter, Written
    PROVE  FramesWhole
  <1>. SUFFICES ASSUME noise = 0, 1 < MaxLength
                PROVE  /\ \A k \in DOMAIN items :
                            \/ k \in DOMAIN locked /\ items[k] = locked[k]
                            \/ items[k] = Error /\ k = Len(items) /\ broken
                       /\ mode = "over" /\ ~broken => items = locked
    <2>1. MaxLength > 1 => 1 < MaxLength
      BY LineCodecAssumption
    <2>. QED  BY <2>1 DEF FramesWhole
  <1>1. /\ locked \in Seq(Messages) /\ items \in Seq(Messages \cup {Error}) /\ taken \in Seq(Bytes)
        /\ eof \in BOOLEAN /\ TypeOK
    BY DEF DecoderInv, TypeOK
  <1>2. /\ DOMAIN locked = 1 .. Len(locked) /\ DOMAIN items = 1 .. Len(items) /\ Len(locked) \in Nat
        /\ Len(items) \in Nat /\ MaxLength \in Nat /\ Len(taken) \in Nat
    BY <1>1, LenProperties, LineCodecAssumption
  <1>3. Len(Sent) = 3 * Len(locked) /\ InFrames(taken, locked)
    <2>1. Len(taken) <= Len(Sent) /\ Len(Sent) \in Nat /\ \A i \in 1 .. Len(taken) : taken[i] = Sent[i]
      BY <1>1, SentTyped
    <2>2. \A i \in 1 .. Len(taken) : i \in 1 .. Len(Sent)
      BY <1>2, <2>1
    <2>3. Len(Sent) = 3 * Len(locked) /\ InFrames(Sent, locked)
      BY DEF Written
    <2>. QED  BY <2>1, <2>2, <2>3 DEF InFrames
  <1>4. PICK n \in Nat : n = Cardinality(Ends(taken))
    BY <1>1, EndsFinite
  <1>5. /\ \A k \in 1 .. n : k \in 1 .. Len(locked) /\ Lines(taken)[k] = locked[k]
        /\ Lines(taken) \in Seq(Messages \cup {Error}) /\ Len(Lines(taken)) = n
    BY <1>1, <1>3, <1>4, FrameLine, LinesTyped
  <1>6. /\ 3 * n <= Len(taken) /\ Len(taken) < 3 * n + 3 /\ Len(Rest(taken)) = Len(taken) - 3 * n
        /\ Rest(taken) = SubSeq(taken, 3 * n + 1, Len(taken))
        /\ Rest(taken) # <<>> => n + 1 \in 1 .. Len(locked) /\ Outcome(Rest(taken)) \in {locked[n + 1], Error}
    BY <1>1, <1>3, <1>4, FrameRest
  <1>7. ASSUME eof, ~broken
        PROVE  n = Len(locked) /\ Rest(taken) = <<>>
    <2>1. pipe = <<>> /\ unwritten = <<>>
      BY <1>7 DEF Written
    <2>2. Sent = taken
      BY <1>1, <2>1, SentTyped
    <2>3. n = Len(locked) /\ Len(taken) = 3 * n
      <3>1. Len(taken) = 3 * Len(locked)
        BY <1>3, <2>2
      <3>2. 3 * n <= Len(taken) /\ Len(taken) < 3 * n + 3
        BY <1>6
      <3>3. PICK c \in Nat : c = Len(locked)
        BY <1>2
      <3>. QED  BY <3>1, <3>2, <3>3
    <2>4. 3 * n + 1 \in Int /\ Len(taken) \in Int /\ Len(taken) < 3 * n + 1
      BY <1>2, <2>3
    <2>. QED  BY <1>6, <2>3, <2>4, SubSeqEmpty
  <1>8. PICK r : r = Reference(taken, eof)
    OBVIOUS
  <1>9. r = Lines(taken) \/ (eof /\ Rest(taken) # <<>> /\ r = Append(Lines(taken), Outcome(Rest(taken))))
    <2>1. Len(Rest(taken)) > MaxLength => eof /\ Rest(taken) # <<>>
      <3>1. Len(Rest(taken)) <= 2
        BY <1>2, <1>6
      <3>2. Len(Rest(taken)) \in Int
        BY <1>2, <1>6
      <3>. QED  BY <1>2, <3>1, <3>2
    <2>. QED  BY <1>8, <2>1 DEF Reference
  <1>10. /\ Len(items) <= Len(r) /\ \A k \in 1 .. Len(items) : items[k] = r[k]
         /\ r \in Seq(Messages \cup {Error})
    <2>1. r \in Seq(Messages \cup {Error})
      <3>1. Outcome(Rest(taken)) \in Messages \cup {Error}
        BY ParseTyped DEF Outcome
      <3>2. CASE r = Lines(taken)
        BY <1>5, <3>2
      <3>3. CASE r = Append(Lines(taken), Outcome(Rest(taken)))
        BY <1>5, <3>1, <3>3, AppendProperties
      <3>. QED  BY <1>9, <3>2, <3>3
    <2>2. Len(items) <= Len(r) /\ SubSeq(items, 1, Len(items)) = SubSeq(r, 1, Len(items))
      BY <1>8 DEF PiecesDoNotMatter, IsPrefix
    <2>3. Len(items) \in 0 .. Len(r)
      BY <1>2, <2>1, <2>2, LenProperties
    <2>4. \A k \in 1 .. Len(items) : SubSeq(r, 1, Len(items))[k] = r[k]
      BY <2>1, <2>3, Cut
    <2>5. SubSeq(items, 1, Len(items)) = items
      BY <1>1, SubSeqFull
    <2>. QED  BY <2>1, <2>2, <2>4, <2>5
  <1>11. ASSUME NEW k \in 1 .. Len(items)
         PROVE  \/ k \in 1 .. Len(locked) /\ items[k] = locked[k]
                \/ items[k] = Error /\ k = Len(items) /\ broken
    <2>1. items[k] = r[k] /\ k <= Len(r) /\ Len(r) \in Nat
      BY <1>2, <1>10, LenProperties
    <2>2. CASE k \in 1 .. n
      <3>1. r[k] = Lines(taken)[k]
        <4>1. CASE r = Lines(taken)
          BY <4>1
        <4>2. CASE r = Append(Lines(taken), Outcome(Rest(taken)))
          <5>1. Outcome(Rest(taken)) \in Messages \cup {Error}
            BY ParseTyped DEF Outcome
          <5>. QED  BY <1>5, <2>2, <4>2, <5>1, AppendProperties
        <4>. QED  BY <1>9, <4>1, <4>2
      <3>. QED  BY <1>5, <2>1, <2>2, <3>1
    <2>3. CASE k \notin 1 .. n
      <3>1. eof /\ Rest(taken) # <<>> /\ r = Append(Lines(taken), Outcome(Rest(taken)))
        <4>1. r # Lines(taken)
          BY <1>5, <2>1, <2>3
        <4>. QED  BY <1>9, <4>1
      <3>2. Len(r) = n + 1 /\ r[n + 1] = Outcome(Rest(taken))
        <4>1. Outcome(Rest(taken)) \in Messages \cup {Error}
          BY ParseTyped DEF Outcome
        <4>. QED  BY <1>5, <3>1, <4>1, AppendProperties
      <3>3. k = n + 1 /\ k = Len(items)
        <4>1. PICK c \in Nat : c = Len(items)
          BY <1>2
        <4>2. c <= n + 1 /\ k \in 1 .. c
          BY <1>10, <3>2, <4>1
        <4>. QED  BY <2>3, <4>1, <4>2
      <3>4. broken
        BY <1>7, <3>1
      <3>. QED  BY <1>6, <2>1, <3>1, <3>2, <3>3, <3>4
    <2>. QED  BY <2>2, <2>3
  <1>12. ASSUME mode = "over", ~broken
         PROVE  items = locked
    <2>1. ~Failed
      <3>1. SUFFICES ASSUME Failed
                     PROVE  FALSE
        OBVIOUS
      <3>2. Len(items) \in 1 .. Len(items) /\ items[Len(items)] = Error
        BY <1>1, <1>2, <3>1, EmptySeq DEF Failed, Last
      <3>3. Len(items) \in 1 .. Len(locked) /\ Error = locked[Len(items)]
        BY <1>11, <1>12, <3>2
      <3>. QED  BY <1>1, <3>3, ElementOfSeq, Distinct
    <2>2. eof /\ items = r
      BY <1>8, <1>12, <2>1 DEF DecoderInv, Modes, PiecesDoNotMatter
    <2>3. n = Len(locked) /\ r = Lines(taken)
      BY <1>7, <1>9, <1>12, <2>2
    <2>4. \A k \in 1 .. Len(locked) : items[k] = locked[k]
      BY <1>5, <2>2, <2>3
    <2>5. Len(items) = Len(locked) /\ locked \in Seq(Messages \cup {Error})
      BY <1>1, <1>5, <2>2, <2>3, SeqMonotonic
    <2>. QED  BY <1>1, <2>4, <2>5, SeqEqual
  <1>. QED  BY <1>2, <1>11, <1>12

\* Messages of concurrent tasks arrive whole, once, in the order their tasks took the lock, and all
\* of them unless the writer was cut off, for any messages and pieces (async_rw.rs 99-108, 281-285).
THEOREM MessagesArrive == Spec => []FramesWhole
  <1>1. Init => DecoderInv /\ Written
    BY DecoderInit, WrittenInit
  <1>2. DecoderInv /\ Written /\ [Next]_vars => (DecoderInv /\ Written)'
    <2>1. DecoderInv => TypeOK
      BY DEF DecoderInv
    <2>. QED  BY <2>1, DecoderNext, WrittenNext
  <1>3. PiecesDoNotMatter /\ DecoderInv /\ Written => FramesWhole
    BY MessagesWhole
  <1>. QED  BY <1>1, <1>2, <1>3, LinesAreFound, PTL DEF Spec

=============================================================================
