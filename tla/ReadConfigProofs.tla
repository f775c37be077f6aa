--------------------------- MODULE ReadConfigProofs ---------------------------
(***************************************************************************)
(* Proofs about CfgParser and ReadConfig: what the parser makes of a file  *)
(* is what the lines say, for every file, and the settings a program runs  *)
(* with are those of the file.                                             *)
(***************************************************************************)
EXTENDS ReadConfig, SequenceTheorems, WellFoundedInduction, TLAPS

-----------------------------------------------------------------------------
(* Least and greatest elements *)

LEMMA MinIs ==
    ASSUME NEW S \in SUBSET Int, NEW x \in S, \A y \in S : x <= y
    PROVE  Min(S) = x
<1>1. \A z \in S : (\A y \in S : z <= y) => z = x
  OBVIOUS
<1>2. QED
  BY <1>1 DEF Min

LEMMA MaxIs ==
    ASSUME NEW S \in SUBSET Int, NEW x \in S, \A y \in S : y <= x
    PROVE  Max(S) = x
<1>1. \A z \in S : (\A y \in S : z >= y) => z = x
  OBVIOUS
<1>2. QED
  BY <1>1 DEF Max

LEMMA Least ==
    ASSUME NEW S \in SUBSET Nat, S # {}
    PROVE  \E x \in S : \A y \in S : x <= y
<1>1. PICK x \in S : \A y \in S : ~(<<y, x>> \in OpToRel(<, Nat))
  BY NatLessThanWellFounded, WFMin
<1>2. \A y \in S : ~(y < x)
  BY <1>1 DEF OpToRel
<1>3. QED
  BY <1>2

-----------------------------------------------------------------------------
(* Slices of a line *)

LEMMA Slice ==
    ASSUME NEW t \in Text, NEW i \in 1 .. Len(t) + 1, NEW j \in i - 1 .. Len(t)
    PROVE  /\ SubSeq(t, i, j) \in Text
           /\ Len(SubSeq(t, i, j)) = j - i + 1
           /\ \A k \in 1 .. j - i + 1 : SubSeq(t, i, j)[k] = t[i + k - 1]
<1>1. Len(t) \in Nat /\ \A k \in 1 .. Len(t) : t[k] \in STRING
  BY DEF Text
<1>2. i \in Int /\ j \in Int /\ \A k \in i .. j : t[k] \in STRING
  BY <1>1
<1>3. QED
  BY <1>1, <1>2, SubSeqProperties DEF Text

LEMMA SliceOfSlice ==
    ASSUME NEW t \in Text, NEW i \in 1 .. Len(t) + 1, NEW j \in i - 1 .. Len(t),
           NEW m \in 1 .. j - i + 2, NEW n \in m - 1 .. j - i + 1
    PROVE  SubSeq(SubSeq(t, i, j), m, n) = SubSeq(t, i + m - 1, i + n - 1)
<1> DEFINE s == SubSeq(t, i, j)
<1>1. s \in Text /\ Len(s) = j - i + 1
      /\ \A k \in 1 .. j - i + 1 : s[k] = t[i + k - 1]
  BY Slice
<1>2. /\ Len(t) \in Nat /\ i \in Int /\ j \in Int /\ m \in Int /\ n \in Int
      /\ m \in 1 .. Len(s) + 1 /\ n \in m - 1 .. Len(s)
      /\ i + m - 1 \in 1 .. Len(t) + 1
      /\ i + n - 1 \in (i + m - 1) - 1 .. Len(t)
  BY <1>1 DEF Text
<1> HIDE DEF s
<1>3. /\ SubSeq(s, m, n) \in Text /\ Len(SubSeq(s, m, n)) = n - m + 1
      /\ \A k \in 1 .. n - m + 1 : SubSeq(s, m, n)[k] = s[m + k - 1]
  BY <1>1, <1>2, Slice
<1> DEFINE u == SubSeq(t, i + m - 1, i + n - 1)
<1>4. /\ u \in Text /\ Len(u) = n - m + 1
      /\ \A k \in 1 .. n - m + 1 : u[k] = t[i + m - 1 + k - 1]
  BY <1>2, Slice
<1>5. ASSUME NEW k \in 1 .. n - m + 1 PROVE SubSeq(s, m, n)[k] = u[k]
  <2>1. m + k - 1 \in 1 .. j - i + 1 /\ i + (m + k - 1) - 1 = i + m - 1 + k - 1
    BY <1>2
  <2>2. QED
    BY <1>1, <1>3, <1>4, <2>1
<1> HIDE DEF u
<1>6. SubSeq(s, m, n) = u
  BY <1>2, <1>3, <1>4, <1>5, SeqEqual DEF Text
<1>7. QED
  BY <1>6 DEF s, u

\* strchr finds the first of its marks.
LEMMA FirstMark ==
    ASSUME NEW t \in Text, NEW i \in 1 .. Len(t), NEW j \in i .. Len(t),
           NEW p \in i .. j, NEW m, t[p] = m, Without(t, i, p - 1, m)
    PROVE  /\ Has(SubSeq(t, i, j), m)
           /\ Before(SubSeq(t, i, j), m) = SubSeq(t, i, p - 1)
           /\ After(SubSeq(t, i, j), m) = SubSeq(t, p + 1, j)
<1> DEFINE s == SubSeq(t, i, j)
           q == p - i + 1
<1>1. /\ Len(t) \in Nat /\ i \in Nat /\ j \in Nat /\ p \in Nat /\ q \in 1 .. j - i + 1
      /\ i <= j /\ j <= Len(t)
      /\ i \in 1 .. Len(t) + 1 /\ j \in i - 1 .. Len(t)
  BY DEF Text
<1>2. s \in Text /\ Len(s) = j - i + 1
      /\ \A k \in 1 .. j - i + 1 : s[k] = t[i + k - 1]
  BY <1>1, Slice
<1>3. s[q] = m /\ i + q - 1 = p
  BY <1>1, <1>2
<1>4. \A k \in 1 .. Len(s) : k < q => s[k] # m
  BY <1>1, <1>2 DEF Without
<1> HIDE DEF s, q
<1>5. Positions(s, {m}) \in SUBSET Int /\ q \in Positions(s, {m})
      /\ \A k \in Positions(s, {m}) : q <= k
  BY <1>1, <1>2, <1>3, <1>4 DEF Positions
<1>6. Min(Positions(s, {m})) = q
  BY <1>5, MinIs
<1>7. /\ q - 1 \in 1 - 1 .. j - i + 1 /\ i + (q - 1) - 1 = p - 1 /\ i + 1 - 1 = i
      /\ q + 1 \in 1 .. j - i + 2 /\ j - i + 1 \in (q + 1) - 1 .. j - i + 1
      /\ i + (q + 1) - 1 = p + 1 /\ i + (j - i + 1) - 1 = j
      /\ 1 \in 1 .. j - i + 2 /\ i \in 1 .. Len(t) + 1 /\ j \in i - 1 .. Len(t)
  BY <1>1, <1>3
<1>8. SubSeq(s, 1, q - 1) = SubSeq(t, i, p - 1)
  <2>1. SubSeq(s, 1, q - 1) = SubSeq(t, i + 1 - 1, i + (q - 1) - 1)
    BY <1>7, SliceOfSlice DEF s
  <2>2. QED
    BY <1>7, <2>1
<1>9. SubSeq(s, q + 1, Len(s)) = SubSeq(t, p + 1, j)
  <2>1. SubSeq(s, q + 1, j - i + 1)
            = SubSeq(t, i + (q + 1) - 1, i + (j - i + 1) - 1)
    BY <1>7, SliceOfSlice DEF s
  <2>2. QED
    BY <1>2, <1>7, <2>1
<1>10. QED
  BY <1>5, <1>6, <1>8, <1>9 DEF Has, Before, After, s

LEMMA NoMark ==
    ASSUME NEW t \in Text, NEW i \in 1 .. Len(t) + 1, NEW j \in i - 1 .. Len(t),
           NEW m, Without(t, i, j, m)
    PROVE  ~Has(SubSeq(t, i, j), m)
<1>1. Len(t) \in Nat
  BY DEF Text
<1>2. \A k \in 1 .. j - i + 1 : i + k - 1 \in i .. j
  BY <1>1
<1>3. QED
  BY <1>1, <1>2, Slice DEF Has, Positions, Without

\* strltrim and strrtrim cut a slice down.
LEMMA TrimBlank ==
    ASSUME NEW t \in Text, NEW i \in 1 .. Len(t) + 1, NEW j \in i - 1 .. Len(t),
           Blank(t, i, j)
    PROVE  strltrim[SubSeq(t, i, j)] = <<>> /\ strrtrim[SubSeq(t, i, j)] = <<>>
<1> DEFINE s == SubSeq(t, i, j)
<1>1. Len(t) \in Nat
  BY DEF Text
<1>2. s \in Text /\ Len(s) = j - i + 1
      /\ \A k \in 1 .. j - i + 1 : s[k] = t[i + k - 1]
  BY Slice
<1>3. \A k \in 1 .. j - i + 1 : i + k - 1 \in i .. j
  BY <1>1
<1> HIDE DEF s
<1>4. Words(s) = {}
  BY <1>2, <1>3 DEF Words, Blank
<1>5. QED
  BY <1>2, <1>4 DEF strltrim, strrtrim, s

LEMMA LtrimSlice ==
    ASSUME NEW t \in Text, NEW i \in 1 .. Len(t), NEW j \in i .. Len(t),
           NEW a \in i .. j, Blank(t, i, a - 1), t[a] \notin Blanks
    PROVE  strltrim[SubSeq(t, i, j)] = SubSeq(t, a, j)
<1> DEFINE s == SubSeq(t, i, j)
           q == a - i + 1
<1>1. /\ Len(t) \in Nat /\ i \in Nat /\ j \in Nat /\ a \in Nat /\ q \in 1 .. j - i + 1
      /\ i <= j /\ j <= Len(t)
      /\ i \in 1 .. Len(t) + 1 /\ j \in i - 1 .. Len(t)
  BY DEF Text
<1>2. s \in Text /\ Len(s) = j - i + 1
      /\ \A k \in 1 .. j - i + 1 : s[k] = t[i + k - 1]
  BY <1>1, Slice
<1>3. s[q] \notin Blanks /\ i + q - 1 = a
  BY <1>1, <1>2
<1>4. \A k \in 1 .. Len(s) : k < q => s[k] \in Blanks
  BY <1>1, <1>2 DEF Blank
<1> HIDE DEF s, q
<1>5. Words(s) \in SUBSET Int /\ q \in Words(s) /\ \A k \in Words(s) : q <= k
  BY <1>1, <1>2, <1>3, <1>4 DEF Words
<1>6. Min(Words(s)) = q
  BY <1>5, MinIs
<1>7. /\ q \in 1 .. j - i + 2 /\ j - i + 1 \in q - 1 .. j - i + 1
      /\ i + (j - i + 1) - 1 = j
  BY <1>1
<1>8. SubSeq(s, q, j - i + 1) = SubSeq(t, i + q - 1, i + (j - i + 1) - 1)
  BY <1>1, <1>7, SliceOfSlice DEF s
<1>9. SubSeq(s, q, Len(s)) = SubSeq(t, a, j)
  BY <1>2, <1>3, <1>7, <1>8
<1>10. QED
  BY <1>2, <1>5, <1>6, <1>9 DEF strltrim, s

LEMMA RtrimSlice ==
    ASSUME NEW t \in Text, NEW i \in 1 .. Len(t), NEW j \in i .. Len(t),
           NEW b \in i .. j, Blank(t, b + 1, j), t[b] \notin Blanks
    PROVE  strrtrim[SubSeq(t, i, j)] = SubSeq(t, i, b)
<1> DEFINE s == SubSeq(t, i, j)
           q == b - i + 1
<1>1. /\ Len(t) \in Nat /\ i \in Nat /\ j \in Nat /\ b \in Nat /\ q \in 1 .. j - i + 1
      /\ i <= j /\ j <= Len(t)
      /\ i \in 1 .. Len(t) + 1 /\ j \in i - 1 .. Len(t)
  BY DEF Text
<1>2. s \in Text /\ Len(s) = j - i + 1
      /\ \A k \in 1 .. j - i + 1 : s[k] = t[i + k - 1]
  BY <1>1, Slice
<1>3. s[q] \notin Blanks /\ i + q - 1 = b
  BY <1>1, <1>2
<1>4. \A k \in 1 .. Len(s) : k > q => s[k] \in Blanks
  BY <1>1, <1>2 DEF Blank
<1> HIDE DEF s, q
<1>5. Words(s) \in SUBSET Int /\ q \in Words(s) /\ \A k \in Words(s) : k <= q
  BY <1>1, <1>2, <1>3, <1>4 DEF Words
<1>6. Max(Words(s)) = q
  BY <1>5, MaxIs
<1>7. /\ 1 \in 1 .. j - i + 2 /\ q \in 1 - 1 .. j - i + 1 /\ i + 1 - 1 = i
  BY <1>1
<1>8. SubSeq(s, 1, q) = SubSeq(t, i + 1 - 1, i + q - 1)
  BY <1>1, <1>7, SliceOfSlice DEF s
<1>9. SubSeq(s, 1, q) = SubSeq(t, i, b)
  BY <1>3, <1>7, <1>8
<1>10. QED
  BY <1>2, <1>5, <1>6, <1>9 DEF strrtrim, s

\* Trimmed at both ends, a slice is what it holds between its blanks.
LEMMA TrimIsBetween ==
    ASSUME NEW t \in Text, NEW i \in 1 .. Len(t) + 1, NEW j \in i - 1 .. Len(t),
           NEW w, Between(t, i, j, w)
    PROVE  strrtrim[strltrim[SubSeq(t, i, j)]] = w
<1>1. CASE w = <<>> /\ Blank(t, i, j)
  <2>1. strltrim[SubSeq(t, i, j)] = <<>>
    BY <1>1, TrimBlank
  <2>2. <<>> \in Text /\ Words(<<>>) = {}
    BY DEF Words, Text
  <2>3. strrtrim[<<>>] = <<>>
    BY <2>2 DEF strrtrim
  <2>4. QED
    BY <1>1, <2>1, <2>3
<1>2. ASSUME NEW a \in i .. j, NEW b \in a .. j,
             Blank(t, i, a - 1), t[a] \notin Blanks,
             Blank(t, b + 1, j), t[b] \notin Blanks,
             w = SubSeq(t, a, b)
      PROVE  strrtrim[strltrim[SubSeq(t, i, j)]] = w
  <2>1. /\ i \in 1 .. Len(t) /\ j \in i .. Len(t)
        /\ a \in 1 .. Len(t) /\ j \in a .. Len(t)
    BY <1>2 DEF Text
  <2>2. strltrim[SubSeq(t, i, j)] = SubSeq(t, a, j)
    BY <1>2, <2>1, LtrimSlice
  <2>3. strrtrim[SubSeq(t, a, j)] = SubSeq(t, a, b)
    BY <1>2, <2>1, RtrimSlice
  <2>4. QED
    BY <1>2, <2>2, <2>3
<1>3. QED
  BY <1>1, <1>2 DEF Between

-----------------------------------------------------------------------------
(* What the parser makes of a line is what the line says *)

\* The text from where it begins is what strltrim leaves.
LEMMA Beginning ==
    ASSUME NEW t \in Text, NEW i \in 1 .. Len(t), BeginsAt(t, i)
    PROVE  /\ strltrim[t] = SubSeq(t, i, Len(t))
           /\ strltrim[t] \in Text /\ strltrim[t] # <<>> /\ strltrim[t][1] = t[i]
<1>1. Len(t) \in Nat /\ 1 \in 1 .. Len(t) /\ Len(t) \in 1 .. Len(t)
      /\ Len(t) \in i - 1 .. Len(t) /\ i \in 1 .. Len(t) + 1
      /\ 1 \in 1 .. Len(t) - i + 1 /\ i + 1 - 1 = i
  BY DEF Text
<1>2. SubSeq(t, 1, Len(t)) = t
  BY SubSeqFull DEF Text
<1>3. strltrim[SubSeq(t, 1, Len(t))] = SubSeq(t, i, Len(t))
  BY <1>1, LtrimSlice DEF BeginsAt
<1>4. /\ SubSeq(t, i, Len(t)) \in Text /\ Len(SubSeq(t, i, Len(t))) = Len(t) - i + 1
      /\ SubSeq(t, i, Len(t))[1] = t[i + 1 - 1]
  BY <1>1, Slice
<1>5. SubSeq(t, i, Len(t)) # <<>>
  BY <1>1, <1>4
<1>6. QED
  BY <1>1, <1>2, <1>3, <1>4, <1>5

LEMMA NothingSaid ==
    ASSUME NEW t \in Text, SaysNothing(t)
    PROVE  strltrim[t] # <<>> => strltrim[t][1] = "#"
<1>1. CASE Blank(t, 1, Len(t))
  <2>1. Len(t) \in Nat /\ 1 \in 1 .. Len(t) + 1 /\ Len(t) \in 1 - 1 .. Len(t)
    BY DEF Text
  <2>2. strltrim[SubSeq(t, 1, Len(t))] = <<>>
    BY <1>1, <2>1, TrimBlank
  <2>3. SubSeq(t, 1, Len(t)) = t
    BY SubSeqFull DEF Text
  <2>4. QED
    BY <2>2, <2>3
<1>2. ASSUME NEW i \in 1 .. Len(t), BeginsAt(t, i), t[i] = "#"
      PROVE  strltrim[t][1] = "#"
  BY <1>2, Beginning
<1>3. QED
  BY <1>1, <1>2 DEF SaysNothing

LEMMA SectionSaid ==
    ASSUME NEW t \in Text, NEW name, SaysSection(t, name)
    PROVE  /\ strltrim[t] # <<>> /\ strltrim[t][1] # "#"
           /\ IsSection(strltrim[t]) /\ extractSection(strltrim[t]) = name
<1>1. PICK i \in 1 .. Len(t), j \in Int :
          /\ j \in i + 1 .. Len(t) /\ BeginsAt(t, i) /\ t[i] = "["
          /\ t[j] = "]" /\ Without(t, i + 1, j - 1, "]")
          /\ name = SubSeq(t, i + 1, j - 1)
  BY DEF SaysSection
<1> DEFINE s == strltrim[t]
<1>2. s = SubSeq(t, i, Len(t)) /\ s \in Text /\ s # <<>> /\ s[1] = "["
  BY <1>1, Beginning
<1> HIDE DEF s
<1>3. /\ Len(t) \in Nat /\ i + 1 \in 1 .. Len(t) /\ Len(t) \in i + 1 .. Len(t)
      /\ j \in i .. Len(t) /\ Len(t) \in i .. Len(t)
      /\ i \in 1 .. Len(t) + 1 /\ Len(t) \in i - 1 .. Len(t)
      /\ 2 \in 1 .. Len(t) - i + 2 /\ Len(t) - i + 1 \in 2 - 1 .. Len(t) - i + 1
      /\ i + 2 - 1 = i + 1 /\ i + (Len(t) - i + 1) - 1 = Len(t)
  BY <1>1 DEF Text
<1>4. Tail(s) = SubSeq(t, i + 1, Len(t))
  <2>1. Tail(s) = SubSeq(s, 2, Len(s)) /\ Len(s) = Len(t) - i + 1
    BY <1>2, <1>3, Slice, TailIsSubSeq DEF Text
  <2>2. SubSeq(s, 2, Len(t) - i + 1)
            = SubSeq(t, i + 2 - 1, i + (Len(t) - i + 1) - 1)
    BY <1>2, <1>3, SliceOfSlice
  <2>3. QED
    BY <1>3, <2>1, <2>2
<1>5. Before(SubSeq(t, i + 1, Len(t)), "]") = SubSeq(t, i + 1, j - 1)
  BY <1>1, <1>3, FirstMark, ZenonT(40)
<1>6. Without(t, i, j - 1, "]")
  BY <1>1, <1>3 DEF Without
<1>7. Has(s, "]")
  BY <1>1, <1>2, <1>3, <1>6, FirstMark
<1>8. QED
  BY <1>1, <1>2, <1>4, <1>5, <1>7 DEF IsSection, extractSection, s

LEMMA RecordSaid ==
    ASSUME NEW t \in Text, NEW i \in 1 .. Len(t), NEW e \in i .. Len(t) + 1,
           HasRecord(t, i, e)
    PROVE  /\ strltrim[t] \in Text /\ strltrim[t] # <<>> /\ strltrim[t][1] # "#"
           /\ ~IsSection(strltrim[t])
           /\ Cut[strltrim[t]] = SubSeq(t, i, e - 1)
<1> DEFINE s == strltrim[t]
<1>1. s = SubSeq(t, i, Len(t)) /\ s \in Text /\ s # <<>> /\ s[1] = t[i]
  BY Beginning DEF HasRecord
<1> HIDE DEF s
<1>2. /\ Len(t) \in Nat /\ Len(t) \in i .. Len(t)
      /\ i \in 1 .. Len(t) + 1 /\ Len(t) \in i - 1 .. Len(t)
  BY DEF Text
<1>3. ~IsSection(s)
  <2>1. CASE t[i] # "["
    BY <1>1, <2>1 DEF IsSection
  <2>2. CASE Without(t, i, Len(t), "]")
    BY <1>1, <1>2, <2>2, NoMark DEF IsSection
  <2>3. QED
    BY <2>1, <2>2 DEF HasRecord
<1>4. ASSUME NEW m, e <= Len(t), t[e] = m, Without(t, i, e - 1, m)
      PROVE  Has(s, m) /\ Before(s, m) = SubSeq(t, i, e - 1)
  <2>1. e \in i .. Len(t)
    BY <1>2, <1>4
  <2>2. QED
    BY <1>1, <1>2, <1>4, <2>1, FirstMark, ZenonT(40)
<1>5. ASSUME NEW m, Without(t, i, Len(t), m)
      PROVE  ~Has(s, m)
  BY <1>1, <1>2, <1>5, NoMark
<1>6. Cut[s] = SubSeq(t, i, e - 1)
  <2>1. CASE e <= Len(t) /\ t[e] = ";" /\ Without(t, i, e - 1, ";")
    <3>1. Has(s, ";") /\ Before(s, ";") = SubSeq(t, i, e - 1)
      BY <1>4, <2>1
    <3>2. QED
      BY <1>1, <3>1 DEF Cut
  <2>2. CASE /\ Without(t, i, Len(t), ";")
             /\ e <= Len(t) /\ t[e] = CR /\ Without(t, i, e - 1, CR)
    <3>1. ~Has(s, ";") /\ Has(s, CR) /\ Before(s, CR) = SubSeq(t, i, e - 1)
      BY <1>4, <1>5, <2>2
    <3>2. QED
      BY <1>1, <3>1 DEF Cut
  <2>3. CASE /\ Without(t, i, Len(t), ";")
             /\ e = Len(t) + 1 /\ Without(t, i, Len(t), CR)
    <3>1. ~Has(s, ";") /\ ~Has(s, CR)
      BY <1>5, <2>3
    <3>2. e - 1 = Len(t)
      <4>1. e = Len(t) + 1 /\ Len(t) \in Nat
        BY <1>2, <2>3
      <4>2. QED
        BY <4>1
    <3>3. QED
      BY <1>1, <3>1, <3>2 DEF Cut
  <2>4. QED
    BY <2>1, <2>2, <2>3 DEF HasRecord, EndsBefore
<1>7. QED
  BY <1>1, <1>3, <1>6 DEF s, HasRecord

LEMMA SetSaid ==
    ASSUME NEW t \in Text, NEW key, NEW value, SaysSet(t, key, value)
    PROVE  /\ strltrim[t] # <<>> /\ strltrim[t][1] # "#" /\ ~IsSection(strltrim[t])
           /\ IsKeyValue(strltrim[t])
           /\ extractKeyValue[strltrim[t]] = [first |-> key, second |-> value]
<1>1. PICK i \in 1 .. Len(t), e \in Int, q \in Int :
          /\ e \in i .. Len(t) + 1 /\ q \in i .. e - 1
          /\ HasRecord(t, i, e)
          /\ t[q] = "=" /\ Without(t, i, q - 1, "=")
          /\ Between(t, i, q - 1, key) /\ Between(t, q + 1, e - 1, value)
  BY DEF SaysSet
<1> DEFINE s == strltrim[t]
<1>2. /\ s \in Text /\ s # <<>> /\ s[1] # "#" /\ ~IsSection(s)
      /\ Cut[s] = SubSeq(t, i, e - 1)
  BY <1>1, RecordSaid
<1> HIDE DEF s
<1>3. /\ Len(t) \in Nat /\ i \in 1 .. Len(t) /\ e - 1 \in i .. Len(t)
      /\ q \in i .. e - 1 /\ i \in 1 .. Len(t) + 1 /\ q - 1 \in i - 1 .. Len(t)
      /\ q + 1 \in 1 .. Len(t) + 1 /\ e - 1 \in (q + 1) - 1 .. Len(t)
  BY <1>1 DEF Text
<1>4. /\ Has(Cut[s], "=") /\ Before(Cut[s], "=") = SubSeq(t, i, q - 1)
      /\ After(Cut[s], "=") = SubSeq(t, q + 1, e - 1)
  <2>1. /\ Has(SubSeq(t, i, e - 1), "=")
        /\ Before(SubSeq(t, i, e - 1), "=") = SubSeq(t, i, q - 1)
        /\ After(SubSeq(t, i, e - 1), "=") = SubSeq(t, q + 1, e - 1)
    BY <1>1, <1>3, FirstMark
  <2>2. QED
    BY <1>2, <2>1
<1>5. strrtrim[SubSeq(t, i, q - 1)] = key
  <2>1. strltrim[SubSeq(t, i, q - 1)] = SubSeq(t, i, q - 1)
    <3>1. CASE q = i
      <4>1. SubSeq(t, i, q - 1) = <<>>
        BY <1>3, <3>1, SubSeqEmpty
      <4>2. Blank(t, i, q - 1)
        BY <1>3, <3>1 DEF Blank
      <4>3. QED
        BY <1>3, <4>1, <4>2, TrimBlank
    <3>2. CASE q > i
      <4>1. Blank(t, i, i - 1) /\ q - 1 \in i .. Len(t) /\ i \in i .. q - 1
        BY <1>3, <3>2 DEF Blank
      <4>2. t[i] \notin Blanks
        BY <1>1 DEF HasRecord, BeginsAt
      <4>3. QED
        BY <1>3, <4>1, <4>2, LtrimSlice
    <3>3. QED
      BY <1>3, <3>1, <3>2
  <2>2. strrtrim[strltrim[SubSeq(t, i, q - 1)]] = key
    BY <1>1, <1>3, TrimIsBetween
  <2>3. QED
    BY <2>1, <2>2
<1>6. strrtrim[strltrim[SubSeq(t, q + 1, e - 1)]] = value
  BY <1>1, <1>3, TrimIsBetween
<1>7. QED
  BY <1>2, <1>4, <1>5, <1>6 DEF IsKeyValue, extractKeyValue, s

LEMMA BadSaid ==
    ASSUME NEW t \in Text, IsBad(t)
    PROVE  /\ strltrim[t] # <<>> /\ strltrim[t][1] # "#" /\ ~IsSection(strltrim[t])
           /\ ~IsKeyValue(strltrim[t])
<1>1. PICK i \in 1 .. Len(t), e \in Int :
          /\ e \in i .. Len(t) + 1
          /\ HasRecord(t, i, e) /\ Without(t, i, e - 1, "=")
  BY DEF IsBad
<1>2. /\ i \in 1 .. Len(t) + 1 /\ e - 1 \in i - 1 .. Len(t)
  BY <1>1 DEF Text
<1>3. ~Has(SubSeq(t, i, e - 1), "=")
  BY <1>1, <1>2, NoMark
<1>4. QED
  BY <1>1, <1>3, RecordSaid DEF IsKeyValue

\* The four kinds of lines are told apart by the tests of parseFile.
LEMMA LineSays ==
    ASSUME NEW t \in Text, NEW m, Says(t, m)
    PROVE  \/ /\ m.kind = "nothing"
              /\ strltrim[t] # <<>> => strltrim[t][1] = "#"
           \/ /\ m.kind = "section"
              /\ strltrim[t] # <<>> /\ strltrim[t][1] # "#"
              /\ IsSection(strltrim[t]) /\ extractSection(strltrim[t]) = m.name
           \/ /\ m.kind = "set"
              /\ strltrim[t] # <<>> /\ strltrim[t][1] # "#" /\ ~IsSection(strltrim[t])
              /\ IsKeyValue(strltrim[t])
              /\ extractKeyValue[strltrim[t]] = [first |-> m.key, second |-> m.value]
           \/ /\ m.kind = "bad"
              /\ strltrim[t] # <<>> /\ strltrim[t][1] # "#" /\ ~IsSection(strltrim[t])
              /\ ~IsKeyValue(strltrim[t])
<1>1. CASE m.kind = "nothing" /\ SaysNothing(t)
  BY <1>1, NothingSaid
<1>2. CASE m.kind = "section" /\ SaysSection(t, m.name)
  BY <1>2, SectionSaid
<1>3. CASE m.kind = "set" /\ SaysSet(t, m.key, m.value)
  BY <1>3, SetSaid
<1>4. CASE m.kind = "bad" /\ IsBad(t)
  BY <1>4, BadSaid
<1>5. QED
  BY <1>1, <1>2, <1>3, <1>4 DEF Says

\* No text says two different things.
THEOREM NoTextSaysTwoThings ==
    \A t \in Text : \A m, n :
        Says(t, m) /\ Says(t, n) =>
            /\ m.kind = n.kind
            /\ m.kind = "section" => m.name = n.name
            /\ m.kind = "set" => m.key = n.key /\ m.value = n.value
<1> SUFFICES ASSUME NEW t \in Text, NEW m, NEW n, Says(t, m), Says(t, n)
             PROVE  /\ m.kind = n.kind
                    /\ m.kind = "section" => m.name = n.name
                    /\ m.kind = "set" => m.key = n.key /\ m.value = n.value
  OBVIOUS
<1> DEFINE s == strltrim[t]
           kv == extractKeyValue[s]
<1>1. \/ m.kind = "nothing" /\ (s # <<>> => s[1] = "#")
      \/ /\ m.kind = "section" /\ s # <<>> /\ s[1] # "#"
         /\ IsSection(s) /\ extractSection(s) = m.name
      \/ /\ m.kind = "set" /\ s # <<>> /\ s[1] # "#" /\ ~IsSection(s)
         /\ IsKeyValue(s) /\ kv = [first |-> m.key, second |-> m.value]
      \/ m.kind = "bad" /\ s # <<>> /\ s[1] # "#" /\ ~IsSection(s) /\ ~IsKeyValue(s)
  BY LineSays
<1>2. \/ n.kind = "nothing" /\ (s # <<>> => s[1] = "#")
      \/ /\ n.kind = "section" /\ s # <<>> /\ s[1] # "#"
         /\ IsSection(s) /\ extractSection(s) = n.name
      \/ /\ n.kind = "set" /\ s # <<>> /\ s[1] # "#" /\ ~IsSection(s)
         /\ IsKeyValue(s) /\ kv = [first |-> n.key, second |-> n.value]
      \/ n.kind = "bad" /\ s # <<>> /\ s[1] # "#" /\ ~IsSection(s) /\ ~IsKeyValue(s)
  BY LineSays
<1> HIDE DEF s, kv
<1>3. QED
  BY <1>1, <1>2

-----------------------------------------------------------------------------
(* The inductive invariant *)

\* What holds at each place of the parser.  ContentIsMeaning needs it: while
\* it reads, its section is the one the lines so far opened last.
AtPlace ==
    /\ file # NoFile => file \in Files
    /\ pc \in {"access", "open", "copy"} =>
          errorLine = 0 /\ section = <<"default">> /\ content = <<>> /\ ret = 0
    /\ pc \in {"copy", "parse"} => file # NoFile
    /\ pc = "parse" => section = SectionAt(errorLine) /\ ret = 0
    /\ pc = "parsed" /\ file = NoFile => content = <<>> /\ ret = 2
    /\ pc = "parsed" /\ ret = 0 => errorLine = Len(file)

IInv == TypeOK /\ AtPlace /\ ContentIsMeaning

-----------------------------------------------------------------------------
(* Every text says something *)

LEMMA LastOf ==
    ASSUME NEW n \in Nat, NEW S \in SUBSET (1 .. n), S # {}
    PROVE  \E x \in S : \A y \in S : y <= x
<1> DEFINE R == {m \in Nat : \E y \in S : m = n - y}
<1>1. R \in SUBSET Nat /\ R # {}
  <2>1. PICK y \in S : TRUE
    OBVIOUS
  <2>2. n - y \in R
    BY <2>1
  <2>3. QED
    BY <2>2
<1>2. PICK m \in R : \A k \in R : m <= k
  BY <1>1, Least
<1>3. PICK x \in S : m = n - x
  BY <1>2
<1>4. ASSUME NEW y \in S PROVE y <= x
  <2>1. n - y \in R
    OBVIOUS
  <2>2. n - x <= n - y
    BY <1>2, <1>3, <2>1
  <2>3. QED
    BY <2>2
<1>5. QED
  BY <1>4

LEMMA FirstOf ==
    ASSUME NEW n \in Nat, NEW S \in SUBSET (1 .. n), S # {}
    PROVE  \E x \in S : \A y \in S : x <= y
BY Least

\* What is left of a part of a text without the blanks around it.
LEMMA BetweenExists ==
    ASSUME NEW t \in Text, NEW i \in 1 .. Len(t) + 1, NEW j \in 0 .. Len(t)
    PROVE  \E w : Between(t, i, j, w)
<1> DEFINE S == {n \in 1 .. Len(t) : i <= n /\ n <= j /\ t[n] \notin Blanks}
<1>1. Len(t) \in Nat
  BY DEF Text
<1>2. CASE S = {}
  <2>1. Blank(t, i, j)
    BY <1>1, <1>2 DEF Blank
  <2>2. QED
    BY <2>1 DEF Between
<1>3. CASE S # {}
  <2>1. PICK a \in S : \A y \in S : a <= y
    BY <1>1, <1>3, FirstOf
  <2>2. PICK b \in S : \A y \in S : y <= b
    BY <1>1, <1>3, LastOf
  <2>3. a \in i .. j /\ b \in a .. j /\ t[a] \notin Blanks /\ t[b] \notin Blanks
    BY <1>1, <2>1, <2>2
  <2>4. Blank(t, i, a - 1)
    BY <1>1, <2>1, <2>3 DEF Blank
  <2>5. Blank(t, b + 1, j)
    BY <1>1, <2>2, <2>3 DEF Blank
  <2>6. QED
    BY <2>3, <2>4, <2>5 DEF Between
<1>4. QED
  BY <1>2, <1>3

\* A mark is first somewhere, or missing.
LEMMA FirstOrNone ==
    ASSUME NEW t \in Text, NEW i \in 1 .. Len(t) + 1, NEW n \in 0 .. Len(t), NEW mark
    PROVE  \/ Without(t, i, n, mark)
           \/ \E e \in 1 .. Len(t) : /\ i <= e /\ e <= n /\ t[e] = mark
                                     /\ Without(t, i, e - 1, mark)
<1> DEFINE S == {e \in 1 .. Len(t) : i <= e /\ e <= n /\ t[e] = mark}
<1>1. Len(t) \in Nat
  BY DEF Text
<1>2. CASE S = {}
  BY <1>1, <1>2 DEF Without
<1>3. CASE S # {}
  <2>1. PICK e \in S : \A y \in S : e <= y
    BY <1>1, <1>3, FirstOf
  <2>2. Without(t, i, e - 1, mark)
    BY <1>1, <2>1 DEF Without
  <2>3. QED
    BY <2>1, <2>2
<1>4. QED
  BY <1>2, <1>3

\* Every record ends somewhere.
LEMMA RecordEnds ==
    ASSUME NEW t \in Text, NEW i \in 1 .. Len(t)
    PROVE  \E e \in i .. Len(t) + 1 : EndsBefore(t, i, e)
<1>1. Len(t) \in Nat /\ i \in 1 .. Len(t) + 1 /\ Len(t) \in 0 .. Len(t)
  BY DEF Text
<1>2. CASE Without(t, i, Len(t), ";") /\ Without(t, i, Len(t), CR)
  <2>1. EndsBefore(t, i, Len(t) + 1)
    BY <1>2 DEF EndsBefore
  <2>2. QED
    BY <1>1, <2>1
<1>3. CASE ~Without(t, i, Len(t), ";")
  <2>1. PICK e \in 1 .. Len(t) : /\ i <= e /\ e <= Len(t) /\ t[e] = ";"
                                 /\ Without(t, i, e - 1, ";")
    BY <1>1, <1>3, FirstOrNone
  <2>2. EndsBefore(t, i, e)
    BY <2>1 DEF EndsBefore
  <2>3. i <= e /\ e <= Len(t)
    BY <2>1, Zenon
  <2>4. e \in i .. Len(t) + 1
    BY <1>1, <2>3
  <2>5. QED
    BY <2>2, <2>4
<1>4. CASE Without(t, i, Len(t), ";") /\ ~Without(t, i, Len(t), CR)
  <2>1. PICK e \in 1 .. Len(t) : /\ i <= e /\ e <= Len(t) /\ t[e] = CR
                                 /\ Without(t, i, e - 1, CR)
    BY <1>1, <1>4, FirstOrNone
  <2>2. EndsBefore(t, i, e)
    BY <1>4, <2>1 DEF EndsBefore
  <2>3. i <= e /\ e <= Len(t)
    BY <2>1, Zenon
  <2>4. e \in i .. Len(t) + 1
    BY <1>1, <2>3
  <2>5. QED
    BY <2>2, <2>4
<1>5. QED
  BY <1>2, <1>3, <1>4

\* The meanings of lines cover every text: FilesAssumption excludes no file, it
\* only says which meaning belongs to a text.
THEOREM EveryTextSaysSomething == \A t \in Text : \E means : Says(t, means)
<1> SUFFICES ASSUME NEW t \in Text PROVE \E means : Says(t, means)
  OBVIOUS
<1>1. Len(t) \in Nat
  BY DEF Text
<1> DEFINE S == {n \in 1 .. Len(t) : t[n] \notin Blanks}
<1>2. CASE S = {}
  <2>1. SaysNothing(t)
    BY <1>1, <1>2 DEF SaysNothing, Blank
  <2>2. Says(t, [kind |-> "nothing"])
    BY <2>1 DEF Says
  <2>3. QED
    BY <2>2
<1>3. CASE S # {}
  <2>1. PICK i \in S : \A y \in S : i <= y
    BY <1>1, <1>3, FirstOf
  <2>2. i \in 1 .. Len(t) /\ BeginsAt(t, i)
    BY <1>1, <2>1 DEF BeginsAt, Blank
  <2>3. CASE t[i] = "#"
    <3>1. SaysNothing(t)
      BY <2>2, <2>3 DEF SaysNothing
    <3>2. Says(t, [kind |-> "nothing"])
      BY <3>1 DEF Says
    <3>3. QED
      BY <3>2
  <2>4. CASE t[i] = "[" /\ ~Without(t, i, Len(t), "]")
    <3>1. i + 1 \in 1 .. Len(t) + 1 /\ ~Without(t, i + 1, Len(t), "]")
      BY <1>1, <2>2, <2>4 DEF Without
    <3>2. PICK j \in 1 .. Len(t) : /\ i + 1 <= j /\ t[j] = "]"
                                   /\ Without(t, i + 1, j - 1, "]")
      BY <1>1, <3>1, FirstOrNone
    <3>3. SaysSection(t, SubSeq(t, i + 1, j - 1))
      BY <1>1, <2>2, <2>4, <3>2 DEF SaysSection
    <3>4. Says(t, [kind |-> "section", name |-> SubSeq(t, i + 1, j - 1)])
      BY <3>3 DEF Says
    <3>5. QED
      BY <3>4
  <2>5. CASE t[i] # "#" /\ (t[i] = "[" => Without(t, i, Len(t), "]"))
    <3>1. PICK e \in i .. Len(t) + 1 : EndsBefore(t, i, e)
      BY <2>2, RecordEnds
    <3>2. HasRecord(t, i, e) /\ e \in Int /\ i <= e /\ e <= Len(t) + 1
      BY <1>1, <2>2, <2>5, <3>1 DEF HasRecord
    <3>3. CASE Without(t, i, e - 1, "=")
      <4>1. IsBad(t)
        BY <2>2, <3>1, <3>2, <3>3 DEF IsBad
      <4>2. Says(t, [kind |-> "bad"])
        BY <4>1 DEF Says
      <4>3. QED
        BY <4>2
    <3>4. CASE ~Without(t, i, e - 1, "=")
      <4>1. PICK q \in 1 .. Len(t) : /\ i <= q /\ q <= e - 1 /\ t[q] = "="
                                     /\ Without(t, i, q - 1, "=")
        <5>1. e - 1 \in 0 .. Len(t) /\ i \in 1 .. Len(t) + 1
          BY <1>1, <2>2, <3>2
        <5>2. QED
          BY <3>4, <5>1, FirstOrNone
      <4>2. q - 1 \in 0 .. Len(t) /\ q + 1 \in 1 .. Len(t) + 1 /\ e - 1 \in 0 .. Len(t)
            /\ q \in i .. e - 1 /\ i \in 1 .. Len(t) + 1
        BY <1>1, <2>2, <3>2, <4>1
      <4>3. PICK key : Between(t, i, q - 1, key)
        BY <4>2, BetweenExists
      <4>4. PICK value : Between(t, q + 1, e - 1, value)
        BY <4>2, BetweenExists
      <4>5. SaysSet(t, key, value)
        BY <2>2, <3>1, <3>2, <4>1, <4>2, <4>3, <4>4 DEF SaysSet
      <4>6. Says(t, [kind |-> "set", key |-> key, value |-> value])
        BY <4>5 DEF Says
      <4>7. QED
        BY <4>6
    <3>5. QED
      BY <3>3, <3>4
  <2>6. QED
    BY <2>3, <2>4, <2>5
<1>4. QED
  BY <1>2, <1>3

-----------------------------------------------------------------------------
(* What the first lines of a file mean *)

\* the sections and keys that the lines up to n set
Keys(n) == {<<SectionAt(i), file[i].means.key>> :
               i \in {j \in 1 .. n : file[j].means.kind = "set"}}

\* c has the first value of each key set up to line n.
FirstValues(c, n) ==
    /\ DOMAIN c = Keys(n)
    /\ \A sk \in DOMAIN c : c[sk] = file[Min(Setters(sk[1], sk[2], n))].means.value

LEMMA Unfolded ==
    ContentIsMeaning <=>
        ((pc \in {"parse", "parsed"} /\ file # NoFile) =>
            /\ FirstValues(content, errorLine)
            /\ ret = SyntaxError => errorLine = Min(BadLines)
            /\ pc = "parse" => \A i \in BadLines : i > errorLine
            /\ pc = "parsed" /\ ret = 0 => BadLines = {})
BY DEF ContentIsMeaning, FirstValues, Keys

LEMMA UnfoldedNext ==
    ContentIsMeaning' <=>
        ((pc' \in {"parse", "parsed"} /\ file' # NoFile) =>
            /\ FirstValues(content, errorLine)'
            /\ ret' = SyntaxError => errorLine' = Min(BadLines')
            /\ pc' = "parse" => \A i \in BadLines' : i > errorLine'
            /\ pc' = "parsed" /\ ret' = 0 => BadLines' = {})
BY DEF ContentIsMeaning, FirstValues, Keys

\* The meaning of a file does not change.
LEMMA SameFile ==
    ASSUME file' = file
    PROVE  /\ BadLines' = BadLines
           /\ SectionAt(errorLine)' = SectionAt(errorLine')
           /\ FirstValues(content, errorLine)' <=> FirstValues(content', errorLine')
<1>1. BadLines' = BadLines
  BY DEF BadLines
<1>2. SectionAt(errorLine)' = SectionAt(errorLine')
  BY DEF SectionAt
<1>3. FirstValues(content, errorLine)' <=> FirstValues(content', errorLine')
  BY DEF FirstValues, Keys, Setters, SetsAt, SectionAt
<1>4. QED
  BY <1>1, <1>2, <1>3

LEMMA SectionNext ==
    ASSUME NEW n \in Nat
    PROVE  SectionAt(n + 1) = IF file[n + 1].means.kind = "section"
                              THEN file[n + 1].means.name ELSE SectionAt(n)
<1> DEFINE heads(m) == {j \in 1 .. m : file[j].means.kind = "section"}
<1>1. \A m : SectionAt(m) = IF heads(m) = {} THEN <<"default">>
                            ELSE file[Max(heads(m))].means.name
  BY DEF SectionAt
<1>2. CASE file[n + 1].means.kind = "section"
  <2>1. /\ heads(n + 1) \in SUBSET Int /\ n + 1 \in heads(n + 1)
        /\ \A y \in heads(n + 1) : y <= n + 1
    BY <1>2
  <2> HIDE DEF heads
  <2>2. Max(heads(n + 1)) = n + 1
    BY <2>1, MaxIs
  <2>3. QED
    BY <1>1, <1>2, <2>1, <2>2
<1>3. CASE file[n + 1].means.kind # "section"
  <2>1. heads(n + 1) = heads(n)
    BY <1>3
  <2> HIDE DEF heads
  <2>2. QED
    BY <1>1, <1>3, <2>1
<1>4. QED
  BY <1>2, <1>3

LEMMA NoLineYet == SectionAt(0) = <<"default">> /\ Keys(0) = {}
<1>1. {j \in 1 .. 0 : file[j].means.kind = "section"} = {}
      /\ {j \in 1 .. 0 : file[j].means.kind = "set"} = {}
  OBVIOUS
<1>2. QED
  BY <1>1 DEF SectionAt, Keys

LEMMA SettersNext ==
    ASSUME NEW n \in Nat, NEW s, NEW k
    PROVE  Setters(s, k, n + 1) =
               Setters(s, k, n) \cup IF SetsAt(n + 1, s, k) THEN {n + 1} ELSE {}
BY DEF Setters

\* A later line does not change the first that sets a key.
LEMMA FirstSetter ==
    ASSUME NEW n \in Nat, NEW s, NEW k, Setters(s, k, n) # {}
    PROVE  Min(Setters(s, k, n + 1)) = Min(Setters(s, k, n))
<1>1. Setters(s, k, n) \in SUBSET (1 .. n) /\ 1 .. n \in SUBSET Nat
  BY DEF Setters
<1>2. PICK x \in Setters(s, k, n) : \A y \in Setters(s, k, n) : x <= y
  BY <1>1, Least
<1>3. Min(Setters(s, k, n)) = x
  BY <1>1, <1>2, MinIs
<1>4. /\ x \in 1 .. n /\ x \in Setters(s, k, n + 1)
      /\ Setters(s, k, n + 1) \in SUBSET Int
      /\ \A y \in Setters(s, k, n + 1) : x <= y
  BY <1>1, <1>2, SettersNext
<1>5. Min(Setters(s, k, n + 1)) = x
  BY <1>4, MinIs
<1>6. QED
  BY <1>3, <1>5

LEMMA KeysHaveSetters ==
    ASSUME NEW n
    PROVE  /\ \A s, k : <<s, k>> \in Keys(n) <=> Setters(s, k, n) # {}
           /\ \A sk \in Keys(n) : sk = <<sk[1], sk[2]>> /\ Len(sk) = 2
BY DEF Keys, Setters, SetsAt

LEMMA KeysNext ==
    ASSUME NEW n \in Nat
    PROVE  Keys(n + 1) = Keys(n) \cup
               IF file[n + 1].means.kind = "set"
               THEN {<<SectionAt(n + 1), file[n + 1].means.key>>} ELSE {}
<1> DEFINE S(m) == {j \in 1 .. m : file[j].means.kind = "set"}
<1>1. S(n + 1) = S(n) \cup IF file[n + 1].means.kind = "set" THEN {n + 1} ELSE {}
  OBVIOUS
<1>2. \A m : Keys(m) = {<<SectionAt(i), file[i].means.key>> : i \in S(m)}
  BY DEF Keys
<1> HIDE DEF S
<1>3. QED
  BY <1>1, <1>2

\* A line that sets nothing changes nothing.
LEMMA NoneSet ==
    ASSUME NEW n \in Nat, NEW c, FirstValues(c, n),
           file[n + 1].means.kind # "set"
    PROVE  FirstValues(c, n + 1)
<1>1. Keys(n + 1) = Keys(n)
  BY KeysNext
<1>2. ASSUME NEW s, NEW k
      PROVE  Setters(s, k, n + 1) = Setters(s, k, n)
  <2>1. ~SetsAt(n + 1, s, k)
    BY DEF SetsAt
  <2>2. QED
    BY <2>1, SettersNext, ZenonT(40)
<1>3. QED
  BY <1>1, <1>2 DEF FirstValues

\* insert adds what the line sets, unless the key has its value already.
LEMMA OneSet ==
    ASSUME NEW n \in Nat, FirstValues(content, n),
           file[n + 1].means.kind = "set"
    PROVE  FirstValues(insert(<<SectionAt(n), file[n + 1].means.key>>,
                              file[n + 1].means.value), n + 1)
<1> DEFINE c == content
           new == <<SectionAt(n), file[n + 1].means.key>>
           d == insert(new, file[n + 1].means.value)
<1>1. SectionAt(n + 1) = SectionAt(n)
  BY SectionNext
<1>2. Keys(n + 1) = Keys(n) \cup {new}
  BY <1>1, KeysNext
<1>3. /\ DOMAIN d = DOMAIN c \cup {new}
      /\ \A sk \in DOMAIN d :
            d[sk] = IF sk \in DOMAIN c THEN c[sk] ELSE file[n + 1].means.value
  BY DEF insert
<1>4. /\ DOMAIN c = Keys(n)
      /\ \A sk \in Keys(n) : c[sk] = file[Min(Setters(sk[1], sk[2], n))].means.value
  BY DEF FirstValues
<1>5. new[1] = SectionAt(n + 1) /\ new[2] = file[n + 1].means.key
      /\ new = <<new[1], new[2]>>
  BY <1>1
<1> HIDE DEF c, d, new
<1>6. ASSUME NEW sk \in Keys(n)
      PROVE  d[sk] = file[Min(Setters(sk[1], sk[2], n + 1))].means.value
  <2>1. Setters(sk[1], sk[2], n) # {}
    BY KeysHaveSetters
  <2>2. Min(Setters(sk[1], sk[2], n + 1)) = Min(Setters(sk[1], sk[2], n))
    BY <2>1, FirstSetter
  <2>3. QED
    BY <1>3, <1>4, <2>2
<1>7. ASSUME new \notin Keys(n)
      PROVE  d[new] = file[Min(Setters(new[1], new[2], n + 1))].means.value
  <2>1. Setters(new[1], new[2], n) = {}
    BY <1>5, <1>7, KeysHaveSetters
  <2>2. SetsAt(n + 1, new[1], new[2])
    BY <1>5 DEF SetsAt
  <2>3. Setters(new[1], new[2], n + 1) = {n + 1}
    BY <2>1, <2>2, SettersNext
  <2>4. Min({n + 1}) = n + 1
    <3>1. {n + 1} \in SUBSET Int /\ n + 1 \in {n + 1} /\ \A y \in {n + 1} : n + 1 <= y
      OBVIOUS
    <3>2. QED
      BY <3>1, MinIs
  <2>5. QED
    BY <1>3, <1>4, <1>7, <2>3, <2>4
<1>8. FirstValues(d, n + 1)
  BY <1>2, <1>3, <1>4, <1>6, <1>7 DEF FirstValues
<1>9. QED
  BY <1>8 DEF d, new

-----------------------------------------------------------------------------
(* Types and meaning are kept by every step *)

\* the places of parseFile
Places == {"access", "open", "copy", "endless", "parse", "undefined", "parsed"}

LEMMA FileType ==
    ASSUME NEW f \in Files, NEW i \in 1 .. Len(f)
    PROVE  f[i].means.kind \in {"section", "set", "nothing", "bad"}
BY FilesAssumption DEF Says

\* The conversion to int32_t
LEMMA Wraps ==
    /\ \A n \in Int : int32(n) \in Int32 /\ truncated(n) \in Int32
    /\ \A n \in Int : 0 <= n /\ n < Half => int32(n) = n
<1> DEFINE h == Half
<1>1. h \in Nat /\ h > 0 /\ h >= 32768
  BY KBWrapAssumption DEF Half
<1> HIDE DEF h
<1>2. ASSUME NEW n \in Int
      PROVE  /\ n % (2 * h) \in Int /\ 0 <= n % (2 * h) /\ n % (2 * h) < 2 * h
             /\ 0 <= n /\ n < h => n % (2 * h) = n
  BY <1>1
<1>3. ASSUME NEW n \in Int
      PROVE  int32(n) = IF n % (2 * h) < h THEN n % (2 * h) ELSE (n % (2 * h)) - 2 * h
  BY DEF int32, h
<1>4. Int32 = - h .. h - 1
  BY DEF Int32, h
<1>5. ASSUME NEW n \in Int
      PROVE  /\ int32(n) \in Int32 /\ truncated(n) \in Int32
             /\ 0 <= n /\ n < h => int32(n) = n
  <2> DEFINE m == n % (2 * h)
  <2>1. /\ m \in Int /\ 0 <= m /\ m < 2 * h /\ (0 <= n /\ n < h => m = n)
        /\ int32(n) = IF m < h THEN m ELSE m - 2 * h
    BY <1>2, <1>3
  <2> HIDE DEF m
  <2>2. int32(n) \in Int32 /\ (0 <= n /\ n < h => int32(n) = n)
    BY <1>1, <1>4, <2>1
  <2>3. truncated(n) \in Int32
    <3>1. - h \in Int32
      BY <1>1, <1>4
    <3>2. truncated(n) = IF n \in Int32 THEN n ELSE - h
      BY DEF truncated, h
    <3>3. QED
      BY <3>1, <3>2
  <2>4. QED
    BY <2>2, <2>3
<1>6. QED
  BY <1>5 DEF h

LEMMA SmallInts == {1, 10, 20, 6500} \subseteq Int32 /\ Int32 \subseteq Int
<1> DEFINE h == Half
<1>1. h \in Nat /\ h >= 32768
  BY KBWrapAssumption DEF Half
<1>2. Int32 = - h .. h - 1
  BY DEF Int32
<1> HIDE DEF h
<1>3. QED
  BY <1>1, <1>2

LEMMA DefaultsFit ==
    /\ {Defaults("server").threads, Defaults("server").interval} \subseteq Int32
    /\ Defaults("server").port \in Int32
    /\ Defaults("client").port \in UInt16
BY SmallInts DEF Defaults, UInt16

\* Nothing is stored before the file has been parsed.
LEMMA NothingStored ==
    ASSUME TypeOK, UNCHANGED <<prog, settings, made>>,
           pc \notin {"exited", "thrown", "done", "overrun"},
           pc' \notin {"exited", "thrown", "done"}
    PROVE  SettingTypes' /\ LeftBehind'
<1>1. SettingTypes'
  BY DEF TypeOK, SettingTypes
<1>2. LeftBehind'
  BY DEF TypeOK, LeftBehind
<1>3. QED
  BY <1>1, <1>2

LEMMA InitIInv == Init => IInv
<1> SUFFICES ASSUME Init PROVE IInv
  OBVIOUS
<1>1. /\ file \in Files \cup {NoFile} /\ errorLine = 0 /\ section = <<"default">>
      /\ content = <<>> /\ ret = 0 /\ prog \in {"server", "client"}
      /\ pc \in {"access", "open"} /\ settings = Defaults(prog) /\ made = {}
  BY DEF Init, ParserInit
<1>2. file # NoFile => /\ file \in Files /\ Len(file) \in Nat
                       /\ \A i \in 1 .. Len(file) : file[i].means.kind
                              \in {"section", "set", "nothing", "bad"}
  BY <1>1, FileType, FilesAssumption
<1>3. DOMAIN content = {}
  BY <1>1
<1>4. TypeOK
  <2>1. ParserTypes
    BY <1>1, <1>2, <1>3 DEF ParserTypes, Returned
  <2>2. SettingTypes
    BY <1>1, DefaultsFit DEF SettingTypes
  <2>3. LeftBehind
    BY <1>1 DEF LeftBehind
  <2>4. QED
    BY <2>1, <2>2, <2>3 DEF TypeOK
<1>5. AtPlace
  BY <1>1, <1>2 DEF AtPlace
<1>6. ContentIsMeaning
  BY <1>1 DEF ContentIsMeaning
<1>7. QED
  BY <1>4, <1>5, <1>6 DEF IInv

\* What is known of the line that is read next.
LEMMA NextLineRead ==
    ASSUME IInv, AtLine
    PROVE  /\ errorLine \in Nat /\ errorLine + 1 \in 1 .. Len(file)
           /\ Len(file) \in Nat /\ file \in Files /\ file # NoFile
           /\ section = SectionAt(errorLine) /\ ret = 0
           /\ FirstValues(content, errorLine)
           /\ \A i \in BadLines : i > errorLine
           /\ \/ /\ file[errorLine + 1].means.kind = "nothing"
                 /\ Line # <<>> => Line[1] = "#"
              \/ /\ file[errorLine + 1].means.kind = "section"
                 /\ Line # <<>> /\ Line[1] # "#" /\ IsSection(Line)
                 /\ extractSection(Line) = file[errorLine + 1].means.name
              \/ /\ file[errorLine + 1].means.kind = "set"
                 /\ Line # <<>> /\ Line[1] # "#" /\ ~IsSection(Line) /\ IsKeyValue(Line)
                 /\ extractKeyValue[Line] = [first |-> file[errorLine + 1].means.key,
                                            second |-> file[errorLine + 1].means.value]
              \/ /\ file[errorLine + 1].means.kind = "bad"
                 /\ Line # <<>> /\ Line[1] # "#" /\ ~IsSection(Line) /\ ~IsKeyValue(Line)
<1>1. pc = "parse" /\ errorLine < Len(file)
  BY DEF AtLine
<1>2. file \in Files /\ file # NoFile /\ section = SectionAt(errorLine) /\ ret = 0
  BY <1>1 DEF IInv, AtPlace
<1>3. errorLine \in Nat /\ Len(file) \in Nat /\ errorLine + 1 \in 1 .. Len(file)
  BY <1>1, <1>2, FilesAssumption DEF IInv, TypeOK, ParserTypes
<1>4. FirstValues(content, errorLine) /\ \A i \in BadLines : i > errorLine
  BY <1>1, <1>2, Unfolded DEF IInv
<1> DEFINE t == file[errorLine + 1].text
           m == file[errorLine + 1].means
<1>5. t \in Text /\ Says(t, m) /\ Line = strltrim[t]
  BY <1>2, <1>3, FilesAssumption DEF Line
<1> HIDE DEF t
<1>6. QED
  BY <1>2, <1>3, <1>4, <1>5, LineSays

\* A line that was read and sets nothing, or whose value was inserted.
LEMMA LineStep ==
    ASSUME IInv, AtLine, errorLine' = errorLine + 1, file' = file,
           pc' = "parse", ret' = ret, UNCHANGED <<prog, settings, made>>,
           section' = SectionAt(errorLine + 1),
           file[errorLine + 1].means.kind # "bad",
           FirstValues(content', errorLine + 1)
    PROVE  IInv'
<1>1. pc = "parse"
  BY DEF AtLine
<1>2. /\ errorLine \in Nat /\ errorLine + 1 \in 1 .. Len(file) /\ Len(file) \in Nat
      /\ file \in Files /\ ret = 0 /\ \A i \in BadLines : i > errorLine
  BY NextLineRead
<1>3. \A sk \in DOMAIN content' : Len(sk) = 2
  <2>1. DOMAIN content' = Keys(errorLine + 1)
    BY DEF FirstValues
  <2>2. QED
    BY <2>1, KeysHaveSetters
<1>4. TypeOK'
  <2>1. TypeOK
    BY DEF IInv
  <2>2. ParserTypes'
    BY <1>1, <1>2, <1>3, <2>1 DEF TypeOK, ParserTypes, Returned
  <2>3. SettingTypes' /\ LeftBehind'
    BY <1>1, <2>1, NothingStored
  <2>4. QED
    BY <2>2, <2>3 DEF TypeOK
<1>5. SectionAt(errorLine)' = SectionAt(errorLine + 1)
  BY SameFile
<1>6. AtPlace'
  BY <1>1, <1>2, <1>5 DEF IInv, AtPlace
<1>7. \A i \in BadLines' : i > errorLine + 1
  <2>1. ASSUME NEW i \in BadLines PROVE i > errorLine + 1
    <3>1. i \in Int /\ i > errorLine /\ i # errorLine + 1
      BY <1>2 DEF BadLines
    <3>2. QED
      BY <1>2, <3>1
  <2>2. QED
    BY <2>1, SameFile
<1>8. FirstValues(content, errorLine)'
  BY SameFile
<1>9. ContentIsMeaning'
  <2>1. ret' # SyntaxError
    BY <1>2 DEF SyntaxError
  <2>2. QED
    BY <1>7, <1>8, <2>1, UnfoldedNext
<1>10. QED
  BY <1>4, <1>6, <1>9 DEF IInv

LEMMA NewSectionStep == ASSUME IInv, Parse, NewSection PROVE IInv'
<1>1. /\ AtLine /\ Line # <<>> /\ IsSection(Line) /\ section' = extractSection(Line)
      /\ errorLine' = errorLine + 1 /\ UNCHANGED <<file, pc, ret, content>>
      /\ UNCHANGED <<prog, settings, made>>
  BY DEF Parse, NewSection, NextLine
<1>2. /\ errorLine \in Nat /\ FirstValues(content, errorLine)
      /\ file[errorLine + 1].means.kind = "section"
      /\ extractSection(Line) = file[errorLine + 1].means.name
  <2>1. Line[1] # "#"
    BY <1>1 DEF IsSection
  <2>2. QED
    BY <1>1, <2>1, NextLineRead
<1>3. section' = SectionAt(errorLine + 1)
  BY <1>1, <1>2, SectionNext
<1>4. FirstValues(content, errorLine + 1)
  BY <1>2, NoneSet
<1>5. pc' = "parse"
  BY <1>1 DEF AtLine
<1>6. QED
  BY <1>1, <1>2, <1>3, <1>4, <1>5, LineStep

LEMMA SkipStep == ASSUME IInv, Parse, Skip PROVE IInv'
<1>1. /\ AtLine /\ (Line # <<>> => Line[1] = "#")
      /\ errorLine' = errorLine + 1 /\ UNCHANGED <<file, pc, ret, section, content>>
      /\ UNCHANGED <<prog, settings, made>>
  BY DEF Parse, Skip, NextLine
<1>2. /\ errorLine \in Nat /\ FirstValues(content, errorLine)
      /\ section = SectionAt(errorLine)
      /\ file[errorLine + 1].means.kind = "nothing"
  BY <1>1, NextLineRead
<1>3. section' = SectionAt(errorLine + 1)
  BY <1>1, <1>2, SectionNext
<1>4. FirstValues(content, errorLine + 1)
  BY <1>2, NoneSet
<1>5. pc' = "parse"
  BY <1>1 DEF AtLine
<1>6. QED
  BY <1>1, <1>2, <1>3, <1>4, <1>5, LineStep

LEMMA KeyValueStep == ASSUME IInv, Parse, KeyValue PROVE IInv'
<1>1. /\ AtLine /\ Line # <<>> /\ Line[1] # "#" /\ ~IsSection(Line) /\ IsKeyValue(Line)
      /\ content' = insert(<<section, extractKeyValue[Line].first>>,
                           extractKeyValue[Line].second)
      /\ errorLine' = errorLine + 1 /\ UNCHANGED <<file, pc, ret, section>>
      /\ UNCHANGED <<prog, settings, made>>
  BY DEF Parse, KeyValue, Record, NextLine
<1>2. /\ errorLine \in Nat /\ FirstValues(content, errorLine)
      /\ section = SectionAt(errorLine)
      /\ file[errorLine + 1].means.kind = "set"
      /\ extractKeyValue[Line] = [first |-> file[errorLine + 1].means.key,
                                 second |-> file[errorLine + 1].means.value]
  BY <1>1, NextLineRead
<1>3. section' = SectionAt(errorLine + 1)
  BY <1>1, <1>2, SectionNext
<1>4. FirstValues(content', errorLine + 1)
  <2>1. content' = insert(<<SectionAt(errorLine), file[errorLine + 1].means.key>>,
                          file[errorLine + 1].means.value)
    BY <1>1, <1>2
  <2>2. QED
    BY <1>2, <2>1, OneSet
<1>5. pc' = "parse"
  BY <1>1 DEF AtLine
<1>6. QED
  BY <1>1, <1>2, <1>3, <1>4, <1>5, LineStep

LEMMA BadLineStep == ASSUME IInv, Parse, BadLine PROVE IInv'
<1>1. /\ AtLine /\ Line # <<>> /\ Line[1] # "#" /\ ~IsSection(Line) /\ ~IsKeyValue(Line)
      /\ pc' = "parsed" /\ ret' = SyntaxError /\ errorLine' = errorLine + 1
      /\ UNCHANGED <<file, section, content, prog, settings, made>>
  BY DEF Parse, BadLine, Record
<1>2. pc = "parse"
  BY <1>1 DEF AtLine
<1>3. /\ errorLine \in Nat /\ errorLine + 1 \in 1 .. Len(file) /\ Len(file) \in Nat
      /\ file \in Files /\ file # NoFile /\ FirstValues(content, errorLine)
      /\ \A i \in BadLines : i > errorLine
      /\ file[errorLine + 1].means.kind = "bad"
  BY <1>1, NextLineRead
<1>4. TypeOK'
  <2>1. TypeOK
    BY DEF IInv
  <2>2. ParserTypes'
    BY <1>1, <1>2, <1>3, <2>1 DEF TypeOK, ParserTypes, Returned
  <2>3. SettingTypes' /\ LeftBehind'
    BY <1>1, <1>2, <2>1, NothingStored
  <2>4. QED
    BY <2>2, <2>3 DEF TypeOK
<1>5. AtPlace'
  BY <1>1, <1>3 DEF IInv, AtPlace, SyntaxError
<1>6. Min(BadLines) = errorLine + 1
  <2>1. BadLines \in SUBSET Int /\ errorLine + 1 \in BadLines
    BY <1>3 DEF BadLines
  <2>2. \A i \in BadLines : errorLine + 1 <= i
    BY <1>3, <2>1
  <2>3. QED
    BY <2>1, <2>2, MinIs
<1>7. FirstValues(content, errorLine)'
  <2>1. FirstValues(content', errorLine')
    BY <1>1, <1>3, NoneSet
  <2>2. QED
    BY <1>1, <2>1, SameFile
<1>8. ContentIsMeaning'
  <2>1. errorLine' = Min(BadLines')
    BY <1>1, <1>6, SameFile
  <2>2. QED
    BY <1>1, <1>7, <2>1, UnfoldedNext DEF SyntaxError
<1>9. QED
  BY <1>4, <1>5, <1>8 DEF IInv

LEMMA EndOfFileStep == ASSUME IInv, Parse, EndOfFile PROVE IInv'
<1>1. /\ pc = "parse" /\ errorLine = Len(file) /\ pc' = "parsed" /\ ret' = 0
      /\ UNCHANGED <<file, errorLine, section, content, prog, settings, made>>
  BY DEF Parse, EndOfFile
<1>2. /\ file \in Files /\ file # NoFile /\ FirstValues(content, errorLine)
      /\ \A i \in BadLines : i > errorLine
  BY <1>1, Unfolded DEF IInv, AtPlace
<1>3. TypeOK'
  <2>1. TypeOK
    BY DEF IInv
  <2>2. ParserTypes'
    BY <1>1, <2>1 DEF TypeOK, ParserTypes, Returned
  <2>3. SettingTypes' /\ LeftBehind'
    BY <1>1, <2>1, NothingStored
  <2>4. QED
    BY <2>2, <2>3 DEF TypeOK
<1>4. AtPlace'
  BY <1>1, <1>2 DEF IInv, AtPlace
<1>5. BadLines = {}
  <2>1. Len(file) \in Nat
    BY <1>2, FilesAssumption
  <2>2. \A i \in BadLines : i \in Int /\ i <= Len(file) /\ i > Len(file)
    BY <1>1, <1>2, <2>1 DEF BadLines
  <2>3. QED
    BY <2>1, <2>2
<1>6. FirstValues(content, errorLine)' /\ BadLines' = {}
  BY <1>1, <1>2, <1>5, SameFile
<1>7. ContentIsMeaning'
  BY <1>1, <1>6, UnfoldedNext DEF SyntaxError
<1>8. QED
  BY <1>3, <1>4, <1>7 DEF IInv

\* Opening and copying the file.
LEMMA CopyStep ==
    ASSUME IInv, Parse, OpenFails \/ Open \/ Copy \/ CopyEndless \/ EmptyKey
    PROVE  IInv'
<1>1. UNCHANGED <<file, prog, settings, made>>
  BY DEF Parse, OpenFails, Open, Copy, CopyEndless, EmptyKey
<1>2. /\ pc \in {"open", "copy", "parse"}
      /\ errorLine \in Nat /\ (file # NoFile => file \in Files /\ Len(file) \in Nat)
  BY FilesAssumption DEF OpenFails, Open, Copy, CopyEndless, EmptyKey, Record, AtLine,
     IInv, TypeOK, ParserTypes, AtPlace
<1>3. pc' \notin {"exited", "thrown", "done"}
  BY DEF OpenFails, Open, Copy, CopyEndless, EmptyKey
<1>4. ParserTypes /\ SettingTypes' /\ LeftBehind'
  <2>1. TypeOK
    BY DEF IInv
  <2>2. SettingTypes' /\ LeftBehind'
    BY <1>3, <1>1, <1>2, <2>1, NothingStored
  <2>3. QED
    BY <2>1, <2>2 DEF TypeOK
<1>5. CASE OpenFails
  <2>1. /\ pc = "open" /\ file = NoFile /\ pc' = "parsed" /\ ret' = 2
        /\ UNCHANGED <<errorLine, section, content>>
    BY <1>5 DEF OpenFails
  <2>2. TypeOK'
    BY <1>1, <1>4, <2>1 DEF TypeOK, ParserTypes, Returned
  <2>3. AtPlace'
    BY <1>1, <2>1 DEF IInv, AtPlace
  <2>4. ContentIsMeaning'
    BY <1>1, <2>1 DEF ContentIsMeaning
  <2>5. QED
    BY <2>2, <2>3, <2>4 DEF IInv
<1>6. CASE Open
  <2>1. /\ pc = "open" /\ file # NoFile /\ pc' = "copy" /\ ret' = ret
        /\ errorLine' = 0 /\ section' = <<"default">> /\ content' = <<>>
    BY <1>6 DEF Open
  <2>2. DOMAIN content' = {}
    BY <2>1
  <2>3. TypeOK'
    BY <1>1, <1>2, <1>4, <2>1, <2>2 DEF TypeOK, ParserTypes, Returned
  <2>4. AtPlace'
    BY <1>1, <2>1 DEF IInv, AtPlace
  <2>5. ContentIsMeaning'
    BY <1>1, <2>1 DEF ContentIsMeaning
  <2>6. QED
    BY <2>3, <2>4, <2>5 DEF IInv
<1>7. CASE Copy
  <2>1. /\ pc = "copy" /\ pc' = "parse"
        /\ UNCHANGED <<errorLine, section, content, ret>>
    BY <1>7 DEF Copy, parser
  <2>2. errorLine = 0 /\ section = <<"default">> /\ content = <<>> /\ ret = 0
        /\ file # NoFile /\ file \in Files
    BY <2>1 DEF IInv, AtPlace
  <2>3. TypeOK'
    BY <1>1, <1>4, <2>1 DEF TypeOK, ParserTypes, Returned
  <2>4. AtPlace'
    <3>1. SectionAt(errorLine)' = SectionAt(0)
      BY <1>1, <2>1, <2>2, SameFile
    <3>2. QED
      BY <1>1, <2>1, <2>2, <3>1, NoLineYet DEF AtPlace
  <2>5. FirstValues(content', errorLine')
    <3>1. DOMAIN content = {}
      BY <2>2
    <3>2. QED
      BY <2>1, <2>2, <3>1, NoLineYet DEF FirstValues
  <2>6. \A i \in BadLines' : i > 0
    BY DEF BadLines
  <2>7. ContentIsMeaning'
    BY <1>1, <2>1, <2>2, <2>5, <2>6, SameFile, UnfoldedNext DEF SyntaxError
  <2>8. QED
    BY <2>3, <2>4, <2>7 DEF IInv
<1>8. CASE CopyEndless \/ EmptyKey
  <2>1. /\ pc' \in {"endless", "undefined"}
        /\ UNCHANGED <<errorLine, section, content, ret>>
    BY <1>8 DEF CopyEndless, EmptyKey, parser
  <2>2. TypeOK'
    BY <1>1, <1>2, <1>4, <2>1 DEF TypeOK, ParserTypes, Returned
  <2>3. AtPlace' /\ ContentIsMeaning'
    BY <1>1, <2>1 DEF IInv, AtPlace, ContentIsMeaning
  <2>4. QED
    BY <2>2, <2>3 DEF IInv
<1>9. QED
  BY <1>5, <1>6, <1>7, <1>8

LEMMA ParseStep == ASSUME IInv, Parse PROVE IInv'
BY NewSectionStep, SkipStep, KeyValueStep, BadLineStep, EndOfFileStep, CopyStep
   DEF Parse, parseFile

\* a number of the file
LEMMA NumbersAreInts == \A x, k : getIntValue(x, k) \in Int
BY NumberAssumption DEF getIntValue

\* The readers store what the file says into what they found.
LEMMA ServerStores ==
    ASSUME settings = Defaults("server")
    PROVE  /\ QueueSet = [Defaults("server") EXCEPT !.queueMB = QueueSet.queueMB]
           /\ PortSet.maxMsgKB = Defaults("server").maxMsgKB /\ PortSet.port = ServerPort
           /\ DOMAIN PortSet = DOMAIN Defaults("server")
           /\ DOMAIN ServerSettings = DOMAIN Defaults("server")
           /\ {PortSet.threads, PortSet.port, PortSet.interval} \subseteq Int32
           /\ ServerSettings.threads = PortSet.threads /\ ServerSettings.port = PortSet.port
           /\ ServerSettings.interval = PortSet.interval
<1> DEFINE thr == AtLeast(int32(getIntValue("Settings", "ProcessThreadCnt")), 1, 1)
           int == AtLeast(truncated(getIntValue("Settings", "StatusLogInterval")), 1, 20)
           que == AtLeast(getIntValue("Settings", "QueryQueueMB"), 512, 512)
<1>1. thr \in Int32 /\ int \in Int32 /\ ServerPort \in Int32
  BY NumbersAreInts, Wraps, SmallInts DEF AtLeast, ServerPort
<1> HIDE DEF thr, int, que
<1>2. QueueSet = [Defaults("server") EXCEPT !.queueMB = que]
  BY DEF QueueSet, que
<1>3. /\ PortSet.maxMsgKB = Defaults("server").maxMsgKB /\ PortSet.port = ServerPort
      /\ PortSet.threads = thr /\ PortSet.interval = int
      /\ DOMAIN PortSet = DOMAIN Defaults("server")
  BY <1>2 DEF PortSet, Defaults, thr, int
<1>4. /\ ServerSettings.threads = PortSet.threads /\ ServerSettings.port = PortSet.port
      /\ ServerSettings.interval = PortSet.interval
      /\ DOMAIN ServerSettings = DOMAIN PortSet
  BY DEF ServerSettings
<1>5. QueueSet.queueMB = que
  BY <1>2 DEF Defaults
<1>6. QED
  BY <1>1, <1>2, <1>3, <1>4, <1>5

LEMMA ClientStores ==
    ASSUME settings = Defaults("client")
    PROVE  /\ DOMAIN AddressSet = DOMAIN Defaults("client")
           /\ DOMAIN ClientSettings = DOMAIN Defaults("client")
           /\ AddressSet.port = ClientPort /\ ClientSettings.port = ClientPort
           /\ \A x \in DOMAIN AddressSet \ {"ip", "port"} :
                  AddressSet[x] = Defaults("client")[x]
           /\ ClientPort \in UInt16
<1>1. ClientPort \in UInt16
  <2>1. getIntValue("Settings", "AudioServerPort") \in Int
    BY NumbersAreInts
  <2>2. QED
    BY <2>1 DEF ClientPort, uint16, UInt16
<1>2. AddressSet = [Defaults("client") EXCEPT !.ip = AudioServerIP, !.port = ClientPort]
  BY DEF AddressSet
<1>3. /\ DOMAIN AddressSet = DOMAIN Defaults("client") /\ AddressSet.port = ClientPort
      /\ \A x \in DOMAIN AddressSet \ {"ip", "port"} :
            AddressSet[x] = Defaults("client")[x]
  <2> DEFINE d == Defaults("client")
  <2>1. d = [x \in DOMAIN d |-> d[x]] /\ "port" \in DOMAIN d
    BY DEF Defaults
  <2>2. AddressSet = [d EXCEPT !.ip = AudioServerIP, !.port = ClientPort]
    BY <1>2
  <2> HIDE DEF d
  <2>3. /\ DOMAIN AddressSet = DOMAIN d /\ AddressSet.port = ClientPort
        /\ \A x \in DOMAIN AddressSet \ {"ip", "port"} : AddressSet[x] = d[x]
    BY <2>1, <2>2
  <2>4. QED
    BY <2>3 DEF d
<1>4. DOMAIN ClientSettings = DOMAIN AddressSet /\ ClientSettings.port = AddressSet.port
  BY DEF ClientSettings
<1>5. QED
  BY <1>1, <1>3, <1>4

\* The programs change neither the file nor what was parsed.
LEMMA ReaderStep == ASSUME IInv, Server \/ Client PROVE IInv'
<1>1. UNCHANGED <<file, errorLine, section, content, ret, prog>>
  BY DEF Server, Client, Accessible, NotAccessible, readConfig, ServerOverruns, Fails,
     Throws, ClientOverruns, readFunctionConfig, parser
<1>2. (pc = "access" /\ pc' = "open") \/ pc' \in Returned \cup {"overrun"}
  BY DEF Server, Client, Accessible, NotAccessible, readConfig, ServerOverruns, Fails,
     Throws, ClientOverruns, readFunctionConfig, Returned
<1>3. AtPlace' /\ ContentIsMeaning'
  BY <1>1, <1>2 DEF IInv, AtPlace, ContentIsMeaning, Returned
<1>4. TypeOK /\ ParserTypes'
  BY <1>1, <1>2 DEF IInv, TypeOK, ParserTypes, Returned
<1>5. SettingTypes' /\ LeftBehind'
  <2>1. CASE Accessible \/ NotAccessible \/ ServerOverruns \/ Fails \/ ClientOverruns
    <3>1. /\ UNCHANGED <<prog, settings, made>>
          /\ pc \notin {"exited", "thrown", "done", "overrun"}
          /\ pc' \notin {"exited", "thrown", "done"}
      BY <2>1 DEF Accessible, NotAccessible, ServerOverruns, Fails, ClientOverruns
    <3>2. QED
      BY <1>4, <3>1, NothingStored
  <2>2. CASE readConfig
    <3>1. pc = "parsed" /\ prog = "server" /\ settings = Defaults("server") /\ made = {}
      BY <1>4, <2>2 DEF TypeOK, SettingTypes, LeftBehind, readConfig
    <3>2. \/ pc' = "exited" /\ settings' = QueueSet /\ made' = {}
          \/ pc' = "thrown" /\ settings' = PortSet /\ ServerPort < 1024
          \/ pc' = "done" /\ settings' = ServerSettings
      BY <2>2, <3>1 DEF readConfig, ReadPath, SystemLogPath
    <3>3. CASE pc' = "exited" /\ settings' = QueueSet /\ made' = {}
      <4>1. settings' = [Defaults("server") EXCEPT !.queueMB = QueueSet.queueMB]
        BY <3>1, <3>3, ServerStores
      <4>2. SettingTypes'
        BY <1>1, <3>1, <3>3, <4>1, DefaultsFit DEF SettingTypes, Defaults
      <4>3. LeftBehind'
        BY <1>1, <3>1, <3>3, <4>1 DEF LeftBehind, Defaults
      <4>4. QED
        BY <4>2, <4>3
    <3>4. CASE pc' = "thrown" /\ settings' = PortSet /\ ServerPort < 1024
      <4>1. SettingTypes'
        BY <1>1, <3>1, <3>4, ServerStores DEF SettingTypes
      <4>2. LeftBehind'
        BY <1>1, <3>1, <3>4, ServerStores DEF LeftBehind
      <4>3. QED
        BY <4>1, <4>2
    <3>5. CASE pc' = "done" /\ settings' = ServerSettings
      BY <1>1, <3>1, <3>5, ServerStores DEF SettingTypes, LeftBehind
    <3>6. QED
      BY <3>2, <3>3, <3>4, <3>5
  <2>3. CASE Throws
    <3>1. pc' = "thrown" /\ prog = "client" /\ settings = Defaults("client")
      BY <1>4, <2>3 DEF TypeOK, SettingTypes, LeftBehind, Throws
    <3>2. \/ settings' = settings
          \/ settings' = AddressSet /\ ClientPort < 1
      BY <2>3 DEF Throws
    <3>3. CASE settings' = settings
      BY <1>1, <1>4, <3>1, <3>3 DEF TypeOK, SettingTypes, LeftBehind
    <3>4. CASE settings' = AddressSet /\ ClientPort < 1
      <4>1. ClientPort = 0 /\ Defaults("client").port = 0
        <5>1. ClientPort \in UInt16 /\ ClientPort < 1
          BY <3>1, <3>4, ClientStores
        <5>2. ClientPort = 0
          BY <5>1 DEF UInt16
        <5>3. QED
          BY <5>2 DEF Defaults
      <4>2. QED
        BY <1>1, <3>1, <3>4, <4>1, ClientStores DEF SettingTypes, LeftBehind
    <3>5. QED
      BY <3>2, <3>3, <3>4
  <2>4. CASE readFunctionConfig
    <3>1. /\ prog = "client" /\ pc' = "done" /\ settings = Defaults("client")
          /\ settings' = ClientSettings
      BY <1>4, <2>4 DEF TypeOK, LeftBehind, readFunctionConfig
    <3>2. QED
      BY <1>1, <3>1, ClientStores DEF SettingTypes, LeftBehind
  <2>5. QED
    BY <2>1, <2>2, <2>3, <2>4 DEF Server, Client
<1>6. QED
  BY <1>3, <1>4, <1>5 DEF IInv, TypeOK

LEMMA VanishStep == ASSUME IInv, Vanish PROVE IInv'
<1>1. /\ pc = "open" /\ file' = NoFile
      /\ UNCHANGED <<pc, errorLine, section, content, ret, prog, settings, made>>
  BY DEF Vanish, parser
<1>2. AtPlace' /\ ContentIsMeaning'
  BY <1>1 DEF IInv, AtPlace, ContentIsMeaning, Returned
<1>3. TypeOK'
  <2>1. TypeOK
    BY DEF IInv
  <2>2. ParserTypes'
    BY <1>1, <2>1 DEF TypeOK, ParserTypes
  <2>3. SettingTypes' /\ LeftBehind'
    BY <1>1, <2>1, NothingStored
  <2>4. QED
    BY <2>2, <2>3 DEF TypeOK
<1>4. QED
  BY <1>2, <1>3 DEF IInv

LEMMA NextIInv == IInv /\ [Next]_vars => IInv'
<1> SUFFICES ASSUME IInv, [Next]_vars PROVE IInv'
  OBVIOUS
<1>1. CASE UNCHANGED vars
  <2>1. UNCHANGED <<file, pc, errorLine, section, content, ret, prog, settings, made>>
    BY <1>1 DEF vars, parser
  <2>2. TypeOK'
    BY <2>1 DEF IInv, TypeOK, ParserTypes, SettingTypes, LeftBehind
  <2>3. AtPlace'
    BY <2>1, SameFile DEF IInv, AtPlace
  <2>4. ContentIsMeaning'
    BY <2>1, SameFile, Unfolded, UnfoldedNext DEF IInv
  <2>5. QED
    BY <2>2, <2>3, <2>4 DEF IInv
<1>2. QED
  BY <1>1, ParseStep, ReaderStep, VanishStep DEF Next

LEMMA Inductive == Spec => []IInv
BY InitIInv, NextIInv, PTL DEF Spec

\* Every variable has its type, and a reader that gives up has stored only what
\* it read before: a server without a log path its queues, one without a port
\* all but the message length, with a port below 1024; a client without a port
\* the address; any other nothing.  A server makes no directory before it knows
\* its log path.
THEOREM TypeCorrect == Spec => []TypeOK
<1>1. IInv => TypeOK
  BY DEF IInv
<1>2. QED
  BY <1>1, Inductive, PTL

\* What parseFile knows is what the lines it has read say, whatever file it
\* reads: the value of each key in each section is the first one set, and it
\* stops at the first line that says nothing.
THEOREM FilesAreUnderstood == Spec => []ContentIsMeaning
<1>1. IInv => ContentIsMeaning
  BY DEF IInv
<1>2. QED
  BY <1>1, Inductive, PTL

-----------------------------------------------------------------------------
(* The settings in force *)

LEMMA ValuesAreMeant ==
    ASSUME FirstValues(content, errorLine)
    PROVE  /\ \A s, k : getValue(s, k) = Meant(s, k)
           /\ \A s, k : getIntValue(s, k) = MeantInt(s, k)
           /\ \A s, k : MeantInt(s, k) \in Int
<1>1. ASSUME NEW s, NEW k PROVE getValue(s, k) = Meant(s, k)
  <2> DEFINE sk == <<<<s>>, <<k>>>>
             set == Setters(<<s>>, <<k>>, errorLine)
  <2>1. sk \in DOMAIN content <=> set # {}
    BY KeysHaveSetters DEF FirstValues
  <2>2. sk \in DOMAIN content => content[sk] = file[Min(set)].means.value
    <3>1. sk[1] = <<s>> /\ sk[2] = <<k>>
      OBVIOUS
    <3> HIDE DEF sk
    <3>2. QED
      BY <3>1 DEF FirstValues
  <2>3. QED
    BY <2>1, <2>2 DEF getValue, Meant
<1>2. ASSUME NEW s, NEW k PROVE getIntValue(s, k) = MeantInt(s, k)
  BY <1>1 DEF getIntValue, MeantInt
<1>3. ASSUME NEW s, NEW k PROVE MeantInt(s, k) \in Int
  BY NumberAssumption DEF MeantInt
<1>4. QED
  BY <1>1, <1>2, <1>3

\* A path that was read is there, up to the first part that cannot be made.
LEMMA PathIsMade ==
    ASSUME NEW s, NEW k, ReadPath(s, k), ~Short(getValue(s, k)),
           NEW d \in Parents(getValue(s, k))
    PROVE  \/ d \in made'
           \/ \E e \in Denied \cap Parents(getValue(s, k)) : Len(e) <= Len(d)
BY DEF ReadPath, myMakeDir

LEMMA ServerIsSet ==
    ASSUME IInv, readConfig, pc' = "done"
    PROVE  SettingsInForce'
<1>1. /\ pc = "parsed" /\ prog = "server" /\ settings' = ServerSettings
      /\ ~Short(getValue("Settings", "SystemLogPath"))
      /\ ~WidePath(getValue("Settings", "SystemLogPath"))
      /\ ServerPort >= 1024
      /\ ReadPath("Settings", "SystemLogPath")
      /\ settings = Defaults("server")
      /\ UNCHANGED <<file, errorLine, content, prog>>
  BY DEF readConfig, parser, SystemLogPath, IInv, TypeOK, LeftBehind
<1>2. file # NoFile
  <2>1. ASSUME content = <<>> PROVE FALSE
    <3>1. DOMAIN content = {}
      BY <2>1
    <3>2. getValue("Settings", "SystemLogPath") = <<>>
      BY <3>1 DEF getValue
    <3>3. QED
      BY <1>1, <3>2 DEF Short
  <2>2. QED
    BY <1>1, <2>1 DEF IInv, AtPlace
<1>3. FirstValues(content, errorLine)
  BY <1>1, <1>2, Unfolded DEF IInv
<1>4. /\ Meant("Settings", "SystemLogPath")' = Meant("Settings", "SystemLogPath")
      /\ \A s, k : MeantInt(s, k)' = MeantInt(s, k)
  BY <1>1 DEF MeantInt, Meant, Setters, SetsAt, SectionAt
<1> DEFINE port    == MeantInt("NetSettings", "AudioServerPort")
           threads == MeantInt("Settings", "ProcessThreadCnt")
           msgKB   == MeantInt("NetSettings", "MaxNetMsgByte")
           queueMB == MeantInt("Settings", "QueryQueueMB")
<1>5. /\ settings'.port = int32(port) /\ int32(port) >= 1024
      /\ settings'.threads = AtLeast(int32(threads), 1, 1)
      /\ settings'.queueMB = AtLeast(queueMB, 512, 512)
      /\ settings'.maxMsgKB = IF int32(msgKB) > 0 THEN int32(msgKB) % KBWrap ELSE 1024
      /\ settings'.logPath = Meant("Settings", "SystemLogPath")
  <2>1. /\ getIntValue("NetSettings", "AudioServerPort") = port
        /\ getIntValue("Settings", "ProcessThreadCnt") = threads
        /\ getIntValue("NetSettings", "MaxNetMsgByte") = msgKB
        /\ getIntValue("Settings", "QueryQueueMB") = queueMB
        /\ SystemLogPath = Meant("Settings", "SystemLogPath")
    BY <1>3, ValuesAreMeant DEF SystemLogPath
  <2> HIDE DEF port, threads, msgKB, queueMB
  <2>2. ServerPort = int32(port)
    BY <2>1 DEF ServerPort
  <2>3. /\ PortSet.port = int32(port) /\ PortSet.threads = AtLeast(int32(threads), 1, 1)
        /\ PortSet.queueMB = AtLeast(queueMB, 512, 512)
        /\ PortSet.logPath = Meant("Settings", "SystemLogPath")
        /\ "maxMsgKB" \in DOMAIN PortSet
    BY <1>1, <2>1, <2>2 DEF PortSet, QueueSet, Defaults
  <2>4. /\ ServerSettings.port = PortSet.port /\ ServerSettings.threads = PortSet.threads
        /\ ServerSettings.queueMB = PortSet.queueMB
        /\ ServerSettings.logPath = PortSet.logPath
        /\ ServerSettings.maxMsgKB =
              IF int32(msgKB) > 0 THEN int32(msgKB) % KBWrap ELSE 1024
    BY <2>1, <2>3 DEF ServerSettings
  <2>5. QED
    BY <1>1, <2>2, <2>3, <2>4
<1>6. port \in Int /\ threads \in Int /\ msgKB \in Int /\ queueMB \in Int
  BY <1>3, ValuesAreMeant
<1> HIDE DEF port, threads, msgKB, queueMB
<1>7. settings'.queueMB >= 512
  BY <1>5, <1>6 DEF AtLeast
<1>8. Half \in Nat /\ Half > 0 /\ Half >= KBWrap /\ KBWrap \in Nat /\ KBWrap > 0
  BY KBWrapAssumption DEF Half
<1>9. settings'.threads >= 1 /\ (threads \in 1 .. Half - 1 => settings'.threads = threads)
  <2> DEFINE n == int32(threads)
  <2>1. n \in Int /\ (0 <= threads /\ threads < Half => n = threads)
    <3>1. n \in Int32 /\ (0 <= threads /\ threads < Half => n = threads)
      BY <1>6, Wraps
    <3> HIDE DEF n
    <3>2. QED
      BY <3>1, SmallInts
  <2>2. settings'.threads = AtLeast(n, 1, 1)
    BY <1>5
  <2> HIDE DEF n
  <2>3. QED
    BY <1>6, <1>8, <2>1, <2>2 DEF AtLeast
<1>10. settings'.port >= 1024 /\ (port \in 0 .. Half - 1 => settings'.port = port)
  <2>1. 0 <= port /\ port < Half => int32(port) = port
    BY <1>6, Wraps
  <2>2. port \in 0 .. Half - 1 => 0 <= port /\ port < Half
    BY <1>6, <1>8
  <2>3. QED
    BY <1>5, <2>1, <2>2
<1>11. msgKB \in 1 .. KBWrap - 1 => settings'.maxMsgKB = msgKB
  <2> SUFFICES ASSUME msgKB \in 1 .. KBWrap - 1 PROVE settings'.maxMsgKB = msgKB
    OBVIOUS
  <2>1. 0 <= msgKB /\ msgKB < Half /\ msgKB > 0
    BY <1>6, <1>8
  <2>2. int32(msgKB) = msgKB
    BY <1>6, <2>1, Wraps
  <2>3. msgKB % KBWrap = msgKB
    BY <1>6, <1>8, <2>1
  <2>4. QED
    BY <1>5, <2>1, <2>2, <2>3
<1>12. \A d \in Parents(settings'.logPath) :
          \/ d \in made'
          \/ \E e \in Denied \cap Parents(settings'.logPath) : Len(e) <= Len(d)
  <2>1. settings'.logPath = getValue("Settings", "SystemLogPath")
    BY <1>3, <1>5, ValuesAreMeant
  <2>2. QED
    BY <1>1, <2>1, PathIsMade
<1>13. /\ MeantInt("NetSettings", "AudioServerPort")' = port
       /\ MeantInt("Settings", "ProcessThreadCnt")' = threads
       /\ MeantInt("NetSettings", "MaxNetMsgByte")' = msgKB
  BY <1>4 DEF port, threads, msgKB
<1>14. prog' = "server" /\ prog' # "client"
  BY <1>1
<1>15. \A d \in Parents(settings'.logPath) :
          \/ d \in made'
          \/ prog' = "client" /\ Short(Meant("Settings", "LogPath")')
          \/ \E e \in Denied \cap Parents(settings'.logPath) : Len(e) <= Len(d)
  BY <1>12
<1>16. ServerInForce'
  BY <1>4, <1>5, <1>7, <1>11, <1>13, <1>9, <1>10 DEF ServerInForce
<1>17. LogPathMade'
  BY <1>15 DEF LogPathMade
<1>18. ~WidePath(settings'.logPath)
  BY <1>1, <1>3, <1>5, ValuesAreMeant
<1>19. QED
  BY <1>14, <1>16, <1>17, <1>18 DEF SettingsInForce

LEMMA ClientIsSet ==
    ASSUME IInv, readFunctionConfig
    PROVE  SettingsInForce'
<1>1. /\ pc = "parsed" /\ ret = 0 /\ prog = "client" /\ settings' = ClientSettings
      /\ ~Short(AudioServerIP) /\ ~WideIP(AudioServerIP) /\ ClientPort >= 1
      /\ ~WidePath(LogPath) /\ ReadPath("Settings", "LogPath")
      /\ settings = Defaults("client")
      /\ UNCHANGED <<file, errorLine, content, prog>>
  BY DEF readFunctionConfig, Refused, parser, IInv, TypeOK, LeftBehind
<1>2. file # NoFile /\ errorLine = Len(file)
  BY <1>1 DEF IInv, AtPlace
<1>3. FirstValues(content, errorLine) /\ BadLines = {}
  BY <1>1, <1>2, Unfolded DEF IInv
<1>4. /\ \A s, k : Meant(s, k)' = Meant(s, k)
      /\ BadLines' = BadLines
  BY <1>1 DEF Meant, Setters, SetsAt, SectionAt, BadLines
<1> DEFINE port     == MeantInt("Settings", "AudioServerPort")
           interval == MeantInt("Settings", "StatusLogInterval")
           localMB  == MeantInt("Settings", "CLIENT_LOCAL_RCV_BUF_MB")
           netMB    == MeantInt("Settings", "CLIENT_NET_RCV_BUF_MB")
<1>5. /\ settings'.ip = Meant("Settings", "AudioServerIP") /\ settings'.port = port % 65536
      /\ settings'.logPath = IF Short(Meant("Settings", "LogPath")) THEN DefaultLogPath
                             ELSE Meant("Settings", "LogPath")
      /\ settings'.interval = IF interval = 0 THEN 20
                              ELSE IF interval < 0 \/ interval > 600 THEN 600
                              ELSE interval
      /\ settings'.localBufMB = BufMB(localMB, LocalRcvBufMB)
      /\ settings'.netBufMB = BufMB(netMB, NetRcvBufMB)
  <2>1. /\ getIntValue("Settings", "AudioServerPort") = port
        /\ getIntValue("Settings", "StatusLogInterval") = interval
        /\ getIntValue("Settings", "CLIENT_LOCAL_RCV_BUF_MB") = localMB
        /\ getIntValue("Settings", "CLIENT_NET_RCV_BUF_MB") = netMB
        /\ AudioServerIP = Meant("Settings", "AudioServerIP")
        /\ LogPath = Meant("Settings", "LogPath")
    BY <1>3, ValuesAreMeant DEF AudioServerIP, LogPath
  <2> HIDE DEF port, interval, localMB, netMB
  <2>2. ClientPort = port % 65536
    BY <2>1 DEF ClientPort, uint16
  <2>3. AddressSet = [Defaults("client") EXCEPT !.ip = AudioServerIP, !.port = ClientPort]
    BY <1>1 DEF AddressSet
  <2>4. /\ DOMAIN AddressSet = DOMAIN Defaults("client")
        /\ AddressSet.ip = AudioServerIP /\ AddressSet.port = ClientPort
        /\ AddressSet.logPath = DefaultLogPath
        /\ AddressSet.localBufMB = LocalRcvBufMB /\ AddressSet.netBufMB = NetRcvBufMB
    BY <2>3 DEF Defaults
  <2>5. {"ip", "port", "logPath", "interval", "localBufMB", "netBufMB"}
            \subseteq DOMAIN AddressSet
    BY <2>4 DEF Defaults
  <2>6. /\ ClientSettings.ip = AddressSet.ip /\ ClientSettings.port = AddressSet.port
        /\ ClientSettings.logPath = IF Short(LogPath) THEN AddressSet.logPath ELSE LogPath
        /\ ClientSettings.interval = IF interval = 0 THEN 20
                                     ELSE IF interval < 0 \/ interval > 600 THEN 600
                                     ELSE interval
        /\ ClientSettings.localBufMB = BufMB(localMB, AddressSet.localBufMB)
        /\ ClientSettings.netBufMB = BufMB(netMB, AddressSet.netBufMB)
    BY <2>1, <2>5 DEF ClientSettings
  <2>7. QED
    BY <1>1, <2>1, <2>2, <2>4, <2>6
<1>6. port \in Int /\ interval \in Int /\ localMB \in Int /\ netMB \in Int
  BY <1>3, ValuesAreMeant
<1>7. /\ ~Short(Meant("Settings", "AudioServerIP")) /\ port % 65536 >= 1
      /\ ~WideIP(Meant("Settings", "AudioServerIP")) /\ ~WidePath(Meant("Settings", "LogPath"))
  BY <1>1, <1>3, ValuesAreMeant DEF AudioServerIP, ClientPort, LogPath, uint16
<1> HIDE DEF port, interval, localMB, netMB
<1>8. settings'.ip # <<>> /\ ~WideIP(settings'.ip)
  BY <1>5, <1>7 DEF Short
<1>9. settings'.port \in Port
  <2>1. settings'.port = port % 65536 /\ port % 65536 >= 1
    BY <1>5, <1>7
  <2>2. QED
    BY <1>6, <2>1 DEF Port, UInt16
<1>10. settings'.interval \in 1 .. 600
  BY <1>5, <1>6
<1>11. settings'.localBufMB \notin 0 .. 32 /\ settings'.netBufMB \notin 0 .. 32
  BY <1>5, <1>6 DEF BufMB, LocalRcvBufMB, NetRcvBufMB
<1>12. \A d \in Parents(settings'.logPath) :
          \/ d \in made'
          \/ Short(Meant("Settings", "LogPath"))
          \/ \E e \in Denied \cap Parents(settings'.logPath) : Len(e) <= Len(d)
  <2>1. CASE Short(Meant("Settings", "LogPath"))
    BY <2>1
  <2>2. CASE ~Short(Meant("Settings", "LogPath"))
    <3>1. settings'.logPath = getValue("Settings", "LogPath")
          /\ ~Short(getValue("Settings", "LogPath"))
      BY <1>3, <1>5, <2>2, ValuesAreMeant
    <3>2. QED
      BY <1>1, <3>1, PathIsMade
  <2>3. QED
    BY <2>1, <2>2
<1>13. /\ Meant("Settings", "AudioServerIP")' = Meant("Settings", "AudioServerIP")
       /\ Meant("Settings", "LogPath")' = Meant("Settings", "LogPath")
       /\ prog' = "client" /\ prog' # "server"
       /\ BadLines' = {} /\ errorLine' = Len(file')
  BY <1>1, <1>2, <1>3, <1>4
<1>14. ClientInForce'
  <2>1. settings'.ip = Meant("Settings", "AudioServerIP")'
    BY <1>5, <1>13
  <2>2. BadLines' = {} /\ errorLine' = Len(file')
    BY <1>13
  <2>3. QED
    BY <1>8, <1>9, <1>10, <1>11, <2>1, <2>2 DEF ClientInForce
<1>15. LogPathMade'
  BY <1>12, <1>13 DEF LogPathMade, Short
<1>16. ~WidePath(settings'.logPath)
  <2>1. ~WidePath(DefaultLogPath)
    BY LogsAssumption DEF WidePath, DefaultLogPath
  <2>2. QED
    BY <1>5, <1>7, <2>1
<1>17. QED
  BY <1>13, <1>14, <1>15, <1>16 DEF SettingsInForce

LEMMA NextSettings == IInv /\ SettingsInForce /\ [Next]_vars => SettingsInForce'
<1> SUFFICES ASSUME IInv, SettingsInForce, [Next]_vars PROVE SettingsInForce'
  OBVIOUS
<1>1. CASE UNCHANGED vars
  <2>1. UNCHANGED <<file, pc, errorLine, content, prog, settings, made>>
    BY <1>1 DEF vars, parser
  <2>2. ServerInForce' <=> ServerInForce
    BY <2>1 DEF ServerInForce, MeantInt, Meant, Setters, SetsAt, SectionAt
  <2>3. ClientInForce' <=> ClientInForce
    BY <2>1 DEF ClientInForce, Meant, Setters, SetsAt, SectionAt, BadLines, WideIP
  <2>4. LogPathMade' <=> LogPathMade
    BY <2>1 DEF LogPathMade, Short, Meant, Setters, SetsAt, SectionAt
  <2>5. QED
    BY <2>1, <2>2, <2>3, <2>4 DEF SettingsInForce, WidePath
<1>2. CASE readConfig
  BY <1>2, ServerIsSet DEF SettingsInForce
<1>3. CASE readFunctionConfig
  BY <1>3, ClientIsSet
<1>4. CASE \/ Parse \/ Vanish \/ Accessible \/ NotAccessible \/ Fails \/ Throws
         \/ ServerOverruns \/ ClientOverruns
  <2>1. pc' # "done"
    BY <1>4 DEF Parse, parseFile, OpenFails, Open, Copy, CopyEndless, NewSection, Skip,
       KeyValue, EmptyKey, BadLine, EndOfFile, Record, AtLine, NextLine,
       Vanish, Accessible, NotAccessible, Fails, Throws, ServerOverruns, ClientOverruns
  <2>2. QED
    BY <2>1 DEF SettingsInForce
<1>5. QED
  BY <1>1, <1>2, <1>3, <1>4 DEF Next, Server, Client

\* A server or client that goes on has the settings that the first line that
\* names each, in its section, gives, if they fit an int32_t, within the bounds
\* its reader promises (an upper limit of the server's port is none of them),
\* and the log directory with its parents; its paths and the client's address
\* fit the memory they are copied to; and a client understood every line.
THEOREM SettingsAreInForce == Spec => []SettingsInForce
<1>1. Init => SettingsInForce
  BY DEF Init, SettingsInForce
<1>2. QED
  BY <1>1, NextSettings, Inductive, PTL DEF Spec
=============================================================================
