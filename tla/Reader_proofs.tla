--------------------------- MODULE Reader_proofs ---------------------------
(***************************************************************************)
(* The reader, proved for texts of any length over any characters: what is *)
(* read is what the text says, what is printed of it reads as it did, and  *)
(* errors are read without another one.                                    *)
(*                                                                         *)
(* The reference is a fold over the text.  Everything that is read once,   *)
(* put back and read again is compared with it at one place, the one       *)
(* before lbri: Scan relates incomment()'s state to what the text says up  *)
(* to there, Parser what read1() and the others have, place by place.      *)
(* mygetc() keeps Scan; myungetc() only Weak, which forgets what is        *)
(* escaped, and from which Scan follows again where the token that was put *)
(* back begins.  The text that readerr() leaves is no exception: it says   *)
(* one quoted symbol, and no error can be found before its end (Writes,    *)
(* ErrText).                                                               *)
(*                                                                         *)
(* The text of what was read says it again because its tokens fit: they    *)
(* open and close lists as read1() and the others do (Balanced), and after *)
(* each of them the text up to there says the tokens up to there (Tells).  *)
(***************************************************************************)
EXTENDS Reader, SequenceTheorems, NaturalsInduction, WellFoundedInduction, TLAPS

-----------------------------------------------------------------------------
(* Numbers and sequences. *)

\* A set of numbers that is not empty has a least one.
LEMMA LeastOf ==
  ASSUME NEW B, B \subseteq Nat, B # {}
  PROVE  \E m \in B : \A k \in B : m <= k
<1>1. PICK m \in B : \A k \in B : ~(<<k, m>> \in OpToRel(<, Nat))
    BY WFMin, NatLessThanWellFounded
<1>2. \A k \in B : ~(k < m)
    BY <1>1 DEF OpToRel
<1> QED
    BY <1>2

\* A function of the numbers up to n, from its recursion.
LEMMA Iterates ==
  ASSUME NEW D, NEW d0 \in D, NEW n \in Nat, NEW F \in [1..n -> [D -> D]]
  PROVE  \E h \in [0..n -> D] : h[0] = d0 /\ \A i \in 1..n : h[i] = F[i][h[i - 1]]
<1> DEFINE P(m) == \E h \in [0..m -> D] : h[0] = d0 /\ \A i \in 1..m : h[i] = F[i][h[i - 1]]
           Bad == {m \in 0..n : ~P(m)}
<1>1. SUFFICES ASSUME Bad # {} PROVE FALSE
  <2>1. n \in 0..n
      OBVIOUS
  <2> QED
      BY <2>1
<1>2. PICK m \in Bad : \A k \in Bad : m <= k
  <2>1. Bad \subseteq Nat
      OBVIOUS
  <2> HIDE DEF Bad
  <2> QED
      BY <1>1, <2>1, LeastOf
<1>3. P(0)
  <2> DEFINE h == [i \in 0..0 |-> d0]
  <2>1. h \in [0..0 -> D] /\ h[0] = d0 /\ \A i \in 1..0 : h[i] = F[i][h[i - 1]]
      OBVIOUS
  <2> QED
      BY <2>1
<1>4. m \in 0..n /\ m # 0 /\ ~P(m)
    BY <1>2, <1>3
<1>5. m - 1 \in 0..n /\ m - 1 \notin Bad /\ m \in 1..n
  <2>1. m - 1 \in 0..n /\ m \in 1..n /\ m \in Nat
      BY <1>4
  <2> HIDE DEF Bad
  <2> QED
      BY <2>1, <1>2
<1>6. P(m - 1)
    BY <1>5
<1>7. PICK h \in [0..(m - 1) -> D] : h[0] = d0 /\ \A i \in 1..(m - 1) : h[i] = F[i][h[i - 1]]
    BY <1>6
<1>8. F[m] \in [D -> D] /\ h[m - 1] \in D
    BY <1>5
<1> DEFINE g == [i \in 0..m |-> IF i = m THEN F[m][h[m - 1]] ELSE h[i]]
<1>9. g \in [0..m -> D]
  <2> SUFFICES ASSUME NEW i \in 0..m PROVE (IF i = m THEN F[m][h[m - 1]] ELSE h[i]) \in D
      OBVIOUS
  <2>1. i = m \/ i \in 0..(m - 1)
      BY <1>5
  <2> QED
      BY <2>1, <1>8
<1>10. g[0] = d0
    BY <1>5, <1>7
<1>11. \A i \in 1..m : g[i] = F[i][g[i - 1]]
  <2> TAKE i \in 1..m
  <2>1. CASE i = m
    <3>1. m \in 0..m /\ m - 1 \in 0..m /\ m - 1 # m
        BY <1>5
    <3>2. g[m - 1] = h[m - 1] /\ g[m] = F[m][h[m - 1]]
        BY <3>1
    <3> QED
        BY <2>1, <3>2
  <2>2. CASE i # m
    <3>1. i \in 1..(m - 1) /\ i \in 0..m /\ i - 1 \in 0..m /\ i - 1 # m
        BY <2>2, <1>5
    <3>2. g[i] = h[i] /\ g[i - 1] = h[i - 1]
        BY <3>1, <2>2
    <3> QED
        BY <3>1, <3>2, <1>7
  <2> QED
      BY <2>1, <2>2
<1>12. P(m)
  <2> HIDE DEF g
  <2> QED
      BY <1>9, <1>10, <1>11
<1> QED
    BY <1>4, <1>12

\* The last element of a sequence, and what is before it.
LEMMA LastFront ==
  ASSUME NEW S, NEW s \in Seq(S)
  PROVE  /\ Front(s) \in Seq(S)
         /\ s # <<>> => /\ Last(s) \in S /\ Len(Front(s)) = Len(s) - 1
                        /\ \A i \in 1..(Len(s) - 1) : Front(s)[i] = s[i]
                        /\ s = Append(Front(s), Last(s))
<1>1. Len(s) \in Nat /\ \A i \in 1..Len(s) : s[i] \in S
    BY LenProperties, ElementOfSeq
<1>2. /\ Front(s) \in Seq(S)
      /\ Len(Front(s)) = IF 1 <= Len(s) - 1 THEN Len(s) - 1 - 1 + 1 ELSE 0
      /\ \A i \in 1..(Len(s) - 1 - 1 + 1) : Front(s)[i] = s[1 + i - 1]
  <2>1. 1 \in Int /\ Len(s) - 1 \in Int /\ \A i \in 1..(Len(s) - 1) : s[i] \in S
      BY <1>1
  <2> QED
      BY <2>1, SubSeqProperties DEF Front
<1>3. CASE s = <<>>
    BY <1>2, <1>3
<1>4. CASE s # <<>>
  <2>1. Len(s) \in Nat \ {0} /\ Last(s) \in S
      BY <1>1, <1>4, EmptySeq DEF Last
  <2>2. Len(Front(s)) = Len(s) - 1 /\ \A i \in 1..(Len(s) - 1) : Front(s)[i] = s[i]
    <3>1. Len(Front(s)) = Len(s) - 1
      <4>1. \A k \in Nat \ {0} : (IF 1 <= k - 1 THEN k - 1 - 1 + 1 ELSE 0) = k - 1
          OBVIOUS
      <4> QED
          BY <4>1, <1>2, <2>1
    <3>2. ASSUME NEW i \in 1..(Len(s) - 1) PROVE Front(s)[i] = s[i]
      <4>1. i \in 1..(Len(s) - 1 - 1 + 1) /\ 1 + i - 1 = i
          BY <2>1
      <4>2. Front(s)[i] = s[1 + i - 1]
          BY <4>1, <1>2
      <4> QED
          BY <4>1, <4>2
    <3> QED
        BY <3>1, <3>2
  <2>3. /\ Append(Front(s), Last(s)) \in Seq(S)
        /\ Len(Append(Front(s), Last(s))) = Len(s)
        /\ \A i \in 1..(Len(s) - 1) : Append(Front(s), Last(s))[i] = s[i]
        /\ Append(Front(s), Last(s))[Len(s)] = Last(s)
      BY <1>2, <2>1, <2>2, AppendProperties
  <2>4. \A i \in 1..Len(s) : s[i] = Append(Front(s), Last(s))[i]
    <3> TAKE i \in 1..Len(s)
    <3>1. i = Len(s) \/ i \in 1..(Len(s) - 1)
        BY <2>1
    <3> QED
        BY <3>1, <2>3 DEF Last
  <2>5. s = Append(Front(s), Last(s))
      BY <2>3, <2>4, SeqEqual
  <2> QED
      BY <1>2, <2>1, <2>2, <2>5
<1> QED
    BY <1>3, <1>4

\* One element after a sequence.
LEMMA AppendFacts ==
  ASSUME NEW S, NEW s \in Seq(S), NEW x \in S
  PROVE  /\ Append(s, x) \in Seq(S) /\ Append(s, x) # <<>>
         /\ Len(Append(s, x)) = Len(s) + 1
         /\ \A i \in 1..Len(s) : Append(s, x)[i] = s[i]
         /\ Append(s, x)[Len(s) + 1] = x
         /\ Last(Append(s, x)) = x /\ Front(Append(s, x)) = s
<1>1. /\ Append(s, x) \in Seq(S) /\ Append(s, x) # <<>> /\ Len(Append(s, x)) = Len(s) + 1
      /\ \A i \in 1..Len(s) : Append(s, x)[i] = s[i]
      /\ Append(s, x)[Len(s) + 1] = x
    BY AppendProperties
<1>2. Last(Append(s, x)) = x
    BY <1>1 DEF Last
<1>3. Append(s, x) = Append(Front(Append(s, x)), Last(Append(s, x))) /\ Front(Append(s, x)) \in Seq(S)
    BY <1>1, LastFront
<1>4. Front(Append(s, x)) = s
    BY <1>2, <1>3, AppendInjective
<1> QED
    BY <1>1, <1>2, <1>4

\* The beginning of a sequence.
LEMMA PrefixFacts ==
  ASSUME NEW S, NEW s \in Seq(S), NEW n \in 0..Len(s)
  PROVE  /\ SubSeq(s, 1, n) \in Seq(S) /\ Len(SubSeq(s, 1, n)) = n
         /\ \A i \in 1..n : SubSeq(s, 1, n)[i] = s[i]
<1>1. Len(s) \in Nat /\ \A i \in 1..Len(s) : s[i] \in S
    BY LenProperties, ElementOfSeq
<1>2. 1 \in Int /\ n \in Int /\ \A i \in 1..n : s[i] \in S
    BY <1>1
<1>3. /\ SubSeq(s, 1, n) \in Seq(S)
      /\ Len(SubSeq(s, 1, n)) = IF 1 <= n THEN n - 1 + 1 ELSE 0
      /\ \A i \in 1..(n - 1 + 1) : SubSeq(s, 1, n)[i] = s[1 + i - 1]
    BY <1>2, SubSeqProperties
<1> QED
    BY <1>1, <1>3

-----------------------------------------------------------------------------
(* What a text says: types. *)

Chars   == Typed \cup {"eot", "nl", "n", "quo", "bs", ";", "(", ")", "[", "]", "'", ".", " ",
                       "?", "^", "J", "D", "sym", "quote"}
Toks    == Seq(Chars)
Openers == {"(", "[", "'", "."}
Closers == {")", "]"}
SaysType == [toks : Seq(Toks), cur : Seq(Chars), in : BOOLEAN, lit : BOOLEAN, q : BOOLEAN,
             e : BOOLEAN, glue : BOOLEAN, com : BOOLEAN, open : Seq(Openers), twice : BOOLEAN,
             odd : SUBSET {"glued", "trap"}]

\* Tokens.
LEMMA TokenFacts ==
  /\ \A c \in Chars : Mark(c) \in Toks
  /\ \A s \in Seq(Chars) : Sym(s) \in Toks
  /\ \A s \in Seq(Chars) : \A c \in Chars \ {"sym"} : Sym(s) # Mark(c)
  /\ \A c, d : Mark(c) = Mark(d) => c = d
<1>1. "sym" \in Chars
    BY DEF Chars
<1>2. ASSUME NEW c \in Chars PROVE Mark(c) \in Toks /\ Mark(c)[1] = c
    BY DEF Mark, Toks
<1>3. ASSUME NEW s \in Seq(Chars) PROVE Sym(s) \in Toks /\ Sym(s)[1] = "sym"
  <2>1. <<"sym">> \in Seq(Chars) /\ Len(<<"sym">>) = 1 /\ <<"sym">>[1] = "sym"
      BY <1>1
  <2>2. /\ <<"sym">> \o s \in Seq(Chars)
        /\ \A i \in 1..Len(<<"sym">>) + Len(s) :
             (<<"sym">> \o s)[i] = IF i <= Len(<<"sym">>) THEN <<"sym">>[i] ELSE s[i - Len(<<"sym">>)]
      BY <2>1, ConcatProperties
  <2>3. Len(s) \in Nat
      BY LenProperties
  <2> QED
      BY <2>1, <2>2, <2>3 DEF Sym, Toks
<1>4. \A c, d : Mark(c) = Mark(d) => c = d
    BY DEF Mark
<1>5. ASSUME NEW s \in Seq(Chars), NEW c \in Chars \ {"sym"} PROVE Sym(s) # Mark(c)
    BY <1>2, <1>3
<1> QED
    BY <1>2, <1>3, <1>4, <1>5

\* The tokens whose kind matters.
LEMMA MarkKinds ==
  /\ \A c \in {"(", ")", "[", "]", "."} : Mark(c) \in Toks /\ \A s \in Seq(Chars) : Sym(s) # Mark(c)
  /\ Mark("(") # Mark(")") /\ Mark("(") # Mark(".") /\ Mark(")") # Mark(".") /\ Mark("]") # Mark(".")
  /\ Mark("[") # Mark(")") /\ Mark("[") # Mark(".") /\ Mark("(") # Mark("[") /\ Mark("(") # Mark("]")
  /\ Mark("[") # Mark("]")
<1>1. {"(", ")", "[", "]", "."} \subseteq Chars \ {"sym"}
    BY DEF Chars
<1>2. \A c \in {"(", ")", "[", "]", "."} : Mark(c) \in Toks /\ \A s \in Seq(Chars) : Sym(s) # Mark(c)
    BY <1>1, TokenFacts
<1>3. \A c, d : Mark(c) = Mark(d) => c = d
    BY TokenFacts
<1> QED
    BY <1>2, <1>3

\* Where the quotes at the end begin.
IsOutside(k, n) == /\ n \in 0..Len(k)
                   /\ n = 0 \/ k[n] # "'"
                   /\ \A i \in (n + 1)..Len(k) : k[i] = "'"

\* There is exactly one place where the quotes at the end begin.
LEMMA OutsideIs ==
  ASSUME NEW k \in Seq(Openers)
  PROVE  IsOutside(k, Outside(k)) /\ \A n : IsOutside(k, n) => Outside(k) = n
<1>1. Len(k) \in Nat
    BY LenProperties
<1> DEFINE D == {d \in 0..Len(k) : d = Len(k) \/ k[Len(k) - d] # "'"}
<1>2. PICK d \in D : \A f \in D : d <= f
  <2>1. Len(k) \in D /\ D \subseteq Nat
      BY <1>1
  <2> HIDE DEF D
  <2> QED
      BY <2>1, LeastOf
<1> DEFINE n0 == Len(k) - d
<1>3. n0 \in 0..Len(k) /\ (n0 = 0 \/ k[n0] # "'")
    BY <1>1, <1>2
<1>4. ASSUME NEW i \in (n0 + 1)..Len(k) PROVE k[i] = "'"
  <2>1. Len(k) - i \in 0..Len(k) /\ Len(k) - i < d /\ Len(k) - (Len(k) - i) = i
      BY <1>1, <1>2
  <2>2. Len(k) - i \notin D
      BY <2>1, <1>2, <1>1
  <2> QED
      BY <2>1, <2>2
<1>5. IsOutside(k, n0)
    BY <1>3, <1>4 DEF IsOutside
<1>6. Outside(k) = CHOOSE n \in 0..Len(k) : /\ n = 0 \/ k[n] # "'"
                                            /\ \A i \in (n + 1)..Len(k) : k[i] = "'"
    BY DEF Outside
<1>7. IsOutside(k, Outside(k))
    BY <1>5, <1>6 DEF IsOutside
<1>8. ASSUME NEW m, NEW n, IsOutside(k, m), IsOutside(k, n) PROVE m >= n
  <2>1. m \in 0..Len(k) /\ n \in 0..Len(k)
      BY <1>8 DEF IsOutside
  <2>2. ASSUME m < n PROVE FALSE
    <3>1. n \in (m + 1)..Len(k) /\ n # 0
        BY <2>1, <2>2, <1>1
    <3> QED
        BY <3>1, <1>8 DEF IsOutside
  <2> QED
      BY <2>1, <2>2, <1>1
<1>9. ASSUME NEW n, IsOutside(k, n) PROVE Outside(k) = n
  <2>1. Outside(k) >= n /\ n >= Outside(k)
      BY <1>7, <1>8, <1>9
  <2>2. Outside(k) \in 0..Len(k) /\ n \in 0..Len(k)
      BY <1>7, <1>9 DEF IsOutside
  <2> QED
      BY <2>1, <2>2, <1>1
<1> QED
    BY <1>7, <1>9

\* Where a list is open, it is outside; the innermost quote changes nothing.
LEMMA OutsideLast ==
  ASSUME NEW k \in Seq(Openers)
  PROVE  /\ Outside(k) \in 0..Len(k)
         /\ k = <<>> => Outside(k) = 0
         /\ k # <<>> /\ Last(k) # "'" => Outside(k) = Len(k)
         /\ k # <<>> /\ Last(k) = "'" => /\ Outside(Front(k)) = Outside(k)
                                         /\ Outside(k) \in 0..(Len(k) - 1)
<1>1. Len(k) \in Nat /\ (k # <<>> => Len(k) # 0)
    BY LenProperties, EmptySeq
<1>2. IsOutside(k, Outside(k))
    BY OutsideIs
<1>3. Outside(k) \in 0..Len(k)
    BY <1>2 DEF IsOutside
<1>4. ASSUME k = <<>> PROVE Outside(k) = 0
    BY <1>3, <1>4
<1>5. ASSUME k # <<>>, Last(k) # "'" PROVE Outside(k) = Len(k)
  <2>1. IsOutside(k, Len(k))
      BY <1>1, <1>5 DEF IsOutside, Last
  <2> QED
      BY <2>1, OutsideIs
<1>6. ASSUME k # <<>>, Last(k) = "'"
      PROVE  Outside(Front(k)) = Outside(k) /\ Outside(k) \in 0..(Len(k) - 1)
  <2>1. /\ Front(k) \in Seq(Openers) /\ Len(Front(k)) = Len(k) - 1
        /\ \A i \in 1..(Len(k) - 1) : Front(k)[i] = k[i]
      BY <1>6, LastFront
  <2>2. Outside(k) \in 0..(Len(k) - 1)
      BY <1>1, <1>2, <1>3, <1>6 DEF IsOutside, Last
  <2>3. Outside(k) = 0 \/ Front(k)[Outside(k)] # "'"
      BY <1>1, <1>2, <2>1, <2>2 DEF IsOutside
  <2>4. \A i \in (Outside(k) + 1)..(Len(k) - 1) : Front(k)[i] = "'"
      BY <1>1, <1>2, <2>1, <2>2 DEF IsOutside
  <2>5. IsOutside(Front(k), Outside(k))
      BY <2>1, <2>2, <2>3, <2>4 DEF IsOutside
  <2> QED
      BY <2>1, <2>2, <2>5, OutsideIs
<1> QED
    BY <1>3, <1>4, <1>5, <1>6

\* Tokens, and an end for each quote that k ends in.
Quoted(k, g) == g \o [i \in 1..(Len(k) - Outside(k)) |-> Mark(")")]

\* What follows a whole expression: the ends of the quotes around it, from inside out.
LEMMA QuotedFacts ==
  ASSUME NEW k \in Seq(Openers), NEW g \in Seq(Toks)
  PROVE  /\ Quoted(k, g) \in Seq(Toks)
         /\ g # <<>> => Quoted(k, g) # <<>> /\ Last(Quoted(k, g)) \in {Last(g), Mark(")")}
         /\ k = <<>> \/ Last(k) # "'" => Quoted(k, g) = g
         /\ k # <<>> /\ Last(k) = "'" => Quoted(Front(k), Append(g, Mark(")"))) = Quoted(k, g)
<1> DEFINE m == Len(k) - Outside(k)
           cl == [i \in 1..m |-> Mark(")")]
<1>1. Len(k) \in Nat /\ Outside(k) \in 0..Len(k) /\ m \in Nat
    BY LenProperties, OutsideLast
<1>2. Mark(")") \in Toks
    BY MarkKinds
<1>3. cl \in Seq(Toks) /\ Len(cl) = m /\ \A i \in 1..m : cl[i] = Mark(")")
    BY <1>1, <1>2
<1>4. Quoted(k, g) = g \o cl
    BY DEF Quoted
<1> HIDE DEF cl, m
<1>5. /\ g \o cl \in Seq(Toks) /\ Len(g \o cl) = Len(g) + m
      /\ \A i \in 1..Len(g) + m : (g \o cl)[i] = IF i <= Len(g) THEN g[i] ELSE cl[i - Len(g)]
    BY <1>3, ConcatProperties
<1>6. Len(g) \in Nat /\ (g # <<>> => Len(g) # 0)
    BY LenProperties, EmptySeq
<1>7. ASSUME g # <<>>
      PROVE  Quoted(k, g) # <<>> /\ Last(Quoted(k, g)) \in {Last(g), Mark(")")}
  <2>1. Len(g) + m \in 1..(Len(g) + m) /\ Len(g \o cl) # 0
      BY <1>1, <1>5, <1>6, <1>7
  <2>2. (g \o cl)[Len(g) + m] = IF m = 0 THEN g[Len(g)] ELSE cl[m]
      BY <2>1, <1>1, <1>5, <1>6
  <2>3. m # 0 => cl[m] = Mark(")")
      BY <1>1, <1>3
  <2> QED
      BY <1>4, <1>5, <2>1, <2>2, <2>3 DEF Last
<1>8. ASSUME k = <<>> \/ Last(k) # "'" PROVE Quoted(k, g) = g
  <2>1. m = 0
      BY <1>1, <1>8, OutsideLast DEF m
  <2>2. cl = <<>>
      BY <2>1, <1>3, EmptySeq
  <2> QED
      BY <1>4, <2>2, ConcatEmptySeq
<1>9. ASSUME k # <<>>, Last(k) = "'"
      PROVE  Quoted(Front(k), Append(g, Mark(")"))) = Quoted(k, g)
  <2> DEFINE m1 == m - 1
             c1 == [i \in 1..m1 |-> Mark(")")]
             g1 == Append(g, Mark(")"))
  <2>1. Outside(Front(k)) = Outside(k) /\ Len(Front(k)) = Len(k) - 1 /\ m1 \in Nat
      BY <1>1, <1>9, OutsideLast, LastFront DEF m
  <2>2. c1 \in Seq(Toks) /\ Len(c1) = m1 /\ \A i \in 1..m1 : c1[i] = Mark(")")
      BY <2>1, <1>2
  <2>3. Quoted(Front(k), g1) = g1 \o c1
    <3>1. Len(Front(k)) - Outside(Front(k)) = m1
        BY <2>1, <1>1 DEF m
    <3> QED
        BY <3>1 DEF Quoted
  <2>4. /\ g1 \in Seq(Toks) /\ Len(g1) = Len(g) + 1 /\ g1[Len(g) + 1] = Mark(")")
        /\ \A i \in 1..Len(g) : g1[i] = g[i]
      BY <1>2, AppendProperties
  <2> HIDE DEF c1, g1, m1
  <2>5. /\ g1 \o c1 \in Seq(Toks) /\ Len(g1 \o c1) = Len(g1) + m1
        /\ \A i \in 1..Len(g1) + m1 : (g1 \o c1)[i] = IF i <= Len(g1) THEN g1[i] ELSE c1[i - Len(g1)]
      BY <2>2, <2>4, ConcatProperties
  <2>6. Len(g1 \o c1) = Len(g \o cl)
      BY <2>4, <2>5, <1>5, <1>6, <1>1 DEF m1
  <2>7. \A i \in 1..Len(g \o cl) : (g1 \o c1)[i] = (g \o cl)[i]
    <3> TAKE i \in 1..Len(g \o cl)
    <3>1. i \in 1..Len(g) + m /\ i \in 1..Len(g1) + m1
        BY <1>5, <2>5, <2>6
    <3>2. CASE i <= Len(g)
      <4>1. i \in 1..Len(g) /\ i <= Len(g1)
          BY <3>2, <3>1, <1>6, <2>4
      <4> QED
          BY <3>1, <4>1, <1>5, <2>5, <2>4
    <3>3. CASE i = Len(g) + 1
      <4>1. i - Len(g) = 1 /\ 1 \in 1..m /\ ~(i <= Len(g)) /\ i <= Len(g1)
          BY <3>3, <3>1, <1>6, <2>4, <1>1
      <4> QED
          BY <3>1, <3>3, <4>1, <1>5, <1>3, <2>5, <2>4
    <3>4. CASE i > Len(g) + 1
      <4>1. /\ i - Len(g) \in 1..m /\ ~(i <= Len(g)) /\ ~(i <= Len(g1))
            /\ i - Len(g1) \in 1..m1
          BY <3>4, <3>1, <1>6, <2>4, <1>1 DEF m1
      <4> QED
          BY <3>1, <4>1, <1>5, <1>3, <2>5, <2>2
    <3>5. i <= Len(g) \/ i = Len(g) + 1 \/ i > Len(g) + 1
        BY <3>1, <1>6, <1>1
    <3> QED
        BY <3>2, <3>3, <3>4, <3>5
  <2>8. g1 \o c1 = g \o cl
    <3>1. /\ g1 \o c1 \in Seq(Toks) /\ g \o cl \in Seq(Toks)
          /\ \A i \in 1..Len(g1 \o c1) : (g1 \o c1)[i] = (g \o cl)[i]
        BY <1>5, <2>5, <2>6, <2>7
    <3> QED
        BY <3>1, <2>6, SeqEqual
  <2> QED
      BY <1>4, <2>3, <2>8 DEF g1
<1> QED
    BY <1>4, <1>5, <1>7, <1>8, <1>9

\* The fields of what a text says.
LEMMA SaysFields ==
  ASSUME NEW s \in SaysType
  PROVE  /\ s.toks \in Seq(Toks) /\ s.cur \in Seq(Chars) /\ s.in \in BOOLEAN /\ s.lit \in BOOLEAN
         /\ s.q \in BOOLEAN /\ s.e \in BOOLEAN /\ s.glue \in BOOLEAN /\ s.com \in BOOLEAN
         /\ s.open \in Seq(Openers) /\ s.twice \in BOOLEAN /\ s.odd \in SUBSET {"glued", "trap"}
    BY DEF SaysType

\* Nothing read yet is something that a text says.
LEMMA StartFacts ==
  Start \in SaysType
<1>1. <<>> \in Seq(Toks) /\ <<>> \in Seq(Chars) /\ <<>> \in Seq(Openers)
    OBVIOUS
<1> QED
    BY <1>1 DEF Start, SaysType

\* The same but for the tokens and the lists.
Beside(s, t) == /\ t.cur = s.cur /\ t.in = s.in /\ t.lit = s.lit /\ t.q = s.q /\ t.e = s.e
                /\ t.glue = s.glue /\ t.com = s.com /\ t.twice = s.twice /\ t.odd = s.odd

\* An expression is whole.
LEMMA WholeFacts ==
  ASSUME NEW s \in SaysType, NEW ts \in Seq(Toks)
  PROVE  /\ Whole(s, ts) \in SaysType
         /\ Whole(s, ts).toks = Quoted(s.open, s.toks \o ts)
         /\ Whole(s, ts).open = SubSeq(s.open, 1, Outside(s.open))
         /\ Beside(s, Whole(s, ts))
<1> DEFINE n  == Outside(s.open)
           tk == Quoted(s.open, s.toks \o ts)
           op == SubSeq(s.open, 1, n)
<1>1. s.open \in Seq(Openers) /\ s.toks \in Seq(Toks)
    BY SaysFields
<1>2. n \in 0..Len(s.open)
    BY <1>1, OutsideLast
<1>3. op \in Seq(Openers)
    BY <1>1, <1>2, PrefixFacts
<1>4. s.toks \o ts \in Seq(Toks)
    BY <1>1, ConcatProperties
<1>5. tk \in Seq(Toks)
    BY <1>1, <1>4, QuotedFacts
<1>6. tk = s.toks \o ts \o [i \in 1..(Len(s.open) - n) |-> Mark(")")]
    BY DEF Quoted
<1>7. Whole(s, ts) = [s EXCEPT !.toks = tk, !.open = op]
    BY <1>6 DEF Whole
<1> HIDE DEF tk, op
<1> QED
    BY <1>3, <1>5, <1>7 DEF SaysType, Beside, tk, op

\* A symbol is the dot of a list.
DotOfList(s, space) == /\ s.cur = <<".">> /\ s.lit /\ space
                       /\ s.open # <<>> /\ Last(s.open) = "(" /\ Last(s.toks) # Mark("(")

\* Between symbols.
Outward(s, t) == /\ t.q = s.q /\ t.e = s.e /\ t.glue = s.glue /\ t.com = s.com
                 /\ t.twice = s.twice /\ t.odd = s.odd

\* A symbol ends.
LEMMA EndSymbolFacts ==
  ASSUME NEW s \in SaysType, NEW space \in BOOLEAN
  PROVE  /\ EndSymbol(s, space) \in SaysType
         /\ ~EndSymbol(s, space).in
         /\ Outward(s, EndSymbol(s, space))
         /\ s.in => EndSymbol(s, space).cur = <<>> /\ EndSymbol(s, space).lit
         /\ ~s.in => EndSymbol(s, space) = s
         /\ s.in /\ DotOfList(s, space) =>
              /\ EndSymbol(s, space).toks = Append(s.toks, Mark("."))
              /\ EndSymbol(s, space).open = Append(s.open, ".")
         /\ s.in /\ ~DotOfList(s, space) =>
              /\ EndSymbol(s, space).toks = Quoted(s.open, Append(s.toks, Sym(s.cur)))
              /\ EndSymbol(s, space).open = SubSeq(s.open, 1, Outside(s.open))
<1> DEFINE t == [s EXCEPT !.cur = <<>>, !.in = FALSE, !.lit = TRUE]
<1>1. <<>> \in Seq(Chars)
    OBVIOUS
<1>2. /\ t \in SaysType /\ t.toks = s.toks /\ t.open = s.open /\ t.cur = <<>> /\ ~t.in /\ t.lit
      /\ Outward(s, t)
    BY <1>1 DEF SaysType, Outward
<1>3. CASE ~s.in
    BY <1>3 DEF EndSymbol, Outward
<1>4. CASE s.in /\ DotOfList(s, space)
  <2> DEFINE u == [t EXCEPT !.toks = Append(@, Mark(".")), !.open = Append(@, ".")]
  <2>1. EndSymbol(s, space) = u
      BY <1>4 DEF EndSymbol, DotOfList
  <2>2. Mark(".") \in Toks /\ "." \in Openers
      BY MarkKinds DEF Openers
  <2>3. s.toks \in Seq(Toks) /\ s.open \in Seq(Openers)
      BY SaysFields
  <2>4. Append(t.toks, Mark(".")) \in Seq(Toks) /\ Append(t.open, ".") \in Seq(Openers)
      BY <2>2, <2>3, <1>2, AppendProperties
  <2> HIDE DEF t
  <2>5. /\ u \in SaysType /\ u.toks = Append(t.toks, Mark(".")) /\ u.open = Append(t.open, ".")
        /\ u.cur = t.cur /\ u.in = t.in /\ u.lit = t.lit /\ Outward(t, u)
      BY <2>4, <1>2 DEF SaysType, Outward
  <2> HIDE DEF u
  <2> QED
      BY <2>1, <2>5, <1>2, <1>4 DEF Outward
<1>5. CASE s.in /\ ~DotOfList(s, space)
  <2>1. EndSymbol(s, space) = Whole(t, <<Sym(s.cur)>>)
      BY <1>5 DEF EndSymbol, DotOfList
  <2>2. Sym(s.cur) \in Toks
      BY TokenFacts, SaysFields
  <2>3. <<Sym(s.cur)>> \in Seq(Toks)
      BY <2>2
  <2>4. s.toks \o <<Sym(s.cur)>> = Append(s.toks, Sym(s.cur))
      BY <2>2, SaysFields, AppendIsConcat
  <2> HIDE DEF t
  <2>5. /\ Whole(t, <<Sym(s.cur)>>) \in SaysType
        /\ Whole(t, <<Sym(s.cur)>>).toks = Quoted(t.open, t.toks \o <<Sym(s.cur)>>)
        /\ Whole(t, <<Sym(s.cur)>>).open = SubSeq(t.open, 1, Outside(t.open))
        /\ Beside(t, Whole(t, <<Sym(s.cur)>>))
      BY <1>2, <2>3, WholeFacts
  <2> QED
      BY <2>1, <2>4, <2>5, <1>2, <1>5 DEF Beside, Outward
<1> QED
    BY <1>3, <1>4, <1>5

\* Nothing after a dot.
LEMMA MissingFacts ==
  ASSUME NEW s \in SaysType
  PROVE  /\ Missing(s) \in SaysType /\ Beside(s, Missing(s))
         /\ s.toks = <<>> \/ Last(s.toks) # Mark(".") => Missing(s) = s
         /\ s.toks # <<>> /\ Last(s.toks) = Mark(".") =>
              /\ Missing(s).toks = Quoted(s.open, Append(s.toks, Sym(<<>>)))
              /\ Missing(s).open = SubSeq(s.open, 1, Outside(s.open))
<1>1. Sym(<<>>) \in Toks
  <2>1. <<>> \in Seq(Chars)
      OBVIOUS
  <2> QED
      BY <2>1, TokenFacts
<1>2. <<Sym(<<>>)>> \in Seq(Toks)
    BY <1>1
<1>3. s.toks \o <<Sym(<<>>)>> = Append(s.toks, Sym(<<>>))
    BY <1>1, SaysFields, AppendIsConcat
<1>4. CASE s.toks = <<>> \/ Last(s.toks) # Mark(".")
    BY <1>4 DEF Missing, Beside
<1>5. CASE s.toks # <<>> /\ Last(s.toks) = Mark(".")
  <2>1. Missing(s) = Whole(s, <<Sym(<<>>)>>)
      BY <1>5 DEF Missing
  <2> QED
      BY <2>1, <1>2, <1>3, <1>5, WholeFacts
<1> QED
    BY <1>4, <1>5

\* A list ends.
LEMMA EndListFacts ==
  ASSUME NEW s \in SaysType, NEW c \in {")", "]"}
  PROVE  /\ EndList(s, c) \in SaysType /\ Beside(s, EndList(s, c))
         /\ s.open = <<>> => EndList(s, c) = s
         /\ s.open # <<>> =>
              \E k \in Seq(Openers) :
                /\ k = SubSeq(s.open, 1, Len(s.open) - (IF Last(s.open) = "." THEN 2 ELSE 1))
                /\ EndList(s, c).toks = Quoted(k, Append(s.toks, Mark(c)))
                /\ EndList(s, c).open = SubSeq(k, 1, Outside(k))
<1>1. CASE s.open = <<>>
    BY <1>1 DEF EndList, Beside
<1>2. CASE s.open # <<>>
  <2> DEFINE k == SubSeq(s.open, 1, Len(s.open) - (IF Last(s.open) = "." THEN 2 ELSE 1))
             u == [s EXCEPT !.toks = Append(s.toks, Mark(c)), !.open = k]
  <2>1. EndList(s, c) = Whole(u, <<>>)
      BY <1>2 DEF EndList
  <2>2. s.open \in Seq(Openers) /\ s.toks \in Seq(Toks) /\ Mark(c) \in Toks
      BY SaysFields, MarkKinds
  <2>3. k \in Seq(Openers)
    <3>1. Len(s.open) \in Nat /\ \A i \in 1..Len(s.open) : s.open[i] \in Openers
        BY <2>2, LenProperties, ElementOfSeq
    <3> DEFINE d == IF Last(s.open) = "." THEN 2 ELSE 1
               n == Len(s.open) - d
    <3>5. d \in {1, 2}
        OBVIOUS
    <3>4. n \in Int /\ n < Len(s.open)
      <4> HIDE DEF d
      <4> QED
          BY <3>1, <3>5
    <3>2. 1 \in Int /\ \A i \in 1..n : s.open[i] \in Openers
      <4> HIDE DEF n
      <4> QED
          BY <3>1, <3>4
    <3> HIDE DEF n
    <3>3. SubSeq(s.open, 1, n) \in Seq(Openers)
        BY <3>2, <3>4, SubSeqProperties
    <3> QED
        BY <3>3 DEF n
  <2>4. Append(s.toks, Mark(c)) \in Seq(Toks)
      BY <2>2, AppendProperties
  <2> HIDE DEF k
  <2>5. u \in SaysType /\ u.toks = Append(s.toks, Mark(c)) /\ u.open = k /\ Beside(s, u)
      BY <2>3, <2>4 DEF SaysType, Beside
  <2> HIDE DEF u
  <2>6. u.toks \o <<>> = u.toks /\ <<>> \in Seq(Toks)
      BY <2>4, <2>5, ConcatEmptySeq
  <2>7. /\ Whole(u, <<>>) \in SaysType
        /\ Whole(u, <<>>).toks = Quoted(u.open, u.toks \o <<>>)
        /\ Whole(u, <<>>).open = SubSeq(u.open, 1, Outside(u.open))
        /\ Beside(u, Whole(u, <<>>))
      BY <2>5, <2>6, WholeFacts
  <2>8. k = SubSeq(s.open, 1, Len(s.open) - (IF Last(s.open) = "." THEN 2 ELSE 1))
      BY DEF k
  <2>9. /\ EndList(s, c).toks = Quoted(k, Append(s.toks, Mark(c)))
        /\ EndList(s, c).open = SubSeq(k, 1, Outside(k))
        /\ EndList(s, c) \in SaysType
      BY <2>1, <2>5, <2>6, <2>7
  <2>10. Beside(s, EndList(s, c))
      BY <2>1, <2>5, <2>7 DEF Beside
  <2> QED
      BY <1>2, <2>3, <2>8, <2>9, <2>10
<1> QED
    BY <1>1, <1>2

-----------------------------------------------------------------------------
(* What a text says: one character more. *)

\* What holds of every text.
Sane(s) == /\ s.in => s.glue
           /\ ~s.in => s.cur = <<>> /\ s.lit /\ ~s.q /\ ~s.e
           /\ s.com => ~s.q /\ ~s.e
           /\ s.q \/ s.e => ~s.lit
           /\ s.in /\ s.lit => s.cur # <<>>

\* Neither in a string, nor escaped, nor in a comment.
Bare(s) == ~s.q /\ ~s.e /\ ~s.com

\* In a comment.
LEMMA InCommentSays ==
  ASSUME NEW s \in SaysType, NEW c \in Chars, Sane(s), s.com
  PROVE  /\ c # "nl" => Says1(s, c) = s
         /\ c = "nl" => /\ Says1(s, c) \in SaysType /\ Outward([s EXCEPT !.com = FALSE, !.glue = FALSE], Says1(s, c))
                        /\ ~Says1(s, c).in /\ Sane(Says1(s, c))
         /\ c = "nl" /\ ~s.in => /\ Says1(s, c).toks = s.toks /\ Says1(s, c).open = s.open
<1> DEFINE t == [s EXCEPT !.com = FALSE, !.glue = FALSE]
<1>1. ASSUME c # "nl" PROVE Says1(s, c) = s
    BY <1>1 DEF Says1
<1>2. ASSUME c = "nl" PROVE Says1(s, c) = EndSymbol(t, TRUE)
    BY <1>2 DEF Says1
<1>3. /\ t \in SaysType /\ t.toks = s.toks /\ t.open = s.open /\ t.in = s.in /\ t.cur = s.cur
      /\ t.lit = s.lit /\ t.q = s.q /\ t.e = s.e /\ ~t.com
    BY DEF SaysType
<1> DEFINE u == EndSymbol(t, TRUE)
<1> HIDE DEF t
<1>4. /\ u \in SaysType /\ ~u.in /\ Outward(t, u)
      /\ t.in => u.cur = <<>> /\ u.lit
      /\ ~t.in => u = t
    BY <1>3, EndSymbolFacts
<1> HIDE DEF u
<1>5. Sane(u)
    BY <1>3, <1>4 DEF Sane, Outward
<1>6. ASSUME c = "nl", ~s.in PROVE Says1(s, c).toks = s.toks /\ Says1(s, c).open = s.open
    BY <1>2, <1>3, <1>4, <1>6 DEF u
<1>7. t = [s EXCEPT !.com = FALSE, !.glue = FALSE]
    BY DEF t
<1> QED
    BY <1>1, <1>2, <1>4, <1>5, <1>6, <1>7 DEF u

\* One character more of a symbol.
LEMMA CharFacts ==
  ASSUME NEW s \in SaysType, NEW d \in Chars
  PROVE  /\ Char(s, d) \in SaysType
         /\ Char(s, d).toks = s.toks /\ Char(s, d).open = s.open /\ Char(s, d).cur = Append(s.cur, d)
         /\ Char(s, d).in /\ ~Char(s, d).e /\ Char(s, d).glue /\ ~Char(s, d).twice
         /\ Char(s, d).lit = s.lit /\ Char(s, d).q = s.q /\ Char(s, d).com = s.com
         /\ Char(s, d).odd = s.odd
<1>1. Append(s.cur, d) \in Seq(Chars)
    BY SaysFields, AppendProperties
<1> QED
    BY <1>1 DEF Char, SaysType

\* After a backslash.
LEMMA EscapedSays ==
  ASSUME NEW s \in SaysType, NEW c \in Chars, ~s.com, s.e
  PROVE  /\ Says1(s, c) \in SaysType
         /\ Says1(s, c).toks = s.toks /\ Says1(s, c).open = s.open
         /\ Says1(s, c).cur = Append(s.cur, Escaped(c))
         /\ Says1(s, c).in /\ ~Says1(s, c).e /\ Says1(s, c).glue /\ Says1(s, c).twice = (c = "bs")
         /\ Says1(s, c).lit = s.lit /\ Says1(s, c).q = s.q /\ ~Says1(s, c).com
         /\ Says1(s, c).odd = s.odd
<1> DEFINE t == Char(s, Escaped(c))
<1>1. Escaped(c) \in Chars
    BY DEF Escaped, Chars
<1>2. Says1(s, c) = [t EXCEPT !.twice = c = "bs"]
    BY DEF Says1
<1>3. /\ t \in SaysType /\ t.toks = s.toks /\ t.open = s.open /\ t.cur = Append(s.cur, Escaped(c))
      /\ t.in /\ ~t.e /\ t.glue /\ t.lit = s.lit /\ t.q = s.q /\ t.com = s.com /\ t.odd = s.odd
    BY <1>1, CharFacts
<1> HIDE DEF t
<1> QED
    BY <1>2, <1>3 DEF SaysType

\* A backslash.
LEMMA SlashSays ==
  ASSUME NEW s \in SaysType, ~s.com, ~s.e
  PROVE  /\ Says1(s, "bs") \in SaysType
         /\ Says1(s, "bs").toks = s.toks /\ Says1(s, "bs").open = s.open /\ Says1(s, "bs").cur = s.cur
         /\ Says1(s, "bs").in /\ Says1(s, "bs").e /\ Says1(s, "bs").glue /\ ~Says1(s, "bs").twice
         /\ ~Says1(s, "bs").lit /\ Says1(s, "bs").q = s.q /\ ~Says1(s, "bs").com
         /\ Says1(s, "bs").odd = s.odd
    BY DEF Says1, SaysType

\* A quote.
LEMMA QuoteSays ==
  ASSUME NEW s \in SaysType, ~s.com, ~s.e
  PROVE  /\ Says1(s, "quo") \in SaysType
         /\ Says1(s, "quo").toks = s.toks /\ Says1(s, "quo").open = s.open /\ Says1(s, "quo").cur = s.cur
         /\ Says1(s, "quo").in /\ ~Says1(s, "quo").e /\ Says1(s, "quo").glue /\ ~Says1(s, "quo").twice
         /\ ~Says1(s, "quo").lit /\ Says1(s, "quo").q = ~s.q /\ ~Says1(s, "quo").com
         /\ Says1(s, "quo").odd = s.odd \cup (IF s.twice THEN {"trap"} ELSE {})
<1>1. {x \in {"trap"} : s.twice} = IF s.twice THEN {"trap"} ELSE {}
    OBVIOUS
<1>2. Says1(s, "quo") = [s EXCEPT !.in = TRUE, !.glue = TRUE, !.lit = FALSE, !.q = ~@,
                                   !.twice = FALSE,
                                   !.odd = @ \cup (IF s.twice THEN {"trap"} ELSE {})]
    BY <1>1 DEF Says1
<1>3. s.odd \cup (IF s.twice THEN {"trap"} ELSE {}) \in SUBSET {"glued", "trap"}
    BY SaysFields
<1> QED
    BY <1>2, <1>3 DEF SaysType

\* Any other character of a symbol.
LEMMA SymbolSays ==
  ASSUME NEW s \in SaysType, NEW c \in Chars, ~s.com, ~s.e, c \notin {"bs", "quo"},
         s.q \/ (~IsTokSep(c) /\ ~IsComment(c) /\ ~IsRdMac(c))
  PROVE  Says1(s, c) = Char(s, c)
<1>1. CASE s.q
    BY <1>1 DEF Says1
<1>2. CASE ~s.q /\ ~IsTokSep(c) /\ ~IsComment(c) /\ ~IsRdMac(c)
  <2>1. Says1(s, c) = Plain(s, c)
      BY <1>2 DEF Says1
  <2>2. c \notin {";", "(", "[", ")", "]", "'", "eot"} /\ ~IsSpace(c)
      BY <1>2 DEF IsTokSep, IsComment, IsRdMac
  <2> QED
      BY <2>1, <2>2 DEF Plain
<1> QED
    BY <1>1, <1>2

\* A comment begins.
LEMMA CommentSays ==
  ASSUME NEW s \in SaysType, Bare(s)
  PROVE  /\ Says1(s, ";") \in SaysType /\ Says1(s, ";").com
         /\ Says1(s, ";").toks = s.toks /\ Says1(s, ";").open = s.open /\ Says1(s, ";").cur = s.cur
         /\ Says1(s, ";").in = s.in /\ Says1(s, ";").e = s.e /\ Says1(s, ";").glue = s.glue
         /\ Says1(s, ";").lit = s.lit /\ Says1(s, ";").q = s.q
         /\ s.odd \subseteq Says1(s, ";").odd
         /\ s.glue => Says1(s, ";").odd # {}
<1>1. Says1(s, ";") = [s EXCEPT !.com = TRUE, !.odd = @ \cup {x \in {"glued"} : s.glue}]
  <2>1. Says1(s, ";") = Plain(s, ";")
      BY DEF Says1, Bare
  <2> QED
      BY <2>1 DEF Plain, IsSpace
<1>2. s.odd \cup {x \in {"glued"} : s.glue} \in SUBSET {"glued", "trap"}
    BY SaysFields
<1> QED
    BY <1>1, <1>2 DEF SaysType

\* What ends a symbol: the state before its own tokens.
LEMMA EndFacts ==
  ASSUME NEW s \in SaysType, NEW space \in BOOLEAN, Sane(s), Bare(s),
         NEW t, t = [EndSymbol(s, space) EXCEPT !.twice = FALSE, !.glue = FALSE]
  PROVE  /\ t \in SaysType /\ t.toks = EndSymbol(s, space).toks /\ t.open = EndSymbol(s, space).open
         /\ ~t.in /\ t.cur = <<>> /\ t.lit /\ ~t.q /\ ~t.e /\ ~t.com /\ ~t.twice /\ ~t.glue
         /\ t.odd = s.odd
<1> DEFINE u == EndSymbol(s, space)
<1>1. /\ u \in SaysType /\ ~u.in /\ Outward(s, u)
      /\ s.in => u.cur = <<>> /\ u.lit
      /\ ~s.in => u = s
    BY EndSymbolFacts
<1>2. t = [u EXCEPT !.twice = FALSE, !.glue = FALSE]
    OBVIOUS
<1> HIDE DEF u
<1>3. u.cur = <<>> /\ u.lit
    BY <1>1 DEF Sane
<1>4. /\ t \in SaysType /\ t.toks = u.toks /\ t.open = u.open /\ ~t.in /\ t.cur = u.cur /\ t.lit = u.lit
      /\ t.q = u.q /\ t.e = u.e /\ t.com = u.com /\ ~t.twice /\ ~t.glue /\ t.odd = u.odd
    BY <1>1, <1>2 DEF SaysType
<1> QED
    BY <1>1, <1>3, <1>4 DEF Outward, Bare, u

\* After a separator.
Fresh(s, t) == /\ t \in SaysType /\ ~t.in /\ t.cur = <<>> /\ t.lit /\ ~t.q /\ ~t.e /\ ~t.com /\ ~t.twice
               /\ t.odd = s.odd

\* White space.
LEMMA SpaceSays ==
  ASSUME NEW s \in SaysType, NEW c \in Chars, Sane(s), Bare(s), IsSpace(c)
  PROVE  /\ Fresh(s, Says1(s, c))
         /\ Says1(s, c).toks = EndSymbol(s, TRUE).toks /\ Says1(s, c).open = EndSymbol(s, TRUE).open
<1> DEFINE t == [EndSymbol(s, TRUE) EXCEPT !.twice = FALSE, !.glue = FALSE]
<1>1. c \notin {"bs", "quo", ";", "(", "[", ")", "]", "'", "eot"} /\ IsSpace(c) = TRUE
    BY DEF IsSpace
<1>2. Says1(s, c) = t
  <2>1. Says1(s, c) = Plain(s, c)
      BY <1>1 DEF Says1, Bare
  <2> QED
      BY <2>1, <1>1 DEF Plain
<1> QED
    BY ZenonT(30), <1>2, EndFacts DEF Fresh

\* A list or a vector begins.
LEMMA OpenSays ==
  ASSUME NEW s \in SaysType, NEW c \in {"(", "["}, Sane(s), Bare(s)
  PROVE  /\ Fresh(s, Says1(s, c))
         /\ Says1(s, c).toks = Append(EndSymbol(s, FALSE).toks, Mark(c))
         /\ Says1(s, c).open = Append(EndSymbol(s, FALSE).open, c)
<1> DEFINE t == [EndSymbol(s, FALSE) EXCEPT !.twice = FALSE, !.glue = FALSE]
           u == [t EXCEPT !.toks = Append(@, Mark(c)), !.open = Append(@, c)]
<1>1. c \notin {"bs", "quo", ";"} /\ IsSpace(c) = FALSE
  <2>1. c = "(" \/ c = "["
      OBVIOUS
  <2>2. IsSpace("(") = FALSE /\ IsSpace("[") = FALSE
      BY DEF IsSpace
  <2> QED
      BY <2>1, <2>2
<1>2. Says1(s, c) = u
    BY <1>1 DEF Says1, Plain, Bare
<1>3. /\ t \in SaysType /\ t.toks = EndSymbol(s, FALSE).toks /\ t.open = EndSymbol(s, FALSE).open
      /\ ~t.in /\ t.cur = <<>> /\ t.lit /\ ~t.q /\ ~t.e /\ ~t.com /\ ~t.twice /\ t.odd = s.odd
    BY EndFacts
<1> HIDE DEF t
<1>4. Append(t.toks, Mark(c)) \in Seq(Toks) /\ Append(t.open, c) \in Seq(Openers)
    BY <1>3, SaysFields, MarkKinds, AppendProperties DEF Openers
<1> QED
    BY <1>2, <1>3, <1>4 DEF Fresh, SaysType

\* A quoted expression begins.
LEMMA MacroSays ==
  ASSUME NEW s \in SaysType, Sane(s), Bare(s)
  PROVE  /\ Says1(s, "'") \in SaysType /\ ~Says1(s, "'").in /\ Says1(s, "'").cur = <<>> /\ Says1(s, "'").lit
         /\ Bare(Says1(s, "'")) /\ ~Says1(s, "'").twice /\ Says1(s, "'").odd = s.odd
         /\ Says1(s, "'").glue = s.glue
         /\ Says1(s, "'").toks = EndSymbol(s, FALSE).toks \o <<Mark("("), Sym(<<"quote">>)>>
         /\ Says1(s, "'").open = Append(EndSymbol(s, FALSE).open, "'")
<1> DEFINE t == [EndSymbol(s, FALSE) EXCEPT !.twice = FALSE, !.glue = FALSE]
           u == [t EXCEPT !.toks = @ \o <<Mark("("), Sym(<<"quote">>)>>,
                          !.open = Append(@, "'"), !.glue = s.glue]
<1>1. IsSpace("'") = FALSE
    BY DEF IsSpace
<1>2. Says1(s, "'") = u
    BY <1>1 DEF Says1, Plain, Bare
<1>3. /\ t \in SaysType /\ t.toks = EndSymbol(s, FALSE).toks /\ t.open = EndSymbol(s, FALSE).open
      /\ ~t.in /\ t.cur = <<>> /\ t.lit /\ ~t.q /\ ~t.e /\ ~t.com /\ ~t.twice /\ t.odd = s.odd
    BY EndFacts
<1>4. Mark("(") \in Toks /\ Sym(<<"quote">>) \in Toks
  <2>1. <<"quote">> \in Seq(Chars)
      BY DEF Chars
  <2> QED
      BY <2>1, TokenFacts, MarkKinds
<1>5. <<Mark("("), Sym(<<"quote">>)>> \in Seq(Toks)
    BY <1>4
<1> HIDE DEF t
<1>6. t.toks \o <<Mark("("), Sym(<<"quote">>)>> \in Seq(Toks) /\ Append(t.open, "'") \in Seq(Openers)
    BY <1>3, <1>5, SaysFields, ConcatProperties, AppendProperties DEF Openers
<1>7. s.glue \in BOOLEAN
    BY SaysFields
<1> QED
    BY <1>2, <1>3, <1>6, <1>7 DEF Bare, SaysType

\* A list or a vector ends.
LEMMA CloseSays ==
  ASSUME NEW s \in SaysType, NEW c \in {")", "]"}, Sane(s), Bare(s)
  PROVE  \E t \in SaysType :
           /\ t.toks = EndSymbol(s, FALSE).toks /\ t.open = EndSymbol(s, FALSE).open
           /\ Says1(s, c) = EndList(Missing(t), c)
           /\ Fresh(s, t) /\ Fresh(s, Says1(s, c))
<1> DEFINE t == [EndSymbol(s, FALSE) EXCEPT !.twice = FALSE, !.glue = FALSE]
           u == EndList(Missing(t), c)
<1>1. IsSpace(c) = FALSE /\ c \notin {"bs", "quo", ";", "(", "["}
  <2>1. c = ")" \/ c = "]"
      OBVIOUS
  <2>2. IsSpace(")") = FALSE /\ IsSpace("]") = FALSE
      BY DEF IsSpace
  <2> QED
      BY <2>1, <2>2
<1>2. Says1(s, c) = u
    BY <1>1 DEF Says1, Plain, Bare
<1>3. /\ t \in SaysType /\ t.toks = EndSymbol(s, FALSE).toks /\ t.open = EndSymbol(s, FALSE).open
      /\ ~t.in /\ t.cur = <<>> /\ t.lit /\ ~t.q /\ ~t.e /\ ~t.com /\ ~t.twice /\ t.odd = s.odd
    BY EndFacts
<1> HIDE DEF t
<1>4. Missing(t) \in SaysType /\ Beside(t, Missing(t))
    BY <1>3, MissingFacts
<1>5. u \in SaysType /\ Beside(Missing(t), u)
    BY <1>4, EndListFacts
<1> HIDE DEF u
<1>6. Fresh(s, u)
    BY <1>3, <1>4, <1>5 DEF Fresh, Beside
<1>7. Fresh(s, t)
    BY <1>3 DEF Fresh
<1> QED
    BY <1>2, <1>3, <1>6, <1>7 DEF u

\* The end of input.
LEMMA EotSays ==
  ASSUME NEW s \in SaysType, Bare(s)
  PROVE  Says1(s, "eot") = [s EXCEPT !.toks = <<Sym(<<"eot">>)>>]
    BY DEF Says1, Plain, Bare, IsSpace

\* The cases of Says1().
LEMMA SaysKinds ==
  ASSUME NEW s \in SaysType, NEW c \in Chars
  PROVE  \/ s.com
         \/ ~s.com /\ s.e
         \/ ~s.com /\ ~s.e /\ c \in {"bs", "quo"}
         \/ /\ ~s.com /\ ~s.e /\ c \notin {"bs", "quo"}
            /\ s.q \/ (~IsTokSep(c) /\ ~IsComment(c) /\ ~IsRdMac(c))
         \/ /\ Bare(s)
            /\ \/ c = ";" \/ c = "'" \/ c = "eot" \/ IsSpace(c)
               \/ c \in {"(", "["} \/ c \in {")", "]"}
    BY DEF Bare, IsTokSep, IsComment, IsRdMac

\* One character more of a text, and what mygetc() has to know of it.
LEMMA SaysStep ==
  ASSUME NEW s \in SaysType, NEW c \in Chars, Sane(s)
  PROVE  /\ Says1(s, c) \in SaysType /\ Sane(Says1(s, c)) /\ s.odd \subseteq Says1(s, c).odd
         /\ s.com => ~Says1(s, c).q /\ ~Says1(s, c).e /\ Says1(s, c).com = (c # "nl")
         /\ ~s.com /\ s.e => Says1(s, c).q = s.q /\ ~Says1(s, c).e /\ ~Says1(s, c).com
         /\ ~s.com /\ ~s.e => /\ Says1(s, c).e = (c = "bs")
                              /\ Says1(s, c).q = IF c = "quo" THEN ~s.q ELSE s.q
                              /\ Says1(s, c).com = (c = ";" /\ ~s.q)
         /\ ~s.com /\ c = "bs" => Says1(s, c).in
         /\ ~s.com /\ c = "bs" => Says1(s, c).e \/ Says1(s, c).twice
         /\ ~s.com /\ ~s.e /\ c = "quo" /\ s.twice => "trap" \in Says1(s, c).odd
<1> DEFINE t == Says1(s, c)
<1>0. /\ s.q \in BOOLEAN /\ s.e \in BOOLEAN /\ s.com \in BOOLEAN /\ s.in \in BOOLEAN
      /\ s.odd \in SUBSET {"glued", "trap"} /\ s.cur \in Seq(Chars)
    BY SaysFields
<1> DEFINE Truths(u) == u.q \in BOOLEAN /\ u.e \in BOOLEAN /\ u.com \in BOOLEAN
<1>13. ASSUME NEW u \in SaysType PROVE Truths(u)
    BY SaysFields
<1>1. CASE s.com
  <2>1. CASE c # "nl"
    <3>1. t = s
        BY <1>1, <2>1, InCommentSays
    <3> QED
        BY <1>0, <1>1, <2>1, <3>1 DEF Sane
  <2>2. CASE c = "nl"
    <3> DEFINE u == [s EXCEPT !.com = FALSE, !.glue = FALSE]
    <3>1. t \in SaysType /\ Outward(u, t) /\ ~t.in /\ Sane(t)
        BY <1>1, <2>2, InCommentSays
    <3>2. u.q = s.q /\ u.e = s.e /\ u.com = FALSE /\ u.odd = s.odd
        BY DEF SaysType
    <3> HIDE DEF u, t
    <3>3. ~t.q /\ ~t.e /\ ~t.com /\ t.odd = s.odd
        BY <3>1, <3>2, <1>1 DEF Outward, Sane
    <3>4. Truths(t)
        BY <3>1, <1>13
    <3> QED
        BY <1>0, <1>1, <2>2, <3>1, <3>3, <3>4 DEF t
  <2> QED
      BY <2>1, <2>2
<1>2. CASE ~s.com /\ s.e
  <2>1. Escaped(c) \in Chars
      BY DEF Escaped, Chars
  <2>2. /\ t \in SaysType /\ t.toks = s.toks /\ t.open = s.open /\ t.cur = Append(s.cur, Escaped(c))
        /\ t.in /\ ~t.e /\ t.glue /\ t.twice = (c = "bs") /\ t.lit = s.lit /\ t.q = s.q /\ ~t.com
        /\ t.odd = s.odd
      BY <1>2, EscapedSays
  <2>3. Append(s.cur, Escaped(c)) # <<>>
      BY <1>0, <2>1, AppendProperties
  <2> HIDE DEF t
  <2>4. Sane(t)
      BY <1>2, <2>2, <2>3 DEF Sane
  <2> QED
      BY <1>2, <2>2, <2>4 DEF t
<1>3. CASE ~s.com /\ ~s.e /\ c = "bs"
  <2>1. /\ t \in SaysType /\ t.toks = s.toks /\ t.open = s.open /\ t.cur = s.cur
        /\ t.in /\ t.e /\ t.glue /\ ~t.twice /\ ~t.lit /\ t.q = s.q /\ ~t.com /\ t.odd = s.odd
      BY <1>3, SlashSays
  <2> HIDE DEF t
  <2>2. Sane(t)
      BY <1>3, <2>1 DEF Sane
  <2>3. Truths(t)
      BY <2>1, <1>13
  <2> QED
      BY <1>3, <2>1, <2>2, <2>3, <1>0 DEF t
<1>4. CASE ~s.com /\ ~s.e /\ c = "quo"
  <2>1. /\ t \in SaysType /\ t.in /\ ~t.e /\ t.glue /\ ~t.twice /\ ~t.lit /\ t.q = ~s.q /\ ~t.com
        /\ t.odd = s.odd \cup (IF s.twice THEN {"trap"} ELSE {})
      BY <1>4, QuoteSays
  <2> HIDE DEF t
  <2>2. Sane(t)
      BY <1>4, <2>1 DEF Sane
  <2>3. Truths(t)
      BY <2>1, <1>13
  <2> QED
      BY <1>4, <2>1, <2>2, <2>3, <1>0 DEF t
<1>5. CASE /\ ~s.com /\ ~s.e /\ c \notin {"bs", "quo"}
           /\ s.q \/ (~IsTokSep(c) /\ ~IsComment(c) /\ ~IsRdMac(c))
  <2>1. t = Char(s, c)
      BY <1>5, SymbolSays
  <2>2. /\ t \in SaysType /\ t.cur = Append(s.cur, c) /\ t.in /\ ~t.e /\ t.glue /\ ~t.twice
        /\ t.lit = s.lit /\ t.q = s.q /\ t.com = s.com /\ t.odd = s.odd
      BY <2>1, CharFacts
  <2>3. Append(s.cur, c) # <<>>
      BY <1>0, AppendProperties
  <2> HIDE DEF t
  <2>4. Sane(t)
      BY <1>5, <2>2, <2>3 DEF Sane
  <2>5. c = ";" => s.q
      BY <1>5 DEF IsComment
  <2>6. Truths(t)
      BY <2>2, <1>13
  <2> QED
      BY <1>5, <2>2, <2>4, <2>5, <2>6, <1>0 DEF t
<1>6. CASE Bare(s) /\ c = ";"
  <2>1. /\ t \in SaysType /\ t.com /\ t.cur = s.cur /\ t.in = s.in /\ t.e = s.e /\ t.glue = s.glue
        /\ t.lit = s.lit /\ t.q = s.q /\ s.odd \subseteq t.odd
      BY <1>6, CommentSays
  <2> HIDE DEF t
  <2>2. Sane(t)
      BY <1>6, <2>1 DEF Sane, Bare
  <2> QED
      BY <1>6, <2>1, <2>2, <1>0 DEF t, Bare
<1>7. ASSUME Bare(s), c \notin {"bs", "quo", ";"}, t \in SaysType, ~t.in, t.cur = <<>>, t.lit,
             ~t.q, ~t.e, ~t.com, t.odd = s.odd
      PROVE  /\ t \in SaysType /\ Sane(t) /\ s.odd \subseteq t.odd
             /\ ~s.com /\ ~s.e /\ t.e = (c = "bs") /\ t.q = s.q /\ t.com = (c = ";" /\ ~s.q)
  <2> HIDE DEF t
  <2>1. t.q \in BOOLEAN /\ t.e \in BOOLEAN /\ t.com \in BOOLEAN
      BY <1>7, SaysFields
  <2> QED
      BY <1>7, <1>0, <2>1 DEF Bare, Sane
<1>8. CASE Bare(s) /\ IsSpace(c)
  <2>1. Fresh(s, t) /\ c \notin {"bs", "quo", ";"}
      BY <1>8, SpaceSays DEF IsSpace
  <2> QED
      BY <2>1, <1>7, <1>8 DEF Fresh
<1>9. CASE Bare(s) /\ c \in {"(", "["}
  <2>1. Fresh(s, t) /\ c \notin {"bs", "quo", ";"}
      BY <1>9, OpenSays
  <2> QED
      BY <2>1, <1>7, <1>9 DEF Fresh
<1>10. CASE Bare(s) /\ c \in {")", "]"}
  <2>1. Fresh(s, t) /\ c \notin {"bs", "quo", ";"}
      BY <1>10, CloseSays
  <2> QED
      BY <2>1, <1>7, <1>10 DEF Fresh
<1>11. CASE Bare(s) /\ c = "'"
  <2>1. /\ t \in SaysType /\ ~t.in /\ t.cur = <<>> /\ t.lit /\ Bare(t) /\ t.odd = s.odd
        /\ c \notin {"bs", "quo", ";"}
      BY <1>11, MacroSays
  <2>2. ~t.q /\ ~t.e /\ ~t.com
      BY <2>1 DEF Bare
  <2> QED
      BY <2>1, <2>2, <1>7, <1>11
<1>12. CASE Bare(s) /\ c = "eot"
  <2>1. t = [s EXCEPT !.toks = <<Sym(<<"eot">>)>>]
      BY <1>12, EotSays
  <2>2. <<Sym(<<"eot">>)>> \in Seq(Toks)
    <3>1. <<"eot">> \in Seq(Chars)
      <4>1. "eot" \in Chars
          BY DEF Chars
      <4> QED
          BY <4>1
    <3>2. Sym(<<"eot">>) \in Toks
        BY <3>1, TokenFacts
    <3> QED
        BY <3>2
  <2>3. /\ t \in SaysType /\ t.cur = s.cur /\ t.in = s.in /\ t.lit = s.lit /\ t.q = s.q /\ t.e = s.e
        /\ t.com = s.com /\ t.odd = s.odd /\ t.glue = s.glue
      BY <2>1, <2>2 DEF SaysType
  <2> HIDE DEF t
  <2>4. Sane(t)
      BY <2>3 DEF Sane
  <2> QED
      BY <1>12, <2>3, <2>4, <1>0 DEF t, Bare
<1> QED
    BY <1>1, <1>2, <1>3, <1>4, <1>5, <1>6, <1>7, <1>8, <1>9, <1>10, <1>11, <1>12, SaysKinds DEF Bare

\* Says(), step by step.
RunOf(t, h) == /\ h \in [0..Len(t) -> {s \in SaysType : Sane(s)}]
               /\ h[0] = Start
               /\ \A i \in 1..Len(t) : h[i] = Says1(h[i - 1], t[i])

\* The fold over a text, as a sequence of steps.
LEMMA SaysRun ==
  ASSUME NEW t \in Seq(Chars)
  PROVE  \E h : RunOf(t, h) /\ Says(t) = h[Len(t)]
<1> DEFINE n == Len(t)
           D == {s \in SaysType : Sane(s)}
           F == [i \in 1..n |-> [s \in D |-> Says1(s, t[i])]]
           Eq(h) == h = [i \in 0..n |-> IF i = 0 THEN Start ELSE Says1(h[i - 1], t[i])]
           says == CHOOSE h : Eq(h)
<1>1. n \in Nat /\ \A i \in 1..n : t[i] \in Chars
    BY LenProperties, ElementOfSeq
<1>2. Start \in D
    BY StartFacts DEF Sane, Start
<1>3. F \in [1..n -> [D -> D]]
  <2>1. ASSUME NEW i \in 1..n, NEW s \in D PROVE Says1(s, t[i]) \in D
    <3>1. t[i] \in Chars /\ s \in SaysType /\ Sane(s)
        BY <1>1
    <3> QED
        BY <3>1, SaysStep
  <2> HIDE DEF D
  <2> QED
      BY <2>1
<1> HIDE DEF D, F, n
<1>13. n \in Nat
    BY <1>1
<1>14. \E h \in [0..n -> D] : h[0] = Start /\ \A i \in 1..n : h[i] = F[i][h[i - 1]]
    BY <1>13, <1>2, <1>3, Iterates, SMTT(40)
<1>4. PICK h \in [0..n -> D] : h[0] = Start /\ \A i \in 1..n : h[i] = F[i][h[i - 1]]
    BY <1>14
<1>5. \A i \in 1..n : h[i] = Says1(h[i - 1], t[i])
  <2> TAKE i \in 1..n
  <2>1. i - 1 \in 0..n
      BY <1>1
  <2>2. h[i - 1] \in D
      BY <2>1, <1>4
  <2> QED
      BY <2>2, <1>4 DEF F
<1>6. Eq(h)
  <2>1. \A i \in 0..n : i = 0 \/ i \in 1..n
      BY <1>1
  <2>2. \A i \in 0..n : h[i] = IF i = 0 THEN Start ELSE Says1(h[i - 1], t[i])
      BY <2>1, <1>4, <1>5
  <2> QED
      BY <2>2, <1>4
<1>7. Eq(says)
  <2> HIDE DEF Eq
  <2> QED
      BY <1>6, Zenon
<1>8. /\ says[0] = Start
      /\ \A i \in 1..n : says[i] = Says1(says[i - 1], t[i])
  <2> HIDE DEF says
  <2>1. 0 \in 0..n /\ \A i \in 1..n : i \in 0..n /\ i # 0
      BY <1>1
  <2> QED
      BY <1>7, <2>1
<1>9. Says(t) = says[n]
    BY DEF Says, n
<1> HIDE DEF says
<1>10. \A i \in 0..n : says[i] = h[i]
  <2> DEFINE Bad == {i \in 0..n : says[i] # h[i]}
  <2>1. SUFFICES ASSUME Bad # {} PROVE FALSE
      OBVIOUS
  <2>2. PICK m \in Bad : \A k \in Bad : m <= k
    <3>1. Bad \subseteq Nat
        BY <1>1
    <3> HIDE DEF Bad
    <3> QED
        BY <2>1, <3>1, LeastOf
  <2>3. m \in 0..n /\ m # 0 /\ says[m] # h[m]
      BY <1>4, <1>8
  <2>4. m \in 1..n /\ m - 1 \in 0..n
      BY <2>3, <1>1
  <2>5. m - 1 \notin Bad
    <3> HIDE DEF Bad
    <3> QED
        BY <2>2, <2>4
  <2>6. says[m - 1] = h[m - 1]
      BY <2>4, <2>5
  <2> QED
      BY <2>3, <2>4, <2>6, <1>5, <1>8
<1>11. n \in 0..n
    BY <1>1
<1>12. RunOf(t, h)
    BY <1>4, <1>5 DEF RunOf, D, n
<1> QED
    BY <1>9, <1>10, <1>11, <1>12 DEF n

\* It goes from left to right.
LEMMA RunSame ==
  ASSUME NEW t \in Seq(Chars), NEW u \in Seq(Chars), NEW h, NEW g, RunOf(t, h), RunOf(u, g),
         NEW n \in 0..Len(t), n <= Len(u), \A i \in 1..n : t[i] = u[i]
  PROVE  h[n] = g[n]
<1>1. Len(t) \in Nat /\ Len(u) \in Nat
    BY LenProperties
<1> DEFINE Bad == {i \in 0..n : h[i] # g[i]}
<1>2. SUFFICES ASSUME Bad # {} PROVE FALSE
  <2>1. n \in 0..n
      BY <1>1
  <2> QED
      BY <2>1
<1>3. PICK m \in Bad : \A k \in Bad : m <= k
  <2>1. Bad \subseteq Nat
      BY <1>1
  <2> HIDE DEF Bad
  <2> QED
      BY <1>2, <2>1, LeastOf
<1>4. m \in 0..n /\ m # 0 /\ h[m] # g[m]
    BY <1>3 DEF RunOf
<1>5. m \in 1..n /\ m - 1 \in 0..n /\ m \in 1..Len(t) /\ m \in 1..Len(u)
    BY <1>4, <1>1
<1>6. m - 1 \notin Bad
  <2> HIDE DEF Bad
  <2> QED
      BY <1>3, <1>5
<1>7. h[m - 1] = g[m - 1] /\ t[m] = u[m]
    BY <1>5, <1>6
<1> QED
    BY <1>4, <1>5, <1>7 DEF RunOf

\* What the first p characters say.
Ref(b, p) == Says(SubSeq(b, 1, p))

\* What a beginning of the text says is a step of it.
LEMMA RefRun ==
  ASSUME NEW b \in Seq(Chars), NEW h, RunOf(b, h), NEW p \in 0..Len(b)
  PROVE  Ref(b, p) = h[p]
<1> DEFINE t == SubSeq(b, 1, p)
<1>1. t \in Seq(Chars) /\ Len(t) = p /\ \A i \in 1..p : t[i] = b[i]
    BY PrefixFacts
<1>2. Ref(b, p) = Says(t)
    BY DEF Ref
<1> HIDE DEF t
<1>3. PICK g : RunOf(t, g) /\ Says(t) = g[Len(t)]
    BY <1>1, SaysRun
<1>4. p \in 0..Len(t) /\ p <= Len(b)
    BY <1>1, LenProperties
<1>5. g[p] = h[p]
    BY <1>1, <1>3, <1>4, RunSame
<1> QED
    BY <1>1, <1>2, <1>3, <1>5

\* Every beginning of a text says something, nothing at first and all of it at last.
LEMMA RefFacts ==
  ASSUME NEW b \in Seq(Chars)
  PROVE  /\ \A p \in 0..Len(b) : Ref(b, p) \in SaysType /\ Sane(Ref(b, p))
         /\ Ref(b, 0) = Start
         /\ Ref(b, Len(b)) = Says(b)
<1>1. PICK h : RunOf(b, h) /\ Says(b) = h[Len(b)]
    BY SaysRun
<1>2. Len(b) \in Nat
    BY LenProperties
<1>3. \A p \in 0..Len(b) : Ref(b, p) = h[p]
    BY <1>1, RefRun
<1>4. \A p \in 0..Len(b) : h[p] \in SaysType /\ Sane(h[p])
    BY <1>1 DEF RunOf
<1>5. 0 \in 0..Len(b) /\ Len(b) \in 0..Len(b)
    BY <1>2
<1> QED
    BY <1>1, <1>3, <1>4, <1>5 DEF RunOf

\* One character more.
LEMMA RefNext ==
  ASSUME NEW b \in Seq(Chars), NEW p \in 0..(Len(b) - 1)
  PROVE  /\ b[p + 1] \in Chars
         /\ p \in 0..Len(b) /\ p + 1 \in 0..Len(b) /\ p + 1 \in 1..Len(b)
         /\ Ref(b, p) \in SaysType /\ Sane(Ref(b, p))
         /\ Ref(b, p + 1) \in SaysType /\ Sane(Ref(b, p + 1))
         /\ Ref(b, p + 1) = Says1(Ref(b, p), b[p + 1])
<1>1. PICK h : RunOf(b, h) /\ Says(b) = h[Len(b)]
    BY SaysRun
<1>2. Len(b) \in Nat
    BY LenProperties
<1>3. p \in 0..Len(b) /\ p + 1 \in 0..Len(b) /\ p + 1 \in 1..Len(b) /\ (p + 1) - 1 = p
    BY <1>2
<1>4. Ref(b, p) = h[p] /\ Ref(b, p + 1) = h[p + 1]
    BY <1>1, <1>3, RefRun
<1>5. h[p + 1] = Says1(h[p], b[p + 1])
    BY <1>1, <1>3 DEF RunOf
<1>6. b[p + 1] \in Chars
    BY <1>3, ElementOfSeq
<1> QED
    BY <1>3, <1>4, <1>5, <1>6, RefFacts

\* What comes later does not matter.
LEMMA RefSame ==
  ASSUME NEW b \in Seq(Chars), NEW d \in Seq(Chars), NEW p \in 0..Len(b), p <= Len(d),
         \A i \in 1..p : b[i] = d[i]
  PROVE  Ref(b, p) = Ref(d, p)
<1>1. PICK h : RunOf(b, h)
    BY SaysRun
<1>2. PICK g : RunOf(d, g)
    BY SaysRun
<1>3. Len(b) \in Nat /\ Len(d) \in Nat
    BY LenProperties
<1>4. p \in 0..Len(d)
    BY <1>3
<1>5. h[p] = g[p]
    BY <1>1, <1>2, RunSame
<1> QED
    BY <1>1, <1>2, <1>4, <1>5, RefRun

\* Exceptions remain.
LEMMA RefOdd ==
  ASSUME NEW b \in Seq(Chars), NEW p \in 0..Len(b)
  PROVE  Ref(b, p).odd \subseteq Says(b).odd
<1>1. Len(b) \in Nat
    BY LenProperties
<1> DEFINE Bad == {d \in Nat : d <= Len(b) /\ ~(Ref(b, Len(b) - d).odd \subseteq Says(b).odd)}
<1>2. SUFFICES ASSUME Bad # {} PROVE FALSE
  <2>1. Len(b) - p \in Nat /\ Len(b) - p <= Len(b) /\ Len(b) - (Len(b) - p) = p
      BY <1>1
  <2> QED
      BY <2>1
<1>3. PICK m \in Bad : \A k \in Bad : m <= k
  <2>1. Bad \subseteq Nat
      OBVIOUS
  <2> HIDE DEF Bad
  <2> QED
      BY <1>2, <2>1, LeastOf
<1> DEFINE i == Len(b) - m
<1>4. m \in Nat /\ m <= Len(b) /\ i \in 0..Len(b) /\ ~(Ref(b, i).odd \subseteq Says(b).odd)
    BY <1>1, <1>3
<1>5. m # 0
    BY <1>1, <1>4, RefFacts
<1>6. m - 1 \in Nat /\ m - 1 <= Len(b) /\ Len(b) - (m - 1) = i + 1 /\ i \in 0..(Len(b) - 1)
    BY <1>1, <1>4, <1>5
<1>7. m - 1 \notin Bad
  <2>1. ~(m <= m - 1)
      BY <1>4
  <2> HIDE DEF Bad
  <2> QED
      BY <1>3, <2>1
<1>8. Ref(b, i + 1).odd \subseteq Says(b).odd
    BY <1>6, <1>7
<1> HIDE DEF i
<1>9. /\ Ref(b, i) \in SaysType /\ Sane(Ref(b, i)) /\ b[i + 1] \in Chars
      /\ Ref(b, i + 1) = Says1(Ref(b, i), b[i + 1])
    BY <1>6, RefNext
<1>10. Ref(b, i).odd \subseteq Ref(b, i + 1).odd
  <2>1. ASSUME NEW s \in SaysType, NEW c \in Chars, Sane(s) PROVE s.odd \subseteq Says1(s, c).odd
      BY <2>1, SaysStep
  <2> QED
      BY <1>9, <2>1
<1> QED
    BY <1>4, <1>8, <1>10

-----------------------------------------------------------------------------
(* mygetc() and myungetc(): what is quoted, escaped and in a comment.      *)

LineType == [buf : Seq(Chars), ri : Nat, esc : Nat, quoted : BOOLEAN, ignore : BOOLEAN,
             notblank : BOOLEAN]

\* The types of the fields.
LEMMA LineFields ==
  ASSUME NEW l \in LineType
  PROVE  /\ l.buf \in Seq(Chars) /\ Len(l.buf) \in Nat /\ l.ri \in Nat /\ l.esc \in Nat
         /\ l.quoted \in BOOLEAN /\ l.ignore \in BOOLEAN /\ l.notblank \in BOOLEAN
    BY LenProperties DEF LineType

\* A backslash that counts is at lbri or before it.
Slash(l) == l.esc # NONE => l.esc \in {l.ri - 1, l.ri} /\ l.esc >= 1 /\ l.buf[l.esc] = "bs"

\* What is known agrees with what the text says; a backslash that is taken for an
\* escape wrongly is one that does no harm.
Scan(l) ==
  LET p == l.ri  s == Ref(l.buf, p) IN
  /\ p \in 0..Len(l.buf)
  /\ l.quoted = s.q /\ l.ignore = s.com
  /\ Slash(l)
  /\ s.e => l.esc = p
  /\ l.esc # NONE /\ l.esc = p =>
       s.e \/ (p < Len(l.buf) /\ ~s.com /\ l.buf[p + 1] \notin {"quo", "bs", ";"})

\* incomment()
EscBefore(l) == IF l.esc # NONE /\ (l.ri + 1) - l.esc > 1 THEN NONE ELSE l.esc

\* incomment(), field by field.
LEMMA InCommentType ==
  ASSUME NEW l \in LineType, NEW n, n = InComment([l EXCEPT !.ri = @ + 1])
  PROVE  /\ n \in LineType /\ n.buf = l.buf /\ n.ri = l.ri + 1 /\ n.notblank = l.notblank
         /\ n.esc = IF l.buf[l.ri + 1] = "bs" /\ ~l.ignore /\ EscBefore(l) = NONE
                    THEN l.ri + 1 ELSE EscBefore(l)
         /\ n.quoted = IF l.buf[l.ri + 1] = "quo" /\ ~l.ignore /\ EscBefore(l) = NONE
                       THEN ~l.quoted ELSE l.quoted
         /\ n.ignore = IF l.ignore THEN ~(l.buf[l.ri + 1] = "nl" /\ ~l.quoted /\ EscBefore(l) = NONE)
                       ELSE IsComment(l.buf[l.ri + 1]) /\ ~l.quoted /\ EscBefore(l) = NONE
<1> DEFINE i  == l.ri + 1
           m  == [l EXCEPT !.ri = @ + 1]
           c  == l.buf[i]
           es == IF l.esc # NONE /\ i - l.esc > 1 THEN NONE ELSE l.esc
           e2 == IF c = "bs" /\ ~l.ignore /\ es = NONE THEN i ELSE es
           q2 == IF c = "quo" /\ ~l.ignore /\ es = NONE THEN ~l.quoted ELSE l.quoted
           g2 == IF l.ignore THEN ~(c = "nl" /\ ~l.quoted /\ es = NONE)
                 ELSE IsComment(c) /\ ~l.quoted /\ es = NONE
<1>1. /\ l.buf \in Seq(Chars) /\ l.ri \in Nat /\ l.esc \in Nat
      /\ l.quoted \in BOOLEAN /\ l.ignore \in BOOLEAN /\ l.notblank \in BOOLEAN
    BY LineFields
<1>2. /\ m \in LineType /\ m.ri = i /\ m.buf = l.buf /\ m.esc = l.esc /\ m.quoted = l.quoted
      /\ m.ignore = l.ignore /\ m.notblank = l.notblank
    BY <1>1 DEF LineType
<1>3. n = [m EXCEPT !.esc = e2, !.quoted = q2, !.ignore = g2]
  <2>1. n = InComment(m)
      OBVIOUS
  <2> HIDE DEF m
  <2>2. InComment(m) =
          [m EXCEPT !.esc = IF m.buf[m.ri] = "bs" /\ ~m.ignore
                               /\ (IF m.esc # NONE /\ m.ri - m.esc > 1 THEN NONE ELSE m.esc) = NONE
                            THEN m.ri
                            ELSE IF m.esc # NONE /\ m.ri - m.esc > 1 THEN NONE ELSE m.esc,
                    !.quoted = IF m.buf[m.ri] = "quo" /\ ~m.ignore
                                  /\ (IF m.esc # NONE /\ m.ri - m.esc > 1 THEN NONE ELSE m.esc) = NONE
                               THEN ~m.quoted ELSE m.quoted,
                    !.ignore = IF m.ignore
                               THEN ~(m.buf[m.ri] = "nl" /\ ~m.quoted
                                      /\ (IF m.esc # NONE /\ m.ri - m.esc > 1 THEN NONE ELSE m.esc) = NONE)
                               ELSE IsComment(m.buf[m.ri]) /\ ~m.quoted
                                    /\ (IF m.esc # NONE /\ m.ri - m.esc > 1 THEN NONE ELSE m.esc) = NONE]
      BY Zenon DEF InComment
  <2> QED
      BY <2>1, <2>2, <1>2
<1>4. e2 \in Nat /\ q2 \in BOOLEAN /\ g2 \in BOOLEAN
  <2>1. es \in Nat /\ i \in Nat
      BY <1>1 DEF NONE
  <2>2. IsComment(c) \in BOOLEAN
      BY DEF IsComment
  <2> HIDE DEF es, i, c
  <2>3. e2 \in Nat
      BY <2>1
  <2>4. q2 \in BOOLEAN
      BY <1>1
  <2>5. g2 \in BOOLEAN
    <3>1. CASE l.ignore
        BY <3>1
    <3>2. CASE ~l.ignore
        BY <3>2, <2>2
    <3> QED
        BY <3>1, <3>2
  <2> QED
      BY <2>3, <2>4, <2>5
<1>6. /\ e2 = IF c = "bs" /\ ~l.ignore /\ es = NONE THEN i ELSE es
      /\ q2 = IF c = "quo" /\ ~l.ignore /\ es = NONE THEN ~l.quoted ELSE l.quoted
      /\ g2 = IF l.ignore THEN ~(c = "nl" /\ ~l.quoted /\ es = NONE)
              ELSE IsComment(c) /\ ~l.quoted /\ es = NONE
    OBVIOUS
<1> HIDE DEF m, e2, q2, g2
<1>5. /\ n \in LineType /\ n.buf = m.buf /\ n.ri = m.ri /\ n.notblank = m.notblank
      /\ n.esc = e2 /\ n.quoted = q2 /\ n.ignore = g2
    BY <1>2, <1>3, <1>4 DEF LineType
<1>7. /\ n \in LineType /\ n.buf = l.buf /\ n.ri = i /\ n.notblank = l.notblank
    BY <1>2, <1>5
<1>8. es = EscBefore(l)
    BY DEF EscBefore
<1>9. /\ n.esc = IF c = "bs" /\ ~l.ignore /\ es = NONE THEN i ELSE es
      /\ n.quoted = IF c = "quo" /\ ~l.ignore /\ es = NONE THEN ~l.quoted ELSE l.quoted
      /\ n.ignore = IF l.ignore THEN ~(c = "nl" /\ ~l.quoted /\ es = NONE)
                    ELSE IsComment(c) /\ ~l.quoted /\ es = NONE
    BY <1>5, <1>6
<1> HIDE DEF es
<1> QED
    BY <1>7, <1>8, <1>9

\* incomment() keeps the agreement: it knows of the next character what the text says of it.
LEMMA Forward ==
  ASSUME NEW l \in LineType, Scan(l), l.ri < Len(l.buf),
         NEW n, n = InComment([l EXCEPT !.ri = @ + 1])
  PROVE  n \in LineType /\ n.buf = l.buf /\ n.ri = l.ri + 1 /\ n.notblank = l.notblank /\ Scan(n)
<1> DEFINE b == l.buf
           p == l.ri
           c == b[p + 1]
           s == Ref(b, p)
           t == Ref(b, p + 1)
           es == EscBefore(l)
<1>1. /\ b \in Seq(Chars) /\ Len(b) \in Nat /\ p \in Nat /\ l.esc \in Nat
      /\ l.quoted \in BOOLEAN /\ l.ignore \in BOOLEAN
    BY LineFields
<1>2. p \in 0..(Len(b) - 1)
    BY <1>1
<1>3. /\ n \in LineType /\ n.buf = b /\ n.ri = p + 1 /\ n.notblank = l.notblank
      /\ n.esc = IF c = "bs" /\ ~l.ignore /\ es = NONE THEN p + 1 ELSE es
      /\ n.quoted = IF c = "quo" /\ ~l.ignore /\ es = NONE THEN ~l.quoted ELSE l.quoted
      /\ n.ignore = IF l.ignore THEN ~(c = "nl" /\ ~l.quoted /\ es = NONE)
                    ELSE IsComment(c) /\ ~l.quoted /\ es = NONE
    BY InCommentType
<1>4. /\ c \in Chars /\ s \in SaysType /\ Sane(s) /\ t \in SaysType /\ t = Says1(s, c)
      /\ p + 1 \in 0..Len(b) /\ p \in 0..Len(b)
    BY <1>1, <1>2, RefNext
<1>5. /\ s.com => ~t.q /\ ~t.e /\ t.com = (c # "nl")
      /\ ~s.com /\ s.e => t.q = s.q /\ ~t.e /\ ~t.com
      /\ ~s.com /\ ~s.e => /\ t.e = (c = "bs")
                           /\ t.q = IF c = "quo" THEN ~s.q ELSE s.q
                           /\ t.com = (c = ";" /\ ~s.q)
  <2> HIDE DEF s, t, c
  <2> QED
      BY <1>4, SaysStep
<1>6. /\ s.q \in BOOLEAN /\ s.e \in BOOLEAN /\ s.com \in BOOLEAN
      /\ t.q \in BOOLEAN /\ t.e \in BOOLEAN /\ t.com \in BOOLEAN
    BY <1>4, SaysFields
<1>7. /\ l.quoted = s.q /\ l.ignore = s.com
      /\ l.esc # NONE => l.esc \in {p - 1, p} /\ l.esc >= 1 /\ b[l.esc] = "bs"
      /\ s.e => l.esc = p
      /\ l.esc # NONE /\ l.esc = p => s.e \/ (~s.com /\ c \notin {"quo", "bs", ";"})
    BY DEF Scan, Slash
<1>8. s.com => ~s.q /\ ~s.e
    BY <1>4 DEF Sane
<1>9. s.e => p # NONE /\ p \in Nat
  <2>1. Ref(b, 0) = Start
      BY <1>1, RefFacts
  <2> QED
      BY <2>1, <1>1 DEF Start, NONE
<1>10. es = IF l.esc = p THEN l.esc ELSE NONE
  <2>1. CASE l.esc = NONE
      BY <2>1 DEF NONE, EscBefore
  <2>2. CASE l.esc # NONE /\ l.esc = p
      BY <2>2, <1>1 DEF EscBefore
  <2>3. CASE l.esc # NONE /\ l.esc = p - 1
      BY <2>3, <1>1 DEF EscBefore
  <2> QED
      BY <2>1, <2>2, <2>3, <1>7
<1> HIDE DEF b, p, c, s, t, es
<1>11. /\ n.quoted = t.q /\ n.ignore = t.com
       /\ n.esc # NONE => n.esc \in {p, p + 1} /\ n.esc >= 1 /\ b[n.esc] = "bs"
       /\ t.e => n.esc = p + 1
       /\ n.esc # NONE /\ n.esc = p + 1 => t.e
  <2>1. CASE s.com
    <3>1. es = NONE
        BY <2>1, <1>7, <1>8, <1>10 DEF NONE
    <3> QED
        BY <2>1, <3>1, <1>1, <1>3, <1>5, <1>6, <1>7, <1>8
  <2>2. CASE ~s.com /\ es # NONE
    <3>1. es = p /\ l.esc = p /\ p >= 1 /\ b[p] = "bs" /\ (s.e \/ c \notin {"quo", "bs", ";"})
        BY <2>2, <1>1, <1>7, <1>10
    <3>2. n.esc = p /\ n.quoted = s.q /\ n.ignore = FALSE
        BY <2>2, <3>1, <1>3, <1>7
    <3>3. t.q = s.q /\ t.e = FALSE /\ t.com = FALSE
        BY <2>2, <3>1, <1>5, <1>6
    <3>4. p # p + 1 /\ NONE = 0
        BY <1>1 DEF NONE
    <3> QED
        BY <3>1, <3>2, <3>3, <3>4, <1>6
  <2>3. CASE ~s.com /\ es = NONE
    <3>1. ~s.e
        BY <2>3, <1>7, <1>9, <1>10 DEF NONE
    <3>2. /\ n.esc = IF c = "bs" THEN p + 1 ELSE NONE
          /\ n.quoted = IF c = "quo" THEN ~s.q ELSE s.q
          /\ n.ignore = (IsComment(c) /\ ~s.q)
        BY <2>3, <1>3, <1>6, <1>7
    <3>3. t.e = (c = "bs") /\ t.q = (IF c = "quo" THEN ~s.q ELSE s.q) /\ t.com = (c = ";" /\ ~s.q)
        BY <2>3, <3>1, <1>5
    <3>4. IsComment(c) = (c = ";")
        BY DEF IsComment
    <3>5. n.quoted = t.q /\ n.ignore = t.com
        BY <3>2, <3>3, <3>4
    <3>6. p + 1 # NONE /\ p + 1 >= 1
        BY <1>1 DEF NONE
    <3>7. n.esc # NONE => c = "bs" /\ n.esc = p + 1
        BY <3>2
    <3>8. c = "bs" => n.esc = p + 1 /\ b[p + 1] = "bs"
        BY <3>2 DEF c
    <3> QED
        BY <3>3, <3>5, <3>6, <3>7, <3>8
  <2> QED
      BY <2>1, <2>2, <2>3
<1>12. (p + 1) - 1 = p
    BY <1>1
<1> QED
    BY <1>3, <1>4, <1>11, <1>12 DEF Scan, Slash, b, p, t

\* Lines of which no more has been read than there is.
Lines == {l \in LineType : l.ri <= Len(l.buf)}

\* The types of the fields, and the place in the buffer as an index.
LEMMA LinesFacts ==
  ASSUME NEW l \in Lines
  PROVE  /\ l \in LineType /\ l.buf \in Seq(Chars) /\ Len(l.buf) \in Nat /\ l.ri \in Nat /\ l.esc \in Nat
         /\ l.quoted \in BOOLEAN /\ l.ignore \in BOOLEAN /\ l.notblank \in BOOLEAN
         /\ l.ri <= Len(l.buf) /\ l.ri \in 0..Len(l.buf)
         /\ l.ri >= 1 => l.ri \in 1..Len(l.buf) /\ l.ri - 1 \in 0..(Len(l.buf) - 1) /\ (l.ri - 1) + 1 = l.ri
         /\ l.ri < Len(l.buf) => l.ri \in 0..(Len(l.buf) - 1) /\ l.ri + 1 \in 1..Len(l.buf)
    BY LineFields DEF Lines

\* myungetc()
UngetEsc(l) == IF l.esc = l.ri THEN NONE
               ELSE IF l.esc = NONE /\ l.ri > 1 /\ l.buf[l.ri - 1] = "bs" THEN l.ri - 1
               ELSE l.esc

\* myungetc(), field by field.
LEMMA UngetType ==
  ASSUME NEW l \in Lines, NEW c \in Chars
  PROVE  /\ Unget(l, c) \in Lines
         /\ Unget(l, c).notblank = l.notblank /\ Unget(l, c).ignore = l.ignore
         /\ l.ri = 0 => /\ Unget(l, c).ri = 0 /\ Unget(l, c).buf = <<c>> \o l.buf
                        /\ Len(Unget(l, c).buf) = Len(l.buf) + 1
         /\ l.ri # 0 => /\ Unget(l, c).ri = l.ri - 1 /\ Len(Unget(l, c).buf) = Len(l.buf)
                        /\ Unget(l, c).buf = [l.buf EXCEPT ![l.ri] = c]
                        /\ c = l.buf[l.ri] => Unget(l, c).buf = l.buf
                        /\ Unget(l, c).esc = UngetEsc(l)
                        /\ Unget(l, c).quoted =
                             IF l.buf[l.ri] = "quo" /\ (UngetEsc(l) = NONE \/ l.ri - UngetEsc(l) > 1)
                             THEN ~l.quoted ELSE l.quoted
<1>1. /\ l.buf \in Seq(Chars) /\ Len(l.buf) \in Nat /\ l.ri \in Nat /\ l.esc \in Nat
      /\ l.quoted \in BOOLEAN /\ l.ignore \in BOOLEAN /\ l.notblank \in BOOLEAN
      /\ l \in LineType /\ l.ri <= Len(l.buf)
    BY LineFields DEF Lines
<1> DEFINE u == Unget(l, c)
<1>2. CASE l.ri = 0
  <2> DEFINE d == <<c>> \o l.buf
  <2>1. <<c>> \in Seq(Chars) /\ Len(<<c>>) = 1
      OBVIOUS
  <2>2. d \in Seq(Chars) /\ Len(d) = Len(l.buf) + 1
      BY <2>1, <1>1, ConcatProperties
  <2>3. u = [l EXCEPT !.buf = d]
      BY <1>2 DEF Unget
  <2> HIDE DEF d, u
  <2>4. u \in LineType /\ u.buf = d /\ u.ri = l.ri /\ u.notblank = l.notblank /\ u.ignore = l.ignore
      BY <2>2, <2>3, <1>1 DEF LineType
  <2>5. u \in Lines
      BY <2>2, <2>4, <1>1 DEF Lines
  <2> QED
      BY <1>2, <2>2, <2>4, <2>5 DEF u, d
<1>3. CASE l.ri # 0
  <2> DEFINE d == [l.buf EXCEPT ![l.ri] = c]
             es == UngetEsc(l)
             q2 == IF l.buf[l.ri] = "quo" /\ (es = NONE \/ l.ri - es > 1) THEN ~l.quoted ELSE l.quoted
  <2>1. l.ri \in 1..Len(l.buf)
      BY <1>1, <1>3
  <2>2. d \in Seq(Chars) /\ Len(d) = Len(l.buf)
      BY <2>1, <1>1, ExceptSeq
  <2>3. c = l.buf[l.ri] => d = l.buf
    <3>1. l.buf \in [1..Len(l.buf) -> Chars]
        BY <1>1, LenProperties
    <3> QED
        BY <3>1
  <2>4. es \in Nat
      BY <1>1, <1>3 DEF UngetEsc, NONE
  <2>5. u = [l EXCEPT !.ri = l.ri - 1, !.esc = es, !.quoted = q2, !.buf = d]
    <3>1. u = [l EXCEPT !.ri = @ - 1, !.esc = es,
                        !.quoted = IF l.buf[l.ri] = "quo" /\ (es = NONE \/ l.ri - es > 1) THEN ~@ ELSE @,
                        !.buf[l.ri] = c]
        BY <1>3 DEF Unget, UngetEsc
    <3> QED
        BY <3>1, <1>1 DEF LineType
  <2>6. q2 \in BOOLEAN
      BY <1>1
  <2>7. l.ri - 1 \in Nat
      BY <1>1, <1>3
  <2>8. q2 = IF l.buf[l.ri] = "quo" /\ (es = NONE \/ l.ri - es > 1) THEN ~l.quoted ELSE l.quoted
      OBVIOUS
  <2> HIDE DEF d, q2, es, u
  <2>9. /\ u \in LineType /\ u.ri = l.ri - 1 /\ u.esc = es /\ u.quoted = q2 /\ u.buf = d
        /\ u.notblank = l.notblank /\ u.ignore = l.ignore
      BY <2>2, <2>4, <2>5, <2>6, <2>7, <1>1 DEF LineType
  <2>10. u \in Lines
      BY <2>2, <2>9, <1>1 DEF Lines
  <2> QED
      BY <1>3, <2>2, <2>3, <2>8, <2>9, <2>10 DEF u, d, es
<1> QED
    BY <1>2, <1>3

\* Less than Scan(): the escape may be forgotten.
Weak(l) == /\ l.quoted = Ref(l.buf, l.ri).q /\ ~l.ignore /\ Slash(l)

\* Outside comments the weaker agreement follows.
LEMMA ScanWeak ==
  ASSUME NEW l \in Lines, Scan(l), ~l.ignore
  PROVE  Weak(l)
    BY DEF Scan, Weak

\* Putting back keeps it, where there is no comment, and no trap.
LEMMA UngetWeak ==
  ASSUME NEW l \in Lines, Weak(l), l.ri # 0, "trap" \notin Ref(l.buf, l.ri).odd,
         ~Ref(l.buf, l.ri - 1).com, ~Ref(l.buf, l.ri).com
  PROVE  /\ Unget(l, l.buf[l.ri]) \in Lines /\ Weak(Unget(l, l.buf[l.ri]))
         /\ Unget(l, l.buf[l.ri]).buf = l.buf /\ Unget(l, l.buf[l.ri]).ri = l.ri - 1
         /\ Unget(l, l.buf[l.ri]).notblank = l.notblank
<1> DEFINE b == l.buf
           p == l.ri
           c == b[p]
           h == Ref(b, p - 1)
           s == Ref(b, p)
           u == Unget(l, c)
           es == UngetEsc(l)
<1>1. /\ b \in Seq(Chars) /\ Len(b) \in Nat /\ p \in Nat /\ l.esc \in Nat
      /\ l.quoted \in BOOLEAN /\ l.ignore \in BOOLEAN
      /\ p \in 1..Len(b) /\ p - 1 \in 0..(Len(b) - 1) /\ (p - 1) + 1 = p
    BY LineFields DEF Lines
<1>2. /\ c \in Chars /\ h \in SaysType /\ Sane(h) /\ s \in SaysType /\ s = Says1(h, c)
    BY <1>1, RefNext
<1>3. /\ u \in Lines /\ u.notblank = l.notblank /\ u.ignore = l.ignore
      /\ u.ri = p - 1 /\ u.buf = b /\ u.esc = es
      /\ u.quoted = IF c = "quo" /\ (es = NONE \/ p - es > 1) THEN ~l.quoted ELSE l.quoted
    BY <1>2, UngetType
<1>4. /\ l.quoted = s.q /\ ~l.ignore /\ ~h.com /\ ~s.com /\ "trap" \notin s.odd
      /\ l.esc # NONE => l.esc \in {p - 1, p} /\ l.esc >= 1 /\ b[l.esc] = "bs"
    BY DEF Weak, Slash
<1>5. es = IF l.esc = p THEN NONE
           ELSE IF l.esc = NONE /\ p > 1 /\ b[p - 1] = "bs" THEN p - 1 ELSE l.esc
    BY DEF UngetEsc
<1>6. h.q \in BOOLEAN /\ h.e \in BOOLEAN /\ s.q \in BOOLEAN /\ s.e \in BOOLEAN
    BY <1>2, SaysFields
<1>7. /\ h.e => s.q = h.q
      /\ ~h.e => s.q = IF c = "quo" THEN ~h.q ELSE h.q
      /\ ~h.e /\ c = "quo" /\ h.twice => "trap" \in s.odd
  <2> HIDE DEF h, s, c
  <2> QED
      BY <1>2, <1>4, SaysStep
<1>8. p > 1 /\ b[p - 1] = "bs" => h.e \/ h.twice
  <2> SUFFICES ASSUME p > 1, b[p - 1] = "bs" PROVE h.e \/ h.twice
      OBVIOUS
  <2> DEFINE g == Ref(b, p - 2)
  <2>1. p - 2 \in 0..(Len(b) - 1) /\ (p - 2) + 1 = p - 1
      BY <1>1
  <2>2. g \in SaysType /\ Sane(g) /\ h = Says1(g, "bs") /\ "bs" \in Chars
      BY <2>1, <1>1, RefNext
  <2> HIDE DEF g, h
  <2>3. ~g.com
      BY <2>2, <1>4, SaysStep
  <2> QED
      BY <2>2, <2>3, SaysStep
<1>9. h.e => p > 1 /\ b[p - 1] = "bs"
  <2> SUFFICES ASSUME h.e PROVE p > 1 /\ b[p - 1] = "bs"
      OBVIOUS
  <2>1. p # 1
    <3>1. Ref(b, 0) = Start
        BY <1>1, RefFacts
    <3> QED
        BY <3>1, <1>1 DEF Start
  <2> DEFINE g == Ref(b, p - 2)
  <2>2. p - 2 \in 0..(Len(b) - 1) /\ (p - 2) + 1 = p - 1
      BY <1>1, <2>1
  <2>3. g \in SaysType /\ Sane(g) /\ h = Says1(g, b[p - 1]) /\ b[p - 1] \in Chars
      BY <2>2, <1>1, RefNext
  <2> DEFINE d == b[p - 1]
  <2>6. d \in Chars /\ h = Says1(g, d)
      BY <2>3
  <2> HIDE DEF g, h, d
  <2>4. g.com \in BOOLEAN /\ g.e \in BOOLEAN
      BY <2>3, SaysFields
  <2>5. h.e => d = "bs"
    <3>1. /\ g.com => ~Says1(g, d).e
          /\ ~g.com /\ g.e => ~Says1(g, d).e
          /\ ~g.com /\ ~g.e => Says1(g, d).e = (d = "bs")
        BY <2>3, <2>6, SaysStep
    <3> QED
        BY <2>6, <2>4, <3>1
  <2> QED
      BY <2>1, <2>5, <1>1 DEF d
<1> HIDE DEF b, p, c, h, s, u, es
<1>10. c = b[p]
    BY DEF c
<1>11. c = "quo" => (es = NONE \/ p - es > 1 <=> ~h.e)
  <2> SUFFICES ASSUME c = "quo" PROVE es = NONE \/ p - es > 1 <=> ~h.e
      OBVIOUS
  <2>1. l.esc # p \/ l.esc = NONE
      BY <1>4, <1>10
  <2>2. es \in {NONE, p - 1} /\ (es = p - 1 /\ es # NONE <=> p > 1 /\ b[p - 1] = "bs")
    <3>1. CASE l.esc = NONE
        BY <3>1, <1>1, <1>5 DEF NONE
    <3>2. CASE l.esc # NONE
        BY <3>2, <2>1, <1>1, <1>4, <1>5 DEF NONE
    <3> QED
        BY <3>1, <3>2
  <2>3. p > 1 /\ b[p - 1] = "bs" <=> h.e
      BY <1>4, <1>7, <1>8, <1>9, <1>6
  <2>4. es # NONE => p - es = 1
      BY <2>2, <1>1
  <2> QED
      BY <2>2, <2>3, <2>4, <1>1
<1>12. u.quoted = h.q
    BY <1>3, <1>4, <1>6, <1>7, <1>11
<1>13. es # NONE => es \in {(p - 1) - 1, p - 1} /\ es >= 1 /\ b[es] = "bs"
    BY <1>1, <1>4, <1>5 DEF NONE
<1> QED
    BY <1>3, <1>4, <1>12, <1>13 DEF Weak, Slash, b, p, h, c, u

\* The escape is right again where nothing is escaped and no symbol waits for harm.
LEMMA WeakScan ==
  ASSUME NEW l \in Lines, Weak(l), ~Ref(l.buf, l.ri).e, ~Ref(l.buf, l.ri).com,
         Ref(l.buf, l.ri).in => l.ri < Len(l.buf) /\ l.buf[l.ri + 1] \notin {"quo", "bs", ";"}
  PROVE  Scan(l)
<1> DEFINE b == l.buf
           p == l.ri
           s == Ref(b, p)
<1>1. /\ b \in Seq(Chars) /\ Len(b) \in Nat /\ p \in Nat /\ p <= Len(b) /\ p \in 0..Len(b)
      /\ l.esc \in Nat /\ l.ignore \in BOOLEAN
    BY LinesFacts
<1>2. s \in SaysType
    BY <1>1, RefFacts
<1>3. ASSUME l.esc # NONE, l.esc = p PROVE s.in
  <2>5. p >= 1 /\ b[p] = "bs"
      BY <1>3 DEF Weak, Slash
  <2>1. p \in 1..Len(b) /\ b[p] = "bs" /\ p - 1 \in 0..(Len(b) - 1) /\ (p - 1) + 1 = p
    <3>1. l.ri >= 1
        BY <2>5
    <3> QED
        BY <2>5, <3>1, LinesFacts
  <2> DEFINE h == Ref(b, p - 1)
  <2>2. h \in SaysType /\ Sane(h) /\ s = Says1(h, "bs") /\ "bs" \in Chars
      BY <2>1, <1>1, RefNext
  <2>3. ~s.com
      OBVIOUS
  <2> HIDE DEF h, s
  <2>4. ~h.com
      BY <2>2, <2>3, SaysStep
  <2> QED
      BY <2>2, <2>4, SaysStep
<1>4. s.com \in BOOLEAN
    BY <1>2, SaysFields
<1> QED
    BY <1>1, <1>3, <1>4 DEF Scan, Weak

\* A token is put back, step by step.
BackOf(l, s, h) == /\ h \in [0..Len(s) -> Lines] /\ h[0] = l
                   /\ \A i \in 1..Len(s) : h[i] = Unget(h[i - 1], s[Len(s) + 1 - i])

\* Putting a token back, as a sequence of steps.
LEMMA BackRun ==
  ASSUME NEW l \in Lines, NEW s \in Seq(Chars)
  PROVE  \E h : BackOf(l, s, h) /\ UngetAll(l, s) = h[Len(s)]
<1> DEFINE n == Len(s)
           F == [i \in 1..n |-> [u \in Lines |-> Unget(u, s[n + 1 - i])]]
           Eq(h) == h = [i \in 0..n |-> IF i = 0 THEN l ELSE Unget(h[i - 1], s[n + 1 - i])]
           back == CHOOSE h : Eq(h)
<1>1. n \in Nat /\ \A i \in 1..n : n + 1 - i \in 1..n /\ s[n + 1 - i] \in Chars
  <2>1. n \in Nat /\ \A i \in 1..n : s[i] \in Chars
      BY LenProperties, ElementOfSeq
  <2> HIDE DEF n
  <2>2. \A i \in 1..n : n + 1 - i \in 1..n
      BY <2>1
  <2> QED
      BY <2>1, <2>2
<1>2. F \in [1..n -> [Lines -> Lines]]
  <2>1. ASSUME NEW i \in 1..n, NEW u \in Lines PROVE Unget(u, s[n + 1 - i]) \in Lines
    <3>1. s[n + 1 - i] \in Chars
        BY <1>1
    <3> HIDE DEF n
    <3> QED
        BY <3>1, UngetType
  <2> QED
      BY <2>1
<1> HIDE DEF F, n
<1>3. n \in Nat
    BY <1>1
<1>4. \E h \in [0..n -> Lines] : h[0] = l /\ \A i \in 1..n : h[i] = F[i][h[i - 1]]
    BY <1>2, <1>3, Iterates, SMTT(40)
<1>5. PICK h \in [0..n -> Lines] : h[0] = l /\ \A i \in 1..n : h[i] = F[i][h[i - 1]]
    BY <1>4
<1>6. \A i \in 1..n : h[i] = Unget(h[i - 1], s[n + 1 - i])
  <2> TAKE i \in 1..n
  <2>1. i - 1 \in 0..n
      BY <1>1
  <2>2. h[i - 1] \in Lines
      BY <2>1, <1>5
  <2> QED
      BY <2>2, <1>5 DEF F
<1>7. Eq(h)
  <2>1. \A i \in 0..n : i = 0 \/ i \in 1..n
      BY <1>1
  <2>2. \A i \in 0..n : h[i] = IF i = 0 THEN l ELSE Unget(h[i - 1], s[n + 1 - i])
      BY <2>1, <1>5, <1>6
  <2> QED
      BY <2>2, <1>5
<1>8. Eq(back)
  <2> HIDE DEF Eq
  <2> QED
      BY <1>7, Zenon
<1>9. /\ back[0] = l
      /\ \A i \in 1..n : back[i] = Unget(back[i - 1], s[n + 1 - i])
  <2> HIDE DEF back
  <2>1. 0 \in 0..n /\ \A i \in 1..n : i \in 0..n /\ i # 0
      BY <1>1
  <2> QED
      BY <1>8, <2>1
<1>10. UngetAll(l, s) = back[n]
    BY DEF UngetAll, n
<1> HIDE DEF back
<1>11. \A i \in 0..n : back[i] = h[i]
  <2> DEFINE Bad == {i \in 0..n : back[i] # h[i]}
  <2>1. SUFFICES ASSUME Bad # {} PROVE FALSE
      OBVIOUS
  <2>2. PICK m \in Bad : \A k \in Bad : m <= k
    <3>1. Bad \subseteq Nat
        BY <1>1
    <3> HIDE DEF Bad
    <3> QED
        BY <2>1, <3>1, LeastOf
  <2>3. m \in 0..n /\ m # 0 /\ back[m] # h[m]
      BY <1>5, <1>9
  <2>4. m \in 1..n /\ m - 1 \in 0..n
      BY <2>3, <1>1
  <2>5. m - 1 \notin Bad
    <3> HIDE DEF Bad
    <3> QED
        BY <2>2, <2>4
  <2>6. back[m - 1] = h[m - 1]
      BY <2>4, <2>5
  <2> QED
      BY <2>3, <2>4, <2>6, <1>6, <1>9
<1>12. n \in 0..n
    BY <1>1
<1>13. BackOf(l, s, h)
    BY <1>5, <1>6 DEF BackOf, n
<1> QED
    BY <1>10, <1>11, <1>12, <1>13 DEF n

\* A token that was read before lbri.
LEMMA UngetAllType ==
  ASSUME NEW l \in Lines, NEW s \in Seq(Chars), Len(s) <= l.ri
  PROVE  /\ UngetAll(l, s) \in Lines /\ UngetAll(l, s).ri = l.ri - Len(s)
         /\ Len(UngetAll(l, s).buf) = Len(l.buf) /\ UngetAll(l, s).notblank = l.notblank
<1> DEFINE n == Len(s)
           Good(i, u) == /\ u.ri = l.ri - i /\ Len(u.buf) = Len(l.buf) /\ u.notblank = l.notblank
<1>1. PICK h : BackOf(l, s, h) /\ UngetAll(l, s) = h[n]
    BY BackRun
<1>2. n \in Nat /\ l.ri \in Nat /\ n <= l.ri
    BY LenProperties, LinesFacts
<1>3. \A i \in 0..n : Good(i, h[i])
  <2> DEFINE Bad == {i \in 0..n : ~Good(i, h[i])}
  <2>1. SUFFICES ASSUME Bad # {} PROVE FALSE
      OBVIOUS
  <2>2. PICK m \in Bad : \A k \in Bad : m <= k
    <3>1. Bad \subseteq Nat
        BY <1>2
    <3> HIDE DEF Bad
    <3> QED
        BY <2>1, <3>1, LeastOf
  <2>3. m \in 0..n /\ ~Good(m, h[m])
      OBVIOUS
  <2>4. m # 0
    <3>1. h[0] = l
        BY <1>1 DEF BackOf
    <3> QED
        BY <2>3, <3>1, <1>2
  <2>5. m \in 1..n /\ m - 1 \in 0..n /\ n + 1 - m \in 1..n
      BY <2>3, <2>4, <1>2
  <2>6. m - 1 \notin Bad
    <3> HIDE DEF Bad
    <3> QED
        BY <2>2, <2>5
  <2>7. Good(m - 1, h[m - 1])
      BY <2>5, <2>6
  <2>8. h[m - 1] \in Lines /\ h[m] = Unget(h[m - 1], s[n + 1 - m]) /\ s[n + 1 - m] \in Chars
      BY <2>5, <1>1, ElementOfSeq DEF BackOf
  <2> DEFINE u == h[m - 1]
             w == h[m]
             c == s[n + 1 - m]
  <2>9. u.ri # 0
      BY <2>5, <2>7, <1>2
  <2>10. u \in Lines /\ w = Unget(u, c) /\ c \in Chars
      BY <2>8
  <2> HIDE DEF u, w, c
  <2>11. w.ri = u.ri - 1 /\ Len(w.buf) = Len(u.buf) /\ w.notblank = u.notblank
      BY <2>9, <2>10, UngetType
  <2> QED
      BY <2>3, <2>5, <2>7, <2>11, <1>2 DEF u, w
<1>4. n \in 0..n
    BY <1>2
<1>5. h[n] \in Lines
    BY <1>1, <1>4 DEF BackOf
<1> QED
    BY <1>1, <1>3, <1>4, <1>5

\* Putting it back changes nothing that matters.
LEMMA UngetAllWeak ==
  ASSUME NEW l \in Lines, NEW s \in Seq(Chars), Len(s) <= l.ri, Weak(l),
         \A i \in 1..Len(s) : s[i] = l.buf[l.ri - Len(s) + i],
         \A k \in (l.ri - Len(s))..l.ri : ~Ref(l.buf, k).com /\ "trap" \notin Ref(l.buf, k).odd
  PROVE  /\ UngetAll(l, s) \in Lines /\ UngetAll(l, s).ri = l.ri - Len(s)
         /\ UngetAll(l, s).buf = l.buf /\ UngetAll(l, s).notblank = l.notblank
         /\ Weak(UngetAll(l, s))
<1> DEFINE n == Len(s)
           Good(i, u) == /\ u.ri = l.ri - i /\ u.buf = l.buf /\ u.notblank = l.notblank /\ Weak(u)
<1>1. PICK h : BackOf(l, s, h) /\ UngetAll(l, s) = h[n]
    BY BackRun
<1>2. n \in Nat /\ l.ri \in Nat /\ n <= l.ri
    BY LenProperties, LinesFacts
<1>3. \A i \in 0..n : Good(i, h[i])
  <2> DEFINE Bad == {i \in 0..n : ~Good(i, h[i])}
  <2>1. SUFFICES ASSUME Bad # {} PROVE FALSE
      OBVIOUS
  <2>2. PICK m \in Bad : \A k \in Bad : m <= k
    <3>1. Bad \subseteq Nat
        BY <1>2
    <3> HIDE DEF Bad
    <3> QED
        BY <2>1, <3>1, LeastOf
  <2>3. m \in 0..n /\ ~Good(m, h[m])
      OBVIOUS
  <2>4. m # 0
    <3>1. h[0] = l
        BY <1>1 DEF BackOf
    <3> QED
        BY <2>3, <3>1, <1>2
  <2>5. m \in 1..n /\ m - 1 \in 0..n /\ n + 1 - m \in 1..n
      BY <2>3, <2>4, <1>2
  <2>6. m - 1 \notin Bad
    <3> HIDE DEF Bad
    <3> QED
        BY <2>2, <2>5
  <2>7. Good(m - 1, h[m - 1])
      BY <2>5, <2>6
  <2>8. h[m - 1] \in Lines /\ h[m] = Unget(h[m - 1], s[n + 1 - m])
      BY <2>5, <1>1 DEF BackOf
  <2> DEFINE u == h[m - 1]
             w == h[m]
             k == l.ri - (m - 1)
  <2>9. k # 0 /\ k \in Nat /\ l.ri - n + (n + 1 - m) = k /\ k - 1 = l.ri - m
        /\ k \in (l.ri - n)..l.ri /\ k - 1 \in (l.ri - n)..l.ri
      BY <2>5, <1>2
  <2>10. s[n + 1 - m] = l.buf[k]
      BY <2>5, <2>9
  <2> HIDE DEF k
  <2>11. u \in Lines /\ w = Unget(u, u.buf[u.ri]) /\ Weak(u) /\ u.ri # 0 /\ u.ri = k /\ u.buf = l.buf
      BY <2>7, <2>8, <2>9, <2>10 DEF k
  <2>12. "trap" \notin Ref(u.buf, u.ri).odd /\ ~Ref(u.buf, u.ri - 1).com /\ ~Ref(u.buf, u.ri).com
      BY <2>9, <2>11
  <2>13. u.notblank = l.notblank
      BY <2>7
  <2> HIDE DEF u, w
  <2>14. /\ Unget(u, u.buf[u.ri]) \in Lines /\ Weak(Unget(u, u.buf[u.ri]))
         /\ Unget(u, u.buf[u.ri]).buf = u.buf /\ Unget(u, u.buf[u.ri]).ri = u.ri - 1
         /\ Unget(u, u.buf[u.ri]).notblank = u.notblank
      BY <2>11, <2>12, UngetWeak
  <2> QED
      BY <2>3, <2>9, <2>11, <2>13, <2>14 DEF w
<1>4. n \in 0..n
    BY <1>2
<1>5. h[n] \in Lines
    BY <1>1, <1>4 DEF BackOf
<1> QED
    BY <1>1, <1>3, <1>4, <1>5

-----------------------------------------------------------------------------
(* The invariant of the parser: what it has agrees with what the text says  *)
(* before lbri.                                                            *)

\* What the text says if a symbol ends here ...
Ending(b, p) == EndSymbol(Ref(b, p), p < Len(b) /\ IsSpace(b[p + 1]))
\* ... and nothing came after a dot.
Ended(b, p) == IF p < Len(b) /\ b[p + 1] \in Closers /\ ~Ref(b, p).com
               THEN Missing(Ending(b, p)) ELSE Ending(b, p)

\* No symbol goes on.
Free(b, p) == LET s == Ref(b, p) IN
              /\ ~s.q /\ ~s.e
              /\ s.in => ~s.com /\ p < Len(b) /\ IsTokSep(b[p + 1])

\* The next character was looked at, and is neither white space nor a comment.
Peeked(b, p) == p < Len(b) /\ ~Ref(b, p).com /\ b[p + 1] # ";" /\ ~IsSpace(b[p + 1])

Top(s, x) == s # <<>> /\ Last(s) = x

\* After an element of a list, where there may be a dot.
After(k, g)  == Top(k, "(") /\ ~Top(g, Mark("("))
NotDot(b, p) == b[p + 1] = "." => p + 2 <= Len(b) /\ ~IsSpace(b[p + 2])

\* Where an expression is expected.
Expects(b, p, k, g) ==
  /\ k = <<>> => g = <<>>
  /\ k # <<>> /\ Last(k) # "." => Peeked(b, p) /\ b[p + 1] \notin Closers
  /\ After(k, g) => NotDot(b, p)
  /\ Top(k, ".") => Top(g, Mark("."))
Pre(b, p, k, g) == /\ Free(b, p) /\ Ending(b, p).toks = g /\ Ending(b, p).open = k
                   /\ Expects(b, p, k, g)
\* A symbol begins.
Starts(b, p) == Peeked(b, p) /\ b[p + 1] \notin {"'", "[", "("}

\* Where an expression is complete.
Ends(g)         == g # <<>> /\ Last(g) \notin {Mark("("), Mark("["), Mark(".")}
Is(b, p, k, g)  == Free(b, p) /\ Ended(b, p).toks = g /\ Ended(b, p).open = k
\* An end without a beginning follows, which is an error.
Doomed(b, p, k) == k = <<>> /\ Free(b, p) /\ Peeked(b, p) /\ b[p + 1] \in Closers

\* readn(), with the token t
InToken(b, p, k, g, t) ==
  LET st == p - Len(t) IN
  /\ st >= 0 /\ Pre(b, st, k, g) /\ ~Ref(b, st).in /\ Starts(b, st)
  /\ t = SubSeq(b, st + 1, p) /\ \A i \in DOMAIN t : ~IsTokSep(t[i])
  /\ t # <<>> => Ref(b, p).glue
  /\ \A i \in st..p : ~Ref(b, i).com
\* reads(), with the symbol t, in quotes when x, after a backslash when y
InSymbol(b, p, k, g, t, x, y) ==
  LET s == Ref(b, p) IN
  /\ s.toks = g /\ s.open = k /\ s.cur = t /\ s.q = x /\ s.e = y /\ ~s.com
  /\ ~s.in => Starts(b, p) /\ Expects(b, p, k, g)
  /\ k = <<>> => g = <<>>
  /\ After(k, g) /\ s.in /\ s.lit /\ t = <<".">> => p < Len(b) /\ ~IsSpace(b[p + 1])
\* readp(), at the next element, and after a dot
InElem(b, p, k, g) == /\ Is(b, p, k, g) /\ k # <<>> /\ Last(k) \in {"(", "["}
                      /\ g # <<>> /\ Last(g) # Mark(".")
                      /\ After(k, g) => Peeked(b, p) /\ NotDot(b, p)
InDot2(b, p, k, g) ==
  LET s == Ref(b, p)  r == Ref(b, p - 1) IN
  /\ p >= 1 /\ b[p] = "." /\ Top(k, "(") /\ Ends(g)
  /\ s.in /\ s.cur = <<".">> /\ s.lit /\ ~s.q /\ ~s.e /\ ~s.com /\ s.toks = g /\ s.open = k
  /\ ~r.in /\ ~r.q /\ ~r.e /\ ~r.com /\ r.toks = g /\ r.open = k

\* The parser at a, in the lists and quotes k, with the tokens g and the symbol t.
Parser(b, p, a, k, g, t, x, y) ==
  /\ a \notin {"token", "symbol"} => t = <<>>
  /\ a # "symbol" => ~x /\ ~y
  /\ a = "skip" => Pre(b, p, k, g)
  /\ a = "macro" => Pre(b, p, k, g) /\ Peeked(b, p)
  /\ a = "macro2" => /\ Free(b, p) /\ ~Ref(b, p).in /\ p >= 1
                     /\ Ref(b, p).toks = g \o <<Mark("("), Sym(<<"quote">>)>>
                     /\ Ref(b, p).open = Append(k, "'")
  /\ a = "vector" => Pre(b, p, k, g) /\ Peeked(b, p) /\ b[p + 1] # "'"
  /\ a = "pair" => Pre(b, p, k, g) /\ Peeked(b, p) /\ b[p + 1] \notin {"'", "["}
  /\ a = "token" => InToken(b, p, k, g, t)
  /\ a = "symbol" => InSymbol(b, p, k, g, t, x, y)
  /\ a = "elem" => InElem(b, p, k, g)
  /\ a = "dot" => Is(b, p, k, g) /\ Ends(g) /\ Top(k, "(")
  /\ a = "dot2" => InDot2(b, p, k, g)
  /\ a = "close" => Is(b, p, k, g) /\ Ends(g) /\ Top(k, ".")
  /\ a = "return" => /\ Ends(g)
                     /\ \/ Doomed(b, p, k)
                        \/ Is(b, p, SubSeq(k, 1, Outside(k)), Quoted(k, g))
  /\ a = "extra" => Ends(g) /\ k = <<>> /\ (Doomed(b, p, k) \/ Is(b, p, k, g))
  /\ a = "done" => g = Says(b).toks

\* A dot is in a list.
Nested(k) == \A i \in DOMAIN k : k[i] = "." => i > 1 /\ k[i - 1] = "("

\* The kinds of characters.
LEMMA Kinds ==
  /\ \A c : IsSpace(c) \in BOOLEAN /\ IsTokSep(c) \in BOOLEAN
  /\ \A c : IsSpace(c) => c \in {" ", "nl"} /\ IsTokSep(c) /\ c \notin Closers
  /\ \A c : IsTokSep(c) => c \notin {"bs", "quo", ";", "'", "."}
  /\ \A c : IsTokSep(c) /\ ~IsSpace(c) => c \in {"eot", "(", "["} \cup Closers
  /\ \A c \in Closers : IsTokSep(c) /\ ~IsSpace(c) /\ c \in {")", "]"} /\ c # "."
  /\ ~IsSpace("(") /\ ~IsSpace("[") /\ ~IsSpace(".") /\ ~IsSpace("'")
<1>1. \A c : IsSpace(c) \in BOOLEAN /\ (IsSpace(c) <=> c \in {" ", "nl"})
    BY DEF IsSpace
<1>2. \A c : IsTokSep(c) \in BOOLEAN /\ (IsTokSep(c) <=> IsSpace(c) \/ c \in {"eot", "(", ")", "[", "]"})
    BY DEF IsTokSep
<1>3. \A c : IsSpace(c) => IsTokSep(c) /\ c \notin Closers
    BY <1>1, <1>2 DEF Closers
<1>4. \A c : IsTokSep(c) => c \notin {"bs", "quo", ";", "'", "."}
    BY <1>1, <1>2
<1>5. \A c : IsTokSep(c) /\ ~IsSpace(c) => c \in {"eot", "(", "["} \cup Closers
    BY <1>1, <1>2 DEF Closers
<1>6. \A c \in Closers : IsTokSep(c) /\ ~IsSpace(c) /\ c \in {")", "]"} /\ c # "."
    BY <1>1, <1>2 DEF Closers
<1>7. ~IsSpace("(") /\ ~IsSpace("[") /\ ~IsSpace(".") /\ ~IsSpace("'")
    BY <1>1
<1> QED
    BY <1>1, <1>2, <1>3, <1>4, <1>5, <1>6, <1>7

\* The next character c of a line, when mygetc() has returned it.
Here(b, p, c, l) ==
  /\ b \in Seq(Chars) /\ Len(b) \in Nat /\ p \in Nat /\ p < Len(b) /\ c = b[p + 1] /\ c \in Chars
  /\ p \in 0..Len(b) /\ p + 1 \in 0..Len(b) /\ p + 1 \in 1..Len(b)
  /\ Says(b).odd = {}
  /\ Ref(b, p) \in SaysType /\ Sane(Ref(b, p))
  /\ Ref(b, p + 1) \in SaysType /\ Sane(Ref(b, p + 1)) /\ ~Ref(b, p + 1).com
  /\ Ref(b, p + 1) = Says1(Ref(b, p), c)
  /\ l \in Lines /\ l.buf = b /\ l.ri = p + 1 /\ Scan(l)
  /\ c = "eot" => Ref(b, p).q \/ Ref(b, p).e \/ Ref(b, p).com

\* After mygetc() the character is here.
LEMMA HereIs ==
  ASSUME NEW b \in Seq(Chars), NEW p \in 0..(Len(b) - 1), NEW c, c = b[p + 1], Says(b).odd = {},
         NEW l \in Lines, l.buf = b, l.ri = p + 1, Scan(l), ~Ref(b, p + 1).com,
         c = "eot" => Ref(b, p).q \/ Ref(b, p).e \/ Ref(b, p).com
  PROVE  Here(b, p, c, l)
<1>1. Len(b) \in Nat
    BY LenProperties
<1> QED
    BY <1>1, RefNext DEF Here

\* What a comment goes on to.
LEMMA CommentGoes ==
  ASSUME NEW s \in SaysType, NEW c \in Chars, Sane(s), s.com
  PROVE  Says1(s, c).com = (c # "nl")
    BY SaysStep

\* It is no comment.
LEMMA NoComment ==
  ASSUME NEW b, NEW p, NEW c, NEW l, Here(b, p, c, l), ~IsSpace(c)
  PROVE  ~Ref(b, p).com
<1>1. c # "nl"
    BY DEF IsSpace
<1>2. Ref(b, p).com => Says1(Ref(b, p), c).com = (c # "nl")
    BY CommentGoes DEF Here
<1> QED
    BY <1>1, <1>2 DEF Here

\* A character that is no space, between symbols, is what comes next.
LEMMA PeekedHere ==
  ASSUME NEW b, NEW p, NEW c, NEW l, Here(b, p, c, l), ~IsSpace(c), Free(b, p)
  PROVE  Peeked(b, p) /\ Bare(Ref(b, p))
<1>1. ~Ref(b, p).com
    BY NoComment
<1>2. Bare(Ref(b, p))
    BY <1>1 DEF Free, Bare
<1>3. Says1(Ref(b, p), ";").com
    BY <1>2, CommentSays DEF Here
<1>4. c # ";"
    BY <1>3 DEF Here
<1> QED
    BY <1>1, <1>2, <1>4 DEF Peeked, Here

\* It is put back.
LEMMA PutBack ==
  ASSUME NEW b, NEW p, NEW c, NEW l, Here(b, p, c, l), Free(b, p), ~Ref(b, p).com
  PROVE  /\ Unget(l, c) \in Lines /\ Scan(Unget(l, c)) /\ Unget(l, c).buf = b /\ Unget(l, c).ri = p
         /\ Unget(l, c).notblank = l.notblank
<1> DEFINE u == Unget(l, c)
<1>1. Ref(b, p + 1).odd = {}
    BY RefOdd DEF Here
<1>2. ~l.ignore
    BY DEF Here, Scan
<1>3. Weak(l)
    BY <1>2, ScanWeak DEF Here
<1>4. (p + 1) - 1 = p /\ p + 1 # 0
    BY DEF Here
<1>5. u \in Lines /\ Weak(u) /\ u.buf = b /\ u.ri = p /\ u.notblank = l.notblank
    BY <1>1, <1>3, <1>4, UngetWeak DEF Here
<1> HIDE DEF u
<1>6. Ref(b, p).in => p < Len(b) /\ b[p + 1] \notin {"quo", "bs", ";"}
    BY Kinds DEF Free
<1>7. ~Ref(b, p).e
    BY DEF Free
<1>8. Scan(u)
    BY <1>5, <1>6, <1>7, WeakScan
<1> QED
    BY <1>5, <1>8 DEF u

\* Where no symbol goes on, nothing ends.
LEMMA EndingOut ==
  ASSUME NEW b \in Seq(Chars), NEW p \in 0..Len(b)
  PROVE  /\ Ending(b, p) \in SaysType /\ ~Ending(b, p).in
         /\ ~Ref(b, p).in => Ending(b, p) = Ref(b, p)
<1>1. Ref(b, p) \in SaysType
    BY RefFacts
<1>2. (p < Len(b) /\ IsSpace(b[p + 1])) \in BOOLEAN
    OBVIOUS
<1> QED
    BY <1>1, <1>2, EndSymbolFacts DEF Ending

\* Where the next character ends no list, or the last one is no dot.
LEMMA IsFrom ==
  ASSUME NEW b \in Seq(Chars), NEW p \in 0..Len(b), NEW k, NEW g,
         Free(b, p), Ending(b, p).toks = g, Ending(b, p).open = k, g = <<>> \/ Last(g) # Mark(".")
  PROVE  Is(b, p, k, g)
<1>1. Ending(b, p) \in SaysType
    BY EndingOut
<1>2. Missing(Ending(b, p)) = Ending(b, p)
    BY <1>1, MissingFacts
<1> QED
    BY <1>2 DEF Is, Ended

\* Where no list is ended, all that is read is what comes before the character.
LEMMA IsTo ==
  ASSUME NEW b, NEW p, NEW k, NEW g, Is(b, p, k, g), p < Len(b) => b[p + 1] \notin Closers \/ Ref(b, p).com
  PROVE  Free(b, p) /\ Ending(b, p).toks = g /\ Ending(b, p).open = k
    BY DEF Is, Ended

\* Between symbols.
LEMMA Between ==
  ASSUME NEW b \in Seq(Chars), NEW p \in 0..Len(b), ~Ref(b, p).in
  PROVE  Free(b, p) /\ Ending(b, p) = Ref(b, p)
<1>1. Sane(Ref(b, p))
    BY RefFacts
<1> QED
    BY <1>1, EndingOut DEF Sane, Free

\* White space.
LEMMA SpaceStep ==
  ASSUME NEW b, NEW p, NEW c, NEW l, Here(b, p, c, l), IsSpace(c), Free(b, p)
  PROVE  /\ ~Ref(b, p + 1).in
         /\ Free(b, p + 1)
         /\ Ending(b, p + 1).toks = Ending(b, p).toks /\ Ending(b, p + 1).open = Ending(b, p).open
<1>1. CASE Ref(b, p).com
  <2>1. c = "nl" /\ ~Ref(b, p).in
    <3>1. Says1(Ref(b, p), c).com = (c # "nl")
        BY <1>1, CommentGoes DEF Here
    <3> QED
        BY <1>1, <3>1 DEF Free, Here
  <2>2. /\ ~Ref(b, p + 1).in /\ Ref(b, p + 1).toks = Ref(b, p).toks /\ Ref(b, p + 1).open = Ref(b, p).open
      BY <1>1, <2>1, InCommentSays DEF Here
  <2> QED
      BY <2>1, <2>2, Between DEF Here
<1>2. CASE ~Ref(b, p).com
  <2>1. Bare(Ref(b, p))
      BY <1>2 DEF Free, Bare
  <2>2. /\ Fresh(Ref(b, p), Ref(b, p + 1))
        /\ Ref(b, p + 1).toks = EndSymbol(Ref(b, p), TRUE).toks
        /\ Ref(b, p + 1).open = EndSymbol(Ref(b, p), TRUE).open
      BY ZenonT(30), <2>1, SpaceSays DEF Here
  <2>3. ~Ref(b, p + 1).in
      BY <2>2 DEF Fresh
  <2>4. Ending(b, p) = EndSymbol(Ref(b, p), TRUE)
    <3>1. (p < Len(b) /\ IsSpace(b[p + 1])) = TRUE
        BY DEF Here
    <3> QED
        BY <3>1 DEF Ending
  <2> QED
      BY <2>2, <2>3, <2>4, Between DEF Here
<1> QED
    BY <1>1, <1>2

\* ... where an expression is complete.
LEMMA SpaceIs ==
  ASSUME NEW b, NEW p, NEW c, NEW l, Here(b, p, c, l), IsSpace(c), NEW k, NEW g, Is(b, p, k, g),
         g = <<>> \/ Last(g) # Mark(".")
  PROVE  Is(b, p + 1, k, g)
<1>1. b[p + 1] \notin Closers
    BY Kinds DEF Here
<1>2. Free(b, p) /\ Ending(b, p).toks = g /\ Ending(b, p).open = k
    BY <1>1, IsTo
<1> QED
    BY <1>2, SpaceStep, IsFrom DEF Here

\* A list or a vector begins.
LEMMA OpenStep ==
  ASSUME NEW b, NEW p, NEW c, NEW l, Here(b, p, c, l), c \in {"(", "["}, Free(b, p)
  PROVE  /\ Ref(b, p + 1).toks = Append(Ending(b, p).toks, Mark(c))
         /\ Ref(b, p + 1).open = Append(Ending(b, p).open, c)
         /\ Is(b, p + 1, Ref(b, p + 1).open, Ref(b, p + 1).toks)
<1>1. ~IsSpace(c)
    BY Kinds
<1>2. Bare(Ref(b, p))
    BY <1>1, PeekedHere
<1>3. /\ Fresh(Ref(b, p), Ref(b, p + 1))
      /\ Ref(b, p + 1).toks = Append(EndSymbol(Ref(b, p), FALSE).toks, Mark(c))
      /\ Ref(b, p + 1).open = Append(EndSymbol(Ref(b, p), FALSE).open, c)
  <2> DEFINE s == Ref(b, p)
  <2>1. s \in SaysType /\ Sane(s) /\ Bare(s) /\ Ref(b, p + 1) = Says1(s, c)
      BY <1>2 DEF Here
  <2> HIDE DEF s
  <2>2. /\ Fresh(s, Says1(s, c))
        /\ Says1(s, c).toks = Append(EndSymbol(s, FALSE).toks, Mark(c))
        /\ Says1(s, c).open = Append(EndSymbol(s, FALSE).open, c)
      BY <2>1, OpenSays
  <2> QED
      BY <2>1, <2>2 DEF s
<1>4. Ending(b, p) = EndSymbol(Ref(b, p), FALSE)
  <2>1. (p < Len(b) /\ IsSpace(b[p + 1])) = FALSE
      BY <1>1 DEF Here
  <2> QED
      BY <2>1 DEF Ending
<1>5. ~Ref(b, p + 1).in
    BY <1>3 DEF Fresh
<1>6. Last(Ref(b, p + 1).toks) = Mark(c) /\ Mark(c) # Mark(".")
  <2>1. Ending(b, p).toks \in Seq(Toks) /\ Mark(c) \in Toks
      BY EndingOut, SaysFields, MarkKinds DEF Here
  <2> DEFINE g == Ending(b, p).toks
  <2>2. g \in Seq(Toks) /\ Ref(b, p + 1).toks = Append(g, Mark(c))
      BY <1>3, <1>4, <2>1
  <2> HIDE DEF g
  <2>3. Last(Append(g, Mark(c))) = Mark(c)
      BY <2>1, <2>2, AppendFacts
  <2> QED
      BY <2>2, <2>3, MarkKinds
<1> QED
    BY <1>3, <1>4, <1>5, <1>6, Between, IsFrom DEF Here

\* A list or a vector ends.
LEMMA CloseStep ==
  ASSUME NEW b, NEW p, NEW c, NEW l, Here(b, p, c, l), c \in Closers,
         NEW k \in Seq(Openers), NEW g \in Seq(Toks), Is(b, p, k, g), k # <<>>,
         NEW j \in Seq(Openers), j = SubSeq(k, 1, Len(k) - (IF Last(k) = "." THEN 2 ELSE 1))
  PROVE  Is(b, p + 1, SubSeq(j, 1, Outside(j)), Quoted(j, Append(g, Mark(c))))
<1> DEFINE s == Ref(b, p)
           u == Ending(b, p)
           g1 == Append(g, Mark(c))
<1>1. ~IsSpace(c) /\ c \in {")", "]"}
    BY Kinds
<1>2. Free(b, p)
    BY DEF Is
<1>3. Bare(s)
    BY <1>1, <1>2, PeekedHere
<1>4. PICK t \in SaysType : /\ t.toks = EndSymbol(s, FALSE).toks /\ t.open = EndSymbol(s, FALSE).open
                            /\ Says1(s, c) = EndList(Missing(t), c)
                            /\ Fresh(s, Says1(s, c))
    BY <1>1, <1>3, CloseSays DEF Here
<1>5. Ending(b, p) = EndSymbol(s, FALSE)
  <2>1. (p < Len(b) /\ IsSpace(b[p + 1])) = FALSE
      BY <1>1 DEF Here
  <2> QED
      BY <2>1 DEF Ending
<1>6. u \in SaysType
    BY EndingOut DEF Here
<1>7. Missing(u).toks = g /\ Missing(u).open = k
    BY <1>1, <1>3 DEF Is, Ended, Bare, Here
<1>8. t.toks = u.toks /\ t.open = u.open
    BY <1>4, <1>5
<1> HIDE DEF u, s
<1>9. Missing(t).toks = g /\ Missing(t).open = k /\ Missing(t) \in SaysType
  <2>1. CASE t.toks = <<>> \/ Last(t.toks) # Mark(".")
      BY <1>4, <1>6, <1>7, <1>8, <2>1, MissingFacts
  <2>2. CASE t.toks # <<>> /\ Last(t.toks) = Mark(".")
    <3>1. /\ Missing(t) \in SaysType
          /\ Missing(t).toks = Quoted(t.open, Append(t.toks, Sym(<<>>)))
          /\ Missing(t).open = SubSeq(t.open, 1, Outside(t.open))
        BY <2>2, MissingFacts
    <3>2. /\ Missing(u).toks = Quoted(u.open, Append(u.toks, Sym(<<>>)))
          /\ Missing(u).open = SubSeq(u.open, 1, Outside(u.open))
        BY <1>6, <1>8, <2>2, MissingFacts
    <3> QED
        BY <1>7, <1>8, <3>1, <3>2
  <2> QED
      BY <2>1, <2>2
<1>10. Ref(b, p + 1) = EndList(Missing(t), c)
    BY <1>4 DEF s, Here
<1>11. Ref(b, p + 1).toks = Quoted(j, g1) /\ Ref(b, p + 1).open = SubSeq(j, 1, Outside(j))
  <2> DEFINE m == Missing(t)
  <2>1. m \in SaysType /\ m.toks = g /\ m.open = k /\ m.open # <<>>
      BY <1>9
  <2> HIDE DEF m
  <2>2. PICK i \in Seq(Openers) :
          /\ i = SubSeq(m.open, 1, Len(m.open) - (IF Last(m.open) = "." THEN 2 ELSE 1))
          /\ EndList(m, c).toks = Quoted(i, Append(m.toks, Mark(c)))
          /\ EndList(m, c).open = SubSeq(i, 1, Outside(i))
      BY <1>1, <2>1, EndListFacts
  <2>3. i = j
      BY <2>1, <2>2
  <2> QED
      BY <1>10, <2>1, <2>2, <2>3 DEF m
<1>12. ~Ref(b, p + 1).in
    BY <1>4 DEF Fresh, s, Here
<1>13. Mark(c) \in Toks /\ Mark(c) # Mark(".")
    BY <1>1, MarkKinds
<1>14. g1 \in Seq(Toks) /\ g1 # <<>> /\ Last(g1) = Mark(c)
    BY <1>13, AppendFacts
<1> HIDE DEF g1
<1>15. Last(Quoted(j, g1)) # Mark(".")
    BY <1>13, <1>14, QuotedFacts, MarkKinds
<1>16. Ending(b, p + 1) = Ref(b, p + 1) /\ Free(b, p + 1)
    BY <1>12, Between DEF Here
<1> QED
    BY <1>11, <1>15, <1>16, IsFrom DEF g1, Here

\* A symbol ends.
LEMMA SymbolEnds ==
  ASSUME NEW b \in Seq(Chars), NEW p \in 0..Len(b), Ref(b, p).in, Free(b, p),
         NEW space \in BOOLEAN, space = (p < Len(b) /\ IsSpace(b[p + 1])), ~DotOfList(Ref(b, p), space)
  PROVE  /\ Ending(b, p).toks = Quoted(Ref(b, p).open, Append(Ref(b, p).toks, Sym(Ref(b, p).cur)))
         /\ Ending(b, p).open = SubSeq(Ref(b, p).open, 1, Outside(Ref(b, p).open))
         /\ Ending(b, p).toks # <<>> /\ Last(Ending(b, p).toks) # Mark(".")
         /\ Is(b, p, Ending(b, p).open, Ending(b, p).toks)
<1> DEFINE s == Ref(b, p)
           g == Append(s.toks, Sym(s.cur))
<1>1. s \in SaysType
    BY RefFacts
<1>2. s.toks \in Seq(Toks) /\ s.cur \in Seq(Chars) /\ s.open \in Seq(Openers)
    BY <1>1, SaysFields
<1>3. Sym(s.cur) \in Toks /\ Sym(s.cur) # Mark(".")
    BY <1>2, TokenFacts, MarkKinds
<1>4. g \in Seq(Toks) /\ g # <<>> /\ Last(g) = Sym(s.cur)
    BY <1>2, <1>3, AppendFacts
<1>5. Ending(b, p) = EndSymbol(s, space)
    BY DEF Ending
<1>6. Ending(b, p).toks = Quoted(s.open, g) /\ Ending(b, p).open = SubSeq(s.open, 1, Outside(s.open))
    BY <1>1, <1>5, EndSymbolFacts
<1> HIDE DEF s, g
<1>7. Quoted(s.open, g) # <<>> /\ Last(Quoted(s.open, g)) # Mark(".")
    BY <1>2, <1>3, <1>4, QuotedFacts, MarkKinds
<1>8. Ending(b, p).toks # <<>> /\ Last(Ending(b, p).toks) # Mark(".")
    BY <1>6, <1>7
<1>9. Is(b, p, Ending(b, p).open, Ending(b, p).toks)
    BY <1>8, IsFrom
<1> QED
    BY <1>6, <1>8, <1>9 DEF s, g

-----------------------------------------------------------------------------
(* Each thing that is done with a character.                               *)

Sorts == /\ stk \in Seq(Openers) /\ tok \in Seq(Chars) /\ got \in Seq(Toks)
         /\ q \in BOOLEAN /\ e \in BOOLEAN
ParserNow(b, p) == Parser(b, p, pc, stk, got, tok, q, e) /\ Nested(stk) /\ Sorts

\* The parser agrees with the text afterwards, or there is an error.
Good(b, l) == /\ line' \in Lines /\ line'.buf = b /\ Scan(line') /\ line'.notblank = l.notblank
              /\ Parser(b, line'.ri, pc', stk', got', tok', q', e') /\ Nested(stk')
              /\ UNCHANGED problem
Bad == \E s \in Seq(Chars) : Error(s)

\* Where nothing but lbri changes.
LEMMA Stays ==
  ASSUME NEW b, NEW p, NEW c, NEW l, Here(b, p, c, l), Nested(stk), NEW a,
         Goto(l, a), Rest, Parser(b, p + 1, a, stk, got, tok, q, e)
  PROVE  Good(b, l)
    BY DEF Here, Goto, Rest, Fine, Good, problem

\* A character that is put back leaves everything as it was, for the next place to look at.
LEMMA GoesBack ==
  ASSUME NEW b, NEW p, NEW c, NEW l, Here(b, p, c, l), Free(b, p), ~Ref(b, p).com,
         Nested(stk), NEW a, Goto(Unget(l, c), a), Rest, Parser(b, p, a, stk, got, tok, q, e)
  PROVE  Good(b, l)
    BY PutBack DEF Goto, Rest, Fine, Good, problem

\* read1(): white space is skipped.
LEMMA SkipGood ==
  ASSUME NEW b, NEW p, NEW c, NEW l, Here(b, p, c, l), ParserNow(b, p), Skip(c, l)
  PROVE  Good(b, l)
<1>1. pc = "skip" /\ Rest /\ Pre(b, p, stk, got) /\ tok = <<>> /\ ~q /\ ~e /\ Nested(stk)
    BY DEF Skip, At, ParserNow, Parser
<1>2. Free(b, p) /\ Ending(b, p).toks = got /\ Ending(b, p).open = stk /\ Expects(b, p, stk, got)
    BY <1>1 DEF Pre
<1>3. CASE IsSpace(c)
  <2>1. ~Peeked(b, p)
      BY <1>3 DEF Peeked, Here
  <2>2. Expects(b, p + 1, stk, got)
    <3>1. stk # <<>> => Last(stk) = "."
        BY <1>2, <2>1 DEF Expects
    <3> QED
        BY <1>2, <3>1 DEF Expects, After, Top
  <2>3. Free(b, p + 1) /\ Ending(b, p + 1).toks = got /\ Ending(b, p + 1).open = stk
      BY <1>2, <1>3, SpaceStep
  <2>4. Parser(b, p + 1, "skip", stk, got, tok, q, e)
      BY <1>1, <2>2, <2>3 DEF Parser, Pre
  <2> QED
      BY <1>1, <1>3, <2>4, Stays DEF Skip
<1>4. CASE ~IsSpace(c)
  <2>1. Peeked(b, p) /\ ~Ref(b, p).com
      BY <1>2, <1>4, PeekedHere, NoComment
  <2>2. Parser(b, p, "macro", stk, got, tok, q, e)
      BY <1>1, <2>1 DEF Parser
  <2> QED
      BY <1>1, <1>2, <1>4, <2>1, <2>2, GoesBack DEF Skip
<1> QED
    BY <1>3, <1>4

\* readm(): a quote or not.
LEMMA MacroGood ==
  ASSUME NEW b, NEW p, NEW c, NEW l, Here(b, p, c, l), ParserNow(b, p), Macro(c, l)
  PROVE  Good(b, l)
<1>1. pc = "macro" /\ Rest /\ Pre(b, p, stk, got) /\ Peeked(b, p) /\ tok = <<>> /\ ~q /\ ~e /\ Nested(stk)
    BY DEF Macro, At, ParserNow, Parser
<1>2. Free(b, p) /\ Ending(b, p).toks = got /\ Ending(b, p).open = stk /\ Expects(b, p, stk, got)
    BY <1>1 DEF Pre
<1>3. ~Ref(b, p).com /\ Bare(Ref(b, p))
    BY <1>1, <1>2 DEF Peeked, Free, Bare
<1>4. CASE IsRdMac(c)
  <2>1. c = "'" /\ ~Ref(b, p).in
      BY <1>2, <1>4, Kinds DEF IsRdMac, Free, Here
  <2>2. Ref(b, p).toks = got /\ Ref(b, p).open = stk
      BY <1>2, <2>1, EndingOut DEF Here
  <2> DEFINE s == Ref(b, p)
  <2>3. s \in SaysType /\ Sane(s) /\ Bare(s) /\ Ref(b, p + 1) = Says1(s, "'") /\ ~s.in
      BY <1>3, <2>1 DEF Here
  <2> HIDE DEF s
  <2>4. /\ ~Says1(s, "'").in
        /\ Says1(s, "'").toks = EndSymbol(s, FALSE).toks \o <<Mark("("), Sym(<<"quote">>)>>
        /\ Says1(s, "'").open = Append(EndSymbol(s, FALSE).open, "'")
      BY <2>3, MacroSays
  <2>5. EndSymbol(s, FALSE) = s
      BY <2>3, EndSymbolFacts
  <2>6. /\ ~Ref(b, p + 1).in /\ Ref(b, p + 1).toks = got \o <<Mark("("), Sym(<<"quote">>)>>
        /\ Ref(b, p + 1).open = Append(stk, "'")
      BY <2>2, <2>3, <2>4, <2>5 DEF s
  <2>7. Free(b, p + 1)
      BY <2>6, Between DEF Here
  <2>8. p + 1 >= 1
      BY DEF Here
  <2>9. Parser(b, p + 1, "macro2", stk, got, tok, q, e)
      BY <1>1, <2>6, <2>7, <2>8 DEF Parser
  <2> QED
      BY <1>1, <1>4, <2>9, Stays DEF Macro
<1>5. CASE ~IsRdMac(c)
  <2>1. b[p + 1] # "'"
      BY <1>5 DEF IsRdMac, Here
  <2>2. Parser(b, p, "vector", stk, got, tok, q, e)
      BY <1>1, <2>1 DEF Parser
  <2> QED
      BY <1>1, <1>2, <1>3, <1>5, <2>2, GoesBack DEF Macro
<1> QED
    BY <1>4, <1>5

\* One more list or quote.
LEMMA NestedAppend ==
  ASSUME NEW k \in Seq(Openers), Nested(k), NEW x \in Openers, x = "." => Top(k, "(")
  PROVE  Nested(Append(k, x)) /\ Append(k, x) \in Seq(Openers)
<1>1. Append(k, x) \in Seq(Openers) /\ Len(Append(k, x)) = Len(k) + 1 /\ Len(k) \in Nat
      /\ \A i \in 1..Len(k) : Append(k, x)[i] = k[i]
      /\ Append(k, x)[Len(k) + 1] = x
    BY AppendFacts, LenProperties
<1>2. x = "." => Len(k) >= 1 /\ k[Len(k)] = "("
    BY DEF Top, Last
<1>3. \A i \in 1..(Len(k) + 1) : i = Len(k) + 1 \/ i \in 1..Len(k)
    BY <1>1
<1>4. DOMAIN Append(k, x) = 1..(Len(k) + 1) /\ DOMAIN k = 1..Len(k)
    BY <1>1
<1>5. \A i \in 1..Len(k) : i > 1 => i - 1 \in 1..Len(k)
    BY <1>1
<1>6. Nested(Append(k, x))
  <2> SUFFICES ASSUME NEW i \in 1..(Len(k) + 1), Append(k, x)[i] = "."
               PROVE  i > 1 /\ Append(k, x)[i - 1] = "("
      BY <1>4 DEF Nested
  <2>1. CASE i = Len(k) + 1
    <3>1. x = "."
        BY <1>1, <2>1
    <3>2. i > 1 /\ i - 1 = Len(k) /\ Len(k) \in 1..Len(k)
        BY <1>1, <1>2, <2>1, <3>1
    <3> QED
        BY <1>1, <1>2, <3>1, <3>2
  <2>2. CASE i \in 1..Len(k)
    <3>1. k[i] = "." /\ i > 1 /\ k[i - 1] = "("
        BY <1>1, <1>4, <2>2 DEF Nested
    <3> QED
        BY <1>1, <1>5, <2>2, <3>1
  <2> QED
      BY <1>3, <2>1, <2>2
<1> QED
    BY <1>1, <1>6

\* ... and one less.
LEMMA NestedFront ==
  ASSUME NEW k \in Seq(Openers), Nested(k), k # <<>>
  PROVE  Nested(Front(k)) /\ Front(k) \in Seq(Openers)
<1>1. Front(k) \in Seq(Openers) /\ Len(Front(k)) = Len(k) - 1 /\ Len(k) \in Nat
      /\ \A i \in 1..(Len(k) - 1) : Front(k)[i] = k[i]
    BY LastFront, LenProperties
<1>2. DOMAIN Front(k) = 1..(Len(k) - 1) /\ DOMAIN k = 1..Len(k)
    BY <1>1
<1>3. \A i \in 1..(Len(k) - 1) : i \in 1..Len(k) /\ (i > 1 => i - 1 \in 1..(Len(k) - 1))
    BY <1>1
<1> QED
    BY <1>1, <1>2, <1>3 DEF Nested

\* readm(): a quote opens an expression, unless nothing follows it.
LEMMA Macro2Good ==
  ASSUME NEW b, NEW p, NEW c, NEW l, Here(b, p, c, l), ParserNow(b, p), Macro2(c, l)
  PROVE  Good(b, l) \/ (Bad /\ (IsSpace(c) \/ c \in Closers))
<1>1. /\ pc = "macro2" /\ Free(b, p) /\ ~Ref(b, p).in
      /\ Ref(b, p).toks = got \o <<Mark("("), Sym(<<"quote">>)>> /\ Ref(b, p).open = Append(stk, "'")
      /\ tok = <<>> /\ ~q /\ ~e /\ Nested(stk) /\ stk \in Seq(Openers)
    BY DEF Macro2, At, ParserNow, Parser, Sorts
<1>2. CASE IsSpace(c) \/ c \in {")", "]"}
  <2>1. <<"'">> \in Seq(Chars)
      BY DEF Chars
  <2> QED
      BY <1>2, <2>1 DEF Macro2, Bad, Closers
<1>3. CASE ~IsSpace(c) /\ c \notin {")", "]"}
  <2> DEFINE k == Append(stk, "'")
             g == got \o <<Mark("("), Sym(<<"quote">>)>>
  <2>1. Goto(Unget(l, c), "skip") /\ stk' = k /\ got' = g /\ UNCHANGED <<tok, q, e>> /\ Fine
      BY <1>3 DEF Macro2
  <2>2. Peeked(b, p) /\ ~Ref(b, p).com /\ b[p + 1] \notin Closers
      BY <1>1, <1>3, PeekedHere, NoComment DEF Here, Closers
  <2>3. Ending(b, p) = Ref(b, p)
      BY <1>1, EndingOut DEF Here
  <2>4. k # <<>> /\ Last(k) = "'" /\ Nested(k)
    <3>1. "'" \in Openers /\ "'" # "."
        BY DEF Openers
    <3> QED
        BY <1>1, <3>1, AppendFacts, NestedAppend
  <2> HIDE DEF k
  <2>5. Pre(b, p, k, g)
      BY <1>1, <2>2, <2>3, <2>4 DEF Pre, Expects, After, Top, k
  <2> HIDE DEF g
  <2>6. Parser(b, p, "skip", k, g, tok, q, e)
      BY <1>1, <2>5 DEF Parser
  <2> QED
      BY <1>1, <2>1, <2>2, <2>4, <2>6, PutBack DEF Goto, Good, Fine, problem
<1> QED
    BY <1>2, <1>3

\* A list or a vector begins.
LEMMA OpenGood ==
  ASSUME NEW b, NEW p, NEW c, NEW l, Here(b, p, c, l), ParserNow(b, p), c \in {"(", "["},
         Pre(b, p, stk, got), tok = <<>>, ~q, ~e,
         Goto(l, "elem"), stk' = Append(stk, c), got' = Append(got, Mark(c)),
         UNCHANGED <<tok, q, e>>, Fine
  PROVE  Good(b, l)
<1> DEFINE k == Append(stk, c)
           g == Append(got, Mark(c))
<1>1. Free(b, p) /\ Ending(b, p).toks = got /\ Ending(b, p).open = stk
    BY DEF Pre
<1>2. Ref(b, p + 1).toks = g /\ Ref(b, p + 1).open = k /\ Is(b, p + 1, k, g)
  <2>1. /\ Ref(b, p + 1).toks = Append(Ending(b, p).toks, Mark(c))
        /\ Ref(b, p + 1).open = Append(Ending(b, p).open, c)
        /\ Is(b, p + 1, Ref(b, p + 1).open, Ref(b, p + 1).toks)
      BY <1>1, OpenStep
  <2> QED
      BY <1>1, <2>1
<1>3. c \in Openers /\ c # "." /\ Mark(c) \in Toks /\ Mark(c) # Mark(".") /\ stk \in Seq(Openers) /\ got \in Seq(Toks)
    BY MarkKinds DEF Openers, ParserNow, Sorts
<1>4. k # <<>> /\ Last(k) = c /\ Nested(k)
    BY <1>3, AppendFacts, NestedAppend DEF ParserNow
<1>5. g # <<>> /\ Last(g) = Mark(c)
    BY <1>3, AppendFacts
<1> HIDE DEF k, g
<1>6. ~After(k, g)
    BY <1>4, <1>5 DEF After, Top
<1>7. InElem(b, p + 1, k, g)
    BY <1>2, <1>3, <1>4, <1>5, <1>6 DEF InElem
<1>8. Parser(b, p + 1, "elem", k, g, tok, q, e)
    BY <1>7 DEF Parser
<1> QED
    BY <1>4, <1>8 DEF Here, Goto, Fine, Good, problem, k, g

\* readv(): a vector or not.
LEMMA VectorGood ==
  ASSUME NEW b, NEW p, NEW c, NEW l, Here(b, p, c, l), ParserNow(b, p), Vector(c, l)
  PROVE  Good(b, l)
<1>1. /\ pc = "vector" /\ Pre(b, p, stk, got) /\ Peeked(b, p) /\ b[p + 1] # "'" /\ tok = <<>> /\ ~q /\ ~e
      /\ Nested(stk) /\ UNCHANGED <<tok, q, e>> /\ Fine
    BY DEF Vector, Open, At, ParserNow, Parser
<1>2. Free(b, p) /\ ~Ref(b, p).com
    BY <1>1 DEF Pre, Peeked
<1>3. CASE c = "["
    BY <1>1, <1>3, OpenGood DEF Vector, Open
<1>4. CASE c # "["
  <2>1. Goto(Unget(l, c), "pair") /\ Rest
      BY <1>1, <1>4 DEF Vector, Open, Rest
  <2>2. Parser(b, p, "pair", stk, got, tok, q, e)
      BY <1>1, <1>4 DEF Parser, Here
  <2> QED
      BY <1>1, <1>2, <2>1, <2>2, GoesBack
<1> QED
    BY <1>3, <1>4

\* A symbol cannot follow one directly.
LEMMA NewSymbol ==
  ASSUME NEW b, NEW p, NEW c, NEW l, Here(b, p, c, l), NEW k \in Seq(Openers), NEW g \in Seq(Toks),
         Pre(b, p, k, g), Starts(b, p)
  PROVE  ~Ref(b, p).in
<1> SUFFICES ASSUME Ref(b, p).in PROVE FALSE
    OBVIOUS
<1> DEFINE s == Ref(b, p)
<1>1. Free(b, p) /\ Ending(b, p).toks = g /\ Ending(b, p).open = k /\ Expects(b, p, k, g)
    BY DEF Pre
<1>2. IsTokSep(c) /\ ~IsSpace(c) /\ c \notin {"(", "["} /\ c # "eot"
    BY <1>1 DEF Free, Starts, Peeked, Here
<1>3. c \in Closers
    BY <1>2, Kinds
<1>4. k = <<>> \/ Last(k) = "."
    BY <1>1, <1>3 DEF Expects, Here
<1>5. ~DotOfList(s, FALSE)
    BY DEF DotOfList
<1>6. (p < Len(b) /\ IsSpace(b[p + 1])) = FALSE
    BY <1>2 DEF Here
<1>7. g # <<>> /\ Last(g) # Mark(".")
    BY <1>1, <1>5, <1>6, SymbolEnds DEF Here
<1> QED
    BY <1>1, <1>4, <1>7 DEF Expects, Top

\* readp(): a list or not.
LEMMA PairGood ==
  ASSUME NEW b, NEW p, NEW c, NEW l, Here(b, p, c, l), ParserNow(b, p), Pair(c, l)
  PROVE  Good(b, l)
<1>1. /\ pc = "pair" /\ Pre(b, p, stk, got) /\ Peeked(b, p) /\ b[p + 1] \notin {"'", "["} /\ tok = <<>> /\ ~q /\ ~e
      /\ Nested(stk) /\ stk \in Seq(Openers) /\ got \in Seq(Toks) /\ UNCHANGED <<tok, q, e>> /\ Fine
    BY DEF Pair, Open, At, ParserNow, Parser, Sorts
<1>2. Free(b, p) /\ ~Ref(b, p).com
    BY <1>1 DEF Pre, Peeked
<1>3. CASE c = "("
    BY <1>1, <1>3, OpenGood DEF Pair, Open
<1>4. CASE c # "("
  <2>1. Goto(Unget(l, c), "token") /\ Rest
      BY <1>1, <1>4 DEF Pair, Open, Rest
  <2>2. Starts(b, p)
      BY <1>1, <1>4 DEF Starts, Here
  <2>3. ~Ref(b, p).in
      BY <1>1, <2>2, NewSymbol
  <2>4. p - Len(tok) = p /\ tok = SubSeq(b, p + 1, p) /\ p >= 0 /\ DOMAIN tok = {}
      BY <1>1 DEF Here
  <2>5. \A i \in p..p : ~Ref(b, i).com
      BY <1>2 DEF Here
  <2>6. InToken(b, p, stk, got, tok)
      BY <1>1, <2>2, <2>3, <2>4, <2>5 DEF InToken
  <2>7. Parser(b, p, "token", stk, got, tok, q, e)
      BY <1>1, <2>6 DEF Parser
  <2> QED
      BY <1>1, <1>2, <2>1, <2>7, GoesBack
<1> QED
    BY <1>3, <1>4

\* Tokens that end in one that begins nothing.
LEMMA EndsAppend ==
  ASSUME NEW g \in Seq(Toks), NEW x \in Toks, x \notin {Mark("("), Mark("["), Mark(".")}
  PROVE  Ends(Append(g, x)) /\ Append(g, x) \in Seq(Toks)
    BY AppendFacts DEF Ends

\* A list or a vector ends: it returns.
LEMMA CloseReturns ==
  ASSUME NEW b, NEW p, NEW c, NEW l, Here(b, p, c, l), ParserNow(b, p), c \in Closers,
         Is(b, p, stk, got), stk # <<>>, tok = <<>>, ~q, ~e,
         NEW j \in Seq(Openers), j = SubSeq(stk, 1, Len(stk) - (IF Last(stk) = "." THEN 2 ELSE 1)), Nested(j),
         Goto(l, "return"), stk' = j, got' = Append(got, Mark(c)), UNCHANGED <<tok, q, e>>, Fine
  PROVE  Good(b, l)
<1>1. Is(b, p + 1, SubSeq(j, 1, Outside(j)), Quoted(j, Append(got, Mark(c))))
    BY CloseStep DEF ParserNow, Sorts
<1>2. c \in {")", "]"}
    BY Kinds
<1>3. Mark(c) \in Toks /\ Mark(c) \notin {Mark("("), Mark("["), Mark(".")}
    BY <1>2, MarkKinds
<1>4. Ends(Append(got, Mark(c)))
    BY <1>3, EndsAppend DEF ParserNow, Sorts
<1>5. Parser(b, p + 1, "return", j, Append(got, Mark(c)), tok, q, e)
    BY <1>1, <1>4 DEF Parser
<1> QED
    BY <1>5 DEF Here, Goto, Fine, Good, problem

\* readp() and readv(): the end of a list, or its next element.
LEMMA ElemGood ==
  ASSUME NEW b, NEW p, NEW c, NEW l, Here(b, p, c, l), ParserNow(b, p), Elem(c, l)
  PROVE  Good(b, l) \/ Bad
<1>1. /\ pc = "elem" /\ Is(b, p, stk, got) /\ stk # <<>> /\ Last(stk) \in {"(", "["}
      /\ got # <<>> /\ Last(got) # Mark(".") /\ (After(stk, got) => Peeked(b, p) /\ NotDot(b, p))
      /\ tok = <<>> /\ ~q /\ ~e /\ Nested(stk) /\ stk \in Seq(Openers)
    BY DEF Elem, At, ParserNow, Parser, InElem, Sorts
<1>2. CASE IsSpace(c)
  <2>1. Goto(l, "elem") /\ Rest
      BY <1>2 DEF Elem
  <2>2. ~Peeked(b, p)
      BY <1>2 DEF Peeked, Here
  <2>3. Is(b, p + 1, stk, got)
      BY <1>1, <1>2, SpaceIs
  <2>4. Parser(b, p + 1, "elem", stk, got, tok, q, e)
      BY <1>1, <2>2, <2>3 DEF Parser, InElem
  <2> QED
      BY <1>1, <2>1, <2>4, Stays
<1>3. CASE ~IsSpace(c) /\ c \notin Closers
  <2>1. Goto(Unget(l, c), "skip") /\ Rest
      BY <1>3 DEF Elem, Closers
  <2>2. Free(b, p) /\ Ending(b, p).toks = got /\ Ending(b, p).open = stk /\ b[p + 1] \notin Closers
      BY <1>1, <1>3, IsTo DEF Here
  <2>3. Peeked(b, p) /\ ~Ref(b, p).com
      BY <1>3, <2>2, PeekedHere, NoComment
  <2>4. Expects(b, p, stk, got)
      BY <1>1, <2>2, <2>3 DEF Expects, Top
  <2>5. Parser(b, p, "skip", stk, got, tok, q, e)
      BY <1>1, <2>2, <2>4 DEF Parser, Pre
  <2> QED
      BY <1>1, <2>1, <2>2, <2>3, <2>5, GoesBack
<1>4. CASE c \in Closers /\ (c = "]") # (Last(stk) = "[")
  <2>1. Error(<<c>>)
      BY <1>4, Kinds DEF Elem, Closers
  <2>2. <<c>> \in Seq(Chars)
      BY DEF Here
  <2> QED
      BY <2>1, <2>2 DEF Bad
<1>5. CASE c \in Closers /\ (c = "]") = (Last(stk) = "[")
  <2>1. /\ Goto(l, "return") /\ stk' = Front(stk) /\ got' = Append(got, Mark(c))
        /\ UNCHANGED <<tok, q, e>> /\ Fine
      BY <1>5, Kinds DEF Elem, Closers
  <2>2. Front(stk) = SubSeq(stk, 1, Len(stk) - 1) /\ Last(stk) # "."
      BY <1>1 DEF Front
  <2>3. Nested(Front(stk)) /\ Front(stk) \in Seq(Openers)
      BY <1>1, NestedFront
  <2> QED
      BY <1>1, <1>5, <2>1, <2>2, <2>3, CloseReturns
<1> QED
    BY <1>2, <1>3, <1>4, <1>5

\* readp(): the end of a list after a dot.
LEMMA CloseGood ==
  ASSUME NEW b, NEW p, NEW c, NEW l, Here(b, p, c, l), ParserNow(b, p), Close(c, l)
  PROVE  Good(b, l) \/ Bad
<1>1. /\ pc = "close" /\ Is(b, p, stk, got) /\ Ends(got) /\ stk # <<>> /\ Last(stk) = "."
      /\ tok = <<>> /\ ~q /\ ~e /\ Nested(stk) /\ stk \in Seq(Openers)
    BY DEF Close, At, ParserNow, Parser, Top, Sorts
<1>2. CASE IsSpace(c)
  <2>1. Goto(l, "close") /\ Rest
      BY <1>2 DEF Close
  <2>2. Is(b, p + 1, stk, got)
      BY <1>1, <1>2, SpaceIs DEF Ends
  <2>3. Parser(b, p + 1, "close", stk, got, tok, q, e)
      BY <1>1, <2>2 DEF Parser, Top
  <2> QED
      BY <1>1, <2>1, <2>3, Stays
<1>3. CASE ~IsSpace(c) /\ c # ")"
  <2>1. Error(<<>>) /\ <<>> \in Seq(Chars)
      BY <1>3 DEF Close
  <2> QED
      BY <2>1 DEF Bad
<1>4. CASE c = ")"
  <2>1. ~IsSpace(c) /\ c \in Closers
      BY <1>4 DEF IsSpace, Closers
  <2>2. /\ Goto(l, "return") /\ stk' = Front(Front(stk)) /\ got' = Append(got, Mark(c))
        /\ UNCHANGED <<tok, q, e>> /\ Fine
      BY <1>4, <2>1 DEF Close
  <2>3. Nested(Front(stk)) /\ Front(stk) \in Seq(Openers)
      BY <1>1, NestedFront
  <2>4. Len(stk) > 1
    <3>1. Len(stk) \in DOMAIN stk /\ stk[Len(stk)] = "."
        BY <1>1 DEF Last
    <3> QED
        BY <1>1, <3>1 DEF Nested
  <2>5. Front(stk) # <<>> /\ Front(Front(stk)) = SubSeq(stk, 1, Len(stk) - 2)
    <3> DEFINE f == Front(stk)
    <3>1. f \in Seq(Openers) /\ Len(f) = Len(stk) - 1 /\ \A i \in 1..(Len(stk) - 1) : f[i] = stk[i]
        BY <1>1, LastFront
    <3>2. f # <<>> /\ Len(stk) \in Nat
        BY <1>1, <2>4, <3>1, LenProperties
    <3> HIDE DEF f
    <3>3. Front(f) \in Seq(Openers) /\ Len(Front(f)) = Len(f) - 1 /\ \A i \in 1..(Len(f) - 1) : Front(f)[i] = f[i]
        BY <3>1, <3>2, LastFront
    <3>4. Len(stk) - 2 \in 0..Len(stk)
        BY <2>4, <3>2
    <3>5. /\ SubSeq(stk, 1, Len(stk) - 2) \in Seq(Openers) /\ Len(SubSeq(stk, 1, Len(stk) - 2)) = Len(stk) - 2
          /\ \A i \in 1..(Len(stk) - 2) : SubSeq(stk, 1, Len(stk) - 2)[i] = stk[i]
        BY <1>1, <3>4, PrefixFacts
    <3>6. \A i \in 1..(Len(stk) - 2) : Front(f)[i] = stk[i]
        BY <3>1, <3>2, <3>3
    <3>7. Front(f) = SubSeq(stk, 1, Len(stk) - 2)
        BY <3>1, <3>2, <3>3, <3>5, <3>6, SeqEqual
    <3> QED
        BY <3>2, <3>7 DEF f
  <2>6. Nested(Front(Front(stk))) /\ Front(Front(stk)) \in Seq(Openers)
      BY <2>3, <2>5, NestedFront
  <2> DEFINE j == Front(Front(stk))
  <2>7. j = SubSeq(stk, 1, Len(stk) - (IF Last(stk) = "." THEN 2 ELSE 1)) /\ j \in Seq(Openers) /\ Nested(j) /\ stk' = j
      BY <1>1, <2>2, <2>5, <2>6
  <2> HIDE DEF j
  <2> QED
      BY <1>1, <2>1, <2>2, <2>7, CloseReturns
<1> QED
    BY <1>2, <1>3, <1>4

\* readp(): perhaps the dot of a list.
LEMMA DotGood ==
  ASSUME NEW b, NEW p, NEW c, NEW l, Here(b, p, c, l), ParserNow(b, p), Dot(c, l)
  PROVE  Good(b, l)
<1>1. /\ pc = "dot" /\ Is(b, p, stk, got) /\ Ends(got) /\ Top(stk, "(") /\ Rest
      /\ tok = <<>> /\ ~q /\ ~e /\ Nested(stk)
    BY DEF Dot, At, ParserNow, Parser
<1>2. CASE IsSpace(c)
  <2>1. Goto(l, "dot")
      BY <1>2 DEF Dot
  <2>2. Is(b, p + 1, stk, got)
      BY <1>1, <1>2, SpaceIs DEF Ends
  <2>3. Parser(b, p + 1, "dot", stk, got, tok, q, e)
      BY <1>1, <2>2 DEF Parser
  <2> QED
      BY <1>1, <2>1, <2>3, Stays
<1>3. CASE c = "."
  <2>1. Goto(l, "dot2") /\ ~IsSpace(c) /\ c \notin Closers
      BY <1>3, Kinds DEF Dot
  <2>2. Free(b, p) /\ Ending(b, p).toks = got /\ Ending(b, p).open = stk
      BY <1>1, <2>1, IsTo DEF Here
  <2>3. ~Ref(b, p).com
      BY <2>1, NoComment
  <2>4. ~Ref(b, p).in
      BY <1>3, <2>2, Kinds DEF Free, Here
  <2>5. Ref(b, p).toks = got /\ Ref(b, p).open = stk
      BY <2>2, <2>4, EndingOut DEF Here
  <2> DEFINE s == Ref(b, p)
  <2>6. /\ s \in SaysType /\ Sane(s) /\ ~s.com /\ ~s.q /\ ~s.e /\ ~s.in /\ Ref(b, p + 1) = Says1(s, c)
        /\ c \in Chars /\ s.toks = got /\ s.open = stk
      BY <2>2, <2>3, <2>4, <2>5 DEF Here, Free
  <2> HIDE DEF s
  <2>7. ~IsTokSep(c) /\ ~IsComment(c) /\ ~IsRdMac(c) /\ c \notin {"bs", "quo"}
      BY <1>3 DEF IsTokSep, IsSpace, IsComment, IsRdMac
  <2>8. Ref(b, p + 1) = Char(s, c)
      BY <2>6, <2>7, SymbolSays
  <2>9. s.cur = <<>> /\ s.lit
      BY <2>6 DEF Sane
  <2>10. /\ Char(s, c).toks = got /\ Char(s, c).open = stk /\ Char(s, c).cur = <<".">>
         /\ Char(s, c).in /\ Char(s, c).lit /\ ~Char(s, c).q /\ ~Char(s, c).e /\ ~Char(s, c).com
    <3>1. Char(s, c).cur = Append(<<>>, ".")
        BY <1>3, <2>6, <2>9, CharFacts
    <3> QED
        BY <2>6, <2>9, <3>1, CharFacts
  <2>11. p + 1 >= 1 /\ (p + 1) - 1 = p /\ b[p + 1] = "."
      BY <1>3 DEF Here
  <2>12. InDot2(b, p + 1, stk, got)
      BY <1>1, <2>6, <2>8, <2>10, <2>11 DEF InDot2, s
  <2>13. Parser(b, p + 1, "dot2", stk, got, tok, q, e)
      BY <1>1, <2>12 DEF Parser
  <2> QED
      BY <1>1, <2>1, <2>13, Stays
<1>4. CASE ~IsSpace(c) /\ c # "."
  <2>1. Goto(Unget(l, c), "elem")
      BY <1>4 DEF Dot
  <2>2. Free(b, p)
      BY <1>1 DEF Is
  <2>3. Peeked(b, p) /\ ~Ref(b, p).com
      BY <1>4, <2>2, PeekedHere, NoComment
  <2>4. InElem(b, p, stk, got)
      BY <1>1, <1>4, <2>3 DEF InElem, Ends, Top, NotDot, Here
  <2>5. Parser(b, p, "elem", stk, got, tok, q, e)
      BY <1>1, <2>4 DEF Parser
  <2> QED
      BY <1>1, <2>1, <2>2, <2>3, <2>5, GoesBack
<1> QED
    BY <1>2, <1>3, <1>4

\* readp(): a dot that is followed by a space is the dot of a list, any other is put back.
LEMMA Dot2Good ==
  ASSUME NEW b, NEW p, NEW c, NEW l, Here(b, p, c, l), ParserNow(b, p), Dot2(c, l)
  PROVE  Good(b, l)
<1> DEFINE s == Ref(b, p)
           r == Ref(b, p - 1)
<1>1. /\ pc = "dot2" /\ p >= 1 /\ b[p] = "." /\ Top(stk, "(") /\ Ends(got)
      /\ s.in /\ s.cur = <<".">> /\ s.lit /\ ~s.q /\ ~s.e /\ ~s.com /\ s.toks = got /\ s.open = stk
      /\ ~r.in /\ ~r.q /\ ~r.e /\ ~r.com /\ r.toks = got /\ r.open = stk
      /\ tok = <<>> /\ ~q /\ ~e /\ Nested(stk)
    BY DEF Dot2, At, ParserNow, Parser, InDot2
<1>2. s \in SaysType /\ stk \in Seq(Openers) /\ got \in Seq(Toks)
    BY DEF Here, ParserNow, Sorts
<1>3. CASE IsSpace(c)
  <2> DEFINE k == Append(stk, ".")
             g == Append(got, Mark("."))
  <2>1. Goto(Unget(l, c), "skip") /\ stk' = k /\ got' = g /\ UNCHANGED <<tok, q, e>> /\ Fine
      BY <1>3 DEF Dot2
  <2>2. Free(b, p)
      BY <1>1, <1>3, Kinds DEF Free, Here
  <2>3. Ending(b, p) = EndSymbol(s, TRUE)
    <3>1. (p < Len(b) /\ IsSpace(b[p + 1])) = TRUE
        BY <1>3 DEF Here
    <3> QED
        BY <3>1 DEF Ending
  <2>4. DotOfList(s, TRUE)
      BY <1>1 DEF DotOfList, Top, Ends
  <2> HIDE DEF s
  <2>5. Ending(b, p).toks = g /\ Ending(b, p).open = k
    <3>1. EndSymbol(s, TRUE).toks = Append(s.toks, Mark(".")) /\ EndSymbol(s, TRUE).open = Append(s.open, ".")
        BY <1>1, <1>2, <2>4, EndSymbolFacts
    <3> QED
        BY <1>1, <2>3, <3>1
  <2>6. k # <<>> /\ Last(k) = "." /\ Nested(k)
    <3>1. "." \in Openers
        BY DEF Openers
    <3> QED
        BY <1>1, <1>2, <3>1, AppendFacts, NestedAppend
  <2>7. g # <<>> /\ Last(g) = Mark(".")
      BY <1>2, MarkKinds, AppendFacts
  <2> HIDE DEF k, g
  <2>8. Expects(b, p, k, g)
      BY <2>6, <2>7 DEF Expects, After, Top
  <2>9. Parser(b, p, "skip", k, g, tok, q, e)
      BY <1>1, <2>2, <2>5, <2>8 DEF Parser, Pre
  <2>10. ~Ref(b, p).com
      BY <1>1 DEF s
  <2> QED
      BY <1>1, <2>1, <2>2, <2>6, <2>9, <2>10, PutBack DEF Goto, Good, Fine, problem
<1>4. CASE ~IsSpace(c)
  <2> DEFINE u == Unget(l, c)
             v == Unget(u, ".")
  <2>1. Goto(v, "elem") /\ UNCHANGED <<stk, got>> /\ UNCHANGED <<tok, q, e>> /\ Fine
      BY <1>4 DEF Dot2
  <2>2. Ref(b, p + 1).odd = {} /\ Ref(b, p).odd = {}
      BY RefOdd DEF Here
  <2>3. l \in Lines /\ Weak(l)
      BY ScanWeak DEF Here, Scan
  <2>4. (p + 1) - 1 = p /\ p + 1 # 0 /\ p # 0 /\ p - 1 \in 0..Len(b) /\ p - 1 \in 0..(Len(b) - 1) /\ (p - 1) + 1 = p /\ p - 1 < Len(b)
      BY <1>1 DEF Here
  <2>5. u \in Lines /\ Weak(u) /\ u.buf = b /\ u.ri = p /\ u.notblank = l.notblank
      BY <1>1, <2>2, <2>3, <2>4, UngetWeak DEF Here
  <2> HIDE DEF u
  <2>6. v \in Lines /\ Weak(v) /\ v.buf = b /\ v.ri = p - 1 /\ v.notblank = l.notblank
      BY <1>1, <2>2, <2>4, <2>5, UngetWeak
  <2> HIDE DEF v
  <2>7. Scan(v)
      BY <1>1, <2>6, WeakScan
  <2>8. Free(b, p - 1) /\ Ending(b, p - 1) = r
      BY <1>1, <2>4, Between DEF Here
  <2>9. got = <<>> \/ Last(got) # Mark(".")
      BY <1>1 DEF Ends
  <2>10. Is(b, p - 1, stk, got)
      BY <1>1, <2>4, <2>8, <2>9, IsFrom DEF Here
  <2>11. Peeked(b, p - 1)
      BY <1>1, <2>4, Kinds DEF Peeked
  <2>12. NotDot(b, p - 1)
      BY <1>4, <1>1, <2>4 DEF NotDot, Here
  <2>13. InElem(b, p - 1, stk, got)
      BY <1>1, <2>10, <2>11, <2>12 DEF InElem, Top, Ends
  <2>14. Parser(b, p - 1, "elem", stk, got, tok, q, e)
      BY <1>1, <2>13 DEF Parser
  <2> QED
      BY <1>1, <2>1, <2>6, <2>7, <2>14 DEF Goto, Good, Fine, problem
<1> QED
    BY <1>3, <1>4

\* A character that ends no token begins or continues one.
LEMMA GlueStep ==
  ASSUME NEW s \in SaysType, NEW c \in Chars, Sane(s), ~s.com, ~IsTokSep(c), ~Says1(s, c).com,
         c = "'" => s.glue
  PROVE  Says1(s, c).glue
<1>1. CASE s.e
    BY <1>1, EscapedSays
<1>2. CASE ~s.e /\ c = "bs"
    BY <1>2, SlashSays
<1>3. CASE ~s.e /\ c = "quo"
    BY <1>3, QuoteSays
<1>4. CASE ~s.e /\ c \notin {"bs", "quo"} /\ (s.q \/ (~IsComment(c) /\ ~IsRdMac(c)))
  <2>1. Says1(s, c) = Char(s, c)
      BY <1>4, SymbolSays
  <2> QED
      BY <2>1, CharFacts
<1>5. CASE Bare(s) /\ c = ";"
  <2>1. Says1(s, ";").com
      BY <1>5, CommentSays
  <2> QED
      BY <1>5, <2>1
<1>6. CASE Bare(s) /\ c = "'"
  <2>1. Says1(s, "'").glue = s.glue
      BY <1>6, MacroSays
  <2> QED
      BY <1>6, <2>1
<1> QED
    BY <1>1, <1>2, <1>3, <1>4, <1>5, <1>6 DEF Bare, IsComment, IsRdMac

\* readn(): a token is taken, and put back as a whole.
LEMMA TokenGood ==
  ASSUME NEW b, NEW p, NEW c, NEW l, Here(b, p, c, l), ParserNow(b, p), Token(c, l)
  PROVE  Good(b, l)
<1> DEFINE st == p - Len(tok)
<1>1. /\ pc = "token" /\ InToken(b, p, stk, got, tok) /\ ~q /\ ~e /\ Nested(stk) /\ tok \in Seq(Chars)
      /\ stk \in Seq(Openers) /\ got \in Seq(Toks) /\ UNCHANGED <<stk, q, e, got>> /\ Fine
    BY DEF Token, At, ParserNow, Parser, Sorts
<1>2. /\ st >= 0 /\ Pre(b, st, stk, got) /\ ~Ref(b, st).in /\ Starts(b, st)
      /\ tok = SubSeq(b, st + 1, p) /\ (\A i \in DOMAIN tok : ~IsTokSep(tok[i]))
      /\ (tok # <<>> => Ref(b, p).glue) /\ \A i \in st..p : ~Ref(b, i).com
    BY <1>1 DEF InToken
<1>3. Len(tok) \in Nat /\ st \in 0..Len(b) /\ st \in Nat /\ st <= p /\ p \in st..p /\ st \in st..p /\ p \in Nat
    BY SMTT(30), <1>1, <1>2, LenProperties DEF Here
<1>4. \A i \in 1..Len(tok) : tok[i] = b[st + i]
  <2> DEFINE n == st + 1
  <2>1. /\ n \in 1..(Len(b) + 1) /\ p \in (n - 1)..Len(b) /\ p - n + 1 = Len(tok) /\ b \in Seq(Chars)
        /\ \A i \in 1..Len(tok) : n + i - 1 = st + i
      BY <1>3 DEF Here
  <2>2. tok = SubSeq(b, n, p)
      BY <1>2
  <2> HIDE DEF n, st
  <2>3. \A i \in 1..(p - n + 1) : SubSeq(b, n, p)[i] = b[n + i - 1]
      BY <2>1, SubSeqProperties
  <2> QED
      BY <2>1, <2>2, <2>3
<1>5. CASE IsTokSep(c)
  <2> DEFINE u == Unget(l, c)
             v == UngetAll(u, tok)
  <2>1. Goto(v, "symbol") /\ tok' = <<>>
      BY <1>5 DEF Token
  <2>2. \A i \in 0..Len(b) : Ref(b, i).odd = {}
      BY RefOdd DEF Here
  <2>3. l \in Lines /\ Weak(l)
      BY ScanWeak DEF Here, Scan
  <2>4. (p + 1) - 1 = p /\ p + 1 # 0
      BY DEF Here
  <2>5. u \in Lines /\ Weak(u) /\ u.buf = b /\ u.ri = p /\ u.notblank = l.notblank
    <3>1. ~Ref(b, p).com /\ ~Ref(b, p + 1).com /\ l.buf = b /\ l.ri = p + 1 /\ c = b[p + 1] /\ "trap" \notin Ref(b, p + 1).odd
        BY <1>2, <1>3, <2>2 DEF Here
    <3> HIDE DEF st
    <3> QED
        BY <2>3, <2>4, <3>1, UngetWeak
  <2> HIDE DEF u
  <2>6. Len(tok) <= u.ri /\ u.ri - Len(tok) = st
      BY <1>3, <2>5
  <2> HIDE DEF st
  <2>7. \A i \in 1..Len(tok) : tok[i] = u.buf[u.ri - Len(tok) + i]
      BY <1>4, <2>5, <2>6
  <2>8. \A k \in (u.ri - Len(tok))..u.ri : ~Ref(u.buf, k).com /\ "trap" \notin Ref(u.buf, k).odd
    <3>1. \A k \in st..p : k \in 0..Len(b)
        BY <1>3 DEF Here
    <3> QED
        BY <1>2, <2>2, <2>5, <2>6, <3>1
  <2>9. v \in Lines /\ v.ri = st /\ v.buf = b /\ v.notblank = l.notblank /\ Weak(v)
      BY <1>1, <2>5, <2>6, <2>7, <2>8, UngetAllWeak
  <2> HIDE DEF v
  <2>10. Ref(b, st) \in SaysType /\ Sane(Ref(b, st)) /\ ~Ref(b, st).com
      BY <1>2, <1>3, RefFacts DEF Here
  <2>11. Scan(v)
      BY <1>2, <2>9, <2>10, WeakScan DEF Sane
  <2>12. Ref(b, st).toks = got /\ Ref(b, st).open = stk /\ Expects(b, st, stk, got)
      BY <1>2, <1>3, EndingOut DEF Here, Pre
  <2>13. Ref(b, st).cur = <<>> /\ Ref(b, st).q = q /\ Ref(b, st).e = e
    <3>1. Ref(b, st).q \in BOOLEAN /\ Ref(b, st).e \in BOOLEAN /\ q \in BOOLEAN /\ e \in BOOLEAN
        BY <2>10, SaysFields DEF ParserNow, Sorts
    <3> QED
        BY <1>1, <1>2, <2>10, <3>1 DEF Sane
  <2>14. InSymbol(b, st, stk, got, <<>>, q, e)
      BY <1>2, <2>10, <2>12, <2>13 DEF InSymbol, Expects
  <2>15. Parser(b, st, "symbol", stk, got, <<>>, q, e)
      BY <2>14 DEF Parser
  <2> QED
      BY <1>1, <2>1, <2>9, <2>11, <2>15 DEF Goto, Good, Fine, problem
<1>6. CASE ~IsTokSep(c)
  <2> DEFINE t == Append(tok, c)
  <2>1. Goto(l, "token") /\ tok' = t
      BY <1>6 DEF Token
  <2>2. t \in Seq(Chars) /\ Len(t) = Len(tok) + 1 /\ (\A i \in 1..Len(tok) : t[i] = tok[i]) /\ t[Len(tok) + 1] = c
      BY <1>1, AppendFacts DEF Here
  <2> HIDE DEF t
  <2>3. (p + 1) - Len(t) = st
      BY <1>3, <2>2
  <2>4. t = SubSeq(b, st + 1, p + 1)
    <3>1. st + 1 \in 1..(Len(b) + 1) /\ p + 1 \in st..Len(b) /\ (p + 1) - (st + 1) + 1 = Len(tok) + 1
        BY <1>2, <1>3 DEF Here
    <3>2. \A i \in 1..(Len(tok) + 1) : (st + 1) + i - 1 = st + i
        BY <1>3
    <3>3. SubSeq(b, st + 1, p + 1) \in Seq(Chars) /\ Len(SubSeq(b, st + 1, p + 1)) = Len(tok) + 1
          /\ \A i \in 1..(Len(tok) + 1) : SubSeq(b, st + 1, p + 1)[i] = b[st + i]
      <4> DEFINE n == st + 1
                 m == p + 1
      <4>1. n \in 1..(Len(b) + 1) /\ m \in (n - 1)..Len(b) /\ m - n + 1 = Len(tok) + 1 /\ b \in Seq(Chars)
            /\ \A i \in 1..(Len(tok) + 1) : n + i - 1 = st + i
          BY <1>3, <3>1, <3>2 DEF Here
      <4> HIDE DEF n, m
      <4>2. /\ SubSeq(b, n, m) \in Seq(Chars) /\ Len(SubSeq(b, n, m)) = m - n + 1
            /\ \A i \in 1..(m - n + 1) : SubSeq(b, n, m)[i] = b[n + i - 1]
          BY <4>1, SubSeqProperties
      <4> QED
          BY <4>1, <4>2 DEF n, m
    <3>4. \A i \in 1..(Len(tok) + 1) : i \in 1..Len(tok) \/ i = Len(tok) + 1
        BY <1>3
    <3>5. st + (Len(tok) + 1) = p + 1
        BY <1>3
    <3>6. \A i \in 1..(Len(tok) + 1) : t[i] = b[st + i]
        BY <1>4, <2>2, <3>4, <3>5 DEF Here
    <3> HIDE DEF st
    <3> QED
        BY <2>2, <3>3, <3>6, SeqEqual
  <2>5. \A i \in DOMAIN t : ~IsTokSep(t[i])
    <3>1. \A i \in DOMAIN t : i \in DOMAIN tok \/ i = Len(tok) + 1
        BY <1>1, <1>3, <2>2
    <3> HIDE DEF st
    <3>2. \A i \in DOMAIN tok : i \in 1..Len(tok)
        BY <1>1
    <3> QED
        BY <1>2, <1>6, <2>2, <3>1, <3>2
  <2>6. Ref(b, p + 1).glue
    <3>1. c = "'" => Ref(b, p).glue
      <4>1. CASE tok = <<>>
        <5>1. st = p
            BY <1>3, <4>1
        <5> HIDE DEF st
        <5> QED
            BY <1>2, <5>1 DEF Starts, Here
      <4> QED
          BY <1>2, <4>1
    <3>2. ~Ref(b, p).com
        BY <1>2, <1>3
    <3> QED
        BY <1>6, <3>1, <3>2, GlueStep DEF Here
  <2>7. \A i \in st..(p + 1) : ~Ref(b, i).com
    <3>1. \A i \in st..(p + 1) : i \in st..p \/ i = p + 1
        BY <1>3
    <3> QED
        BY <1>2, <3>1 DEF Here
  <2>8. InToken(b, p + 1, stk, got, t)
      BY <1>2, <2>3, <2>4, <2>5, <2>6, <2>7 DEF InToken
  <2>9. Parser(b, p + 1, "token", stk, got, t, q, e)
      BY <1>1, <2>8 DEF Parser
  <2> QED
      BY <1>1, <2>1, <2>9 DEF Here, Goto, Good, Fine, problem
<1> QED
    BY <1>5, <1>6

\* A symbol goes on.
LEMMA SymbolStays ==
  ASSUME NEW b, NEW p, NEW c, NEW l, Here(b, p, c, l), Nested(stk), NEW t, NEW x, NEW y,
         Goto(l, "symbol"), tok' = t, q' = x, e' = y, UNCHANGED <<stk, got>>, Fine,
         LET s == Ref(b, p + 1) IN
         /\ s.toks = got /\ s.open = stk /\ s.cur = t /\ s.q = x /\ s.e = y /\ s.in,
         stk = <<>> => got = <<>>,
         After(stk, got) /\ Ref(b, p + 1).lit /\ t = <<".">> => p + 1 < Len(b) /\ ~IsSpace(b[(p + 1) + 1])
  PROVE  Good(b, l)
<1>1. InSymbol(b, p + 1, stk, got, t, x, y)
    BY DEF InSymbol, Here
<1>2. Parser(b, p + 1, "symbol", stk, got, t, x, y)
    BY <1>1 DEF Parser
<1> QED
    BY <1>2 DEF Here, Goto, Good, Fine, problem

\* A symbol that is a dot is one character long.
LEMMA DotAlone ==
  ASSUME NEW t \in Seq(Chars), NEW c \in Chars, Append(t, c) = <<".">>
  PROVE  t = <<>> /\ c = "."
<1>1. Len(Append(t, c)) = Len(t) + 1 /\ Append(t, c)[Len(t) + 1] = c /\ Len(t) \in Nat
    BY ZenonT(30), AppendFacts, LenProperties
<1>2. Len(<<".">>) = 1 /\ <<".">>[1] = "."
    OBVIOUS
<1>3. Len(t) = 0
    BY <1>1, <1>2
<1> QED
    BY <1>1, <1>2, <1>3

\* reads(): a symbol, with its quotes and escapes.
LEMMA SymbolGood ==
  ASSUME NEW b, NEW p, NEW c, NEW l, Here(b, p, c, l), ParserNow(b, p), Symbol(c, l)
  PROVE  Good(b, l) \/ (Bad /\ IsRdMac(c) /\ ~q /\ ~e)
<1> DEFINE s == Ref(b, p)
           r == Ref(b, p + 1)
<1>1. /\ pc = "symbol" /\ s.toks = got /\ s.open = stk /\ s.cur = tok /\ s.q = q /\ s.e = e /\ ~s.com
      /\ (~s.in => Starts(b, p) /\ Expects(b, p, stk, got)) /\ (stk = <<>> => got = <<>>)
      /\ (After(stk, got) /\ s.in /\ s.lit /\ tok = <<".">> => p < Len(b) /\ ~IsSpace(b[p + 1]))
      /\ Nested(stk)
    BY DEF Symbol, At, ParserNow, Parser, InSymbol
<1>2. /\ stk \in Seq(Openers) /\ got \in Seq(Toks) /\ tok \in Seq(Chars) /\ q \in BOOLEAN /\ e \in BOOLEAN
      /\ s \in SaysType /\ Sane(s) /\ r = Says1(s, c) /\ c \in Chars /\ ~r.com
    BY DEF Here, ParserNow, Sorts
<1>3. CASE ~e /\ c = "bs"
  <2>1. Goto(l, "symbol") /\ tok' = tok /\ q' = q /\ e' = TRUE /\ UNCHANGED <<stk, got>> /\ Fine
      BY <1>3 DEF Symbol, Fine
  <2> HIDE DEF s
  <2>2. r.toks = got /\ r.open = stk /\ r.cur = tok /\ r.in /\ r.e = TRUE /\ ~r.lit /\ r.q = q
    <3>1. /\ Says1(s, "bs") \in SaysType /\ Says1(s, "bs").e /\ Says1(s, "bs").in /\ ~Says1(s, "bs").lit
          /\ Says1(s, "bs").toks = s.toks /\ Says1(s, "bs").open = s.open /\ Says1(s, "bs").cur = s.cur
          /\ Says1(s, "bs").q = s.q
        BY <1>1, <1>2, <1>3, SlashSays
    <3>2. Says1(s, "bs").e \in BOOLEAN
        BY <3>1, SaysFields
    <3> QED
        BY <1>1, <1>2, <1>3, <3>1, <3>2
  <2> QED
      BY <1>1, <2>1, <2>2, SymbolStays
<1>4. CASE ~e /\ c = "quo"
  <2>1. Goto(l, "symbol") /\ tok' = tok /\ q' = (~q) /\ e' = e /\ UNCHANGED <<stk, got>> /\ Fine
      BY <1>4 DEF Symbol, Fine
  <2> HIDE DEF s
  <2>2. r.toks = got /\ r.open = stk /\ r.cur = tok /\ r.in /\ r.e = e /\ ~r.lit /\ r.q = (~q)
    <3>1. /\ Says1(s, "quo") \in SaysType /\ ~Says1(s, "quo").e /\ Says1(s, "quo").in /\ ~Says1(s, "quo").lit
          /\ Says1(s, "quo").toks = s.toks /\ Says1(s, "quo").open = s.open /\ Says1(s, "quo").cur = s.cur
          /\ Says1(s, "quo").q = ~s.q
        BY <1>1, <1>2, <1>4, QuoteSays
    <3>2. Says1(s, "quo").e \in BOOLEAN
        BY <3>1, SaysFields
    <3> QED
        BY <1>1, <1>2, <1>4, <3>1, <3>2
  <2> QED
      BY <1>1, <2>1, <2>2, SymbolStays
<1>5. CASE ~e /\ ~q /\ IsRdMac(c)
  <2>1. c \notin {"bs", "quo"}
      BY <1>5 DEF IsRdMac
  <2>2. Error(<<c>>)
      BY <1>5, <2>1 DEF Symbol
  <2>3. <<c>> \in Seq(Chars)
      BY <1>2
  <2> QED
      BY <1>5, <2>2, <2>3 DEF Bad
<1>6. CASE ~e /\ ~q /\ ~IsRdMac(c) /\ IsTokSep(c)
  <2> DEFINE g == Append(got, Sym(tok))
  <2>1. c \notin {"bs", "quo"} /\ c # "eot"
      BY <1>1, <1>6, Kinds DEF Here
  <2>2. Goto(Unget(l, c), "return") /\ got' = g /\ tok' = <<>> /\ UNCHANGED <<stk, q, e>> /\ Fine
      BY <1>6, <2>1 DEF Symbol
  <2>3. Free(b, p)
      BY <1>1, <1>2, <1>6 DEF Free, Here
  <2>4. Sym(tok) \in Toks /\ \A d \in {"(", ")", "[", "]", "."} : Sym(tok) # Mark(d)
      BY <1>2, TokenFacts, MarkKinds
  <2>5. Ends(g) /\ g \in Seq(Toks)
      BY <1>2, <2>4, EndsAppend
  <2>6. Doomed(b, p, stk) \/ Is(b, p, SubSeq(stk, 1, Outside(stk)), Quoted(stk, g))
    <3>1. CASE s.in
      <4> DEFINE space == (p < Len(b) /\ IsSpace(b[p + 1]))
      <4>1. space = IsSpace(c)
        <5>1. p < Len(b) /\ b[p + 1] = c /\ IsSpace(c) \in BOOLEAN
            BY Kinds DEF Here
        <5> QED
            BY <5>1
      <4>2. ~DotOfList(s, space)
          BY <1>1, <3>1, <4>1 DEF DotOfList, After, Top, Here
      <4>3. space \in BOOLEAN
          OBVIOUS
      <4> HIDE DEF space
      <4>4. /\ Ending(b, p).toks = Quoted(s.open, Append(s.toks, Sym(s.cur)))
            /\ Ending(b, p).open = SubSeq(s.open, 1, Outside(s.open))
            /\ Is(b, p, Ending(b, p).open, Ending(b, p).toks)
          BY <2>3, <3>1, <4>2, <4>3, SymbolEnds DEF Here, space
      <4> QED
          BY <1>1, <4>4
    <3>2. CASE ~s.in
      <4>1. Peeked(b, p) /\ ~IsSpace(c) /\ c \notin {"(", "["}
          BY <1>1, <3>2 DEF Starts, Peeked, Here
      <4>2. c \in Closers
          BY <1>6, <2>1, <4>1, Kinds
      <4>3. stk = <<>> \/ Last(stk) = "."
          BY <1>1, <3>2, <4>2 DEF Expects, Here
      <4>4. CASE stk = <<>>
          BY <2>3, <4>1, <4>2, <4>4 DEF Doomed, Here
      <4>5. CASE stk # <<>> /\ Last(stk) = "."
        <5>1. got # <<>> /\ Last(got) = Mark(".")
            BY <1>1, <3>2, <4>5 DEF Expects, Top
        <5>2. tok = <<>>
            BY <1>1, <1>2, <3>2 DEF Sane
        <5>3. Ended(b, p) = Missing(s)
            BY <1>1, <3>2, <4>2, EndingOut DEF Ended, Here
        <5> HIDE DEF s
        <5>4. Missing(s).toks = Quoted(stk, Append(got, Sym(<<>>))) /\ Missing(s).open = SubSeq(stk, 1, Outside(stk))
            BY <1>1, <1>2, <5>1, MissingFacts
        <5> QED
            BY <2>3, <5>2, <5>3, <5>4 DEF Is
      <4> QED
          BY <4>3, <4>4, <4>5
    <3> QED
        BY <3>1, <3>2
  <2> HIDE DEF g
  <2>7. Parser(b, p, "return", stk, g, <<>>, q, e)
      BY <1>6, <2>5, <2>6 DEF Parser
  <2> QED
      BY <1>1, <2>2, <2>3, <2>7, PutBack DEF Goto, Good, Fine, problem
<1>7. CASE e
  <2>1. /\ Goto(l, "symbol") /\ tok' = Append(tok, Escaped(c)) /\ q' = q /\ e' = FALSE
        /\ UNCHANGED <<stk, got>> /\ Fine
      BY <1>7 DEF Symbol
  <2> HIDE DEF s
  <2>2. r.toks = got /\ r.open = stk /\ r.cur = Append(tok, Escaped(c)) /\ r.in /\ r.e = FALSE /\ ~r.lit /\ r.q = q
    <3>1. /\ Says1(s, c) \in SaysType /\ ~Says1(s, c).e /\ Says1(s, c).in /\ Says1(s, c).lit = s.lit
          /\ Says1(s, c).toks = s.toks /\ Says1(s, c).open = s.open
          /\ Says1(s, c).cur = Append(s.cur, Escaped(c)) /\ Says1(s, c).q = s.q
        BY <1>1, <1>2, <1>7, EscapedSays
    <3>2. Says1(s, c).e \in BOOLEAN
        BY <3>1, SaysFields
    <3>3. ~s.lit
        BY <1>1, <1>2, <1>7 DEF Sane
    <3> QED
        BY <1>1, <1>2, <3>1, <3>2, <3>3
  <2> QED
      BY <1>1, <2>1, <2>2, SymbolStays
<1>8. CASE ~e /\ c \notin {"bs", "quo"} /\ (q \/ (~IsRdMac(c) /\ ~IsTokSep(c)))
  <2>1. /\ Goto(l, "symbol") /\ tok' = Append(tok, c) /\ q' = q /\ e' = FALSE
        /\ UNCHANGED <<stk, got>> /\ Fine
      BY <1>8 DEF Symbol
  <2>2. ~q => c # ";"
    <3>1. ASSUME ~q, c = ";" PROVE FALSE
      <4>1. Bare(s)
          BY <1>1, <1>8, <3>1 DEF Bare
      <4>2. Says1(s, ";").com
          BY <1>2, <4>1, CommentSays
      <4> QED
          BY <1>2, <3>1, <4>2
    <3> QED
        BY <3>1
  <2>3. r = Char(s, c)
      BY <1>1, <1>2, <1>8, <2>2, SymbolSays DEF IsComment
  <2>4. /\ r.toks = got /\ r.open = stk /\ r.cur = Append(tok, c) /\ r.in /\ r.e = FALSE
        /\ r.lit = s.lit /\ r.q = q
    <3>1. Char(s, c).e \in BOOLEAN
        BY <1>2, CharFacts, SaysFields
    <3>2. /\ Char(s, c).toks = s.toks /\ Char(s, c).open = s.open /\ Char(s, c).cur = Append(s.cur, c)
          /\ Char(s, c).in /\ ~Char(s, c).e /\ Char(s, c).lit = s.lit /\ Char(s, c).q = s.q
      <4> HIDE DEF s
      <4> QED
          BY <1>2, CharFacts
    <3> HIDE DEF s, r
    <3> QED
        BY <1>1, <2>3, <3>1, <3>2
  <2>5. After(stk, got) /\ r.lit /\ Append(tok, c) = <<".">> => p + 1 < Len(b) /\ ~IsSpace(b[(p + 1) + 1])
    <3> SUFFICES ASSUME After(stk, got), r.lit, Append(tok, c) = <<".">>
                 PROVE  p + 1 < Len(b) /\ ~IsSpace(b[(p + 1) + 1])
        OBVIOUS
    <3>1. tok = <<>> /\ c = "."
        BY <1>2, DotAlone
    <3>2. ~s.in
        BY <1>1, <1>2, <2>4, <3>1 DEF Sane
    <3>3. NotDot(b, p)
        BY <1>1, <3>2 DEF Expects
    <3>4. (p + 1) + 1 = p + 2
        BY DEF Here
    <3> QED
        BY <3>1, <3>3, <3>4 DEF NotDot, Here
  <2> QED
      BY <1>1, <1>8, <2>1, <2>4, <2>5, SymbolStays
<1> QED
    BY <1>2, <1>3, <1>4, <1>5, <1>6, <1>7, <1>8

\* exread(): only white space may follow.
LEMMA ExtraGood ==
  ASSUME NEW b, NEW p, NEW c, NEW l, Here(b, p, c, l), ParserNow(b, p), Extra(c, l)
  PROVE  Good(b, l) \/ (Bad /\ ~IsSpace(c))
<1>1. /\ pc = "extra" /\ Ends(got) /\ stk = <<>> /\ (Doomed(b, p, stk) \/ Is(b, p, stk, got))
      /\ tok = <<>> /\ ~q /\ ~e /\ Nested(stk)
    BY DEF Extra, At, ParserNow, Parser
<1>2. CASE IsSpace(c)
  <2>1. Goto(l, "extra") /\ Rest
      BY <1>2 DEF Extra
  <2>2. ~Doomed(b, p, stk)
      BY <1>2 DEF Doomed, Peeked, Here
  <2>3. Is(b, p + 1, stk, got)
      BY <1>1, <1>2, <2>2, SpaceIs DEF Ends
  <2>4. Parser(b, p + 1, "extra", stk, got, tok, q, e)
      BY <1>1, <2>3 DEF Parser
  <2> QED
      BY <1>1, <2>1, <2>4, Stays
<1>3. CASE ~IsSpace(c)
  <2> DEFINE u == Unget(l, c)
  <2>1. Error(SubSeq(u.buf, u.ri + 1, Len(u.buf)))
      BY <1>3 DEF Extra
  <2>2. u \in Lines
      BY UngetType DEF Here
  <2> HIDE DEF u
  <2>3. u.buf \in Seq(Chars) /\ Len(u.buf) \in Nat /\ u.ri \in Nat
      BY <2>2, LinesFacts
  <2>4. SubSeq(u.buf, u.ri + 1, Len(u.buf)) \in Seq(Chars)
    <3>1. \A i \in (u.ri + 1)..Len(u.buf) : u.buf[i] \in Chars
        BY <2>3
    <3> QED
        BY <2>3, <3>1, SubSeqProperties
  <2> QED
      BY <1>3, <2>1, <2>4 DEF Bad
<1> QED
    BY <1>2, <1>3

\* read1() returns.
LEMMA ReturnGood ==
  ASSUME NEW b \in Seq(Chars), NEW p \in 0..Len(b), ParserNow(b, p), Return
  PROVE  Parser(b, p, pc', stk', got', tok', q', e') /\ Nested(stk')
<1>1. /\ pc = "return" /\ Ends(got) /\ tok = <<>> /\ ~q /\ ~e /\ Nested(stk)
      /\ Doomed(b, p, stk) \/ Is(b, p, SubSeq(stk, 1, Outside(stk)), Quoted(stk, got))
      /\ UNCHANGED <<tok, q, e>>
      /\ stk \in Seq(Openers) /\ got \in Seq(Toks)
    BY DEF Return, At, ParserNow, Parser, Sorts
<1>2. CASE stk = <<>>
  <2>1. pc' = "extra" /\ UNCHANGED <<stk, got>>
      BY <1>2 DEF Return
  <2>2. Quoted(stk, got) = got /\ SubSeq(stk, 1, Outside(stk)) = stk
    <3>1. Outside(stk) = 0
        BY <1>1, <1>2, OutsideLast
    <3>2. Quoted(stk, got) = got
        BY <1>1, <1>2, QuotedFacts
    <3>3. SubSeq(stk, 1, 0) = <<>>
        BY <1>2
    <3> QED
        BY <1>2, <3>1, <3>2, <3>3
  <2>3. Parser(b, p, "extra", stk, got, tok, q, e)
      BY <1>1, <1>2, <2>2 DEF Parser
  <2> QED
      BY <1>1, <2>1, <2>3
<1>3. CASE stk # <<>> /\ Last(stk) = "'"
  <2> DEFINE k == Front(stk)
             g == Append(got, Mark(")"))
  <2>1. stk' = k /\ got' = g /\ pc' = "return"
      BY <1>1, <1>3 DEF Return
  <2>2. Ends(g)
      BY <1>1, MarkKinds, EndsAppend
  <2>3. Quoted(k, g) = Quoted(stk, got)
      BY <1>1, <1>3, QuotedFacts
  <2>4. SubSeq(k, 1, Outside(k)) = SubSeq(stk, 1, Outside(stk))
    <3>1. Outside(k) = Outside(stk) /\ Outside(stk) \in 0..(Len(stk) - 1)
        BY <1>1, <1>3, OutsideLast
    <3>2. k \in Seq(Openers) /\ Len(k) = Len(stk) - 1 /\ \A i \in 1..(Len(stk) - 1) : k[i] = stk[i]
        BY <1>1, <1>3, LastFront
    <3> HIDE DEF k
    <3> DEFINE n == Outside(stk)
    <3>3. n \in 0..(Len(stk) - 1) /\ Outside(k) = n
        BY <3>1
    <3> HIDE DEF n
    <3>4. n \in 0..Len(k) /\ n \in 0..Len(stk) /\ \A i \in 1..n : i \in 1..(Len(stk) - 1)
        BY <1>1, <3>2, <3>3
    <3>5. SubSeq(k, 1, n) = SubSeq(stk, 1, n)
      <4>1. SubSeq(k, 1, n) \in Seq(Openers) /\ Len(SubSeq(k, 1, n)) = n /\ \A i \in 1..n : SubSeq(k, 1, n)[i] = k[i]
          BY <3>2, <3>4, PrefixFacts
      <4>2. SubSeq(stk, 1, n) \in Seq(Openers) /\ Len(SubSeq(stk, 1, n)) = n /\ \A i \in 1..n : SubSeq(stk, 1, n)[i] = stk[i]
          BY <1>1, <3>4, PrefixFacts
      <4>3. \A i \in 1..n : SubSeq(k, 1, n)[i] = SubSeq(stk, 1, n)[i]
          BY <3>2, <3>4, <4>1, <4>2
      <4> QED
          BY <4>1, <4>2, <4>3, SeqEqual
    <3> QED
        BY <3>3, <3>5 DEF n
  <2>5. ~Doomed(b, p, stk)
      BY <1>3 DEF Doomed
  <2>6. Nested(k)
      BY <1>1, <1>3, NestedFront
  <2> HIDE DEF k, g
  <2>7. Parser(b, p, "return", k, g, tok, q, e)
      BY <1>1, <2>2, <2>3, <2>4, <2>5 DEF Parser
  <2> QED
      BY <1>1, <2>1, <2>6, <2>7
<1>4. CASE stk # <<>> /\ Last(stk) # "'"
  <2>1. UNCHANGED <<stk, got>>
      BY <1>4 DEF Return
  <2>2. Quoted(stk, got) = got /\ SubSeq(stk, 1, Outside(stk)) = stk
    <3>1. Outside(stk) = Len(stk) /\ Len(stk) \in Nat
        BY <1>1, <1>4, OutsideLast, LenProperties
    <3>2. SubSeq(stk, 1, Len(stk)) = stk
        BY <1>1
    <3> QED
        BY <1>1, <1>4, <3>1, <3>2, QuotedFacts
  <2>3. Is(b, p, stk, got)
      BY <1>1, <1>4, <2>2 DEF Doomed
  <2>4. Last(stk) \in {"(", "[", "."}
    <3>1. Last(stk) \in Openers
        BY <1>1, <1>4, LastFront
    <3> QED
        BY <1>4, <3>1 DEF Openers
  <2>5. CASE Last(stk) = "("
    <3>1. pc' = "dot"
        BY <1>4, <2>5 DEF Return
    <3>2. Parser(b, p, "dot", stk, got, tok, q, e)
        BY <1>1, <1>4, <2>3, <2>5 DEF Parser, Top
    <3> QED
        BY <1>1, <2>1, <3>1, <3>2
  <2>6. CASE Last(stk) = "["
    <3>1. pc' = "elem"
        BY <1>4, <2>6 DEF Return
    <3>2. InElem(b, p, stk, got)
        BY <1>1, <1>4, <2>3, <2>6 DEF InElem, Ends, After, Top
    <3>3. Parser(b, p, "elem", stk, got, tok, q, e)
        BY <1>1, <3>2 DEF Parser
    <3> QED
        BY <1>1, <2>1, <3>1, <3>3
  <2>7. CASE Last(stk) = "."
    <3>1. pc' = "close"
        BY <1>4, <2>7 DEF Return
    <3>2. Parser(b, p, "close", stk, got, tok, q, e)
        BY <1>1, <1>4, <2>3, <2>7 DEF Parser, Top
    <3> QED
        BY <1>1, <2>1, <3>1, <3>2
  <2> QED
      BY <2>4, <2>5, <2>6, <2>7
<1> QED
    BY <1>2, <1>3, <1>4

\* exread() returns: nothing but the expression was typed.
LEMMA FinishRight ==
  ASSUME NEW b \in Seq(Chars), Parser(b, Len(b), "extra", <<>>, got, tok, q, e)
  PROVE  got = Says(b).toks
<1>1. Len(b) \in Nat /\ Len(b) \in 0..Len(b)
    BY LenProperties
<1>2. ~Doomed(b, Len(b), <<>>)
  <2>1. ~(Len(b) < Len(b))
      BY <1>1
  <2> QED
      BY <2>1 DEF Doomed, Peeked
<1>3. Is(b, Len(b), <<>>, got)
    BY <1>2 DEF Parser
<1>4. Free(b, Len(b)) /\ Ending(b, Len(b)).toks = got
    BY <1>1, <1>3 DEF Is, Ended
<1>5. ~Ref(b, Len(b)).in
    BY <1>1, <1>4 DEF Free
<1>6. Ending(b, Len(b)) = Ref(b, Len(b)) /\ Ref(b, Len(b)) = Says(b)
    BY <1>1, <1>5, EndingOut, RefFacts
<1> QED
    BY <1>4, <1>6

\* When the parser is at an error.
Faulty(c) == \/ pc = "macro2" /\ (IsSpace(c) \/ c \in Closers)
             \/ pc \in {"elem", "close"}
             \/ pc = "symbol" /\ IsRdMac(c) /\ ~q /\ ~e
             \/ pc = "extra" /\ ~IsSpace(c)

\* Whatever is done with the character: all agree after it, or an error is found at a character
\* that is one.
LEMMA TakeGood ==
  ASSUME NEW b, NEW p, NEW c, NEW l, Here(b, p, c, l), ParserNow(b, p), Take(c, l)
  PROVE  Good(b, l) \/ (Bad /\ Faulty(c))
<1>1. CASE Skip(c, l)
    BY <1>1, SkipGood
<1>2. CASE Macro(c, l)
    BY <1>2, MacroGood
<1>3. CASE Macro2(c, l)
  <2>1. pc = "macro2"
      BY <1>3 DEF Macro2, At
  <2> QED
      BY <1>3, <2>1, Macro2Good DEF Faulty
<1>4. CASE Vector(c, l)
    BY <1>4, VectorGood
<1>5. CASE Pair(c, l)
    BY <1>5, PairGood
<1>6. CASE Elem(c, l)
  <2>1. pc = "elem"
      BY <1>6 DEF Elem, At
  <2> QED
      BY <1>6, <2>1, ElemGood DEF Faulty
<1>7. CASE Dot(c, l)
    BY <1>7, DotGood
<1>8. CASE Dot2(c, l)
    BY <1>8, Dot2Good
<1>9. CASE Close(c, l)
  <2>1. pc = "close"
      BY <1>9 DEF Close, At
  <2> QED
      BY <1>9, <2>1, CloseGood DEF Faulty
<1>10. CASE Token(c, l)
    BY <1>10, TokenGood
<1>11. CASE Symbol(c, l)
  <2>1. pc = "symbol"
      BY <1>11 DEF Symbol, At
  <2> QED
      BY <1>11, <2>1, SymbolGood DEF Faulty
<1>12. CASE Extra(c, l)
  <2>1. pc = "extra"
      BY <1>12 DEF Extra, At
  <2> QED
      BY <1>12, <2>1, ExtraGood DEF Faulty
<1> QED
    BY <1>1, <1>2, <1>3, <1>4, <1>5, <1>6, <1>7, <1>8, <1>9, <1>10, <1>11, <1>12 DEF Take

\* A character of a comment.
LEMMA CommentStep ==
  ASSUME NEW b \in Seq(Chars), NEW p \in 0..(Len(b) - 1), Ref(b, p + 1).com, Says(b).odd = {}
  PROVE  /\ ~Peeked(b, p)
         /\ ~Ref(b, p).com => ~Ref(b, p).in /\ ~Ref(b, p).glue
         /\ Ref(b, p + 1).in = Ref(b, p).in
         /\ Ref(b, p + 1).toks = Ref(b, p).toks /\ Ref(b, p + 1).open = Ref(b, p).open
         /\ Ref(b, p).com \/ b[p + 1] \notin Closers
<1> DEFINE s == Ref(b, p)
           r == Ref(b, p + 1)
           c == b[p + 1]
<1>1. s \in SaysType /\ Sane(s) /\ c \in Chars /\ r = Says1(s, c) /\ r \in SaysType /\ r.odd = {} /\ r.com
  <2>1. r.odd \subseteq Says(b).odd
      BY RefNext, RefOdd
  <2> QED
      BY <2>1, RefNext
<1>2. CASE s.com
  <2> HIDE DEF s
  <2>1. Says1(s, c).com = (c # "nl")
      BY <1>1, <1>2, CommentGoes
  <2>2. r = s
      BY <1>1, <1>2, <2>1, InCommentSays
  <2> QED
      BY <1>2, <2>2 DEF Peeked, s
<1>3. CASE ~s.com
  <2> HIDE DEF s
  <2>1. c = ";" /\ Bare(s)
    <3>1. s.e \in BOOLEAN /\ s.q \in BOOLEAN
        BY <1>1, SaysFields
    <3>2. CASE s.e
        BY <1>1, <1>3, <3>2, EscapedSays
    <3>3. CASE ~s.e
      <4>1. Says1(s, c).com = (c = ";" /\ ~s.q)
          BY ZenonT(30), <1>1, <1>3, <3>3, SaysStep
      <4> QED
          BY <1>1, <1>3, <3>3, <4>1 DEF Bare
    <3> QED
        BY <3>2, <3>3
  <2>2. /\ Says1(s, ";").toks = s.toks /\ Says1(s, ";").open = s.open /\ Says1(s, ";").in = s.in
        /\ s.glue => Says1(s, ";").odd # {}
      BY <1>1, <2>1, CommentSays
  <2>3. ~s.glue /\ ~s.in
      BY <1>1, <2>1, <2>2 DEF Sane
  <2> QED
      BY <1>1, <2>1, <2>2, <2>3 DEF Peeked, s, Closers
<1> QED
    BY <1>2, <1>3

\* A character of a comment: nothing is done with it, and the text says nothing by it.
LEMMA CommentGood ==
  ASSUME NEW b \in Seq(Chars), NEW p \in 0..(Len(b) - 1), Ref(b, p + 1).com, Says(b).odd = {},
         ParserNow(b, p), pc \notin {"return", "done"}
  PROVE  Parser(b, p + 1, pc, stk, got, tok, q, e)
<1> DEFINE s == Ref(b, p)
           r == Ref(b, p + 1)
<1>1. /\ ~Peeked(b, p) /\ (~s.com => ~s.in /\ ~s.glue) /\ r.in = s.in
      /\ r.toks = s.toks /\ r.open = s.open /\ (s.com \/ b[p + 1] \notin Closers) /\ r.com
    BY CommentStep
<1>2. Len(b) \in Nat /\ p \in 0..Len(b) /\ p + 1 \in 0..Len(b) /\ p \in Nat
    BY LenProperties
<1>3. Free(b, p) => /\ ~s.in /\ Free(b, p + 1) /\ Ending(b, p) = s /\ Ending(b, p + 1) = r /\ Ended(b, p) = s
  <2> SUFFICES ASSUME Free(b, p) PROVE ~s.in /\ Free(b, p + 1) /\ Ending(b, p) = s /\ Ending(b, p + 1) = r /\ Ended(b, p) = s
      OBVIOUS
  <2>1. ~s.in
      BY <1>1 DEF Free
  <2>2. ~r.in
      BY <1>1, <2>1
  <2>3. Free(b, p + 1) /\ Ending(b, p) = s /\ Ending(b, p + 1) = r
      BY <1>2, <2>1, <2>2, Between
  <2> QED
      BY <1>1, <2>1, <2>3 DEF Ended
<1>4. ASSUME Pre(b, p, stk, got) PROVE Pre(b, p + 1, stk, got)
  <2>1. stk # <<>> => Last(stk) = "."
      BY <1>1, <1>4 DEF Pre, Expects
  <2> QED
      BY <1>1, <1>3, <1>4, <2>1 DEF Pre, Expects, After, Top
<1>5. ASSUME Is(b, p, stk, got), got = <<>> \/ Last(got) # Mark(".") PROVE Is(b, p + 1, stk, got)
  <2>1. Free(b, p) /\ s.toks = got /\ s.open = stk
      BY <1>3, <1>5 DEF Is
  <2> QED
      BY <1>1, <1>2, <1>3, <1>5, <2>1, IsFrom
<1>6. pc \notin {"macro", "vector", "pair", "token", "symbol", "dot2"}
  <2>1. pc \notin {"macro", "vector", "pair"}
      BY <1>1 DEF ParserNow, Parser
  <2>2. pc # "token"
    <3> SUFFICES ASSUME pc = "token" PROVE FALSE
        OBVIOUS
    <3> DEFINE st == p - Len(tok)
    <3>1. /\ Starts(b, st) /\ (tok # <<>> => s.glue) /\ (\A i \in st..p : ~Ref(b, i).com) /\ tok \in Seq(Chars)
        BY DEF ParserNow, Parser, InToken, Sorts
    <3>2. Len(tok) \in Nat /\ p \in st..p
        BY <1>2, <3>1, LenProperties
    <3>3. tok = <<>>
        BY <1>1, <3>1, <3>2
    <3>4. st = p
        BY <1>2, <3>3
    <3> QED
        BY <1>1, <3>1, <3>4 DEF Starts
  <2>3. pc # "symbol"
      BY <1>1 DEF ParserNow, Parser, InSymbol, Starts
  <2>4. pc # "dot2"
      BY <1>1 DEF ParserNow, Parser, InDot2
  <2> QED
      BY <2>1, <2>2, <2>3, <2>4
<1>7. /\ tok = <<>> /\ ~q /\ ~e
    BY <1>6 DEF ParserNow, Parser
<1>8. pc = "skip" => Pre(b, p + 1, stk, got)
    BY <1>4 DEF ParserNow, Parser
<1>9. pc = "macro2" => /\ Free(b, p + 1) /\ ~Ref(b, p + 1).in /\ p + 1 >= 1
                       /\ Ref(b, p + 1).toks = got \o <<Mark("("), Sym(<<"quote">>)>>
                       /\ Ref(b, p + 1).open = Append(stk, "'")
  <2> SUFFICES ASSUME pc = "macro2"
               PROVE  /\ Free(b, p + 1) /\ ~r.in /\ p + 1 >= 1
                      /\ r.toks = got \o <<Mark("("), Sym(<<"quote">>)>> /\ r.open = Append(stk, "'")
      OBVIOUS
  <2>1. /\ Free(b, p) /\ ~s.in /\ s.toks = got \o <<Mark("("), Sym(<<"quote">>)>> /\ s.open = Append(stk, "'")
      BY DEF ParserNow, Parser
  <2>2. p + 1 >= 1
      BY <1>2
  <2> HIDE DEF s, r
  <2> QED
      BY <1>1, <1>3, <2>1, <2>2
<1>10. pc = "elem" => InElem(b, p + 1, stk, got)
    BY <1>1, <1>5 DEF ParserNow, Parser, InElem
<1>11. /\ pc = "dot" => Is(b, p + 1, stk, got) /\ Ends(got) /\ Top(stk, "(")
       /\ pc = "close" => Is(b, p + 1, stk, got) /\ Ends(got) /\ Top(stk, ".")
       /\ pc = "extra" => Ends(got) /\ stk = <<>> /\ Is(b, p + 1, stk, got)
  <2>1. ~Doomed(b, p, stk)
      BY <1>1 DEF Doomed
  <2> QED
      BY <1>5, <2>1 DEF ParserNow, Parser, Ends
<1> HIDE DEF s, r
<1> QED
    BY <1>6, <1>7, <1>8, <1>9, <1>10, <1>11 DEF Parser

\* A character is typed: the parser does not depend on it.
LEMMA TypedGood ==
  ASSUME NEW b \in Seq(Chars), NEW c \in Chars, NEW d \in Seq(Chars), d = Append(b, c),
         ParserNow(b, Len(b)), pc \notin {"return", "extra", "done"}
  PROVE  Parser(d, Len(b), pc, stk, got, tok, q, e)
<1> DEFINE n == Len(b)
<1>1. n \in Nat /\ n \in 0..Len(b) /\ Len(d) = n + 1 /\ n \in 0..Len(d) /\ d[n + 1] = c /\ \A i \in 1..n : d[i] = b[i]
    BY AppendFacts, LenProperties
<1>2. \A i \in 0..n : Ref(d, i) = Ref(b, i)
  <2> SUFFICES ASSUME NEW i \in 0..n PROVE Ref(d, i) = Ref(b, i)
      OBVIOUS
  <2>1. i \in 0..Len(b) /\ i \in 0..Len(d) /\ i <= Len(d) /\ \A j \in 1..i : d[j] = b[j]
      BY <1>1
  <2> HIDE DEF n
  <2>2. Ref(b, i) = Ref(d, i)
      BY <2>1, RefSame
  <2> QED
      BY <2>2
<1>3. ~Peeked(b, n)
  <2>1. ~(n < Len(b))
      BY <1>1
  <2> HIDE DEF n
  <2> QED
      BY <2>1 DEF Peeked
<1>4. Free(b, n) => /\ ~Ref(b, n).in /\ Free(d, n) /\ Ending(b, n) = Ref(b, n) /\ Ending(d, n) = Ref(b, n)
                    /\ Ended(b, n) = Ref(b, n)
  <2> SUFFICES ASSUME Free(b, n) PROVE /\ ~Ref(b, n).in /\ Free(d, n) /\ Ending(b, n) = Ref(b, n)
                                      /\ Ending(d, n) = Ref(b, n) /\ Ended(b, n) = Ref(b, n)
      OBVIOUS
  <2>1. ~Ref(b, n).in
      BY <1>1 DEF Free
  <2>2. ~Ref(d, n).in /\ Ref(d, n) = Ref(b, n)
      BY <1>1, <1>2, <2>1
  <2>3. Ending(b, n) = Ref(b, n)
      BY <1>1, <2>1, Between
  <2>4. Free(d, n) /\ Ending(d, n) = Ref(b, n)
      BY <1>1, <2>2, Between
  <2> QED
      BY <1>1, <2>1, <2>3, <2>4 DEF Ended
<1>5. ASSUME Pre(b, n, stk, got) PROVE Pre(d, n, stk, got)
  <2>1. stk # <<>> => Last(stk) = "."
      BY <1>3, <1>5 DEF Pre, Expects
  <2> QED
      BY <1>4, <1>5, <2>1 DEF Pre, Expects, After, Top
<1>6. ASSUME Is(b, n, stk, got), got = <<>> \/ Last(got) # Mark(".") PROVE Is(d, n, stk, got)
  <2>1. Free(b, n) /\ Ended(b, n).toks = got /\ Ended(b, n).open = stk
      BY <1>6 DEF Is
  <2>2. Free(d, n) /\ Ending(d, n).toks = got /\ Ending(d, n).open = stk
      BY <1>4, <2>1
  <2> HIDE DEF n
  <2> QED
      BY <1>1, <1>6, <2>2, IsFrom
<1>7. pc \notin {"macro", "vector", "pair"}
    BY <1>3 DEF ParserNow, Parser
<1>8. pc = "skip" => Pre(d, n, stk, got)
    BY <1>5 DEF ParserNow, Parser
<1>9. pc = "macro2" => /\ Free(d, n) /\ ~Ref(d, n).in /\ n >= 1
                       /\ Ref(d, n).toks = got \o <<Mark("("), Sym(<<"quote">>)>>
                       /\ Ref(d, n).open = Append(stk, "'")
    BY <1>1, <1>2, <1>4 DEF ParserNow, Parser
<1>10. pc = "elem" => InElem(d, n, stk, got)
    BY <1>3, <1>6 DEF ParserNow, Parser, InElem
<1>11. /\ pc = "dot" => Is(d, n, stk, got) /\ Ends(got) /\ Top(stk, "(")
       /\ pc = "close" => Is(d, n, stk, got) /\ Ends(got) /\ Top(stk, ".")
    BY <1>6 DEF ParserNow, Parser, Ends
<1>12. pc = "dot2" => InDot2(d, n, stk, got)
  <2> SUFFICES ASSUME pc = "dot2" PROVE InDot2(d, n, stk, got)
      OBVIOUS
  <2>1. InDot2(b, n, stk, got)
      BY DEF ParserNow, Parser
  <2>2. n >= 1
      BY <2>1 DEF InDot2
  <2>3. n - 1 \in 0..n /\ n \in 0..n /\ n \in 1..n
      BY <1>1, <2>2
  <2>4. Ref(d, n) = Ref(b, n) /\ Ref(d, n - 1) = Ref(b, n - 1) /\ d[n] = b[n]
      BY <1>1, <1>2, <2>3
  <2> HIDE DEF n
  <2> QED
      BY <2>1, <2>4 DEF InDot2
<1>13. pc = "symbol" => InSymbol(d, n, stk, got, tok, q, e)
  <2> SUFFICES ASSUME pc = "symbol" PROVE InSymbol(d, n, stk, got, tok, q, e)
      OBVIOUS
  <2>1. InSymbol(b, n, stk, got, tok, q, e)
      BY DEF ParserNow, Parser
  <2>2. Ref(d, n) = Ref(b, n)
      BY <1>1, <1>2
  <2>3. ~(n < Len(b))
      BY <1>1
  <2> HIDE DEF n
  <2> QED
      BY <1>3, <2>1, <2>2, <2>3 DEF InSymbol, Starts
<1>14. pc = "token" => InToken(d, n, stk, got, tok)
  <2> SUFFICES ASSUME pc = "token" PROVE InToken(d, n, stk, got, tok)
      OBVIOUS
  <2> DEFINE st == n - Len(tok)
  <2>1. /\ st >= 0 /\ Pre(b, st, stk, got) /\ ~Ref(b, st).in /\ Starts(b, st)
        /\ tok = SubSeq(b, st + 1, n) /\ (\A i \in DOMAIN tok : ~IsTokSep(tok[i]))
        /\ (tok # <<>> => Ref(b, n).glue) /\ (\A i \in st..n : ~Ref(b, i).com) /\ tok \in Seq(Chars)
      BY DEF ParserNow, Parser, InToken, Sorts
  <2>2. Len(tok) \in Nat /\ st \in 0..n /\ st \in Nat /\ st < n
    <3>1. st < Len(b)
        BY <2>1 DEF Starts, Peeked
    <3> QED
        BY <1>1, <2>1, <3>1, LenProperties
  <2>3. st + 1 \in 1..n /\ st < Len(d) /\ st \in 0..Len(d) /\ st \in 0..Len(b) /\ n \in 0..n
      BY <1>1, <2>2
  <2>4. Ref(d, st) = Ref(b, st) /\ d[st + 1] = b[st + 1] /\ Ref(d, n) = Ref(b, n)
      BY <1>1, <1>2, <2>2, <2>3
  <2>5. SubSeq(d, st + 1, n) = SubSeq(b, st + 1, n)
    <3> DEFINE m == st + 1
    <3>1. m \in Int /\ n \in Int /\ (\A i \in m..n : i \in 1..n /\ i \in 1..Len(b) /\ i \in 1..Len(d))
        BY <1>1, <2>3
    <3> HIDE DEF m, st
    <3>2. \A i \in m..n : d[i] = b[i] /\ d[i] \in Chars /\ b[i] \in Chars
        BY <1>1, <3>1
    <3>3. /\ SubSeq(d, m, n) \in Seq(Chars) /\ Len(SubSeq(d, m, n)) = (IF m <= n THEN n - m + 1 ELSE 0)
          /\ \A i \in 1..(n - m + 1) : SubSeq(d, m, n)[i] = d[m + i - 1]
        BY <3>1, <3>2, SubSeqProperties
    <3>4. /\ SubSeq(b, m, n) \in Seq(Chars) /\ Len(SubSeq(b, m, n)) = (IF m <= n THEN n - m + 1 ELSE 0)
          /\ \A i \in 1..(n - m + 1) : SubSeq(b, m, n)[i] = b[m + i - 1]
        BY <3>1, <3>2, SubSeqProperties
    <3>5. \A i \in 1..(n - m + 1) : m + i - 1 \in m..n
        BY <3>1
    <3>6. \A i \in 1..(n - m + 1) : SubSeq(d, m, n)[i] = SubSeq(b, m, n)[i]
        BY <3>2, <3>3, <3>4, <3>5
    <3>7. m <= n
        BY <2>2 DEF m
    <3>8. SubSeq(d, m, n) = SubSeq(b, m, n)
        BY <3>3, <3>4, <3>6, <3>7, SeqEqual
    <3> QED
        BY <3>8 DEF m
  <2>6. Starts(d, st) /\ Ending(d, st) = Ending(b, st)
    <3>1. (st < Len(d) /\ IsSpace(d[st + 1])) = (st < Len(b) /\ IsSpace(b[st + 1]))
      <4>1. IsSpace(b[st + 1]) \in BOOLEAN /\ st < Len(b)
          BY <2>2, Kinds
      <4> QED
          BY <2>3, <2>4, <4>1
    <3> HIDE DEF st
    <3>2. Starts(d, st)
        BY <2>1, <2>3, <2>4 DEF Starts, Peeked
    <3> QED
        BY <2>4, <3>1, <3>2 DEF Ending
  <2>7. Free(d, st) /\ Expects(d, st, stk, got)
    <3>1. NotDot(b, st) => NotDot(d, st)
      <4>1. ASSUME st + 2 <= Len(b) PROVE st + 2 <= Len(d) /\ d[st + 2] = b[st + 2]
        <5>1. st + 2 \in 1..n
            BY <1>1, <2>2, <4>1
        <5> QED
            BY <1>1, <2>2, <4>1, <5>1
      <4> HIDE DEF st
      <4> QED
          BY <2>4, <4>1 DEF NotDot
    <3> HIDE DEF st
    <3>2. Peeked(d, st)
        BY <2>6 DEF Starts
    <3> QED
        BY <2>1, <2>3, <2>4, <3>1, <3>2 DEF Pre, Free, Expects
  <2>8. \A i \in st..n : ~Ref(d, i).com
    <3>1. \A i \in st..n : i \in 0..n
        BY <2>2
    <3> QED
        BY <1>2, <2>1, <3>1
  <2>9. Pre(d, st, stk, got)
      BY <2>1, <2>6, <2>7 DEF Pre
  <2> QED
      BY <2>1, <2>4, <2>5, <2>6, <2>8, <2>9 DEF InToken
<1>15. /\ pc \notin {"token", "symbol"} => tok = <<>>
       /\ pc # "symbol" => ~q /\ ~e
    BY DEF ParserNow, Parser
<1> HIDE DEF n
<1>16. Parser(d, n, pc, stk, got, tok, q, e)
    BY <1>7, <1>8, <1>9, <1>10, <1>11, <1>12, <1>13, <1>14, <1>15 DEF Parser
<1> QED
    BY <1>16 DEF n

-----------------------------------------------------------------------------
(* mygetc(): with a character in the buffer.                               *)

Kept(b) == /\ line' \in Lines /\ line'.buf = b /\ Scan(line')
           /\ Parser(b, line'.ri, pc', stk', got', tok', q', e') /\ Nested(stk')
           /\ UNCHANGED problem

\* mygetc(), with the next character in the buffer.
LEMMA GetcGood ==
  ASSUME NEW m \in Lines, NEW b, NEW p, b = m.buf, p = m.ri, p < Len(b), Says(b).odd = {}, Scan(m),
         ParserNow(b, p), pc \notin {"return", "done"},
         NEW c, c = b[p + 1], c = "eot" => Ref(b, p).q \/ Ref(b, p).e \/ Ref(b, p).com,
         Getc([m EXCEPT !.ri = @ + 1])
  PROVE  \/ Kept(b) /\ (line'.notblank \/ (Ref(b, p + 1).com /\ line'.notblank = m.notblank))
         \/ EndRead /\ IsSpace(c) /\ ~m.notblank
         \/ Bad /\ Faulty(c)
<1> DEFINE l == [m EXCEPT !.ri = @ + 1]
           n == InComment(l)
           k == [n EXCEPT !.notblank = TRUE]
<1>1. /\ m \in LineType /\ b \in Seq(Chars) /\ Len(b) \in Nat /\ p \in Nat /\ p \in 0..(Len(b) - 1)
      /\ p + 1 \in 0..Len(b) /\ p + 1 <= Len(b)
  <2>1. m \in LineType /\ m.buf \in Seq(Chars) /\ Len(m.buf) \in Nat /\ m.ri \in Nat
      BY LinesFacts
  <2> QED
      BY <2>1
<1>2. n \in LineType /\ n.buf = b /\ n.ri = p + 1 /\ n.notblank = m.notblank /\ Scan(n)
    BY <1>1, Forward
<1>3. l.ri = p + 1 /\ l.buf = b
    BY <1>1 DEF LineType
<1>4. \/ n.ignore /\ line' = n /\ UNCHANGED <<parser, problem>>
      \/ ~n.ignore /\ IsSpace(c) /\ ~n.notblank /\ EndRead
      \/ ~n.ignore /\ (n.notblank \/ ~IsSpace(c)) /\ Take(c, k)
  <2>1. Getc(l)
      OBVIOUS
  <2> HIDE DEF l
  <2>2. l.buf[l.ri] = c
      BY <1>3
  <2> QED
      BY <2>1, <2>2 DEF Getc
<1> HIDE DEF n
<1>5. n \in Lines
    BY <1>1, <1>2 DEF Lines
<1>6. n.ignore = Ref(b, p + 1).com
    BY <1>2 DEF Scan
<1>7. CASE n.ignore /\ line' = n /\ UNCHANGED <<parser, problem>>
  <2>1. Parser(b, p + 1, pc, stk, got, tok, q, e)
      BY <1>1, <1>6, <1>7, CommentGood
  <2>2. pc' = pc /\ stk' = stk /\ got' = got /\ tok' = tok /\ q' = q /\ e' = e
      BY <1>7 DEF parser
  <2>3. Nested(stk)
      BY DEF ParserNow
  <2>4. Kept(b)
      BY <1>2, <1>5, <1>7, <2>1, <2>2, <2>3 DEF Kept
  <2> QED
      BY <1>2, <1>6, <1>7, <2>4
<1>8. CASE ~n.ignore /\ IsSpace(c) /\ ~n.notblank /\ EndRead
    BY <1>2, <1>8
<1>9. CASE ~n.ignore /\ Take(c, k)
  <2>1. k \in Lines /\ k.buf = b /\ k.ri = p + 1 /\ k.notblank = TRUE /\ k.quoted = n.quoted
        /\ k.ignore = n.ignore /\ k.esc = n.esc
      BY <1>2, <1>5 DEF Lines, LineType
  <2> HIDE DEF k
  <2>2. Scan(k)
      BY <1>2, <2>1 DEF Scan, Slash
  <2>3. Here(b, p, c, k)
      BY <1>1, <1>6, <1>9, <2>1, <2>2, HereIs
  <2>4. Good(b, k) \/ (Bad /\ Faulty(c))
      BY <1>9, <2>3, TakeGood
  <2> QED
      BY <2>1, <2>4 DEF Good, Kept
<1> QED
    BY <1>4, <1>7, <1>8, <1>9

\* ... where a character is typed.
LEMMA ScanTyped ==
  ASSUME NEW l \in Lines, NEW c \in Chars, Scan(l), l.ri = Len(l.buf),
         NEW m, m = [l EXCEPT !.buf = Append(@, c)]
  PROVE  /\ m \in Lines /\ Scan(m) /\ m.buf = Append(l.buf, c) /\ m.ri = l.ri /\ m.notblank = l.notblank
         /\ m.ri < Len(m.buf) /\ m.buf[m.ri + 1] = c
<1> DEFINE b == l.buf
           d == Append(b, c)
           n == Len(b)
<1>1. l \in LineType /\ b \in Seq(Chars) /\ n \in Nat /\ l.ri = n /\ l.esc \in Nat
    BY LinesFacts
<1>2. d \in Seq(Chars) /\ Len(d) = n + 1 /\ d[n + 1] = c /\ \A i \in 1..n : d[i] = b[i]
    BY <1>1, AppendFacts
<1>3. /\ m \in LineType /\ m.buf = d /\ m.ri = n /\ m.notblank = l.notblank /\ m.quoted = l.quoted
      /\ m.ignore = l.ignore /\ m.esc = l.esc
    BY <1>1, <1>2 DEF LineType
<1>4. Ref(d, n) = Ref(b, n)
  <2>1. n \in 0..Len(b) /\ n <= Len(d) /\ \A i \in 1..n : b[i] = d[i]
      BY <1>1, <1>2
  <2> HIDE DEF n, d
  <2> QED
      BY <1>1, <1>2, <2>1, RefSame
<1>5. m \in Lines /\ m.ri < Len(m.buf) /\ m.buf[m.ri + 1] = c
  <2>1. m.ri <= Len(m.buf) /\ m.ri < Len(m.buf) /\ m.buf[m.ri + 1] = c
      BY <1>1, <1>2, <1>3
  <2> QED
      BY <1>3, <2>1 DEF Lines
<1> HIDE DEF d
<1>6. /\ l.quoted = Ref(b, n).q /\ l.ignore = Ref(b, n).com /\ Slash(l)
      /\ Ref(b, n).e => l.esc = n
      /\ l.esc # NONE /\ l.esc = n => Ref(b, n).e
  <2>1. ~(n < Len(b))
      BY <1>1
  <2>2. l.ri = n /\ l.buf = b
      BY <1>1
  <2> HIDE DEF n
  <2> QED
      BY <2>1, <2>2 DEF Scan
<1>7. Slash(m)
  <2> SUFFICES ASSUME l.esc # NONE PROVE l.esc \in {n - 1, n} /\ l.esc >= 1 /\ d[l.esc] = "bs"
      BY <1>3 DEF Slash
  <2>1. l.esc \in {n - 1, n} /\ l.esc >= 1 /\ b[l.esc] = "bs"
      BY <1>1, <1>6 DEF Slash
  <2>2. l.esc \in 1..n
      BY <1>1, <2>1
  <2> QED
      BY <1>2, <2>1, <2>2
<1>8. n \in 0..Len(d)
    BY <1>1, <1>2
<1>9. Scan(m)
  <2> HIDE DEF n
  <2> QED
      BY <1>3, <1>4, <1>6, <1>7, <1>8 DEF Scan
<1> QED
    BY <1>1, <1>3, <1>5, <1>9 DEF d

\* Nothing has been read of a line.
LEMMA FreshGood ==
  ASSUME NEW b \in Seq(Chars), NEW l, l = [EmptyLine EXCEPT !.buf = b]
  PROVE  /\ l \in Lines /\ l.buf = b /\ l.ri = 0 /\ ~l.notblank /\ Scan(l)
         /\ Parser(b, 0, "skip", <<>>, <<>>, <<>>, FALSE, FALSE) /\ Nested(<<>>)
<1>1. Len(b) \in Nat /\ 0 \in 0..Len(b)
    BY LenProperties
<1>2. /\ l \in LineType /\ l.buf = b /\ l.ri = 0 /\ l.esc = NONE /\ ~l.quoted /\ ~l.ignore /\ ~l.notblank
    BY DEF EmptyLine, LineType, NONE
<1>3. l \in Lines
  <2>1. l.ri <= Len(l.buf)
      BY <1>1, <1>2
  <2> QED
      BY <1>2, <2>1 DEF Lines
<1>4. Ref(b, 0) = Start
    BY RefFacts
<1>5. ~Start.in /\ ~Start.q /\ ~Start.e /\ ~Start.com /\ Start.toks = <<>> /\ Start.open = <<>> /\ Start \in SaysType
    BY StartFacts DEF Start
<1>6. l.quoted \in BOOLEAN /\ l.ignore \in BOOLEAN /\ Start.q \in BOOLEAN /\ Start.com \in BOOLEAN
    BY <1>2, <1>5, LineFields, SaysFields
<1>7. Scan(l)
    BY <1>1, <1>2, <1>4, <1>5, <1>6 DEF Scan, Slash
<1>8. Free(b, 0) /\ Ending(b, 0) = Start
    BY <1>1, <1>4, <1>5, Between
<1>9. Pre(b, 0, <<>>, <<>>)
    BY <1>5, <1>8 DEF Pre, Expects, After, Top
<1>10. Parser(b, 0, "skip", <<>>, <<>>, <<>>, FALSE, FALSE)
    BY <1>9 DEF Parser
<1>11. Nested(<<>>)
    BY DEF Nested
<1> QED
    BY <1>2, <1>3, <1>7, <1>10, <1>11

-----------------------------------------------------------------------------
(* The line that readerr() leaves.                                         *)

Parts(n, f) == f \in [1..n -> Seq(Chars)]

\* FlattenSeq(), step by step.
LEMMA FlattenRun ==
  ASSUME NEW n \in Nat, NEW f, Parts(n, f)
  PROVE  \E h \in [0..n -> Seq(Chars)] :
           /\ h[0] = <<>> /\ \A i \in 1..n : h[i] = h[i - 1] \o f[i]
           /\ FlattenSeq(f) = h[n]
<1> DEFINE D == Seq(Chars)
           F == [i \in 1..n |-> [s \in D |-> s \o f[i]]]
           Eq(g) == g = [i \in 1..n |-> IF i = 1 THEN f[i] ELSE g[i - 1] \o f[i]]
           flatten == CHOOSE g : Eq(g)
<1>1. F \in [1..n -> [D -> D]] /\ <<>> \in D
  <2>1. ASSUME NEW i \in 1..n, NEW s \in D PROVE s \o f[i] \in D
      BY ConcatProperties DEF Parts
  <2> HIDE DEF D
  <2>2. F \in [1..n -> [D -> D]]
      BY <2>1
  <2> QED
      BY <2>2 DEF D
<1> DEFINE none == <<>>
<1> HIDE DEF F, D, none
<1>9. F \in [1..n -> [D -> D]]
    BY <1>1
<1>10. none \in D
    BY <1>1 DEF none
<1>2. \E h \in [0..n -> D] : h[0] = none /\ \A i \in 1..n : h[i] = F[i][h[i - 1]]
    BY <1>9, <1>10, Iterates, SMTT(40)
<1>3. PICK h \in [0..n -> D] : h[0] = <<>> /\ \A i \in 1..n : h[i] = F[i][h[i - 1]]
    BY <1>2 DEF none
<1>4. \A i \in 1..n : h[i] = h[i - 1] \o f[i]
  <2> TAKE i \in 1..n
  <2>1. i - 1 \in 0..n
      OBVIOUS
  <2>2. h[i - 1] \in D
      BY <2>1, <1>3
  <2> QED
      BY <2>2, <1>3 DEF F
<1>5. Len(f) = n /\ f \in Seq(Seq(Chars))
  <2>1. f \in Seq(Seq(Chars))
      BY DEF Parts
  <2> QED
      BY <2>1, LenProperties DEF Parts
<1>6. CASE n = 0
  <2>1. f = <<>>
      BY <1>5, <1>6
  <2>2. FlattenSeq(f) = f
      BY <1>5, <1>6 DEF FlattenSeq
  <2> QED
      BY <1>3, <1>4, <1>6, <2>1, <2>2 DEF D
<1>7. CASE n # 0
  <2> DEFINE g == [i \in 1..n |-> h[i]]
  <2>1. Eq(g)
    <3>1. ASSUME NEW i \in 1..n PROVE g[i] = IF i = 1 THEN f[i] ELSE g[i - 1] \o f[i]
      <4>1. CASE i = 1
        <5>1. h[1] = h[0] \o f[1]
            BY <1>4, <4>1
        <5>2. <<>> \o f[1] = f[1]
            BY <4>1 DEF Parts
        <5> QED
            BY <1>3, <4>1, <5>1, <5>2
      <4>2. CASE i # 1
        <5>1. i - 1 \in 1..n
            BY <4>2
        <5> QED
            BY <1>4, <4>2, <5>1
      <4> QED
          BY <4>1, <4>2
    <3> HIDE DEF g
    <3>2. g = [i \in 1..n |-> g[i]]
        BY DEF g
    <3> QED
        BY <3>1, <3>2
  <2>2. Eq(flatten)
    <3> HIDE DEF Eq, g
    <3> QED
        BY <2>1, Zenon
  <2>3. \A i \in 1..n : flatten[i] = IF i = 1 THEN f[i] ELSE flatten[i - 1] \o f[i]
    <3> HIDE DEF flatten
    <3> QED
        BY <2>2
  <2>4. FlattenSeq(f) = flatten[n]
      BY <1>5, <1>7 DEF FlattenSeq
  <2> HIDE DEF flatten
  <2>5. \A i \in 1..n : flatten[i] = h[i]
    <3> DEFINE Odd == {i \in 1..n : flatten[i] # h[i]}
    <3>1. SUFFICES ASSUME Odd # {} PROVE FALSE
        OBVIOUS
    <3>2. PICK m \in Odd : \A k \in Odd : m <= k
      <4>1. Odd \subseteq Nat
          OBVIOUS
      <4> HIDE DEF Odd
      <4> QED
          BY <3>1, <4>1, LeastOf
    <3>3. m \in 1..n /\ flatten[m] # h[m]
        OBVIOUS
    <3>4. CASE m = 1
      <4>1. h[1] = h[0] \o f[1] /\ <<>> \o f[1] = f[1]
          BY <1>4, <3>3, <3>4 DEF Parts
      <4> QED
          BY <1>3, <2>3, <3>3, <3>4, <4>1
    <3>5. CASE m # 1
      <4>1. m - 1 \in 1..n /\ ~(m <= m - 1)
          BY <3>3, <3>5
      <4>2. flatten[m - 1] = h[m - 1]
          BY <3>2, <4>1
      <4> QED
          BY <1>4, <2>3, <3>3, <3>5, <4>2
    <3> QED
        BY <3>4, <3>5
  <2>6. n \in 1..n
      BY <1>7
  <2>7. FlattenSeq(f) = h[n]
      BY <2>4, <2>5, <2>6
  <2> QED
      BY <1>3, <1>4, <2>7 DEF D
<1> QED
    BY <1>6, <1>7

\* In the quotes of the message, of which w has been read.
QuoteToks     == <<Mark("("), Sym(<<"quote">>)>>
Inside(s)     == s.q /\ s.in /\ ~s.com
Writing(s, w) == /\ Inside(s) /\ ~s.e /\ s.cur = w /\ s.toks = QuoteToks /\ s.open = <<"'">>
                 /\ s.odd = {}
\* The characters x are read there as v; when z, not ending in an escaped backslash.
Writes(x, v, z) ==
  \A b \in Seq(Chars), w \in Seq(Chars), p \in Nat :
    /\ p + Len(x) <= Len(b) /\ \A i \in 1..Len(x) : b[p + i] = x[i]
    /\ Writing(Ref(b, p), w)
    => /\ \A i \in 0..Len(x) : Inside(Ref(b, p + i))
       /\ Writing(Ref(b, p + Len(x)), w \o v)
       /\ z => ~Ref(b, p + Len(x)).twice

\* (w v) u = w (v u)
LEMMA CharsAssoc ==
  ASSUME NEW w \in Seq(Chars), NEW v \in Seq(Chars), NEW u \in Seq(Chars)
  PROVE  (w \o v) \o u = w \o (v \o u)
    BY ConcatAssociative

\* One part after another.
LEMMA WritesBoth ==
  ASSUME NEW x \in Seq(Chars), NEW y \in Seq(Chars), NEW v \in Seq(Chars), NEW u \in Seq(Chars),
         NEW z, NEW a, Writes(x, v, a), Writes(y, u, z)
  PROVE  Writes(x \o y, v \o u, z)
<1> DEFINE n == Len(x)
           m == Len(y)
<1>1. /\ n \in Nat /\ m \in Nat /\ Len(x \o y) = n + m
      /\ \A i \in 1..n : (x \o y)[i] = x[i]
      /\ \A i \in 1..m : (x \o y)[n + i] = y[i]
  <2>1. n \in Nat /\ m \in Nat /\ Len(x \o y) = n + m
        /\ \A i \in 1..(n + m) : (x \o y)[i] = IF i <= n THEN x[i] ELSE y[i - n]
      BY LenProperties, ConcatProperties
  <2>2. ASSUME NEW i \in 1..m PROVE n + i \in 1..(n + m) /\ ~(n + i <= n) /\ (n + i) - n = i
      BY <2>1
  <2>3. \A i \in 1..n : i \in 1..(n + m) /\ i <= n
      BY <2>1
  <2> HIDE DEF n, m
  <2> QED
      BY <2>1, <2>2, <2>3
<1> SUFFICES ASSUME NEW b \in Seq(Chars), NEW w \in Seq(Chars), NEW p \in Nat,
                    p + (n + m) <= Len(b), \A i \in 1..(n + m) : b[p + i] = (x \o y)[i],
                    Writing(Ref(b, p), w)
             PROVE  /\ \A i \in 0..(n + m) : Inside(Ref(b, p + i))
                    /\ Writing(Ref(b, p + (n + m)), w \o (v \o u))
                    /\ z => ~Ref(b, p + (n + m)).twice
  <2> HIDE DEF n, m
  <2> QED
      BY <1>1 DEF Writes
<1>2. Len(b) \in Nat
    BY LenProperties
<1>3. p + n <= Len(b) /\ \A i \in 1..n : b[p + i] = x[i]
  <2>1. \A i \in 1..n : i \in 1..(n + m)
      BY <1>1
  <2> QED
      BY <1>1, <1>2, <2>1
<1>4. /\ \A i \in 0..n : Inside(Ref(b, p + i))
      /\ Writing(Ref(b, p + n), w \o v)
    BY <1>3 DEF Writes
<1>5. /\ p + n \in Nat /\ (p + n) + m = p + (n + m) /\ (p + n) + m <= Len(b)
      /\ \A i \in 1..m : b[(p + n) + i] = y[i]
  <2>1. n \in Nat /\ m \in Nat
      BY <1>1
  <2> HIDE DEF n, m
  <2>2. ASSUME NEW i \in 1..m PROVE b[(p + n) + i] = y[i]
    <3>1. (p + n) + i = p + (n + i) /\ n + i \in 1..(n + m)
        BY <2>1
    <3>2. b[p + (n + i)] = (x \o y)[n + i]
        BY <3>1
    <3> QED
        BY <1>1, <3>1, <3>2
  <2> QED
      BY <1>2, <2>1, <2>2
<1>6. w \o v \in Seq(Chars) /\ (w \o v) \o u = w \o (v \o u)
  <2>1. w \o v \in Seq(Chars)
      BY ConcatProperties
  <2> QED
      BY SMTT(30), <2>1, CharsAssoc
<1>7. /\ \A i \in 0..m : Inside(Ref(b, (p + n) + i))
      /\ Writing(Ref(b, (p + n) + m), (w \o v) \o u)
      /\ z => ~Ref(b, (p + n) + m).twice
  <2> DEFINE r == p + n
             t == w \o v
  <2>1. r \in Nat /\ t \in Seq(Chars) /\ r + m <= Len(b) /\ (\A i \in 1..m : b[r + i] = y[i]) /\ Writing(Ref(b, r), t)
      BY <1>4, <1>5, <1>6
  <2> HIDE DEF r, t
  <2>2. /\ \A i \in 0..m : Inside(Ref(b, r + i))
        /\ Writing(Ref(b, r + m), t \o u)
        /\ z => ~Ref(b, r + m).twice
      BY <2>1 DEF Writes
  <2> QED
      BY <2>2 DEF r, t
<1>8. ASSUME NEW i \in 0..(n + m) PROVE Inside(Ref(b, p + i))
  <2>1. CASE i <= n
      BY <1>1, <1>4, <2>1
  <2>2. CASE ~(i <= n)
    <3>1. i - n \in 0..m /\ (p + n) + (i - n) = p + i
        BY <1>1, <2>2
    <3>2. Inside(Ref(b, (p + n) + (i - n)))
      <4> DEFINE j == i - n
      <4> HIDE DEF j
      <4>1. j \in 0..m
          BY <3>1 DEF j
      <4>2. Inside(Ref(b, (p + n) + j))
          BY <1>7, <4>1
      <4> QED
          BY <4>2 DEF j
    <3> QED
        BY <3>1, <3>2
  <2> QED
      BY <2>1, <2>2
<1> HIDE DEF n, m
<1> QED
    BY <1>5, <1>6, <1>7, <1>8

\* A character as it is.
LEMMA WritesChar ==
  ASSUME NEW d \in Chars, d \notin {"bs", "quo"}
  PROVE  Writes(<<d>>, <<d>>, TRUE)
<1> SUFFICES ASSUME NEW b \in Seq(Chars), NEW w \in Seq(Chars), NEW p \in Nat,
                    p + 1 <= Len(b), b[p + 1] = d, Writing(Ref(b, p), w)
             PROVE  /\ \A i \in 0..1 : Inside(Ref(b, p + i))
                    /\ Writing(Ref(b, p + 1), w \o <<d>>) /\ ~Ref(b, p + 1).twice
  <2>1. Len(<<d>>) = 1 /\ <<d>>[1] = d /\ 1 \in 1..1
      OBVIOUS
  <2> QED
      BY <2>1 DEF Writes
<1> DEFINE s == Ref(b, p)
<1>1. s \in SaysType /\ Sane(s) /\ Ref(b, p + 1) = Says1(s, d)
  <2>1. p \in 0..(Len(b) - 1)
      BY LenProperties
  <2> QED
      BY <2>1, RefNext
<1>2. Writing(s, w)
    OBVIOUS
<1> HIDE DEF s
<1>3. Ref(b, p + 1) = Char(s, d)
    BY <1>1, <1>2, SymbolSays DEF Writing, Inside
<1>4. Append(w, d) = w \o <<d>>
    OBVIOUS
<1>5. Writing(Char(s, d), w \o <<d>>) /\ ~Char(s, d).twice
  <2>1. /\ Char(s, d).toks = s.toks /\ Char(s, d).open = s.open /\ Char(s, d).cur = Append(s.cur, d)
        /\ Char(s, d).in /\ ~Char(s, d).e /\ ~Char(s, d).twice
        /\ Char(s, d).q = s.q /\ Char(s, d).com = s.com /\ Char(s, d).odd = s.odd
      BY <1>1, CharFacts
  <2> QED
      BY <1>2, <1>4, <2>1 DEF Writing, Inside
<1>6. p + 0 = p /\ \A i \in 0..1 : i = 0 \/ i = 1
    OBVIOUS
<1>7. Inside(Ref(b, p)) /\ Inside(Ref(b, p + 1))
    BY <1>2, <1>3, <1>5 DEF Writing, s
<1> QED
    BY <1>3, <1>5, <1>6, <1>7

\* A character after a backslash.
LEMMA WritesEscaped ==
  ASSUME NEW d \in Chars
  PROVE  Writes(<<"bs", d>>, <<Escaped(d)>>, d # "bs") /\ Escaped(d) \in Chars
<1>1. Escaped(d) \in Chars
    BY DEF Escaped, Chars
<1> SUFFICES ASSUME NEW b \in Seq(Chars), NEW w \in Seq(Chars), NEW p \in Nat,
                    p + 2 <= Len(b), b[p + 1] = "bs", b[p + 2] = d, Writing(Ref(b, p), w)
             PROVE  /\ \A i \in 0..2 : Inside(Ref(b, p + i))
                    /\ Writing(Ref(b, p + 2), w \o <<Escaped(d)>>) /\ (d # "bs" => ~Ref(b, p + 2).twice)
  <2>1. Len(<<"bs", d>>) = 2 /\ <<"bs", d>>[1] = "bs" /\ <<"bs", d>>[2] = d /\ 1 \in 1..2 /\ 2 \in 1..2
      OBVIOUS
  <2> QED
      BY <1>1, <2>1 DEF Writes
<1> DEFINE s == Ref(b, p)
           r == Ref(b, p + 1)
           t == Ref(b, p + 2)
<1>2. s \in SaysType /\ r \in SaysType /\ t \in SaysType /\ r = Says1(s, "bs") /\ t = Says1(r, d) /\ Writing(s, w)
  <2>1. p \in 0..(Len(b) - 1) /\ p + 1 \in 0..(Len(b) - 1) /\ (p + 1) + 1 = p + 2
      BY LenProperties
  <2>2. s \in SaysType /\ r \in SaysType /\ r = Says1(s, b[p + 1])
      BY <2>1, RefNext
  <2>3. Ref(b, (p + 1) + 1) \in SaysType /\ Ref(b, (p + 1) + 1) = Says1(r, b[(p + 1) + 1])
    <3> DEFINE k == p + 1
    <3>1. k \in 0..(Len(b) - 1) /\ r = Ref(b, k)
        BY <2>1
    <3> HIDE DEF k
    <3>2. Ref(b, k + 1) \in SaysType /\ Ref(b, k + 1) = Says1(Ref(b, k), b[k + 1])
        BY <3>1, RefNext
    <3> QED
        BY <3>1, <3>2 DEF k
  <2> QED
      BY <2>1, <2>2, <2>3
<1> HIDE DEF s, r, t
<1>3. /\ r.toks = s.toks /\ r.open = s.open /\ r.cur = s.cur /\ r.in /\ r.e /\ r.q = s.q /\ ~r.com /\ r.odd = s.odd
    BY <1>2, SlashSays DEF Writing, Inside
<1>4. /\ t.toks = r.toks /\ t.open = r.open /\ t.cur = Append(r.cur, Escaped(d))
      /\ t.in /\ ~t.e /\ t.twice = (d = "bs") /\ t.q = r.q /\ ~t.com /\ t.odd = r.odd
    BY <1>2, <1>3, EscapedSays
<1>5. Append(w, Escaped(d)) = w \o <<Escaped(d)>>
    BY <1>1
<1>6. Inside(s) /\ Inside(r) /\ Inside(t) /\ Writing(t, w \o <<Escaped(d)>>)
    BY ZenonT(30), <1>2, <1>3, <1>4, <1>5 DEF Writing, Inside
<1>7. p + 0 = p /\ \A i \in 0..2 : i = 0 \/ i = 1 \/ i = 2
    OBVIOUS
<1> QED
    BY <1>4, <1>6, <1>7 DEF s, r, t

\* Nothing is read as nothing.
LEMMA WritesNothing ==
  Writes(<<>>, <<>>, FALSE)
<1> SUFFICES ASSUME NEW b \in Seq(Chars), NEW w \in Seq(Chars), NEW p \in Nat, Writing(Ref(b, p), w)
             PROVE  /\ \A i \in 0..0 : Inside(Ref(b, p + i))
                    /\ Writing(Ref(b, p + 0), w \o <<>>)
  <2>1. Len(<<>>) = 0
      OBVIOUS
  <2> QED
      BY <2>1 DEF Writes
<1>1. p + 0 = p /\ \A i \in 0..0 : i = 0
    OBVIOUS
<1>2. w \o <<>> = w
    OBVIOUS
<1> QED
    BY <1>1, <1>2 DEF Writing

\* Less is known of the end.
LEMMA WritesLess ==
  ASSUME NEW x \in Seq(Chars), NEW v \in Seq(Chars), NEW z, Writes(x, v, z)
  PROVE  Writes(x, v, FALSE)
    BY DEF Writes

\* Two sequences of characters as one.
LEMMA Tuples ==
  ASSUME NEW a \in Chars, NEW b \in Chars, NEW c \in Chars, NEW d \in Chars
  PROVE  /\ <<a>> \o <<b>> = <<a, b>>
         /\ <<a, b>> \o <<c>> = <<a, b, c>>
         /\ <<a, b>> \o <<c, d>> = <<a, b, c, d>>
<1>1. <<a>> \o <<b>> = <<a, b>>
  <2>1. /\ <<a>> \in Seq(Chars) /\ <<b>> \in Seq(Chars) /\ <<a, b>> \in Seq(Chars)
        /\ Len(<<a>>) = 1 /\ Len(<<b>>) = 1 /\ Len(<<a, b>>) = 2
      OBVIOUS
  <2>2. /\ <<a>> \o <<b>> \in Seq(Chars) /\ Len(<<a>> \o <<b>>) = 2
        /\ \A i \in 1..2 : (<<a>> \o <<b>>)[i] = IF i <= 1 THEN <<a>>[i] ELSE <<b>>[i - 1]
      BY <2>1, ConcatProperties
  <2>3. \A i \in 1..2 : (<<a>> \o <<b>>)[i] = <<a, b>>[i]
      BY <2>2
  <2> QED
      BY <2>1, <2>2, <2>3, SeqEqual
<1>2. <<a, b>> \o <<c>> = <<a, b, c>>
  <2>1. /\ <<a, b>> \in Seq(Chars) /\ <<c>> \in Seq(Chars) /\ <<a, b, c>> \in Seq(Chars)
        /\ Len(<<a, b>>) = 2 /\ Len(<<c>>) = 1 /\ Len(<<a, b, c>>) = 3
      OBVIOUS
  <2>2. /\ <<a, b>> \o <<c>> \in Seq(Chars) /\ Len(<<a, b>> \o <<c>>) = 3
        /\ \A i \in 1..3 : (<<a, b>> \o <<c>>)[i] = IF i <= 2 THEN <<a, b>>[i] ELSE <<c>>[i - 2]
      BY <2>1, ConcatProperties
  <2>3. \A i \in 1..3 : (<<a, b>> \o <<c>>)[i] = <<a, b, c>>[i]
      BY <2>2
  <2> QED
      BY <2>1, <2>2, <2>3, SeqEqual
<1>3. <<a, b>> \o <<c, d>> = <<a, b, c, d>>
  <2>1. /\ <<a, b>> \in Seq(Chars) /\ <<c, d>> \in Seq(Chars) /\ <<a, b, c, d>> \in Seq(Chars)
        /\ Len(<<a, b>>) = 2 /\ Len(<<c, d>>) = 2 /\ Len(<<a, b, c, d>>) = 4
      OBVIOUS
  <2>2. /\ <<a, b>> \o <<c, d>> \in Seq(Chars) /\ Len(<<a, b>> \o <<c, d>>) = 4
        /\ \A i \in 1..4 : (<<a, b>> \o <<c, d>>)[i] = IF i <= 2 THEN <<a, b>>[i] ELSE <<c, d>>[i - 2]
      BY <2>1, ConcatProperties
  <2>3. \A i \in 1..4 : (<<a, b>> \o <<c, d>>)[i] = <<a, b, c, d>>[i]
      BY <2>2
  <2> QED
      BY <2>1, <2>2, <2>3, SeqEqual
<1> QED
    BY <1>1, <1>2, <1>3

\* Two escaped characters, and an escaped one before another.
LEMMA WritesTwo ==
  ASSUME NEW c \in Chars, NEW d \in Chars, c \notin {"n"}
  PROVE  /\ d # "n" => Writes(<<"bs", c, "bs", d>>, <<c, d>>, d # "bs")
         /\ d \notin {"bs", "quo"} => Writes(<<"bs", c, d>>, <<c, d>>, TRUE)
<1>1. Writes(<<"bs", c>>, <<c>>, c # "bs")
    BY WritesEscaped DEF Escaped
<1>2. <<"bs", c>> \in Seq(Chars) /\ <<"bs", d>> \in Seq(Chars) /\ <<c>> \in Seq(Chars) /\ <<d>> \in Seq(Chars)
  <2>1. "bs" \in Chars
      BY DEF Chars
  <2> QED
      BY <2>1
<1>3. /\ <<"bs", c>> \o <<"bs", d>> = <<"bs", c, "bs", d>> /\ <<"bs", c>> \o <<d>> = <<"bs", c, d>>
      /\ <<c>> \o <<d>> = <<c, d>>
  <2>1. "bs" \in Chars
      BY DEF Chars
  <2> QED
      BY ZenonT(30), <2>1, Tuples
<1>4. ASSUME d # "n" PROVE Writes(<<"bs", c, "bs", d>>, <<c, d>>, d # "bs")
  <2>1. Writes(<<"bs", d>>, <<d>>, d # "bs")
      BY <1>4, WritesEscaped DEF Escaped
  <2> DEFINE z == d # "bs"
             a == c # "bs"
             x == <<"bs", c>>
             y == <<"bs", d>>
             v == <<c>>
             u == <<d>>
  <2>2. Writes(x, v, a) /\ Writes(y, u, z) /\ x \in Seq(Chars) /\ y \in Seq(Chars) /\ v \in Seq(Chars) /\ u \in Seq(Chars)
      BY <1>1, <1>2, <2>1
  <2> HIDE DEF z, a, x, y, v, u
  <2>3. Writes(x \o y, v \o u, z)
      BY <2>2, WritesBoth
  <2> QED
      BY <2>3, <1>3 DEF z, x, y, v, u
<1>5. ASSUME d \notin {"bs", "quo"} PROVE Writes(<<"bs", c, d>>, <<c, d>>, TRUE)
  <2>1. Writes(<<d>>, <<d>>, TRUE)
      BY <1>5, WritesChar
  <2> DEFINE a == c # "bs"
             x == <<"bs", c>>
             v == <<c>>
             u == <<d>>
  <2>2. Writes(x, v, a) /\ Writes(u, u, TRUE) /\ x \in Seq(Chars) /\ v \in Seq(Chars) /\ u \in Seq(Chars)
      BY <1>1, <1>2, <2>1
  <2> HIDE DEF a, x, v, u
  <2>3. Writes(x \o u, v \o u, TRUE)
      BY <2>2, WritesBoth
  <2> QED
      BY <2>3, <1>3 DEF x, v, u
<1> QED
    BY <1>4, <1>5

\* A character of the text that a message shows.
LEMMA WritesLiteral ==
  ASSUME NEW c \in Chars
  PROVE  Literal(c) \in Seq(Chars) /\ Visible(c) \in Seq(Chars) /\ Writes(Literal(c), Visible(c), FALSE)
<1>1. "bs" \in Chars /\ "^" \in Chars /\ "J" \in Chars /\ "quo" \in Chars
    BY DEF Chars
<1>2. CASE c = "nl"
  <2>1. Literal(c) = <<"bs", "^", "J">> /\ Visible(c) = <<"^", "J">>
      BY <1>2 DEF Literal, Visible
  <2>2. Writes(<<"bs", "^", "J">>, <<"^", "J">>, TRUE)
      BY <1>1, WritesTwo
  <2>3. <<"bs", "^", "J">> \in Seq(Chars) /\ <<"^", "J">> \in Seq(Chars)
      BY <1>1
  <2> QED
      BY <2>1, <2>2, <2>3, WritesLess
<1>3. CASE c \in {"bs", "quo"}
  <2>1. Literal(c) = <<"bs", "bs", "bs", c>> /\ Visible(c) = <<"bs", c>>
      BY <1>3 DEF Literal, Visible
  <2>2. Writes(<<"bs", "bs", "bs", c>>, <<"bs", c>>, c # "bs")
      BY <1>1, <1>3, WritesTwo
  <2>3. <<"bs", "bs", "bs", c>> \in Seq(Chars) /\ <<"bs", c>> \in Seq(Chars)
      BY <1>1
  <2> QED
      BY <2>1, <2>2, <2>3, WritesLess
<1>4. CASE c \notin {"nl", "bs", "quo"}
  <2>1. Literal(c) = <<c>> /\ Visible(c) = <<c>>
      BY <1>4 DEF Literal, Visible
  <2>2. Writes(<<c>>, <<c>>, TRUE)
      BY <1>4, WritesChar
  <2>3. <<c>> \in Seq(Chars)
      OBVIOUS
  <2> QED
      BY <2>1, <2>2, <2>3, WritesLess
<1> QED
    BY <1>2, <1>3, <1>4

\* All of its characters.
LEMMA WritesText ==
  ASSUME NEW s \in Seq(Chars)
  PROVE  LET x == FlattenSeq([i \in DOMAIN s |-> Literal(s[i])])
             v == FlattenSeq([i \in DOMAIN s |-> Visible(s[i])])
         IN  x \in Seq(Chars) /\ v \in Seq(Chars) /\ Writes(x, v, FALSE)
<1> DEFINE n == Len(s)
           fx == [i \in 1..n |-> Literal(s[i])]
           fv == [i \in 1..n |-> Visible(s[i])]
<1>1. n \in Nat /\ DOMAIN s = 1..n /\ \A i \in 1..n : s[i] \in Chars
    BY LenProperties, ElementOfSeq
<1>2. Parts(n, fx) /\ Parts(n, fv)
    BY <1>1, WritesLiteral DEF Parts
<1>3. \A i \in 1..n : Writes(fx[i], fv[i], FALSE) /\ fx[i] \in Seq(Chars) /\ fv[i] \in Seq(Chars)
    BY <1>1, WritesLiteral
<1>4. /\ FlattenSeq([i \in DOMAIN s |-> Literal(s[i])]) = FlattenSeq(fx)
      /\ FlattenSeq([i \in DOMAIN s |-> Visible(s[i])]) = FlattenSeq(fv)
    BY <1>1
<1> HIDE DEF n, fx, fv
<1>9. n \in Nat
    BY <1>1
<1>5. PICK hx \in [0..n -> Seq(Chars)] : /\ hx[0] = <<>> /\ \A i \in 1..n : hx[i] = hx[i - 1] \o fx[i]
                                         /\ FlattenSeq(fx) = hx[n]
    BY <1>2, <1>9, FlattenRun
<1>6. PICK hv \in [0..n -> Seq(Chars)] : /\ hv[0] = <<>> /\ \A i \in 1..n : hv[i] = hv[i - 1] \o fv[i]
                                         /\ FlattenSeq(fv) = hv[n]
    BY <1>2, <1>9, FlattenRun
<1>7. \A i \in 0..n : Writes(hx[i], hv[i], FALSE)
  <2> DEFINE Odd == {i \in 0..n : ~Writes(hx[i], hv[i], FALSE)}
  <2>1. SUFFICES ASSUME Odd # {} PROVE FALSE
      OBVIOUS
  <2>2. PICK m \in Odd : \A k \in Odd : m <= k
    <3>1. \A i \in 0..n : i \in Nat
        BY <1>9
    <3>2. Odd \subseteq Nat
        BY <3>1
    <3> HIDE DEF Odd
    <3> QED
        BY <2>1, <3>2, LeastOf
  <2>3. m \in 0..n /\ ~Writes(hx[m], hv[m], FALSE)
      OBVIOUS
  <2>4. m # 0
      BY <2>3, <1>5, <1>6, WritesNothing
  <2>5. m \in 1..n /\ m - 1 \in 0..n /\ ~(m <= m - 1)
      BY <2>3, <2>4, <1>9
  <2>6. Writes(hx[m - 1], hv[m - 1], FALSE)
      BY <2>2, <2>5
  <2> DEFINE x == hx[m - 1]
             v == hv[m - 1]
             y == fx[m]
             u == fv[m]
  <2>7. x \in Seq(Chars) /\ v \in Seq(Chars) /\ y \in Seq(Chars) /\ u \in Seq(Chars) /\ Writes(x, v, FALSE) /\ Writes(y, u, FALSE)
      BY <2>5, <2>6, <1>3
  <2>8. hx[m] = x \o y /\ hv[m] = v \o u
      BY <2>5, <1>5, <1>6
  <2> HIDE DEF x, v, y, u
  <2>9. Writes(x \o y, v \o u, FALSE)
      BY <2>7, WritesBoth
  <2> QED
      BY <2>3, <2>8, <2>9
<1>8. n \in 0..n /\ hx[n] \in Seq(Chars) /\ hv[n] \in Seq(Chars)
    BY <1>9
<1> QED
    BY <1>4, <1>5, <1>6, <1>7, <1>8

\* A message in the line.
Message(x, v) == /\ x \in Seq(Chars) /\ v \in Seq(Chars)
                 /\ (x = <<>> /\ v = <<>>) \/ Writes(x, v, TRUE)

\* What a message is about, in quotes.
LEMMA WritesErrSym ==
  ASSUME NEW s \in Seq(Chars)
  PROVE  Message(ErrSym(s), Shown(s))
<1>1. CASE s = <<>>
    BY <1>1 DEF Message, ErrSym, Shown
<1>2. CASE s # <<>>
  <2> DEFINE x == FlattenSeq([i \in DOMAIN s |-> Literal(s[i])])
             v == FlattenSeq([i \in DOMAIN s |-> Visible(s[i])])
             y == <<"bs", "quo">>
             u == <<"quo">>
  <2>1. ErrSym(s) = y \o x \o y /\ Shown(s) = u \o v \o u
      BY <1>2 DEF ErrSym, Shown
  <2>2. x \in Seq(Chars) /\ v \in Seq(Chars) /\ Writes(x, v, FALSE)
      BY WritesText
  <2>3. "quo" \in Chars /\ "bs" \in Chars
      BY DEF Chars
  <2>4. y \in Seq(Chars) /\ u \in Seq(Chars) /\ Writes(y, u, TRUE)
    <3>1. Escaped("quo") = "quo"
        BY DEF Escaped
    <3>2. Writes(<<"bs", "quo">>, <<Escaped("quo")>>, "quo" # "bs")
        BY <2>3, WritesEscaped
    <3>3. Writes(<<"bs", "quo">>, <<"quo">>, TRUE)
        BY <3>1, <3>2 DEF Writes
    <3>4. <<"bs", "quo">> \in Seq(Chars) /\ <<"quo">> \in Seq(Chars)
        BY <2>3
    <3> HIDE DEF x, v
    <3> QED
        BY <3>3, <3>4
  <2> HIDE DEF x, v, y, u
  <2>5. Writes(y \o x, u \o v, FALSE)
      BY <2>2, <2>4, WritesBoth
  <2>6. y \o x \in Seq(Chars) /\ u \o v \in Seq(Chars)
      BY <2>2, <2>4, ConcatProperties
  <2> DEFINE a == y \o x
             b == u \o v
  <2>7. a \in Seq(Chars) /\ b \in Seq(Chars) /\ Writes(a, b, FALSE)
      BY <2>5, <2>6
  <2> HIDE DEF a, b
  <2>8. Writes(a \o y, b \o u, TRUE)
      BY <2>4, <2>7, WritesBoth
  <2>9. a \o y \in Seq(Chars) /\ b \o u \in Seq(Chars)
      BY <2>4, <2>7, ConcatProperties
  <2> QED
      BY <2>1, <2>8, <2>9 DEF Message, a, b
<1> QED
    BY <1>1, <1>2

\* The message of an error, and that of the end of a file.
LEMMA WritesMessage ==
  ASSUME NEW msg, NEW s \in Seq(Chars), msg = <<"?">> \/ (msg = <<>> /\ s = <<>>)
  PROVE  Message(msg \o ErrSym(s), msg \o Shown(s))
<1> DEFINE x == ErrSym(s)
           v == Shown(s)
<1>1. Message(x, v)
    BY WritesErrSym
<1>2. CASE msg = <<>> /\ s = <<>>
    BY <1>2 DEF Message, ErrSym, Shown
<1>3. CASE msg = <<"?">>
  <2>1. "?" \in Chars
      BY DEF Chars
  <2>2. msg \in Seq(Chars) /\ Writes(msg, msg, TRUE)
    <3>1. Writes(<<"?">>, <<"?">>, TRUE)
        BY <2>1, WritesChar
    <3>2. <<"?">> \in Seq(Chars)
        BY <2>1
    <3> QED
        BY <1>3, <3>1, <3>2
  <2> HIDE DEF x, v
  <2>3. msg \o x \in Seq(Chars) /\ msg \o v \in Seq(Chars)
      BY <1>1, <2>2, ConcatProperties DEF Message
  <2>4. CASE x = <<>> /\ v = <<>>
    <3>1. msg \o <<>> = msg
        BY <2>2
    <3>2. Message(msg, msg)
        BY <2>2 DEF Message
    <3> QED
        BY <2>4, <3>1, <3>2 DEF x, v
  <2>5. CASE Writes(x, v, TRUE)
    <3>1. Writes(msg \o x, msg \o v, TRUE)
        BY <1>1, <2>2, <2>5, WritesBoth DEF Message
    <3>2. Message(msg \o x, msg \o v)
        BY <2>3, <3>1 DEF Message
    <3> QED
        BY <3>2 DEF x, v
  <2> QED
      BY <1>1, <2>4, <2>5 DEF Message
<1> QED
    BY <1>2, <1>3

\* The characters of a line that is made of three parts.
LEMMA Joined ==
  ASSUME NEW a \in Seq(Chars), NEW x \in Seq(Chars), NEW z \in Seq(Chars), Len(a) = 2, Len(z) = 2,
         NEW b, b = a \o x \o z, NEW m, m = Len(x)
  PROVE  /\ b \in Seq(Chars) /\ Len(b) = m + 4 /\ b[1] = a[1] /\ b[2] = a[2]
         /\ b[m + 3] = z[1] /\ b[m + 4] = z[2]
         /\ \A i \in 1..m : b[2 + i] = x[i]
<1>1. m \in Nat
    BY LenProperties
<1>2. /\ a \o x \in Seq(Chars) /\ Len(a \o x) = Len(a) + Len(x)
      /\ \A i \in 1..(Len(a) + Len(x)) : (a \o x)[i] = IF i <= Len(a) THEN a[i] ELSE x[i - Len(a)]
    BY ConcatProperties
<1> DEFINE y == a \o x
<1>3. y \in Seq(Chars) /\ Len(y) = 2 + m
    BY <1>2
<1>4. \A i \in 1..(2 + m) : y[i] = IF i <= 2 THEN a[i] ELSE x[i - 2]
    BY <1>2
<1>5. b = y \o z
    OBVIOUS
<1> HIDE DEF y
<1>6. /\ y \o z \in Seq(Chars) /\ Len(y \o z) = Len(y) + Len(z)
      /\ \A i \in 1..(Len(y) + Len(z)) : (y \o z)[i] = IF i <= Len(y) THEN y[i] ELSE z[i - Len(y)]
    BY <1>3, ConcatProperties
<1>7. b \in Seq(Chars) /\ Len(b) = m + 4
    BY <1>1, <1>3, <1>5, <1>6
<1>8. ASSUME NEW i \in 1..(2 + m) PROVE b[i] = IF i <= 2 THEN a[i] ELSE x[i - 2]
  <2>1. i \in 1..(Len(y) + Len(z)) /\ i <= Len(y)
      BY <1>1, <1>3
  <2>2. b[i] = y[i]
      BY <1>5, <1>6, <2>1
  <2> QED
      BY <1>4, <2>2
<1>9. ASSUME NEW i \in 1..2 PROVE b[(2 + m) + i] = z[i]
  <2>1. (2 + m) + i \in 1..(Len(y) + Len(z)) /\ ~((2 + m) + i <= Len(y)) /\ ((2 + m) + i) - Len(y) = i
      BY <1>1, <1>3
  <2> DEFINE j == (2 + m) + i
  <2>2. j \in 1..(Len(y) + Len(z)) /\ ~(j <= Len(y)) /\ j - Len(y) = i
      BY <2>1
  <2> HIDE DEF j
  <2>3. b[j] = z[j - Len(y)]
      BY <1>5, <1>6, <2>2
  <2> QED
      BY <2>2, <2>3 DEF j
<1>10. b[1] = a[1] /\ b[2] = a[2]
  <2>1. 1 \in 1..(2 + m) /\ 2 \in 1..(2 + m) /\ 1 <= 2 /\ 2 <= 2
      BY <1>1
  <2> QED
      BY <1>8, <2>1
<1>11. b[m + 3] = z[1] /\ b[m + 4] = z[2]
  <2>1. (2 + m) + 1 = m + 3 /\ (2 + m) + 2 = m + 4 /\ 1 \in 1..2 /\ 2 \in 1..2
      BY <1>1
  <2>2. b[(2 + m) + 1] = z[1] /\ b[(2 + m) + 2] = z[2]
      BY <1>9, <2>1
  <2> QED
      BY <2>1, <2>2
<1>12. ASSUME NEW i \in 1..m PROVE b[2 + i] = x[i]
  <2> DEFINE j == 2 + i
  <2>1. j \in 1..(2 + m) /\ ~(j <= 2) /\ j - 2 = i
      BY <1>1
  <2> HIDE DEF j
  <2>2. b[j] = x[j - 2]
      BY <1>8, <2>1
  <2> QED
      BY <2>1, <2>2 DEF j
<1> QED
    BY <1>7, <1>10, <1>11, <1>12

\* Four tokens.
LEMMA FourTokens ==
  ASSUME NEW u \in Toks, NEW x \in Toks, NEW y \in Toks, NEW v \in Toks
  PROVE  Append(Append(<<u, x>>, y), v) = <<u, x, y, v>>
<1> DEFINE a == Append(<<u, x>>, y)
           d == Append(a, v)
           f == <<u, x, y, v>>
<1>1. /\ <<u, x>> \in Seq(Toks) /\ Len(<<u, x>>) = 2 /\ <<u, x>>[1] = u /\ <<u, x>>[2] = x
      /\ f \in Seq(Toks) /\ Len(f) = 4 /\ f[1] = u /\ f[2] = x /\ f[3] = y /\ f[4] = v
    OBVIOUS
<1>2. a \in Seq(Toks) /\ Len(a) = 3 /\ a[1] = u /\ a[2] = x /\ a[3] = y
    BY <1>1, AppendProperties
<1> HIDE DEF a
<1>3. d \in Seq(Toks) /\ Len(d) = Len(a) + 1 /\ (\A j \in 1..Len(a) : d[j] = a[j]) /\ d[Len(a) + 1] = v
  <2>1. a \in Seq(Toks)
      BY <1>2
  <2>2. /\ Append(a, v) \in Seq(Toks) /\ Len(Append(a, v)) = Len(a) + 1
        /\ \A j \in 1..Len(a) : Append(a, v)[j] = a[j]
      BY <2>1, AppendProperties
  <2>3. Append(a, v)[Len(a) + 1] = v
      BY <2>1, AppendProperties
  <2> QED
      BY <2>2, <2>3
<1> HIDE DEF d, f
<1>4. Len(d) = 4 /\ d[4] = v /\ d[1] = u /\ d[2] = x /\ d[3] = y
  <2>1. 1 \in 1..3 /\ 2 \in 1..3 /\ 3 \in 1..3 /\ 3 + 1 = 4
      OBVIOUS
  <2> QED
      BY <1>2, <1>3, <2>1
<1>5. \A j \in 1..4 : d[j] = f[j]
  <2>1. \A j \in 1..4 : j = 1 \/ j = 2 \/ j = 3 \/ j = 4
      OBVIOUS
  <2> QED
      BY <1>1, <1>4, <2>1
<1>6. d = f
    BY <1>1, <1>3, <1>4, <1>5, SeqEqual
<1> QED
    BY <1>6 DEF a, d, f

\* The line that shows w.
ErrText(b, w) ==
  LET n == Len(b)  s == Ref(b, 1)  r == Ref(b, n - 1)  t == Ref(b, n) IN
  /\ b \in Seq(Chars) /\ w \in Seq(Chars) /\ n \in Nat /\ n >= 4
  /\ b[1] = "'" /\ b[2] = "quo" /\ b[n - 1] = "quo" /\ b[n] = "nl"
  /\ ~s.in /\ Bare(s) /\ s.open = <<"'">> /\ s.toks = QuoteToks
  /\ \A p \in 2..(n - 2) : Inside(Ref(b, p))
  /\ r.in /\ Bare(r) /\ r.open = <<"'">>
  /\ ~t.in /\ Bare(t) /\ t.open = <<>>
  /\ t.toks = <<Mark("("), Sym(<<"quote">>), Sym(w), Mark(")")>>
  /\ Says(b).odd = {}

\* The quoted symbol of a message.
LEMMA QuotedSymbol ==
  ASSUME NEW w \in Seq(Chars)
  PROVE  /\ Quoted(<<"'">>, Append(QuoteToks, Sym(w))) = <<Mark("("), Sym(<<"quote">>), Sym(w), Mark(")")>>
         /\ SubSeq(<<"'">>, 1, Outside(<<"'">>)) = <<>>
         /\ QuoteToks \in Seq(Toks)
<1> DEFINE k == <<"'">>
           g == Append(QuoteToks, Sym(w))
           h == Append(g, Mark(")"))
           x == Sym(<<"quote">>)
           y == Sym(w)
<1>1. x \in Toks /\ y \in Toks /\ Mark("(") \in Toks /\ Mark(")") \in Toks
  <2>1. "quote" \in Chars /\ "(" \in Chars /\ ")" \in Chars
      BY DEF Chars
  <2>2. <<"quote">> \in Seq(Chars)
      BY <2>1
  <2> QED
      BY <2>1, <2>2, TokenFacts
<1>2. k \in Seq(Openers) /\ k # <<>> /\ Last(k) = "'" /\ Front(k) = <<>> /\ <<>> \in Seq(Openers)
  <2>1. "'" \in Openers
      BY DEF Openers
  <2>2. k \in Seq(Openers) /\ Len(k) = 1 /\ k[1] = "'"
      BY <2>1
  <2>3. Front(k) \in Seq(Openers) /\ Len(Front(k)) = 0
    <3>1. k # <<>> /\ Len(k) - 1 = 0
        BY <2>2
    <3> HIDE DEF k
    <3> QED
        BY <2>2, <3>1, LastFront
  <2> QED
      BY <2>2, <2>3, EmptySeq DEF Last
<1>3. QuoteToks \in Seq(Toks)
    BY <1>1 DEF QuoteToks
<1>4. g \in Seq(Toks) /\ h \in Seq(Toks)
    BY <1>1, <1>3
<1>5. h = <<Mark("("), x, y, Mark(")")>>
  <2> DEFINE u == Mark("(")
             v == Mark(")")
  <2>1. u \in Toks /\ v \in Toks /\ x \in Toks /\ y \in Toks /\ h = Append(Append(<<u, x>>, y), v)
      BY <1>1 DEF QuoteToks
  <2> HIDE DEF u, v, x, y, h
  <2>2. Append(Append(<<u, x>>, y), v) = <<u, x, y, v>>
      BY <2>1, FourTokens
  <2> QED
      BY <2>1, <2>2 DEF u, v
<1> HIDE DEF k, g, h, x, y
<1>6. Quoted(k, g) = Quoted(Front(k), Append(g, Mark(")"))) /\ Quoted(<<>>, h) = h
    BY <1>2, <1>4, QuotedFacts
<1>7. Quoted(k, g) = h
    BY <1>2, <1>6 DEF h
<1>8. Outside(k) = 0
    BY <1>2, OutsideLast
<1>9. SubSeq(k, 1, 0) = <<>>
    BY <1>2
<1> QED
    BY <1>3, <1>5, <1>7, <1>8, <1>9 DEF k, g, x, y

\* It is what readerr() leaves.
LEMMA ErrTextIs ==
  ASSUME NEW x, NEW w, Message(x, w), NEW b, b = <<"'", "quo">> \o x \o <<"quo", "nl">>
  PROVE  ErrText(b, w)
<1> DEFINE m == Len(x)
<1>1. x \in Seq(Chars) /\ w \in Seq(Chars) /\ m \in Nat
    BY LenProperties DEF Message
<1>2. /\ b \in Seq(Chars) /\ Len(b) = m + 4 /\ b[1] = "'" /\ b[2] = "quo"
      /\ b[m + 3] = "quo" /\ b[m + 4] = "nl"
      /\ \A i \in 1..m : b[2 + i] = x[i]
  <2> DEFINE a == <<"'", "quo">>
             z == <<"quo", "nl">>
  <2>1. "'" \in Chars /\ "quo" \in Chars /\ "nl" \in Chars
      BY DEF Chars
  <2>2. /\ a \in Seq(Chars) /\ z \in Seq(Chars) /\ Len(a) = 2 /\ Len(z) = 2
        /\ a[1] = "'" /\ a[2] = "quo" /\ z[1] = "quo" /\ z[2] = "nl"
      BY <2>1
  <2>3. b = a \o x \o z /\ m = Len(x)
      OBVIOUS
  <2> HIDE DEF a, z, m
  <2>4. /\ b \in Seq(Chars) /\ Len(b) = m + 4 /\ b[1] = a[1] /\ b[2] = a[2]
        /\ b[m + 3] = z[1] /\ b[m + 4] = z[2]
        /\ \A i \in 1..m : b[2 + i] = x[i]
      BY <1>1, <2>2, <2>3, Joined
  <2> QED
      BY <2>2, <2>4
<1> HIDE DEF m
<1>3. /\ 0 \in 0..(Len(b) - 1) /\ 1 \in 0..(Len(b) - 1) /\ m + 2 \in 0..(Len(b) - 1) /\ m + 3 \in 0..(Len(b) - 1)
      /\ 0 + 1 = 1 /\ 1 + 1 = 2 /\ (m + 2) + 1 = m + 3 /\ (m + 3) + 1 = m + 4
      /\ (m + 4) - 1 = m + 3 /\ (m + 4) - 2 = m + 2 /\ m + 4 >= 4 /\ m + 4 \in Nat /\ m + 4 \in 0..Len(b)
    BY <1>1, <1>2
<1> DEFINE s == Ref(b, 1)
           o == Ref(b, 2)
           i == Ref(b, m + 2)
           r == Ref(b, m + 3)
           t == Ref(b, m + 4)
<1>4. /\ s = Says1(Start, "'") /\ s \in SaysType /\ o \in SaysType /\ i \in SaysType /\ r \in SaysType /\ t \in SaysType
      /\ Sane(r) /\ Start \in SaysType /\ Sane(Start)
      /\ o = Says1(s, "quo") /\ r = Says1(i, "quo") /\ t = Says1(r, "nl")
  <2>1. Ref(b, 0) = Start /\ Ref(b, 0 + 1) = Says1(Ref(b, 0), b[0 + 1]) /\ Ref(b, 0) \in SaysType /\ Sane(Ref(b, 0))
        /\ Ref(b, 0 + 1) \in SaysType
      BY <1>2, <1>3, RefFacts, RefNext
  <2>2. Ref(b, 1 + 1) = Says1(Ref(b, 1), b[1 + 1]) /\ Ref(b, 1 + 1) \in SaysType
      BY <1>2, <1>3, RefNext
  <2>3. ASSUME NEW p \in 0..(Len(b) - 1)
        PROVE  Ref(b, p + 1) = Says1(Ref(b, p), b[p + 1]) /\ Ref(b, p) \in SaysType /\ Ref(b, p + 1) \in SaysType /\ Sane(Ref(b, p + 1))
      BY <1>2, RefNext
  <2>4. /\ Ref(b, (m + 2) + 1) = Says1(Ref(b, m + 2), b[(m + 2) + 1]) /\ Ref(b, m + 2) \in SaysType
        /\ Ref(b, (m + 2) + 1) \in SaysType /\ Sane(Ref(b, (m + 2) + 1))
      BY <1>3, <2>3
  <2>5. Ref(b, (m + 3) + 1) = Says1(Ref(b, m + 3), b[(m + 3) + 1]) /\ Ref(b, (m + 3) + 1) \in SaysType
      BY <1>3, <2>3
  <2> QED
      BY <1>2, <1>3, <2>1, <2>2, <2>4, <2>5
<1>5. /\ Start.toks = <<>> /\ Start.open = <<>> /\ ~Start.in /\ Bare(Start) /\ Start.odd = {} /\ Start.cur = <<>>
    BY DEF Start, Bare
<1> HIDE DEF s, o, i, r, t
<1>6. /\ ~s.in /\ s.cur = <<>> /\ Bare(s) /\ ~s.twice /\ s.odd = {} /\ s.toks = QuoteToks /\ s.open = <<"'">>
  <2>1. /\ ~s.in /\ s.cur = <<>> /\ Bare(s) /\ ~s.twice /\ s.odd = Start.odd
        /\ s.toks = EndSymbol(Start, FALSE).toks \o <<Mark("("), Sym(<<"quote">>)>>
        /\ s.open = Append(EndSymbol(Start, FALSE).open, "'")
      BY <1>4, <1>5, MacroSays
  <2>2. EndSymbol(Start, FALSE) = Start
      BY <1>4, <1>5, EndSymbolFacts
  <2>3. <<>> \o QuoteToks = QuoteToks /\ Append(<<>>, "'") = <<"'">>
    <3>1. QuoteToks \in Seq(Toks)
        BY <1>1, QuotedSymbol
    <3> QED
        BY <3>1
  <2> QED
      BY <1>5, <2>1, <2>2, <2>3 DEF QuoteToks
<1>7. Writing(o, <<>>) /\ ~o.twice
  <2>1. /\ o.toks = s.toks /\ o.open = s.open /\ o.cur = s.cur /\ o.in /\ ~o.e /\ ~o.twice /\ o.q = ~s.q /\ ~o.com
        /\ o.odd = s.odd \cup (IF s.twice THEN {"trap"} ELSE {})
      BY <1>4, <1>6, QuoteSays DEF Bare
  <2>2. o.odd = {}
      BY <2>1, <1>6
  <2> QED
      BY <2>1, <2>2, <1>6 DEF Writing, Inside, Bare
<1>8. Writing(i, w) /\ ~i.twice /\ \A p \in 2..(m + 2) : Inside(Ref(b, p))
  <2>1. CASE x = <<>> /\ w = <<>>
    <3>1. m = 0 /\ m + 2 = 2 /\ \A p \in 2..(m + 2) : p = 2
        BY <2>1 DEF m
    <3> QED
        BY <1>7, <2>1, <3>1 DEF i, o, Writing
  <2>2. CASE Writes(x, w, TRUE)
    <3>1. 2 + m <= Len(b) /\ 2 + m = m + 2 /\ 2 \in Nat
        BY <1>1, <1>2
    <3>2. <<>> \o w = w /\ <<>> \in Seq(Chars)
        BY <1>1
    <3>3. /\ \A j \in 0..m : Inside(Ref(b, 2 + j))
          /\ Writing(Ref(b, 2 + m), <<>> \o w)
          /\ ~Ref(b, 2 + m).twice
        BY <1>2, <1>7, <2>2, <3>1, <3>2 DEF Writes, m, o
    <3>4. ASSUME NEW p \in 2..(m + 2) PROVE Inside(Ref(b, p))
      <4>1. p - 2 \in 0..m /\ 2 + (p - 2) = p
          BY <1>1
      <4> QED
          BY <3>3, <4>1
    <3> QED
        BY <3>1, <3>2, <3>3, <3>4 DEF i
  <2> QED
      BY <2>1, <2>2 DEF Message
<1>9. /\ r.in /\ Bare(r) /\ ~r.lit /\ r.cur = w /\ r.open = <<"'">> /\ r.toks = QuoteToks /\ r.odd = {}
  <2>1. /\ r.toks = i.toks /\ r.open = i.open /\ r.cur = i.cur /\ r.in /\ ~r.e /\ r.q = ~i.q /\ ~r.com /\ ~r.lit
        /\ r.odd = i.odd \cup (IF i.twice THEN {"trap"} ELSE {})
      BY <1>4, <1>8, QuoteSays DEF Writing, Inside
  <2>2. r.odd = {}
      BY <2>1, <1>8 DEF Writing
  <2> QED
      BY <2>1, <2>2, <1>8 DEF Writing, Inside, Bare
<1>10. /\ ~t.in /\ Bare(t) /\ t.open = <<>> /\ t.odd = {}
       /\ t.toks = <<Mark("("), Sym(<<"quote">>), Sym(w), Mark(")")>>
  <2>1. /\ Fresh(r, t) /\ t.toks = EndSymbol(r, TRUE).toks /\ t.open = EndSymbol(r, TRUE).open
    <3>1. "nl" \in Chars /\ IsSpace("nl")
        BY DEF Chars, IsSpace
    <3> QED
        BY <1>4, <1>9, <3>1, SpaceSays
  <2>2. ~DotOfList(r, TRUE)
      BY <1>9 DEF DotOfList
  <2>3. /\ EndSymbol(r, TRUE).toks = Quoted(r.open, Append(r.toks, Sym(r.cur)))
        /\ EndSymbol(r, TRUE).open = SubSeq(r.open, 1, Outside(r.open))
      BY <1>4, <1>9, <2>2, EndSymbolFacts
  <2>4. /\ EndSymbol(r, TRUE).toks = Quoted(<<"'">>, Append(QuoteToks, Sym(w)))
        /\ EndSymbol(r, TRUE).open = SubSeq(<<"'">>, 1, Outside(<<"'">>))
      BY <1>9, <2>3
  <2> QED
      BY <1>1, <1>9, <2>1, <2>4, QuotedSymbol DEF Fresh, Bare
<1>11. Says(b).odd = {}
  <2>1. Ref(b, Len(b)) = Says(b)
      BY <1>2, RefFacts
  <2> QED
      BY <1>2, <1>10, <2>1 DEF t
<1>12. Len(b) - 1 = m + 3 /\ Len(b) - 2 = m + 2 /\ Len(b) = m + 4
    BY <1>2, <1>3
<1> QED
    BY <1>1, <1>2, <1>3, <1>6, <1>8, <1>9, <1>10, <1>11, <1>12 DEF ErrText, s, r, t

-----------------------------------------------------------------------------
(* The invariant.                                                          *)

\* While an expression is read, and afterwards.
Active == {"skip", "macro", "macro2", "vector", "pair", "token", "symbol", "elem", "dot", "dot2",
           "close", "return", "extra"}
Places == Active \cup {"done"}

\* What has a type, and what is known of the exceptions.
Typing == /\ Sorts /\ pc \in Places /\ line \in Lines
          /\ text \in Seq(Chars) /\ err \in {0, 1} /\ shown \in Seq(Chars)
          /\ (text = <<>> => odd = {}) /\ Says(text).odd \subseteq odd

\* What holds of the line, with exceptions too.
Counted == /\ Len(line.buf) = Len(text)
           /\ pc \notin {"token", "symbol"} => tok = <<>>
           /\ pc = "token" => line.ri >= Len(tok)
           /\ pc = "dot2" => line.ri >= 1
           /\ line.buf = <<>> => ~line.notblank

\* No ^D was read.
NoEot(b) == \A i \in 1..Len(b) : b[i] # "eot"

\* The line and the parser agree with the text.
Agrees == /\ Scan(line) /\ Parser(line.buf, line.ri, pc, stk, got, tok, q, e) /\ Nested(stk)
          /\ NoEot(line.buf)

Clear == stk = <<>> /\ tok = <<>> /\ ~q /\ ~e
\* ^D was taken for a comment: all is ignored until a line ends.
Skewed == /\ line.ignore /\ ~line.quoted /\ ~line.notblank /\ line.esc = NONE
          /\ line.ri = Len(line.buf) /\ pc = "skip" /\ Clear /\ got = <<>>
          /\ NoEot(line.buf)
\* ^D was read.
EotRead == /\ line.buf = <<"eot">> /\ Clear
           /\ \/ /\ pc \in {"macro", "vector", "pair", "token", "symbol"} /\ got = <<>>
                 /\ line.ri = 0 /\ ~line.ignore /\ line.notblank
              \/ pc \in {"return", "extra"} /\ got = <<Sym(<<"eot">>)>> /\ line.ri = 1

NothingLost == err = 0 /\ pc # "done" => Counted
InStep  == err = 0 /\ pc # "done" /\ odd = {} =>
             line.buf = text /\ (Agrees \/ Skewed \/ EotRead)
\* An error is read.
Erring  == /\ ErrText(line.buf, shown)
           /\ Scan(line) /\ Parser(line.buf, line.ri, pc, stk, got, tok, q, e) /\ Nested(stk)
           /\ line.ri >= 1 => line.notblank
ErrorInStep == err = 1 => IF pc # "done" THEN Erring
                       ELSE got = <<Mark("("), Sym(<<"quote">>), Sym(shown), Mark(")")>>

Inv == Typing /\ NothingLost /\ InStep /\ ReadsRight /\ ErrorInStep

-----------------------------------------------------------------------------
(* Whatever is read, exceptions or not: types, and that nothing is lost.   *)

\* A character was taken, and no error.
Took(l) == /\ line' \in Lines /\ Len(line'.buf) = Len(l.buf) /\ line'.notblank = l.notblank
           /\ Sorts' /\ pc' \in Active
           /\ pc' \notin {"token", "symbol"} => tok' = <<>>
           /\ pc' = "token" => line'.ri >= Len(tok')
           /\ pc' = "dot2" => line'.ri >= 1
           /\ Fine
\* A character may be taken.
Ready(c, l) == /\ c \in Chars /\ l \in Lines /\ l.ri >= 1 /\ Sorts /\ pc \in Active
               /\ pc \notin {"token", "symbol"} => tok = <<>>
               /\ pc = "token" => l.ri - 1 >= Len(tok)
               /\ pc = "dot2" => l.ri >= 2

\* What stays, or is put back.
LEMMA BackTyped ==
  ASSUME NEW c, NEW l, Ready(c, l)
  PROVE  /\ l \in Lines /\ l.ri \in Nat /\ l.ri >= 1
         /\ Unget(l, c) \in Lines /\ Len(Unget(l, c).buf) = Len(l.buf) /\ Unget(l, c).notblank = l.notblank
         /\ Unget(l, c).ri = l.ri - 1 /\ Unget(l, c).ri \in Nat
<1>1. l \in Lines /\ c \in Chars /\ l.ri >= 1
    BY DEF Ready
<1>2. l.ri \in Nat /\ l.ri # 0
    BY <1>1, LinesFacts
<1>3. /\ Unget(l, c) \in Lines /\ Unget(l, c).notblank = l.notblank
      /\ Unget(l, c).ri = l.ri - 1 /\ Len(Unget(l, c).buf) = Len(l.buf)
    BY <1>1, <1>2, UngetType
<1>4. Unget(l, c).ri \in Nat
    BY <1>3, LinesFacts
<1> QED
    BY <1>1, <1>2, <1>3, <1>4

\* Nothing but lbri changes.
LEMMA RestTyped ==
  ASSUME NEW c, NEW l, Ready(c, l), NEW a \in Active, a \notin {"dot2", "symbol"}, pc \notin {"token", "symbol"},
         Goto(l, a) \/ Goto(Unget(l, c), a), Rest
  PROVE  Took(l)
<1>1. tok = <<>> /\ Sorts
    BY DEF Ready
<1>2. Sorts' /\ tok' = <<>> /\ Fine
    BY <1>1 DEF Rest, Sorts
<1>3. line' \in Lines /\ Len(line'.buf) = Len(l.buf) /\ line'.notblank = l.notblank /\ line'.ri \in Nat /\ pc' = a
    BY BackTyped, LinesFacts DEF Goto
<1>4. Len(tok') = 0
    BY <1>2
<1> QED
    BY <1>2, <1>3, <1>4 DEF Took

\* Characters of which lists are made, and tokens.
LEMMA SomeTokens ==
  /\ \A c \in Chars : Mark(c) \in Toks
  /\ Mark("(") \in Toks /\ Mark(")") \in Toks /\ Mark(".") \in Toks /\ Sym(<<"quote">>) \in Toks
  /\ \A c \in {"(", "[", "'", "."} : c \in Openers
<1>1. "quote" \in Chars /\ "(" \in Chars /\ ")" \in Chars /\ "." \in Chars
    BY DEF Chars
<1>2. <<"quote">> \in Seq(Chars)
    BY <1>1
<1> QED
    BY <1>1, <1>2, TokenFacts DEF Openers

\* read1() and readm()
LEMMA MacroTyped ==
  ASSUME NEW c, NEW l, Ready(c, l), Skip(c, l) \/ Macro(c, l) \/ Macro2(c, l)
  PROVE  Took(l) \/ Bad
<1>1. CASE Skip(c, l)
  <2>1. pc = "skip" /\ Rest /\ (Goto(l, "skip") \/ Goto(Unget(l, c), "macro"))
      BY <1>1 DEF Skip, At
  <2>2. "skip" \in Active /\ "macro" \in Active
      BY DEF Active
  <2> QED
      BY <2>1, <2>2, RestTyped
<1>2. CASE Macro(c, l)
  <2>1. pc = "macro" /\ Rest /\ (Goto(l, "macro2") \/ Goto(Unget(l, c), "vector"))
      BY <1>2 DEF Macro, At
  <2>2. "macro2" \in Active /\ "vector" \in Active
      BY DEF Active
  <2> QED
      BY <2>1, <2>2, RestTyped
<1>3. CASE Macro2(c, l)
  <2>1. CASE IsSpace(c) \/ c \in {")", "]"}
    <3>1. Error(<<"'">>)
        BY <1>3, <2>1 DEF Macro2
    <3>2. <<"'">> \in Seq(Chars)
      <4>1. "'" \in Chars
          BY DEF Chars
      <4> QED
          BY <4>1
    <3> QED
        BY <3>1, <3>2 DEF Bad
  <2>2. CASE ~(IsSpace(c) \/ c \in {")", "]"})
    <3>1. /\ Goto(Unget(l, c), "skip") /\ stk' = Append(stk, "'")
          /\ got' = got \o <<Mark("("), Sym(<<"quote">>)>> /\ UNCHANGED <<tok, q, e>> /\ Fine /\ pc = "macro2"
        BY <1>3, <2>2 DEF Macro2, At
    <3>2. stk \in Seq(Openers) /\ tok \in Seq(Chars) /\ got \in Seq(Toks) /\ q \in BOOLEAN /\ e \in BOOLEAN /\ tok = <<>>
        BY <3>1 DEF Ready, Sorts
    <3>3. stk' \in Seq(Openers) /\ got' \in Seq(Toks)
      <4>1. <<Mark("("), Sym(<<"quote">>)>> \in Seq(Toks)
          BY SomeTokens
      <4> QED
          BY <3>1, <3>2, <4>1, SomeTokens, ConcatProperties, AppendProperties
    <3>4. Sorts'
        BY <3>1, <3>2, <3>3 DEF Sorts
    <3>5. "skip" \in Active
        BY DEF Active
    <3> QED
        BY <3>1, <3>2, <3>4, <3>5, BackTyped DEF Took, Goto
  <2> QED
      BY <2>1, <2>2
<1> QED
    BY <1>1, <1>2, <1>3

\* readv() and readp()
LEMMA OpenTyped ==
  ASSUME NEW c, NEW l, Ready(c, l), Vector(c, l) \/ Pair(c, l)
  PROVE  Took(l)
<1>1. PICK a, oc, next : /\ Open(c, l, a, oc, next) /\ a \notin {"token", "symbol"} /\ oc \in {"(", "["}
                         /\ next \in {"pair", "token"}
    BY DEF Vector, Pair
<1>2. tok = <<>> /\ stk \in Seq(Openers) /\ got \in Seq(Toks) /\ q \in BOOLEAN /\ e \in BOOLEAN
    BY <1>1 DEF Ready, Sorts, Open, At
<1>3. UNCHANGED <<tok, q, e>> /\ Fine
    BY <1>1 DEF Open
<1>4. "elem" \in Active /\ next \in Active
    BY <1>1 DEF Active
<1>5. CASE c = oc
  <2>1. Goto(l, "elem") /\ stk' = Append(stk, oc) /\ got' = Append(got, Mark(oc))
      BY <1>1, <1>5 DEF Open
  <2>2. oc \in Openers /\ Mark(oc) \in Toks
    <3>1. c \in Chars
        BY DEF Ready
    <3> QED
        BY <1>1, <1>5, <3>1, SomeTokens
  <2>3. stk' \in Seq(Openers) /\ got' \in Seq(Toks)
      BY <1>2, <2>1, <2>2, AppendProperties
  <2>4. Sorts' /\ tok' = <<>>
      BY <1>2, <1>3, <2>3 DEF Sorts
  <2> QED
      BY <1>3, <1>4, <2>1, <2>4, BackTyped DEF Took, Goto
<1>6. CASE c # oc
  <2>1. Goto(Unget(l, c), next) /\ UNCHANGED <<stk, got>>
      BY <1>1, <1>6 DEF Open
  <2>2. Sorts' /\ tok' = <<>> /\ Len(tok') = 0
      BY <1>2, <1>3, <2>1 DEF Sorts
  <2>3. next # "dot2" /\ next # "symbol"
      BY <1>1
  <2> QED
      BY <1>3, <1>4, <2>1, <2>2, <2>3, BackTyped DEF Took, Goto
<1> QED
    BY <1>5, <1>6

\* readp(): elements
LEMMA ElemTyped ==
  ASSUME NEW c, NEW l, Ready(c, l), Elem(c, l) \/ Close(c, l)
  PROVE  Took(l) \/ Bad
<1>1. /\ pc \in {"elem", "close"} /\ tok = <<>> /\ stk \in Seq(Openers) /\ got \in Seq(Toks)
      /\ q \in BOOLEAN /\ e \in BOOLEAN /\ c \in Chars
    BY DEF Ready, Sorts, Elem, Close, At
<1>2. \/ Rest /\ \E a \in {"elem", "close", "skip"} : Goto(l, a) \/ Goto(Unget(l, c), a)
      \/ Error(<<c>>) \/ Error(<<>>)
      \/ /\ Goto(l, "return") /\ stk' \in {Front(stk), Front(Front(stk))} /\ got' = Append(got, Mark(c))
         /\ UNCHANGED <<tok, q, e>> /\ Fine
    BY DEF Elem, Close
<1>3. CASE Rest /\ \E a \in {"elem", "close", "skip"} : Goto(l, a) \/ Goto(Unget(l, c), a)
  <2>1. PICK a \in {"elem", "close", "skip"} : Goto(l, a) \/ Goto(Unget(l, c), a)
      BY <1>3
  <2>2. a \in Active /\ a \notin {"dot2", "symbol"}
      BY DEF Active
  <2> QED
      BY <1>1, <1>3, <2>1, <2>2, RestTyped
<1>4. CASE Error(<<c>>) \/ Error(<<>>)
  <2>1. <<c>> \in Seq(Chars) /\ <<>> \in Seq(Chars)
      BY <1>1
  <2> QED
      BY <1>4, <2>1 DEF Bad
<1>5. CASE /\ Goto(l, "return") /\ stk' \in {Front(stk), Front(Front(stk))} /\ got' = Append(got, Mark(c))
           /\ UNCHANGED <<tok, q, e>> /\ Fine
  <2>1. Front(stk) \in Seq(Openers)
      BY <1>1, LastFront
  <2>2. Front(Front(stk)) \in Seq(Openers)
      BY <2>1, LastFront
  <2>3. got' \in Seq(Toks)
      BY <1>1, <1>5, SomeTokens, AppendProperties
  <2>4. Sorts' /\ tok' = <<>>
      BY <1>1, <1>5, <2>1, <2>2, <2>3 DEF Sorts
  <2>5. "return" \in Active
      BY DEF Active
  <2> QED
      BY <1>5, <2>4, <2>5, BackTyped DEF Took, Goto
<1> QED
    BY <1>2, <1>3, <1>4, <1>5

\* ... and dots
LEMMA DotTyped ==
  ASSUME NEW c, NEW l, Ready(c, l), Dot(c, l) \/ Dot2(c, l)
  PROVE  Took(l)
<1>1. CASE Dot(c, l)
  <2>1. pc = "dot" /\ Rest /\ (Goto(l, "dot") \/ Goto(l, "dot2") \/ Goto(Unget(l, c), "elem"))
      BY <1>1 DEF Dot, At
  <2>2. "dot" \in Active /\ "dot2" \in Active /\ "elem" \in Active
      BY DEF Active
  <2>3. CASE Goto(l, "dot2")
    <3>1. tok = <<>> /\ Sorts
        BY <2>1 DEF Ready
    <3>2. Sorts' /\ tok' = <<>> /\ Fine
        BY <2>1, <3>1 DEF Rest, Sorts
    <3> QED
        BY <2>2, <2>3, <3>2, BackTyped DEF Took, Goto
  <2> QED
      BY <2>1, <2>2, <2>3, RestTyped
<1>2. CASE Dot2(c, l)
  <2>1. pc = "dot2" /\ UNCHANGED <<tok, q, e>> /\ Fine
      BY <1>2 DEF Dot2, At
  <2>2. /\ tok = <<>> /\ stk \in Seq(Openers) /\ got \in Seq(Toks)
        /\ q \in BOOLEAN /\ e \in BOOLEAN /\ l.ri >= 2
      BY <2>1 DEF Ready, Sorts
  <2>3. "skip" \in Active /\ "elem" \in Active
      BY DEF Active
  <2>4. CASE IsSpace(c)
    <3>1. Goto(Unget(l, c), "skip") /\ stk' = Append(stk, ".") /\ got' = Append(got, Mark("."))
        BY <1>2, <2>4 DEF Dot2
    <3>2. stk' \in Seq(Openers) /\ got' \in Seq(Toks)
        BY <2>2, <3>1, SomeTokens, AppendProperties
    <3>3. Sorts' /\ tok' = <<>>
        BY <2>1, <2>2, <3>2 DEF Sorts
    <3> QED
        BY <2>1, <2>3, <3>1, <3>3, BackTyped DEF Took, Goto
  <2>5. CASE ~IsSpace(c)
    <3>1. Goto(Unget(Unget(l, c), "."), "elem") /\ UNCHANGED <<stk, got>>
        BY <1>2, <2>5 DEF Dot2
    <3> DEFINE u == Unget(l, c)
    <3>2. u \in Lines /\ Len(u.buf) = Len(l.buf) /\ u.notblank = l.notblank /\ u.ri # 0
        BY <2>2, BackTyped
    <3>3. "." \in Chars
        BY DEF Chars
    <3> HIDE DEF u
    <3>4. Unget(u, ".") \in Lines /\ Len(Unget(u, ".").buf) = Len(u.buf) /\ Unget(u, ".").notblank = u.notblank
        BY <3>2, <3>3, UngetType
    <3>5. line' = Unget(u, ".") /\ pc' = "elem"
        BY <3>1 DEF Goto, u
    <3>6. Sorts' /\ tok' = <<>>
        BY <2>1, <2>2, <3>1 DEF Sorts
    <3> QED
        BY <2>1, <2>3, <3>2, <3>4, <3>5, <3>6 DEF Took
  <2> QED
      BY <2>4, <2>5
<1> QED
    BY <1>1, <1>2

\* readn()
LEMMA TokenTyped ==
  ASSUME NEW c, NEW l, Ready(c, l), Token(c, l)
  PROVE  Took(l)
<1>1. pc = "token" /\ UNCHANGED <<stk, q, e, got>> /\ Fine
    BY DEF Token, At
<1>2. /\ tok \in Seq(Chars) /\ stk \in Seq(Openers) /\ got \in Seq(Toks) /\ q \in BOOLEAN /\ e \in BOOLEAN
      /\ c \in Chars /\ l.ri - 1 >= Len(tok) /\ Len(tok) \in Nat
    BY <1>1, LenProperties DEF Ready, Sorts
<1>3. "symbol" \in Active /\ "token" \in Active
    BY DEF Active
<1>4. CASE IsTokSep(c)
  <2>1. Goto(UngetAll(Unget(l, c), tok), "symbol") /\ tok' = <<>>
      BY <1>4 DEF Token
  <2> DEFINE u == Unget(l, c)
  <2>2. u \in Lines /\ Len(u.buf) = Len(l.buf) /\ u.notblank = l.notblank /\ Len(tok) <= u.ri
      BY <1>2, BackTyped
  <2> HIDE DEF u
  <2>3. UngetAll(u, tok) \in Lines /\ Len(UngetAll(u, tok).buf) = Len(u.buf) /\ UngetAll(u, tok).notblank = u.notblank
      BY <1>2, <2>2, UngetAllType
  <2>4. line' = UngetAll(u, tok) /\ pc' = "symbol"
      BY <2>1 DEF Goto, u
  <2>5. Sorts'
    <3>1. tok' \in Seq(Chars)
        BY <2>1
    <3> QED
        BY <1>1, <1>2, <3>1 DEF Sorts
  <2> QED
      BY <1>1, <1>3, <2>2, <2>3, <2>4, <2>5 DEF Took
<1>5. CASE ~IsTokSep(c)
  <2>1. Goto(l, "token") /\ tok' = Append(tok, c)
      BY <1>5 DEF Token
  <2>2. tok' \in Seq(Chars) /\ Len(tok') = Len(tok) + 1
      BY <1>2, <2>1, AppendProperties
  <2>3. Sorts'
      BY <1>1, <1>2, <2>2 DEF Sorts
  <2>4. l.ri >= Len(tok')
      BY <1>2, <2>2, BackTyped
  <2> QED
      BY <1>1, <1>3, <2>1, <2>3, <2>4, BackTyped DEF Took, Goto
<1> QED
    BY <1>4, <1>5

\* reads()
LEMMA SymbolTyped ==
  ASSUME NEW c, NEW l, Ready(c, l), Symbol(c, l)
  PROVE  Took(l) \/ Bad
<1>1. /\ tok \in Seq(Chars) /\ stk \in Seq(Openers) /\ got \in Seq(Toks) /\ q \in BOOLEAN /\ e \in BOOLEAN
      /\ c \in Chars
    BY DEF Ready, Sorts
<1>2. Escaped(c) \in Chars
    BY <1>1 DEF Escaped, Chars
<1>3. "symbol" \in Active /\ "return" \in Active
    BY DEF Active
<1>4. \/ /\ Goto(l, "symbol") /\ UNCHANGED <<stk, got, problem>>
         /\ \/ e' = TRUE /\ UNCHANGED <<tok, q>>
            \/ q' = ~q /\ UNCHANGED <<tok, e>>
            \/ tok' = Append(tok, IF e THEN Escaped(c) ELSE c) /\ e' = FALSE /\ UNCHANGED q
      \/ Error(<<c>>)
      \/ /\ Goto(l, "return") \/ Goto(Unget(l, c), "return")
         /\ got' = Append(got, Sym(IF c = "eot" THEN Append(tok, c) ELSE tok)) /\ tok' = <<>>
         /\ UNCHANGED <<stk, q, e>> /\ Fine
    BY DEF Symbol, Fine
<1>5. CASE /\ Goto(l, "symbol") /\ UNCHANGED <<stk, got, problem>>
           /\ \/ e' = TRUE /\ UNCHANGED <<tok, q>>
              \/ q' = ~q /\ UNCHANGED <<tok, e>>
              \/ tok' = Append(tok, IF e THEN Escaped(c) ELSE c) /\ e' = FALSE /\ UNCHANGED q
  <2>1. tok' \in Seq(Chars)
    <3>1. \A x \in Chars : Append(tok, x) \in Seq(Chars)
        BY <1>1, AppendProperties
    <3> QED
        BY <1>1, <1>2, <1>5, <3>1
  <2>2. q' \in BOOLEAN /\ e' \in BOOLEAN
      BY <1>1, <1>5
  <2>3. Sorts'
      BY <1>1, <1>5, <2>1, <2>2 DEF Sorts
  <2> QED
      BY <1>3, <1>5, <2>3, BackTyped DEF Took, Goto, Fine
<1>6. CASE Error(<<c>>)
  <2>1. <<c>> \in Seq(Chars)
      BY <1>1
  <2> QED
      BY <1>6, <2>1 DEF Bad
<1>7. CASE /\ Goto(l, "return") \/ Goto(Unget(l, c), "return")
           /\ got' = Append(got, Sym(IF c = "eot" THEN Append(tok, c) ELSE tok)) /\ tok' = <<>>
           /\ UNCHANGED <<stk, q, e>> /\ Fine
  <2>1. (IF c = "eot" THEN Append(tok, c) ELSE tok) \in Seq(Chars)
      BY <1>1, AppendProperties
  <2>2. Sym(IF c = "eot" THEN Append(tok, c) ELSE tok) \in Toks
      BY <2>1, TokenFacts
  <2>3. got' \in Seq(Toks) /\ tok' \in Seq(Chars)
      BY <1>1, <1>7, <2>2, AppendProperties
  <2>4. Sorts'
      BY <1>1, <1>7, <2>3 DEF Sorts
  <2> QED
      BY <1>3, <1>7, <2>4, BackTyped DEF Took, Goto
<1> QED
    BY <1>4, <1>5, <1>6, <1>7

\* exread()
LEMMA ExtraTyped ==
  ASSUME NEW c, NEW l, Ready(c, l), Extra(c, l)
  PROVE  Took(l) \/ Bad
<1>1. CASE IsSpace(c)
  <2>1. pc = "extra" /\ Rest /\ Goto(l, "extra")
      BY <1>1 DEF Extra, At
  <2>2. "extra" \in Active
      BY DEF Active
  <2> QED
      BY <2>1, <2>2, RestTyped
<1>2. CASE ~IsSpace(c)
  <2> DEFINE u == Unget(l, c)
             s == SubSeq(u.buf, u.ri + 1, Len(u.buf))
  <2>1. Error(s)
      BY <1>2 DEF Extra
  <2>2. u \in Lines
      BY BackTyped
  <2> HIDE DEF u
  <2>3. u.buf \in Seq(Chars) /\ u.ri \in Nat /\ Len(u.buf) \in Nat
      BY <2>2, LinesFacts
  <2>4. \A i \in (u.ri + 1)..Len(u.buf) : u.buf[i] \in Chars
    <3>1. \A i \in (u.ri + 1)..Len(u.buf) : i \in 1..Len(u.buf)
        BY <2>3
    <3> QED
        BY <2>3, <3>1, ElementOfSeq
  <2>5. s \in Seq(Chars)
    <3>1. u.ri + 1 \in Int /\ Len(u.buf) \in Int
        BY <2>3
    <3> QED
        BY <2>3, <2>4, <3>1, SubSeqProperties
  <2> QED
      BY <2>1, <2>5 DEF Bad
<1> QED
    BY <1>1, <1>2

\* Each of them.
LEMMA TakeTyped ==
  ASSUME NEW c, NEW l, Ready(c, l), Take(c, l)
  PROVE  Took(l) \/ Bad
    BY MacroTyped, OpenTyped, ElemTyped, DotTyped, TokenTyped, SymbolTyped, ExtraTyped DEF Take

\* mygetc()
LEMMA GetcTyped ==
  ASSUME NEW m \in Lines, m.ri < Len(m.buf), Sorts, pc \in Active,
         pc \notin {"token", "symbol"} => tok = <<>>,
         pc = "token" => m.ri >= Len(tok), pc = "dot2" => m.ri >= 1,
         Getc([m EXCEPT !.ri = @ + 1])
  PROVE  \/ Took([m EXCEPT !.notblank = line'.notblank])
         \/ EndRead
         \/ Bad
<1> DEFINE l == [m EXCEPT !.ri = @ + 1]
           n == InComment(l)
           c == l.buf[l.ri]
           o == [n EXCEPT !.notblank = TRUE]
<1>1. m \in LineType /\ m.buf \in Seq(Chars) /\ m.ri \in Nat /\ Len(m.buf) \in Nat /\ m.ri + 1 \in 1..Len(m.buf)
    BY LinesFacts
<1>2. n \in LineType /\ n.buf = m.buf /\ n.ri = m.ri + 1 /\ n.notblank = m.notblank
    BY <1>1, InCommentType
<1>3. c = m.buf[m.ri + 1] /\ c \in Chars
  <2>1. l.buf = m.buf /\ l.ri = m.ri + 1
      BY <1>1 DEF LineType
  <2> QED
      BY <1>1, <2>1, ElementOfSeq
<1>4. /\ n \in Lines
      /\ o \in Lines /\ o.buf = m.buf /\ o.ri = m.ri + 1 /\ o.notblank = TRUE
  <2> HIDE DEF n
  <2>1. n \in Lines
    <3>1. m.ri + 1 <= Len(m.buf)
        BY <1>1
    <3> QED
        BY <1>2, <3>1 DEF Lines
  <2>2. o \in LineType /\ o.buf = n.buf /\ o.ri = n.ri /\ o.notblank = TRUE
      BY <1>2 DEF LineType
  <2>3. o \in Lines
      BY <2>1, <2>2 DEF Lines
  <2> QED
      BY <1>2, <2>1, <2>2, <2>3
<1>5. \/ n.ignore /\ line' = n /\ UNCHANGED <<parser, problem>>
      \/ EndRead
      \/ Take(c, o)
    BY DEF Getc
<1> HIDE DEF l, n, c, o
<1>6. CASE line' = n /\ UNCHANGED <<parser, problem>>
  <2>1. Sorts' /\ pc' = pc /\ tok' = tok /\ Fine
      BY <1>6 DEF parser, Sorts, Fine
  <2>2. line'.ri = m.ri + 1 /\ line' \in Lines /\ line'.buf = m.buf
      BY <1>2, <1>4, <1>6
  <2>3. Len(tok) \in Nat
      BY LenProperties DEF Sorts
  <2>4. /\ pc' = "token" => line'.ri >= Len(tok')
        /\ pc' = "dot2" => line'.ri >= 1
      BY <1>1, <2>1, <2>2, <2>3
  <2>5. [m EXCEPT !.notblank = line'.notblank].buf = m.buf /\ [m EXCEPT !.notblank = line'.notblank].notblank = line'.notblank
      BY <1>1 DEF LineType
  <2> QED
      BY <2>1, <2>2, <2>4, <2>5 DEF Took
<1>7. CASE Take(c, o)
  <2>1. Ready(c, o)
    <3>1. Len(tok) \in Nat
        BY LenProperties DEF Sorts
    <3>2. /\ o.ri >= 1
          /\ pc = "token" => o.ri - 1 >= Len(tok)
          /\ pc = "dot2" => o.ri >= 2
        BY <1>1, <1>4, <3>1
    <3> QED
        BY <1>3, <1>4, <3>2 DEF Ready
  <2>2. Took(o) \/ Bad
      BY <1>7, <2>1, TakeTyped
  <2>3. [m EXCEPT !.notblank = line'.notblank].buf = m.buf /\ [m EXCEPT !.notblank = line'.notblank].notblank = line'.notblank
      BY <1>1 DEF LineType
  <2> QED
      BY <1>4, <2>2, <2>3 DEF Took
<1> QED
    BY <1>5, <1>6, <1>7

-----------------------------------------------------------------------------
(* Each action keeps the invariant: where a line begins.                   *)

\* The ghosts.
LEMMA GhostsNow ==
  ASSUME NEW t \in Seq(Chars), Now(t)
  PROVE  /\ text' = t /\ (t = <<>> => odd' = {}) /\ Says(t).odd \subseteq odd'
         /\ t # <<>> => odd \subseteq odd'
<1>1. CASE t = <<>>
  <2>1. Len(t) = 0 /\ 0 \in 0..0
      BY <1>1
  <2>2. Says(t) = Start
      BY <2>1, RefFacts
  <2>3. Says(t).odd = {}
      BY <2>2 DEF Start
  <2> QED
      BY <1>1, <2>3 DEF Now
<1>2. CASE t # <<>>
    BY <1>2 DEF Now
<1> QED
    BY <1>1, <1>2

\* A line of which nothing has been read.
LEMMA FreshInv ==
  ASSUME NEW b \in Seq(Chars), NEW t \in Seq(Chars), Len(b) = Len(t),
         line' = [EmptyLine EXCEPT !.buf = b], Restart, err' = 0, shown' \in Seq(Chars),
         text' = t, t = <<>> => odd' = {}, Says(t).odd \subseteq odd',
         odd' = {} => b = t /\ NoEot(t)
  PROVE  Inv'
<1>1. /\ line' \in Lines /\ line'.buf = b /\ line'.ri = 0 /\ ~line'.notblank /\ Scan(line')
      /\ Parser(b, 0, "skip", <<>>, <<>>, <<>>, FALSE, FALSE) /\ Nested(<<>>)
    BY FreshGood
<1>2. pc' = "skip" /\ stk' = <<>> /\ got' = <<>> /\ tok' = <<>> /\ q' = FALSE /\ e' = FALSE
    BY DEF Restart
<1>3. Sorts'
  <2>1. <<>> \in Seq(Openers) /\ <<>> \in Seq(Chars) /\ <<>> \in Seq(Toks)
      OBVIOUS
  <2> QED
      BY <1>2, <2>1 DEF Sorts
<1>4. Typing'
    BY <1>1, <1>2, <1>3 DEF Typing, Places, Active
<1>5. NothingLost'
    BY <1>1, <1>2 DEF NothingLost, Counted
<1>6. InStep'
  <2>1. SUFFICES ASSUME odd' = {} PROVE line'.buf = text' /\ Agrees'
      BY DEF InStep
  <2>2. b = t /\ NoEot(b)
      BY <2>1
  <2> QED
      BY <1>1, <1>2, <2>2 DEF Agrees
<1>7. ReadsRight' /\ ErrorInStep'
    BY <1>2 DEF ReadsRight, ErrorInStep
<1> QED
    BY <1>4, <1>5, <1>6, <1>7 DEF Inv

\* An empty line.
LEMMA EmptyInv ==
  ASSUME line' = EmptyLine, Restart, err' = 0, shown' \in Seq(Chars), Now(<<>>)
  PROVE  Inv'
<1>1. EmptyLine = [EmptyLine EXCEPT !.buf = <<>>]
  <2>1. EmptyLine \in LineType /\ EmptyLine.buf = <<>>
      BY DEF EmptyLine, LineType, NONE
  <2>2. \A l \in LineType : l = [l EXCEPT !.buf = l.buf]
      BY DEF LineType
  <2> QED
      BY <2>1, <2>2
<1>2. <<>> \in Seq(Chars) /\ NoEot(<<>>) /\ Len(<<>>) = Len(<<>>)
    BY DEF NoEot
<1>3. /\ text' = <<>> /\ (<<>> = <<>> => odd' = {}) /\ Says(<<>>).odd \subseteq odd'
  <2> DEFINE t == <<>>
  <2>1. t \in Seq(Chars) /\ Now(t)
      BY <1>2
  <2> HIDE DEF t
  <2>2. text' = t /\ (t = <<>> => odd' = {}) /\ Says(t).odd \subseteq odd'
      BY <2>1, GhostsNow
  <2> QED
      BY <2>2 DEF t
<1> DEFINE t == <<>>
<1>4. t \in Seq(Chars) /\ NoEot(t) /\ Len(t) = Len(t) /\ line' = [EmptyLine EXCEPT !.buf = t]
    BY <1>1, <1>2
<1>5. text' = t /\ (t = <<>> => odd' = {}) /\ Says(t).odd \subseteq odd'
    BY <1>3
<1> HIDE DEF t
<1> QED
    BY <1>4, <1>5, FreshInv

\* The line of an error.
LEMMA ErrInv ==
  ASSUME err = 0, NEW msg, NEW s \in Seq(Chars), msg = <<"?">> \/ (msg = <<>> /\ s = <<>>), ReadErr(msg, s),
         text' \in Seq(Chars), text' = <<>> => odd' = {}, Says(text').odd \subseteq odd'
  PROVE  Inv'
<1> DEFINE x == msg \o ErrSym(s)
           w == msg \o Shown(s)
           y == ErrSym(s)
           a == <<"'", "quo">>
           z == <<"quo", "nl">>
           b == a \o x \o z
<1>1. Message(x, w)
    BY WritesMessage
<1>2. msg \in Seq(Chars) /\ y \in Seq(Chars) /\ a \in Seq(Chars)
  <2>1. "?" \in Chars /\ "'" \in Chars /\ "quo" \in Chars
      BY DEF Chars
  <2>2. y \in Seq(Chars)
    <3> HIDE DEF y
    <3> QED
        BY WritesErrSym DEF Message, y
  <2>3. msg \in Seq(Chars)
    <3>1. <<"?">> \in Seq(Chars) /\ <<>> \in Seq(Chars)
        BY <2>1
    <3> QED
        BY <3>1
  <2> QED
      BY <2>1, <2>2, <2>3
<1>3. line' = [EmptyLine EXCEPT !.buf = a \o msg \o y \o z] /\ shown' = w /\ err' = 1 /\ Restart
    BY DEF ReadErr
<1>4. (a \o msg) \o y = a \o (msg \o y)
  <2> HIDE DEF a, y
  <2> QED
      BY <1>2, CharsAssoc
<1>5. line' = [EmptyLine EXCEPT !.buf = b]
    BY <1>3, <1>4
<1>6. ErrText(b, w)
  <2>1. b = <<"'", "quo">> \o x \o <<"quo", "nl">>
      OBVIOUS
  <2> HIDE DEF x, w, b
  <2> QED
      BY <1>1, <2>1, ErrTextIs
<1> HIDE DEF x, w, b
<1>7. b \in Seq(Chars) /\ w \in Seq(Chars)
    BY <1>6 DEF ErrText
<1>8. /\ line' \in Lines /\ line'.buf = b /\ line'.ri = 0 /\ Scan(line')
      /\ Parser(b, 0, "skip", <<>>, <<>>, <<>>, FALSE, FALSE) /\ Nested(<<>>)
    BY <1>5, <1>7, FreshGood
<1>9. pc' = "skip" /\ stk' = <<>> /\ got' = <<>> /\ tok' = <<>> /\ q' = FALSE /\ e' = FALSE
    BY <1>3 DEF Restart
<1>10. Sorts'
  <2>1. <<>> \in Seq(Openers) /\ <<>> \in Seq(Chars) /\ <<>> \in Seq(Toks)
      OBVIOUS
  <2> QED
      BY <1>9, <2>1 DEF Sorts
<1>11. Typing'
    BY <1>3, <1>7, <1>8, <1>9, <1>10 DEF Typing, Places, Active
<1>12. NothingLost' /\ InStep' /\ ReadsRight'
    BY <1>3 DEF NothingLost, InStep, ReadsRight
<1>13. ErrorInStep'
  <2>1. ErrText(line'.buf, shown')
      BY <1>3, <1>6, <1>8
  <2>2. Parser(line'.buf, line'.ri, pc', stk', got', tok', q', e') /\ Nested(stk')
      BY <1>8, <1>9
  <2>3. line'.ri >= 1 => line'.notblank
      BY <1>8
  <2>4. Erring'
      BY <1>8, <2>1, <2>2, <2>3 DEF Erring
  <2> QED
      BY <1>9, <2>4 DEF ErrorInStep
<1> QED
    BY <1>11, <1>12, <1>13 DEF Inv

-----------------------------------------------------------------------------
(* ... and where there was no error.                                       *)

\* A line m whose next character is there agrees with the text t.
AgreesWith(m) == /\ Scan(m) /\ Parser(m.buf, m.ri, pc, stk, got, tok, q, e) /\ Nested(stk)
                 /\ NoEot(m.buf)
SkewedWith(m) == /\ m.ignore /\ ~m.quoted /\ ~m.notblank /\ m.esc = NONE
                 /\ m.ri + 1 = Len(m.buf) /\ pc = "skip" /\ Clear /\ got = <<>>
                 /\ NoEot(m.buf)

\* Nothing is put back.
LEMMA UngetNothing ==
  ASSUME NEW l \in Lines
  PROVE  UngetAll(l, <<>>) = l
<1> DEFINE s == <<>>
<1>1. s \in Seq(Chars) /\ Len(s) = 0
    OBVIOUS
<1> HIDE DEF s
<1>2. PICK h : BackOf(l, s, h) /\ UngetAll(l, s) = h[Len(s)]
    BY <1>1, BackRun
<1>3. UngetAll(l, s) = l
    BY <1>1, <1>2 DEF BackOf
<1> QED
    BY <1>3 DEF s

\* All is ignored.
LEMMA SkewedStep ==
  ASSUME NEW m \in Lines, m.ri < Len(m.buf), SkewedWith(m), Getc([m EXCEPT !.ri = @ + 1]),
         Len(line'.buf) = Len(m.buf)
  PROVE  line'.buf = m.buf /\ Skewed'
<1> DEFINE l == [m EXCEPT !.ri = @ + 1]
           n == InComment(l)
           c == l.buf[l.ri]
<1>1. m \in LineType /\ m.buf \in Seq(Chars) /\ m.ri \in Nat /\ Len(m.buf) \in Nat
    BY LinesFacts
<1>2. c = m.buf[m.ri + 1]
    BY <1>1 DEF LineType
<1>3. /\ n.buf = m.buf /\ n.ri = m.ri + 1 /\ n.notblank = m.notblank
      /\ n.esc = IF m.buf[m.ri + 1] = "bs" /\ ~m.ignore /\ EscBefore(m) = NONE
                 THEN m.ri + 1 ELSE EscBefore(m)
      /\ n.quoted = IF m.buf[m.ri + 1] = "quo" /\ ~m.ignore /\ EscBefore(m) = NONE
                    THEN ~m.quoted ELSE m.quoted
      /\ n.ignore = IF m.ignore THEN ~(m.buf[m.ri + 1] = "nl" /\ ~m.quoted /\ EscBefore(m) = NONE)
                    ELSE IsComment(m.buf[m.ri + 1]) /\ ~m.quoted /\ EscBefore(m) = NONE
    BY <1>1, InCommentType
<1>4. EscBefore(m) = NONE
    BY DEF SkewedWith, EscBefore
<1>5. n.esc = NONE /\ ~n.quoted /\ ~n.notblank /\ n.ri = Len(m.buf) /\ (n.ignore <=> c # "nl")
    BY <1>2, <1>3, <1>4 DEF SkewedWith
<1>6. \/ n.ignore /\ line' = n /\ UNCHANGED <<parser, problem>>
      \/ EndRead
      \/ ~n.ignore /\ (n.notblank \/ ~IsSpace(c))
    BY DEF Getc
<1>7. ~EndRead
  <2>1. Len(EmptyLine.buf) = 0
      BY DEF EmptyLine
  <2> QED
      BY <1>1, <2>1 DEF EndRead
<1>8. n.ignore /\ line' = n /\ UNCHANGED <<parser, problem>>
  <2>1. IsSpace("nl")
      BY DEF IsSpace
  <2> QED
      BY <1>5, <1>6, <1>7, <2>1
<1> HIDE DEF l, n, c
<1>9. line'.buf = m.buf
    BY <1>3, <1>8
<1>10. UNCHANGED <<pc, stk, got, tok, q, e>>
    BY <1>8 DEF parser
<1> QED
    BY <1>3, <1>5, <1>8, <1>9, <1>10 DEF Skewed, SkewedWith, Clear

\* ^D is read.
LEMMA EotStep ==
  ASSUME line \in Lines, EotRead, line.ri < Len(line.buf), Getc([line EXCEPT !.ri = @ + 1])
  PROVE  line'.buf = line.buf /\ EotRead'
<1> DEFINE l == [line EXCEPT !.ri = @ + 1]
           n == InComment(l)
           c == l.buf[l.ri]
           o == [n EXCEPT !.notblank = TRUE]
<1>1. line \in LineType /\ line.buf = <<"eot">> /\ Len(line.buf) = 1 /\ line.ri = 0
      /\ line.buf[line.ri + 1] = "eot"
    BY LinesFacts DEF EotRead
<1>2. c = "eot"
    BY <1>1 DEF LineType
<1>3. /\ n \in LineType /\ n.buf = line.buf /\ n.ri = line.ri + 1 /\ n.notblank = line.notblank
      /\ n.ignore = IF line.ignore THEN ~(line.buf[line.ri + 1] = "nl" /\ ~line.quoted /\ EscBefore(line) = NONE)
                    ELSE IsComment(line.buf[line.ri + 1]) /\ ~line.quoted /\ EscBefore(line) = NONE
    BY <1>1, InCommentType
<1>4. /\ Clear /\ pc \in {"macro", "vector", "pair", "token", "symbol"} /\ got = <<>>
      /\ ~line.ignore /\ line.notblank
    BY <1>1 DEF EotRead
<1>5. ~n.ignore
    BY <1>1, <1>3, <1>4 DEF IsComment
<1>6. ~IsSpace(c)
    BY <1>2 DEF IsSpace
<1>7. Take("eot", o)
    BY <1>2, <1>5, <1>6 DEF Getc
<1>8. o \in Lines /\ o.buf = <<"eot">> /\ o.ri = 1 /\ o.notblank /\ ~o.ignore
  <2> HIDE DEF n
  <2>1. o \in LineType /\ o.buf = n.buf /\ o.ri = n.ri /\ o.notblank = TRUE /\ o.ignore = n.ignore
      BY <1>3 DEF LineType
  <2>2. Len(o.buf) = 1 /\ o.ri = 1
      BY <1>1, <1>3, <2>1
  <2> HIDE DEF o
  <2>3. o.ri <= Len(o.buf)
      BY <2>2
  <2>4. o \in Lines
      BY <2>1, <2>3 DEF Lines
  <2> QED
      BY <1>1, <1>3, <1>5, <2>1, <2>2, <2>4
<1> HIDE DEF l, n, c, o
<1> DEFINE u == Unget(o, "eot")
<1>9. u \in Lines /\ u.buf = <<"eot">> /\ u.ri = 0 /\ u.notblank /\ ~u.ignore
  <2>1. "eot" \in Chars /\ o.buf[o.ri] = "eot" /\ o.ri # 0
      BY <1>8 DEF Chars
  <2>2. o \in Lines
      BY <1>8
  <2>3. /\ u \in Lines /\ u.notblank = o.notblank /\ u.ignore = o.ignore
        /\ u.ri = o.ri - 1 /\ u.buf = o.buf
      BY <2>1, <2>2, UngetType
  <2> HIDE DEF u
  <2>4. u.ri = 0
      BY <1>8, <2>3
  <2>5. u.notblank /\ ~u.ignore
    <3>1. o.notblank \in BOOLEAN /\ o.ignore \in BOOLEAN /\ u.notblank \in BOOLEAN /\ u.ignore \in BOOLEAN
        BY <2>2, <2>3, LinesFacts
    <3> QED
        BY <1>8, <2>3, <3>1
  <2> QED
      BY <1>8, <2>3, <2>4, <2>5
<1> HIDE DEF u
<1>10. ~IsSpace("eot") /\ ~IsRdMac("eot") /\ IsTokSep("eot")
    BY DEF IsSpace, IsRdMac, IsTokSep
<1>11. stk = <<>> /\ tok = <<>> /\ ~q /\ ~e
    BY <1>4 DEF Clear
<1>12. CASE pc = "macro"
  <2>1. Macro("eot", o)
      BY <1>7, <1>12 DEF Take, Skip, Macro, Macro2, Vector, Pair, Open, Elem, Dot, Dot2, Close, Token, Symbol, Extra, At
  <2>2. line' = u /\ pc' = "vector" /\ UNCHANGED <<stk, tok, q, e, got>>
      BY <1>10, <2>1 DEF Macro, Goto, Rest, u
  <2> QED
      BY <1>1, <1>4, <1>9, <1>11, <2>2 DEF EotRead, Clear
<1>13. CASE pc = "vector"
  <2>1. Vector("eot", o)
      BY <1>7, <1>13 DEF Take, Skip, Macro, Macro2, Vector, Pair, Open, Elem, Dot, Dot2, Close, Token, Symbol, Extra, At
  <2>2. line' = u /\ pc' = "pair" /\ UNCHANGED <<stk, tok, q, e, got>>
      BY <2>1 DEF Vector, Open, Goto, u
  <2> QED
      BY <1>1, <1>4, <1>9, <1>11, <2>2 DEF EotRead, Clear
<1>14. CASE pc = "pair"
  <2>1. Pair("eot", o)
      BY <1>7, <1>14 DEF Take, Skip, Macro, Macro2, Vector, Pair, Open, Elem, Dot, Dot2, Close, Token, Symbol, Extra, At
  <2>2. line' = u /\ pc' = "token" /\ UNCHANGED <<stk, tok, q, e, got>>
      BY <2>1 DEF Pair, Open, Goto, u
  <2> QED
      BY <1>1, <1>4, <1>9, <1>11, <2>2 DEF EotRead, Clear
<1>15. CASE pc = "token"
  <2>1. Token("eot", o)
      BY <1>7, <1>15 DEF Take, Skip, Macro, Macro2, Vector, Pair, Open, Elem, Dot, Dot2, Close, Token, Symbol, Extra, At
  <2>2. line' = UngetAll(u, tok) /\ pc' = "symbol" /\ tok' = <<>> /\ UNCHANGED <<stk, q, e, got>>
      BY <1>10, <2>1 DEF Token, Goto, u
  <2>3. line' = u
      BY <1>9, <1>11, <2>2, UngetNothing
  <2> QED
      BY <1>1, <1>4, <1>9, <1>11, <2>2, <2>3 DEF EotRead, Clear
<1>16. CASE pc = "symbol"
  <2>1. Symbol("eot", o)
      BY <1>7, <1>16 DEF Take, Skip, Macro, Macro2, Vector, Pair, Open, Elem, Dot, Dot2, Close, Token, Symbol, Extra, At
  <2>2. /\ line' = o /\ pc' = "return" /\ got' = Append(got, Sym(Append(tok, "eot"))) /\ tok' = <<>>
        /\ UNCHANGED <<stk, q, e>>
      BY <1>10, <1>11, <2>1 DEF Symbol, Goto
  <2>3. got' = <<Sym(<<"eot">>)>>
    <3>1. Append(<<>>, "eot") = <<"eot">> /\ Append(<<>>, Sym(<<"eot">>)) = <<Sym(<<"eot">>)>>
        OBVIOUS
    <3> QED
        BY <1>4, <1>11, <2>2, <3>1
  <2> QED
      BY <1>1, <1>8, <1>11, <2>2, <2>3 DEF EotRead, Clear
<1> QED
    BY <1>4, <1>12, <1>13, <1>14, <1>15, <1>16

\* mygetc(), when there was no error.
LEMMA GetcInv ==
  ASSUME Inv, err = 0, pc \notin {"return", "done"},
         NEW m \in Lines, m.ri < Len(m.buf), m.ri = line.ri, NEW t \in Seq(Chars), Len(m.buf) = Len(t),
         Getc([m EXCEPT !.ri = @ + 1]), Now(IF line' = EmptyLine THEN <<>> ELSE t),
         odd = {} /\ Says(t).odd = {} => m.buf = t /\ (AgreesWith(m) \/ SkewedWith(m) \/ (m = line /\ EotRead))
  PROVE  Inv'
<1>1. /\ Typing /\ Counted
    BY DEF Inv, NothingLost
<1>2. /\ Sorts /\ pc \in Active /\ (pc \notin {"token", "symbol"} => tok = <<>>)
      /\ (pc = "token" => m.ri >= Len(tok)) /\ (pc = "dot2" => m.ri >= 1)
      /\ shown \in Seq(Chars)
    BY <1>1 DEF Typing, Counted, Places
<1>3. m.buf \in Seq(Chars) /\ m.ri \in Nat /\ Len(m.buf) \in Nat /\ m.ri \in 0..(Len(m.buf) - 1) /\ Len(m.buf) # 0
    BY LinesFacts
<1>4. \/ Took([m EXCEPT !.notblank = line'.notblank])
      \/ EndRead
      \/ Bad
    BY <1>2, GetcTyped
<1>5. CASE EndRead
  <2>1. line' = EmptyLine /\ Restart /\ err' = 0 /\ shown' = shown /\ Now(<<>>)
      BY <1>5 DEF EndRead, Fine, problem
  <2> QED
      BY <1>2, <2>1, EmptyInv
<1>6. CASE Bad
  <2>1. PICK s \in Seq(Chars) : ReadErr(<<"?">>, s)
      BY <1>6 DEF Bad, Error
  <2> DEFINE r == IF line' = EmptyLine THEN <<>> ELSE t
  <2>2. r \in Seq(Chars) /\ Now(r)
      OBVIOUS
  <2> HIDE DEF r
  <2>3. text' = r /\ (r = <<>> => odd' = {}) /\ Says(r).odd \subseteq odd'
      BY <2>2, GhostsNow
  <2>4. text' \in Seq(Chars) /\ (text' = <<>> => odd' = {}) /\ Says(text').odd \subseteq odd'
      BY <2>2, <2>3
  <2> QED
      BY <2>1, <2>4, ErrInv
<1>7. CASE Took([m EXCEPT !.notblank = line'.notblank])
  <2>1. /\ line' \in Lines /\ Len(line'.buf) = Len(m.buf)
        /\ Sorts' /\ pc' \in Active
        /\ pc' \notin {"token", "symbol"} => tok' = <<>>
        /\ pc' = "token" => line'.ri >= Len(tok')
        /\ pc' = "dot2" => line'.ri >= 1
        /\ err' = 0 /\ shown' = shown
    <3>1. [m EXCEPT !.notblank = line'.notblank].buf = m.buf
      <4>1. m \in LineType
          BY LinesFacts
      <4> QED
          BY <4>1 DEF LineType
    <3> QED
        BY <1>7, <3>1 DEF Took, Fine, problem
  <2>2. line' # EmptyLine /\ t # <<>> /\ line'.buf # <<>>
    <3>1. Len(EmptyLine.buf) = 0 /\ Len(<<>>) = 0
        BY DEF EmptyLine
    <3> QED
        BY <1>3, <2>1, <3>1
  <2>3. text' = t /\ Says(t).odd \subseteq odd' /\ odd \subseteq odd'
    <3>1. Now(t)
        BY <2>2
    <3> QED
        BY <2>2, <3>1, GhostsNow
  <2>4. Typing'
      BY <1>2, <2>1, <2>2, <2>3 DEF Typing, Places
  <2>5. NothingLost'
      BY <2>1, <2>2, <2>3 DEF NothingLost, Counted
  <2>6. pc' # "done" /\ err' # 1
      BY <2>1 DEF Active
  <2>7. ReadsRight' /\ ErrorInStep'
      BY <2>6 DEF ReadsRight, ErrorInStep
  <2>8. InStep'
    <3>1. SUFFICES ASSUME odd' = {} PROVE line'.buf = text' /\ (Agrees' \/ Skewed' \/ EotRead')
        BY DEF InStep
    <3>2. odd = {} /\ Says(t).odd = {}
        BY <2>3, <3>1
    <3>3. m.buf = t /\ (AgreesWith(m) \/ SkewedWith(m) \/ (m = line /\ EotRead))
        BY <3>2
    <3>4. CASE AgreesWith(m)
      <4> DEFINE b == m.buf
                 p == m.ri
                 c == b[p + 1]
      <4>1. c # "eot"
        <5>1. p + 1 \in 1..Len(b)
            BY <1>3
        <5> QED
            BY <3>4, <5>1 DEF AgreesWith, NoEot
      <4>2. ParserNow(b, p) /\ Scan(m)
          BY <1>2, <3>4 DEF AgreesWith, ParserNow
      <4>3. b \in Seq(Chars) /\ p < Len(b) /\ Says(b).odd = {}
          BY <1>3, <3>2, <3>3
      <4> HIDE DEF b, p, c
      <4>4. b = m.buf /\ p = m.ri /\ c = b[p + 1]
          BY DEF b, p, c
      <4>5. Kept(b) \/ EndRead \/ Bad
          BY <4>1, <4>2, <4>3, <4>4, GetcGood
      <4>6. ~EndRead
          BY <2>2 DEF EndRead
      <4>7. ~Bad
          BY <2>1 DEF Bad, Error, ReadErr
      <4>8. Kept(b)
          BY <4>5, <4>6, <4>7
      <4>9. line'.buf = text' /\ NoEot(line'.buf)
          BY <2>3, <3>3, <3>4, <4>4, <4>8 DEF Kept, AgreesWith
      <4>10. Agrees'
        <5>1. line'.buf = b /\ Parser(b, line'.ri, pc', stk', got', tok', q', e') /\ Scan(line') /\ Nested(stk')
            BY <4>8 DEF Kept
        <5> QED
            BY <4>9, <5>1 DEF Agrees
      <4> QED
          BY <4>9, <4>10
    <3>5. CASE SkewedWith(m)
        BY <2>1, <2>3, <3>3, <3>5, SkewedStep
    <3>6. CASE m = line /\ EotRead
        BY <2>3, <3>3, <3>6, EotStep
    <3> QED
        BY <3>3, <3>4, <3>5, <3>6
  <2> QED
      BY <2>4, <2>5, <2>7, <2>8 DEF Inv
<1> QED
    BY <1>4, <1>5, <1>6, <1>7

\* The invariant, when there was no error.
LEMMA InvFacts ==
  ASSUME Inv, err = 0, pc # "done"
  PROVE  /\ Typing /\ Counted /\ line \in Lines /\ text \in Seq(Chars) /\ shown \in Seq(Chars)
         /\ line.buf \in Seq(Chars) /\ line.ri \in Nat /\ Len(line.buf) \in Nat /\ line.ri <= Len(line.buf)
         /\ Len(line.buf) = Len(text)
         /\ odd = {} => line.buf = text /\ (Agrees \/ Skewed \/ EotRead)
<1>1. Typing /\ Counted
    BY DEF Inv, NothingLost
<1>2. odd = {} => line.buf = text /\ (Agrees \/ Skewed \/ EotRead)
    BY DEF Inv, InStep
<1>3. line \in Lines /\ text \in Seq(Chars) /\ shown \in Seq(Chars)
    BY <1>1 DEF Typing
<1> QED
    BY <1>1, <1>2, <1>3, LinesFacts DEF Counted

\* While it is read, ^D is in the line.
LEMMA EotWaits ==
  ASSUME EotRead, Reading
  PROVE  line.ri < Len(line.buf)
<1>1. Len(<<"eot">>) = 1
    OBVIOUS
<1> QED
    BY <1>1 DEF EotRead, Reading

\* A character of the buffer.
LEMMA AgainInv ==
  ASSUME Inv, err = 0, Again
  PROVE  Inv'
<1>1. /\ line.ri < Len(line.buf) /\ pc \notin {"return", "done"}
      /\ Getc([line EXCEPT !.ri = @ + 1]) /\ Now(IF line' = EmptyLine THEN <<>> ELSE text)
    BY DEF Again, Buffered, Reading, At
<1>2. /\ line \in Lines /\ text \in Seq(Chars) /\ Len(line.buf) = Len(text) /\ line.ri \in Nat
      /\ odd = {} => line.buf = text /\ (Agrees \/ Skewed \/ EotRead)
    BY <1>1, InvFacts
<1>3. ~Skewed
    BY <1>1, <1>2 DEF Skewed
<1>4. Agrees => AgreesWith(line)
    BY DEF Agrees, AgreesWith
<1>5. odd = {} /\ Says(text).odd = {} =>
        line.buf = text /\ (AgreesWith(line) \/ SkewedWith(line) \/ (line = line /\ EotRead))
    BY <1>2, <1>3, <1>4
<1> QED
    BY <1>1, <1>2, <1>5, GetcInv

\* A character that is typed.
LEMMA TypeInv ==
  ASSUME Inv, err = 0, NEW c \in Typed, Type(c)
  PROVE  Inv'
<1> DEFINE m == [line EXCEPT !.buf = Append(@, c)]
           t == Append(text, c)
<1>1. /\ Reading /\ ~(line.ri < Len(line.buf)) /\ pc \notin {"return", "extra", "done"}
      /\ Getc([line EXCEPT !.buf = Append(@, c), !.ri = Len(line.buf) + 1])
      /\ Now(IF line' = EmptyLine THEN <<>> ELSE t)
    BY DEF Type, Buffered, Reading
<1>2. /\ line \in Lines /\ text \in Seq(Chars) /\ Len(line.buf) = Len(text) /\ line.ri \in Nat
      /\ line.buf \in Seq(Chars) /\ Len(line.buf) \in Nat /\ line.ri <= Len(line.buf) /\ Typing
      /\ odd = {} => line.buf = text /\ (Agrees \/ Skewed \/ EotRead)
    BY <1>1, InvFacts
<1>3. line.ri = Len(line.buf)
    BY <1>1, <1>2
<1>4. c \in Chars /\ c # "eot"
    BY TypedAssumption DEF Chars
<1>5. /\ m.buf = Append(line.buf, c) /\ m.ri = line.ri /\ m.notblank = line.notblank
      /\ m.ignore = line.ignore /\ m.quoted = line.quoted /\ m.esc = line.esc
      /\ m \in LineType
    BY <1>2, <1>4, LinesFacts, AppendProperties DEF LineType
<1>6. /\ Len(m.buf) = Len(line.buf) + 1 /\ m.ri < Len(m.buf) /\ m \in Lines
      /\ t \in Seq(Chars) /\ Len(t) = Len(text) + 1
  <2>1. Len(Append(line.buf, c)) = Len(line.buf) + 1 /\ t \in Seq(Chars) /\ Len(t) = Len(text) + 1
      BY <1>2, <1>4, AppendProperties
  <2> HIDE DEF m, t
  <2>2. m.ri < Len(m.buf) /\ m.ri <= Len(m.buf)
      BY <1>2, <1>3, <1>5, <2>1
  <2> QED
      BY <1>5, <2>1, <2>2 DEF Lines
<1>7. Getc([m EXCEPT !.ri = @ + 1])
  <2>1. [m EXCEPT !.ri = @ + 1] = [line EXCEPT !.buf = Append(@, c), !.ri = Len(line.buf) + 1]
      BY <1>2, <1>3 DEF Lines, LineType
  <2> QED
      BY <1>1, <2>1
<1>8. NoEot(line.buf) => NoEot(m.buf)
  <2>1. \A i \in 1..Len(m.buf) : (i \in 1..Len(line.buf) /\ m.buf[i] = line.buf[i]) \/ m.buf[i] = c
    <3> TAKE i \in 1..Len(m.buf)
    <3>1. CASE i \in 1..Len(line.buf)
        BY <1>2, <1>4, <1>5, <3>1, AppendProperties
    <3>2. CASE i \notin 1..Len(line.buf)
      <4>1. i = Len(line.buf) + 1
          BY <1>2, <1>6, <3>2
      <4> QED
          BY <1>2, <1>4, <1>5, <4>1, AppendProperties
    <3> QED
        BY <3>1, <3>2
  <2> HIDE DEF m
  <2> QED
      BY <1>4, <2>1 DEF NoEot
<1>9. odd = {} /\ Says(t).odd = {} =>
        m.buf = t /\ (AgreesWith(m) \/ SkewedWith(m) \/ (m = line /\ EotRead))
  <2>1. SUFFICES ASSUME odd = {} PROVE m.buf = t /\ (AgreesWith(m) \/ SkewedWith(m))
      BY Zenon
  <2>2. line.buf = text /\ (Agrees \/ Skewed) /\ m.buf = t
      BY <1>1, <1>2, <1>5, <2>1, EotWaits
  <2> HIDE DEF m, t
  <2>3. CASE Agrees
    <3>1. Scan(line) /\ Parser(line.buf, line.ri, pc, stk, got, tok, q, e) /\ Nested(stk) /\ NoEot(line.buf)
        BY <2>3 DEF Agrees
    <3>2. Scan(m)
      <4>1. m = [line EXCEPT !.buf = Append(@, c)]
          BY DEF m
      <4> QED
          BY <1>2, <1>3, <1>4, <3>1, <4>1, ScanTyped
    <3>3. Parser(m.buf, m.ri, pc, stk, got, tok, q, e)
      <4>1. ParserNow(line.buf, Len(line.buf))
          BY <1>2, <1>3, <3>1 DEF ParserNow, Typing
      <4>2. Append(line.buf, c) \in Seq(Chars)
          BY <1>2, <1>4
      <4>3. Parser(m.buf, Len(line.buf), pc, stk, got, tok, q, e)
        <5>1. m.buf \in Seq(Chars) /\ m.buf = Append(line.buf, c)
            BY <1>5, <4>2
        <5> QED
            BY <1>1, <1>2, <1>4, <4>1, <5>1, TypedGood
      <4> QED
          BY <1>3, <1>5, <4>3
    <3> QED
        BY <1>8, <2>2, <3>1, <3>2, <3>3 DEF AgreesWith
  <2>4. CASE Skewed
      BY <1>3, <1>5, <1>6, <1>8, <2>2, <2>4 DEF Skewed, SkewedWith
  <2> QED
      BY <2>2, <2>3, <2>4
<1>10. Len(m.buf) = Len(t)
    BY <1>2, <1>6
<1> HIDE DEF m, t
<1> QED
    BY <1>1, <1>5, <1>6, <1>7, <1>9, <1>10, GetcInv

\* The last character is erased.
LEMMA EraseInv ==
  ASSUME Inv, err = 0, Erase
  PROVE  Inv'
<1>1. /\ Reading /\ ~(line.ri < Len(line.buf)) /\ pc # "done" /\ Restart /\ err' = 0 /\ shown' = shown
    BY DEF Erase, Buffered, Reading, Fine, problem
<1>2. /\ text \in Seq(Chars) /\ Len(line.buf) = Len(text) /\ shown \in Seq(Chars)
      /\ line.buf \in Seq(Chars) /\ Len(line.buf) \in Nat
      /\ odd = {} => line.buf = text /\ (Agrees \/ Skewed \/ EotRead)
    BY <1>1, InvFacts
<1>3. CASE line.buf = <<>>
  <2>1. line' = EmptyLine /\ Now(<<>>)
      BY <1>3 DEF Erase
  <2> QED
      BY <1>1, <1>2, <2>1, EmptyInv
<1>4. CASE line.buf # <<>>
  <2> DEFINE b == Front(line.buf)
             t == Front(text)
  <2>1. line' = [EmptyLine EXCEPT !.buf = b] /\ Now(t)
      BY <1>4 DEF Erase
  <2>2. b \in Seq(Chars) /\ Len(b) = Len(line.buf) - 1 /\ \A i \in 1..(Len(line.buf) - 1) : b[i] = line.buf[i]
      BY <1>2, <1>4, LastFront
  <2>3. t \in Seq(Chars) /\ Len(t) = Len(text) - 1
    <3>1. text # <<>>
        BY <1>2, <1>4, EmptySeq
    <3> QED
        BY <1>2, <3>1, LastFront
  <2>4. odd = {} => b = t /\ NoEot(b)
    <3>1. SUFFICES ASSUME odd = {} PROVE b = t /\ NoEot(b)
        OBVIOUS
    <3>2. line.buf = text /\ (Agrees \/ Skewed)
        BY <1>1, <1>2, <3>1, EotWaits
    <3>3. NoEot(line.buf)
        BY <3>2 DEF Agrees, Skewed
    <3>4. \A i \in 1..Len(b) : i \in 1..(Len(line.buf) - 1) /\ i \in 1..Len(line.buf)
        BY <1>2, <2>2
    <3> QED
        BY <2>2, <3>2, <3>3, <3>4 DEF NoEot
  <2> HIDE DEF b, t
  <2>5. text' = t /\ (t = <<>> => odd' = {}) /\ Says(t).odd \subseteq odd' /\ (t # <<>> => odd \subseteq odd')
      BY <2>1, <2>3, GhostsNow
  <2>6. odd' = {} => b = t /\ NoEot(t)
    <3>1. CASE t = <<>>
      <4>1. Len(b) = 0
          BY <1>2, <2>2, <2>3, <3>1
      <4>2. b = <<>> /\ NoEot(<<>>)
          BY <2>2, <4>1, EmptySeq DEF NoEot
      <4> QED
          BY <3>1, <4>2
    <3>2. CASE t # <<>>
        BY <2>4, <2>5, <3>2
    <3> QED
        BY <3>1, <3>2
  <2>7. Len(b) = Len(t)
      BY <1>2, <2>2, <2>3
  <2> QED
      BY <1>1, <1>2, <2>1, <2>2, <2>3, <2>5, <2>6, <2>7, FreshInv
<1> QED
    BY <1>3, <1>4

\* The line is given up.
LEMMA KillInv ==
  ASSUME Inv, err = 0, Kill
  PROVE  Inv'
<1>1. line' = EmptyLine /\ Restart /\ err' = 0 /\ shown' = shown /\ Now(<<>>)
    BY DEF Kill, EndRead, Fine, problem
<1>2. shown \in Seq(Chars)
    BY DEF Inv, Typing
<1> QED
    BY <1>1, <1>2, EmptyInv

\* ^D at the beginning of a line.
LEMMA EotInv ==
  ASSUME Inv, err = 0, Eot
  PROVE  Inv' /\ ((line'.buf = <<>> /\ UNCHANGED <<parser, problem>>) \/ EotRead')
<1>1. pc = "skip" /\ line.buf = <<>>
    BY DEF Eot, At
<1>2. /\ Typing /\ Counted /\ line \in Lines /\ text \in Seq(Chars) /\ Len(line.buf) = Len(text)
      /\ line.ri \in Nat /\ line.ri <= Len(line.buf)
      /\ odd = {} => line.buf = text /\ (Agrees \/ Skewed \/ EotRead)
    BY <1>1, InvFacts
<1>3. text = <<>> /\ odd = {} /\ line.ri = 0 /\ ~line.notblank /\ Len(line.buf) = 0
  <2>1. Len(line.buf) = 0
      BY <1>1
  <2>2. text = <<>>
      BY <1>2, <2>1, EmptySeq
  <2> QED
      BY <1>1, <1>2, <2>1, <2>2 DEF Typing, Counted
<1>4. Agrees \/ Skewed
  <2>1. Len(<<"eot">>) = 1
      OBVIOUS
  <2> QED
      BY <1>2, <1>3, <2>1 DEF EotRead
<1>5. ~line.quoted /\ line.esc = NONE /\ Clear /\ got = <<>> /\ (Agrees => ~line.ignore) /\ (Skewed => line.ignore)
  <2>1. CASE Skewed
    <3>1. line.ignore
        BY <2>1 DEF Skewed
    <3>2. Agrees => ~line.ignore
      <4>1. ASSUME Agrees PROVE FALSE
        <5>1. line.ignore = Ref(line.buf, 0).com
            BY <1>3, <4>1 DEF Agrees, Scan
        <5>2. Ref(line.buf, 0) = Start
            BY <1>1, <1>2, LinesFacts, RefFacts
        <5> QED
            BY <3>1, <5>1, <5>2 DEF Start
      <4> QED
          BY <4>1
    <3> QED
        BY <2>1, <3>1, <3>2 DEF Skewed
  <2>2. CASE Agrees
    <3> DEFINE b == line.buf
    <3>1. b \in Seq(Chars) /\ Len(b) = 0
        BY <1>2, <1>3, LinesFacts
    <3>2. Scan(line) /\ Parser(b, 0, "skip", stk, got, tok, q, e)
        BY <1>1, <1>3, <2>2 DEF Agrees
    <3> HIDE DEF b
    <3>3. Ref(b, 0) = Start
        BY <3>1, RefFacts
    <3>4. Start.toks = <<>> /\ Start.open = <<>> /\ ~Start.q /\ ~Start.com /\ ~Start.in
        BY DEF Start
    <3>5. ~line.quoted /\ ~line.ignore /\ Slash(line)
        BY <1>3, <3>2, <3>3, <3>4 DEF Scan, b
    <3>6. line.esc = NONE
      <4>1. line.esc \in Nat
          BY <1>2, LinesFacts
      <4>2. ASSUME line.esc # NONE PROVE FALSE
        <5>1. line.esc \in {line.ri - 1, line.ri} /\ line.esc >= 1
            BY <3>5, <4>2 DEF Slash
        <5> QED
            BY <1>3, <5>1
      <4> QED
          BY <4>2
    <3>7. Pre(b, 0, stk, got) /\ tok = <<>> /\ ~q /\ ~e
        BY <3>2 DEF Parser
    <3>8. Ending(b, 0) = Start
      <4>1. 0 \in 0..Len(b)
          BY <3>1
      <4> QED
          BY <3>1, <3>3, <3>4, <4>1, EndingOut
    <3>9. stk = <<>> /\ got = <<>>
        BY <3>4, <3>7, <3>8 DEF Pre
    <3>10. ~Skewed
        BY <3>5 DEF Skewed
    <3> QED
        BY <3>5, <3>6, <3>7, <3>9, <3>10 DEF Clear
  <2> QED
      BY <1>4, <2>1, <2>2
<1>6. CASE line' = [line EXCEPT !.ignore = TRUE] /\ UNCHANGED <<parser, problem, ghosts>>
  <2>1. /\ line'.buf = <<>> /\ line'.ri = 0 /\ line'.ignore /\ line'.quoted = line.quoted /\ line'.esc = NONE
        /\ line'.notblank = line.notblank /\ line' \in Lines
    <3>1. line \in LineType
        BY <1>2, LinesFacts
    <3>2. /\ line'.buf = line.buf /\ line'.ri = line.ri /\ line'.ignore = TRUE /\ line'.quoted = line.quoted
          /\ line'.esc = line.esc /\ line'.notblank = line.notblank /\ line' \in LineType
        BY <1>6, <3>1 DEF LineType
    <3>3. line'.ri <= Len(line'.buf)
        BY <1>3, <3>2
    <3> QED
        BY <1>1, <1>3, <1>5, <3>2, <3>3 DEF Lines
  <2>2. UNCHANGED <<pc, stk, got, tok, q, e, err, shown, text, odd>>
      BY <1>6 DEF parser, problem, ghosts
  <2>3. Typing'
      BY <1>2, <2>1, <2>2 DEF Typing, Sorts
  <2>4. Skewed'
    <3>1. NoEot(<<>>) /\ Len(<<>>) = 0
        BY DEF NoEot
    <3> QED
        BY <1>1, <1>3, <1>5, <2>1, <2>2, <3>1 DEF Skewed, Clear
  <2>5. NothingLost' /\ InStep'
    <3>1. Counted'
        BY <1>1, <1>2, <1>3, <2>1, <2>2 DEF Counted
    <3> QED
        BY <1>1, <1>3, <2>1, <2>2, <2>4, <3>1 DEF NothingLost, InStep
  <2>6. ReadsRight' /\ ErrorInStep'
      BY <1>1, <2>2 DEF ReadsRight, ErrorInStep
  <2> QED
      BY <1>6, <2>1, <2>3, <2>5, <2>6 DEF Inv
<1>7. CASE \E quoted \in {line.quoted, ~line.quoted} :
             /\ ~line.ignore
             /\ Skip("eot", [line EXCEPT !.quoted = quoted, !.notblank = TRUE])
             /\ Now(Append(text, "eot"))
  <2>1. PICK quoted \in {line.quoted, ~line.quoted} :
          /\ ~line.ignore
          /\ Skip("eot", [line EXCEPT !.quoted = quoted, !.notblank = TRUE])
          /\ Now(Append(text, "eot"))
      BY <1>7
  <2> DEFINE l == [line EXCEPT !.quoted = quoted, !.notblank = TRUE]
             u == Unget(l, "eot")
  <2>2. l \in Lines /\ l.buf = <<>> /\ l.ri = 0 /\ l.notblank = TRUE /\ l.ignore = line.ignore
    <3>1. line \in LineType /\ quoted \in BOOLEAN
        BY <1>2, <2>1, LinesFacts
    <3>2. l \in LineType /\ l.buf = line.buf /\ l.ri = line.ri /\ l.notblank = TRUE /\ l.ignore = line.ignore
        BY <3>1 DEF LineType
    <3> HIDE DEF l
    <3>3. l.ri <= Len(l.buf)
        BY <1>3, <3>2
    <3> QED
        BY <1>1, <1>3, <3>2, <3>3 DEF Lines
  <2>3. Goto(u, "macro") /\ Rest
    <3>1. ~IsSpace("eot")
        BY DEF IsSpace
    <3> QED
        BY <2>1, <3>1 DEF Skip
  <2> HIDE DEF l
  <2>4. "eot" \in Chars /\ <<"eot">> \o <<>> = <<"eot">> /\ Append(<<>>, "eot") = <<"eot">>
        /\ <<"eot">> \in Seq(Chars) /\ Len(<<"eot">>) = 1
    <3>1. "eot" \in Chars
        BY DEF Chars
    <3>2. <<"eot">> \in Seq(Chars)
        BY <3>1
    <3>3. <<"eot">> \o <<>> = <<"eot">>
        BY <3>2, ConcatEmptySeq
    <3> QED
        BY <3>1, <3>2, <3>3
  <2>5. /\ u \in Lines /\ u.notblank = l.notblank /\ u.ignore = l.ignore
        /\ u.ri = 0 /\ u.buf = <<"eot">> \o <<>>
    <3>1. "eot" \in Chars /\ l \in Lines /\ l.ri = 0
        BY <2>2, <2>4
    <3>2. /\ Unget(l, "eot") \in Lines /\ Unget(l, "eot").notblank = l.notblank
          /\ Unget(l, "eot").ignore = l.ignore
          /\ Unget(l, "eot").ri = 0 /\ Unget(l, "eot").buf = <<"eot">> \o l.buf
        BY <3>1, UngetType
    <3> QED
        BY <2>2, <3>2
  <2> HIDE DEF u
  <2>6. line' = u /\ pc' = "macro" /\ UNCHANGED <<stk, tok, q, e, got, err, shown>>
      BY <2>3 DEF Goto, Rest, Fine, problem
  <2> DEFINE t == <<"eot">>
  <2>7. t \in Seq(Chars) /\ Now(t)
      BY <1>3, <2>1, <2>4
  <2> HIDE DEF t
  <2>8. text' = t /\ (t = <<>> => odd' = {}) /\ Says(t).odd \subseteq odd'
      BY <2>7, GhostsNow
  <2>9. text' = <<"eot">> /\ line'.buf = <<"eot">> /\ line'.ri = 0 /\ line'.notblank /\ ~line'.ignore /\ line' \in Lines
    <3>1. ~line.ignore
        BY <2>1
    <3> QED
        BY <2>2, <2>4, <2>5, <2>6, <2>8, <3>1 DEF t
  <2>10. Typing'
      BY <1>2, <2>6, <2>7, <2>8, <2>9 DEF Typing, Sorts, Places, Active
  <2>11. EotRead'
      BY <1>5, <2>6, <2>9 DEF EotRead, Clear
  <2>12. Counted'
    <3>1. <<"eot">> # <<>>
        BY <2>4
    <3> QED
        BY <1>5, <2>6, <2>9, <3>1 DEF Counted, Clear
  <2>13. NothingLost' /\ InStep' /\ ReadsRight' /\ ErrorInStep'
      BY <2>6, <2>9, <2>11, <2>12 DEF NothingLost, InStep, ReadsRight, ErrorInStep
  <2> QED
      BY <2>10, <2>11, <2>13 DEF Inv
<1> QED
    BY <1>6, <1>7 DEF Eot

\* The end of a file.
LEMMA EofInv ==
  ASSUME Inv, err = 0, Eof
  PROVE  Inv'
<1>1. text \in Seq(Chars) /\ (text = <<>> => odd = {}) /\ Says(text).odd \subseteq odd
    BY DEF Inv, Typing
<1>2. text' = text /\ odd' = odd
    BY DEF Eof, ghosts
<1>3. <<>> \in Seq(Chars)
    OBVIOUS
<1>4. ReadErr(<<>>, <<>>) \/ ReadErr(<<"?">>, <<>>)
    BY DEF Eof, Error
<1> QED
    BY <1>1, <1>2, <1>3, <1>4, ErrInv

\* read1() returns: types.
LEMMA ReturnTyped ==
  ASSUME Sorts, Return
  PROVE  Sorts' /\ pc' \in Active \ {"token", "symbol", "dot2"}
<1>1. pc = "return" /\ UNCHANGED <<line, tok, q, e, err, shown, text, odd>>
    BY DEF Return, At, problem, ghosts
<1>3. stk \in Seq(Openers) /\ got \in Seq(Toks) /\ Sorts
    BY DEF Sorts
<1>4. Sorts' /\ pc' \in Active \ {"token", "symbol", "dot2"}
  <2>1. CASE stk = <<>>
      BY <1>1, <1>3, <2>1 DEF Return, Sorts, Active
  <2>2. CASE stk # <<>>
    <3>1. Last(stk) \in Openers /\ Front(stk) \in Seq(Openers)
        BY <1>3, <2>2, LastFront
    <3>2. CASE Last(stk) = "'"
      <4>1. stk' = Front(stk) /\ got' = Append(got, Mark(")")) /\ pc' = pc
          BY <2>2, <3>2 DEF Return
      <4>2. got' \in Seq(Toks)
          BY <1>3, <4>1, SomeTokens, AppendProperties
      <4> QED
          BY <1>1, <1>3, <3>1, <4>1, <4>2 DEF Sorts, Active
    <3>3. CASE Last(stk) # "'"
      <4>1. Last(stk) \in {"(", "[", "."}
          BY <3>1, <3>3 DEF Openers
      <4>2. /\ pc' = CASE Last(stk) = "(" -> "dot" [] Last(stk) = "[" -> "elem" [] Last(stk) = "." -> "close"
            /\ UNCHANGED <<stk, got>>
          BY <2>2, <3>3 DEF Return
      <4>3. pc' \in {"dot", "elem", "close"}
          BY <4>1, <4>2
      <4> QED
          BY <1>1, <1>3, <4>2, <4>3 DEF Sorts, Active
    <3> QED
        BY <3>2, <3>3
  <2> QED
      BY <2>1, <2>2
<1> QED
    BY <1>4

\* read1() returns.
LEMMA ReturnInv ==
  ASSUME Inv, err = 0, Return
  PROVE  Inv'
<1>1. pc = "return" /\ UNCHANGED <<line, tok, q, e, err, shown, text, odd>>
    BY DEF Return, At, problem, ghosts
<1>2. /\ Typing /\ Counted /\ line \in Lines
      /\ odd = {} => line.buf = text /\ (Agrees \/ Skewed \/ EotRead)
    BY <1>1, InvFacts
<1>3. stk \in Seq(Openers) /\ got \in Seq(Toks) /\ Sorts
    BY <1>2 DEF Typing, Sorts
<1>4. Sorts' /\ pc' \in Active \ {"token", "symbol", "dot2"}
    BY <1>3, ReturnTyped
<1>5. Typing'
    BY <1>1, <1>2, <1>4 DEF Typing, Places
<1>6. NothingLost'
    BY <1>1, <1>2, <1>4 DEF NothingLost, Counted
<1>7. ReadsRight' /\ ErrorInStep'
    BY <1>1, <1>4 DEF ReadsRight, ErrorInStep, Active
<1>8. InStep'
  <2>1. SUFFICES ASSUME odd = {} PROVE line.buf = text /\ (Agrees' \/ EotRead')
      BY <1>1 DEF InStep
  <2>2. line.buf = text /\ (Agrees \/ EotRead)
      BY <1>1, <1>2, <2>1 DEF Skewed
  <2>3. CASE Agrees
    <3> DEFINE b == line.buf
               p == line.ri
    <3>1. b \in Seq(Chars) /\ p \in 0..Len(b)
        BY <1>2, LinesFacts
    <3>2. ParserNow(b, p)
        BY <1>3, <2>3 DEF Agrees, ParserNow
    <3> HIDE DEF b, p
    <3>3. Parser(b, p, pc', stk', got', tok', q', e') /\ Nested(stk')
        BY <3>1, <3>2, ReturnGood
    <3> QED
        BY <1>1, <2>2, <2>3, <3>3 DEF Agrees, b, p
  <2>4. CASE EotRead
    <3>1. stk = <<>> /\ got = <<Sym(<<"eot">>)>> /\ line.ri = 1
        BY <1>1, <2>4 DEF EotRead, Clear
    <3>2. pc' = "extra" /\ UNCHANGED <<stk, got>>
        BY <3>1 DEF Return
    <3> QED
        BY <1>1, <2>2, <2>4, <3>1, <3>2 DEF EotRead, Clear
  <2> QED
      BY <2>2, <2>3, <2>4
<1> QED
    BY <1>5, <1>6, <1>7, <1>8 DEF Inv

\* exread() returns.
LEMMA FinishInv ==
  ASSUME Inv, err = 0, Finish
  PROVE  Inv'
<1>1. /\ pc = "extra" /\ ~(line.ri < Len(line.buf)) /\ pc' = "done"
      /\ UNCHANGED <<line, stk, tok, q, e, got, err, shown, text, odd>>
    BY DEF Finish, At, Buffered, problem, ghosts
<1>2. /\ Typing /\ line \in Lines /\ line.buf \in Seq(Chars) /\ line.ri \in Nat /\ Len(line.buf) \in Nat
      /\ line.ri <= Len(line.buf)
      /\ odd = {} => line.buf = text /\ (Agrees \/ Skewed \/ EotRead)
    BY <1>1, InvFacts
<1>3. Typing'
    BY <1>1, <1>2 DEF Typing, Sorts, Places
<1>4. NothingLost' /\ InStep' /\ ErrorInStep'
    BY <1>1 DEF NothingLost, InStep, ErrorInStep
<1>5. ReadsRight'
  <2>1. SUFFICES ASSUME odd = {} PROVE got = Says(text).toks
      BY <1>1 DEF ReadsRight
  <2>2. line.buf = text /\ (Agrees \/ EotRead)
      BY <1>1, <1>2, <2>1 DEF Skewed
  <2>3. CASE Agrees
    <3> DEFINE b == line.buf
    <3>1. b \in Seq(Chars) /\ line.ri = Len(b)
        BY <1>1, <1>2
    <3>2. Parser(b, Len(b), "extra", stk, got, tok, q, e)
        BY <1>1, <2>3, <3>1 DEF Agrees
    <3>3. stk = <<>>
        BY <3>2 DEF Parser
    <3> HIDE DEF b
    <3>4. got = Says(b).toks
        BY <3>1, <3>2, <3>3, FinishRight
    <3> QED
        BY <2>2, <3>4 DEF b
  <2>4. CASE EotRead
    <3>1. got = <<Sym(<<"eot">>)>> /\ text = <<"eot">>
        BY <1>1, <2>2, <2>4 DEF EotRead
    <3> DEFINE b == <<"eot">>
    <3>2. b \in Seq(Chars) /\ Len(b) = 1 /\ b[0 + 1] = "eot" /\ 0 \in 0..(Len(b) - 1) /\ 0 + 1 = 1
      <4>1. "eot" \in Chars
          BY DEF Chars
      <4> QED
          BY <4>1
    <3> HIDE DEF b
    <3>3. Ref(b, 0) = Start /\ Ref(b, Len(b)) = Says(b)
        BY <3>2, RefFacts
    <3>4. Ref(b, 0 + 1) = Says1(Ref(b, 0), b[0 + 1]) /\ Ref(b, 0) \in SaysType
        BY <3>2, RefNext
    <3>5. Says(b) = Says1(Start, "eot")
        BY <3>2, <3>3, <3>4
    <3>6. Says1(Start, "eot") = [Start EXCEPT !.toks = <<Sym(<<"eot">>)>>]
      <4>1. Bare(Start)
          BY DEF Bare, Start
      <4> QED
          BY <3>3, <3>4, <4>1, EotSays
    <3>7. [Start EXCEPT !.toks = <<Sym(<<"eot">>)>>].toks = <<Sym(<<"eot">>)>>
        BY DEF Start
    <3> QED
        BY <3>1, <3>5, <3>6, <3>7 DEF b
  <2> QED
      BY <2>2, <2>3, <2>4
<1> QED
    BY <1>3, <1>4, <1>5 DEF Inv

\* The next expression.
LEMMA StartInv ==
  ASSUME StartRead
  PROVE  Inv'
<1>1. line' = EmptyLine /\ Restart /\ err' = 0 /\ shown' = <<>> /\ Now(<<>>)
    BY DEF StartRead
<1>2. shown' \in Seq(Chars)
    BY <1>1
<1> QED
    BY <1>1, <1>2, EmptyInv

-----------------------------------------------------------------------------
(* ... and while an error is read.                                         *)

\* Where a character of the line is, and what it is.
LEMMA ErrPlaces ==
  ASSUME NEW b, NEW w, ErrText(b, w), NEW p \in Nat, p < Len(b)
  PROVE  /\ Len(b) \in Nat /\ p \in 0..(Len(b) - 1) /\ p + 1 \in 1..Len(b) /\ b \in Seq(Chars)
         /\ \/ p = 0 /\ b[p + 1] = "'" /\ Ref(b, p) = Start
            \/ p = 1 /\ b[p + 1] = "quo" /\ ~Ref(b, p).in /\ Ref(b, p).open = <<"'">>
            \/ p \in 2..(Len(b) - 2) /\ Inside(Ref(b, p))
            \/ p = Len(b) - 1 /\ b[p + 1] = "nl" /\ Ref(b, p).in /\ p >= 3
         /\ ~Ref(b, p + 1).com
<1> DEFINE n == Len(b)
<1>1. n \in Nat /\ n >= 4 /\ b \in Seq(Chars)
    BY DEF ErrText
<1>2. b[1] = "'" /\ b[2] = "quo" /\ b[n - 1] = "quo" /\ b[n] = "nl"
    BY DEF ErrText
<1>3. /\ ~Ref(b, 1).in /\ Bare(Ref(b, 1)) /\ Ref(b, 1).open = <<"'">>
      /\ \A i \in 2..(n - 2) : Inside(Ref(b, i))
      /\ Ref(b, n - 1).in /\ Bare(Ref(b, n - 1)) /\ Bare(Ref(b, n))
    BY DEF ErrText
<1>4. Ref(b, 0) = Start
    BY <1>1, RefFacts
<1> HIDE DEF n
<1>5. p < n
    BY DEF n
<1>6. p \in 0..(n - 1) /\ p + 1 \in 1..n
    BY <1>1, <1>5
<1>7. p = 0 \/ p = 1 \/ p \in 2..(n - 2) \/ p = n - 1
    BY <1>1, <1>5
<1>8. /\ p = 0 => b[p + 1] = "'" /\ Ref(b, p) = Start
      /\ p = 1 => b[p + 1] = "quo" /\ ~Ref(b, p).in /\ Ref(b, p).open = <<"'">>
      /\ p \in 2..(n - 2) => Inside(Ref(b, p))
      /\ p = n - 1 => b[p + 1] = "nl" /\ Ref(b, p).in /\ p >= 3
  <2>1. 0 + 1 = 1 /\ 1 + 1 = 2 /\ (n - 1) + 1 = n /\ n - 1 >= 3
      BY <1>1
  <2> QED
      BY <1>2, <1>3, <1>4, <2>1
<1>9. ~Ref(b, p + 1).com
  <2>1. p + 1 = 1 \/ p + 1 \in 2..(n - 2) \/ p + 1 = n - 1 \/ p + 1 = n
      BY <1>1, <1>6
  <2> DEFINE j == p + 1
  <2>2. j = 1 \/ j \in 2..(n - 2) \/ j = n - 1 \/ j = n
      BY <2>1
  <2> HIDE DEF j
  <2>3. ~Ref(b, j).com
      BY <1>3, <2>2 DEF Bare, Inside
  <2> QED
      BY <2>3 DEF j
<1> QED
    BY <1>1, <1>6, <1>7, <1>8, <1>9 DEF n

\* All of it has been read.
LEMMA ErrEnd ==
  ASSUME NEW b, NEW w, ErrText(b, w)
  PROVE  /\ Len(b) \in Nat /\ Len(b) >= 4 /\ b \in Seq(Chars) /\ b[Len(b)] = "nl"
         /\ Ending(b, Len(b)) = Ref(b, Len(b)) /\ Ended(b, Len(b)) = Ref(b, Len(b))
         /\ ~Ref(b, Len(b)).in /\ Ref(b, Len(b)).open = <<>>
         /\ Ref(b, Len(b)).toks = <<Mark("("), Sym(<<"quote">>), Sym(w), Mark(")")>>
         /\ Says(b) = Ref(b, Len(b))
<1>1. /\ Len(b) \in Nat /\ Len(b) >= 4 /\ b \in Seq(Chars) /\ b[Len(b)] = "nl"
      /\ ~Ref(b, Len(b)).in /\ Ref(b, Len(b)).open = <<>>
      /\ Ref(b, Len(b)).toks = <<Mark("("), Sym(<<"quote">>), Sym(w), Mark(")")>>
    BY DEF ErrText
<1>2. Len(b) \in 0..Len(b) /\ ~(Len(b) < Len(b))
    BY <1>1
<1>3. Ending(b, Len(b)) = Ref(b, Len(b))
    BY <1>1, <1>2, EndingOut
<1>4. Ended(b, Len(b)) = Ref(b, Len(b))
    BY <1>2, <1>3 DEF Ended
<1>5. Says(b) = Ref(b, Len(b))
    BY <1>1, RefFacts
<1> QED
    BY <1>1, <1>3, <1>4, <1>5

\* No list is open in it.
LEMMA ErrOpen ==
  ASSUME NEW b, NEW w, ErrText(b, w), NEW p \in Nat, p < Len(b), NEW k, NEW g, Is(b, p, k, g)
  PROVE  \/ p = 0 /\ k = <<>> /\ g = <<>>
         \/ p = 1 /\ k = <<"'">>
         \/ p = Len(b) - 1 /\ k = <<>> /\ b[p + 1] = "nl"
<1>1. /\ Len(b) \in Nat /\ p \in 0..(Len(b) - 1) /\ p + 1 \in 1..Len(b) /\ b \in Seq(Chars)
      /\ \/ p = 0 /\ b[p + 1] = "'" /\ Ref(b, p) = Start
         \/ p = 1 /\ b[p + 1] = "quo" /\ ~Ref(b, p).in /\ Ref(b, p).open = <<"'">>
         \/ p \in 2..(Len(b) - 2) /\ Inside(Ref(b, p))
         \/ p = Len(b) - 1 /\ b[p + 1] = "nl" /\ Ref(b, p).in /\ p >= 3
    BY ErrPlaces
<1>2. Free(b, p) /\ ~Ref(b, p).q
    BY DEF Is, Free
<1>3. b[p + 1] \in {"'", "quo", "nl"}
    BY <1>1, <1>2 DEF Inside
<1>4. Ending(b, p).toks = g /\ Ending(b, p).open = k
  <2>1. b[p + 1] \notin Closers
      BY <1>3 DEF Closers
  <2> QED
      BY <2>1, IsTo
<1>5. CASE p = 0 /\ Ref(b, p) = Start
  <2>1. ~Start.in /\ Start.toks = <<>> /\ Start.open = <<>>
      BY DEF Start
  <2>2. p \in 0..Len(b)
      BY <1>1
  <2>3. Ending(b, p) = Start
      BY <1>1, <1>5, <2>1, <2>2, EndingOut
  <2> QED
      BY <1>4, <1>5, <2>1, <2>3
<1>6. CASE p = 1 /\ ~Ref(b, p).in /\ Ref(b, p).open = <<"'">>
  <2>1. p \in 0..Len(b)
      BY <1>1
  <2>2. Ending(b, p) = Ref(b, p)
      BY <1>1, <1>6, <2>1, EndingOut
  <2> QED
      BY <1>4, <1>6, <2>2
<1>7. CASE p = Len(b) - 1 /\ b[p + 1] = "nl" /\ Ref(b, p).in
  <2>1. p + 1 = Len(b)
      BY <1>1, <1>7
  <2>2. /\ Ref(b, p) \in SaysType /\ Sane(Ref(b, p)) /\ Ref(b, p + 1) = Says1(Ref(b, p), b[p + 1])
      BY <1>1, RefNext
  <2>3. Bare(Ref(b, p))
    <3>1. Bare(Ref(b, Len(b) - 1))
        BY DEF ErrText
    <3> QED
        BY <1>7, <3>1
  <2>4. "nl" \in Chars /\ IsSpace("nl")
      BY DEF Chars, IsSpace
  <2>5. Says1(Ref(b, p), "nl").open = EndSymbol(Ref(b, p), TRUE).open
      BY <2>2, <2>3, <2>4, SpaceSays
  <2>6. Ref(b, p + 1).open = <<>>
      BY <2>1, ErrEnd
  <2>7. Ending(b, p) = EndSymbol(Ref(b, p), TRUE)
    <3>1. (p < Len(b) /\ IsSpace(b[p + 1])) = TRUE
        BY <1>7, <2>4
    <3> QED
        BY <3>1 DEF Ending
  <2>8. k = <<>>
      BY <1>4, <1>7, <2>2, <2>5, <2>6, <2>7
  <2> QED
      BY <1>7, <2>8
<1> QED
    BY <1>1, <1>2, <1>5, <1>6, <1>7 DEF Inside

\* There is no error in it.
LEMMA ErrSound ==
  ASSUME NEW b, NEW w, ErrText(b, w), NEW p \in Nat, p < Len(b),
         Parser(b, p, pc, stk, got, tok, q, e), NEW c, c = b[p + 1]
  PROVE  ~Faulty(c)
<1>1. /\ Len(b) \in Nat /\ p \in 0..(Len(b) - 1) /\ p + 1 \in 1..Len(b) /\ b \in Seq(Chars)
      /\ \/ p = 0 /\ b[p + 1] = "'" /\ Ref(b, p) = Start
         \/ p = 1 /\ b[p + 1] = "quo" /\ ~Ref(b, p).in /\ Ref(b, p).open = <<"'">>
         \/ p \in 2..(Len(b) - 2) /\ Inside(Ref(b, p))
         \/ p = Len(b) - 1 /\ b[p + 1] = "nl" /\ Ref(b, p).in /\ p >= 3
    BY ErrPlaces
<1>2. ASSUME pc = "macro2", IsSpace(c) \/ c \in Closers PROVE FALSE
  <2>1. ~Ref(b, p).in /\ p >= 1
      BY <1>2 DEF Parser
  <2>2. c = "quo"
      BY <1>1, <2>1 DEF Inside
  <2> QED
      BY <1>2, <2>2 DEF IsSpace, Closers
<1>3. ASSUME pc \in {"elem", "close"} PROVE FALSE
  <2>1. CASE pc = "elem"
    <3>1. Is(b, p, stk, got) /\ stk # <<>> /\ Last(stk) \in {"(", "["}
        BY <2>1 DEF Parser, InElem
    <3>2. stk = <<"'">>
        BY <3>1, ErrOpen
    <3>3. Last(<<"'">>) = "'"
        BY DEF Last
    <3> QED
        BY <3>1, <3>2, <3>3
  <2>2. CASE pc = "close"
    <3>1. Is(b, p, stk, got) /\ stk # <<>> /\ Last(stk) = "."
        BY <2>2 DEF Parser, Top
    <3>2. stk = <<"'">>
        BY <3>1, ErrOpen
    <3>3. Last(<<"'">>) = "'"
        BY DEF Last
    <3> QED
        BY <3>1, <3>2, <3>3
  <2> QED
      BY <1>3, <2>1, <2>2
<1>4. ASSUME pc = "symbol", IsRdMac(c), ~q, ~e PROVE FALSE
  <2>1. Ref(b, p).q = q /\ (~Ref(b, p).in => Starts(b, p)) /\ c = "'"
      BY <1>4 DEF Parser, InSymbol, IsRdMac
  <2>2. ~Ref(b, p).q
      BY <1>4, <2>1
  <2>3. Ref(b, p) = Start
      BY <1>1, <2>1, <2>2 DEF Inside
  <2>4. ~Start.in
      BY DEF Start
  <2>5. Starts(b, p)
      BY <2>1, <2>3, <2>4
  <2> QED
      BY <2>1, <2>5 DEF Starts
<1>5. ASSUME pc = "extra", ~IsSpace(c) PROVE FALSE
  <2>1. Ends(got) /\ stk = <<>> /\ (Doomed(b, p, stk) \/ Is(b, p, stk, got))
      BY <1>5 DEF Parser
  <2>2. ~Doomed(b, p, stk)
    <3>1. ASSUME Doomed(b, p, stk) PROVE FALSE
      <4>1. ~Ref(b, p).q /\ b[p + 1] \in Closers
          BY <3>1 DEF Doomed, Free
      <4> QED
          BY <1>1, <4>1 DEF Inside, Closers
    <3> QED
        BY <3>1
  <2>3. Is(b, p, stk, got)
      BY <2>1, <2>2
  <2>4. (p = 0 /\ stk = <<>> /\ got = <<>>) \/ (p = 1 /\ stk = <<"'">>) \/ c = "nl"
      BY <2>3, ErrOpen
  <2>5. got # <<>> /\ c # "nl" /\ <<"'">> # <<>>
      BY <1>5, <2>1 DEF Ends, IsSpace
  <2> QED
      BY <2>1, <2>4, <2>5
<1> QED
    BY <1>2, <1>3, <1>4, <1>5 DEF Faulty

\* It is enough.
LEMMA ErrEnough ==
  ASSUME NEW b, NEW w, ErrText(b, w), Parser(b, Len(b), pc, stk, got, tok, q, e), pc \in Active,
         tok \in Seq(Chars)
  PROVE  pc \in {"return", "extra"}
<1> DEFINE n == Len(b)
<1>1. /\ n \in Nat /\ n >= 4 /\ b \in Seq(Chars) /\ b[n] = "nl"
      /\ Ending(b, n) = Ref(b, n) /\ Ended(b, n) = Ref(b, n)
      /\ ~Ref(b, n).in /\ Ref(b, n).open = <<>>
      /\ Ref(b, n).toks = <<Mark("("), Sym(<<"quote">>), Sym(w), Mark(")")>>
    BY ErrEnd
<1>2. Parser(b, n, pc, stk, got, tok, q, e)
    OBVIOUS
<1> HIDE DEF n
<1>3. ~(n < n)
    BY <1>1
<1>4. ~Peeked(b, n)
  <2>1. Len(b) = n
      BY DEF n
  <2> QED
      BY <1>3, <2>1 DEF Peeked
<1>5. pc # "skip"
  <2>1. ASSUME pc = "skip" PROVE FALSE
    <3>1. Ending(b, n).toks = got /\ Ending(b, n).open = stk /\ (stk = <<>> => got = <<>>)
        BY <1>2, <2>1 DEF Parser, Pre, Expects
    <3>2. Len(<<Mark("("), Sym(<<"quote">>), Sym(w), Mark(")")>>) = 4 /\ Len(<<>>) = 0
        OBVIOUS
    <3> QED
        BY <1>1, <3>1, <3>2
  <2> QED
      BY <2>1
<1>6. pc \notin {"macro", "vector", "pair"}
    BY <1>2, <1>4 DEF Parser
<1>7. pc # "macro2"
  <2>1. ASSUME pc = "macro2" PROVE FALSE
    <3>1. Ref(b, n).open = Append(stk, "'")
        BY <1>2, <2>1 DEF Parser
    <3>2. Append(stk, "'") # <<>>
        OBVIOUS
    <3> QED
        BY <1>1, <3>1, <3>2
  <2> QED
      BY <2>1
<1>8. pc # "token"
  <2>1. ASSUME pc = "token" PROVE FALSE
    <3> DEFINE st == n - Len(tok)
    <3>1. /\ st >= 0 /\ Starts(b, st) /\ tok = SubSeq(b, st + 1, n)
          /\ \A i \in DOMAIN tok : ~IsTokSep(tok[i])
        BY <1>2, <2>1 DEF Parser, InToken
    <3>2. Len(tok) \in Nat /\ Len(b) = n /\ DOMAIN tok = 1..Len(tok)
        BY LenProperties DEF n
    <3>3. st < n
        BY <3>1, <3>2 DEF Starts, Peeked
    <3>4. Len(tok) \in 1..Len(tok) /\ Len(tok) # 0
        BY <1>1, <3>2, <3>3
    <3>5. tok[Len(tok)] = b[n]
      <4> DEFINE s == st + 1
      <4>1. s \in Int /\ n \in Int /\ s <= n /\ s >= 1 /\ Len(tok) \in 1..(n - s + 1) /\ s + Len(tok) - 1 = n
          BY <1>1, <3>1, <3>2, <3>4
      <4>2. tok = SubSeq(b, s, n)
          BY <3>1
      <4> HIDE DEF s
      <4>3. \A i \in s..n : b[i] \in Chars
        <5>1. \A i \in s..n : i \in 1..Len(b)
            BY <1>1, <3>2, <4>1
        <5> QED
            BY <1>1, <5>1, ElementOfSeq
      <4>4. \A i \in 1..(n - s + 1) : SubSeq(b, s, n)[i] = b[s + i - 1]
          BY <1>1, <4>1, <4>3, SubSeqProperties
      <4> QED
          BY <4>1, <4>2, <4>4
    <3>6. IsTokSep("nl")
        BY DEF IsTokSep, IsSpace
    <3> QED
        BY <1>1, <3>1, <3>2, <3>4, <3>5, <3>6
  <2> QED
      BY <2>1
<1>9. pc # "symbol"
  <2>1. ASSUME pc = "symbol" PROVE FALSE
    <3>1. ~Ref(b, n).in => Starts(b, n)
        BY <1>2, <2>1 DEF Parser, InSymbol
    <3> QED
        BY <1>1, <1>4, <3>1 DEF Starts
  <2> QED
      BY <2>1
<1>10. pc \notin {"elem", "dot", "close"}
  <2>1. ASSUME pc \in {"elem", "dot", "close"} PROVE FALSE
    <3>1. Ended(b, n).open = stk /\ stk # <<>>
        BY <1>2, <2>1 DEF Parser, InElem, Is, Top
    <3> QED
        BY <1>1, <3>1
  <2> QED
      BY <2>1
<1>11. pc # "dot2"
  <2>1. ASSUME pc = "dot2" PROVE FALSE
    <3>1. Ref(b, n).in
        BY <1>2, <2>1 DEF Parser, InDot2
    <3> QED
        BY <1>1, <3>1
  <2> QED
      BY <2>1
<1> QED
    BY <1>5, <1>6, <1>7, <1>8, <1>9, <1>10, <1>11 DEF Active

\* The invariant, while an error is read.
LEMMA ErringFacts ==
  ASSUME Inv, err = 1, pc # "done"
  PROVE  /\ Typing /\ Erring /\ Sorts /\ pc \in Active /\ line \in Lines
         /\ line.buf \in Seq(Chars) /\ line.ri \in Nat /\ Len(line.buf) \in Nat /\ line.ri <= Len(line.buf)
         /\ Len(line.buf) >= 4
         /\ Reading => Buffered
<1>1. Typing /\ Erring
    BY DEF Inv, ErrorInStep
<1>2. Sorts /\ pc \in Active /\ line \in Lines
    BY <1>1 DEF Typing, Places
<1>3. line.buf \in Seq(Chars) /\ line.ri \in Nat /\ Len(line.buf) \in Nat /\ line.ri <= Len(line.buf)
    BY <1>2, LinesFacts
<1>4. ErrText(line.buf, shown) /\ Parser(line.buf, line.ri, pc, stk, got, tok, q, e)
    BY <1>1 DEF Erring
<1>5. Len(line.buf) >= 4
    BY <1>4 DEF ErrText
<1>6. Reading => Buffered
  <2>1. ASSUME ~(line.ri < Len(line.buf)) PROVE pc \in {"return", "extra"}
    <3>1. line.ri = Len(line.buf)
        BY <1>3, <2>1
    <3>2. tok \in Seq(Chars)
        BY <1>2 DEF Sorts
    <3>3. Parser(line.buf, Len(line.buf), pc, stk, got, tok, q, e)
        BY <1>4, <3>1
    <3> QED
        BY <1>2, <1>4, <3>2, <3>3, ErrEnough
  <2> QED
      BY <2>1 DEF Reading, Buffered
<1> QED
    BY <1>1, <1>2, <1>3, <1>5, <1>6

\* A character of it.
LEMMA ErrAgain ==
  ASSUME Inv, err = 1, Again
  PROVE  Inv'
<1> DEFINE b == line.buf
           p == line.ri
           c == b[p + 1]
<1>1. /\ line.ri < Len(line.buf) /\ pc \notin {"return", "done"}
      /\ Getc([line EXCEPT !.ri = @ + 1]) /\ Now(IF line' = EmptyLine THEN <<>> ELSE text)
    BY DEF Again, Buffered, Reading, At
<1>2. /\ Typing /\ Erring /\ Sorts /\ line \in Lines /\ text \in Seq(Chars) /\ shown \in Seq(Chars)
      /\ pc \in Active
    BY <1>1, ErringFacts DEF Typing
<1>3. /\ ErrText(b, shown) /\ Scan(line) /\ Parser(b, p, pc, stk, got, tok, q, e) /\ Nested(stk)
      /\ p >= 1 => line.notblank
    BY <1>2 DEF Erring
<1>4. b \in Seq(Chars) /\ p \in Nat /\ p < Len(b) /\ Len(b) \in Nat
    BY <1>1, <1>2, LinesFacts
<1>5. Says(b).odd = {} /\ ParserNow(b, p)
    BY <1>2, <1>3 DEF ErrText, ParserNow
<1> HIDE DEF b, p, c
<1>6. /\ \/ p = 0 /\ b[p + 1] = "'" /\ Ref(b, p) = Start
         \/ p = 1 /\ b[p + 1] = "quo"
         \/ p \in 2..(Len(b) - 2) /\ Inside(Ref(b, p))
         \/ p = Len(b) - 1 /\ b[p + 1] = "nl"
      /\ ~Ref(b, p + 1).com
    BY <1>3, <1>4, ErrPlaces
<1>7. c = b[p + 1] /\ b = line.buf /\ p = line.ri
    BY DEF b, p, c
<1>8. c = "eot" => Ref(b, p).q \/ Ref(b, p).e \/ Ref(b, p).com
    BY <1>6, <1>7 DEF Inside
<1>9. \/ Kept(b) /\ (line'.notblank \/ (Ref(b, p + 1).com /\ line'.notblank = line.notblank))
      \/ EndRead /\ IsSpace(c) /\ ~line.notblank
      \/ Bad /\ Faulty(c)
    BY <1>1, <1>2, <1>3, <1>4, <1>5, <1>7, <1>8, GetcGood
<1>10. ~Faulty(c)
    BY <1>3, <1>4, <1>7, ErrSound
<1>11. ~(IsSpace(c) /\ ~line.notblank)
  <2>1. ASSUME IsSpace(c), ~line.notblank PROVE FALSE
    <3>1. p = 0
        BY <1>3, <1>4, <2>1
    <3>2. Len(b) >= 4
        BY <1>3 DEF ErrText
    <3>3. p # 1 /\ p \notin 2..(Len(b) - 2) /\ p # Len(b) - 1
        BY <1>4, <3>1, <3>2
    <3>4. b[p + 1] = "'"
        BY <1>6, <3>3
    <3>5. c = "'"
        BY <1>7, <3>4
    <3> QED
        BY <2>1, <3>5 DEF IsSpace
  <2> QED
      BY <2>1
<1>12. Kept(b) /\ line'.notblank
    BY <1>6, <1>9, <1>10, <1>11
<1>13. /\ line' \in Lines /\ line'.buf = b /\ Scan(line')
       /\ Parser(b, line'.ri, pc', stk', got', tok', q', e') /\ Nested(stk') /\ UNCHANGED <<err, shown>>
    BY <1>12 DEF Kept, problem
<1>14. Sorts' /\ pc' \in Active
  <2>1. /\ pc \notin {"token", "symbol"} => tok = <<>>
        /\ pc = "token" => line.ri >= Len(tok)
        /\ pc = "dot2" => line.ri >= 1
    <3>1. Len(tok) \in Nat
        BY <1>2, LenProperties DEF Sorts
    <3>2. pc = "token" => p - Len(tok) >= 0
        BY <1>3 DEF Parser, InToken
    <3>3. pc = "dot2" => p >= 1
        BY <1>3 DEF Parser, InDot2
    <3>4. pc \notin {"token", "symbol"} => tok = <<>>
        BY <1>3 DEF Parser
    <3> QED
        BY <1>4, <1>7, <3>1, <3>2, <3>3, <3>4
  <2>2. Took([line EXCEPT !.notblank = line'.notblank]) \/ EndRead \/ Bad
      BY <1>1, <1>2, <2>1, GetcTyped
  <2>3. ~EndRead
    <3>1. ~EmptyLine.notblank
        BY DEF EmptyLine
    <3> QED
        BY <1>12, <3>1 DEF EndRead
  <2>4. ~Bad
      BY <1>13 DEF Bad, Error, ReadErr
  <2> QED
      BY <2>2, <2>3, <2>4 DEF Took
<1>15. line' # EmptyLine
  <2>1. ~EmptyLine.notblank
      BY DEF EmptyLine
  <2> QED
      BY <1>12, <2>1
<1>16. text' = text /\ (text = <<>> => odd' = {}) /\ Says(text).odd \subseteq odd'
  <2>1. Now(text)
      BY <1>1, <1>15
  <2> QED
      BY <1>2, <2>1, GhostsNow
<1>17. Typing'
    BY <1>2, <1>13, <1>14, <1>16 DEF Typing, Places
<1>18. NothingLost' /\ InStep' /\ ReadsRight'
    BY <1>13 DEF NothingLost, InStep, ReadsRight
<1>19. ErrorInStep'
  <2>1. pc' # "done"
      BY <1>14 DEF Active
  <2>2. ErrText(line'.buf, shown')
      BY <1>3, <1>13
  <2>3. Parser(line'.buf, line'.ri, pc', stk', got', tok', q', e')
      BY <1>13
  <2>4. Erring'
      BY <1>12, <1>13, <2>2, <2>3 DEF Erring
  <2> QED
      BY <2>1, <2>4 DEF ErrorInStep
<1> QED
    BY <1>17, <1>18, <1>19 DEF Inv

\* read1() returns.
LEMMA ErrReturn ==
  ASSUME Inv, err = 1, Return
  PROVE  Inv'
<1>1. pc = "return" /\ UNCHANGED <<line, tok, q, e, err, shown, text, odd>>
    BY DEF Return, At, problem, ghosts
<1>2. Typing /\ Erring /\ Sorts /\ line \in Lines
    BY <1>1, ErringFacts
<1>3. stk \in Seq(Openers) /\ got \in Seq(Toks)
    BY <1>2 DEF Sorts
<1>4. Sorts' /\ pc' \in Active
    BY <1>1, <1>2, <1>3, ReturnTyped
<1>5. Typing'
    BY <1>1, <1>2, <1>4 DEF Typing, Places
<1>6. NothingLost' /\ InStep' /\ ReadsRight'
    BY <1>1 DEF NothingLost, InStep, ReadsRight
<1> DEFINE b == line.buf
           p == line.ri
<1>7. b \in Seq(Chars) /\ p \in 0..Len(b)
    BY <1>2, LinesFacts
<1>8. ParserNow(b, p)
    BY <1>2 DEF Erring, ParserNow
<1> HIDE DEF b, p
<1>9. Parser(b, p, pc', stk', got', tok', q', e') /\ Nested(stk')
    BY <1>7, <1>8, ReturnGood
<1>10. Erring'
    BY <1>1, <1>2, <1>9 DEF Erring, b, p
<1>11. pc' # "done"
    BY <1>4 DEF Active
<1> QED
    BY <1>5, <1>6, <1>10, <1>11 DEF Inv, ErrorInStep

\* exread() returns.
LEMMA ErrFinish ==
  ASSUME Inv, err = 1, Finish
  PROVE  Inv'
<1>1. /\ pc = "extra" /\ ~(line.ri < Len(line.buf)) /\ pc' = "done"
      /\ UNCHANGED <<line, stk, tok, q, e, got, err, shown, text, odd>>
    BY DEF Finish, At, Buffered, problem, ghosts
<1>2. /\ Typing /\ Erring /\ line.ri \in Nat /\ Len(line.buf) \in Nat /\ line.ri <= Len(line.buf)
      /\ line.buf \in Seq(Chars)
    BY <1>1, ErringFacts
<1>3. Typing'
    BY <1>1, <1>2 DEF Typing, Sorts, Places
<1>4. NothingLost' /\ InStep' /\ ReadsRight'
    BY <1>1 DEF NothingLost, InStep, ReadsRight
<1> DEFINE b == line.buf
<1>5. line.ri = Len(b) /\ b \in Seq(Chars)
    BY <1>1, <1>2
<1>6. Parser(b, Len(b), "extra", stk, got, tok, q, e) /\ ErrText(b, shown)
    BY <1>1, <1>2, <1>5 DEF Erring
<1> HIDE DEF b
<1>7. stk = <<>>
    BY <1>6 DEF Parser
<1>8. got = Says(b).toks
    BY <1>5, <1>6, <1>7, FinishRight
<1>9. got = <<Mark("("), Sym(<<"quote">>), Sym(shown), Mark(")")>>
    BY <1>6, <1>8, ErrEnd
<1> QED
    BY <1>1, <1>3, <1>4, <1>9 DEF Inv, ErrorInStep

-----------------------------------------------------------------------------
(* The theorems.                                                           *)

\* The invariant holds when the program starts.
LEMMA InitInv ==
  Init => Inv
<1> SUFFICES ASSUME Init PROVE Inv
    OBVIOUS
<1>1. /\ line = EmptyLine /\ pc = "skip" /\ stk = <<>> /\ got = <<>> /\ tok = <<>> /\ q = FALSE /\ e = FALSE
      /\ err = 0 /\ shown = <<>> /\ text = <<>> /\ odd = {}
    BY DEF Init
<1>2. EmptyLine = [EmptyLine EXCEPT !.buf = EmptyLine.buf] /\ EmptyLine.buf = <<>>
  <2>1. EmptyLine \in LineType /\ EmptyLine.buf = <<>>
      BY DEF EmptyLine, LineType, NONE
  <2>2. \A l \in LineType : l = [l EXCEPT !.buf = l.buf]
      BY DEF LineType
  <2> QED
      BY <2>1, <2>2
<1> DEFINE b == <<>>
<1>3. b \in Seq(Chars) /\ line = [EmptyLine EXCEPT !.buf = b] /\ Len(b) = 0
    BY <1>1, <1>2
<1> HIDE DEF b
<1>4. /\ line \in Lines /\ line.buf = b /\ line.ri = 0 /\ ~line.notblank /\ Scan(line)
      /\ Parser(b, 0, "skip", <<>>, <<>>, <<>>, FALSE, FALSE) /\ Nested(<<>>)
    BY <1>3, FreshGood
<1>5. Says(b) = Start
  <2>1. Ref(b, Len(b)) = Says(b) /\ Ref(b, 0) = Start
      BY <1>3, RefFacts
  <2> QED
      BY <1>3, <2>1
<1>6. <<>> \in Seq(Openers) /\ <<>> \in Seq(Chars) /\ <<>> \in Seq(Toks)
    OBVIOUS
<1>7. Typing
  <2>1. Says(text).odd = {}
      BY <1>1, <1>5 DEF b, Start
  <2> QED
      BY <1>1, <1>4, <1>6, <2>1 DEF Typing, Sorts, Places, Active
<1>8. NothingLost
    BY <1>1, <1>4 DEF NothingLost, Counted, b
<1>9. InStep
  <2>1. NoEot(<<>>)
      BY DEF NoEot
  <2>2. Agrees
      BY <1>1, <1>4, <2>1 DEF Agrees, b
  <2> QED
      BY <1>1, <1>4, <2>2 DEF InStep, b
<1>10. ReadsRight /\ ErrorInStep
    BY <1>1 DEF ReadsRight, ErrorInStep
<1> QED
    BY <1>7, <1>8, <1>9, <1>10 DEF Inv

\* Every step keeps the invariant.
LEMMA NextInv ==
  ASSUME Inv, [Next]_vars
  PROVE  Inv'
<1>1. err \in {0, 1}
    BY DEF Inv, Typing
<1>2. CASE UNCHANGED vars
  <2>1. UNCHANGED <<line, pc, stk, tok, q, e, got, err, shown, text, odd>>
      BY <1>2 DEF vars, parser, problem, ghosts
  <2>2. Typing' /\ NothingLost'
      BY <2>1 DEF Inv, Typing, Sorts, NothingLost, Counted
  <2>3. InStep'
      BY <2>1 DEF Inv, InStep, Agrees, Skewed, EotRead, Clear
  <2>4. ReadsRight' /\ ErrorInStep'
      BY <2>1 DEF Inv, ReadsRight, ErrorInStep, Erring
  <2> QED
      BY <2>2, <2>3, <2>4 DEF Inv
<1>3. CASE Next /\ err = 0
    BY <1>3, AgainInv, TypeInv, EraseInv, KillInv, EotInv, EofInv, ReturnInv, FinishInv, StartInv DEF Next
<1>4. CASE Next /\ err = 1
  <2>1. pc = "done" => ~Reading
      BY DEF Reading
  <2>2. Reading => Buffered
      BY <1>4, <2>1, ErringFacts
  <2>3. ~(\E c \in Typed : Type(c)) /\ ~Erase /\ ~Kill /\ ~Eof
      BY <2>2 DEF Type, Erase, Kill, Eof
  <2>4. ~Eot
    <3>1. ASSUME Eot PROVE FALSE
      <4>1. pc # "done" /\ line.buf = <<>>
          BY <3>1 DEF Eot, At
      <4>2. Len(line.buf) >= 4 /\ Len(<<>>) = 0
          BY <1>4, <4>1, ErringFacts
      <4> QED
          BY <4>1, <4>2
    <3> QED
        BY <3>1
  <2> QED
      BY <1>4, <2>3, <2>4, ErrAgain, ErrReturn, ErrFinish, StartInv DEF Next
<1> QED
    BY <1>1, <1>2, <1>3, <1>4

\* The line buffer, incomment() and the parser agree with the text at every moment, and what
\* readerr() leaves is read without an error.
THEOREM Invariance == Spec => []Inv
<1>1. Inv /\ [Next]_vars => Inv'
    BY NextInv
<1> QED
    BY <1>1, InitInv, PTL DEF Spec

\* An expression is read as it stands, however it was typed, put back, and edited (mygetc() to
\* exread()), unless a comment follows a symbol without a space or a quote an escaped backslash.
THEOREM ReadsRightHolds == Spec => []ReadsRight
<1>1. Inv => ReadsRight
    BY DEF Inv
<1> QED
    BY <1>1, Invariance, PTL

\* What readerr() and errsym() leave in the line buffer is read without an error, needs no more
\* input, and is the message, with what it is about, as the user is to see it.
THEOREM ErrorsReadHolds == Spec => []ErrorsRead
<1>1. Inv => ErrorsRead
  <2> SUFFICES ASSUME Inv PROVE ErrorsRead
      OBVIOUS
  <2>1. err # 2
      BY DEF Inv, Typing
  <2>2. (err = 1 /\ pc = "done") => got = <<Mark("("), Sym(<<"quote">>), Sym(shown), Mark(")")>>
      BY DEF Inv, ErrorInStep
  <2>3. (err = 1 /\ Reading) => Buffered
    <3>1. Reading => pc # "done"
        BY DEF Reading
    <3> QED
        BY <3>1, ErringFacts
  <2> QED
      BY <2>1, <2>2, <2>3 DEF ErrorsRead
<1> QED
    BY <1>1, Invariance, PTL

-----------------------------------------------------------------------------
(* What is read is well formed, with exceptions too: the lists that its    *)
(* tokens leave open, from left to right.                                  *)

Inner == {"(", "[", "."}

\* The lists open after the token t.
Within(k, t) ==
  CASE t \in {Mark("("), Mark("["), Mark(".")} -> Append(k, t[1])
    [] t \in {Mark(")"), Mark("]")} -> SubSeq(k, 1, Len(k) - (IF Last(k) = "." THEN 2 ELSE 1))
    [] OTHER -> k
IsSymbol(t) == \E s \in Seq(Chars) : t = Sym(s) /\ NoEot(s)
\* The token t may follow the tokens g, after which the lists k are open.
Follows(g, k, t) ==
  \/ IsSymbol(t)
  \/ t \in {Mark("("), Mark("[")}
  \/ t = Mark(".") /\ Top(k, "(") /\ g # <<>> /\ Last(g) # Mark("(")
  \/ t \in {Mark(")"), Mark("]")} /\ k # <<>> /\ g # <<>> /\ Last(g) # Mark(".")
     /\ (Top(k, ".") => Len(k) > 1)
Trace(g, k, h) == /\ h \in [0..Len(g) -> Seq(Inner)] /\ h[0] = <<>> /\ h[Len(g)] = k
                  /\ \A i \in 1..Len(g) : /\ Follows(SubSeq(g, 1, i - 1), h[i - 1], g[i])
                                          /\ h[i] = Within(h[i - 1], g[i])
Balanced(g, k) == \E h : Trace(g, k, h)

\* The lists after a token.
LEMMA WithinFacts ==
  ASSUME NEW k \in Seq(Inner)
  PROVE  /\ \A t \in Toks : IsSymbol(t) => Within(k, t) = k
         /\ \A x \in Inner : Within(k, Mark(x)) = Append(k, x) /\ Append(k, x) \in Seq(Inner)
         /\ \A t \in {Mark(")"), Mark("]")} :
              Within(k, t) = SubSeq(k, 1, Len(k) - (IF Last(k) = "." THEN 2 ELSE 1))
         /\ \A t \in {Mark(")"), Mark("]")} : k # <<>> => Within(k, t) \in Seq(Inner)
<1>1. ASSUME NEW t \in Toks, IsSymbol(t) PROVE Within(k, t) = k
  <2>1. PICK s \in Seq(Chars) : t = Sym(s)
      BY <1>1 DEF IsSymbol
  <2>2. t # Mark("(") /\ t # Mark("[") /\ t # Mark(".") /\ t # Mark(")") /\ t # Mark("]")
      BY <2>1, MarkKinds
  <2> QED
      BY <2>2 DEF Within
<1>2. ASSUME NEW x \in Inner PROVE Within(k, Mark(x)) = Append(k, x) /\ Append(k, x) \in Seq(Inner)
  <2>1. Mark(x) \in {Mark("("), Mark("["), Mark(".")} /\ Mark(x)[1] = x
      BY DEF Inner, Mark
  <2>2. Within(k, Mark(x)) = Append(k, Mark(x)[1])
    <3>1. Mark(x) \notin {Mark(")"), Mark("]")}
        BY MarkKinds DEF Inner
    <3> DEFINE t == Mark(x)
    <3>2. t \in {Mark("("), Mark("["), Mark(".")} /\ t \notin {Mark(")"), Mark("]")}
        BY <2>1, <3>1
    <3> HIDE DEF t
    <3>3. Within(k, t) = Append(k, t[1])
        BY <3>2 DEF Within
    <3> QED
        BY <3>3 DEF t
  <2> QED
      BY <2>1, <2>2, AppendProperties
<1>3. ASSUME NEW t \in {Mark(")"), Mark("]")}
      PROVE  Within(k, t) = SubSeq(k, 1, Len(k) - (IF Last(k) = "." THEN 2 ELSE 1))
  <2>1. t # Mark("(") /\ t # Mark("[") /\ t # Mark(".")
      BY MarkKinds
  <2> QED
      BY <2>1 DEF Within
<1>4. ASSUME NEW t \in {Mark(")"), Mark("]")}, k # <<>> PROVE Within(k, t) \in Seq(Inner)
  <2> DEFINE d == IF Last(k) = "." THEN 2 ELSE 1
             n == Len(k) - d
  <2>1. Len(k) \in Nat /\ d \in {1, 2} /\ \A i \in 1..Len(k) : k[i] \in Inner
      BY LenProperties, ElementOfSeq
  <2>2. Within(k, t) = SubSeq(k, 1, n)
      BY <1>3
  <2> HIDE DEF d
  <2>3. n \in Int /\ 1 \in Int /\ \A i \in 1..n : k[i] \in Inner
      BY <2>1
  <2> HIDE DEF n
  <2>4. SubSeq(k, 1, n) \in Seq(Inner)
      BY <2>3, SubSeqProperties
  <2> QED
      BY <2>2, <2>4
<1> QED
    BY <1>1, <1>2, <1>3, <1>4

\* What may follow is a token, and leaves lists.
LEMMA FollowsFacts ==
  ASSUME NEW g, NEW k \in Seq(Inner), NEW t, Follows(g, k, t)
  PROVE  t \in Toks /\ Within(k, t) \in Seq(Inner)
<1>1. CASE IsSymbol(t)
  <2>1. t \in Toks
      BY <1>1, TokenFacts DEF IsSymbol
  <2> QED
      BY <1>1, <2>1, WithinFacts
<1>2. CASE t \in {Mark("("), Mark("["), Mark(".")}
  <2>1. PICK x \in Inner : t = Mark(x)
      BY <1>2 DEF Inner
  <2> QED
      BY <1>2, <2>1, MarkKinds, WithinFacts
<1>3. CASE t \in {Mark(")"), Mark("]")} /\ k # <<>>
    BY <1>3, MarkKinds, WithinFacts
<1> QED
    BY <1>1, <1>2, <1>3 DEF Follows

\* One token more.
LEMMA BalancedAppend ==
  ASSUME NEW g \in Seq(Toks), NEW k \in Seq(Inner), NEW t, Balanced(g, k), Follows(g, k, t)
  PROVE  /\ Balanced(Append(g, t), Within(k, t)) /\ Append(g, t) \in Seq(Toks)
         /\ Within(k, t) \in Seq(Inner) /\ t \in Toks
<1> DEFINE n == Len(g)
           w == Within(k, t)
           a == Append(g, t)
<1>1. n \in Nat /\ t \in Toks /\ w \in Seq(Inner)
    BY LenProperties, FollowsFacts
<1>2. a \in Seq(Toks) /\ Len(a) = n + 1 /\ (\A i \in 1..n : a[i] = g[i]) /\ a[n + 1] = t
    BY <1>1, AppendFacts
<1>3. PICK h : Trace(g, k, h)
    BY DEF Balanced
<1> HIDE DEF w, a
<1> DEFINE r == [i \in 0..(n + 1) |-> IF i <= n THEN h[i] ELSE w]
<1>4. /\ h \in [0..n -> Seq(Inner)] /\ h[0] = <<>> /\ h[n] = k
      /\ \A i \in 1..n : Follows(SubSeq(g, 1, i - 1), h[i - 1], g[i]) /\ h[i] = Within(h[i - 1], g[i])
    BY <1>3 DEF Trace
<1>5. r \in [0..(n + 1) -> Seq(Inner)] /\ (\A i \in 0..n : r[i] = h[i]) /\ r[n + 1] = w
    BY <1>1, <1>4
<1> HIDE DEF r
<1>6. r[0] = <<>>
    BY <1>1, <1>4, <1>5
<1>7. ASSUME NEW i \in 0..n PROVE SubSeq(a, 1, i) = SubSeq(g, 1, i)
  <2>1. i \in 0..Len(a)
      BY <1>1, <1>2
  <2>2. SubSeq(a, 1, i) \in Seq(Toks) /\ Len(SubSeq(a, 1, i)) = i /\ \A j \in 1..i : SubSeq(a, 1, i)[j] = a[j]
      BY <1>2, <2>1, PrefixFacts
  <2>3. SubSeq(g, 1, i) \in Seq(Toks) /\ Len(SubSeq(g, 1, i)) = i /\ \A j \in 1..i : SubSeq(g, 1, i)[j] = g[j]
      BY PrefixFacts
  <2>4. \A j \in 1..i : SubSeq(a, 1, i)[j] = SubSeq(g, 1, i)[j]
      BY <1>1, <1>2, <2>2, <2>3
  <2> QED
      BY <2>2, <2>3, <2>4, SeqEqual
<1>8. SubSeq(g, 1, n) = g
  <2>1. n \in 0..Len(g)
      BY <1>1
  <2>2. SubSeq(g, 1, n) \in Seq(Toks) /\ Len(SubSeq(g, 1, n)) = n /\ \A j \in 1..n : SubSeq(g, 1, n)[j] = g[j]
      BY <2>1, PrefixFacts
  <2> QED
      BY <2>2, SeqEqual
<1>9. ASSUME NEW i \in 1..(n + 1)
      PROVE  Follows(SubSeq(a, 1, i - 1), r[i - 1], a[i]) /\ r[i] = Within(r[i - 1], a[i])
  <2>1. CASE i \in 1..n
    <3>1. i - 1 \in 0..n /\ i \in 0..n
        BY <1>1, <2>1
    <3>2. SubSeq(a, 1, i - 1) = SubSeq(g, 1, i - 1)
      <4> DEFINE j == i - 1
      <4>1. j \in 0..n
          BY <3>1
      <4> HIDE DEF j
      <4>2. SubSeq(a, 1, j) = SubSeq(g, 1, j)
          BY <1>7, <4>1
      <4> QED
          BY <4>2 DEF j
    <3>3. r[i - 1] = h[i - 1] /\ r[i] = h[i] /\ a[i] = g[i]
        BY <1>2, <1>5, <2>1, <3>1
    <3> QED
        BY <1>4, <2>1, <3>2, <3>3
  <2>2. CASE i = n + 1
    <3>1. i - 1 = n /\ n \in 0..n
        BY <1>1, <2>2
    <3>2. SubSeq(a, 1, n) = g /\ r[n] = k /\ a[i] = t /\ r[i] = w
        BY <1>2, <1>4, <1>5, <1>7, <1>8, <2>2, <3>1
    <3> QED
        BY <3>1, <3>2 DEF w
  <2> QED
      BY <1>1, <2>1, <2>2
<1>10. Trace(a, w, r)
    BY <1>2, <1>5, <1>6, <1>9 DEF Trace
<1> QED
    BY <1>1, <1>2, <1>10 DEF Balanced, a, w

\* Nothing is balanced; where a list is open something has been read.
LEMMA BalancedFacts ==
  /\ Balanced(<<>>, <<>>)
  /\ \A k : Balanced(<<>>, k) => k = <<>>
<1> DEFINE g == <<>>
           h == [i \in 0..0 |-> <<>>]
<1>1. g \in Seq(Toks) /\ Len(g) = 0 /\ <<>> \in Seq(Inner)
    OBVIOUS
<1>2. h \in [0..0 -> Seq(Inner)] /\ h[0] = <<>>
    BY <1>1
<1> HIDE DEF g, h
<1>3. Trace(g, <<>>, h)
    BY <1>1, <1>2 DEF Trace
<1>4. ASSUME NEW k, Balanced(g, k) PROVE k = <<>>
    BY <1>1, <1>4 DEF Balanced, Trace
<1> QED
    BY <1>3, <1>4 DEF Balanced, g

\* A quote is a list.
Lists(k) == [i \in 1..Len(k) |-> IF k[i] = "'" THEN "(" ELSE k[i]]

\* One more opened, and one less.
LEMMA ListsFacts ==
  ASSUME NEW k \in Seq(Openers)
  PROVE  /\ Lists(k) \in Seq(Inner) /\ Len(Lists(k)) = Len(k)
         /\ \A x \in Openers : Lists(Append(k, x)) = Append(Lists(k), IF x = "'" THEN "(" ELSE x)
         /\ k = <<>> => Lists(k) = <<>>
         /\ k # <<>> => /\ Lists(k) # <<>> /\ Last(Lists(k)) = IF Last(k) = "'" THEN "(" ELSE Last(k)
                        /\ Lists(Front(k)) = SubSeq(Lists(k), 1, Len(k) - 1)
<1>1. Len(k) \in Nat /\ \A i \in 1..Len(k) : k[i] \in Openers
    BY LenProperties, ElementOfSeq
<1>2. /\ Lists(k) \in Seq(Inner) /\ Len(Lists(k)) = Len(k)
      /\ \A i \in 1..Len(k) : Lists(k)[i] = IF k[i] = "'" THEN "(" ELSE k[i]
    BY <1>1 DEF Lists, Openers, Inner
<1>3. ASSUME NEW x \in Openers PROVE Lists(Append(k, x)) = Append(Lists(k), IF x = "'" THEN "(" ELSE x)
  <2> DEFINE a == Append(k, x)
             y == IF x = "'" THEN "(" ELSE x
             z == Lists(k)
  <2>1. a \in Seq(Openers) /\ Len(a) = Len(k) + 1 /\ (\A i \in 1..Len(k) : a[i] = k[i]) /\ a[Len(k) + 1] = x
      BY AppendFacts
  <2>2. y \in Inner
      BY DEF Openers, Inner
  <2> HIDE DEF a, y
  <2>3. /\ Append(z, y) \in Seq(Inner) /\ Len(Append(z, y)) = Len(k) + 1
        /\ (\A i \in 1..Len(k) : Append(z, y)[i] = z[i]) /\ Append(z, y)[Len(k) + 1] = y
      BY <1>2, <2>2, AppendFacts
  <2>4. /\ Len(Lists(a)) = Len(k) + 1 /\ Lists(a) \in Seq(Inner)
        /\ \A i \in 1..(Len(k) + 1) : Lists(a)[i] = IF a[i] = "'" THEN "(" ELSE a[i]
    <3>1. \A i \in 1..Len(a) : a[i] \in Openers
        BY <2>1, ElementOfSeq
    <3> QED
        BY <1>1, <2>1, <3>1 DEF Lists, Openers, Inner
  <2>5. \A i \in 1..(Len(k) + 1) : Lists(a)[i] = Append(z, y)[i]
    <3> TAKE i \in 1..(Len(k) + 1)
    <3>1. CASE i \in 1..Len(k)
        BY <1>2, <2>1, <2>3, <2>4, <3>1
    <3>2. CASE i = Len(k) + 1
        BY <2>1, <2>3, <2>4, <3>2 DEF y
    <3>3. i \in 1..Len(k) \/ i = Len(k) + 1
        BY <1>1
    <3> QED
        BY <3>1, <3>2, <3>3, Zenon
  <2> HIDE DEF z
  <2>6. Lists(a) = Append(z, y)
      BY <2>3, <2>4, <2>5, SeqEqual
  <2> QED
      BY <2>6 DEF a, y, z
<1>4. ASSUME k = <<>> PROVE Lists(k) = <<>>
    BY <1>2, <1>4, EmptySeq
<1>5. ASSUME k # <<>>
      PROVE  /\ Lists(k) # <<>> /\ Last(Lists(k)) = IF Last(k) = "'" THEN "(" ELSE Last(k)
             /\ Lists(Front(k)) = SubSeq(Lists(k), 1, Len(k) - 1)
  <2>1. Len(k) \in 1..Len(k) /\ Len(k) - 1 \in 0..Len(Lists(k)) /\ Len(k) # 0
      BY <1>1, <1>2, <1>5, EmptySeq
  <2>2. Lists(k) # <<>>
      BY <1>2, <2>1, EmptySeq
  <2>3. Last(Lists(k)) = IF Last(k) = "'" THEN "(" ELSE Last(k)
      BY <1>2, <2>1 DEF Last
  <2> DEFINE n == Len(k) - 1
             f == Front(k)
             z == Lists(k)
  <2>4. f \in Seq(Openers) /\ Len(f) = n /\ \A i \in 1..n : f[i] = k[i]
      BY <1>5, LastFront
  <2>5. n \in Nat /\ n \in 0..Len(z) /\ \A i \in 1..n : i \in 1..Len(k)
      BY <1>1, <2>1
  <2> HIDE DEF n, f
  <2>6. SubSeq(z, 1, n) \in Seq(Inner) /\ Len(SubSeq(z, 1, n)) = n /\ \A i \in 1..n : SubSeq(z, 1, n)[i] = z[i]
      BY <1>2, <2>5, PrefixFacts
  <2>7. Lists(f) \in Seq(Inner) /\ Len(Lists(f)) = n /\ \A i \in 1..n : Lists(f)[i] = IF f[i] = "'" THEN "(" ELSE f[i]
    <3>1. \A i \in 1..n : f[i] \in Openers
        BY <2>4, ElementOfSeq
    <3> QED
        BY <2>4, <2>5, <3>1 DEF Lists, Openers, Inner
  <2>8. \A i \in 1..n : Lists(f)[i] = SubSeq(z, 1, n)[i]
    <3> TAKE i \in 1..n
    <3>1. i \in 1..Len(k)
        BY <2>5
    <3> QED
        BY <1>2, <2>4, <2>6, <2>7, <3>1
  <2> HIDE DEF z
  <2>9. Lists(f) = SubSeq(z, 1, n)
      BY <2>6, <2>7, <2>8, SeqEqual
  <2> QED
      BY <2>2, <2>3, <2>9 DEF n, f, z
<1> QED
    BY <1>2, <1>3, <1>4, <1>5

\* A list or a vector is opened.
LEMMA OpensBalanced ==
  ASSUME NEW g \in Seq(Toks), NEW k \in Seq(Openers), Balanced(g, Lists(k)), NEW x \in {"(", "["}
  PROVE  Balanced(Append(g, Mark(x)), Lists(Append(k, x)))
<1>1. Lists(k) \in Seq(Inner) /\ Lists(Append(k, x)) = Append(Lists(k), x)
  <2>1. x \in Openers /\ x # "'"
      BY DEF Openers
  <2> QED
      BY <2>1, ListsFacts
<1>2. Follows(g, Lists(k), Mark(x))
    BY DEF Follows
<1>3. x \in Inner
    BY DEF Inner
<1>4. Within(Lists(k), Mark(x)) = Append(Lists(k), x)
    BY <1>1, <1>3, WithinFacts
<1> QED
    BY <1>1, <1>2, <1>4, BalancedAppend

\* A symbol.
LEMMA SymBalanced ==
  ASSUME NEW g \in Seq(Toks), NEW k \in Seq(Openers), Balanced(g, Lists(k)),
         NEW s \in Seq(Chars), NoEot(s)
  PROVE  Balanced(Append(g, Sym(s)), Lists(k))
<1>1. Lists(k) \in Seq(Inner) /\ IsSymbol(Sym(s)) /\ Sym(s) \in Toks
    BY ListsFacts, TokenFacts DEF IsSymbol
<1>2. Follows(g, Lists(k), Sym(s))
    BY <1>1 DEF Follows
<1>3. Within(Lists(k), Sym(s)) = Lists(k)
    BY <1>1, WithinFacts
<1> QED
    BY <1>1, <1>2, <1>3, BalancedAppend

\* A quote.
LEMMA QuoteBalanced ==
  ASSUME NEW g \in Seq(Toks), NEW k \in Seq(Openers), Balanced(g, Lists(k))
  PROVE  Balanced(g \o <<Mark("("), Sym(<<"quote">>)>>, Lists(Append(k, "'")))
<1> DEFINE s == <<"quote">>
           a == Append(g, Mark("("))
           x == Append(k, "(")
           y == Append(k, "'")
<1>1. s \in Seq(Chars) /\ Len(s) = 1 /\ s[1] = "quote"
    BY DEF Chars
<1>2. NoEot(s)
    BY <1>1 DEF NoEot
<1>3. Balanced(a, Lists(x))
    BY OpensBalanced
<1>4. Mark("(") \in Toks /\ Sym(s) \in Toks
    BY <1>1, SomeTokens, TokenFacts
<1>5. a \in Seq(Toks) /\ x \in Seq(Openers) /\ Lists(x) = Lists(y)
  <2>1. "(" \in Openers /\ "'" \in Openers
      BY DEF Openers
  <2>2. Lists(x) = Append(Lists(k), "(") /\ Lists(y) = Append(Lists(k), "(")
      BY <2>1, ListsFacts
  <2> QED
      BY <1>4, <2>1, <2>2, AppendProperties
<1>6. g \o <<Mark("("), Sym(s)>> = Append(a, Sym(s))
  <2> DEFINE m == Mark("(")
             t == Sym(s)
  <2>1. m \in Toks /\ t \in Toks
      BY <1>4
  <2> HIDE DEF m, t
  <2>2. <<m>> \in Seq(Toks) /\ <<t>> \in Seq(Toks) /\ <<m>> \o <<t>> = <<m, t>>
    <3>1. /\ <<m>> \in Seq(Toks) /\ <<t>> \in Seq(Toks) /\ <<m, t>> \in Seq(Toks)
          /\ Len(<<m>>) = 1 /\ Len(<<t>>) = 1 /\ Len(<<m, t>>) = 2
        BY <2>1
    <3>2. /\ <<m>> \o <<t>> \in Seq(Toks) /\ Len(<<m>> \o <<t>>) = 2
          /\ \A i \in 1..2 : (<<m>> \o <<t>>)[i] = IF i <= 1 THEN <<m>>[i] ELSE <<t>>[i - 1]
        BY <3>1, ConcatProperties
    <3>3. \A i \in 1..2 : (<<m>> \o <<t>>)[i] = <<m, t>>[i]
        BY <3>2
    <3> QED
        BY <3>1, <3>2, <3>3, SeqEqual
  <2>3. Append(g, m) = g \o <<m>> /\ Append(g, m) \in Seq(Toks)
      BY <2>1, AppendIsConcat, AppendProperties
  <2>4. Append(Append(g, m), t) = Append(g, m) \o <<t>>
      BY <2>1, <2>3, AppendIsConcat
  <2>5. (g \o <<m>>) \o <<t>> = g \o (<<m>> \o <<t>>)
      BY <2>2, ConcatAssociative
  <2> QED
      BY <2>2, <2>3, <2>4, <2>5 DEF a, m, t
<1> HIDE DEF s, a, x, y
<1>7. Balanced(Append(a, Sym(s)), Lists(x))
    BY <1>1, <1>2, <1>3, <1>5, SymBalanced
<1> QED
    BY <1>5, <1>6, <1>7 DEF s, y

\* The dot of a list.
LEMMA DotBalanced ==
  ASSUME NEW g \in Seq(Toks), NEW k \in Seq(Openers), Balanced(g, Lists(k)), Top(k, "("), Ends(g)
  PROVE  Balanced(Append(g, Mark(".")), Lists(Append(k, ".")))
<1>1. Lists(k) \in Seq(Inner) /\ Lists(Append(k, ".")) = Append(Lists(k), ".")
  <2>1. "." \in Openers /\ "." # "'"
      BY DEF Openers
  <2> QED
      BY <2>1, ListsFacts
<1>2. Top(Lists(k), "(")
    BY ListsFacts DEF Top
<1>3. Follows(g, Lists(k), Mark("."))
    BY <1>2 DEF Follows, Ends
<1>4. "." \in Inner
    BY DEF Inner
<1>5. Within(Lists(k), Mark(".")) = Append(Lists(k), ".")
    BY <1>1, <1>4, WithinFacts
<1> QED
    BY <1>1, <1>3, <1>5, BalancedAppend

\* A list, a vector or a quote ends.
LEMMA CloseBalanced ==
  ASSUME NEW g \in Seq(Toks), NEW k \in Seq(Openers), Balanced(g, Lists(k)), k # <<>>, Last(k) # ".",
         g = <<>> \/ Last(g) # Mark("."), NEW c \in {")", "]"}
  PROVE  Balanced(Append(g, Mark(c)), Lists(Front(k)))
<1>1. /\ Lists(k) \in Seq(Inner) /\ Lists(k) # <<>> /\ Last(Lists(k)) # "." /\ Len(Lists(k)) = Len(k)
      /\ Lists(Front(k)) = SubSeq(Lists(k), 1, Len(k) - 1)
    BY ListsFacts
<1>2. g # <<>>
    BY <1>1, BalancedFacts
<1>3. Follows(g, Lists(k), Mark(c))
    BY <1>1, <1>2 DEF Follows, Top
<1>4. Within(Lists(k), Mark(c)) = SubSeq(Lists(k), 1, Len(k) - 1)
    BY <1>1, WithinFacts
<1> QED
    BY <1>1, <1>3, <1>4, BalancedAppend

\* A list with a dot ends.
LEMMA DottedBalanced ==
  ASSUME NEW g \in Seq(Toks), NEW k \in Seq(Openers), Balanced(g, Lists(k)), Top(k, "."), Nested(k), Ends(g)
  PROVE  /\ Balanced(Append(g, Mark(")")), Lists(Front(Front(k)))) /\ Len(k) > 1
         /\ Top(Front(k), "(") /\ Front(k) \in Seq(Openers)
<1>1. /\ Lists(k) \in Seq(Inner) /\ Lists(k) # <<>> /\ Last(Lists(k)) = "." /\ Len(Lists(k)) = Len(k)
      /\ Lists(Front(k)) = SubSeq(Lists(k), 1, Len(k) - 1) /\ Len(k) \in Nat
    BY ListsFacts, LenProperties DEF Top
<1>2. Len(k) > 1 /\ k[Len(k) - 1] = "("
  <2>1. Len(k) \in DOMAIN k /\ k[Len(k)] = "."
      BY <1>1, EmptySeq, LenProperties DEF Top, Last
  <2> QED
      BY <2>1 DEF Nested
<1> DEFINE f == Front(k)
           z == Lists(k)
<1>3. f \in Seq(Openers) /\ Len(f) = Len(k) - 1 /\ \A i \in 1..(Len(k) - 1) : f[i] = k[i]
    BY LastFront DEF Top
<1>4. f # <<>> /\ Last(f) = "("
  <2>1. Len(f) \in 1..(Len(k) - 1)
      BY <1>1, <1>2, <1>3
  <2> QED
      BY <1>2, <1>3, <2>1, EmptySeq DEF Last
<1> HIDE DEF f
<1>5. Lists(Front(f)) = SubSeq(Lists(f), 1, Len(f) - 1)
    BY <1>3, <1>4, ListsFacts
<1>6. Lists(f) = SubSeq(z, 1, Len(k) - 1)
    BY <1>1 DEF f
<1>7. SubSeq(SubSeq(z, 1, Len(k) - 1), 1, Len(k) - 2) = SubSeq(z, 1, Len(k) - 2)
  <2> DEFINE n == Len(k) - 1
             m == Len(k) - 2
  <2>1. n \in 0..Len(z) /\ m \in 0..Len(z) /\ m \in 0..n /\ \A i \in 1..m : i \in 1..n
      BY <1>1, <1>2
  <2>2. z \in Seq(Inner)
      BY <1>1
  <2> HIDE DEF n, m, z
  <2>3. SubSeq(z, 1, n) \in Seq(Inner) /\ Len(SubSeq(z, 1, n)) = n /\ \A i \in 1..n : SubSeq(z, 1, n)[i] = z[i]
      BY <2>1, <2>2, PrefixFacts
  <2>4. SubSeq(z, 1, m) \in Seq(Inner) /\ Len(SubSeq(z, 1, m)) = m /\ \A i \in 1..m : SubSeq(z, 1, m)[i] = z[i]
      BY <2>1, <2>2, PrefixFacts
  <2> DEFINE y == SubSeq(z, 1, n)
  <2> HIDE DEF y
  <2>5. m \in 0..Len(y) /\ y \in Seq(Inner)
      BY <2>1, <2>3 DEF y
  <2>6. SubSeq(y, 1, m) \in Seq(Inner) /\ Len(SubSeq(y, 1, m)) = m /\ \A i \in 1..m : SubSeq(y, 1, m)[i] = y[i]
      BY <2>5, PrefixFacts
  <2>7. \A i \in 1..m : SubSeq(y, 1, m)[i] = SubSeq(z, 1, m)[i]
      BY <2>1, <2>3, <2>4, <2>6 DEF y
  <2>8. SubSeq(y, 1, m) = SubSeq(z, 1, m)
      BY <2>4, <2>6, <2>7, SeqEqual
  <2> QED
      BY <2>8 DEF y, n, m
<1>8. Lists(Front(f)) = SubSeq(z, 1, Len(k) - 2)
  <2>1. Len(f) - 1 = Len(k) - 2
      BY <1>1, <1>3
  <2> QED
      BY <1>5, <1>6, <1>7, <2>1
<1>9. Follows(g, z, Mark(")"))
  <2>1. g # <<>> /\ Last(g) # Mark(".")
      BY DEF Ends
  <2> QED
      BY <1>1, <1>2, <2>1 DEF Follows
<1>10. Within(z, Mark(")")) = SubSeq(z, 1, Len(k) - 2)
    BY <1>1, WithinFacts
<1>11. Balanced(Append(g, Mark(")")), SubSeq(z, 1, Len(k) - 2))
  <2>1. z \in Seq(Inner) /\ Balanced(g, z)
      BY <1>1
  <2> HIDE DEF z
  <2> QED
      BY <1>9, <1>10, <2>1, BalancedAppend
<1> QED
    BY <1>2, <1>3, <1>4, <1>8, <1>11 DEF f, Top

\* Where the parser is, for the tokens read and the lists they leave open.
Placed(a, k, g) ==
  /\ a = "elem" => k # <<>> /\ Last(k) \in {"(", "["} /\ (g = <<>> \/ Last(g) # Mark("."))
  /\ a \in {"dot", "dot2"} => Top(k, "(") /\ Ends(g)
  /\ a = "close" => Top(k, ".") /\ Ends(g)
  /\ a \in {"return", "extra", "done"} => Ends(g)
  /\ a \in {"extra", "done"} => k = <<>>
WellFormed(a, k, g, t) == NoEot(t) /\ Nested(k) /\ Placed(a, k, g) /\ Balanced(g, Lists(k))
\* A character may be taken ...
Formed(c, l) == Ready(c, l) /\ NoEot(l.buf) /\ c # "eot" /\ WellFormed(pc, stk, got, tok)
\* ... and was.
StaysFormed == NoEot(line'.buf) /\ WellFormed(pc', stk', got', tok')

\* A character that is put back.
LEMMA UngetFormed ==
  ASSUME NEW l \in Lines, NEW c \in Chars, l.ri # 0, c # "eot", NoEot(l.buf)
  PROVE  NoEot(Unget(l, c).buf)
<1>1. Unget(l, c).buf = [l.buf EXCEPT ![l.ri] = c] /\ Len(Unget(l, c).buf) = Len(l.buf)
    BY UngetType
<1>2. l.buf \in Seq(Chars) /\ Len(l.buf) \in Nat /\ DOMAIN l.buf = 1..Len(l.buf)
    BY LinesFacts
<1>3. \A i \in 1..Len(l.buf) : [l.buf EXCEPT ![l.ri] = c][i] \in {c, l.buf[i]}
    BY <1>2
<1> QED
    BY <1>1, <1>3 DEF NoEot

\* A token that is put back.
LEMMA UngetAllFormed ==
  ASSUME NEW l \in Lines, NEW s \in Seq(Chars), Len(s) <= l.ri, NoEot(l.buf), NoEot(s)
  PROVE  NoEot(UngetAll(l, s).buf)
<1> DEFINE n == Len(s)
           Fits(i, u) == u.ri = l.ri - i /\ NoEot(u.buf)
<1>1. PICK h : BackOf(l, s, h) /\ UngetAll(l, s) = h[n]
    BY BackRun
<1>2. n \in Nat /\ l.ri \in Nat /\ n <= l.ri
    BY LenProperties, LinesFacts
<1>3. \A i \in 0..n : Fits(i, h[i])
  <2> DEFINE Odd == {i \in 0..n : ~Fits(i, h[i])}
  <2>1. SUFFICES ASSUME Odd # {} PROVE FALSE
      OBVIOUS
  <2>2. PICK m \in Odd : \A k \in Odd : m <= k
    <3>1. Odd \subseteq Nat
        BY <1>2
    <3> HIDE DEF Odd
    <3> QED
        BY <2>1, <3>1, LeastOf
  <2>3. m \in 0..n /\ ~Fits(m, h[m])
      OBVIOUS
  <2>4. m # 0
    <3>1. h[0] = l
        BY <1>1 DEF BackOf
    <3> QED
        BY <2>3, <3>1, <1>2
  <2>5. m \in 1..n /\ m - 1 \in 0..n /\ n + 1 - m \in 1..n
      BY <2>3, <2>4, <1>2
  <2>6. m - 1 \notin Odd
    <3> HIDE DEF Odd
    <3> QED
        BY <2>2, <2>5
  <2>7. Fits(m - 1, h[m - 1])
      BY <2>5, <2>6
  <2>8. h[m - 1] \in Lines /\ h[m] = Unget(h[m - 1], s[n + 1 - m]) /\ s[n + 1 - m] \in Chars
        /\ s[n + 1 - m] # "eot"
      BY <2>5, <1>1, ElementOfSeq DEF BackOf, NoEot
  <2> DEFINE u == h[m - 1]
             w == h[m]
             c == s[n + 1 - m]
  <2>9. u.ri # 0 /\ NoEot(u.buf)
      BY <2>5, <2>7, <1>2
  <2>10. u \in Lines /\ w = Unget(u, c) /\ c \in Chars /\ c # "eot"
      BY <2>8
  <2> HIDE DEF u, w, c
  <2>11. w.ri = u.ri - 1 /\ NoEot(w.buf)
      BY <2>9, <2>10, UngetType, UngetFormed
  <2> QED
      BY <2>3, <2>5, <2>7, <2>11, <1>2 DEF u, w
<1>4. n \in 0..n
    BY <1>2
<1> QED
    BY <1>1, <1>3, <1>4

\* Whether it stays or is put back, there is no ^D in the line.
LEMMA LineFormed ==
  ASSUME NEW c, NEW l, Formed(c, l)
  PROVE  NoEot(l.buf) /\ NoEot(Unget(l, c).buf)
<1>1. l \in Lines /\ c \in Chars /\ l.ri >= 1 /\ c # "eot" /\ NoEot(l.buf)
    BY DEF Formed, Ready
<1>2. l.ri # 0
    BY <1>1, LinesFacts
<1> QED
    BY <1>1, <1>2, UngetFormed

\* read1() and readm()
LEMMA MacroFormed ==
  ASSUME NEW c, NEW l, Formed(c, l), Skip(c, l) \/ Macro(c, l) \/ Macro2(c, l)
  PROVE  StaysFormed \/ Bad
<1>1. WellFormed(pc, stk, got, tok) /\ stk \in Seq(Openers) /\ got \in Seq(Toks)
    BY DEF Formed, Ready, Sorts
<1>2. CASE Skip(c, l) \/ Macro(c, l)
  <2>1. /\ line' \in {l, Unget(l, c)} /\ pc' \in {"skip", "macro", "macro2", "vector"}
        /\ stk' = stk /\ got' = got /\ tok' = tok
      BY <1>2 DEF Skip, Macro, Goto, Rest
  <2>2. Placed(pc', stk', got')
      BY <2>1 DEF Placed
  <2> QED
      BY <1>1, <2>1, <2>2, LineFormed DEF WellFormed, StaysFormed
<1>3. CASE Macro2(c, l)
  <2>1. CASE IsSpace(c) \/ c \in {")", "]"}
    <3>1. Error(<<"'">>)
        BY <1>3, <2>1 DEF Macro2
    <3>2. <<"'">> \in Seq(Chars)
        BY DEF Chars
    <3> QED
        BY <3>1, <3>2 DEF Bad
  <2>2. CASE ~(IsSpace(c) \/ c \in {")", "]"})
    <3>1. /\ line' = Unget(l, c) /\ pc' = "skip" /\ stk' = Append(stk, "'") /\ tok' = tok
          /\ got' = got \o <<Mark("("), Sym(<<"quote">>)>>
        BY <1>3, <2>2 DEF Macro2, Goto
    <3>2. Nested(stk')
      <4>1. "'" \in Openers /\ "'" # "."
          BY DEF Openers
      <4> QED
          BY <1>1, <3>1, <4>1, NestedAppend DEF WellFormed
    <3>3. Balanced(got', Lists(stk'))
        BY <1>1, <3>1, QuoteBalanced DEF WellFormed
    <3>4. Placed(pc', stk', got')
        BY <3>1 DEF Placed
    <3> QED
        BY <1>1, <3>1, <3>2, <3>3, <3>4, LineFormed DEF WellFormed, StaysFormed
  <2> QED
      BY <2>1, <2>2
<1> QED
    BY <1>2, <1>3

\* readv() and readp()
LEMMA OpenFormed ==
  ASSUME NEW c, NEW l, Formed(c, l), Vector(c, l) \/ Pair(c, l)
  PROVE  StaysFormed
<1>1. PICK a, oc, next : /\ Open(c, l, a, oc, next) /\ oc \in {"(", "["} /\ next \in {"pair", "token"}
    BY DEF Vector, Pair
<1>2. WellFormed(pc, stk, got, tok) /\ stk \in Seq(Openers) /\ got \in Seq(Toks)
    BY DEF Formed, Ready, Sorts
<1>3. CASE c = oc
  <2>1. line' = l /\ pc' = "elem" /\ stk' = Append(stk, oc) /\ got' = Append(got, Mark(oc)) /\ tok' = tok
      BY <1>1, <1>3 DEF Open, Goto
  <2>2. oc \in Openers /\ oc # "." /\ Mark(oc) \in Toks /\ Mark(oc) # Mark(".")
      BY <1>1, MarkKinds DEF Openers
  <2>3. Nested(stk')
      BY <1>2, <2>1, <2>2, NestedAppend DEF WellFormed
  <2>4. Balanced(got', Lists(stk'))
      BY <1>1, <1>2, <2>1, OpensBalanced DEF WellFormed
  <2>5. stk' # <<>> /\ Last(stk') = oc /\ Last(got') = Mark(oc)
      BY <1>2, <2>1, <2>2, AppendFacts
  <2>6. Placed(pc', stk', got')
      BY <1>1, <2>1, <2>2, <2>5 DEF Placed
  <2> QED
      BY <1>2, <2>1, <2>3, <2>4, <2>6, LineFormed DEF WellFormed, StaysFormed
<1>4. CASE c # oc
  <2>1. line' = Unget(l, c) /\ pc' = next /\ stk' = stk /\ got' = got /\ tok' = tok
      BY <1>1, <1>4 DEF Open, Goto
  <2>2. Placed(pc', stk', got')
      BY <1>1, <2>1 DEF Placed
  <2> QED
      BY <1>2, <2>1, <2>2, LineFormed DEF WellFormed, StaysFormed
<1> QED
    BY <1>3, <1>4

\* A list ends.
LEMMA ClosedFormed ==
  ASSUME NEW c \in {")", "]"}, Sorts, NEW k \in Seq(Openers), Nested(k), NoEot(tok'), NoEot(line'.buf),
         Balanced(Append(got, Mark(c)), Lists(k)),
         pc' = "return", stk' = k, got' = Append(got, Mark(c))
  PROVE  StaysFormed
<1>1. Mark(c) \in Toks /\ Mark(c) \notin {Mark("("), Mark("["), Mark(".")}
    BY MarkKinds
<1>2. Ends(got')
    BY <1>1, EndsAppend DEF Sorts
<1>3. Placed(pc', stk', got')
    BY <1>2 DEF Placed
<1> QED
    BY <1>3 DEF WellFormed, StaysFormed

\* readp(): elements, and the end
LEMMA ElemFormed ==
  ASSUME NEW c, NEW l, Formed(c, l), Elem(c, l) \/ Close(c, l)
  PROVE  StaysFormed \/ Bad
<1>1. WellFormed(pc, stk, got, tok) /\ stk \in Seq(Openers) /\ got \in Seq(Toks) /\ Sorts /\ c \in Chars
    BY DEF Formed, Ready, Sorts
<1>2. Placed(pc, stk, got) /\ Nested(stk) /\ NoEot(tok) /\ Balanced(got, Lists(stk))
    BY <1>1 DEF WellFormed
<1>3. ASSUME Error(<<c>>) \/ Error(<<>>) PROVE Bad
  <2>1. <<c>> \in Seq(Chars) /\ <<>> \in Seq(Chars)
      BY <1>1
  <2> QED
      BY <1>3, <2>1 DEF Bad
<1>4. CASE Elem(c, l)
  <2>1. pc = "elem"
      BY <1>4 DEF Elem, At
  <2>2. stk # <<>> /\ Last(stk) \in {"(", "["} /\ (got = <<>> \/ Last(got) # Mark("."))
      BY <1>2, <2>1 DEF Placed
  <2>3. CASE IsSpace(c) \/ c \notin {")", "]"}
    <3>1. /\ (line' = l /\ pc' = "elem") \/ (line' = Unget(l, c) /\ pc' = "skip")
          /\ stk' = stk /\ got' = got /\ tok' = tok
        BY <1>4, <2>3 DEF Elem, Goto, Rest
    <3>2. Placed(pc', stk', got')
        BY <2>2, <3>1 DEF Placed
    <3> QED
        BY <1>2, <3>1, <3>2, LineFormed DEF WellFormed, StaysFormed
  <2>4. CASE ~IsSpace(c) /\ c \in {")", "]"} /\ (c = "]") # (Last(stk) = "[")
      BY <1>3, <1>4, <2>4 DEF Elem
  <2>5. CASE ~IsSpace(c) /\ c \in {")", "]"} /\ (c = "]") = (Last(stk) = "[")
    <3>1. line' = l /\ pc' = "return" /\ stk' = Front(stk) /\ got' = Append(got, Mark(c)) /\ tok' = tok
        BY <1>4, <2>5 DEF Elem, Goto
    <3>2. Nested(Front(stk)) /\ Front(stk) \in Seq(Openers)
        BY <1>1, <1>2, <2>2, NestedFront
    <3>3. Balanced(Append(got, Mark(c)), Lists(Front(stk)))
      <4>1. Last(stk) # "."
          BY <2>2
      <4> QED
          BY <1>1, <1>2, <2>2, <2>5, <4>1, CloseBalanced
    <3>4. NoEot(line'.buf) /\ NoEot(tok')
        BY <1>2, <3>1, LineFormed
    <3> QED
        BY <1>1, <2>5, <3>1, <3>2, <3>3, <3>4, ClosedFormed
  <2> QED
      BY <2>3, <2>4, <2>5
<1>5. CASE Close(c, l)
  <2>1. pc = "close"
      BY <1>5 DEF Close, At
  <2>2. Top(stk, ".") /\ Ends(got)
      BY <1>2, <2>1 DEF Placed
  <2>3. CASE IsSpace(c)
    <3>1. line' = l /\ pc' = "close" /\ stk' = stk /\ got' = got /\ tok' = tok
        BY <1>5, <2>3 DEF Close, Goto, Rest
    <3>2. Placed(pc', stk', got')
        BY <2>2, <3>1 DEF Placed
    <3> QED
        BY <1>2, <3>1, <3>2, LineFormed DEF WellFormed, StaysFormed
  <2>4. CASE ~IsSpace(c) /\ c # ")"
      BY <1>3, <1>5, <2>4 DEF Close
  <2>5. CASE ~IsSpace(c) /\ c = ")"
    <3>1. line' = l /\ pc' = "return" /\ stk' = Front(Front(stk)) /\ got' = Append(got, Mark(")")) /\ tok' = tok
        BY <1>5, <2>5 DEF Close, Goto
    <3>2. /\ Balanced(Append(got, Mark(")")), Lists(Front(Front(stk))))
          /\ Top(Front(stk), "(") /\ Front(stk) \in Seq(Openers)
        BY <1>1, <1>2, <2>2, DottedBalanced
    <3>3. Nested(Front(stk))
        BY <1>1, <1>2, <2>2, NestedFront DEF Top
    <3>4. Nested(Front(Front(stk))) /\ Front(Front(stk)) \in Seq(Openers)
        BY <3>2, <3>3, NestedFront DEF Top
    <3>5. NoEot(line'.buf) /\ NoEot(tok')
        BY <1>2, <3>1, LineFormed
    <3> QED
        BY <1>1, <3>1, <3>2, <3>4, <3>5, ClosedFormed
  <2> QED
      BY <2>3, <2>4, <2>5
<1> QED
    BY <1>4, <1>5

\* No ^D is added.
LEMMA NoEotAppend ==
  ASSUME NEW s \in Seq(Chars), NEW c \in Chars, NoEot(s), c # "eot"
  PROVE  NoEot(Append(s, c)) /\ Append(s, c) \in Seq(Chars)
<1>1. /\ Append(s, c) \in Seq(Chars) /\ Len(Append(s, c)) = Len(s) + 1 /\ Len(s) \in Nat
      /\ \A i \in 1..Len(s) : Append(s, c)[i] = s[i]
      /\ Append(s, c)[Len(s) + 1] = c
    BY AppendFacts, LenProperties
<1>2. \A i \in 1..(Len(s) + 1) : i \in 1..Len(s) \/ i = Len(s) + 1
    BY <1>1
<1> QED
    BY <1>1, <1>2 DEF NoEot

\* readp(): a dot
LEMMA DotFormed ==
  ASSUME NEW c, NEW l, Formed(c, l), Dot(c, l) \/ Dot2(c, l)
  PROVE  StaysFormed
<1>1. WellFormed(pc, stk, got, tok) /\ stk \in Seq(Openers) /\ got \in Seq(Toks) /\ c \in Chars /\ l \in Lines
    BY DEF Formed, Ready, Sorts
<1>2. Placed(pc, stk, got) /\ Nested(stk) /\ NoEot(tok) /\ Balanced(got, Lists(stk))
    BY <1>1 DEF WellFormed
<1>3. Top(stk, "(") /\ Ends(got)
    BY <1>2 DEF Placed, Dot, Dot2, At
<1>4. stk # <<>> /\ Last(stk) = "(" /\ Last(got) # Mark(".")
    BY <1>3 DEF Top, Ends
<1>5. CASE Dot(c, l)
  <2>1. /\ line' \in {l, Unget(l, c)} /\ pc' \in {"dot", "dot2", "elem"}
        /\ stk' = stk /\ got' = got /\ tok' = tok
      BY <1>5 DEF Dot, Goto, Rest
  <2>2. Placed(pc', stk', got')
      BY <1>3, <1>4, <2>1 DEF Placed
  <2> QED
      BY <1>2, <2>1, <2>2, LineFormed DEF WellFormed, StaysFormed
<1>6. CASE Dot2(c, l) /\ IsSpace(c)
  <2>1. /\ line' = Unget(l, c) /\ pc' = "skip" /\ stk' = Append(stk, ".") /\ got' = Append(got, Mark("."))
        /\ tok' = tok
      BY <1>6 DEF Dot2, Goto
  <2>2. Balanced(got', Lists(stk'))
      BY <1>1, <1>2, <1>3, <2>1, DotBalanced
  <2>3. Nested(stk')
    <3>1. "." \in Openers
        BY DEF Openers
    <3> QED
        BY <1>1, <1>2, <1>3, <2>1, <3>1, NestedAppend
  <2>4. Placed(pc', stk', got')
      BY <2>1 DEF Placed
  <2> QED
      BY <1>2, <2>1, <2>2, <2>3, <2>4, LineFormed DEF WellFormed, StaysFormed
<1>7. CASE Dot2(c, l) /\ ~IsSpace(c)
  <2>1. /\ line' = Unget(Unget(l, c), ".") /\ pc' = "elem" /\ stk' = stk /\ got' = got /\ tok' = tok
      BY <1>7 DEF Dot2, Goto
  <2>2. NoEot(line'.buf)
    <3>1. Unget(l, c) \in Lines /\ Unget(l, c).ri = l.ri - 1 /\ l.ri \in Nat
        BY BackTyped DEF Formed
    <3>2. l.ri >= 2
        BY <1>7 DEF Formed, Ready, Dot2, At
    <3>3. Unget(l, c).ri # 0 /\ "." \in Chars
        BY <3>1, <3>2 DEF Chars
    <3> QED
        BY <2>1, <3>1, <3>3, LineFormed, UngetFormed
  <2>3. Placed(pc', stk', got')
      BY <1>4, <2>1 DEF Placed
  <2> QED
      BY <1>2, <2>1, <2>2, <2>3 DEF WellFormed, StaysFormed
<1> QED
    BY <1>5, <1>6, <1>7

\* readn()
LEMMA TokenFormed ==
  ASSUME NEW c, NEW l, Formed(c, l), Token(c, l)
  PROVE  StaysFormed
<1>1. /\ WellFormed(pc, stk, got, tok) /\ tok \in Seq(Chars) /\ c \in Chars /\ c # "eot" /\ pc = "token"
      /\ l.ri - 1 >= Len(tok) /\ Len(tok) \in Nat
    BY LenProperties DEF Formed, Ready, Sorts, Token, At
<1>2. Nested(stk) /\ NoEot(tok) /\ Balanced(got, Lists(stk))
    BY <1>1 DEF WellFormed
<1>3. stk' = stk /\ got' = got
    BY DEF Token
<1>4. CASE IsTokSep(c)
  <2>1. line' = UngetAll(Unget(l, c), tok) /\ pc' = "symbol" /\ tok' = <<>>
      BY <1>4 DEF Token, Goto
  <2> DEFINE u == Unget(l, c)
  <2>2. u \in Lines /\ Len(tok) <= u.ri /\ NoEot(u.buf)
      BY <1>1, BackTyped, LineFormed DEF Formed
  <2> HIDE DEF u
  <2>3. NoEot(UngetAll(u, tok).buf)
      BY <1>1, <1>2, <2>2, UngetAllFormed
  <2>4. NoEot(tok') /\ NoEot(line'.buf)
      BY <2>1, <2>3 DEF u, NoEot
  <2>5. Placed(pc', stk', got')
      BY <2>1 DEF Placed
  <2> QED
      BY <1>2, <1>3, <2>4, <2>5 DEF WellFormed, StaysFormed
<1>5. CASE ~IsTokSep(c)
  <2>1. line' = l /\ pc' = "token" /\ tok' = Append(tok, c)
      BY <1>5 DEF Token, Goto
  <2>2. Placed(pc', stk', got') /\ NoEot(tok')
      BY <1>1, <1>2, <2>1, NoEotAppend DEF Placed
  <2> QED
      BY <1>2, <1>3, <2>1, <2>2, LineFormed DEF WellFormed, StaysFormed
<1> QED
    BY <1>4, <1>5

\* reads()
LEMMA SymbolFormed ==
  ASSUME NEW c, NEW l, Formed(c, l), Symbol(c, l)
  PROVE  StaysFormed \/ Bad
<1>1. /\ WellFormed(pc, stk, got, tok) /\ tok \in Seq(Chars) /\ stk \in Seq(Openers) /\ got \in Seq(Toks)
      /\ c \in Chars /\ c # "eot"
    BY DEF Formed, Ready, Sorts
<1>2. Nested(stk) /\ NoEot(tok) /\ Balanced(got, Lists(stk))
    BY <1>1 DEF WellFormed
<1>3. Escaped(c) \in Chars /\ Escaped(c) # "eot"
    BY <1>1 DEF Escaped, Chars
<1>4. \/ /\ line' = l /\ pc' = "symbol" /\ stk' = stk /\ got' = got
         /\ tok' \in {tok, Append(tok, c), Append(tok, Escaped(c))}
      \/ Error(<<c>>)
      \/ /\ line' = Unget(l, c) /\ pc' = "return" /\ got' = Append(got, Sym(tok)) /\ tok' = <<>>
         /\ stk' = stk
    BY <1>1 DEF Symbol, Goto
<1>5. CASE /\ line' = l /\ pc' = "symbol" /\ stk' = stk /\ got' = got
           /\ tok' \in {tok, Append(tok, c), Append(tok, Escaped(c))}
  <2>1. NoEot(tok')
      BY <1>1, <1>2, <1>3, <1>5, NoEotAppend
  <2>2. Placed(pc', stk', got')
      BY <1>5 DEF Placed
  <2> QED
      BY <1>2, <1>5, <2>1, <2>2, LineFormed DEF WellFormed, StaysFormed
<1>6. CASE Error(<<c>>)
  <2>1. <<c>> \in Seq(Chars)
      BY <1>1
  <2> QED
      BY <1>6, <2>1 DEF Bad
<1>7. CASE /\ line' = Unget(l, c) /\ pc' = "return" /\ got' = Append(got, Sym(tok)) /\ tok' = <<>>
           /\ stk' = stk
  <2>1. Balanced(got', Lists(stk'))
      BY <1>1, <1>2, <1>7, SymBalanced
  <2>2. Ends(got')
    <3>1. Sym(tok) \in Toks /\ Sym(tok) \notin {Mark("("), Mark("["), Mark(".")}
        BY <1>1, TokenFacts, MarkKinds
    <3> QED
        BY <1>1, <1>7, <3>1, EndsAppend
  <2>3. Placed(pc', stk', got') /\ NoEot(tok')
      BY <1>7, <2>2 DEF Placed, NoEot
  <2> QED
      BY <1>2, <1>7, <2>1, <2>3, LineFormed DEF WellFormed, StaysFormed
<1> QED
    BY <1>4, <1>5, <1>6, <1>7

\* exread()
LEMMA ExtraFormed ==
  ASSUME NEW c, NEW l, Formed(c, l), Extra(c, l)
  PROVE  StaysFormed \/ Bad
<1>1. WellFormed(pc, stk, got, tok) /\ pc = "extra"
    BY DEF Formed, Extra, At
<1>2. CASE IsSpace(c)
  <2>1. line' = l /\ pc' = pc /\ stk' = stk /\ got' = got /\ tok' = tok
      BY <1>1, <1>2 DEF Extra, Goto, Rest
  <2> QED
      BY <1>1, <2>1, LineFormed DEF StaysFormed
<1>3. CASE ~IsSpace(c)
  <2> DEFINE u == Unget(l, c)
  <2>1. Error(SubSeq(u.buf, u.ri + 1, Len(u.buf)))
      BY <1>3 DEF Extra
  <2>2. u \in Lines
      BY BackTyped DEF Formed
  <2> HIDE DEF u
  <2>3. SubSeq(u.buf, u.ri + 1, Len(u.buf)) \in Seq(Chars)
    <3>1. u.buf \in Seq(Chars) /\ Len(u.buf) \in Nat /\ u.ri \in Nat
        BY <2>2, LinesFacts
    <3>2. u.ri + 1 \in Int /\ Len(u.buf) \in Int /\ \A i \in (u.ri + 1)..Len(u.buf) : u.buf[i] \in Chars
      <4>1. \A i \in (u.ri + 1)..Len(u.buf) : i \in 1..Len(u.buf)
          BY <3>1
      <4> QED
          BY <3>1, <4>1, ElementOfSeq
    <3> QED
        BY <3>2, SubSeqProperties
  <2> QED
      BY <2>1, <2>3 DEF Bad
<1> QED
    BY <1>2, <1>3

\* Each of them.
LEMMA TakeFormed ==
  ASSUME NEW c, NEW l, Formed(c, l), Take(c, l)
  PROVE  StaysFormed \/ Bad
    BY MacroFormed, OpenFormed, ElemFormed, DotFormed, TokenFormed, SymbolFormed, ExtraFormed DEF Take

\* mygetc()
LEMMA GetcFormed ==
  ASSUME NEW m \in Lines, m.ri < Len(m.buf), Sorts, pc \in Active,
         pc \notin {"token", "symbol"} => tok = <<>>,
         pc = "token" => m.ri >= Len(tok), pc = "dot2" => m.ri >= 1,
         NoEot(m.buf), WellFormed(pc, stk, got, tok),
         Getc([m EXCEPT !.ri = @ + 1])
  PROVE  StaysFormed \/ EndRead \/ Bad
<1> DEFINE l == [m EXCEPT !.ri = @ + 1]
           n == InComment(l)
           c == l.buf[l.ri]
           o == [n EXCEPT !.notblank = TRUE]
<1>1. m \in LineType /\ m.buf \in Seq(Chars) /\ m.ri \in Nat /\ Len(m.buf) \in Nat /\ m.ri + 1 \in 1..Len(m.buf)
    BY LinesFacts
<1>2. n \in LineType /\ n.buf = m.buf /\ n.ri = m.ri + 1
    BY <1>1, InCommentType
<1>3. c = m.buf[m.ri + 1] /\ c \in Chars /\ c # "eot"
  <2>1. l.buf = m.buf /\ l.ri = m.ri + 1
      BY <1>1 DEF LineType
  <2> QED
      BY <1>1, <2>1, ElementOfSeq DEF NoEot
<1>4. o \in Lines /\ o.buf = m.buf /\ o.ri = m.ri + 1
  <2> HIDE DEF n
  <2>1. m.ri + 1 <= Len(m.buf)
      BY <1>1
  <2>2. o \in LineType /\ o.buf = n.buf /\ o.ri = n.ri
      BY <1>2 DEF LineType
  <2> QED
      BY <1>2, <2>1, <2>2 DEF Lines
<1>5. \/ n.ignore /\ line' = n /\ UNCHANGED <<parser, problem>>
      \/ EndRead
      \/ Take(c, o)
    BY DEF Getc
<1> HIDE DEF l, n, c, o
<1>6. CASE line' = n /\ UNCHANGED <<parser, problem>>
    BY <1>2, <1>6 DEF parser, StaysFormed
<1>7. CASE Take(c, o)
  <2>1. Formed(c, o)
    <3>1. Len(tok) \in Nat
        BY LenProperties DEF Sorts
    <3>2. /\ o.ri >= 1
          /\ pc = "token" => o.ri - 1 >= Len(tok)
          /\ pc = "dot2" => o.ri >= 2
        BY <1>1, <1>4, <3>1
    <3> QED
        BY <1>3, <1>4, <3>2 DEF Ready, Formed
  <2> QED
      BY <1>7, <2>1, TakeFormed
<1> QED
    BY <1>5, <1>6, <1>7

\* What a character does to the error.
LEMMA GetcProblem ==
  ASSUME NEW l, Getc(l)
  PROVE  UNCHANGED problem \/ err' # 0
<1>1. ASSUME NEW s, Error(s) PROVE err' # 0
    BY <1>1 DEF Error, ReadErr
<1>2. ASSUME NEW c, NEW o, Take(c, o) PROVE UNCHANGED problem \/ err' # 0
  <2>1. \/ UNCHANGED problem
        \/ \E s : Error(s)
    <3>1. CASE Skip(c, o) \/ Macro(c, o) \/ Macro2(c, o)
        BY <3>1 DEF Skip, Macro, Macro2, Rest, Fine
    <3>2. CASE Vector(c, o) \/ Pair(c, o)
        BY <3>2 DEF Vector, Pair, Open, Fine
    <3>3. CASE Elem(c, o) \/ Close(c, o)
        BY <3>3 DEF Elem, Close, Rest, Fine
    <3>4. CASE Dot(c, o) \/ Dot2(c, o) \/ Token(c, o)
        BY <3>4 DEF Dot, Dot2, Token, Rest, Fine
    <3>5. CASE Symbol(c, o)
        BY <3>5 DEF Symbol, Fine
    <3>6. CASE Extra(c, o)
        BY <3>6 DEF Extra, Rest, Fine
    <3> QED
        BY <1>2, <3>1, <3>2, <3>3, <3>4, <3>5, <3>6 DEF Take
  <2> QED
      BY <2>1, <1>1
<1> QED
    BY <1>2 DEF Getc, EndRead, Fine

\* Without an error, what is read is well formed, or it is ^D.
EotState == EotRead \/ (pc = "done" /\ got = <<Sym(<<"eot">>)>>)
TokensFit == err = 0 => \/ EotState
                        \/ NoEot(line.buf) /\ WellFormed(pc, stk, got, tok)

\* A line of which nothing has been read.
LEMMA FreshFormed ==
  ASSUME Restart, NoEot(line'.buf)
  PROVE  TokensFit'
<1>1. pc' = "skip" /\ stk' = <<>> /\ got' = <<>> /\ tok' = <<>>
    BY DEF Restart
<1>2. NoEot(<<>>) /\ Nested(<<>>) /\ Placed("skip", <<>>, <<>>)
    BY DEF NoEot, Nested, Placed
<1>3. Lists(<<>>) = <<>>
  <2> DEFINE k == <<>>
  <2>1. k \in Seq(Openers)
      OBVIOUS
  <2> HIDE DEF k
  <2>2. k = <<>> => Lists(k) = <<>>
      BY <2>1, ListsFacts
  <2> QED
      BY <2>2 DEF k
<1>4. WellFormed("skip", <<>>, <<>>, <<>>)
    BY <1>2, <1>3, BalancedFacts DEF WellFormed
<1> QED
    BY <1>1, <1>4 DEF TokensFit

\* An empty line.
LEMMA EmptyFormed ==
  ASSUME Restart, line' = EmptyLine
  PROVE  TokensFit'
<1>1. EmptyLine.buf = <<>>
    BY DEF EmptyLine
<1>2. NoEot(line'.buf)
    BY <1>1 DEF NoEot
<1> QED
    BY <1>2, FreshFormed

\* mygetc()
LEMMA TakenFormed ==
  ASSUME StaysFormed \/ EndRead \/ Bad
  PROVE  TokensFit'
<1>1. CASE StaysFormed
    BY <1>1 DEF StaysFormed, TokensFit
<1>2. CASE EndRead
    BY <1>2, EmptyFormed DEF EndRead
<1>3. CASE Bad
  <2>1. err' # 0
      BY <1>3 DEF Bad, Error, ReadErr
  <2> QED
      BY <2>1 DEF TokensFit
<1> QED
    BY <1>1, <1>2, <1>3

\* A character of the buffer.
LEMMA AgainFormed ==
  ASSUME Inv, TokensFit, err = 0, Again
  PROVE  TokensFit'
<1>1. /\ line.ri < Len(line.buf) /\ pc \notin {"return", "done"}
      /\ Getc([line EXCEPT !.ri = @ + 1])
    BY DEF Again, Buffered, Reading, At
<1>2. /\ Typing /\ Counted /\ line \in Lines
    BY <1>1, InvFacts
<1>3. CASE EotRead
  <2>1. EotRead'
      BY <1>1, <1>2, <1>3, EotStep
  <2> QED
      BY <2>1 DEF TokensFit, EotState
<1>4. CASE NoEot(line.buf) /\ WellFormed(pc, stk, got, tok)
  <2>1. /\ Sorts /\ pc \in Active /\ (pc \notin {"token", "symbol"} => tok = <<>>)
        /\ (pc = "token" => line.ri >= Len(tok)) /\ (pc = "dot2" => line.ri >= 1)
      BY <1>1, <1>2 DEF Typing, Counted, Places
  <2> QED
      BY <1>1, <1>2, <1>4, <2>1, GetcFormed, TakenFormed
<1> QED
    BY <1>1, <1>3, <1>4 DEF TokensFit, EotState

\* While characters are waited for, ^D is not in the line.
LEMMA WaitsFormed ==
  ASSUME Inv, TokensFit, err = 0, Reading, ~Buffered
  PROVE  /\ NoEot(line.buf) /\ WellFormed(pc, stk, got, tok)
         /\ Typing /\ Counted /\ line \in Lines /\ line.ri = Len(line.buf) /\ line.buf \in Seq(Chars)
         /\ line.ri \in Nat /\ pc \in Active
<1>1. pc \notin {"return", "extra", "done"} /\ ~(line.ri < Len(line.buf))
    BY DEF Reading, Buffered
<1>2. /\ Typing /\ Counted /\ line \in Lines /\ line.ri \in Nat /\ line.buf \in Seq(Chars)
      /\ Len(line.buf) \in Nat /\ line.ri <= Len(line.buf)
    BY <1>1, InvFacts
<1>3. line.ri = Len(line.buf)
    BY <1>1, <1>2
<1>4. ~EotState
    BY <1>1, EotWaits DEF EotState
<1>5. pc \in Active
    BY <1>1, <1>2 DEF Typing, Places
<1> QED
    BY <1>2, <1>3, <1>4, <1>5 DEF TokensFit

\* A character that is typed.
LEMMA TypeFormed ==
  ASSUME Inv, TokensFit, err = 0, NEW c \in Typed, Type(c)
  PROVE  TokensFit'
<1> DEFINE m == [line EXCEPT !.buf = Append(@, c)]
<1>1. /\ Reading /\ ~Buffered /\ pc \notin {"return", "extra", "done"}
      /\ Getc([line EXCEPT !.buf = Append(@, c), !.ri = Len(line.buf) + 1])
    BY DEF Type, Reading
<1>2. /\ NoEot(line.buf) /\ WellFormed(pc, stk, got, tok)
      /\ Typing /\ Counted /\ line \in Lines /\ line.ri = Len(line.buf) /\ line.buf \in Seq(Chars)
      /\ line.ri \in Nat /\ pc \in Active
    BY <1>1, WaitsFormed
<1>3. c \in Chars /\ c # "eot"
    BY TypedAssumption DEF Chars
<1>4. Append(line.buf, c) \in Seq(Chars) /\ Len(Append(line.buf, c)) = Len(line.buf) + 1
    BY <1>2, <1>3, AppendFacts
<1>5. m.buf = Append(line.buf, c) /\ m.ri = line.ri /\ m \in LineType
    BY <1>2, <1>4, LinesFacts DEF LineType
<1>6. m.ri < Len(m.buf) /\ m \in Lines /\ NoEot(m.buf)
  <2>1. NoEot(Append(line.buf, c))
      BY <1>2, <1>3, NoEotAppend
  <2> HIDE DEF m
  <2>2. m.ri < Len(m.buf) /\ m.ri <= Len(m.buf)
      BY <1>2, <1>4, <1>5
  <2> QED
      BY <1>5, <2>1, <2>2 DEF Lines
<1>7. Getc([m EXCEPT !.ri = @ + 1])
  <2>1. [m EXCEPT !.ri = @ + 1] = [line EXCEPT !.buf = Append(@, c), !.ri = Len(line.buf) + 1]
      BY <1>2 DEF Lines, LineType
  <2> QED
      BY <1>1, <2>1
<1>8. /\ Sorts /\ (pc \notin {"token", "symbol"} => tok = <<>>)
      /\ (pc = "token" => m.ri >= Len(tok)) /\ (pc = "dot2" => m.ri >= 1)
    BY <1>2, <1>5 DEF Typing, Counted
<1> HIDE DEF m
<1> QED
    BY <1>2, <1>6, <1>7, <1>8, GetcFormed, TakenFormed

\* The last character is erased.
LEMMA EraseFormed ==
  ASSUME Inv, TokensFit, err = 0, Erase
  PROVE  TokensFit'
<1>1. NoEot(line.buf) /\ line.buf \in Seq(Chars) /\ Restart
    BY WaitsFormed DEF Erase
<1>2. CASE line.buf = <<>>
    BY <1>1, <1>2, EmptyFormed DEF Erase
<1>3. CASE line.buf # <<>>
  <2> DEFINE b == Front(line.buf)
  <2>1. Len(b) = Len(line.buf) - 1 /\ Len(line.buf) \in Nat /\ \A i \in 1..(Len(line.buf) - 1) : b[i] = line.buf[i]
      BY <1>1, <1>3, LastFront, LenProperties
  <2>2. line'.buf = b
      BY <1>3 DEF Erase, EmptyLine
  <2> HIDE DEF b
  <2>3. NoEot(b)
      BY <1>1, <2>1 DEF NoEot
  <2> QED
      BY <1>1, <2>2, <2>3, FreshFormed
<1> QED
    BY <1>2, <1>3

\* read1() returns.
LEMMA ReturnFormed ==
  ASSUME Inv, TokensFit, err = 0, Return
  PROVE  TokensFit'
<1>1. pc = "return" /\ line' = line /\ tok' = tok /\ UNCHANGED <<q, e, problem>>
    BY DEF Return, At
<1>2. stk \in Seq(Openers) /\ got \in Seq(Toks)
    BY DEF Inv, Typing, Sorts
<1>3. CASE EotRead
  <2>1. stk = <<>> /\ got = <<Sym(<<"eot">>)>> /\ line.ri = 1
      BY <1>1, <1>3 DEF EotRead, Clear
  <2>2. pc' = "extra" /\ stk' = stk /\ got' = got
      BY <2>1 DEF Return
  <2>3. EotRead'
      BY <1>1, <1>3, <2>1, <2>2 DEF EotRead, Clear
  <2> QED
      BY <2>3 DEF TokensFit, EotState
<1>4. CASE NoEot(line.buf) /\ WellFormed(pc, stk, got, tok)
  <2>1. Nested(stk) /\ NoEot(tok) /\ Balanced(got, Lists(stk)) /\ Ends(got)
      BY <1>1, <1>4 DEF WellFormed, Placed
  <2>2. CASE stk = <<>>
    <3>1. pc' = "extra" /\ stk' = stk /\ got' = got
        BY <2>2 DEF Return
    <3>2. Placed(pc', stk', got')
        BY <2>1, <2>2, <3>1 DEF Placed
    <3> QED
        BY <1>1, <1>4, <2>1, <3>1, <3>2 DEF WellFormed, TokensFit
  <2>3. CASE stk # <<>> /\ Last(stk) = "'"
    <3>1. pc' = "return" /\ stk' = Front(stk) /\ got' = Append(got, Mark(")"))
        BY <1>1, <2>3 DEF Return
    <3>2. Nested(Front(stk))
        BY <1>2, <2>1, <2>3, NestedFront
    <3>3. Balanced(got', Lists(stk'))
      <4>1. Last(stk) # "." /\ Last(got) # Mark(".")
          BY <2>1, <2>3 DEF Ends
      <4> QED
          BY <1>2, <2>1, <2>3, <3>1, <4>1, CloseBalanced
    <3>4. Ends(got')
        BY <1>2, <3>1, MarkKinds, EndsAppend
    <3>5. Placed(pc', stk', got')
        BY <3>1, <3>4 DEF Placed
    <3> QED
        BY <1>1, <1>4, <2>1, <3>1, <3>2, <3>3, <3>5 DEF WellFormed, TokensFit
  <2>4. CASE stk # <<>> /\ Last(stk) # "'"
    <3>1. Last(stk) \in Openers
        BY <1>2, <2>4, LastFront
    <3>2. Last(stk) \in {"(", "[", "."}
        BY <2>4, <3>1 DEF Openers
    <3>3. stk' = stk /\ got' = got
        BY <2>4 DEF Return
    <3>4. /\ Last(stk) = "(" => pc' = "dot"
          /\ Last(stk) = "[" => pc' = "elem"
          /\ Last(stk) = "." => pc' = "close"
        BY <2>4 DEF Return
    <3>5. Placed(pc', stk', got')
        BY <2>1, <2>4, <3>2, <3>3, <3>4 DEF Placed, Top, Ends
    <3> QED
        BY <1>1, <1>4, <2>1, <3>3, <3>5 DEF WellFormed, TokensFit
  <2> QED
      BY <2>2, <2>3, <2>4
<1> QED
    BY <1>1, <1>3, <1>4 DEF TokensFit, EotState

\* exread() returns.
LEMMA FinishFormed ==
  ASSUME Inv, TokensFit, err = 0, Finish
  PROVE  TokensFit'
<1>1. pc = "extra" /\ pc' = "done" /\ UNCHANGED <<line, stk, tok, got, err>>
    BY DEF Finish, At, problem
<1>2. CASE EotRead
  <2>1. got = <<Sym(<<"eot">>)>>
      BY <1>1, <1>2 DEF EotRead
  <2> QED
      BY <1>1, <2>1 DEF TokensFit, EotState
<1>3. CASE NoEot(line.buf) /\ WellFormed(pc, stk, got, tok)
    BY <1>1, <1>3 DEF WellFormed, Placed, TokensFit
<1> QED
    BY <1>1, <1>2, <1>3 DEF TokensFit, EotState

\* Every step keeps it.
LEMMA FormedNext ==
  ASSUME Inv, TokensFit, [Next]_vars
  PROVE  TokensFit'
<1>1. CASE UNCHANGED vars
  <2>1. UNCHANGED <<line, pc, stk, tok, q, e, got, err>>
      BY <1>1 DEF vars, parser, problem
  <2> QED
      BY <2>1 DEF TokensFit, EotState, EotRead, Clear
<1>2. CASE StartRead
    BY <1>2, EmptyFormed DEF StartRead
<1>3. CASE Eof
  <2>1. err' # 0
      BY <1>3 DEF Eof, Error, ReadErr
  <2> QED
      BY <2>1 DEF TokensFit
<1>4. CASE Next /\ err # 0 /\ ~StartRead /\ ~Eof
  <2>1. err' # 0
    <3>1. CASE Again
        BY <1>4, <3>1, GetcProblem DEF Again, problem
    <3>2. CASE \E c \in Typed : Type(c)
        BY <1>4, <3>2, GetcProblem DEF Type, problem
    <3>3. CASE Erase \/ Kill \/ Return \/ Finish
        BY <1>4, <3>3 DEF Erase, Kill, EndRead, Return, Finish, Fine, problem
    <3>4. CASE Eot
        BY <1>4, <3>4 DEF Eot, Skip, Rest, Fine, problem
    <3> QED
        BY <1>4, <3>1, <3>2, <3>3, <3>4 DEF Next
  <2> QED
      BY <2>1 DEF TokensFit
<1>5. CASE Kill
    BY <1>5, EmptyFormed DEF Kill, EndRead
<1>6. CASE Eot /\ err = 0
  <2>1. (line'.buf = <<>> /\ UNCHANGED <<parser, problem>>) \/ EotRead'
      BY <1>6, EotInv
  <2>2. CASE line'.buf = <<>> /\ UNCHANGED <<parser, problem>>
    <3>1. pc = "skip" /\ line.buf = <<>>
        BY <1>6 DEF Eot, At
    <3>2. ~EotState
        BY <3>1 DEF EotState, EotRead
    <3>3. WellFormed(pc, stk, got, tok)
        BY <1>6, <3>2 DEF TokensFit
    <3>4. UNCHANGED <<pc, stk, got, tok>>
        BY <2>2 DEF parser
    <3> QED
        BY <2>2, <3>3, <3>4 DEF TokensFit, NoEot
  <2>3. CASE EotRead'
      BY <2>3 DEF TokensFit, EotState
  <2> QED
      BY <2>1, <2>2, <2>3
<1>7. CASE (Again \/ (\E c \in Typed : Type(c)) \/ Erase \/ Return \/ Finish) /\ err = 0
    BY <1>7, AgainFormed, TypeFormed, EraseFormed, ReturnFormed, FinishFormed
<1> QED
    BY <1>1, <1>2, <1>3, <1>4, <1>5, <1>6, <1>7 DEF Next

\* The tokens of what is read fit, and its lists and vectors are closed.
THEOREM TokensFitHolds == Spec => []TokensFit
<1>1. Init => TokensFit
  <2> SUFFICES ASSUME Init PROVE TokensFit
      OBVIOUS
  <2>1. pc = "skip" /\ stk = <<>> /\ got = <<>> /\ tok = <<>> /\ line.buf = <<>>
      BY DEF Init, EmptyLine
  <2>2. NoEot(<<>>) /\ Nested(<<>>) /\ Placed("skip", <<>>, <<>>)
      BY DEF NoEot, Nested, Placed
  <2>3. Lists(<<>>) = <<>>
    <3> DEFINE k == <<>>
    <3>1. k \in Seq(Openers)
        OBVIOUS
    <3> HIDE DEF k
    <3>2. k = <<>> => Lists(k) = <<>>
        BY <3>1, ListsFacts
    <3> QED
        BY <3>2 DEF k
  <2>4. WellFormed("skip", <<>>, <<>>, <<>>)
      BY <2>2, <2>3, BalancedFacts DEF WellFormed
  <2> QED
      BY <2>1, <2>2, <2>4 DEF TokensFit
<1>2. Inv /\ TokensFit /\ [Next]_vars => TokensFit'
    BY FormedNext
<1> QED
    BY <1>1, <1>2, Invariance, PTL DEF Spec

-----------------------------------------------------------------------------
(* What the printer writes says what was read.                             *)

\* The text b is x after its first p characters.
Stands(b, p, x) == p + Len(x) <= Len(b) /\ \A i \in 1..Len(x) : b[p + i] = x[i]

\* Two parts, one after another.
LEMMA StandsBoth ==
  ASSUME NEW b \in Seq(Chars), NEW p \in Nat, NEW x \in Seq(Chars), NEW y \in Seq(Chars),
         Stands(b, p, x \o y)
  PROVE  /\ Stands(b, p, x) /\ Stands(b, p + Len(x), y)
         /\ p + Len(x) \in Nat /\ (p + Len(x)) + Len(y) = p + Len(x \o y)
<1> DEFINE n == Len(x)
           m == Len(y)
           z == x \o y
<1>1. /\ n \in Nat /\ m \in Nat /\ Len(b) \in Nat /\ Len(z) = n + m
      /\ \A i \in 1..(n + m) : z[i] = IF i <= n THEN x[i] ELSE y[i - n]
    BY LenProperties, ConcatProperties
<1>2. p + (n + m) <= Len(b) /\ \A i \in 1..(n + m) : b[p + i] = z[i]
    BY <1>1 DEF Stands
<1> HIDE DEF n, m, z
<1>3. ASSUME NEW i \in 1..n PROVE b[p + i] = x[i]
  <2>1. i \in 1..(n + m) /\ i <= n
      BY <1>1
  <2> QED
      BY <1>1, <1>2, <2>1
<1>4. ASSUME NEW i \in 1..m PROVE b[(p + n) + i] = y[i]
  <2>1. n + i \in 1..(n + m) /\ ~(n + i <= n) /\ (n + i) - n = i /\ (p + n) + i = p + (n + i)
      BY <1>1
  <2> DEFINE j == n + i
  <2>2. j \in 1..(n + m) /\ ~(j <= n) /\ j - n = i /\ (p + n) + i = p + j
      BY <2>1
  <2> HIDE DEF j
  <2>3. z[j] = y[i] /\ b[p + j] = z[j]
      BY <1>1, <1>2, <2>2
  <2> QED
      BY <2>2, <2>3
<1>5. p + n <= Len(b) /\ (p + n) + m <= Len(b) /\ p + n \in Nat /\ (p + n) + m = p + (n + m)
    BY <1>1, <1>2
<1>6. Stands(b, p, x) /\ Stands(b, p + n, y)
    BY <1>3, <1>4, <1>5 DEF Stands, n, m
<1> QED
    BY <1>1, <1>5, <1>6 DEF n, m, z

\* One character.
LEMMA StandsOne ==
  ASSUME NEW b \in Seq(Chars), NEW p \in Nat, NEW c \in Chars, Stands(b, p, <<c>>)
  PROVE  /\ Ref(b, p) \in SaysType /\ Sane(Ref(b, p))
         /\ Ref(b, p + 1) \in SaysType /\ Sane(Ref(b, p + 1))
         /\ Ref(b, p + 1) = Says1(Ref(b, p), c)
         /\ p + 1 \in Nat
<1>1. Len(<<c>>) = 1 /\ <<c>>[1] = c /\ Len(b) \in Nat
    BY LenProperties
<1>2. p + 1 <= Len(b) /\ b[p + 1] = c
    BY <1>1 DEF Stands
<1>3. p \in 0..(Len(b) - 1) /\ p + 1 \in Nat
    BY <1>1, <1>2
<1> QED
    BY <1>2, <1>3, RefNext

\* In a symbol, of which w has been read, in quotes or not.
InSym(s, g, k, w, z) ==
  /\ s \in SaysType /\ Sane(s) /\ ~s.e /\ ~s.com /\ s.q = z /\ s.cur = w /\ s.toks = g /\ s.open = k
  /\ z \/ w # <<>> => s.in

\* What the printer need not put in quotes.
IsPlain(c) == c \notin {"bs", "quo"} /\ ~IsTokSep(c) /\ ~IsRdMac(c) /\ ~IsComment(c)

\* A character of a symbol.
LEMMA EscapeSays ==
  ASSUME NEW c \in Chars, c # "eot", NEW z \in BOOLEAN, z \/ IsPlain(c),
         NEW b \in Seq(Chars), NEW p \in Nat, NEW g, NEW k, NEW w \in Seq(Chars),
         Stands(b, p, Escape(c)), InSym(Ref(b, p), g, k, w, z)
  PROVE  InSym(Ref(b, p + Len(Escape(c))), g, k, Append(w, c), z)
<1>1. Append(w, c) \in Seq(Chars) /\ Append(w, c) # <<>>
    BY AppendFacts
<1> DEFINE s == Ref(b, p)
<1>2. CASE c \in {"nl", "bs", "quo"}
  <2> DEFINE d == IF c = "nl" THEN "n" ELSE c
  <2>1. d \in Chars /\ "bs" \in Chars /\ Escaped(d) = c
      BY <1>2 DEF Chars, Escaped
  <2>2. Escape(c) = <<"bs", d>>
      BY <1>2 DEF Escape
  <2>3. z
      BY <1>2 DEF IsPlain, IsTokSep, IsSpace
  <2> HIDE DEF d
  <2>4. <<"bs">> \o <<d>> = <<"bs", d>> /\ Len(<<"bs", d>>) = 2 /\ Len(<<"bs">>) = 1
        /\ <<"bs">> \in Seq(Chars) /\ <<d>> \in Seq(Chars)
    <3>1. Len(<<"bs", d>>) = 2 /\ Len(<<"bs">>) = 1 /\ <<"bs">> \in Seq(Chars) /\ <<d>> \in Seq(Chars)
        BY <2>1
    <3>2. \A a \in Chars, y \in Chars : <<a>> \o <<y>> = <<a, y>>
        BY Tuples
    <3> QED
        BY <2>1, <3>1, <3>2
  <2>5. Stands(b, p, <<"bs">>) /\ Stands(b, p + 1, <<d>>)
    <3>1. Stands(b, p, <<"bs">> \o <<d>>)
        BY <2>2, <2>4
    <3>2. Stands(b, p, <<"bs">>) /\ Stands(b, p + Len(<<"bs">>), <<d>>)
        BY <2>4, <3>1, StandsBoth
    <3> QED
        BY <2>4, <3>2
  <2> DEFINE t == Ref(b, p + 1)
             u == Ref(b, p + 2)
  <2>6. s \in SaysType /\ Sane(s) /\ t \in SaysType /\ Sane(t) /\ t = Says1(s, "bs") /\ p + 1 \in Nat
      BY <2>1, <2>5, StandsOne
  <2>7. u \in SaysType /\ Sane(u) /\ u = Says1(t, d)
    <3>1. (p + 1) + 1 = p + 2
        OBVIOUS
    <3>2. Ref(b, (p + 1) + 1) \in SaysType /\ Sane(Ref(b, (p + 1) + 1)) /\ Ref(b, (p + 1) + 1) = Says1(Ref(b, p + 1), d)
        BY <2>1, <2>5, <2>6, StandsOne
    <3> QED
        BY <3>1, <3>2
  <2>8. ~s.e /\ ~s.com /\ s.q = z /\ s.cur = w /\ s.toks = g /\ s.open = k
      BY DEF InSym
  <2> HIDE DEF s, t, u
  <2>9. t.toks = g /\ t.open = k /\ t.cur = w /\ t.e /\ t.q = z /\ ~t.com
      BY <2>6, <2>8, SlashSays
  <2>10. u.toks = g /\ u.open = k /\ u.cur = Append(w, c) /\ u.in /\ ~u.e /\ u.q = z /\ ~u.com
      BY <2>1, <2>6, <2>7, <2>9, EscapedSays
  <2>11. InSym(u, g, k, Append(w, c), z)
      BY <2>7, <2>10 DEF InSym
  <2> QED
      BY <2>2, <2>4, <2>11 DEF u
<1>3. CASE c \notin {"nl", "bs", "quo"}
  <2>1. Escape(c) = <<c>> /\ Len(<<c>>) = 1
      BY <1>3 DEF Escape
  <2> DEFINE t == Ref(b, p + 1)
  <2>2. s \in SaysType /\ Sane(s) /\ t \in SaysType /\ Sane(t) /\ t = Says1(s, c)
      BY <2>1, StandsOne
  <2>3. ~s.e /\ ~s.com /\ s.q = z /\ s.cur = w /\ s.toks = g /\ s.open = k
      BY DEF InSym
  <2>4. s.q \/ (~IsTokSep(c) /\ ~IsComment(c) /\ ~IsRdMac(c))
      BY <2>3 DEF IsPlain
  <2> HIDE DEF s, t
  <2>5. t = Char(s, c)
      BY <1>3, <2>2, <2>3, <2>4, SymbolSays
  <2>6. /\ t.toks = g /\ t.open = k /\ t.cur = Append(w, c) /\ t.in /\ ~t.e /\ t.q = z /\ ~t.com
    <3>1. /\ Char(s, c).toks = s.toks /\ Char(s, c).open = s.open /\ Char(s, c).cur = Append(s.cur, c)
          /\ Char(s, c).in /\ ~Char(s, c).e /\ Char(s, c).q = s.q /\ Char(s, c).com = s.com
        BY <2>2, CharFacts
    <3> QED
        BY <2>3, <2>5, <3>1, Zenon
  <2>7. InSym(t, g, k, Append(w, c), z)
      BY <2>2, <2>6 DEF InSym
  <2> QED
      BY <2>1, <2>7 DEF t
<1> QED
    BY <1>2, <1>3

\* Characters that read as the symbol v.
Adds(x, v, z) ==
  \A b \in Seq(Chars), p \in Nat, g \in Seq(Toks), k \in Seq(Openers) :
    Stands(b, p, x) /\ InSym(Ref(b, p), g, k, <<>>, z) => InSym(Ref(b, p + Len(x)), g, k, v, z)

\* One character more.
LEMMA AddsEscape ==
  ASSUME NEW x \in Seq(Chars), NEW v \in Seq(Chars), NEW z \in BOOLEAN, Adds(x, v, z),
         NEW c \in Chars, c # "eot", z \/ IsPlain(c)
  PROVE  Adds(x \o Escape(c), Append(v, c), z)
<1> DEFINE y == Escape(c)
<1>1. y \in Seq(Chars)
  <2>1. "bs" \in Chars /\ "n" \in Chars
      BY DEF Chars
  <2>2. y = <<"bs", "n">> \/ y = <<"bs", c>> \/ y = <<c>>
      BY DEF Escape
  <2>3. <<"bs", "n">> \in Seq(Chars) /\ <<"bs", c>> \in Seq(Chars) /\ <<c>> \in Seq(Chars)
      BY <2>1
  <2> HIDE DEF y
  <2> QED
      BY <2>2, <2>3
<1> SUFFICES ASSUME NEW b \in Seq(Chars), NEW p \in Nat, NEW g \in Seq(Toks), NEW k \in Seq(Openers),
                    Stands(b, p, x \o y), InSym(Ref(b, p), g, k, <<>>, z)
             PROVE  InSym(Ref(b, p + Len(x \o y)), g, k, Append(v, c), z)
    BY DEF Adds
<1>2. /\ Stands(b, p, x) /\ Stands(b, p + Len(x), y) /\ p + Len(x) \in Nat
      /\ (p + Len(x)) + Len(y) = p + Len(x \o y)
  <2> HIDE DEF y
  <2> QED
      BY <1>1, StandsBoth
<1>3. InSym(Ref(b, p + Len(x)), g, k, v, z)
    BY <1>2 DEF Adds
<1> DEFINE r == p + Len(x)
<1>4. r \in Nat /\ Stands(b, r, Escape(c)) /\ InSym(Ref(b, r), g, k, v, z)
    BY <1>2, <1>3
<1> HIDE DEF r
<1>5. InSym(Ref(b, r + Len(Escape(c))), g, k, Append(v, c), z)
    BY <1>4, EscapeSays
<1> QED
    BY <1>2, <1>5 DEF r

\* No characters.
LEMMA AddsNothing ==
  ASSUME NEW z
  PROVE  Adds(<<>>, <<>>, z)
<1> DEFINE x == <<>>
<1>1. x \in Seq(Chars) /\ Len(x) = 0
    OBVIOUS
<1> HIDE DEF x
<1>2. \A p \in Nat : p + Len(x) = p
    BY <1>1
<1>3. Adds(x, <<>>, z)
    BY <1>2 DEF Adds
<1> QED
    BY <1>3 DEF x

\* All of its characters.
LEMMA AddsAll ==
  ASSUME NEW s \in Seq(Chars), NoEot(s), NEW z \in BOOLEAN, z \/ \A i \in DOMAIN s : IsPlain(s[i])
  PROVE  LET x == FlattenSeq([i \in DOMAIN s |-> Escape(s[i])])
         IN  x \in Seq(Chars) /\ Adds(x, s, z)
<1> DEFINE n == Len(s)
           f == [i \in 1..n |-> Escape(s[i])]
           v(i) == SubSeq(s, 1, i)
<1>1. n \in Nat /\ DOMAIN s = 1..n /\ \A i \in 1..n : s[i] \in Chars /\ s[i] # "eot" /\ (z \/ IsPlain(s[i]))
    BY LenProperties, ElementOfSeq DEF NoEot
<1>2. Parts(n, f)
  <2>1. ASSUME NEW c \in Chars PROVE Escape(c) \in Seq(Chars)
    <3>1. "bs" \in Chars /\ "n" \in Chars /\ "^" \in Chars /\ "D" \in Chars
        BY DEF Chars
    <3> DEFINE y == Escape(c)
    <3>2. y = <<"bs", "n">> \/ y = <<"^", "D">> \/ y = <<"bs", c>> \/ y = <<c>>
        BY DEF Escape
    <3>3. /\ <<"bs", "n">> \in Seq(Chars) /\ <<"^", "D">> \in Seq(Chars)
          /\ <<"bs", c>> \in Seq(Chars) /\ <<c>> \in Seq(Chars)
        BY <3>1
    <3> HIDE DEF y
    <3>4. y \in Seq(Chars)
        BY <3>2, <3>3
    <3> QED
        BY <3>4 DEF y
  <2> QED
      BY <1>1, <2>1 DEF Parts
<1>3. FlattenSeq([i \in DOMAIN s |-> Escape(s[i])]) = FlattenSeq(f) /\ \A i \in 1..n : f[i] = Escape(s[i])
    BY <1>1
<1>4. \A i \in 0..n : v(i) \in Seq(Chars) /\ Len(v(i)) = i /\ \A j \in 1..i : v(i)[j] = s[j]
    BY PrefixFacts
<1>5. ASSUME NEW i \in 1..n PROVE v(i) = Append(v(i - 1), s[i])
  <2> DEFINE a == v(i - 1)
             d == Append(a, s[i])
  <2>1. i - 1 \in 0..n /\ i \in 0..n /\ s[i] \in Chars
      BY <1>1
  <2>2. a \in Seq(Chars) /\ Len(a) = i - 1 /\ \A j \in 1..(i - 1) : a[j] = s[j]
    <3> DEFINE j == i - 1
    <3> HIDE DEF j, v
    <3>1. v(j) \in Seq(Chars) /\ Len(v(j)) = j /\ \A l \in 1..j : v(j)[l] = s[l]
        BY <1>4, <2>1 DEF j
    <3> QED
        BY <3>1 DEF j
  <2> HIDE DEF a
  <2>3. d \in Seq(Chars) /\ Len(d) = i /\ (\A j \in 1..(i - 1) : d[j] = a[j]) /\ d[i] = s[i]
    <3>1. d \in Seq(Chars) /\ Len(d) = Len(a) + 1 /\ (\A j \in 1..Len(a) : d[j] = a[j]) /\ d[Len(a) + 1] = s[i]
        BY <2>1, <2>2, AppendFacts
    <3>2. Len(a) + 1 = i
        BY <2>1, <2>2
    <3> QED
        BY <2>2, <3>1, <3>2
  <2>4. \A j \in 1..i : v(i)[j] = d[j]
    <3> TAKE j \in 1..i
    <3>1. j = i \/ j \in 1..(i - 1)
        BY <2>1
    <3> QED
        BY <1>4, <2>1, <2>2, <2>3, <3>1
  <2>5. v(i) \in Seq(Chars) /\ Len(v(i)) = i
      BY <1>4, <2>1
  <2> HIDE DEF d, v
  <2>6. v(i) = d
      BY <2>3, <2>4, <2>5, SeqEqual
  <2> QED
      BY <2>6 DEF a, d
<1>6. v(0) = <<>> /\ v(n) = s
  <2>1. Len(v(0)) = 0 /\ v(0) \in Seq(Chars) /\ v(n) \in Seq(Chars) /\ Len(v(n)) = n /\ \A j \in 1..n : v(n)[j] = s[j]
      BY <1>1, <1>4
  <2> HIDE DEF v
  <2> QED
      BY <2>1, EmptySeq, SeqEqual
<1> HIDE DEF n, f, v
<1>7. n \in Nat
    BY <1>1
<1>8. PICK h \in [0..n -> Seq(Chars)] : /\ h[0] = <<>> /\ \A i \in 1..n : h[i] = h[i - 1] \o f[i]
                                        /\ FlattenSeq(f) = h[n]
    BY <1>2, <1>7, FlattenRun
<1>9. \A i \in 0..n : Adds(h[i], v(i), z)
  <2> DEFINE Odd == {i \in 0..n : ~Adds(h[i], v(i), z)}
  <2>1. SUFFICES ASSUME Odd # {} PROVE FALSE
      OBVIOUS
  <2>2. PICK m \in Odd : \A j \in Odd : m <= j
    <3>1. Odd \subseteq Nat
        BY <1>7
    <3> HIDE DEF Odd
    <3> QED
        BY <2>1, <3>1, LeastOf
  <2>3. m \in 0..n /\ ~Adds(h[m], v(m), z)
      OBVIOUS
  <2>4. m # 0
      BY <2>3, <1>6, <1>8, AddsNothing
  <2>5. m \in 1..n /\ m - 1 \in 0..n /\ ~(m <= m - 1)
      BY <2>3, <2>4, <1>7
  <2>6. Adds(h[m - 1], v(m - 1), z)
      BY <2>2, <2>5
  <2> DEFINE x == h[m - 1]
             y == v(m - 1)
             c == s[m]
  <2>7. x \in Seq(Chars) /\ y \in Seq(Chars) /\ c \in Chars /\ c # "eot" /\ (z \/ IsPlain(c)) /\ Adds(x, y, z)
      BY <2>5, <2>6, <1>1, <1>4, <1>8
  <2>8. h[m] = x \o Escape(c) /\ v(m) = Append(y, c)
      BY <2>5, <1>3, <1>5, <1>8
  <2> HIDE DEF x, y, c
  <2>9. Adds(x \o Escape(c), Append(y, c), z)
      BY <2>7, AddsEscape
  <2> QED
      BY <2>3, <2>8, <2>9
<1>10. n \in 0..n
    BY <1>7
<1> QED
    BY <1>3, <1>6, <1>8, <1>9, <1>10

\* Lists and vectors, and no quotes: nothing ends with an expression but itself.
LEMMA InnerFacts ==
  ASSUME NEW k \in Seq(Inner), NEW g \in Seq(Toks)
  PROVE  k \in Seq(Openers) /\ Quoted(k, g) = g /\ SubSeq(k, 1, Outside(k)) = k
<1>1. Len(k) \in Nat /\ \A i \in 1..Len(k) : k[i] \in Inner
    BY LenProperties, ElementOfSeq
<1>2. k \in Seq(Openers)
    BY <1>1 DEF Inner, Openers
<1>3. k # <<>> => Last(k) \in Inner
    BY LastFront
<1>4. k = <<>> \/ Last(k) # "'"
    BY <1>3 DEF Inner
<1>5. Quoted(k, g) = g
    BY <1>2, <1>4, QuotedFacts
<1>6. Outside(k) = Len(k)
  <2>1. k = <<>> => Len(k) = 0
      OBVIOUS
  <2> QED
      BY <1>2, <1>4, <2>1, OutsideLast
<1>7. SubSeq(k, 1, Len(k)) = k
  <2>1. Len(k) \in 0..Len(k)
      BY <1>1
  <2> DEFINE n == Len(k)
  <2>2. SubSeq(k, 1, n) \in Seq(Inner) /\ Len(SubSeq(k, 1, n)) = n /\ \A i \in 1..n : SubSeq(k, 1, n)[i] = k[i]
      BY <2>1, PrefixFacts
  <2> QED
      BY <2>2, SeqEqual
<1> QED
    BY <1>2, <1>5, <1>6, <1>7

\* The tokens g have been read, and the lists k are open: between tokens ...
Idle(s, g, k) == s \in SaysType /\ Sane(s) /\ Bare(s) /\ ~s.in /\ s.toks = g /\ s.open = k
\* ... or after the last character of the last one.
Has(s, g, k) ==
  /\ s \in SaysType /\ Sane(s) /\ Bare(s)
  /\ \/ ~s.in /\ s.toks = g /\ s.open = k
     \/ s.in /\ g = Append(s.toks, Sym(s.cur)) /\ s.open = k /\ ~(s.cur = <<".">> /\ s.lit)
     \/ /\ s.in /\ g = Append(s.toks, Mark(".")) /\ k = Append(s.open, ".") /\ s.cur = <<".">> /\ s.lit
        /\ Top(s.open, "(") /\ Last(s.toks) # Mark("(")

\* The last token ends.
LEMMA HasEnds ==
  ASSUME NEW s, NEW g \in Seq(Toks), NEW k \in Seq(Inner), Has(s, g, k), NEW space \in BOOLEAN,
         space \/ Last(g) # Mark(".")
  PROVE  EndSymbol(s, space).toks = g /\ EndSymbol(s, space).open = k
<1>1. s \in SaysType /\ s.toks \in Seq(Toks) /\ s.cur \in Seq(Chars) /\ s.open \in Seq(Openers)
    BY SaysFields DEF Has
<1>2. CASE ~s.in /\ s.toks = g /\ s.open = k
    BY <1>1, <1>2, EndSymbolFacts
<1>3. CASE s.in /\ g = Append(s.toks, Sym(s.cur)) /\ s.open = k /\ ~(s.cur = <<".">> /\ s.lit)
  <2>1. ~DotOfList(s, space)
      BY <1>3 DEF DotOfList
  <2>2. /\ EndSymbol(s, space).toks = Quoted(s.open, Append(s.toks, Sym(s.cur)))
        /\ EndSymbol(s, space).open = SubSeq(s.open, 1, Outside(s.open))
      BY <1>1, <1>3, <2>1, EndSymbolFacts
  <2> QED
      BY <1>3, <2>2, InnerFacts
<1>4. CASE /\ s.in /\ g = Append(s.toks, Mark(".")) /\ k = Append(s.open, ".") /\ s.cur = <<".">> /\ s.lit
           /\ Top(s.open, "(") /\ Last(s.toks) # Mark("(")
  <2>1. space
    <3>1. Mark(".") \in Toks
        BY MarkKinds
    <3>2. Last(g) = Mark(".")
        BY <1>1, <1>4, <3>1, AppendFacts
    <3> QED
        BY <3>2
  <2>2. DotOfList(s, space)
      BY <1>4, <2>1 DEF DotOfList, Top
  <2> QED
      BY <1>1, <1>4, <2>2, EndSymbolFacts
<1> QED
    BY <1>2, <1>3, <1>4 DEF Has

\* A space after it.
LEMMA HasSpace ==
  ASSUME NEW b \in Seq(Chars), NEW p \in Nat, NEW g \in Seq(Toks), NEW k \in Seq(Inner),
         Has(Ref(b, p), g, k), NEW c \in {" ", "nl"}, Stands(b, p, <<c>>)
  PROVE  Idle(Ref(b, p + 1), g, k)
<1> DEFINE s == Ref(b, p)
           t == Ref(b, p + 1)
<1>1. c \in Chars /\ IsSpace(c)
    BY DEF Chars, IsSpace
<1>2. s \in SaysType /\ Sane(s) /\ t \in SaysType /\ Sane(t) /\ t = Says1(s, c)
    BY <1>1, StandsOne
<1>3. Has(s, g, k)
    OBVIOUS
<1> HIDE DEF s, t
<1>4. Bare(s)
    BY <1>3 DEF Has
<1>5. Fresh(s, Says1(s, c)) /\ Says1(s, c).toks = EndSymbol(s, TRUE).toks /\ Says1(s, c).open = EndSymbol(s, TRUE).open
    BY <1>1, <1>2, <1>4, SpaceSays
<1>6. EndSymbol(s, TRUE).toks = g /\ EndSymbol(s, TRUE).open = k
    BY <1>3, HasEnds
<1>7. t.toks = g /\ t.open = k /\ ~t.in /\ Bare(t)
    BY <1>2, <1>5, <1>6 DEF Fresh, Bare
<1>8. Idle(t, g, k)
    BY <1>2, <1>7 DEF Idle
<1> QED
    BY <1>8 DEF t

\* After what begins a list, and at first, no space is needed.
LEMMA HasOpened ==
  ASSUME NEW s, NEW g \in Seq(Toks), NEW k \in Seq(Inner), Has(s, g, k), g = <<>> \/ Opens(Last(g))
  PROVE  Idle(s, g, k)
<1>1. s \in SaysType /\ s.toks \in Seq(Toks) /\ s.cur \in Seq(Chars)
    BY SaysFields DEF Has
<1>2. Sym(s.cur) \in Toks /\ ~Opens(Sym(s.cur)) /\ Mark(".") \in Toks /\ ~Opens(Mark("."))
    BY <1>1, TokenFacts, MarkKinds DEF Opens
<1>3. ASSUME NEW x \in Toks, ~Opens(x) PROVE g # Append(s.toks, x)
  <2>1. Append(s.toks, x) # <<>> /\ Last(Append(s.toks, x)) = x
      BY <1>1, AppendFacts
  <2>2. ASSUME g = Append(s.toks, x) PROVE FALSE
      BY <1>3, <2>1, <2>2
  <2> QED
      BY <2>2
<1>4. g # Append(s.toks, Sym(s.cur)) /\ g # Append(s.toks, Mark("."))
    BY <1>2, <1>3
<1> QED
    BY <1>4 DEF Has, Idle

\* The text of a symbol.
LEMMA EscSPrtSays ==
  ASSUME NEW s \in Seq(Chars), NoEot(s), s # <<".">>
  PROVE  /\ EscSPrt(s) \in Seq(Chars)
         /\ \A b \in Seq(Chars), p \in Nat, g \in Seq(Toks), k \in Seq(Inner) :
              Stands(b, p, EscSPrt(s)) /\ Idle(Ref(b, p), g, k)
              => Has(Ref(b, p + Len(EscSPrt(s))), Append(g, Sym(s)), k)
<1> DEFINE x == FlattenSeq([i \in DOMAIN s |-> Escape(s[i])])
           needed == \/ s = <<>>
                     \/ \E i \in DOMAIN s : \/ s[i] \in {"bs", "quo"}
                                            \/ IsTokSep(s[i]) \/ IsRdMac(s[i]) \/ IsComment(s[i])
<1>1. EscSPrt(s) = IF needed THEN <<"quo">> \o x \o <<"quo">> ELSE x
    BY DEF EscSPrt
<1>2. ASSUME NEW b \in Seq(Chars), NEW p \in Nat, NEW g \in Seq(Toks), NEW k \in Seq(Inner),
             Idle(Ref(b, p), g, k)
      PROVE  InSym(Ref(b, p), g, k, <<>>, FALSE) /\ k \in Seq(Openers)
  <2> DEFINE r == Ref(b, p)
  <2>1. /\ r \in SaysType /\ Sane(r) /\ Bare(r) /\ ~r.in /\ r.toks = g /\ r.open = k
      BY <1>2 DEF Idle
  <2> HIDE DEF r
  <2>2. InSym(r, g, k, <<>>, FALSE)
      BY <2>1, SaysFields DEF Sane, Bare, InSym
  <2> QED
      BY <2>2, InnerFacts DEF r
<1>3. CASE ~needed
  <2>1. \A i \in DOMAIN s : IsPlain(s[i])
      BY <1>3 DEF IsPlain
  <2>2. x \in Seq(Chars) /\ Adds(x, s, FALSE)
      BY <2>1, AddsAll
  <2>3. EscSPrt(s) = x /\ s # <<>>
      BY <1>1, <1>3
  <2> HIDE DEF x
  <2>4. ASSUME NEW b \in Seq(Chars), NEW p \in Nat, NEW g \in Seq(Toks), NEW k \in Seq(Inner),
               Stands(b, p, x), Idle(Ref(b, p), g, k)
        PROVE  Has(Ref(b, p + Len(x)), Append(g, Sym(s)), k)
    <3> DEFINE r == Ref(b, p + Len(x))
    <3>1. InSym(r, g, k, s, FALSE)
        BY <1>2, <2>2, <2>4 DEF Adds
    <3> HIDE DEF r
    <3>2. r \in SaysType /\ Sane(r) /\ Bare(r) /\ r.in /\ r.toks = g /\ r.open = k /\ r.cur = s
        BY <2>3, <3>1 DEF InSym, Bare
    <3>3. Has(r, Append(g, Sym(s)), k)
        BY <3>2 DEF Has
    <3> QED
        BY <3>3 DEF r
  <2> QED
      BY <2>2, <2>3, <2>4
<1>4. CASE needed
  <2>1. x \in Seq(Chars) /\ Adds(x, s, TRUE)
      BY AddsAll
  <2> DEFINE y == <<"quo">> \o x
             d == <<"quo">>
  <2>2. EscSPrt(s) = y \o d
      BY <1>1, <1>4
  <2> HIDE DEF x, needed
  <2>3. "quo" \in Chars /\ d \in Seq(Chars) /\ Len(d) = 1
    <3>1. "quo" \in Chars
        BY DEF Chars
    <3> QED
        BY <3>1
  <2> HIDE DEF d
  <2>4. y = d \o x /\ y \in Seq(Chars) /\ y \o d \in Seq(Chars)
    <3>1. y = d \o x
        BY DEF d
    <3> HIDE DEF y
    <3> QED
        BY <2>1, <2>3, <3>1, ConcatProperties
  <2>5. ASSUME NEW b \in Seq(Chars), NEW p \in Nat, NEW g \in Seq(Toks), NEW k \in Seq(Inner),
               Stands(b, p, y \o d), Idle(Ref(b, p), g, k)
        PROVE  Has(Ref(b, p + Len(y \o d)), Append(g, Sym(s)), k)
    <3> HIDE DEF y
    <3>1. /\ Stands(b, p, y) /\ Stands(b, p + Len(y), d) /\ p + Len(y) \in Nat
          /\ (p + Len(y)) + 1 = p + Len(y \o d)
      <4>1. /\ Stands(b, p, y) /\ Stands(b, p + Len(y), d)
            /\ p + Len(y) \in Nat /\ (p + Len(y)) + Len(d) = p + Len(y \o d)
        <5>1. y \in Seq(Chars) /\ d \in Seq(Chars) /\ Stands(b, p, y \o d)
            BY <2>3, <2>4, <2>5
        <5> QED
            BY <5>1, StandsBoth
      <4> QED
          BY <2>3, <4>1
    <3>2. /\ Stands(b, p, d) /\ Stands(b, p + 1, x) /\ p + 1 \in Nat
          /\ (p + 1) + Len(x) = p + Len(y)
      <4>1. Stands(b, p, d \o x)
          BY <2>4, <3>1
      <4>2. /\ Stands(b, p, d) /\ Stands(b, p + Len(d), x) /\ p + Len(d) \in Nat
            /\ (p + Len(d)) + Len(x) = p + Len(d \o x)
        <5>1. d \in Seq(Chars) /\ x \in Seq(Chars)
            BY <2>1, <2>3
        <5> HIDE DEF y
        <5> QED
            BY <4>1, <5>1, StandsBoth
      <4>3. p + Len(d \o x) = p + Len(y)
          BY <2>4
      <4> HIDE DEF y
      <4> QED
          BY <2>3, <4>2, <4>3
    <3> DEFINE r == Ref(b, p)
               t == Ref(b, p + 1)
               u == Ref(b, p + Len(y))
               v == Ref(b, p + Len(y \o d))
    <3>3. r \in SaysType /\ Sane(r) /\ t \in SaysType /\ Sane(t) /\ t = Says1(r, "quo")
        BY <2>3, <3>2, StandsOne DEF d
    <3>4. InSym(r, g, k, <<>>, FALSE) /\ k \in Seq(Openers)
        BY <1>2, <2>5
    <3>5. u \in SaysType /\ Sane(u) /\ v \in SaysType /\ Sane(v) /\ v = Says1(u, "quo")
      <4> DEFINE w == p + Len(y)
      <4>1. w \in Nat /\ Stands(b, w, <<"quo">>) /\ w + 1 = p + Len(y \o d)
          BY <3>1 DEF d
      <4> HIDE DEF w
      <4>2. /\ Ref(b, w) \in SaysType /\ Sane(Ref(b, w)) /\ Ref(b, w + 1) \in SaysType /\ Sane(Ref(b, w + 1))
            /\ Ref(b, w + 1) = Says1(Ref(b, w), "quo")
          BY <2>3, <4>1, StandsOne
      <4> QED
          BY <4>1, <4>2 DEF w
    <3>6. InSym(t, g, k, <<>>, TRUE)
      <4> HIDE DEF r, t
      <4>1. /\ r.cur = <<>> /\ ~r.e /\ ~r.com /\ r.q = FALSE /\ r.toks = g /\ r.open = k
          BY <3>4 DEF InSym
      <4>2. t.toks = g /\ t.open = k /\ t.cur = <<>> /\ t.in /\ ~t.e /\ t.q = TRUE /\ ~t.com
          BY <3>3, <4>1, QuoteSays
      <4> QED
          BY <3>3, <4>2 DEF InSym
    <3>7. InSym(u, g, k, s, TRUE)
      <4> DEFINE w == p + 1
      <4>1. w \in Nat /\ Stands(b, w, x) /\ InSym(Ref(b, w), g, k, <<>>, TRUE) /\ w + Len(x) = p + Len(y)
          BY <3>2, <3>6
      <4> HIDE DEF w
      <4>2. InSym(Ref(b, w + Len(x)), g, k, s, TRUE)
          BY <2>1, <3>4, <4>1 DEF Adds
      <4> QED
          BY <4>1, <4>2
    <3> HIDE DEF r, t, u, v
    <3>8. u.cur = s /\ ~u.e /\ ~u.com /\ u.q = TRUE /\ u.toks = g /\ u.open = k
        BY <3>7 DEF InSym
    <3>9. v.toks = g /\ v.open = k /\ v.cur = s /\ v.in /\ ~v.e /\ v.q = FALSE /\ ~v.com /\ ~v.lit
        BY <3>5, <3>8, QuoteSays
    <3>10. Has(v, Append(g, Sym(s)), k)
        BY <3>5, <3>9 DEF Has, Bare
    <3> QED
        BY <3>10 DEF v
  <2> QED
      BY <2>2, <2>4, <2>5
<1> QED
    BY <1>3, <1>4

\* The text of a token.
Body(t) == IF IsSym(t) THEN EscSPrt(Tail(t)) ELSE t

\* A symbol is told from the other tokens.
LEMMA SymFacts ==
  ASSUME NEW s \in Seq(Chars)
  PROVE  IsSym(Sym(s)) /\ Tail(Sym(s)) = s
<1> DEFINE x == Sym(s)
           a == <<"sym">>
<1>1. a \in Seq(Chars) /\ Len(a) = 1 /\ a[1] = "sym"
  <2>1. "sym" \in Chars
      BY DEF Chars
  <2> QED
      BY <2>1
<1>2. x = a \o s
    BY DEF Sym
<1> HIDE DEF x, a
<1>3. /\ x \in Seq(Chars) /\ Len(x) = 1 + Len(s) /\ Len(s) \in Nat
      /\ \A i \in 1..(1 + Len(s)) : x[i] = IF i <= 1 THEN a[i] ELSE s[i - 1]
    BY <1>1, <1>2, ConcatProperties, LenProperties
<1>4. x # <<>> /\ x[1] = "sym"
    BY <1>1, <1>3, EmptySeq
<1>5. IsSym(x)
    BY <1>3, <1>4 DEF IsSym
<1>6. /\ Tail(x) \in Seq(Chars) /\ Len(Tail(x)) = Len(s)
      /\ \A i \in 1..Len(Tail(x)) : Tail(x)[i] = x[i + 1]
    BY <1>3, <1>4, HeadTailProperties
<1>7. \A i \in 1..Len(s) : Tail(x)[i] = s[i]
  <2> TAKE i \in 1..Len(s)
  <2>1. i + 1 \in 1..(1 + Len(s)) /\ ~(i + 1 <= 1) /\ (i + 1) - 1 = i
      BY <1>3
  <2>2. x[i + 1] = s[i]
    <3> DEFINE j == i + 1
    <3>1. j \in 1..(1 + Len(s)) /\ ~(j <= 1) /\ j - 1 = i
        BY <2>1
    <3> HIDE DEF j
    <3>2. x[j] = s[i]
        BY <1>3, <3>1
    <3> QED
        BY <3>2 DEF j
  <2> QED
      BY <1>6, <2>2
<1>8. Tail(x) = s
    BY <1>6, <1>7, SeqEqual
<1> QED
    BY <1>5, <1>8 DEF x

\* What begins and ends lists, and the dot, is one character.
LEMMA MarkFacts ==
  ASSUME NEW c \in {"(", ")", "[", "]", "."}
  PROVE  /\ ~IsSym(Mark(c)) /\ Body(Mark(c)) = <<c>> /\ <<c>> \in Seq(Chars) /\ c \in Chars /\ Len(<<c>>) = 1
         /\ Mark(c) = <<c>>
<1>1. c \in Chars /\ c # "sym"
    BY DEF Chars
<1>2. Mark(c) = <<c>> /\ <<c>> \in Seq(Chars) /\ Len(<<c>>) = 1 /\ <<c>>[1] = c
    BY <1>1 DEF Mark
<1>3. Head(Mark(c)) = c
    BY <1>2
<1>4. ~IsSym(Mark(c))
    BY <1>1, <1>3 DEF IsSym
<1> QED
    BY <1>1, <1>2, <1>4 DEF Body

\* What may come after the tokens g: after a space, or what ends a list.
Comes(s, g, k, t) == IF Closes(t) THEN Has(s, g, k) ELSE Idle(s, g, k)
\* After any text that says g, x is the text that says the token t too.
ReadsOn(x, g, k, t) ==
  \A b \in Seq(Chars), p \in Nat :
    Stands(b, p, x) /\ Comes(Ref(b, p), g, k, t)
    => Has(Ref(b, p + Len(x)), Append(g, t), Within(k, t))

\* What begins a list.
LEMMA OpenReads ==
  ASSUME NEW g \in Seq(Toks), NEW k \in Seq(Inner), NEW c \in {"(", "["}
  PROVE  ReadsOn(<<c>>, g, k, Mark(c))
<1> DEFINE m == Mark(c)
<1>1. c \in Chars /\ Len(<<c>>) = 1 /\ m \in Toks /\ ~Closes(m) /\ Within(k, m) = Append(k, c)
  <2>1. c \in Inner
      BY DEF Inner
  <2>2. ~Closes(m)
      BY MarkKinds DEF Closes
  <2> QED
      BY <2>1, <2>2, MarkFacts, MarkKinds, WithinFacts
<1> HIDE DEF m
<1> SUFFICES ASSUME NEW b \in Seq(Chars), NEW p \in Nat, Stands(b, p, <<c>>), Comes(Ref(b, p), g, k, m)
             PROVE  Has(Ref(b, p + Len(<<c>>)), Append(g, m), Within(k, m))
    BY DEF ReadsOn, m
<1> DEFINE s == Ref(b, p)
           t == Ref(b, p + 1)
<1>2. s \in SaysType /\ Sane(s) /\ t \in SaysType /\ Sane(t) /\ t = Says1(s, c)
    BY <1>1, StandsOne
<1>3. Idle(s, g, k)
    BY <1>1 DEF Comes
<1> HIDE DEF s, t
<1>4. Bare(s) /\ ~s.in /\ s.toks = g /\ s.open = k
    BY <1>3 DEF Idle
<1>5. /\ Fresh(s, t) /\ t.toks = Append(EndSymbol(s, FALSE).toks, Mark(c))
      /\ t.open = Append(EndSymbol(s, FALSE).open, c)
    BY <1>2, <1>4, OpenSays
<1>6. EndSymbol(s, FALSE) = s
    BY <1>2, <1>4, EndSymbolFacts
<1>7. t.toks = Append(g, m) /\ t.open = Append(k, c) /\ ~t.in /\ Bare(t)
    BY <1>4, <1>5, <1>6 DEF Fresh, Bare, m
<1>8. Has(t, Append(g, m), Within(k, m))
    BY <1>1, <1>2, <1>7 DEF Has
<1> QED
    BY <1>1, <1>8 DEF t

\* A dot.
LEMMA DotReads ==
  ASSUME NEW g \in Seq(Toks), NEW k \in Seq(Inner), Top(k, "("), Last(g) # Mark("(")
  PROVE  ReadsOn(<<".">>, g, k, Mark("."))
<1> DEFINE m == Mark(".")
<1>1. "." \in Chars /\ Len(<<".">>) = 1 /\ m \in Toks /\ ~Closes(m) /\ Within(k, m) = Append(k, ".")
  <2>1. "." \in Inner
      BY DEF Inner
  <2>2. ~Closes(m)
      BY MarkKinds DEF Closes
  <2> QED
      BY <2>1, <2>2, MarkFacts, MarkKinds, WithinFacts
<1> HIDE DEF m
<1> SUFFICES ASSUME NEW b \in Seq(Chars), NEW p \in Nat, Stands(b, p, <<".">>), Comes(Ref(b, p), g, k, m)
             PROVE  Has(Ref(b, p + Len(<<".">>)), Append(g, m), Within(k, m))
    BY DEF ReadsOn, m
<1> DEFINE s == Ref(b, p)
           t == Ref(b, p + 1)
<1>2. s \in SaysType /\ Sane(s) /\ t \in SaysType /\ Sane(t) /\ t = Says1(s, ".")
    BY <1>1, StandsOne
<1>3. Idle(s, g, k)
    BY <1>1 DEF Comes
<1> HIDE DEF s, t
<1>4. ~s.q /\ ~s.e /\ ~s.com /\ ~s.in /\ s.toks = g /\ s.open = k /\ s.cur = <<>> /\ s.lit
    BY <1>2, <1>3 DEF Idle, Bare, Sane
<1>5. t = Char(s, ".")
  <2>1. "." \notin {"bs", "quo"} /\ ~IsTokSep(".") /\ ~IsComment(".") /\ ~IsRdMac(".")
      BY DEF IsTokSep, IsSpace, IsComment, IsRdMac
  <2> QED
      BY <1>1, <1>2, <1>4, <2>1, SymbolSays
<1>6. t.toks = g /\ t.open = k /\ t.cur = Append(<<>>, ".") /\ t.in /\ ~t.e /\ t.lit /\ ~t.q /\ ~t.com
  <2>1. /\ Char(s, ".").toks = s.toks /\ Char(s, ".").open = s.open /\ Char(s, ".").cur = Append(s.cur, ".")
        /\ Char(s, ".").in /\ ~Char(s, ".").e /\ Char(s, ".").lit = s.lit /\ Char(s, ".").q = s.q
        /\ Char(s, ".").com = s.com
      BY <1>1, <1>2, CharFacts
  <2> QED
      BY <1>4, <1>5, <2>1, Zenon
<1>7. Append(<<>>, ".") = <<".">>
    OBVIOUS
<1>8. Has(t, Append(g, m), Append(k, "."))
    BY <1>2, <1>6, <1>7 DEF Has, Bare, m
<1> QED
    BY <1>1, <1>8 DEF t

\* What ends a list.
LEMMA CloseReads ==
  ASSUME NEW g \in Seq(Toks), NEW k \in Seq(Inner), NEW c \in {")", "]"}, k # <<>>, g # <<>>,
         Last(g) # Mark(".")
  PROVE  ReadsOn(<<c>>, g, k, Mark(c))
<1> DEFINE m == Mark(c)
           w == SubSeq(k, 1, Len(k) - (IF Last(k) = "." THEN 2 ELSE 1))
<1>1. /\ c \in Chars /\ Len(<<c>>) = 1 /\ m \in Toks /\ Closes(m) /\ Within(k, m) = w
      /\ w \in Seq(Inner)
  <2>1. m \in {Mark(")"), Mark("]")}
      OBVIOUS
  <2>2. Closes(m)
      BY <2>1 DEF Closes
  <2>3. Within(k, m) = w /\ Within(k, m) \in Seq(Inner)
    <3> HIDE DEF m, w
    <3>1. Within(k, m) = SubSeq(k, 1, Len(k) - (IF Last(k) = "." THEN 2 ELSE 1))
        BY <2>1, WithinFacts
    <3>2. Within(k, m) \in Seq(Inner)
        BY <2>1, WithinFacts
    <3> QED
        BY <3>1, <3>2 DEF w
  <2> QED
      BY <2>2, <2>3, MarkFacts, MarkKinds
<1> HIDE DEF m, w
<1> SUFFICES ASSUME NEW b \in Seq(Chars), NEW p \in Nat, Stands(b, p, <<c>>), Comes(Ref(b, p), g, k, m)
             PROVE  Has(Ref(b, p + Len(<<c>>)), Append(g, m), Within(k, m))
    BY DEF ReadsOn, m
<1> DEFINE s == Ref(b, p)
           t == Ref(b, p + 1)
<1>2. s \in SaysType /\ Sane(s) /\ t \in SaysType /\ Sane(t) /\ t = Says1(s, c)
    BY <1>1, StandsOne
<1>3. Has(s, g, k)
    BY <1>1 DEF Comes
<1> HIDE DEF s, t
<1>4. Bare(s) /\ EndSymbol(s, FALSE).toks = g /\ EndSymbol(s, FALSE).open = k
    BY <1>3, HasEnds DEF Has
<1>5. PICK u \in SaysType : /\ u.toks = g /\ u.open = k /\ t = EndList(Missing(u), c) /\ Fresh(s, t)
    BY <1>2, <1>4, CloseSays
<1>6. Missing(u) = u
    BY <1>5, MissingFacts
<1>7. PICK r \in Seq(Openers) : /\ r = SubSeq(u.open, 1, Len(u.open) - (IF Last(u.open) = "." THEN 2 ELSE 1))
                                /\ EndList(u, c).toks = Quoted(r, Append(u.toks, Mark(c)))
                                /\ EndList(u, c).open = SubSeq(r, 1, Outside(r))
    BY <1>5, EndListFacts
<1>8. r = w
    BY <1>5, <1>7 DEF w
<1>9. t.toks = Quoted(w, Append(g, m)) /\ t.open = SubSeq(w, 1, Outside(w))
    BY <1>5, <1>6, <1>7, <1>8 DEF m
<1>10. Append(g, m) \in Seq(Toks)
    BY <1>1, AppendFacts
<1>11. t.toks = Append(g, m) /\ t.open = w
    BY <1>1, <1>9, <1>10, InnerFacts
<1>12. ~t.in /\ Bare(t)
    BY <1>5 DEF Fresh, Bare
<1>13. Has(t, Append(g, m), w)
    BY <1>2, <1>11, <1>12 DEF Has
<1> QED
    BY <1>1, <1>13 DEF t

\* A token, whatever it is.
LEMMA BodyReads ==
  ASSUME NEW g \in Seq(Toks), NEW k \in Seq(Inner), NEW t, Follows(g, k, t), t # Sym(<<".">>)
  PROVE  Body(t) \in Seq(Chars) /\ ReadsOn(Body(t), g, k, t)
<1>1. CASE IsSymbol(t)
  <2>1. PICK s \in Seq(Chars) : t = Sym(s) /\ NoEot(s)
      BY <1>1 DEF IsSymbol
  <2>2. s # <<".">>
      BY <2>1
  <2>3. Body(t) = EscSPrt(s)
      BY <2>1, SymFacts DEF Body
  <2>4. ~Closes(t) /\ Within(k, t) = k
    <3>1. t \in Toks
        BY <1>1, FollowsFacts
    <3> QED
        BY <1>1, <2>1, <3>1, MarkKinds, WithinFacts DEF Closes
  <2>5. /\ EscSPrt(s) \in Seq(Chars)
        /\ \A b \in Seq(Chars), p \in Nat :
             Stands(b, p, EscSPrt(s)) /\ Idle(Ref(b, p), g, k)
             => Has(Ref(b, p + Len(EscSPrt(s))), Append(g, Sym(s)), k)
      BY <2>1, <2>2, EscSPrtSays
  <2> QED
      BY <2>1, <2>3, <2>4, <2>5 DEF ReadsOn, Comes
<1>2. CASE t \in {Mark("("), Mark("[")}
  <2>1. PICK c \in {"(", "["} : t = Mark(c)
      BY <1>2
  <2> QED
      BY <2>1, MarkFacts, OpenReads
<1>3. CASE t = Mark(".") /\ Top(k, "(") /\ g # <<>> /\ Last(g) # Mark("(")
    BY <1>3, MarkFacts, DotReads
<1>4. CASE t \in {Mark(")"), Mark("]")} /\ k # <<>> /\ g # <<>> /\ Last(g) # Mark(".")
  <2>1. PICK c \in {")", "]"} : t = Mark(c)
      BY <1>4
  <2> QED
      BY <1>4, <2>1, MarkFacts, CloseReads
<1> QED
    BY <1>1, <1>2, <1>3, <1>4 DEF Follows

\* A text that says the tokens g, and leaves the lists k open.
Tells(x, g, k) == \A b \in Seq(Chars) : Stands(b, 0, x) => Has(Ref(b, Len(x)), g, k)

\* A space, or none.
LEMMA SomeSpace ==
  <<" ">> \in Seq(Chars) /\ <<>> \in Seq(Chars)
<1>1. " " \in Chars
    BY DEF Chars
<1>2. \A c \in Chars : <<c>> \in Seq(Chars)
    OBVIOUS
<1>3. <<" ">> \in Seq(Chars)
    BY <1>1, <1>2, Zenon
<1>4. <<>> \in Seq(Chars)
    OBVIOUS
<1> QED
    BY <1>3, <1>4

\* No text says nothing.
LEMMA TellsNothing ==
  Tells(<<>>, <<>>, <<>>)
<1> DEFINE x == <<>>
           g == <<>>
           k == <<>>
<1>1. Len(x) = 0
    OBVIOUS
<1>2. /\ Start.toks = g /\ Start.open = k /\ Start.cur = <<>> /\ ~Start.in /\ Start.lit /\ ~Start.q
      /\ ~Start.e /\ ~Start.com
    BY DEF Start
<1> HIDE DEF x, g, k
<1>3. Start \in SaysType /\ Sane(Start) /\ Bare(Start)
    BY <1>2, StartFacts DEF Sane, Bare
<1>4. Has(Start, g, k)
    BY <1>2, <1>3 DEF Has
<1>5. \A b \in Seq(Chars) : Ref(b, 0) = Start
    BY RefFacts
<1>6. Tells(x, g, k)
    BY <1>1, <1>4, <1>5 DEF Tells
<1> QED
    BY <1>6 DEF x, g, k

\* What is printed before a token and with it.
Part(g, t) == (IF g # <<>> /\ ~Opens(Last(g)) /\ ~Closes(t) THEN <<" ">> ELSE <<>>) \o Body(t)

\* One token more.
LEMMA TellsMore ==
  ASSUME NEW g \in Seq(Toks), NEW k \in Seq(Inner), NEW t, Follows(g, k, t), t # Sym(<<".">>),
         NEW x \in Seq(Chars), Tells(x, g, k)
  PROVE  Part(g, t) \in Seq(Chars) /\ Tells(x \o Part(g, t), Append(g, t), Within(k, t))
<1> DEFINE spaced == g # <<>> /\ ~Opens(Last(g)) /\ ~Closes(t)
           z == IF spaced THEN <<" ">> ELSE <<>>
           y == Body(t)
           n == Len(x)
<1>1. y \in Seq(Chars) /\ ReadsOn(y, g, k, t)
    BY BodyReads
<1>2. z \in Seq(Chars) /\ Part(g, t) = z \o y /\ (spaced => z = <<" ">>) /\ (~spaced => z = <<>>)
  <2>2. <<" ">> \in Seq(Chars) /\ <<>> \in Seq(Chars)
      BY SomeSpace
  <2>3. z \in Seq(Chars)
      BY <2>2
  <2>4. Part(g, t) = z \o y
      BY DEF Part
  <2> QED
      BY <2>3, <2>4
<1>3. n \in Nat /\ Len(z) \in Nat /\ Len(y) \in Nat
    BY <1>1, <1>2, LenProperties
<1> HIDE DEF y, z, n
<1>4. z \o y \in Seq(Chars)
    BY <1>1, <1>2, ConcatProperties
<1> DEFINE v == z \o y
<1> HIDE DEF v
<1>5. v \in Seq(Chars)
    BY <1>4 DEF v
<1>6. ASSUME NEW b \in Seq(Chars), Stands(b, 0, x \o v)
      PROVE  Has(Ref(b, Len(x \o v)), Append(g, t), Within(k, t))
  <2>1. Stands(b, 0, x) /\ Stands(b, n, v) /\ n + Len(v) = Len(x \o v)
    <3>1. Stands(b, 0, x) /\ Stands(b, 0 + n, v) /\ (0 + n) + Len(v) = 0 + Len(x \o v)
      <4>1. 0 \in Nat
          OBVIOUS
      <4> QED
          BY <1>5, <1>6, <4>1, StandsBoth DEF n
    <3>2. 0 + n = n
        BY <1>3
    <3>3. Len(x \o v) \in Nat
        BY <1>5, LenProperties, ConcatProperties
    <3>4. 0 + Len(x \o v) = Len(x \o v)
        BY <3>3
    <3> QED
        BY <3>1, <3>2, <3>4
  <2>2. Has(Ref(b, n), g, k)
      BY <2>1 DEF Tells, n
  <2>3. /\ Stands(b, n, z) /\ Stands(b, n + Len(z), y) /\ n + Len(z) \in Nat
        /\ (n + Len(z)) + Len(y) = n + Len(v)
    <3>1. /\ n \in Nat /\ z \in Seq(Chars) /\ y \in Seq(Chars) /\ Stands(b, n, z \o y)
          /\ n + Len(v) = n + Len(z \o y)
        BY <1>1, <1>2, <1>3, <2>1 DEF v
    <3>2. /\ Stands(b, n, z) /\ Stands(b, n + Len(z), y)
          /\ n + Len(z) \in Nat /\ (n + Len(z)) + Len(y) = n + Len(z \o y)
        BY <3>1, StandsBoth
    <3> QED
        BY <3>1, <3>2
  <2>4. Comes(Ref(b, n + Len(z)), g, k, t)
    <3>1. CASE spaced
      <4>1. z = <<" ">> /\ Len(z) = 1
          BY <1>2, <3>1
      <4>2. Stands(b, n, <<" ">>)
          BY <2>3, <4>1
      <4>3. " " \in {" ", "nl"}
          OBVIOUS
      <4>4. Idle(Ref(b, n + 1), g, k)
          BY <1>3, <2>2, <4>2, <4>3, HasSpace
      <4> QED
          BY <3>1, <4>1, <4>4 DEF Comes
    <3>2. CASE ~spaced
      <4>1. Len(z) = 0
        <5>1. z = <<>>
            BY <1>2, <3>2
        <5> QED
            BY <5>1
      <4>2. n + Len(z) = n
          BY <1>3, <4>1
      <4>3. CASE Closes(t)
          BY <2>2, <4>2, <4>3 DEF Comes
      <4>4. CASE g = <<>> \/ Opens(Last(g))
        <5> DEFINE s == Ref(b, n)
        <5>1. Has(s, g, k)
            BY <2>2
        <5> HIDE DEF s
        <5>2. Idle(s, g, k)
            BY <4>4, <5>1, HasOpened
        <5>3. Has(s, g, k) /\ Idle(s, g, k)
            BY <5>1, <5>2
        <5> QED
            BY <4>2, <5>3 DEF Comes, s
      <4> QED
          BY <3>2, <4>3, <4>4
    <3> QED
        BY <3>1, <3>2
  <2> DEFINE p == n + Len(z)
  <2>5. p \in Nat /\ Stands(b, p, y) /\ Comes(Ref(b, p), g, k, t) /\ p + Len(y) = Len(x \o v)
      BY <2>1, <2>3, <2>4
  <2> HIDE DEF p
  <2>6. Has(Ref(b, p + Len(y)), Append(g, t), Within(k, t))
      BY <1>1, <2>5 DEF ReadsOn
  <2> QED
      BY <2>5, <2>6
<1>7. Part(g, t) = v
    BY <1>2 DEF v
<1> QED
    BY <1>5, <1>6, <1>7 DEF Tells

\* All of the tokens.
LEMMA TextTells ==
  ASSUME NEW g \in Seq(Toks), NEW k, Balanced(g, k), \A i \in 1..Len(g) : g[i] # Sym(<<".">>)
  PROVE  Text(g) \in Seq(Chars) /\ Tells(Text(g), g, k) /\ k \in Seq(Inner)
<1> DEFINE n == Len(g)
           v(i) == SubSeq(g, 1, i)
           f == [i \in 1..n |-> Part(v(i - 1), g[i])]
<1>1. n \in Nat /\ DOMAIN g = 1..n /\ \A i \in 1..n : g[i] \in Toks /\ g[i] # Sym(<<".">>)
    BY LenProperties, ElementOfSeq
<1>2. PICK r : Trace(g, k, r)
    BY DEF Balanced
<1>3. /\ r \in [0..n -> Seq(Inner)] /\ r[0] = <<>> /\ r[n] = k
      /\ \A i \in 1..n : Follows(v(i - 1), r[i - 1], g[i]) /\ r[i] = Within(r[i - 1], g[i])
    BY <1>2 DEF Trace
<1>4. \A i \in 0..n : v(i) \in Seq(Toks) /\ Len(v(i)) = i /\ \A j \in 1..i : v(i)[j] = g[j]
    BY PrefixFacts
<1>5. ASSUME NEW i \in 1..n PROVE v(i) = Append(v(i - 1), g[i])
  <2> DEFINE a == v(i - 1)
             d == Append(a, g[i])
  <2>1. i - 1 \in 0..n /\ i \in 0..n /\ g[i] \in Toks
      BY <1>1
  <2>2. a \in Seq(Toks) /\ Len(a) = i - 1 /\ \A j \in 1..(i - 1) : a[j] = g[j]
    <3> DEFINE j == i - 1
    <3> HIDE DEF j, v
    <3>1. v(j) \in Seq(Toks) /\ Len(v(j)) = j /\ \A l \in 1..j : v(j)[l] = g[l]
        BY <1>4, <2>1 DEF j
    <3> QED
        BY <3>1 DEF j
  <2> HIDE DEF a
  <2>3. d \in Seq(Toks) /\ Len(d) = i /\ (\A j \in 1..(i - 1) : d[j] = a[j]) /\ d[i] = g[i]
    <3>1. d \in Seq(Toks) /\ Len(d) = Len(a) + 1 /\ (\A j \in 1..Len(a) : d[j] = a[j]) /\ d[Len(a) + 1] = g[i]
        BY <2>1, <2>2, AppendFacts
    <3>2. Len(a) + 1 = i
        BY <2>1, <2>2
    <3> QED
        BY <2>2, <3>1, <3>2
  <2>4. \A j \in 1..i : v(i)[j] = d[j]
    <3> TAKE j \in 1..i
    <3>1. j = i \/ j \in 1..(i - 1)
        BY <2>1
    <3> QED
        BY <1>4, <2>1, <2>2, <2>3, <3>1
  <2>5. v(i) \in Seq(Toks) /\ Len(v(i)) = i
      BY <1>4, <2>1
  <2> HIDE DEF d, v
  <2>6. v(i) = d
      BY <2>3, <2>4, <2>5, SeqEqual
  <2> QED
      BY <2>6 DEF a, d
<1>6. v(0) = <<>> /\ v(n) = g
  <2>1. Len(v(0)) = 0 /\ v(0) \in Seq(Toks) /\ v(n) \in Seq(Toks) /\ Len(v(n)) = n /\ \A j \in 1..n : v(n)[j] = g[j]
      BY <1>1, <1>4
  <2> HIDE DEF v
  <2> QED
      BY <2>1, EmptySeq, SeqEqual
<1>7. Text(g) = FlattenSeq(f) /\ \A i \in 1..n : f[i] = Part(v(i - 1), g[i])
  <2> DEFINE w(i) == (IF i > 1 /\ ~Opens(g[i - 1]) /\ ~Closes(g[i]) THEN <<" ">> ELSE <<>>)
                       \o (IF IsSym(g[i]) THEN EscSPrt(Tail(g[i])) ELSE g[i])
  <2>1. Text(g) = FlattenSeq([i \in 1..n |-> w(i)])
      BY <1>1 DEF Text
  <2>2. ASSUME NEW i \in 1..n PROVE w(i) = Part(v(i - 1), g[i])
    <3> DEFINE a == v(i - 1)
    <3>1. i - 1 \in 0..n /\ i \in Nat
        BY <1>1
    <3>2. a \in Seq(Toks) /\ Len(a) = i - 1 /\ \A j \in 1..(i - 1) : a[j] = g[j]
      <4> DEFINE j == i - 1
      <4> HIDE DEF j, v
      <4>1. v(j) \in Seq(Toks) /\ Len(v(j)) = j /\ \A l \in 1..j : v(j)[l] = g[l]
          BY <1>4, <3>1 DEF j
      <4> QED
          BY <4>1 DEF j
    <3> HIDE DEF a
    <3>3. a # <<>> <=> i > 1
        BY <3>1, <3>2, EmptySeq
    <3>4. i > 1 => Last(a) = g[i - 1]
        BY <3>1, <3>2 DEF Last
    <3>5. (a # <<>> /\ ~Opens(Last(a)) /\ ~Closes(g[i])) <=> (i > 1 /\ ~Opens(g[i - 1]) /\ ~Closes(g[i]))
        BY <3>3, <3>4
    <3>6. w(i) = Part(a, g[i])
        BY <3>5 DEF Part, Body
    <3> QED
        BY <3>6 DEF a
  <2> HIDE DEF w
  <2>3. [i \in 1..n |-> w(i)] = f
      BY <2>2
  <2> QED
      BY <2>1, <2>3
<1> HIDE DEF n, f, v
<1>8. n \in Nat
    BY <1>1
<1>9. ASSUME NEW i \in 1..n, NEW x \in Seq(Chars), Tells(x, v(i - 1), r[i - 1])
      PROVE  f[i] \in Seq(Chars) /\ Tells(x \o f[i], v(i), r[i])
  <2>1. i - 1 \in 0..n
      BY <1>8
  <2> DEFINE a == v(i - 1)
             w == r[i - 1]
             t == g[i]
  <2>2. a \in Seq(Toks) /\ w \in Seq(Inner) /\ Follows(a, w, t) /\ t # Sym(<<".">>) /\ Tells(x, a, w)
      BY <1>1, <1>3, <1>4, <1>9, <2>1
  <2>3. f[i] = Part(a, t) /\ v(i) = Append(a, t) /\ r[i] = Within(w, t)
      BY <1>3, <1>5, <1>7
  <2> HIDE DEF a, w, t
  <2>4. Part(a, t) \in Seq(Chars) /\ Tells(x \o Part(a, t), Append(a, t), Within(w, t))
      BY <2>2, TellsMore
  <2> QED
      BY <2>3, <2>4
<1>10. ASSUME NEW i \in 1..n PROVE f[i] \in Seq(Chars)
  <2>1. i - 1 \in 0..n
      BY <1>8
  <2> DEFINE a == v(i - 1)
             w == r[i - 1]
             t == g[i]
             z == IF a # <<>> /\ ~Opens(Last(a)) /\ ~Closes(t) THEN <<" ">> ELSE <<>>
             y == Body(t)
  <2>2. a \in Seq(Toks) /\ w \in Seq(Inner) /\ Follows(a, w, t) /\ t # Sym(<<".">>)
      BY <1>1, <1>3, <1>4, <2>1
  <2>3. f[i] = z \o y
      BY <1>7 DEF Part
  <2> HIDE DEF a, w, t
  <2>4. y \in Seq(Chars)
      BY <2>2, BodyReads
  <2>5. z \in Seq(Chars)
    <3>1. <<" ">> \in Seq(Chars) /\ <<>> \in Seq(Chars)
        BY SomeSpace
    <3> QED
        BY <3>1
  <2> HIDE DEF y, z
  <2> QED
      BY <2>3, <2>4, <2>5, ConcatProperties
<1>11. Parts(n, f)
  <2>1. DOMAIN f = 1..n /\ f = [i \in 1..n |-> f[i]]
      BY DEF f
  <2> QED
      BY <1>10, <2>1 DEF Parts
<1>12. PICK h \in [0..n -> Seq(Chars)] : /\ h[0] = <<>> /\ \A i \in 1..n : h[i] = h[i - 1] \o f[i]
                                         /\ FlattenSeq(f) = h[n]
    BY <1>8, <1>11, FlattenRun
<1>13. \A i \in 0..n : Tells(h[i], v(i), r[i])
  <2> DEFINE Odd == {i \in 0..n : ~Tells(h[i], v(i), r[i])}
  <2>1. SUFFICES ASSUME Odd # {} PROVE FALSE
      OBVIOUS
  <2>2. PICK m \in Odd : \A j \in Odd : m <= j
    <3>1. Odd \subseteq Nat
        BY <1>8
    <3> HIDE DEF Odd
    <3> QED
        BY <2>1, <3>1, LeastOf
  <2>3. m \in 0..n /\ ~Tells(h[m], v(m), r[m])
      OBVIOUS
  <2>4. m # 0
      BY <2>3, <1>3, <1>6, <1>12, TellsNothing
  <2>5. m \in 1..n /\ m - 1 \in 0..n /\ ~(m <= m - 1)
      BY <2>3, <2>4, <1>8
  <2>6. Tells(h[m - 1], v(m - 1), r[m - 1])
      BY <2>2, <2>5
  <2> DEFINE x == h[m - 1]
  <2>7. x \in Seq(Chars) /\ Tells(x, v(m - 1), r[m - 1]) /\ h[m] = x \o f[m]
      BY <2>5, <2>6, <1>12
  <2> HIDE DEF x
  <2>8. Tells(x \o f[m], v(m), r[m])
      BY <2>5, <2>7, <1>9
  <2> QED
      BY <2>3, <2>7, <2>8
<1>14. n \in 0..n /\ h[n] \in Seq(Chars) /\ r[n] \in Seq(Inner)
    BY <1>3, <1>8, <1>12
<1> QED
    BY <1>3, <1>6, <1>7, <1>12, <1>13, <1>14

\* ... and a new line.
LEMMA TextSays ==
  ASSUME NEW g \in Seq(Toks), NEW k, Balanced(g, k), \A i \in 1..Len(g) : g[i] # Sym(<<".">>)
  PROVE  Says(Append(Text(g), "nl")).toks = g
<1> DEFINE x == Text(g)
           n == Len(x)
<1>1. x \in Seq(Chars) /\ Tells(x, g, k) /\ k \in Seq(Inner)
    BY TextTells
<1> HIDE DEF x
<1> DEFINE b == Append(x, "nl")
<1>2. "nl" \in Chars /\ IsSpace("nl") /\ <<"nl">> \in Seq(Chars) /\ Len(<<"nl">>) = 1
  <2>1. "nl" \in Chars
      BY DEF Chars
  <2> QED
      BY <2>1 DEF IsSpace
<1>3. /\ b \in Seq(Chars) /\ n \in Nat /\ Len(b) = n + 1
      /\ (\A i \in 1..n : b[i] = x[i]) /\ b[n + 1] = "nl"
    BY <1>1, <1>2, AppendFacts, LenProperties
<1> HIDE DEF b, n
<1>4. Stands(b, 0, x) /\ Stands(b, n, <<"nl">>)
  <2>1. Len(x) = n
      BY DEF n
  <2>2. 0 + Len(x) <= Len(b) /\ \A i \in 1..Len(x) : b[0 + i] = x[i]
      BY <1>3, <2>1
  <2>3. n + 1 <= Len(b) /\ \A i \in 1..1 : b[n + i] = "nl"
      BY <1>3
  <2>4. <<"nl">>[1] = "nl"
      OBVIOUS
  <2>5. Stands(b, 0, x)
      BY <2>2 DEF Stands
  <2>6. Stands(b, n, <<"nl">>)
      BY <1>2, <2>3, <2>4 DEF Stands
  <2> QED
      BY <2>5, <2>6
<1>5. Has(Ref(b, n), g, k)
    BY <1>1, <1>3, <1>4 DEF Tells, n
<1>6. Idle(Ref(b, n + 1), g, k)
    BY <1>1, <1>3, <1>4, <1>5, HasSpace
<1>7. Ref(b, n + 1) = Says(b)
    BY <1>3, RefFacts
<1>8. Says(b).toks = g
    BY <1>6, <1>7 DEF Idle
<1> QED
    BY <1>8 DEF b, x

\* What escsprt() and print1() print of what was read says it again, except for the symbol "."
\* and the end of input: whatever the characters of its symbols are, and however deep it is.
THEOREM ReprintsHolds == Spec => []Reprints
<1>1. ASSUME Inv, TokensFit PROVE Reprints
  <2> SUFFICES ASSUME pc = "done", err = 0,
                      \A i \in DOMAIN got : got[i] \notin {Sym(<<".">>), Sym(<<"eot">>)}
               PROVE  Says(Append(Text(got), "nl")).toks = got
      BY DEF Reprints
  <2>1. got \in Seq(Toks) /\ DOMAIN got = 1..Len(got)
    <3>1. got \in Seq(Toks)
        BY <1>1 DEF Inv, Typing, Sorts
    <3> QED
        BY <3>1, LenProperties
  <2>2. ~EotState
    <3>1. ~EotRead
        BY DEF EotRead
    <3>2. got # <<Sym(<<"eot">>)>>
      <4> DEFINE x == Sym(<<"eot">>)
      <4>1. <<x>>[1] = x /\ DOMAIN <<x>> = 1..1
          OBVIOUS
      <4>2. \A i \in DOMAIN got : got[i] # x
          OBVIOUS
      <4> HIDE DEF x
      <4>3. got # <<x>>
          BY <4>1, <4>2
      <4> QED
          BY <4>3 DEF x
    <3> QED
        BY <3>1, <3>2 DEF EotState
  <2>3. Balanced(got, Lists(stk))
      BY <1>1, <2>2 DEF TokensFit, WellFormed
  <2> QED
      BY <2>1, <2>3, TextSays
<1> QED
    BY <1>1, Invariance, TokensFitHolds, PTL

=============================================================================
