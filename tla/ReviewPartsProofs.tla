------------------------- MODULE ReviewPartsProofs -------------------------
(***************************************************************************)
(* What is read of a pull request, cut into parts, reviewed and merged, is *)
(* all of it: for any pages, pushes, missing patches and sizes.            *)
(*                                                                         *)
(* Two arguments meet.  The cuts keep the tokens and their order, one      *)
(* level of the text at a time (Slices, HunkPieces, FilePieces, Packed).   *)
(* And what was read is one head, as long as that head is the tip, since a *)
(* head never comes back (PartsRead).                                      *)
(***************************************************************************)
EXTENDS TurnsProofs

(* What is cut and put together again is the same text: a property of      *)
(* every sequence follows from the empty one and from one member more.     *)
LEMMA SeqGrows ==
  ASSUME NEW S, NEW T, <<>> \in T, \A s \in Seq(S) : \A x \in S : s \in T => Append(s, x) \in T
  PROVE  \A s \in Seq(S) : s \in T
<1> DEFINE K == {n \in Nat : \E s \in Seq(S) : Len(s) = n /\ s \notin T}
<1>1. ASSUME K # {} PROVE FALSE
  <2>1. PICK n \in K : \A m \in K : n <= m
    BY <1>1, LeastNat
  <2>2. PICK s \in Seq(S) : Len(s) = n /\ s \notin T
    BY <2>1
  <2>3. s # <<>>
    BY <2>2
  <2>4. PICK q \in Seq(S), x \in S : s = Append(q, x)
    BY <2>3, SequenceEmptyOrAppend
  <2>5. Len(s) = Len(q) + 1 /\ Len(q) \in Nat
    BY <2>4
  <2>6. ~(n <= Len(q)) /\ n \in Nat
    BY <2>1, <2>2, <2>5
  <2>7. q \in T
    BY <2>1, <2>5, <2>6
  <2> QED
    BY <2>2, <2>4, <2>7
<1>2. \A s \in Seq(S) : Len(s) \in Nat
  OBVIOUS
<1> QED
  BY <1>1, <1>2

LEMMA FlatNone == FlattenSeq(<<>>) = <<>>
BY DEF FlattenSeq

LEMMA FlatTyped == ASSUME NEW S, NEW seqs \in Seq(Seq(S)) PROVE FlattenSeq(seqs) \in Seq(S)
BY FlatPlaces

LEMMA FlatAppend ==
  ASSUME NEW S, NEW seqs \in Seq(Seq(S)), NEW x \in Seq(S)
  PROVE  FlattenSeq(Append(seqs, x)) = FlattenSeq(seqs) \o x
<1> DEFINE more == Append(seqs, x)
           n == Len(seqs)
<1>1. /\ more \in Seq(Seq(S)) /\ Len(more) = n + 1 /\ Len(more) # 0 /\ n \in Nat
      /\ more[n + 1] = x /\ \A i \in 1..n : more[i] = seqs[i]
  BY AppendProperties
<1> HIDE DEF more
<1>2. PICK f :
        /\ FlattenSeq(more) = f[n + 1]
        /\ f[1] = more[1]
        /\ \A i \in 2..n + 1 : f[i] = f[i - 1] \o more[i]
  <2>1. \E f \in [1..Len(more) -> Seq(S)] :
           /\ FlattenSeq(more) = f[Len(more)]
           /\ f[1] = more[1]
           /\ \A i \in 2..Len(more) : f[i] = f[i - 1] \o more[i]
    <3>1. more \in Seq(Seq(S)) /\ Len(more) # 0
      BY <1>1
    <3> HIDE DEF n
    <3> QED
      BY <3>1, FlattenIs
  <2> QED
    BY <1>1, <2>1
<1>3. CASE n = 0
  <2>1. seqs = <<>> /\ FlattenSeq(seqs) = <<>>
    BY <1>3, FlatNone
  <2>2. FlattenSeq(more) = x
    BY <1>1, <1>2, <1>3
  <2>3. <<>> \o x = x
    BY ConcatEmptySeq
  <2> QED
    BY <2>1, <2>2, <2>3 DEF more
<1>4. CASE n # 0
  <2>1. PICK g \in [1..n -> Seq(S)] :
          /\ FlattenSeq(seqs) = g[n]
          /\ g[1] = seqs[1]
          /\ \A i \in 2..n : g[i] = g[i - 1] \o seqs[i]
    BY <1>4, FlattenIs
  <2> DEFINE K == {i \in Nat : i \in 1..n /\ f[i] # g[i]}
  <2>2. ASSUME K # {} PROVE FALSE
    <3>1. PICK i \in K : \A m \in K : i <= m
      BY <2>2, LeastNat
    <3>2. i \in Nat /\ i \in 1..n /\ f[i] # g[i]
      BY <3>1
    <3>3. 1 \in 1..n
      BY <1>1, <1>4
    <3>4. i # 1
      BY <1>1, <1>2, <2>1, <3>2, <3>3
    <3>5. i \in 2..n /\ i \in 2..n + 1 /\ i - 1 \in 1..n /\ i - 1 \in Nat /\ ~(i <= i - 1)
      BY <1>1, <3>2, <3>4
    <3>6. f[i - 1] = g[i - 1]
      BY <3>1, <3>5
    <3>7. f[i] = f[i - 1] \o more[i] /\ g[i] = g[i - 1] \o seqs[i]
      BY <1>2, <2>1, <3>5
    <3>8. more[i] = seqs[i]
      BY <1>1, <3>2
    <3> QED
      BY <3>2, <3>6, <3>7, <3>8
  <2>3. n \in 1..n /\ n \in Nat /\ n + 1 \in 2..n + 1 /\ (n + 1) - 1 = n
    BY <1>1, <1>4
  <2>4. f[n] = g[n]
    BY <2>2, <2>3
  <2>5. f[n + 1] = f[(n + 1) - 1] \o more[n + 1]
    BY <1>2, <2>3
  <2> QED
    BY <1>1, <1>2, <2>1, <2>3, <2>4, <2>5 DEF more
<1> QED
  BY <1>3, <1>4

LEMMA AppendJoined ==
  ASSUME NEW S, NEW s \in Seq(S), NEW t \in Seq(S), NEW x \in S
  PROVE  s \o Append(t, x) = Append(s \o t, x)
<1>1. Append(t, x) = t \o <<x>> /\ <<x>> \in Seq(S) /\ s \o t \in Seq(S)
  BY AppendIsConcat, ConcatProperties
<1>2. (s \o t) \o <<x>> = s \o (t \o <<x>>)
  BY <1>1, ConcatAssociative
<1>3. Append(s \o t, x) = (s \o t) \o <<x>>
  BY <1>1, AppendIsConcat
<1> QED
  BY <1>1, <1>2, <1>3

LEMMA FlatConcat ==
  ASSUME NEW S, NEW a \in Seq(Seq(S))
  PROVE  \A b \in Seq(Seq(S)) : FlattenSeq(a \o b) = FlattenSeq(a) \o FlattenSeq(b)
<1> DEFINE T == {b \in Seq(Seq(S)) : FlattenSeq(a \o b) = FlattenSeq(a) \o FlattenSeq(b)}
<1>1. <<>> \in T
  <2>1. <<>> \in Seq(Seq(S)) /\ a \o <<>> = a /\ FlattenSeq(a) \in Seq(S)
    BY ConcatEmptySeq, FlatTyped
  <2>2. FlattenSeq(a) \o <<>> = FlattenSeq(a)
    BY <2>1, ConcatEmptySeq
  <2> QED
    BY <2>1, <2>2, FlatNone
<1>2. ASSUME NEW b \in Seq(Seq(S)), NEW x \in Seq(S), b \in T PROVE Append(b, x) \in T
  <2>1. a \o Append(b, x) = Append(a \o b, x) /\ Append(b, x) \in Seq(Seq(S)) /\ a \o b \in Seq(Seq(S))
    BY AppendJoined, ConcatProperties, AppendProperties
  <2>2. FlattenSeq(Append(a \o b, x)) = FlattenSeq(a \o b) \o x
    BY <2>1, FlatAppend
  <2>3. FlattenSeq(Append(b, x)) = FlattenSeq(b) \o x
    BY FlatAppend
  <2>4. FlattenSeq(a) \in Seq(S) /\ FlattenSeq(b) \in Seq(S)
    BY FlatTyped
  <2>5. (FlattenSeq(a) \o FlattenSeq(b)) \o x = FlattenSeq(a) \o (FlattenSeq(b) \o x)
    BY <2>4, ConcatAssociative
  <2>6. FlattenSeq(a \o b) = FlattenSeq(a) \o FlattenSeq(b)
    BY <1>2
  <2> QED
    BY <2>1, <2>2, <2>3, <2>5, <2>6
<1> HIDE DEF T
<1>3. \A b \in Seq(Seq(S)) : b \in T
  BY <1>1, <1>2, SeqGrows
<1> QED
  BY <1>3 DEF T

LEMMA FlatOne == ASSUME NEW S, NEW x \in Seq(S) PROVE FlattenSeq(<<x>>) = x
<1>1. <<>> \in Seq(Seq(S)) /\ Append(<<>>, x) = <<x>>
  OBVIOUS
<1>2. FlattenSeq(Append(<<>>, x)) = FlattenSeq(<<>>) \o x
  BY <1>1, FlatAppend
<1> QED
  BY <1>1, <1>2, FlatNone, ConcatEmptySeq

LEMMA SumNone == TokenSum(<<>>) = 0
<1>1. <<>> \in Seq(Int) /\ Len(<<>>) = 0
  OBVIOUS
<1>2. PICK u : SumsOf(u, <<>>) /\ TokenSum(<<>>) = u[Len(<<>>)]
  BY <1>1, TokenSumIs
<1> QED
  BY <1>1, <1>2 DEF SumsOf

LEMMA SumAppend ==
  ASSUME NEW s \in Seq(Int), NEW x \in Int
  PROVE  TokenSum(Append(s, x)) = TokenSum(s) + x
<1> DEFINE one == <<x>>
           more == Append(s, x)
<1>1. one \in Seq(Int) /\ Len(one) = 1 /\ \A i \in 1..1 : one[i] = x
  OBVIOUS
<1>2. /\ more \in Seq(Int) /\ Len(more) = Len(s) + 1
      /\ \A k \in 1..Len(s) : more[k] = s[k]
      /\ \A k \in 1..1 : more[Len(s) + k] = x
  BY AppendProperties
<1> HIDE DEF one, more
<1>3. TokenSum(one) = 1 * x
  BY <1>1, SumOfSame
<1>4. \A k \in 1..Len(one) : more[Len(s) + k] = one[k]
  BY <1>1, <1>2
<1>5. TokenSum(more) = TokenSum(s) + TokenSum(one)
  <2>1. Len(more) = Len(s) + Len(one)
    BY <1>1, <1>2
  <2> QED
    BY <1>1, <1>2, <1>4, <2>1, SumJoined
<1> QED
  BY <1>3, <1>5 DEF more

LEMMA SumIsNat == \A s \in Seq(Nat) : TokenSum(s) \in Nat
<1> DEFINE T == {s \in Seq(Nat) : TokenSum(s) \in Nat}
<1>1. <<>> \in T
  BY SumNone
<1>2. ASSUME NEW s \in Seq(Nat), NEW x \in Nat, s \in T PROVE Append(s, x) \in T
  <2>1. s \in Seq(Int) /\ x \in Int /\ Append(s, x) \in Seq(Nat)
    OBVIOUS
  <2>2. TokenSum(Append(s, x)) = TokenSum(s) + x
    BY <2>1, SumAppend
  <2> QED
    BY <1>2, <2>1, <2>2
<1> HIDE DEF T
<1>3. \A s \in Seq(Nat) : s \in T
  BY <1>1, <1>2, SeqGrows
<1> QED
  BY <1>3 DEF T

(* Lines of a change, the tokens they stand for, and items made of lines. *)
DiffPlace == STRING \X Nat \X Nat \X Nat
DiffLine == [of : DiffPlace, from : Nat, size : Nat]
DiffToken == DiffPlace \X Nat
DiffItem == [lines : Seq(DiffLine), size : Nat]
LineTokens(line) == [k \in 1 .. line.size |-> <<line.of, line.from + k - 1>>]
TokenLines(s) == [i \in DOMAIN s |-> LineTokens(s[i])]
LinesOf(items) == [i \in DOMAIN items |-> items[i].lines]
SizesOf(items) == [i \in DOMAIN items |-> items[i].size]
ItemTokens(items) == Tokens(FlattenSeq(LinesOf(items)))

LEMMA TokensAre == \A s : Tokens(s) = FlattenSeq(TokenLines(s))
BY DEF Tokens, TokenLines, LineTokens

LEMMA JoinedIs == \A items : Joined(items) = [lines |-> FlattenSeq(LinesOf(items)), size |-> TokenSum(SizesOf(items))]
BY DEF Joined, LinesOf, SizesOf, Total, TokenSum

LEMMA LineTokensTyped == ASSUME NEW x \in DiffLine PROVE LineTokens(x) \in Seq(DiffToken) /\ Len(LineTokens(x)) = x.size
<1>1. x.size \in Nat /\ x.from \in Nat /\ x.of \in DiffPlace
  BY DEF DiffLine
<1>2. \A k \in 1..x.size : x.from + k - 1 \in Nat
  BY <1>1
<1>3. \A k \in 1..x.size : <<x.of, x.from + k - 1>> \in DiffToken
  BY <1>1, <1>2 DEF DiffToken
<1>4. LineTokens(x) \in [1..x.size -> DiffToken]
  BY <1>3 DEF LineTokens
<1> QED
  BY <1>1, <1>4, AsSeq

(* One member more, and its image. *)
ExtendsBy(more, m, n, y) ==
  DOMAIN more = 1..n + 1 /\ more[n + 1] = y /\ \A i \in 1..n : more[i] = m[i]

LEMMA MapGrows ==
  ASSUME NEW R, NEW n \in Nat, NEW m \in Seq(R), Len(m) = n, NEW y \in R,
         NEW more, more = [i \in 1..n + 1 |-> more[i]], ExtendsBy(more, m, n, y)
  PROVE  more = Append(m, y)
<1>1. \A i \in 1..n + 1 : i # n + 1 => i \in 1..n
  OBVIOUS
<1>2. n + 1 \in Nat /\ \A i \in 1..n + 1 : more[i] \in R
  <2>1. \A i \in 1..n : m[i] \in R
    OBVIOUS
  <2>2. more[n + 1] \in R /\ \A i \in 1..n : more[i] \in R
    BY <2>1 DEF ExtendsBy
  <2>3. ASSUME NEW i \in 1..n + 1 PROVE more[i] \in R
    BY <1>1, <2>2
  <2> QED
    BY <2>3
<1>3. more \in [1..n + 1 -> R]
  BY <1>2
<1>4. more \in Seq(R) /\ Len(more) = n + 1
  BY <1>2, <1>3, AsSeq
<1> DEFINE b == Append(m, y)
<1>5. b \in Seq(R) /\ Len(b) = n + 1 /\ b[n + 1] = y /\ \A i \in 1..n : b[i] = m[i]
  BY AppendProperties
<1> HIDE DEF b
<1>6. \A i \in 1..Len(more) : more[i] = b[i]
  BY <1>1, <1>4, <1>5 DEF ExtendsBy
<1>7. more = b
  BY <1>4, <1>5, <1>6, SeqEqual
<1> QED
  BY <1>7 DEF b

LEMMA TokenLinesGrow ==
  ASSUME NEW s \in Seq(DiffLine), NEW x \in DiffLine
  PROVE  TokenLines(s) \in Seq(Seq(DiffToken)) /\ TokenLines(Append(s, x)) = Append(TokenLines(s), LineTokens(x))
<1> DEFINE n == Len(s)
           more == TokenLines(Append(s, x))
           m == TokenLines(s)
<1>1. /\ n \in Nat /\ Append(s, x) \in Seq(DiffLine) /\ DOMAIN Append(s, x) = 1..n + 1 /\ DOMAIN s = 1..n
      /\ Append(s, x)[n + 1] = x /\ \A i \in 1..n : Append(s, x)[i] = s[i] /\ s[i] \in DiffLine
  BY AppendProperties
<1>2. m \in [1..n -> Seq(DiffToken)]
  BY <1>1, LineTokensTyped DEF TokenLines
<1>3. m \in Seq(Seq(DiffToken)) /\ Len(m) = n
  BY <1>1, <1>2, AsSeq
<1>4. more = [i \in 1..n + 1 |-> more[i]]
  BY <1>1 DEF TokenLines
<1>5. ExtendsBy(more, m, n, LineTokens(x))
  BY <1>1 DEF TokenLines, ExtendsBy
<1>6. LineTokens(x) \in Seq(DiffToken)
  BY LineTokensTyped
<1> HIDE DEF more, m, n
<1>7. more = Append(m, LineTokens(x))
  BY <1>1, <1>3, <1>4, <1>5, <1>6, MapGrows
<1> QED
  BY <1>3, <1>7 DEF more, m

LEMMA LinesOfGrow ==
  ASSUME NEW s \in Seq(DiffItem), NEW x \in DiffItem
  PROVE  LinesOf(s) \in Seq(Seq(DiffLine)) /\ LinesOf(Append(s, x)) = Append(LinesOf(s), x.lines)
<1> DEFINE n == Len(s)
           more == LinesOf(Append(s, x))
           m == LinesOf(s)
<1>0. \A y \in DiffItem : y.lines \in Seq(DiffLine)
  BY DEF DiffItem
<1>1. /\ n \in Nat /\ Append(s, x) \in Seq(DiffItem) /\ DOMAIN Append(s, x) = 1..n + 1 /\ DOMAIN s = 1..n
      /\ Append(s, x)[n + 1] = x /\ \A i \in 1..n : Append(s, x)[i] = s[i] /\ s[i] \in DiffItem
  BY AppendProperties
<1>2. m \in [1..n -> Seq(DiffLine)]
  BY <1>0, <1>1 DEF LinesOf
<1>3. m \in Seq(Seq(DiffLine)) /\ Len(m) = n
  BY <1>1, <1>2, AsSeq
<1>4. more = [i \in 1..n + 1 |-> more[i]]
  BY <1>1 DEF LinesOf
<1>5. ExtendsBy(more, m, n, x.lines)
  BY <1>1 DEF LinesOf, ExtendsBy
<1>6. x.lines \in Seq(DiffLine)
  BY <1>0
<1> HIDE DEF more, m, n
<1>7. more = Append(m, x.lines)
  <2> DEFINE y == x.lines
  <2>1. n \in Nat /\ y \in Seq(DiffLine) /\ ExtendsBy(more, m, n, y)
    BY <1>1, <1>5, <1>6
  <2> HIDE DEF y
  <2>2. more = Append(m, y)
    BY <1>3, <1>4, <2>1, MapGrows
  <2> QED
    BY <2>2 DEF y
<1> QED
  BY <1>3, <1>7 DEF more, m

LEMMA SizesOfGrow ==
  ASSUME NEW s \in Seq(DiffItem), NEW x \in DiffItem
  PROVE  /\ SizesOf(s) \in Seq(Nat) /\ Len(SizesOf(s)) = Len(s)
         /\ SizesOf(Append(s, x)) = Append(SizesOf(s), x.size)
<1> DEFINE n == Len(s)
           more == SizesOf(Append(s, x))
           m == SizesOf(s)
<1>0. \A y \in DiffItem : y.size \in Nat
  BY DEF DiffItem
<1>1. /\ n \in Nat /\ Append(s, x) \in Seq(DiffItem) /\ DOMAIN Append(s, x) = 1..n + 1 /\ DOMAIN s = 1..n
      /\ Append(s, x)[n + 1] = x /\ \A i \in 1..n : Append(s, x)[i] = s[i] /\ s[i] \in DiffItem
  BY AppendProperties
<1>2. m \in [1..n -> Nat]
  BY <1>0, <1>1 DEF SizesOf
<1>3. m \in Seq(Nat) /\ Len(m) = n
  BY <1>1, <1>2, AsSeq
<1>4. more = [i \in 1..n + 1 |-> more[i]]
  BY <1>1 DEF SizesOf
<1>5. ExtendsBy(more, m, n, x.size)
  BY <1>1 DEF SizesOf, ExtendsBy
<1>6. x.size \in Nat
  BY <1>0
<1> HIDE DEF more, m
<1>7. more = Append(m, x.size)
  <2> DEFINE y == x.size
  <2>1. n \in Nat /\ y \in Nat /\ ExtendsBy(more, m, n, y)
    BY <1>1, <1>5, <1>6
  <2> HIDE DEF n, y
  <2>2. more = Append(m, y)
    BY <1>3, <1>4, <2>1, MapGrows
  <2> QED
    BY <2>2 DEF y
<1> QED
  BY <1>3, <1>7 DEF more, m

LEMMA TokensNone == Tokens(<<>>) = <<>>
<1>1. TokenLines(<<>>) = <<>>
  BY DEF TokenLines
<1> QED
  BY <1>1, TokensAre, FlatNone

LEMMA TokensTyped == ASSUME NEW s \in Seq(DiffLine) PROVE Tokens(s) \in Seq(DiffToken)
<1>1. CASE s = <<>>
  <2>1. Tokens(s) = <<>>
    BY <1>1, TokensNone, Zenon
  <2> QED
    BY <2>1
<1>2. CASE s # <<>>
  <2>1. s[1] \in DiffLine
    BY <1>2
  <2>2. TokenLines(s) \in Seq(Seq(DiffToken))
    BY <2>1, TokenLinesGrow
  <2>3. FlattenSeq(TokenLines(s)) \in Seq(DiffToken)
    BY <2>2, FlatTyped
  <2> QED
    BY <2>3, TokensAre
<1> QED
  BY <1>1, <1>2

LEMMA TokensAppend ==
  ASSUME NEW s \in Seq(DiffLine), NEW x \in DiffLine
  PROVE  Tokens(Append(s, x)) = Tokens(s) \o LineTokens(x)
<1>1. TokenLines(s) \in Seq(Seq(DiffToken)) /\ TokenLines(Append(s, x)) = Append(TokenLines(s), LineTokens(x))
  BY TokenLinesGrow
<1>2. LineTokens(x) \in Seq(DiffToken)
  BY LineTokensTyped
<1>3. FlattenSeq(Append(TokenLines(s), LineTokens(x))) = FlattenSeq(TokenLines(s)) \o LineTokens(x)
  BY <1>1, <1>2, FlatAppend
<1>4. Tokens(Append(s, x)) = FlattenSeq(TokenLines(Append(s, x))) /\ Tokens(s) = FlattenSeq(TokenLines(s))
  BY TokensAre
<1> QED
  BY <1>1, <1>3, <1>4

LEMMA TokensConcat ==
  ASSUME NEW a \in Seq(DiffLine)
  PROVE  \A b \in Seq(DiffLine) : Tokens(a \o b) = Tokens(a) \o Tokens(b)
<1> DEFINE T == {b \in Seq(DiffLine) : Tokens(a \o b) = Tokens(a) \o Tokens(b)}
<1>1. <<>> \in T
  <2>1. <<>> \in Seq(DiffLine) /\ a \o <<>> = a /\ Tokens(a) \in Seq(DiffToken)
    BY ConcatEmptySeq, TokensTyped
  <2>2. Tokens(a) \o <<>> = Tokens(a)
    BY <2>1, ConcatEmptySeq
  <2> QED
    BY <2>1, <2>2, TokensNone
<1>2. ASSUME NEW b \in Seq(DiffLine), NEW x \in DiffLine, b \in T PROVE Append(b, x) \in T
  <2>1. a \o Append(b, x) = Append(a \o b, x) /\ Append(b, x) \in Seq(DiffLine) /\ a \o b \in Seq(DiffLine)
    BY AppendJoined, ConcatProperties, AppendProperties
  <2>2. Tokens(Append(a \o b, x)) = Tokens(a \o b) \o LineTokens(x)
    BY <2>1, TokensAppend
  <2>3. Tokens(Append(b, x)) = Tokens(b) \o LineTokens(x)
    BY TokensAppend
  <2>4. Tokens(a) \in Seq(DiffToken) /\ Tokens(b) \in Seq(DiffToken) /\ LineTokens(x) \in Seq(DiffToken)
    BY TokensTyped, LineTokensTyped
  <2>5. (Tokens(a) \o Tokens(b)) \o LineTokens(x) = Tokens(a) \o (Tokens(b) \o LineTokens(x))
    BY <2>4, ConcatAssociative
  <2>6. Tokens(a \o b) = Tokens(a) \o Tokens(b)
    BY <1>2
  <2> QED
    BY <2>1, <2>2, <2>3, <2>5, <2>6
<1> HIDE DEF T
<1>3. \A b \in Seq(DiffLine) : b \in T
  BY <1>1, <1>2, SeqGrows
<1> QED
  BY <1>3 DEF T

LEMMA SomeDiffItem == \E x : x \in DiffItem
<1>1. [lines |-> <<>>, size |-> 0] \in DiffItem
  BY DEF DiffItem
<1> QED
  BY <1>1

LEMMA JoinedTyped == ASSUME NEW s \in Seq(DiffItem) PROVE Joined(s) \in DiffItem /\ FlattenSeq(LinesOf(s)) \in Seq(DiffLine)
<1>1. PICK x : x \in DiffItem
  BY SomeDiffItem
<1>2. LinesOf(s) \in Seq(Seq(DiffLine)) /\ SizesOf(s) \in Seq(Nat)
  BY <1>1, LinesOfGrow, SizesOfGrow
<1>3. FlattenSeq(LinesOf(s)) \in Seq(DiffLine) /\ TokenSum(SizesOf(s)) \in Nat
  BY <1>2, FlatTyped, SumIsNat
<1> QED
  BY <1>3, JoinedIs DEF DiffItem

LEMMA ItemTokensNone == ItemTokens(<<>>) = <<>>
<1>1. LinesOf(<<>>) = <<>>
  BY DEF LinesOf
<1> QED
  BY <1>1, FlatNone, TokensNone DEF ItemTokens

LEMMA ItemTokensTyped == ASSUME NEW s \in Seq(DiffItem) PROVE ItemTokens(s) \in Seq(DiffToken)
BY JoinedTyped, TokensTyped DEF ItemTokens

LEMMA ItemTokensAppend ==
  ASSUME NEW s \in Seq(DiffItem), NEW x \in DiffItem
  PROVE  ItemTokens(Append(s, x)) = ItemTokens(s) \o Tokens(x.lines)
<1>1. LinesOf(s) \in Seq(Seq(DiffLine)) /\ LinesOf(Append(s, x)) = Append(LinesOf(s), x.lines) /\ x.lines \in Seq(DiffLine)
  BY LinesOfGrow DEF DiffItem
<1>2. FlattenSeq(Append(LinesOf(s), x.lines)) = FlattenSeq(LinesOf(s)) \o x.lines /\ FlattenSeq(LinesOf(s)) \in Seq(DiffLine)
  BY <1>1, FlatAppend, FlatTyped
<1>3. Tokens(FlattenSeq(LinesOf(s)) \o x.lines) = Tokens(FlattenSeq(LinesOf(s))) \o Tokens(x.lines)
  BY <1>1, <1>2, TokensConcat
<1> QED
  BY <1>1, <1>2, <1>3 DEF ItemTokens

LEMMA ItemTokensOne == ASSUME NEW x \in DiffItem PROVE ItemTokens(<<x>>) = Tokens(x.lines)
<1>1. <<>> \in Seq(DiffItem) /\ Append(<<>>, x) = <<x>> /\ x.lines \in Seq(DiffLine)
  BY DEF DiffItem
<1>2. ItemTokens(Append(<<>>, x)) = ItemTokens(<<>>) \o Tokens(x.lines)
  BY <1>1, ItemTokensAppend
<1>3. Tokens(x.lines) \in Seq(DiffToken)
  BY <1>1, TokensTyped
<1> QED
  BY <1>1, <1>2, <1>3, ItemTokensNone, ConcatEmptySeq

LEMMA ItemTokensConcat ==
  ASSUME NEW a \in Seq(DiffItem)
  PROVE  \A b \in Seq(DiffItem) : ItemTokens(a \o b) = ItemTokens(a) \o ItemTokens(b)
<1> DEFINE T == {b \in Seq(DiffItem) : ItemTokens(a \o b) = ItemTokens(a) \o ItemTokens(b)}
<1>1. <<>> \in T
  <2>1. <<>> \in Seq(DiffItem) /\ a \o <<>> = a /\ ItemTokens(a) \in Seq(DiffToken)
    BY ConcatEmptySeq, ItemTokensTyped
  <2>2. ItemTokens(a) \o <<>> = ItemTokens(a)
    BY <2>1, ConcatEmptySeq
  <2> QED
    BY <2>1, <2>2, ItemTokensNone
<1>2. ASSUME NEW b \in Seq(DiffItem), NEW x \in DiffItem, b \in T PROVE Append(b, x) \in T
  <2>1. a \o Append(b, x) = Append(a \o b, x) /\ Append(b, x) \in Seq(DiffItem) /\ a \o b \in Seq(DiffItem)
    BY AppendJoined, ConcatProperties, AppendProperties
  <2>2. ItemTokens(Append(a \o b, x)) = ItemTokens(a \o b) \o Tokens(x.lines)
    BY <2>1, ItemTokensAppend
  <2>3. ItemTokens(Append(b, x)) = ItemTokens(b) \o Tokens(x.lines)
    BY ItemTokensAppend
  <2>4. ItemTokens(a) \in Seq(DiffToken) /\ ItemTokens(b) \in Seq(DiffToken) /\ Tokens(x.lines) \in Seq(DiffToken)
    BY ItemTokensTyped, TokensTyped DEF DiffItem
  <2>5. (ItemTokens(a) \o ItemTokens(b)) \o Tokens(x.lines) = ItemTokens(a) \o (ItemTokens(b) \o Tokens(x.lines))
    BY <2>4, ConcatAssociative
  <2>6. ItemTokens(a \o b) = ItemTokens(a) \o ItemTokens(b)
    BY <1>2
  <2> QED
    BY <2>1, <2>2, <2>3, <2>5, <2>6
<1> HIDE DEF T
<1>3. \A b \in Seq(DiffItem) : b \in T
  BY <1>1, <1>2, SeqGrows
<1> QED
  BY <1>3 DEF T

(* Any fold, for a step that is a function. *)
FoldsWith(g, op, base, s, n) ==
  g = [t \in SUBSET (1..n) |-> IF t = {} THEN base ELSE op[g[t \ {Max(t)}], s[Max(t)]]]

LEMMA FoldWithExists ==
  ASSUME NEW D, NEW E, NEW op \in [D \X E -> D], NEW base \in D, NEW s \in Seq(E), NEW n \in Nat, n <= Len(s)
  PROVE  \E g \in [SUBSET (1..n) -> D] : FoldsWith(g, op, base, s, n)
<1> DEFINE T == {k \in Nat : k <= n /\ ~ \E g \in [SUBSET (1..k) -> D] : FoldsWith(g, op, base, s, k)}
<1>0. T = {} => \E g \in [SUBSET (1..n) -> D] : FoldsWith(g, op, base, s, n)
  <2>1. n \in Nat /\ n <= n
    OBVIOUS
  <2> QED
    BY <2>1
<1> SUFFICES ASSUME T # {} PROVE FALSE
  BY <1>0
<1>1. PICK k \in T : \A m \in T : k <= m
  BY LeastNat
<1>2. k \in Nat /\ k <= n /\ ~ \E g \in [SUBSET (1..k) -> D] : FoldsWith(g, op, base, s, k)
  BY <1>1
<1>3. CASE k = 0
  <2> DEFINE g == [t \in SUBSET (1..0) |-> base]
  <2>1. \A t \in SUBSET (1..0) : t = {}
    OBVIOUS
  <2>2. g = [t \in SUBSET (1..0) |-> IF t = {} THEN base ELSE op[g[t \ {Max(t)}], s[Max(t)]]]
    BY <2>1
  <2>3. g \in [SUBSET (1..0) -> D]
    OBVIOUS
  <2> QED
    BY <1>2, <1>3, <2>2, <2>3 DEF FoldsWith
<1>4. CASE k # 0
  <2>1. k - 1 \in Nat /\ k - 1 <= n /\ ~(k <= k - 1) /\ k \in 1..Len(s) /\ s[k] \in E
    BY <1>2, <1>4
  <2>2. PICK g \in [SUBSET (1..k - 1) -> D] : FoldsWith(g, op, base, s, k - 1)
    <3>1. k - 1 \notin T
      BY <1>1, <2>1
    <3> QED
      BY <2>1, <3>1
  <2> HIDE DEF T
  <2> DEFINE f == [t \in SUBSET (1..k) |-> IF k \in t THEN op[g[t \ {k}], s[k]] ELSE g[t]]
  <2>3. ASSUME NEW t \in SUBSET (1..k)
        PROVE  t \ {k} \in SUBSET (1..k - 1) /\ (k \notin t => t \in SUBSET (1..k - 1)) /\ t \ {Max(t)} \in SUBSET (1..k)
    <3>1. \A x \in 1..k : x # k => x \in 1..k - 1
      BY <1>2
    <3>2. t \ {k} \in SUBSET (1..k - 1)
      BY <3>1
    <3>3. k \notin t => t = t \ {k}
      OBVIOUS
    <3> QED
      BY <3>2, <3>3
  <2>4. f \in [SUBSET (1..k) -> D]
    BY <2>1, <2>3
  <2>5. ASSUME NEW t \in SUBSET (1..k)
        PROVE  f[t] = IF t = {} THEN base ELSE op[f[t \ {Max(t)}], s[Max(t)]]
    <3>0. \A x \in SUBSET (1..k - 1) : g[x] = IF x = {} THEN base ELSE op[g[x \ {Max(x)}], s[Max(x)]]
      <4> DEFINE h == [x \in SUBSET (1..k - 1) |-> IF x = {} THEN base ELSE op[g[x \ {Max(x)}], s[Max(x)]]]
      <4>1. g = h
        BY <2>2 DEF FoldsWith
      <4>2. \A x \in SUBSET (1..k - 1) : h[x] = IF x = {} THEN base ELSE op[g[x \ {Max(x)}], s[Max(x)]]
        OBVIOUS
      <4> HIDE DEF h
      <4> QED
        BY <4>1, <4>2
    <3>1. CASE k \in t
      <4>1. Max(t) \in t /\ \A y \in t : y <= Max(t)
        BY <1>2, <3>1, MaxUpTo
      <4>2. Max(t) = k
        <5> DEFINE m == Max(t)
        <5>1. m \in 1..k /\ k <= m /\ k \in Nat
          BY <1>2, <3>1, <4>1
        <5> HIDE DEF m
        <5>2. m = k
          BY <5>1
        <5> QED
          BY <5>2 DEF m
      <4>3. f[t] = op[g[t \ {k}], s[k]] /\ f[t \ {k}] = g[t \ {k}]
        BY <2>3, <3>1, <4>2
      <4> QED
        BY <3>1, <4>2, <4>3
    <3>2. CASE k \notin t
      <4>1. t \in SUBSET (1..k - 1) /\ t \ {Max(t)} \in SUBSET (1..k) /\ k \notin t \ {Max(t)}
        BY <2>3, <3>2
      <4>2. f[t] = g[t] /\ f[t \ {Max(t)}] = g[t \ {Max(t)}]
        BY <3>2, <4>1
      <4> QED
        BY <3>0, <4>1, <4>2
    <3> QED
      BY <3>1, <3>2
  <2> HIDE DEF f
  <2>6. f = [t \in SUBSET (1..k) |-> IF t = {} THEN base ELSE op[f[t \ {Max(t)}], s[Max(t)]]]
    <3> DEFINE h == [t \in SUBSET (1..k) |-> IF t = {} THEN base ELSE op[f[t \ {Max(t)}], s[Max(t)]]]
    <3>1. \A t \in SUBSET (1..k) : f[t] = h[t]
      BY <2>5
    <3>2. f = [t \in SUBSET (1..k) |-> f[t]] /\ h = [t \in SUBSET (1..k) |-> h[t]]
      BY <2>4
    <3> HIDE DEF h
    <3>3. f = h
      BY <3>1, <3>2, Zenon
    <3> QED
      BY <3>3 DEF h
  <2> QED
    BY <1>2, <2>4, <2>6 DEF FoldsWith
<1> QED
  BY <1>3, <1>4

Packing == [groups : Seq(DiffItem), group : Seq(DiffItem), used : Nat]

LEMMA ClosedTyped == ASSUME NEW acc \in Packing PROVE PartsClosed(acc) \in Seq(DiffItem)
<1>1. acc.groups \in Seq(DiffItem) /\ acc.group \in Seq(DiffItem)
  BY DEF Packing
<1>2. Joined(acc.group) \in DiffItem
  BY <1>1, JoinedTyped
<1>3. Append(acc.groups, Joined(acc.group)) \in Seq(DiffItem)
  BY <1>1, <1>2
<1> QED
  BY <1>1, <1>3 DEF PartsClosed

LEMMA PacksTyped ==
  ASSUME NEW acc \in Packing, NEW x \in DiffItem, NEW room PROVE Packs(acc, x, room) \in Packing
<1>1. /\ acc.groups \in Seq(DiffItem) /\ acc.group \in Seq(DiffItem) /\ acc.used \in Nat /\ x.size \in Nat
      /\ acc.used + x.size + 1 \in Nat /\ x.size + 1 \in Nat
  BY DEF Packing, DiffItem
<1>2. PartsClosed(acc) \in Seq(DiffItem) /\ <<x>> \in Seq(DiffItem) /\ Append(acc.group, x) \in Seq(DiffItem)
  BY <1>1, ClosedTyped
<1>3. [groups |-> PartsClosed(acc), group |-> <<x>>, used |-> x.size + 1] \in Packing
  BY <1>1, <1>2 DEF Packing
<1>4. [acc EXCEPT !.group = Append(@, x), !.used = @ + x.size + 1] \in Packing
  BY <1>1, <1>2 DEF Packing
<1> QED
  BY <1>3, <1>4 DEF Packs

LEMMA EmptyTyped == Empty \in Packing
BY DEF Empty, Packing

(* The states of a packing, one after each item. *)
PackStates(u, items, room) ==
  /\ u \in [0..Len(items) -> Packing] /\ u[0] = Empty
  /\ \A i \in 1..Len(items) : u[i] = Packs(u[i - 1], items[i], room)

LEMMA PackedStates ==
  ASSUME NEW items \in Seq(DiffItem), NEW room
  PROVE  \E u : PackStates(u, items, room) /\ Packed(items, room) = PartsClosed(u[Len(items)])
<1> DEFINE n == Len(items)
           op == [p \in Packing \X DiffItem |-> Packs(p[1], p[2], room)]
           P(f) == f = [t \in SUBSET (DOMAIN items) |-> IF t = {} THEN Empty ELSE Packs(f[t \ {Max(t)}], items[Max(t)], room)]
           g == CHOOSE f : P(f)
           u == [i \in 0..n |-> g[1..i]]
<1>1. Packed(items, room) = PartsClosed(g[DOMAIN items])
  BY DEF Packed, FoldLeft, MapThenFoldSet
<1>2. n \in Nat /\ n <= Len(items) /\ DOMAIN items = 1..n
  OBVIOUS
<1>3. op \in [Packing \X DiffItem -> Packing] /\ \A a \in Packing : \A x \in DiffItem : op[a, x] = Packs(a, x, room)
  BY PacksTyped
<1> HIDE DEF op
<1>4. PICK e \in [SUBSET (1..n) -> Packing] : FoldsWith(e, op, Empty, items, n)
  BY <1>2, <1>3, EmptyTyped, FoldWithExists
<1>5. P(g)
  <2>1. ASSUME NEW t \in SUBSET (1..n), t # {}
        PROVE  op[e[t \ {Max(t)}], items[Max(t)]] = Packs(e[t \ {Max(t)}], items[Max(t)], room)
    <3>1. Max(t) \in 1..n /\ t \ {Max(t)} \in SUBSET (1..n)
      BY <1>2, <2>1, MaxUpTo
    <3>2. e[t \ {Max(t)}] \in Packing /\ items[Max(t)] \in DiffItem
      BY <3>1
    <3> QED
      BY <1>3, <3>2
  <2>2. e = [t \in SUBSET (1..n) |-> IF t = {} THEN Empty ELSE op[e[t \ {Max(t)}], items[Max(t)]]]
    BY <1>4 DEF FoldsWith
  <2>3. e = [t \in SUBSET (1..n) |-> IF t = {} THEN Empty ELSE Packs(e[t \ {Max(t)}], items[Max(t)], room)]
    BY <2>1, <2>2
  <2>4. P(e)
    BY <1>2, <2>3
  <2> HIDE DEF P
  <2> QED
    BY <2>4
<1> HIDE DEF g
<1>6. \A t \in SUBSET (1..n) : g[t] = IF t = {} THEN Empty ELSE Packs(g[t \ {Max(t)}], items[Max(t)], room)
  <2> DEFINE h == [t \in SUBSET (DOMAIN items) |-> IF t = {} THEN Empty ELSE Packs(g[t \ {Max(t)}], items[Max(t)], room)]
  <2>1. g = h
    BY <1>5
  <2>2. \A t \in SUBSET (DOMAIN items) : h[t] = IF t = {} THEN Empty ELSE Packs(g[t \ {Max(t)}], items[Max(t)], room)
    OBVIOUS
  <2> HIDE DEF h
  <2> QED
    BY <1>2, <2>1, <2>2
<1> HIDE DEF P
<1>7. u[0] = Empty /\ u[n] = g[1..n]
  <2>1. {} \in SUBSET (1..n) /\ 1..0 = {} /\ 0 \in 0..n /\ n \in 0..n
    BY <1>2
  <2> QED
    BY <1>6, <2>1
<1>8. ASSUME NEW i \in 1..n PROVE u[i] = Packs(u[i - 1], items[i], room) /\ items[i] \in DiffItem
  <2>1. i \in Nat /\ 1..i \in SUBSET (1..n) /\ i \in 1..i /\ i \in 0..n /\ i - 1 \in 0..n
    BY <1>2
  <2>2. Max(1..i) \in 1..i /\ i <= Max(1..i)
    BY <2>1, MaxUpTo
  <2>3. Max(1..i) = i /\ (1..i) \ {i} = 1..i - 1
    BY <2>1, <2>2
  <2>4. g[1..i] = Packs(g[1..i - 1], items[i], room)
    BY <1>6, <2>1, <2>3
  <2> QED
    BY <2>1, <2>4
<1>9. u \in [0..n -> Packing]
  <2> DEFINE T == {k \in Nat : k \in 0..n /\ u[k] \notin Packing}
  <2>0. DOMAIN u = 0..n /\ u = [k \in 0..n |-> u[k]]
    OBVIOUS
  <2> HIDE DEF u
  <2>1. ASSUME T # {} PROVE FALSE
    <3>1. PICK k \in T : \A m \in T : k <= m
      BY <2>1, LeastNat
    <3>2. k \in Nat /\ k \in 0..n /\ u[k] \notin Packing
      BY <3>1
    <3>3. k # 0
      BY <1>7, <3>2, EmptyTyped
    <3>4. k \in 1..n /\ k - 1 \in 0..n /\ k - 1 \in Nat /\ ~(k <= k - 1)
      BY <1>2, <3>2, <3>3
    <3>5. u[k - 1] \in Packing
      BY <3>1, <3>4
    <3>6. u[k] = Packs(u[k - 1], items[k], room) /\ items[k] \in DiffItem
      BY <1>8, <3>4
    <3>7. u[k] \in Packing
      BY <3>5, <3>6, PacksTyped
    <3> QED
      BY <3>2, <3>7
  <2>2. \A k \in 0..n : u[k] \in Packing
    BY <1>2, <2>1
  <2> QED
    BY <2>0, <2>2
<1> HIDE DEF u
<1> QED
  BY <1>1, <1>2, <1>7, <1>8, <1>9 DEF PackStates

LEMMA ClosedTokens ==
  ASSUME NEW acc \in Packing
  PROVE  ItemTokens(PartsClosed(acc)) = ItemTokens(acc.groups) \o ItemTokens(acc.group)
<1> DEFINE gs == acc.groups
           g == acc.group
<1>1. gs \in Seq(DiffItem) /\ g \in Seq(DiffItem)
  BY DEF Packing
<1>2. PartsClosed(acc) = IF g = <<>> THEN gs ELSE Append(gs, Joined(g))
  BY DEF PartsClosed
<1> HIDE DEF gs, g
<1>3. ItemTokens(gs) \in Seq(DiffToken)
  BY <1>1, ItemTokensTyped
<1>4. CASE g = <<>>
  <2>1. ItemTokens(g) = <<>>
    BY <1>4, ItemTokensNone, Zenon
  <2>2. ItemTokens(gs) \o <<>> = ItemTokens(gs)
    BY <1>3, ConcatEmptySeq
  <2> QED
    BY <1>2, <1>4, <2>1, <2>2 DEF gs, g
<1>5. CASE g # <<>>
  <2>1. Joined(g) \in DiffItem /\ Joined(g).lines = FlattenSeq(LinesOf(g))
    BY <1>1, JoinedTyped, JoinedIs
  <2>2. ItemTokens(Append(gs, Joined(g))) = ItemTokens(gs) \o Tokens(Joined(g).lines)
    BY <1>1, <2>1, ItemTokensAppend
  <2>3. Tokens(Joined(g).lines) = ItemTokens(g)
    BY <2>1 DEF ItemTokens
  <2> QED
    BY <1>2, <1>5, <2>2, <2>3 DEF gs, g
<1> QED
  BY <1>4, <1>5

LEMMA PacksTokens ==
  ASSUME NEW acc \in Packing, NEW x \in DiffItem, NEW room
  PROVE  ItemTokens(PartsClosed(Packs(acc, x, room))) = ItemTokens(PartsClosed(acc)) \o Tokens(x.lines)
<1> DEFINE new == Packs(acc, x, room)
<1>1. new \in Packing
  BY PacksTyped
<1>2. ItemTokens(PartsClosed(new)) = ItemTokens(new.groups) \o ItemTokens(new.group)
  BY <1>1, ClosedTokens
<1>3. acc.groups \in Seq(DiffItem) /\ acc.group \in Seq(DiffItem) /\ x.lines \in Seq(DiffLine)
  BY DEF Packing, DiffItem
<1>4. CASE new = [groups |-> PartsClosed(acc), group |-> <<x>>, used |-> x.size + 1]
  <2>1. new.groups = PartsClosed(acc) /\ new.group = <<x>>
    BY <1>4
  <2> HIDE DEF new
  <2>2. ItemTokens(new.group) = Tokens(x.lines)
    BY <2>1, ItemTokensOne
  <2> QED
    BY <1>2, <2>1, <2>2 DEF new
<1>5. CASE new = [acc EXCEPT !.group = Append(@, x), !.used = @ + x.size + 1]
  <2>1. new.groups = acc.groups /\ new.group = Append(acc.group, x)
    BY <1>5 DEF Packing
  <2> HIDE DEF new
  <2>2. ItemTokens(new.group) = ItemTokens(acc.group) \o Tokens(x.lines)
    BY <1>3, <2>1, ItemTokensAppend
  <2>3. ItemTokens(PartsClosed(acc)) = ItemTokens(acc.groups) \o ItemTokens(acc.group)
    BY ClosedTokens
  <2>4. ItemTokens(acc.groups) \in Seq(DiffToken) /\ ItemTokens(acc.group) \in Seq(DiffToken) /\ Tokens(x.lines) \in Seq(DiffToken)
    BY <1>3, ItemTokensTyped, TokensTyped
  <2>5. (ItemTokens(acc.groups) \o ItemTokens(acc.group)) \o Tokens(x.lines) = ItemTokens(acc.groups) \o (ItemTokens(acc.group) \o Tokens(x.lines))
    BY <2>4, ConcatAssociative
  <2> QED
    BY <1>2, <2>1, <2>2, <2>3, <2>5 DEF new
<1> QED
  BY <1>4, <1>5 DEF Packs

LEMMA PrefixGrows ==
  ASSUME NEW S, NEW s \in Seq(S)
  PROVE  /\ SubSeq(s, 1, 0) = <<>> /\ SubSeq(s, 1, Len(s)) = s
         /\ \A i \in 1..Len(s) : /\ SubSeq(s, 1, i - 1) \in Seq(S)
                                 /\ SubSeq(s, 1, i) = Append(SubSeq(s, 1, i - 1), s[i])
<1>1. SubSeq(s, 1, 0) = <<>> /\ SubSeq(s, 1, Len(s)) = s
  BY SubSeqEmpty, SubSeqFull
<1>2. ASSUME NEW i \in 1..Len(s)
      PROVE  SubSeq(s, 1, i - 1) \in Seq(S) /\ SubSeq(s, 1, i) = Append(SubSeq(s, 1, i - 1), s[i])
  <2>1. 1 \in 1..Len(s) /\ i \in 1..Len(s) /\ s[i] \in S /\ i - 1 \in Int /\ 1 \in Int
    OBVIOUS
  <2>2. SubSeq(s, 1, i - 1) \in Seq(S)
    <3>1. \A j \in 1..i - 1 : s[j] \in S
      BY <2>1
    <3> QED
      BY <2>1, <3>1, SubSeqProperties
  <2>3. SubSeq(s, 1, i) = SubSeq(s, 1, i - 1) \o <<s[i]>>
    BY <2>1, SubSeqRecursiveSecond
  <2>4. Append(SubSeq(s, 1, i - 1), s[i]) = SubSeq(s, 1, i - 1) \o <<s[i]>>
    BY <2>1, <2>2, AppendIsConcat
  <2> QED
    BY <2>2, <2>3, <2>4
<1> QED
  BY <1>1, <1>2

(* What was put into parts is in the parts, in order. *)
LEMMA PackedTokens ==
  ASSUME NEW items \in Seq(DiffItem), NEW room
  PROVE  Packed(items, room) \in Seq(DiffItem) /\ ItemTokens(Packed(items, room)) = ItemTokens(items)
<1> DEFINE n == Len(items)
           sofar(i) == SubSeq(items, 1, i)
<1>1. PICK u : PackStates(u, items, room) /\ Packed(items, room) = PartsClosed(u[n])
  BY PackedStates
<1>2. n \in Nat /\ n \in 0..n /\ u \in [0..n -> Packing] /\ u[0] = Empty
  BY <1>1 DEF PackStates
<1>3. /\ sofar(0) = <<>> /\ sofar(n) = items
      /\ \A i \in 1..n : sofar(i - 1) \in Seq(DiffItem) /\ sofar(i) = Append(sofar(i - 1), items[i])
  BY PrefixGrows
<1> HIDE DEF sofar
<1> DEFINE T == {i \in Nat : i \in 0..n /\ ItemTokens(PartsClosed(u[i])) # ItemTokens(sofar(i))}
<1>4. ASSUME T # {} PROVE FALSE
  <2>1. PICK i \in T : \A m \in T : i <= m
    BY <1>4, LeastNat
  <2>2. i \in Nat /\ i \in 0..n /\ ItemTokens(PartsClosed(u[i])) # ItemTokens(sofar(i))
    BY <2>1
  <2>3. CASE i = 0
    <3>1. PartsClosed(Empty) = <<>>
      BY DEF PartsClosed, Empty
    <3> QED
      BY <1>2, <1>3, <2>2, <2>3, <3>1, Zenon
  <2>4. CASE i # 0
    <3>1. i \in 1..n /\ i - 1 \in 0..n /\ i - 1 \in Nat /\ ~(i <= i - 1) /\ items[i] \in DiffItem /\ u[i - 1] \in Packing
      BY <1>2, <2>2, <2>4
    <3>2. ItemTokens(PartsClosed(u[i - 1])) = ItemTokens(sofar(i - 1))
      BY <2>1, <3>1
    <3>3. u[i] = Packs(u[i - 1], items[i], room)
      BY <1>1, <3>1 DEF PackStates
    <3>4. ItemTokens(PartsClosed(Packs(u[i - 1], items[i], room))) = ItemTokens(PartsClosed(u[i - 1])) \o Tokens(items[i].lines)
      BY <3>1, PacksTokens
    <3>5. ItemTokens(Append(sofar(i - 1), items[i])) = ItemTokens(sofar(i - 1)) \o Tokens(items[i].lines)
      BY <1>3, <3>1, ItemTokensAppend
    <3>6. sofar(i) = Append(sofar(i - 1), items[i])
      BY <1>3, <3>1
    <3> QED
      BY <2>2, <3>2, <3>3, <3>4, <3>5, <3>6
  <2> QED
    BY <2>3, <2>4
<1>5. ItemTokens(PartsClosed(u[n])) = ItemTokens(sofar(n))
  BY <1>2, <1>4
<1>6. PartsClosed(u[n]) \in Seq(DiffItem)
  BY <1>2, ClosedTyped
<1> QED
  BY <1>1, <1>3, <1>5, <1>6

(* No part outgrows the room, when no item does. *)
Fitting(items, room) == \A k \in 1..Len(items) : items[k].size <= room
PackFits(acc, room) ==
  /\ Fitting(acc.groups, room)
  /\ acc.used = TokenSum(SizesOf(acc.group)) + Len(acc.group)
  /\ TokenSum(SizesOf(acc.group)) <= room

LEMMA FittingGrows ==
  ASSUME NEW s \in Seq(DiffItem), NEW x \in DiffItem, NEW room, Fitting(s, room), x.size <= room
  PROVE  Fitting(Append(s, x), room)
<1> DEFINE b == Append(s, x)
<1>1. /\ Len(b) = Len(s) + 1 /\ b[Len(s) + 1] = x /\ \A i \in 1..Len(s) : b[i] = s[i]
      /\ Len(s) \in Nat
  BY AppendProperties
<1> HIDE DEF b
<1>2. ASSUME NEW k \in 1..Len(b) PROVE b[k].size <= room
  <2>1. k = Len(s) + 1 \/ k \in 1..Len(s)
    BY <1>1
  <2> QED
    BY <1>1, <2>1 DEF Fitting
<1> QED
  BY <1>2 DEF b, Fitting

LEMMA FittingJoined ==
  ASSUME NEW s \in Seq(DiffItem), NEW t \in Seq(DiffItem), NEW room, Fitting(s, room), Fitting(t, room)
  PROVE  Fitting(s \o t, room)
<1> DEFINE b == s \o t
<1>1. /\ Len(b) = Len(s) + Len(t) /\ Len(s) \in Nat /\ Len(t) \in Nat
      /\ \A i \in 1..Len(s) + Len(t) : b[i] = IF i <= Len(s) THEN s[i] ELSE t[i - Len(s)]
  BY ConcatProperties
<1> HIDE DEF b
<1>2. ASSUME NEW k \in 1..Len(b) PROVE b[k].size <= room
  <2>1. (k <= Len(s) /\ k \in 1..Len(s)) \/ (~(k <= Len(s)) /\ k - Len(s) \in 1..Len(t))
    BY <1>1
  <2>2. b[k] = IF k <= Len(s) THEN s[k] ELSE t[k - Len(s)]
    BY <1>1
  <2> QED
    BY <2>1, <2>2 DEF Fitting
<1> QED
  BY <1>2 DEF b, Fitting

LEMMA ClosedFitting ==
  ASSUME NEW acc \in Packing, NEW room, PackFits(acc, room)
  PROVE  Fitting(PartsClosed(acc), room)
<1>1. acc.groups \in Seq(DiffItem) /\ acc.group \in Seq(DiffItem)
  BY DEF Packing
<1>2. Joined(acc.group) \in DiffItem /\ Joined(acc.group).size <= room
  BY <1>1, JoinedTyped, JoinedIs DEF PackFits
<1>3. Fitting(Append(acc.groups, Joined(acc.group)), room)
  BY <1>1, <1>2, FittingGrows DEF PackFits
<1> QED
  BY <1>3 DEF PartsClosed, PackFits

LEMMA SizesOfNone == SizesOf(<<>>) = <<>>
BY DEF SizesOf

LEMMA PacksFit ==
  ASSUME NEW acc \in Packing, NEW x \in DiffItem, NEW room \in Nat, PackFits(acc, room), x.size <= room
  PROVE  PackFits(Packs(acc, x, room), room)
<1> DEFINE new == Packs(acc, x, room)
           g == acc.group
           sum == TokenSum(SizesOf(g))
<1>1. g \in Seq(DiffItem) /\ acc.used \in Nat /\ x.size \in Nat /\ Len(g) \in Nat
  BY DEF Packing, DiffItem
<1>2. SizesOf(g) \in Seq(Nat) /\ SizesOf(Append(g, x)) = Append(SizesOf(g), x.size)
  BY <1>1, SizesOfGrow
<1>3. /\ sum \in Nat /\ acc.used = sum + Len(g) /\ sum <= room
  BY <1>2, SumIsNat DEF PackFits
<1>4. TokenSum(SizesOf(Append(g, x))) = sum + x.size /\ Len(Append(g, x)) = Len(g) + 1
  <2>1. SizesOf(g) \in Seq(Int) /\ x.size \in Int
    BY <1>1, <1>2
  <2>2. TokenSum(Append(SizesOf(g), x.size)) = TokenSum(SizesOf(g)) + x.size
    BY <2>1, SumAppend
  <2> QED
    BY <1>1, <1>2, <2>2
<1>5. CASE g # <<>> /\ acc.used + x.size + 1 > room
  <2>1. new = [groups |-> PartsClosed(acc), group |-> <<x>>, used |-> x.size + 1]
    BY <1>5 DEF Packs
  <2>2. new.groups = PartsClosed(acc) /\ new.group = <<x>> /\ new.used = x.size + 1
    BY <2>1
  <2>3. <<>> \in Seq(DiffItem) /\ Append(<<>>, x) = <<x>> /\ Len(<<x>>) = 1
    OBVIOUS
  <2>4. SizesOf(<<x>>) = Append(SizesOf(<<>>), x.size)
    BY <2>3, SizesOfGrow
  <2>5. <<>> \in Seq(Int) /\ x.size \in Int
    BY <1>1
  <2>6. TokenSum(Append(<<>>, x.size)) = TokenSum(<<>>) + x.size
    BY <2>5, SumAppend
  <2>7. TokenSum(SizesOf(<<x>>)) = x.size
    BY <1>1, <2>4, <2>6, SizesOfNone, SumNone
  <2>8. Fitting(PartsClosed(acc), room)
    BY ClosedFitting
  <2> HIDE DEF new
  <2> QED
    BY <1>1, <2>2, <2>3, <2>7, <2>8 DEF PackFits, new
<1>6. CASE ~(g # <<>> /\ acc.used + x.size + 1 > room)
  <2>1. new = [acc EXCEPT !.group = Append(@, x), !.used = @ + x.size + 1]
    BY <1>6 DEF Packs
  <2>2. new.groups = acc.groups /\ new.group = Append(g, x) /\ new.used = acc.used + x.size + 1
    BY <2>1 DEF Packing
  <2>3. sum + x.size <= room
    <3>1. CASE g = <<>>
      <4>1. sum = 0
        <5>1. SizesOf(g) = <<>>
          BY <3>1, SizesOfNone, Zenon
        <5> QED
          BY <5>1, SumNone
      <4> HIDE DEF sum
      <4> QED
        BY <1>1, <4>1
    <3>2. CASE g # <<>>
      <4> HIDE DEF sum, g
      <4> QED
        BY <1>1, <1>3, <1>6, <3>2
    <3> QED
      BY <3>1, <3>2
  <2>4. Fitting(acc.groups, room)
    BY DEF PackFits
  <2>5. new.used = TokenSum(SizesOf(new.group)) + Len(new.group) /\ TokenSum(SizesOf(new.group)) <= room
    <3> HIDE DEF new, g
    <3>1. TokenSum(SizesOf(new.group)) = sum + x.size /\ Len(new.group) = Len(g) + 1
      BY <1>4, <2>2
    <3>2. new.used = acc.used + x.size + 1
      BY <2>2
    <3> HIDE DEF sum
    <3> QED
      BY <1>1, <1>3, <2>3, <3>1, <3>2
  <2> HIDE DEF new
  <2> QED
    BY <2>2, <2>4, <2>5 DEF PackFits, new
<1> QED
  BY <1>5, <1>6

LEMMA EmptyFits == ASSUME NEW room \in Nat PROVE PackFits(Empty, room)
<1>1. Empty.groups = <<>> /\ Empty.group = <<>> /\ Empty.used = 0 /\ Len(<<>>) = 0
  BY DEF Empty
<1>2. TokenSum(SizesOf(Empty.group)) = 0
  BY <1>1, SizesOfNone, SumNone
<1> QED
  BY <1>1, <1>2 DEF PackFits, Fitting

LEMMA PackedFits ==
  ASSUME NEW items \in Seq(DiffItem), NEW room \in Nat, Fitting(items, room)
  PROVE  Fitting(Packed(items, room), room)
<1> DEFINE n == Len(items)
<1>1. PICK u : PackStates(u, items, room) /\ Packed(items, room) = PartsClosed(u[n])
  BY PackedStates
<1>2. n \in Nat /\ n \in 0..n /\ u \in [0..n -> Packing] /\ u[0] = Empty
  BY <1>1 DEF PackStates
<1> DEFINE T == {i \in Nat : i \in 0..n /\ ~PackFits(u[i], room)}
<1>3. ASSUME T # {} PROVE FALSE
  <2>1. PICK i \in T : \A m \in T : i <= m
    BY <1>3, LeastNat
  <2>2. i \in Nat /\ i \in 0..n /\ ~PackFits(u[i], room)
    BY <2>1
  <2>3. i # 0
    BY <1>2, <2>2, EmptyFits
  <2>4. /\ i \in 1..n /\ i - 1 \in 0..n /\ i - 1 \in Nat /\ ~(i <= i - 1) /\ items[i] \in DiffItem
        /\ u[i - 1] \in Packing /\ items[i].size <= room
    BY <1>2, <2>2, <2>3 DEF Fitting
  <2>5. PackFits(u[i - 1], room)
    BY <2>1, <2>4
  <2>6. u[i] = Packs(u[i - 1], items[i], room)
    BY <1>1, <2>4 DEF PackStates
  <2>7. PackFits(Packs(u[i - 1], items[i], room), room)
    BY <2>4, <2>5, PacksFit
  <2> QED
    BY <2>2, <2>6, <2>7
<1>4. PackFits(u[n], room) /\ u[n] \in Packing
  BY <1>2, <1>3
<1> QED
  BY <1>1, <1>4, ClosedFitting

(* The first m tokens of a line, and the next d of them. *)
CutAt(of, m) == [k \in 1..m |-> <<of, k>>]

LEMMA CutTyped ==
  ASSUME NEW of \in DiffPlace, NEW m \in Nat PROVE CutAt(of, m) \in Seq(DiffToken) /\ Len(CutAt(of, m)) = m
<1>1. CutAt(of, m) \in [1..m -> DiffToken]
  BY DEF CutAt, DiffToken
<1> QED
  BY <1>1, AsSeq

LEMMA CutGoesOn ==
  ASSUME NEW of \in DiffPlace, NEW m \in Nat, NEW x \in DiffLine, x.of = of, x.from = m + 1
  PROVE  CutAt(of, m) \o LineTokens(x) = CutAt(of, m + x.size)
<1> DEFINE a == CutAt(of, m)
           b == LineTokens(x)
           c == CutAt(of, m + x.size)
           d == a \o b
<1>1. x.size \in Nat /\ m + x.size \in Nat
  BY DEF DiffLine
<1>2. a \in Seq(DiffToken) /\ Len(a) = m /\ b \in Seq(DiffToken) /\ Len(b) = x.size /\ c \in Seq(DiffToken) /\ Len(c) = m + x.size
  BY <1>1, CutTyped, LineTokensTyped
<1>3. \A k \in 1..m : a[k] = <<of, k>>
  BY DEF CutAt
<1>4. \A k \in 1..x.size : b[k] = <<of, m + k>>
  <2>1. \A k \in 1..x.size : b[k] = <<of, x.from + k - 1>>
    BY DEF LineTokens
  <2>2. \A k \in 1..x.size : x.from + k - 1 = m + k
    BY <1>1
  <2> QED
    BY <2>1, <2>2
<1>5. \A k \in 1..m + x.size : c[k] = <<of, k>>
  BY DEF CutAt
<1> HIDE DEF a, b, c
<1>6. /\ d \in Seq(DiffToken) /\ Len(d) = m + x.size
      /\ \A k \in 1..m + x.size : d[k] = IF k <= m THEN a[k] ELSE b[k - m]
  <2>1. /\ d \in Seq(DiffToken) /\ Len(d) = Len(a) + Len(b)
        /\ \A k \in 1..Len(a) + Len(b) : d[k] = IF k <= Len(a) THEN a[k] ELSE b[k - Len(a)]
    BY <1>2, ConcatProperties
  <2> HIDE DEF d
  <2> QED
    BY <1>2, <2>1
<1> HIDE DEF d
<1>7. ASSUME NEW k \in 1..m + x.size PROVE d[k] = c[k]
  <2>1. CASE k <= m
    <3>1. k \in 1..m
      BY <1>1, <2>1
    <3> QED
      BY <1>3, <1>5, <1>6, <2>1, <3>1
  <2>2. CASE ~(k <= m)
    <3>1. k - m \in 1..x.size /\ m + (k - m) = k
      BY <1>1, <2>2
    <3>2. b[k - m] = <<of, k>>
      BY <1>4, <3>1
    <3> QED
      BY <1>5, <1>6, <2>2, <3>2
  <2> QED
    BY <2>1, <2>2
<1>8. d = c
  BY <1>2, <1>6, <1>7, SeqEqual
<1> QED
  BY <1>8 DEF a, b, c, d

LEMMA DivUp ==
  ASSUME NEW size \in Nat, NEW b \in Nat \ {0}, NEW n, n = (size + b - 1) \div b
  PROVE  n \in Nat /\ size <= n * b /\ \A i \in 1..n : (i - 1) * b < size /\ i * b = (i - 1) * b + b
<1>1. n \in Int /\ b * n <= size + b - 1 /\ size + b - 1 < b * n + b
  OBVIOUS
<1>2. n \in Nat
  BY <1>1
<1>3. size <= n * b
  BY <1>1
<1>4. ASSUME NEW i \in 1..n PROVE (i - 1) * b < size /\ i * b = (i - 1) * b + b
  <2>1. i \in Nat /\ i <= n /\ n \in Nat /\ b \in Nat
    BY <1>2
  <2>2. i * b = (i - 1) * b + b
    BY <2>1
  <2>3. i * b <= n * b
    BY <2>1
  <2> QED
    BY <1>1, <2>1, <2>2, <2>3
<1> QED
  BY <1>2, <1>3, <1>4

(* A line that is not cut yet. *)
FreshLine == {x \in DiffLine : x.from = 1}

LEMMA FreshIsLine == \A s \in Seq(FreshLine) : s \in Seq(DiffLine)
<1>1. FreshLine \subseteq DiffLine
  BY DEF FreshLine
<1> QED
  BY <1>1, SeqMonotonic

LEMMA LinesSizeIs == \A s : LinesSize(s) = TokenSum([i \in DOMAIN s |-> s[i].size])
BY DEF LinesSize, Total, TokenSum

SliceOf(x, a, z) == [x EXCEPT !.from = a, !.size = z]

LEMMA SliceTyped ==
  ASSUME NEW x \in DiffLine, NEW a \in Nat, NEW z \in Nat
  PROVE  /\ SliceOf(x, a, z) \in DiffLine
         /\ SliceOf(x, a, z).of = x.of /\ SliceOf(x, a, z).from = a /\ SliceOf(x, a, z).size = z
BY DEF DiffLine, SliceOf

LEMMA ItemOne ==
  ASSUME NEW x \in DiffLine
  PROVE  Item(<<x>>) \in DiffItem /\ Item(<<x>>).size = x.size /\ Tokens(Item(<<x>>).lines) = LineTokens(x)
<1>1. x.size \in Nat /\ <<x>> \in Seq(DiffLine)
  BY DEF DiffLine
<1>2. LinesSize(<<x>>) = x.size
  <2>1. [i \in DOMAIN <<x>> |-> <<x>>[i].size] = Append(<<>>, x.size)
    OBVIOUS
  <2>2. TokenSum(Append(<<>>, x.size)) = TokenSum(<<>>) + x.size
    <3>1. <<>> \in Seq(Int) /\ x.size \in Int
      BY <1>1
    <3> QED
      BY <3>1, SumAppend
  <2> QED
    BY <1>1, <2>1, <2>2, SumNone, LinesSizeIs
<1>3. Tokens(<<x>>) = LineTokens(x)
  <2>1. <<>> \in Seq(DiffLine) /\ Append(<<>>, x) = <<x>>
    OBVIOUS
  <2>2. Tokens(Append(<<>>, x)) = Tokens(<<>>) \o LineTokens(x)
    BY <2>1, TokensAppend
  <2>3. LineTokens(x) \in Seq(DiffToken)
    BY LineTokensTyped
  <2> QED
    BY <2>1, <2>2, <2>3, TokensNone, ConcatEmptySeq
<1> DEFINE it == Item(<<x>>)
<1>4. it = [lines |-> <<x>>, size |-> LinesSize(<<x>>)]
  BY DEF Item
<1>5. it.lines = <<x>> /\ it.size = x.size /\ it \in DiffItem
  <2>1. it.lines = <<x>> /\ it.size = LinesSize(<<x>>)
    BY <1>4
  <2>2. [lines |-> <<x>>, size |-> x.size] \in DiffItem
    BY <1>1 DEF DiffItem
  <2> HIDE DEF it
  <2>3. it = [lines |-> <<x>>, size |-> x.size]
    BY <1>2, <1>4
  <2> QED
    BY <1>2, <2>1, <2>2, <2>3
<1> HIDE DEF it
<1> QED
  BY <1>3, <1>5 DEF it

(* A line in slices is the line. *)
LEMMA SlicesAre ==
  ASSUME NEW x \in FreshLine, NEW b \in Nat \ {0}
  PROVE  /\ Slices(x, b) \in Seq(DiffItem) /\ ItemTokens(Slices(x, b)) = LineTokens(x)
         /\ Fitting(Slices(x, b), b)
<1>0. x \in DiffLine /\ x.from = 1 /\ x.size \in Nat /\ x.of \in DiffPlace
  BY DEF FreshLine, DiffLine
<1>1. CASE x.size <= b
  <2>1. Slices(x, b) = <<Item(<<x>>)>>
    BY <1>1 DEF Slices
  <2> DEFINE it == Item(<<x>>)
  <2>2. it \in DiffItem /\ it.size = x.size /\ Tokens(it.lines) = LineTokens(x)
    BY <1>0, ItemOne
  <2> HIDE DEF it
  <2>3. ItemTokens(<<it>>) = LineTokens(x) /\ <<it>> \in Seq(DiffItem)
    BY <2>2, ItemTokensOne
  <2>4. Fitting(<<it>>, b)
    BY <1>1, <2>2 DEF Fitting
  <2> QED
    BY <2>1, <2>3, <2>4 DEF it
<1>2. CASE ~(x.size <= b)
  <2> DEFINE n == (x.size + b - 1) \div b
             Left(k) == x.size - (k - 1) * b
             Slice(k) == [x EXCEPT !.from = (k - 1) * b + 1, !.size = IF Left(k) < b THEN Left(k) ELSE b]
             s == [k \in 1..n |-> Item(<<Slice(k)>>)]
             Upto(k) == IF k * b < x.size THEN k * b ELSE x.size
             sofar(i) == SubSeq(s, 1, i)
  <2>1. Slices(x, b) = s
    BY <1>2 DEF Slices
  <2>2. n \in Nat /\ x.size <= n * b /\ \A i \in 1..n : (i - 1) * b < x.size /\ i * b = (i - 1) * b + b
    BY <1>0, DivUp
  <2> HIDE DEF n
  <2>3. ASSUME NEW k \in 1..n
        PROVE  /\ Slice(k) \in DiffLine /\ Slice(k).of = x.of /\ Slice(k).from = Upto(k - 1) + 1
               /\ Slice(k).size <= b /\ Upto(k - 1) + Slice(k).size = Upto(k)
               /\ Upto(k - 1) \in Nat
    <3> DEFINE m == (k - 1) * b
    <3>1. m \in Nat /\ m < x.size /\ k * b = m + b
      <4>1. k - 1 \in Nat /\ b \in Nat
        BY <2>2
      <4> QED
        BY <2>2, <4>1
    <3>2. Upto(k - 1) = m
      BY <3>1
    <3>3. Upto(k) = IF m + b < x.size THEN m + b ELSE x.size
      BY <3>1
    <3> HIDE DEF Upto
    <3> DEFINE size == IF x.size - m < b THEN x.size - m ELSE b
               y == [x EXCEPT !.from = m + 1, !.size = size]
    <3>4. Slice(k) = y
      OBVIOUS
    <3> HIDE DEF Slice, m
    <3>5. size \in Nat /\ size <= b /\ m + size = (IF m + b < x.size THEN m + b ELSE x.size)
      BY <1>0, <3>1
    <3> HIDE DEF size
    <3>6. y \in DiffLine /\ y.of = x.of /\ y.from = m + 1 /\ y.size = size
      <4>1. m + 1 \in Nat /\ size \in Nat /\ x \in DiffLine
        BY <1>0, <3>1, <3>5
      <4>2. y = SliceOf(x, m + 1, size)
        BY DEF SliceOf
      <4> HIDE DEF y
      <4>3. SliceOf(x, m + 1, size) \in DiffLine
        BY <4>1, SliceTyped
      <4>4. SliceOf(x, m + 1, size).of = x.of
        BY <4>1 DEF SliceOf, DiffLine
      <4>5. SliceOf(x, m + 1, size).from = m + 1 /\ SliceOf(x, m + 1, size).size = size
        BY <4>1 DEF SliceOf, DiffLine
      <4> QED
        BY <4>2, <4>3, <4>4, <4>5
    <3> HIDE DEF y
    <3> QED
      BY <3>1, <3>2, <3>3, <3>4, <3>5, <3>6
  <2>4. ASSUME NEW k \in 1..n
        PROVE  /\ s[k] \in DiffItem /\ s[k].size <= b /\ Tokens(s[k].lines) = LineTokens(Slice(k))
    <3>1. Slice(k) \in DiffLine /\ Slice(k).size <= b
      BY <2>3
    <3>2. s[k] = Item(<<Slice(k)>>)
      OBVIOUS
    <3> HIDE DEF Slice, s
    <3> QED
      BY <3>1, <3>2, ItemOne
  <2>5. DOMAIN s = 1..n /\ s = [k \in 1..n |-> s[k]]
    OBVIOUS
  <2>6. Upto(0) = 0 /\ Upto(n) = x.size
    BY <1>0, <1>2, <2>2
  <2> HIDE DEF s, Slice, Upto
  <2>7. s \in [1..n -> DiffItem]
    BY <2>4, <2>5
  <2>8. s \in Seq(DiffItem) /\ Len(s) = n
    BY <2>2, <2>7, AsSeq
  <2>9. Fitting(s, b)
    BY <2>4, <2>8 DEF Fitting
  <2>10. /\ sofar(0) = <<>> /\ sofar(n) = s
         /\ \A i \in 1..n : sofar(i - 1) \in Seq(DiffItem) /\ sofar(i) = Append(sofar(i - 1), s[i])
    BY <2>8, PrefixGrows
  <2> HIDE DEF sofar
  <2> DEFINE T == {i \in Nat : i \in 0..n /\ ItemTokens(sofar(i)) # CutAt(x.of, Upto(i))}
  <2>11. ASSUME T # {} PROVE FALSE
    <3>1. PICK i \in T : \A m \in T : i <= m
      BY <2>11, LeastNat
    <3>2. i \in Nat /\ i \in 0..n /\ ItemTokens(sofar(i)) # CutAt(x.of, Upto(i))
      BY <3>1
    <3>3. CASE i = 0
      <4>1. CutAt(x.of, 0) = <<>>
        BY DEF CutAt
      <4>2. ItemTokens(sofar(0)) = <<>>
        BY <2>10, ItemTokensNone, Zenon
      <4> QED
        BY <2>6, <3>2, <3>3, <4>1, <4>2, Zenon
    <3>4. CASE i # 0
      <4>1. i \in 1..n /\ i - 1 \in 0..n /\ i - 1 \in Nat /\ ~(i <= i - 1)
        BY <2>2, <3>2, <3>4
      <4>2. ItemTokens(sofar(i - 1)) = CutAt(x.of, Upto(i - 1))
        BY <3>1, <4>1
      <4>3. ItemTokens(Append(sofar(i - 1), s[i])) = ItemTokens(sofar(i - 1)) \o Tokens(s[i].lines)
        BY <2>4, <2>10, <4>1, ItemTokensAppend
      <4>4. CutAt(x.of, Upto(i - 1)) \o LineTokens(Slice(i)) = CutAt(x.of, Upto(i - 1) + Slice(i).size)
        BY <1>0, <2>3, <4>1, CutGoesOn
      <4>5. sofar(i) = Append(sofar(i - 1), s[i]) /\ Tokens(s[i].lines) = LineTokens(Slice(i)) /\ Upto(i - 1) + Slice(i).size = Upto(i)
        BY <2>3, <2>4, <2>10, <4>1
      <4> QED
        BY <3>2, <4>2, <4>3, <4>4, <4>5
    <3> QED
      BY <3>3, <3>4
  <2>12. ItemTokens(s) = CutAt(x.of, x.size)
    <3>1. n \in Nat /\ n \in 0..n
      BY <2>2
    <3> QED
      BY <2>6, <2>10, <2>11, <3>1
  <2>13. LineTokens(x) = CutAt(x.of, x.size)
    BY <1>0 DEF LineTokens, CutAt
  <2> QED
    BY <2>1, <2>8, <2>9, <2>12, <2>13
<1> QED
  BY <1>1, <1>2

SlicesOf(hunk) == [i \in DOMAIN hunk |-> Slices(hunk[i], Budget)]

LEMMA BudgetIs == Budget \in Nat \ {0} /\ (HeaderSize < Available => Budget + HeaderSize <= Available)
BY PartsAssumption DEF Budget

LEMMA SlicesOfGrow ==
  ASSUME NEW s \in Seq(FreshLine), NEW x \in FreshLine
  PROVE  /\ SlicesOf(s) \in Seq(Seq(DiffItem)) /\ Slices(x, Budget) \in Seq(DiffItem)
         /\ SlicesOf(Append(s, x)) = Append(SlicesOf(s), Slices(x, Budget))
<1> DEFINE n == Len(s)
           more == SlicesOf(Append(s, x))
           m == SlicesOf(s)
           y == Slices(x, Budget)
<1>0. \A z \in FreshLine : Slices(z, Budget) \in Seq(DiffItem)
  BY SlicesAre, BudgetIs
<1>1. /\ n \in Nat /\ Append(s, x) \in Seq(FreshLine) /\ DOMAIN Append(s, x) = 1..n + 1 /\ DOMAIN s = 1..n
      /\ Append(s, x)[n + 1] = x /\ \A i \in 1..n : Append(s, x)[i] = s[i] /\ s[i] \in FreshLine
  BY AppendProperties
<1>2. m \in [1..n -> Seq(DiffItem)]
  BY <1>0, <1>1 DEF SlicesOf
<1>3. m \in Seq(Seq(DiffItem)) /\ Len(m) = n
  BY <1>1, <1>2, AsSeq
<1>4. more = [i \in 1..n + 1 |-> more[i]]
  BY <1>1 DEF SlicesOf
<1>5. ExtendsBy(more, m, n, y)
  BY <1>1 DEF SlicesOf, ExtendsBy
<1>6. y \in Seq(DiffItem)
  BY <1>0
<1> HIDE DEF more, m, n, y
<1>7. n \in Nat
  BY <1>1
<1>8. more = Append(m, y)
  BY <1>3, <1>4, <1>5, <1>6, <1>7, MapGrows
<1> QED
  BY <1>3, <1>6, <1>8 DEF more, m, y

LEMMA SlicedHunk ==
  \A s \in Seq(FreshLine) :
    /\ FlattenSeq(SlicesOf(s)) \in Seq(DiffItem)
    /\ ItemTokens(FlattenSeq(SlicesOf(s))) = Tokens(s)
    /\ Fitting(FlattenSeq(SlicesOf(s)), Budget)
<1> DEFINE F(s) == FlattenSeq(SlicesOf(s))
           T == {s \in Seq(FreshLine) : F(s) \in Seq(DiffItem) /\ ItemTokens(F(s)) = Tokens(s) /\ Fitting(F(s), Budget)}
<1>1. <<>> \in T
  <2>1. SlicesOf(<<>>) = <<>>
    BY DEF SlicesOf
  <2>2. F(<<>>) = <<>>
    BY <2>1, FlatNone, Zenon
  <2>3. <<>> \in Seq(DiffItem) /\ Fitting(<<>>, Budget) /\ ItemTokens(<<>>) = Tokens(<<>>)
    BY ItemTokensNone, TokensNone DEF Fitting
  <2> HIDE DEF F
  <2>4. F(<<>>) \in Seq(DiffItem) /\ ItemTokens(F(<<>>)) = Tokens(<<>>) /\ Fitting(F(<<>>), Budget)
    BY <2>2, <2>3, Zenon
  <2> QED
    BY <2>4
<1>2. ASSUME NEW s \in Seq(FreshLine), NEW x \in FreshLine, s \in T PROVE Append(s, x) \in T
  <2> DEFINE y == Slices(x, Budget)
  <2>1. SlicesOf(s) \in Seq(Seq(DiffItem)) /\ y \in Seq(DiffItem) /\ SlicesOf(Append(s, x)) = Append(SlicesOf(s), y)
    BY SlicesOfGrow
  <2>2. ItemTokens(y) = LineTokens(x) /\ Fitting(y, Budget)
    BY SlicesAre, BudgetIs
  <2> HIDE DEF y
  <2>3. FlattenSeq(Append(SlicesOf(s), y)) = FlattenSeq(SlicesOf(s)) \o y
    BY <2>1, FlatAppend
  <2>4. F(Append(s, x)) = F(s) \o y
    BY <2>1, <2>3
  <2>5. F(s) \in Seq(DiffItem) /\ ItemTokens(F(s)) = Tokens(s) /\ Fitting(F(s), Budget)
    BY <1>2
  <2> HIDE DEF F
  <2>6. F(s) \o y \in Seq(DiffItem) /\ ItemTokens(F(s) \o y) = ItemTokens(F(s)) \o ItemTokens(y)
    BY <2>1, <2>5, ConcatProperties, ItemTokensConcat
  <2>7. Fitting(F(s) \o y, Budget)
    BY <2>1, <2>2, <2>5, FittingJoined
  <2>8. Tokens(Append(s, x)) = Tokens(s) \o LineTokens(x)
    <3>1. s \in Seq(DiffLine) /\ x \in DiffLine
      BY FreshIsLine DEF FreshLine
    <3> QED
      BY <3>1, TokensAppend
  <2>9. Append(s, x) \in Seq(FreshLine)
    OBVIOUS
  <2>10. F(Append(s, x)) \in Seq(DiffItem) /\ ItemTokens(F(Append(s, x))) = Tokens(Append(s, x)) /\ Fitting(F(Append(s, x)), Budget)
    BY <2>2, <2>4, <2>5, <2>6, <2>7, <2>8
  <2> QED
    BY <2>9, <2>10
<1> HIDE DEF T
<1>3. \A s \in Seq(FreshLine) : s \in T
  BY <1>1, <1>2, SeqGrows
<1> QED
  BY <1>3 DEF T

LEMMA HunkPiecesAre ==
  ASSUME NEW s \in Seq(FreshLine)
  PROVE  /\ HunkPieces(s) \in Seq(DiffItem) /\ ItemTokens(HunkPieces(s)) = Tokens(s)
         /\ Fitting(HunkPieces(s), Budget)
<1> DEFINE it == FlattenSeq(SlicesOf(s))
<1>1. it \in Seq(DiffItem) /\ ItemTokens(it) = Tokens(s) /\ Fitting(it, Budget)
  BY SlicedHunk
<1>2. HunkPieces(s) = Packed(it, Budget)
  BY DEF HunkPieces, SlicesOf
<1> HIDE DEF it
<1>3. Packed(it, Budget) \in Seq(DiffItem) /\ ItemTokens(Packed(it, Budget)) = ItemTokens(it)
  BY <1>1, PackedTokens
<1>4. Fitting(Packed(it, Budget), Budget)
  BY <1>1, PackedFits, BudgetIs
<1> QED
  BY <1>1, <1>2, <1>3, <1>4

LEMMA ItemIs ==
  ASSUME NEW s \in Seq(DiffLine)
  PROVE  Item(s) \in DiffItem /\ Item(s).lines = s /\ Item(s).size = LinesSize(s) /\ LinesSize(s) \in Nat
<1> DEFINE sizes == [i \in DOMAIN s |-> s[i].size]
<1>0. \A y \in DiffLine : y.size \in Nat
  BY DEF DiffLine
<1>1. DOMAIN s = 1..Len(s) /\ Len(s) \in Nat /\ \A i \in 1..Len(s) : s[i].size \in Nat
  BY <1>0
<1>2. sizes \in [1..Len(s) -> Nat]
  BY <1>1
<1>3. sizes \in Seq(Nat)
  BY <1>1, <1>2, AsSeq
<1>4. LinesSize(s) = TokenSum(sizes)
  BY LinesSizeIs
<1> HIDE DEF sizes
<1>5. LinesSize(s) \in Nat
  BY <1>3, <1>4, SumIsNat
<1>6. Item(s) = [lines |-> s, size |-> LinesSize(s)]
  BY DEF Item
<1> QED
  BY <1>5, <1>6 DEF DiffItem

(* One hunk more (_split_file_text). *)
AddHunk(acc, hunk) ==
  IF LinesSize(hunk) + 1 > Budget
  THEN [Empty EXCEPT !.groups = PartsClosed(acc) \o HunkPieces(hunk)]
  ELSE Packs(acc, Item(hunk), Budget)

LEMMA AddHunkIs ==
  ASSUME NEW acc \in Packing, NEW hunk \in Seq(FreshLine)
  PROVE  /\ AddHunk(acc, hunk) \in Packing
         /\ ItemTokens(PartsClosed(AddHunk(acc, hunk))) = ItemTokens(PartsClosed(acc)) \o Tokens(hunk)
         /\ PackFits(acc, Budget) => PackFits(AddHunk(acc, hunk), Budget)
<1> DEFINE new == AddHunk(acc, hunk)
           old == PartsClosed(acc)
           cut == HunkPieces(hunk)
<1>1. old \in Seq(DiffItem) /\ cut \in Seq(DiffItem) /\ ItemTokens(cut) = Tokens(hunk) /\ Fitting(cut, Budget)
  BY ClosedTyped, HunkPiecesAre
<1>2. hunk \in Seq(DiffLine)
  BY FreshIsLine
<1>3. Item(hunk) \in DiffItem /\ Item(hunk).lines = hunk /\ Item(hunk).size = LinesSize(hunk) /\ LinesSize(hunk) \in Nat
  BY <1>2, ItemIs
<1>4. CASE LinesSize(hunk) + 1 > Budget
  <2> DEFINE both == old \o cut
  <2>1. new = [Empty EXCEPT !.groups = both]
    BY <1>4 DEF AddHunk
  <2>2. both \in Seq(DiffItem) /\ ItemTokens(both) = ItemTokens(old) \o ItemTokens(cut)
    BY <1>1, ConcatProperties, ItemTokensConcat
  <2>3. PackFits(acc, Budget) => Fitting(both, Budget)
    <3>1. PackFits(acc, Budget) => Fitting(old, Budget)
      BY ClosedFitting
    <3> HIDE DEF old, cut
    <3> QED
      BY <1>1, <3>1, FittingJoined
  <2> HIDE DEF both
  <2>4. new = [groups |-> both, group |-> <<>>, used |-> 0]
    BY <2>1 DEF Empty
  <2>5. new.groups = both /\ new.group = <<>> /\ new.used = 0 /\ new \in Packing
    BY <2>2, <2>4 DEF Packing
  <2> HIDE DEF new
  <2>6. PartsClosed(new) = both
    BY <2>5 DEF PartsClosed
  <2>7. TokenSum(SizesOf(new.group)) = 0 /\ Len(new.group) = 0
    BY <2>5, SizesOfNone, SumNone
  <2>8. PackFits(acc, Budget) => PackFits(new, Budget)
    BY <2>3, <2>5, <2>7, BudgetIs DEF PackFits
  <2> QED
    BY <1>1, <2>2, <2>5, <2>6, <2>8 DEF new
<1>5. CASE ~(LinesSize(hunk) + 1 > Budget)
  <2>1. new = Packs(acc, Item(hunk), Budget)
    BY <1>5 DEF AddHunk
  <2> DEFINE it == Item(hunk)
  <2>2. it \in DiffItem /\ it.lines = hunk /\ it.size <= Budget /\ Budget \in Nat
    BY <1>3, <1>5, BudgetIs
  <2> HIDE DEF it
  <2>3. Packs(acc, it, Budget) \in Packing /\ ItemTokens(PartsClosed(Packs(acc, it, Budget))) = ItemTokens(PartsClosed(acc)) \o Tokens(hunk)
    BY <2>2, PacksTyped, PacksTokens
  <2>4. PackFits(acc, Budget) => PackFits(Packs(acc, it, Budget), Budget)
    BY <2>2, PacksFit
  <2> QED
    BY <2>1, <2>3, <2>4 DEF it
<1> QED
  BY <1>4, <1>5

PiecesFrom(items) == PartsClosed(FoldLeft(AddHunk, Empty, items))

HunkStates(u, items) ==
  /\ u \in [0..Len(items) -> Packing] /\ u[0] = Empty
  /\ \A i \in 1..Len(items) : u[i] = AddHunk(u[i - 1], items[i])

LEMMA HunksPacked ==
  ASSUME NEW items \in Seq(Seq(FreshLine))
  PROVE  \E u : HunkStates(u, items) /\ PiecesFrom(items) = PartsClosed(u[Len(items)])
<1> DEFINE n == Len(items)
           op == [p \in Packing \X Seq(FreshLine) |-> AddHunk(p[1], p[2])]
           P(f) == f = [t \in SUBSET (DOMAIN items) |-> IF t = {} THEN Empty ELSE AddHunk(f[t \ {Max(t)}], items[Max(t)])]
           g == CHOOSE f : P(f)
           u == [i \in 0..n |-> g[1..i]]
<1>1. PiecesFrom(items) = PartsClosed(g[DOMAIN items])
  BY DEF PiecesFrom, FoldLeft, MapThenFoldSet
<1>2. n \in Nat /\ n <= Len(items) /\ DOMAIN items = 1..n
  OBVIOUS
<1>3. op \in [Packing \X Seq(FreshLine) -> Packing] /\ \A a \in Packing : \A x \in Seq(FreshLine) : op[a, x] = AddHunk(a, x)
  BY AddHunkIs
<1> HIDE DEF op
<1>4. PICK e \in [SUBSET (1..n) -> Packing] : FoldsWith(e, op, Empty, items, n)
  BY <1>2, <1>3, EmptyTyped, FoldWithExists
<1>5. P(g)
  <2>1. ASSUME NEW t \in SUBSET (1..n), t # {}
        PROVE  op[e[t \ {Max(t)}], items[Max(t)]] = AddHunk(e[t \ {Max(t)}], items[Max(t)])
    <3>1. Max(t) \in 1..n /\ t \ {Max(t)} \in SUBSET (1..n)
      BY <1>2, <2>1, MaxUpTo
    <3>2. e[t \ {Max(t)}] \in Packing /\ items[Max(t)] \in Seq(FreshLine)
      BY <3>1
    <3> QED
      BY <1>3, <3>2
  <2>2. e = [t \in SUBSET (1..n) |-> IF t = {} THEN Empty ELSE op[e[t \ {Max(t)}], items[Max(t)]]]
    BY <1>4 DEF FoldsWith
  <2>3. e = [t \in SUBSET (1..n) |-> IF t = {} THEN Empty ELSE AddHunk(e[t \ {Max(t)}], items[Max(t)])]
    BY <2>1, <2>2
  <2>4. P(e)
    BY <1>2, <2>3
  <2> HIDE DEF P
  <2> QED
    BY <2>4
<1> HIDE DEF g
<1>6. \A t \in SUBSET (1..n) : g[t] = IF t = {} THEN Empty ELSE AddHunk(g[t \ {Max(t)}], items[Max(t)])
  <2> DEFINE h == [t \in SUBSET (DOMAIN items) |-> IF t = {} THEN Empty ELSE AddHunk(g[t \ {Max(t)}], items[Max(t)])]
  <2>1. g = h
    BY <1>5
  <2>2. \A t \in SUBSET (DOMAIN items) : h[t] = IF t = {} THEN Empty ELSE AddHunk(g[t \ {Max(t)}], items[Max(t)])
    OBVIOUS
  <2> HIDE DEF h
  <2> QED
    BY <1>2, <2>1, <2>2
<1> HIDE DEF P
<1>7. u[0] = Empty /\ u[n] = g[1..n]
  <2>1. {} \in SUBSET (1..n) /\ 1..0 = {} /\ 0 \in 0..n /\ n \in 0..n
    BY <1>2
  <2> QED
    BY <1>6, <2>1
<1>8. ASSUME NEW i \in 1..n PROVE u[i] = AddHunk(u[i - 1], items[i]) /\ items[i] \in Seq(FreshLine)
  <2>1. i \in Nat /\ 1..i \in SUBSET (1..n) /\ i \in 1..i /\ i \in 0..n /\ i - 1 \in 0..n
    BY <1>2
  <2>2. Max(1..i) \in 1..i /\ i <= Max(1..i)
    BY <2>1, MaxUpTo
  <2>3. Max(1..i) = i /\ (1..i) \ {i} = 1..i - 1
    BY <2>1, <2>2
  <2>4. g[1..i] = AddHunk(g[1..i - 1], items[i])
    BY <1>6, <2>1, <2>3
  <2> QED
    BY <2>1, <2>4
<1>9. u \in [0..n -> Packing]
  <2> DEFINE T == {k \in Nat : k \in 0..n /\ u[k] \notin Packing}
  <2>0. DOMAIN u = 0..n /\ u = [k \in 0..n |-> u[k]]
    OBVIOUS
  <2> HIDE DEF u
  <2>1. ASSUME T # {} PROVE FALSE
    <3>1. PICK k \in T : \A m \in T : k <= m
      BY <2>1, LeastNat
    <3>2. k \in Nat /\ k \in 0..n /\ u[k] \notin Packing
      BY <3>1
    <3>3. k # 0
      BY <1>7, <3>2, EmptyTyped
    <3>4. k \in 1..n /\ k - 1 \in 0..n /\ k - 1 \in Nat /\ ~(k <= k - 1)
      BY <1>2, <3>2, <3>3
    <3>5. u[k - 1] \in Packing
      BY <3>1, <3>4
    <3>6. u[k] = AddHunk(u[k - 1], items[k]) /\ items[k] \in Seq(FreshLine)
      BY <1>8, <3>4
    <3>7. u[k] \in Packing
      BY <3>5, <3>6, AddHunkIs
    <3> QED
      BY <3>2, <3>7
  <2>2. \A k \in 0..n : u[k] \in Packing
    BY <1>2, <2>1
  <2> QED
    BY <2>0, <2>2
<1> HIDE DEF u
<1> QED
  BY <1>1, <1>2, <1>7, <1>8, <1>9 DEF HunkStates

LEMMA PiecesFromAre ==
  ASSUME NEW items \in Seq(Seq(FreshLine))
  PROVE  /\ PiecesFrom(items) \in Seq(DiffItem) /\ FlattenSeq(items) \in Seq(DiffLine)
         /\ ItemTokens(PiecesFrom(items)) = Tokens(FlattenSeq(items))
         /\ Fitting(PiecesFrom(items), Budget)
<1> DEFINE n == Len(items)
           sofar(i) == SubSeq(items, 1, i)
           text(i) == Tokens(FlattenSeq(sofar(i)))
<1>1. PICK u : HunkStates(u, items) /\ PiecesFrom(items) = PartsClosed(u[n])
  BY HunksPacked
<1>2. n \in Nat /\ n \in 0..n /\ u \in [0..n -> Packing] /\ u[0] = Empty
  BY <1>1 DEF HunkStates
<1>3. /\ sofar(0) = <<>> /\ sofar(n) = items
      /\ \A i \in 1..n : sofar(i - 1) \in Seq(Seq(FreshLine)) /\ sofar(i) = Append(sofar(i - 1), items[i])
  BY PrefixGrows
<1>4. text(0) = <<>>
  BY <1>3, FlatNone, TokensNone, Zenon
<1>5. ASSUME NEW i \in 1..n PROVE text(i) = text(i - 1) \o Tokens(items[i])
  <2>1. items[i] \in Seq(FreshLine) /\ sofar(i - 1) \in Seq(Seq(FreshLine)) /\ sofar(i) = Append(sofar(i - 1), items[i])
    BY <1>3
  <2> HIDE DEF sofar
  <2> DEFINE s == sofar(i - 1)
             x == items[i]
  <2>2. s \in Seq(Seq(FreshLine)) /\ x \in Seq(FreshLine) /\ sofar(i) = Append(s, x)
    BY <2>1
  <2> HIDE DEF s, x
  <2>3. FlattenSeq(Append(s, x)) = FlattenSeq(s) \o x /\ FlattenSeq(s) \in Seq(FreshLine)
    BY <2>2, FlatAppend, FlatTyped
  <2>4. FlattenSeq(s) \in Seq(DiffLine) /\ x \in Seq(DiffLine)
    BY <2>2, <2>3, FreshIsLine
  <2>5. Tokens(FlattenSeq(s) \o x) = Tokens(FlattenSeq(s)) \o Tokens(x)
    BY <2>4, TokensConcat
  <2> QED
    BY <2>2, <2>3, <2>5 DEF s, x
<1> HIDE DEF text
<1> DEFINE T == {i \in Nat : i \in 0..n /\ ~(ItemTokens(PartsClosed(u[i])) = text(i) /\ PackFits(u[i], Budget))}
<1>6. ASSUME T # {} PROVE FALSE
  <2>1. PICK i \in T : \A m \in T : i <= m
    BY <1>6, LeastNat
  <2>2. i \in Nat /\ i \in 0..n /\ ~(ItemTokens(PartsClosed(u[i])) = text(i) /\ PackFits(u[i], Budget))
    BY <2>1
  <2>3. CASE i = 0
    <3>1. PartsClosed(Empty) = <<>>
      BY DEF PartsClosed, Empty
    <3>2. ItemTokens(PartsClosed(u[0])) = <<>>
      BY <1>2, <3>1, ItemTokensNone, Zenon
    <3>3. PackFits(u[0], Budget)
      BY <1>2, BudgetIs, EmptyFits
    <3> QED
      BY <1>4, <2>2, <2>3, <3>2, <3>3
  <2>4. CASE i # 0
    <3>0. i \in 1..n /\ i - 1 \in 0..n /\ i - 1 \in Nat /\ ~(i <= i - 1)
      BY <1>2, <2>2, <2>4
    <3>1. i \in 1..n /\ i - 1 \in 0..n /\ i - 1 \in Nat /\ ~(i <= i - 1) /\ items[i] \in Seq(FreshLine) /\ u[i - 1] \in Packing
      <4>1. items[i] \in Seq(FreshLine)
        BY <3>0
      <4>2. u[i - 1] \in Packing
        BY <1>2, <3>0
      <4> QED
        BY <3>0, <4>1, <4>2
    <3>2. ItemTokens(PartsClosed(u[i - 1])) = text(i - 1) /\ PackFits(u[i - 1], Budget)
      BY <2>1, <3>1
    <3>3. u[i] = AddHunk(u[i - 1], items[i])
      BY <1>1, <3>1 DEF HunkStates
    <3>4. /\ ItemTokens(PartsClosed(AddHunk(u[i - 1], items[i]))) = ItemTokens(PartsClosed(u[i - 1])) \o Tokens(items[i])
          /\ PackFits(AddHunk(u[i - 1], items[i]), Budget)
      BY <3>1, <3>2, AddHunkIs
    <3>5. text(i) = text(i - 1) \o Tokens(items[i])
      BY <1>5, <3>1
    <3> QED
      BY <2>2, <3>2, <3>3, <3>4, <3>5
  <2> QED
    BY <2>3, <2>4
<1>7. ItemTokens(PartsClosed(u[n])) = text(n) /\ PackFits(u[n], Budget) /\ u[n] \in Packing
  BY <1>2, <1>6
<1>8. text(n) = Tokens(FlattenSeq(items))
  BY <1>3 DEF text
<1>9. FlattenSeq(items) \in Seq(DiffLine)
  <2>1. FlattenSeq(items) \in Seq(FreshLine)
    BY FlatTyped
  <2> QED
    BY <2>1, FreshIsLine
<1> HIDE DEF n
<1>10. PartsClosed(u[n]) \in Seq(DiffItem) /\ Fitting(PartsClosed(u[n]), Budget)
  BY <1>7, ClosedTyped, ClosedFitting
<1> QED
  BY <1>1, <1>7, <1>8, <1>9, <1>10

(* Every piece repeats the header. *)
Headed(it) == [it EXCEPT !.size = @ + HeaderSize]
WithHeaders(items) == [k \in DOMAIN items |-> Headed(items[k])]

LEMMA HeadedIs == ASSUME NEW x \in DiffItem PROVE Headed(x) \in DiffItem /\ Headed(x).lines = x.lines /\ Headed(x).size = x.size + HeaderSize
<1>1. HeaderSize \in Nat
  BY PartsAssumption
<1> QED
  BY <1>1 DEF Headed, DiffItem

LEMMA HeadersKeep ==
  ASSUME NEW items \in Seq(DiffItem)
  PROVE  /\ WithHeaders(items) \in Seq(DiffItem) /\ ItemTokens(WithHeaders(items)) = ItemTokens(items)
         /\ HeaderSize < Available /\ Fitting(items, Budget) => Fitting(WithHeaders(items), Available)
<1> DEFINE n == Len(items)
           w == WithHeaders(items)
<1>1. n \in Nat /\ DOMAIN items = 1..n /\ \A k \in 1..n : items[k] \in DiffItem
  OBVIOUS
<1>2. \A k \in 1..n : w[k] = Headed(items[k])
  BY <1>1 DEF WithHeaders
<1>3. w = [k \in 1..n |-> w[k]]
  BY <1>1 DEF WithHeaders
<1> HIDE DEF w
<1>4. \A k \in 1..n : w[k] \in DiffItem /\ w[k].lines = items[k].lines /\ w[k].size = items[k].size + HeaderSize
  BY <1>1, <1>2, HeadedIs
<1>5. w \in [1..n -> DiffItem]
  BY <1>3, <1>4
<1>6. w \in Seq(DiffItem) /\ Len(w) = n /\ DOMAIN w = 1..n
  BY <1>1, <1>5, AsSeq
<1>7. LinesOf(w) = LinesOf(items)
  BY <1>1, <1>4, <1>6 DEF LinesOf
<1>8. ItemTokens(w) = ItemTokens(items)
  BY <1>7 DEF ItemTokens
<1>9. ASSUME HeaderSize < Available, Fitting(items, Budget) PROVE Fitting(w, Available)
  <2>1. Budget + HeaderSize <= Available /\ Budget \in Nat /\ HeaderSize \in Nat /\ Available \in Nat
    BY <1>9, BudgetIs, PartsAssumption
  <2>2. ASSUME NEW k \in 1..Len(w) PROVE w[k].size <= Available
    <3>1. items[k].size <= Budget /\ items[k].size \in Nat /\ w[k].size = items[k].size + HeaderSize
      BY <1>1, <1>4, <1>6, <1>9 DEF Fitting, DiffItem
    <3> QED
      BY <2>1, <3>1
  <2> QED
    BY <2>2 DEF Fitting
<1> QED
  BY <1>6, <1>8, <1>9 DEF w

LEMMA HunksOfAre ==
  ASSUME NEW file \in FileChange, NEW rev \in Nat PROVE HunksOf(file, rev) \in Seq(Seq(FreshLine))
<1> DEFINE hs == file.hunks
           row(h) == [i \in DOMAIN hs[h] |-> [of |-> <<file.path, rev, h, i>>, from |-> 1, size |-> hs[h][i]]]
<1>1. hs \in Seq(Seq(Nat)) /\ file.path \in STRING
  BY DEF FileChange
<1>2. HunksOf(file, rev) = [h \in DOMAIN hs |-> row(h)]
  BY DEF HunksOf
<1>3. ASSUME NEW h \in DOMAIN hs PROVE row(h) \in Seq(FreshLine)
  <2> HIDE DEF hs
  <2>1. DOMAIN hs = 1..Len(hs) /\ Len(hs) \in Nat /\ h \in Nat /\ hs[h] \in Seq(Nat)
    BY <1>1, <1>3
  <2> DEFINE s == hs[h]
  <2>2. DOMAIN s = 1..Len(s) /\ Len(s) \in Nat /\ \A i \in 1..Len(s) : i \in Nat /\ s[i] \in Nat
    BY <2>1
  <2> HIDE DEF s
  <2>3. ASSUME NEW i \in 1..Len(s) PROVE [of |-> <<file.path, rev, h, i>>, from |-> 1, size |-> s[i]] \in FreshLine
    <3>1. <<file.path, rev, h, i>> \in DiffPlace
      BY <1>1, <2>1, <2>2 DEF DiffPlace
    <3> QED
      BY <2>2, <3>1 DEF FreshLine, DiffLine
  <2>4. row(h) = [i \in 1..Len(s) |-> [of |-> <<file.path, rev, h, i>>, from |-> 1, size |-> s[i]]]
    BY <2>2 DEF s
  <2> HIDE DEF row
  <2>5. row(h) \in [1..Len(s) -> FreshLine]
    BY <2>3, <2>4
  <2> QED
    BY <2>2, <2>5, AsSeq
<1> HIDE DEF row
<1>4. [h \in DOMAIN hs |-> row(h)] \in [1..Len(hs) -> Seq(FreshLine)] /\ Len(hs) \in Nat
  <2> HIDE DEF hs
  <2>1. DOMAIN hs = 1..Len(hs) /\ Len(hs) \in Nat
    BY <1>1
  <2> QED
    BY <1>3, <2>1
<1> QED
  BY <1>2, <1>4, AsSeq

LEMMA FileTextIs ==
  ASSUME NEW file \in FileChange, NEW rev \in Nat
  PROVE  FileText(file, rev) \in DiffItem /\ FileText(file, rev).lines = FlattenSeq(HunksOf(file, rev))
<1> DEFINE it == Item(FlattenSeq(HunksOf(file, rev)))
<1>1. FlattenSeq(HunksOf(file, rev)) \in Seq(DiffLine)
  BY HunksOfAre, PiecesFromAre
<1>2. it \in DiffItem /\ it.lines = FlattenSeq(HunksOf(file, rev))
  BY <1>1, ItemIs
<1>3. FileText(file, rev) = Headed(it)
  BY DEF FileText, Headed
<1> HIDE DEF it
<1> QED
  BY <1>2, <1>3, HeadedIs

(* A file as it is, or in pieces, is its text (_file_text, _split_file_text). *)
LEMMA PiecesOfAre ==
  ASSUME NEW file \in FileChange, NEW rev \in Nat, NEW entry, entry = [file |-> file, rev |-> rev]
  PROVE  /\ PiecesOf(entry) \in Seq(DiffItem)
         /\ ItemTokens(PiecesOf(entry)) = Tokens(FileText(file, rev).lines)
         /\ HeaderSize < Available => Fitting(PiecesOf(entry), Available)
<1> DEFINE text == FileText(file, rev)
           hs == HunksOf(file, rev)
           pieces == PiecesFrom(hs)
<1>1. text \in DiffItem /\ text.lines = FlattenSeq(hs)
  BY FileTextIs
<1>2. PiecesOf(entry) = IF text.size <= Available THEN <<text>> ELSE FilePieces(file, rev)
  <2>1. entry.file = file /\ entry.rev = rev
    OBVIOUS
  <2> QED
    BY <2>1 DEF PiecesOf
<1>3. CASE text.size <= Available
  <2> HIDE DEF text
  <2>1. ItemTokens(<<text>>) = Tokens(text.lines) /\ <<text>> \in Seq(DiffItem)
    BY <1>1, ItemTokensOne
  <2>2. Fitting(<<text>>, Available)
    BY <1>3 DEF Fitting
  <2>3. PiecesOf(entry) = <<text>>
    BY <1>2, <1>3
  <2> QED
    BY <2>1, <2>2, <2>3 DEF text
<1>4. CASE ~(text.size <= Available)
  <2>1. FilePieces(file, rev) = WithHeaders(pieces)
    BY DEF FilePieces, WithHeaders, Headed, PiecesFrom, AddHunk
  <2>2. hs \in Seq(Seq(FreshLine))
    BY HunksOfAre
  <2> HIDE DEF hs
  <2>3. pieces \in Seq(DiffItem) /\ ItemTokens(pieces) = Tokens(FlattenSeq(hs)) /\ Fitting(pieces, Budget)
    BY <2>2, PiecesFromAre
  <2> HIDE DEF pieces
  <2>4. /\ WithHeaders(pieces) \in Seq(DiffItem) /\ ItemTokens(WithHeaders(pieces)) = ItemTokens(pieces)
        /\ HeaderSize < Available => Fitting(WithHeaders(pieces), Available)
    BY <2>3, HeadersKeep
  <2>5. PiecesOf(entry) = WithHeaders(pieces)
    BY <1>2, <1>4, <2>1
  <2> HIDE DEF text
  <2>6. ItemTokens(WithHeaders(pieces)) = Tokens(text.lines)
    BY <1>1, <2>3, <2>4
  <2> QED
    BY <2>4, <2>5, <2>6 DEF text
<1> QED
  BY <1>3, <1>4

(* What is known of a file of the pull request, and the head it was read at. *)
FileEntry == [file : FileChange, rev : Nat]
EntriesOf(files, rev) == [i \in DOMAIN files |-> [file |-> files[i], rev |-> rev]]
TextsOf(files, rev) == [i \in DOMAIN files |-> FileText(files[i], rev)]
PiecesOfAll(entries) == [i \in DOMAIN entries |-> PiecesOf(entries[i])]

LEMMA EntryIs == ASSUME NEW e \in FileEntry PROVE e.file \in FileChange /\ e.rev \in Nat /\ e = [file |-> e.file, rev |-> e.rev]
BY DEF FileEntry

LEMMA TextsGrow ==
  ASSUME NEW s \in Seq(FileChange), NEW x \in FileChange, NEW rev \in Nat
  PROVE  /\ TextsOf(s, rev) \in Seq(DiffItem) /\ FileText(x, rev) \in DiffItem
         /\ TextsOf(Append(s, x), rev) = Append(TextsOf(s, rev), FileText(x, rev))
<1> DEFINE n == Len(s)
           more == TextsOf(Append(s, x), rev)
           m == TextsOf(s, rev)
           y == FileText(x, rev)
<1>0. \A z \in FileChange : FileText(z, rev) \in DiffItem
  BY FileTextIs
<1>1. /\ n \in Nat /\ Append(s, x) \in Seq(FileChange) /\ DOMAIN Append(s, x) = 1..n + 1 /\ DOMAIN s = 1..n
      /\ Append(s, x)[n + 1] = x /\ \A i \in 1..n : Append(s, x)[i] = s[i] /\ s[i] \in FileChange
  BY AppendProperties
<1>2. m \in [1..n -> DiffItem]
  BY <1>0, <1>1 DEF TextsOf
<1>3. m \in Seq(DiffItem) /\ Len(m) = n
  BY <1>1, <1>2, AsSeq
<1>4. more = [i \in 1..n + 1 |-> more[i]]
  BY <1>1 DEF TextsOf
<1>5. ExtendsBy(more, m, n, y)
  BY <1>1 DEF TextsOf, ExtendsBy
<1>6. y \in DiffItem
  BY <1>0
<1> HIDE DEF more, m, n, y
<1>7. n \in Nat
  BY <1>1
<1>8. more = Append(m, y)
  BY <1>3, <1>4, <1>5, <1>6, <1>7, MapGrows
<1> QED
  BY <1>3, <1>6, <1>8 DEF more, m, y

LEMMA PiecesGrow ==
  ASSUME NEW s \in Seq(FileEntry), NEW x \in FileEntry
  PROVE  /\ PiecesOfAll(s) \in Seq(Seq(DiffItem)) /\ PiecesOf(x) \in Seq(DiffItem)
         /\ PiecesOfAll(Append(s, x)) = Append(PiecesOfAll(s), PiecesOf(x))
<1> DEFINE n == Len(s)
           more == PiecesOfAll(Append(s, x))
           m == PiecesOfAll(s)
           y == PiecesOf(x)
<1>0. \A z \in FileEntry : PiecesOf(z) \in Seq(DiffItem)
  BY PiecesOfAre, EntryIs
<1>1. /\ n \in Nat /\ Append(s, x) \in Seq(FileEntry) /\ DOMAIN Append(s, x) = 1..n + 1 /\ DOMAIN s = 1..n
      /\ Append(s, x)[n + 1] = x /\ \A i \in 1..n : Append(s, x)[i] = s[i] /\ s[i] \in FileEntry
  BY AppendProperties
<1>2. m \in [1..n -> Seq(DiffItem)]
  BY <1>0, <1>1 DEF PiecesOfAll
<1>3. m \in Seq(Seq(DiffItem)) /\ Len(m) = n
  BY <1>1, <1>2, AsSeq
<1>4. more = [i \in 1..n + 1 |-> more[i]]
  BY <1>1 DEF PiecesOfAll
<1>5. ExtendsBy(more, m, n, y)
  BY <1>1 DEF PiecesOfAll, ExtendsBy
<1>6. y \in Seq(DiffItem)
  BY <1>0
<1> HIDE DEF more, m, n, y
<1>7. n \in Nat
  BY <1>1
<1>8. more = Append(m, y)
  BY <1>3, <1>4, <1>5, <1>6, <1>7, MapGrows
<1> QED
  BY <1>3, <1>6, <1>8 DEF more, m, y

LEMMA EntriesGrow ==
  ASSUME NEW s \in Seq(FileChange), NEW x \in FileChange, NEW rev \in Nat
  PROVE  /\ EntriesOf(s, rev) \in Seq(FileEntry) /\ Len(EntriesOf(s, rev)) = Len(s)
         /\ [file |-> x, rev |-> rev] \in FileEntry
         /\ EntriesOf(Append(s, x), rev) = Append(EntriesOf(s, rev), [file |-> x, rev |-> rev])
<1> DEFINE n == Len(s)
           more == EntriesOf(Append(s, x), rev)
           m == EntriesOf(s, rev)
           y == [file |-> x, rev |-> rev]
<1>0. \A z \in FileChange : [file |-> z, rev |-> rev] \in FileEntry
  BY DEF FileEntry
<1>1. /\ n \in Nat /\ Append(s, x) \in Seq(FileChange) /\ DOMAIN Append(s, x) = 1..n + 1 /\ DOMAIN s = 1..n
      /\ Append(s, x)[n + 1] = x /\ \A i \in 1..n : Append(s, x)[i] = s[i] /\ s[i] \in FileChange
  BY AppendProperties
<1>2. m \in [1..n -> FileEntry]
  BY <1>0, <1>1 DEF EntriesOf
<1>3. m \in Seq(FileEntry) /\ Len(m) = n
  BY <1>1, <1>2, AsSeq
<1>4. more = [i \in 1..n + 1 |-> more[i]]
  BY <1>1 DEF EntriesOf
<1>5. ExtendsBy(more, m, n, y)
  BY <1>1 DEF EntriesOf, ExtendsBy
<1>6. y \in FileEntry
  BY <1>0
<1> HIDE DEF more, m, y
<1>7. more = Append(m, y)
  <2>1. n \in Nat
    BY <1>1
  <2> HIDE DEF n
  <2> QED
    BY <1>3, <1>4, <1>5, <1>6, <2>1, MapGrows
<1> QED
  BY <1>3, <1>6, <1>7 DEF more, m, y

(* The pieces of all files fit. *)
LEMMA PiecesFit ==
  ASSUME HeaderSize < Available
  PROVE  \A s \in Seq(FileEntry) : Fitting(FlattenSeq(PiecesOfAll(s)), Available)
<1> DEFINE T == {s \in Seq(FileEntry) : Fitting(FlattenSeq(PiecesOfAll(s)), Available)}
<1>1. <<>> \in T
  <2>1. PiecesOfAll(<<>>) = <<>>
    BY DEF PiecesOfAll
  <2>2. FlattenSeq(PiecesOfAll(<<>>)) = <<>>
    BY <2>1, FlatNone, Zenon
  <2>3. Fitting(<<>>, Available)
    BY DEF Fitting
  <2>4. Fitting(FlattenSeq(PiecesOfAll(<<>>)), Available)
    BY <2>2, <2>3, Zenon
  <2> QED
    BY <2>4
<1>2. ASSUME NEW s \in Seq(FileEntry), NEW x \in FileEntry, s \in T PROVE Append(s, x) \in T
  <2> DEFINE y == PiecesOf(x)
             f == FlattenSeq(PiecesOfAll(s))
  <2>1. PiecesOfAll(s) \in Seq(Seq(DiffItem)) /\ y \in Seq(DiffItem) /\ PiecesOfAll(Append(s, x)) = Append(PiecesOfAll(s), y)
    BY PiecesGrow
  <2>2. Fitting(y, Available)
    BY PiecesOfAre, EntryIs
  <2> HIDE DEF y
  <2>3. FlattenSeq(PiecesOfAll(Append(s, x))) = f \o y /\ f \in Seq(DiffItem)
    BY <2>1, FlatAppend, FlatTyped
  <2>4. Fitting(f, Available)
    BY <1>2
  <2> HIDE DEF f
  <2>5. Fitting(f \o y, Available)
    BY <2>1, <2>2, <2>3, <2>4, FittingJoined
  <2>6. Append(s, x) \in Seq(FileEntry)
    OBVIOUS
  <2>7. Fitting(FlattenSeq(PiecesOfAll(Append(s, x))), Available)
    BY <2>3, <2>5
  <2> QED
    BY <2>6, <2>7
<1> HIDE DEF T
<1>3. \A s \in Seq(FileEntry) : s \in T
  BY <1>1, <1>2, SeqGrows
<1> QED
  BY <1>3 DEF T

(* Pieces of all the files of a head are its diff. *)
LEMMA PiecesAreDiff ==
  ASSUME NEW rev \in Nat
  PROVE  \A s \in Seq(FileChange) :
           /\ FlattenSeq(PiecesOfAll(EntriesOf(s, rev))) \in Seq(DiffItem)
           /\ ItemTokens(FlattenSeq(PiecesOfAll(EntriesOf(s, rev)))) = ItemTokens(TextsOf(s, rev))
<1> DEFINE F(s) == FlattenSeq(PiecesOfAll(EntriesOf(s, rev)))
           T == {s \in Seq(FileChange) : F(s) \in Seq(DiffItem) /\ ItemTokens(F(s)) = ItemTokens(TextsOf(s, rev))}
<1>1. <<>> \in T
  <2>1. PiecesOfAll(EntriesOf(<<>>, rev)) = <<>> /\ TextsOf(<<>>, rev) = <<>>
    BY DEF PiecesOfAll, EntriesOf, TextsOf
  <2>2. F(<<>>) = <<>>
    BY <2>1, FlatNone, Zenon
  <2> HIDE DEF F
  <2>3. F(<<>>) \in Seq(DiffItem) /\ ItemTokens(F(<<>>)) = ItemTokens(TextsOf(<<>>, rev))
    <3>1. <<>> \in Seq(DiffItem)
      OBVIOUS
    <3> QED
      BY <2>1, <2>2, <3>1, Zenon
  <2> QED
    BY <2>3
<1>2. ASSUME NEW s \in Seq(FileChange), NEW x \in FileChange, s \in T PROVE Append(s, x) \in T
  <2> DEFINE e == [file |-> x, rev |-> rev]
             y == PiecesOf(e)
             es == EntriesOf(s, rev)
             t == FileText(x, rev)
             ts == TextsOf(s, rev)
  <2>1. es \in Seq(FileEntry) /\ e \in FileEntry /\ EntriesOf(Append(s, x), rev) = Append(es, e)
    BY EntriesGrow
  <2>2. ts \in Seq(DiffItem) /\ t \in DiffItem /\ TextsOf(Append(s, x), rev) = Append(ts, t)
    BY TextsGrow
  <2>3. y \in Seq(DiffItem) /\ ItemTokens(y) = Tokens(t.lines)
    BY PiecesOfAre
  <2>4. F(s) = FlattenSeq(PiecesOfAll(es)) /\ F(Append(s, x)) = FlattenSeq(PiecesOfAll(Append(es, e)))
    BY <2>1
  <2>5. F(s) \in Seq(DiffItem) /\ ItemTokens(F(s)) = ItemTokens(ts)
    BY <1>2
  <2> HIDE DEF F, es, ts, t, e
  <2>6. PiecesOfAll(es) \in Seq(Seq(DiffItem)) /\ PiecesOfAll(Append(es, e)) = Append(PiecesOfAll(es), y)
    BY <2>1, PiecesGrow
  <2> HIDE DEF y
  <2>7. F(Append(s, x)) = F(s) \o y
    <3>1. FlattenSeq(Append(PiecesOfAll(es), y)) = FlattenSeq(PiecesOfAll(es)) \o y
      BY <2>3, <2>6, FlatAppend
    <3> QED
      BY <2>4, <2>6, <3>1
  <2>8. F(s) \o y \in Seq(DiffItem) /\ ItemTokens(F(s) \o y) = ItemTokens(F(s)) \o ItemTokens(y)
    BY <2>3, <2>5, ConcatProperties, ItemTokensConcat
  <2>9. ItemTokens(Append(ts, t)) = ItemTokens(ts) \o Tokens(t.lines)
    BY <2>2, ItemTokensAppend
  <2>10. F(Append(s, x)) \in Seq(DiffItem) /\ ItemTokens(F(Append(s, x))) = ItemTokens(TextsOf(Append(s, x), rev))
    BY <2>2, <2>3, <2>5, <2>7, <2>8, <2>9
  <2>11. Append(s, x) \in Seq(FileChange)
    OBVIOUS
  <2> QED
    BY <2>10, <2>11
<1> HIDE DEF T
<1>3. \A s \in Seq(FileChange) : s \in T
  BY <1>1, <1>2, SeqGrows
<1> QED
  BY <1>3 DEF T

LEMMA DiffTextIs ==
  ASSUME NEW s \in Seq(FileChange), NEW rev \in Nat
  PROVE  DiffText(s, rev) \in DiffItem /\ Tokens(DiffText(s, rev).lines) = ItemTokens(TextsOf(s, rev))
<1>1. DiffText(s, rev) = Joined(TextsOf(s, rev))
  BY DEF DiffText, TextsOf
<1>2. TextsOf(s, rev) \in Seq(DiffItem)
  <2>1. CASE s = <<>>
    <3>1. TextsOf(s, rev) = <<>>
      BY <2>1 DEF TextsOf
    <3> QED
      BY <3>1
  <2>2. CASE s # <<>>
    <3>1. s[1] \in FileChange
      BY <2>2
    <3> QED
      BY <3>1, TextsGrow
  <2> QED
    BY <2>1, <2>2
<1>3. Joined(TextsOf(s, rev)).lines = FlattenSeq(LinesOf(TextsOf(s, rev)))
  BY JoinedIs
<1>4. Joined(TextsOf(s, rev)) \in DiffItem
  BY <1>2, JoinedTyped
<1>5. Tokens(DiffText(s, rev).lines) = ItemTokens(TextsOf(s, rev))
  BY <1>1, <1>3 DEF ItemTokens
<1> QED
  BY <1>1, <1>4, <1>5

(* A sequence of ones, put together. *)
Ones(s) == [i \in DOMAIN s |-> <<s[i]>>]

LEMMA OnesGrow ==
  ASSUME NEW S, NEW s \in Seq(S), NEW x \in S
  PROVE  Ones(s) \in Seq(Seq(S)) /\ Ones(Append(s, x)) = Append(Ones(s), <<x>>)
<1> DEFINE n == Len(s)
           more == Ones(Append(s, x))
           m == Ones(s)
           y == <<x>>
<1>1. /\ n \in Nat /\ Append(s, x) \in Seq(S) /\ DOMAIN Append(s, x) = 1..n + 1 /\ DOMAIN s = 1..n
      /\ Append(s, x)[n + 1] = x /\ \A i \in 1..n : Append(s, x)[i] = s[i] /\ s[i] \in S
  BY AppendProperties
<1>2. m \in [1..n -> Seq(S)]
  BY <1>1 DEF Ones
<1>3. m \in Seq(Seq(S)) /\ Len(m) = n
  BY <1>1, <1>2, AsSeq
<1>4. more = [i \in 1..n + 1 |-> more[i]]
  BY <1>1 DEF Ones
<1>5. ExtendsBy(more, m, n, y)
  BY <1>1 DEF Ones, ExtendsBy
<1>6. y \in Seq(S)
  OBVIOUS
<1> HIDE DEF more, m, n, y
<1>7. n \in Nat
  BY <1>1
<1>8. more = Append(m, y)
  BY <1>3, <1>4, <1>5, <1>6, <1>7, MapGrows
<1> QED
  BY <1>3, <1>8 DEF more, m, y

LEMMA OnesFlat == ASSUME NEW S PROVE \A s \in Seq(S) : FlattenSeq(Ones(s)) = s
<1> DEFINE T == {s \in Seq(S) : FlattenSeq(Ones(s)) = s}
<1>1. <<>> \in T
  <2>1. Ones(<<>>) = <<>>
    BY DEF Ones
  <2>2. FlattenSeq(Ones(<<>>)) = <<>>
    BY <2>1, FlatNone, Zenon
  <2> QED
    BY <2>2
<1>2. ASSUME NEW s \in Seq(S), NEW x \in S, s \in T PROVE Append(s, x) \in T
  <2>1. Ones(s) \in Seq(Seq(S)) /\ Ones(Append(s, x)) = Append(Ones(s), <<x>>) /\ <<x>> \in Seq(S)
    BY OnesGrow
  <2>2. FlattenSeq(Append(Ones(s), <<x>>)) = FlattenSeq(Ones(s)) \o <<x>>
    BY <2>1, FlatAppend
  <2>3. Append(s, x) = s \o <<x>> /\ Append(s, x) \in Seq(S)
    BY AppendIsConcat
  <2>4. FlattenSeq(Ones(s)) = s
    BY <1>2
  <2>5. FlattenSeq(Ones(Append(s, x))) = Append(s, x)
    BY <2>1, <2>2, <2>3, <2>4
  <2> QED
    BY <2>3, <2>5
<1> HIDE DEF T
<1>3. \A s \in Seq(S) : s \in T
  BY <1>1, <1>2, SeqGrows
<1> QED
  BY <1>3 DEF T

(* What has been read of the pull request. *)
HistoryRead == /\ history \in Seq(Seq(FileChange))
               /\ \A rev \in 1..Len(history) : OncePerPath(history[rev])
FilesRead == pr.files \in Seq(FileEntry) /\ pr.diff \in 1..Len(history)
KnownOf == [i \in DOMAIN pr.files |-> Known(pr.files[i])]

LEMMA PlaceIs ==
  ASSUME HistoryRead, FilesRead, NEW path
  PROVE  /\ pr.diff \in Nat /\ history[pr.diff] \in Seq(FileChange)
         /\ Len(history[pr.diff]) \in Nat
         /\ InDiff(path, pr.diff) \in SUBSET (1..Len(history[pr.diff]))
         /\ InDiff(path, pr.diff) # {} => /\ Max(InDiff(path, pr.diff)) \in InDiff(path, pr.diff)
                                          /\ Max(InDiff(path, pr.diff)) \in 1..Len(history[pr.diff])
                                          /\ history[pr.diff][Max(InDiff(path, pr.diff))] \in FileChange
<1>1. pr.diff \in Nat /\ history[pr.diff] \in Seq(FileChange)
  BY DEF HistoryRead, FilesRead
<1> DEFINE k == Len(history[pr.diff])
           t == InDiff(path, pr.diff)
<1>2. k \in Nat
  BY <1>1
<1>3. t \in SUBSET (1..k)
  BY <1>1 DEF InDiff
<1>4. \A i \in 1..k : history[pr.diff][i] \in FileChange
  BY <1>1
<1> HIDE DEF k, t
<1>5. t # {} => Max(t) \in t
  BY <1>2, <1>3, MaxUpTo
<1>6. t # {} => Max(t) \in 1..k /\ history[pr.diff][Max(t)] \in FileChange
  BY <1>3, <1>4, <1>5
<1> QED
  BY <1>1, <1>2, <1>3, <1>5, <1>6 DEF k, t

LEMMA KnownTyped ==
  ASSUME HistoryRead, FilesRead, NEW e \in FileEntry
  PROVE  Known(e) \in Seq(FileEntry)
<1> DEFINE t == InDiff(e.file.path, pr.diff)
           f == history[pr.diff][Max(t)]
           x == [file |-> f, rev |-> pr.diff]
<1>1. pr.diff \in Nat /\ (t # {} => f \in FileChange)
  BY PlaceIs
<1>2. Known(e) = IF e.file.patch THEN <<e>> ELSE IF t = {} THEN <<>> ELSE <<x>>
  BY DEF Known
<1> HIDE DEF t, f
<1>3. t # {} => x \in FileEntry
  BY <1>1 DEF FileEntry
<1> HIDE DEF x
<1> QED
  BY <1>2, <1>3

LEMMA KnownOfTyped ==
  ASSUME HistoryRead, FilesRead
  PROVE  KnownOf \in Seq(Seq(FileEntry)) /\ FlattenSeq(KnownOf) \in Seq(FileEntry)
<1> DEFINE n == Len(pr.files)
<1>1. n \in Nat /\ DOMAIN pr.files = 1..n /\ \A i \in 1..n : pr.files[i] \in FileEntry
  BY DEF FilesRead
<1>2. \A e \in FileEntry : Known(e) \in Seq(FileEntry)
  BY KnownTyped
<1>3. KnownOf \in [1..n -> Seq(FileEntry)]
  BY <1>1, <1>2 DEF KnownOf
<1> HIDE DEF n
<1>4. KnownOf \in Seq(Seq(FileEntry))
  BY <1>1, <1>3, AsSeq
<1> QED
  BY <1>4, FlatTyped

LEMMA PlannedIs ==
  Planned = IF DiffText(history[pr.diff], pr.diff).lines # <<>> /\ DiffText(history[pr.diff], pr.diff).size <= Available
            THEN <<DiffText(history[pr.diff], pr.diff)>>
            ELSE Packed(FlattenSeq(PiecesOfAll(FlattenSeq(KnownOf))), Available)
BY DEF Planned, PiecesOfAll, KnownOf

LEMMA PiecesTyped ==
  ASSUME NEW s \in Seq(FileEntry)
  PROVE  PiecesOfAll(s) \in Seq(Seq(DiffItem)) /\ FlattenSeq(PiecesOfAll(s)) \in Seq(DiffItem)
<1>1. PiecesOfAll(s) \in Seq(Seq(DiffItem))
  <2>1. CASE s = <<>>
    <3>1. PiecesOfAll(s) = <<>>
      BY <2>1 DEF PiecesOfAll
    <3> QED
      BY <3>1
  <2>2. CASE s # <<>>
    <3>1. s[1] \in FileEntry
      BY <2>2
    <3> QED
      BY <3>1, PiecesGrow
  <2> QED
    BY <2>1, <2>2
<1> QED
  BY <1>1, FlatTyped

LEMMA AvailableIs == Available \in Nat /\ HeaderSize \in Nat
BY PartsAssumption

LEMMA PlannedFits ==
  ASSUME HistoryRead, FilesRead
  PROVE  Planned \in Seq(DiffItem) /\ (HeaderSize < Available => Fitting(Planned, Available))
<1> DEFINE h == history[pr.diff]
           d == DiffText(h, pr.diff)
           known == FlattenSeq(KnownOf)
           items == FlattenSeq(PiecesOfAll(known))
           p == Packed(items, Available)
           whole == d.lines # <<>> /\ d.size <= Available
<1>1. pr.diff \in Nat /\ h \in Seq(FileChange)
  BY PlaceIs
<1>2. Planned = IF whole THEN <<d>> ELSE p
  BY PlannedIs
<1>3. known \in Seq(FileEntry)
  BY KnownOfTyped
<1> HIDE DEF h, known
<1>4. d \in DiffItem
  BY <1>1, DiffTextIs
<1>5. items \in Seq(DiffItem)
  BY <1>3, PiecesTyped
<1>6. HeaderSize < Available => Fitting(items, Available)
  BY <1>3, PiecesFit
<1> HIDE DEF d, items
<1>7. p \in Seq(DiffItem)
  BY <1>5, PackedTokens
<1>8. HeaderSize < Available => Fitting(p, Available)
  BY <1>5, <1>6, PackedFits, AvailableIs
<1>9. CASE whole
  <2>1. Planned = <<d>>
    BY <1>2, <1>9
  <2>2. <<d>> \in Seq(DiffItem) /\ Len(<<d>>) = 1 /\ <<d>>[1] = d
    BY <1>4
  <2>3. \A k \in 1..1 : k = 1
    OBVIOUS
  <2>4. Fitting(<<d>>, Available)
    BY <1>9, <2>2, <2>3 DEF Fitting
  <2> QED
    BY <2>1, <2>2, <2>4
<1>10. CASE ~whole
  <2>1. Planned = p
    BY <1>2, <1>10
  <2> HIDE DEF p
  <2> QED
    BY <2>1, <1>7, <1>8
<1> QED
  BY <1>9, <1>10

(* When the files and the diff were read at one head, they are the whole   *)
(* change of that head.                                                    *)
LEMMA AllKnown ==
  ASSUME HistoryRead, FilesRead, pr.files = EntriesOf(history[pr.diff], pr.diff)
  PROVE  KnownOf = Ones(pr.files)
<1> DEFINE h == history[pr.diff]
           r == pr.diff
<1>1. r \in Nat /\ h \in Seq(FileChange) /\ r \in 1..Len(history) /\ OncePerPath(h)
  <2>1. r \in 1..Len(history)
    BY DEF FilesRead
  <2> QED
    BY <2>1, PlaceIs DEF HistoryRead
<1>2. DOMAIN pr.files = DOMAIN h /\ \A i \in DOMAIN h : pr.files[i] = [file |-> h[i], rev |-> r]
  BY DEF EntriesOf
<1>3. ASSUME NEW i \in DOMAIN h PROVE Known(pr.files[i]) = <<pr.files[i]>>
  <2> DEFINE e == pr.files[i]
             t == InDiff(h[i].path, r)
  <2>1. e = [file |-> h[i], rev |-> r] /\ e.file = h[i]
    BY <1>2, <1>3
  <2>2. t = {i}
    BY <1>1, <1>3 DEF InDiff, OncePerPath
  <2>3. Max(t) \in t
    BY <2>2, PlaceIs
  <2>4. Max(t) = i
    BY <2>2, <2>3
  <2>5. Known(e) = IF e.file.patch THEN <<e>> ELSE IF t = {} THEN <<>> ELSE <<[file |-> h[Max(t)], rev |-> r]>>
    BY <2>1 DEF Known
  <2> HIDE DEF t, h, r, e
  <2>6. Known(e) = <<e>>
    BY <2>1, <2>2, <2>4, <2>5
  <2> QED
    BY <2>6 DEF e
<1>4. \A i \in DOMAIN pr.files : Known(pr.files[i]) = <<pr.files[i]>>
  BY <1>2, <1>3
<1> QED
  BY <1>4 DEF KnownOf, Ones

LEMMA AllPlanned ==
  ASSUME HistoryRead, FilesRead, pr.files = EntriesOf(history[pr.diff], pr.diff)
  PROVE  Skipped = {} /\ ItemTokens(Planned) = Tokens(DiffText(history[pr.diff], pr.diff).lines)
<1> DEFINE h == history[pr.diff]
           r == pr.diff
           d == DiffText(h, r)
           known == FlattenSeq(KnownOf)
           items == FlattenSeq(PiecesOfAll(known))
           p == Packed(items, Available)
           whole == d.lines # <<>> /\ d.size <= Available
<1>1. r \in Nat /\ h \in Seq(FileChange)
  BY PlaceIs
<1>2. Planned = IF whole THEN <<d>> ELSE p
  BY PlannedIs
<1>3. KnownOf = Ones(pr.files) /\ pr.files \in Seq(FileEntry)
  BY AllKnown DEF FilesRead
<1>4. known = EntriesOf(h, r)
  BY <1>3, OnesFlat
<1>5. Skipped = {}
  <2>1. \A i \in DOMAIN pr.files : Known(pr.files[i]) # <<>>
    <3>1. \A i \in DOMAIN pr.files : Known(pr.files[i]) = <<pr.files[i]>>
      BY <1>3 DEF KnownOf, Ones
    <3> QED
      BY <3>1
  <2>2. Unreviewed = {}
    BY <2>1 DEF Unreviewed
  <2> QED
    BY <2>2 DEF Skipped
<1> HIDE DEF h, r, known
<1>6. d \in DiffItem /\ Tokens(d.lines) = ItemTokens(TextsOf(h, r))
  BY <1>1, DiffTextIs
<1>7. items \in Seq(DiffItem) /\ ItemTokens(items) = ItemTokens(TextsOf(h, r))
  BY <1>1, <1>4, PiecesAreDiff
<1> HIDE DEF d, items
<1>8. ItemTokens(p) = ItemTokens(items)
  BY <1>7, PackedTokens
<1>9. ItemTokens(<<d>>) = Tokens(d.lines)
  BY <1>6, ItemTokensOne
<1> HIDE DEF p, whole
<1>10. ItemTokens(Planned) = Tokens(d.lines)
  BY <1>2, <1>6, <1>7, <1>8, <1>9
<1> QED
  BY <1>5, <1>10 DEF d, h, r

(* The sections of the review, and the parts that a sequence of them stands *)
(* for.                                                                    *)
Section == [covers : Seq(Nat), size : Nat]
CoversOf(s) == [i \in DOMAIN s |-> s[i].covers]
Covered(s) == FlattenSeq(CoversOf(s))
UpToPart(n) == [i \in 1..n |-> i]

LEMMA CoversOfGrow ==
  ASSUME NEW s \in Seq(Section), NEW x \in Section
  PROVE  CoversOf(s) \in Seq(Seq(Nat)) /\ CoversOf(Append(s, x)) = Append(CoversOf(s), x.covers)
<1> DEFINE n == Len(s)
           more == CoversOf(Append(s, x))
           m == CoversOf(s)
<1>0. \A y \in Section : y.covers \in Seq(Nat)
  BY DEF Section
<1>1. /\ n \in Nat /\ Append(s, x) \in Seq(Section) /\ DOMAIN Append(s, x) = 1..n + 1 /\ DOMAIN s = 1..n
      /\ Append(s, x)[n + 1] = x /\ \A i \in 1..n : Append(s, x)[i] = s[i] /\ s[i] \in Section
  BY AppendProperties
<1>2. m \in [1..n -> Seq(Nat)]
  BY <1>0, <1>1 DEF CoversOf
<1>3. m \in Seq(Seq(Nat)) /\ Len(m) = n
  BY <1>1, <1>2, AsSeq
<1>4. more = [i \in 1..n + 1 |-> more[i]]
  BY <1>1 DEF CoversOf
<1>5. ExtendsBy(more, m, n, x.covers)
  BY <1>1 DEF CoversOf, ExtendsBy
<1>6. x.covers \in Seq(Nat)
  BY <1>0
<1> HIDE DEF more, m, n
<1>7. more = Append(m, x.covers)
  <2> DEFINE y == x.covers
  <2>1. n \in Nat /\ y \in Seq(Nat) /\ ExtendsBy(more, m, n, y)
    BY <1>1, <1>5, <1>6
  <2> HIDE DEF y
  <2>2. more = Append(m, y)
    BY <1>3, <1>4, <2>1, MapGrows
  <2> QED
    BY <2>2 DEF y
<1> QED
  BY <1>3, <1>7 DEF more, m

LEMMA CoveredNone == Covered(<<>>) = <<>>
<1>1. CoversOf(<<>>) = <<>>
  BY DEF CoversOf
<1> QED
  BY <1>1, FlatNone, Zenon DEF Covered

LEMMA CoveredAppend ==
  ASSUME NEW s \in Seq(Section), NEW x \in Section
  PROVE  Covered(s) \in Seq(Nat) /\ Covered(Append(s, x)) = Covered(s) \o x.covers
<1>1. CoversOf(s) \in Seq(Seq(Nat)) /\ CoversOf(Append(s, x)) = Append(CoversOf(s), x.covers) /\ x.covers \in Seq(Nat)
  BY CoversOfGrow DEF Section
<1>2. FlattenSeq(Append(CoversOf(s), x.covers)) = FlattenSeq(CoversOf(s)) \o x.covers /\ FlattenSeq(CoversOf(s)) \in Seq(Nat)
  BY <1>1, FlatAppend, FlatTyped
<1> QED
  BY <1>1, <1>2 DEF Covered

LEMMA CoveredTyped == \A s \in Seq(Section) : Covered(s) \in Seq(Nat)
<1> DEFINE x == [covers |-> <<>>, size |-> 0]
<1>1. x \in Section
  BY DEF Section
<1> HIDE DEF x
<1> QED
  BY <1>1, CoveredAppend

LEMMA CoveredOne == ASSUME NEW x \in Section PROVE Covered(<<x>>) = x.covers
<1>1. <<>> \in Seq(Section) /\ Append(<<>>, x) = <<x>> /\ x.covers \in Seq(Nat)
  BY DEF Section
<1>2. Covered(Append(<<>>, x)) = Covered(<<>>) \o x.covers
  BY <1>1, CoveredAppend
<1> QED
  BY <1>1, <1>2, CoveredNone, ConcatEmptySeq

LEMMA CoveredConcat ==
  ASSUME NEW a \in Seq(Section)
  PROVE  \A b \in Seq(Section) : Covered(a \o b) = Covered(a) \o Covered(b)
<1> DEFINE T == {b \in Seq(Section) : Covered(a \o b) = Covered(a) \o Covered(b)}
<1>1. <<>> \in T
  <2>1. <<>> \in Seq(Section) /\ a \o <<>> = a /\ Covered(a) \in Seq(Nat)
    BY ConcatEmptySeq, CoveredTyped
  <2>2. Covered(a) \o <<>> = Covered(a)
    BY <2>1, ConcatEmptySeq
  <2> QED
    BY <2>1, <2>2, CoveredNone
<1>2. ASSUME NEW b \in Seq(Section), NEW x \in Section, b \in T PROVE Append(b, x) \in T
  <2>1. a \o Append(b, x) = Append(a \o b, x) /\ Append(b, x) \in Seq(Section) /\ a \o b \in Seq(Section)
    BY AppendJoined, ConcatProperties, AppendProperties
  <2>2. Covered(Append(a \o b, x)) = Covered(a \o b) \o x.covers
    BY <2>1, CoveredAppend
  <2>3. Covered(Append(b, x)) = Covered(b) \o x.covers
    BY CoveredAppend
  <2>4. Covered(a) \in Seq(Nat) /\ Covered(b) \in Seq(Nat) /\ x.covers \in Seq(Nat)
    BY CoveredTyped DEF Section
  <2>5. (Covered(a) \o Covered(b)) \o x.covers = Covered(a) \o (Covered(b) \o x.covers)
    <3> DEFINE c == x.covers
    <3>1. Covered(a) \in Seq(Nat) /\ Covered(b) \in Seq(Nat) /\ c \in Seq(Nat)
      BY <2>4
    <3> HIDE DEF c
    <3>2. (Covered(a) \o Covered(b)) \o c = Covered(a) \o (Covered(b) \o c)
      BY <3>1, ConcatAssociative
    <3> QED
      BY <3>2 DEF c
  <2>6. Covered(a \o b) = Covered(a) \o Covered(b)
    BY <1>2
  <2> QED
    BY <2>1, <2>2, <2>3, <2>5, <2>6
<1> HIDE DEF T
<1>3. \A b \in Seq(Section) : b \in T
  BY <1>1, <1>2, SeqGrows
<1> QED
  BY <1>3 DEF T

(* Pairs of a sequence, put together, are the sequence. *)
PairEnd(s, k) == IF 2 * k < Len(s) THEN 2 * k ELSE Len(s)
PairsOf(s) == [k \in 1 .. (Len(s) + 1) \div 2 |-> SubSeq(s, 2 * k - 1, PairEnd(s, k))]

LEMMA PairsTyped ==
  ASSUME NEW S, NEW s \in Seq(S), Len(s) >= 2, NEW n, n = (Len(s) + 1) \div 2
  PROVE  /\ n \in Nat \ {0} /\ 2 * n >= Len(s) /\ 2 * (n - 1) < Len(s)
         /\ PairsOf(s) \in Seq(Seq(S)) /\ Len(PairsOf(s)) = n
         /\ \A k \in 1..n : PairsOf(s)[k] = SubSeq(s, 2 * k - 1, PairEnd(s, k)) /\ PairsOf(s)[k] # <<>>
<1> DEFINE l == Len(s)
<1>0. l \in Nat /\ l >= 2
  OBVIOUS
<1>1. n \in Nat \ {0} /\ 2 * n >= l /\ 2 * (n - 1) < l
  BY <1>0
<1>2. \A k \in 1..n : 2 * k - 1 \in 1..l /\ PairEnd(s, k) \in 2 * k - 1..l
  BY <1>0, <1>1 DEF PairEnd
<1>3. ASSUME NEW k \in 1..n PROVE SubSeq(s, 2 * k - 1, PairEnd(s, k)) \in Seq(S) /\ SubSeq(s, 2 * k - 1, PairEnd(s, k)) # <<>>
  <2> DEFINE a == 2 * k - 1
             b == PairEnd(s, k)
  <2>1. a \in 1..l /\ b \in a..l
    BY <1>2
  <2>2. a \in Int /\ b \in Int /\ a <= b /\ \A i \in a..b : s[i] \in S
    BY <2>1
  <2> HIDE DEF a, b
  <2>3. SubSeq(s, a, b) \in Seq(S) /\ Len(SubSeq(s, a, b)) = b - a + 1
    BY <2>2, SubSeqProperties
  <2>4. SubSeq(s, a, b) # <<>>
    BY <2>2, <2>3
  <2> QED
    BY <2>3, <2>4 DEF a, b
<1>4. PairsOf(s) \in [1..n -> Seq(S)] /\ \A k \in 1..n : PairsOf(s)[k] = SubSeq(s, 2 * k - 1, PairEnd(s, k))
  BY <1>3 DEF PairsOf
<1>5. PairsOf(s) \in Seq(Seq(S)) /\ Len(PairsOf(s)) = n
  BY <1>1, <1>4, AsSeq
<1> QED
  BY <1>1, <1>3, <1>4, <1>5

LEMMA PairsFlat ==
  ASSUME NEW S, NEW s \in Seq(S), Len(s) >= 2
  PROVE  FlattenSeq(PairsOf(s)) = s
<1> DEFINE l == Len(s)
           n == (l + 1) \div 2
           ps == PairsOf(s)
           Upto(k) == FlattenSeq(SubSeq(ps, 1, k)) = SubSeq(s, 1, PairEnd(s, k))
           K == {k \in Nat : k <= n /\ ~Upto(k)}
<1>1. /\ n \in Nat \ {0} /\ 2 * n >= l /\ 2 * (n - 1) < l
      /\ ps \in Seq(Seq(S)) /\ Len(ps) = n
      /\ \A k \in 1..n : ps[k] = SubSeq(s, 2 * k - 1, PairEnd(s, k)) /\ ps[k] # <<>>
  BY PairsTyped
<1>2. l \in Nat /\ l >= 2
  OBVIOUS
<1> HIDE DEF n, ps, l
<1>3. Upto(0)
  <2>1. SubSeq(ps, 1, 0) = <<>>
    BY <1>1, PrefixGrows
  <2>2. PairEnd(s, 0) = 0
    BY <1>2 DEF PairEnd, l
  <2>3. SubSeq(s, 1, 0) = <<>>
    BY PrefixGrows
  <2>4. FlattenSeq(SubSeq(ps, 1, 0)) = <<>>
    BY <2>1, FlatNone, Zenon
  <2> QED
    BY <2>2, <2>3, <2>4
<1>4. ASSUME NEW k \in 1..n, Upto(k - 1) PROVE Upto(k)
  <2> DEFINE a == 2 * (k - 1)
             b == PairEnd(s, k)
  <2>1. PairEnd(s, k - 1) = a /\ a \in 0..l /\ b \in a..l /\ 2 * k - 1 = a + 1
    BY <1>1, <1>2 DEF PairEnd, l
  <2>2. ps[k] = SubSeq(s, a + 1, b)
    BY <1>1, <2>1
  <2>3. SubSeq(ps, 1, k - 1) \in Seq(Seq(S)) /\ SubSeq(ps, 1, k) = Append(SubSeq(ps, 1, k - 1), ps[k])
    BY <1>1, PrefixGrows
  <2>4. ps[k] \in Seq(S)
    BY <1>1
  <2>5. FlattenSeq(SubSeq(ps, 1, k)) = FlattenSeq(SubSeq(ps, 1, k - 1)) \o ps[k]
    BY <2>3, <2>4, FlatAppend
  <2>6. SubSeq(s, 1, a) \o SubSeq(s, a + 1, b) = SubSeq(s, 1, b)
    <3>1. 1 \in 1..Len(s) + 1 /\ a \in 1 - 1..Len(s) /\ b \in a..Len(s)
      BY <1>2, <2>1 DEF l
    <3> HIDE DEF a, b
    <3> QED
      BY <3>1, ConcatAdjacentSubSeq
  <2>7. FlattenSeq(SubSeq(ps, 1, k - 1)) = SubSeq(s, 1, a)
    BY <1>4, <2>1
  <2> QED
    BY <2>2, <2>5, <2>6, <2>7
<1>5. K = {}
  <2> SUFFICES ASSUME K # {} PROVE FALSE
    OBVIOUS
  <2>1. PICK k \in K : \A m \in K : k <= m
    <3>1. K \in SUBSET Nat
      OBVIOUS
    <3> HIDE DEF K
    <3> QED
      BY <3>1, LeastNat
  <2>2. k \in Nat /\ k <= n /\ ~Upto(k)
    BY <2>1
  <2>3. k # 0
    BY <1>3, <2>2
  <2>4. k \in 1..n /\ k - 1 \in Nat /\ k - 1 <= n /\ ~(k <= k - 1)
    BY <1>1, <2>2, <2>3
  <2>5. k - 1 \notin K
    BY <2>1, <2>4
  <2>6. Upto(k - 1)
    BY <2>4, <2>5
  <2> QED
    BY <1>4, <2>2, <2>4, <2>6
<1>6. n \in Nat /\ n <= n
  BY <1>1
<1>7. Upto(n)
  BY <1>5, <1>6
<1>8. PairEnd(s, n) = Len(s)
  BY <1>1, <1>2 DEF PairEnd, l
<1>9. SubSeq(ps, 1, n) = ps /\ SubSeq(s, 1, Len(s)) = s
  BY <1>1, PrefixGrows
<1> QED
  BY <1>7, <1>8, <1>9 DEF ps

LEMMA GroupedIs ==
  ASSUME NEW s \in Seq(Section)
  PROVE  /\ Len(s) < 2 => Grouped(s) = <<>>
         /\ Len(s) >= 2 => /\ Grouped(s) \in Seq(Seq(Section)) /\ Grouped(s) # <<>>
                           /\ \A k \in 1..Len(Grouped(s)) : Grouped(s)[k] # <<>>
                           /\ FlattenSeq(Grouped(s)) = s
<1>1. Len(s) < 2 => Grouped(s) = <<>>
  BY DEF Grouped
<1>2. ASSUME Len(s) >= 2
      PROVE /\ Grouped(s) \in Seq(Seq(Section)) /\ Grouped(s) # <<>>
            /\ \A k \in 1..Len(Grouped(s)) : Grouped(s)[k] # <<>>
            /\ FlattenSeq(Grouped(s)) = s
  <2>1. CASE LinesSize(s) <= Available
    <3>1. Grouped(s) = <<s>>
      BY <1>2, <2>1 DEF Grouped
    <3>2. <<s>> \in Seq(Seq(Section)) /\ Len(<<s>>) = 1 /\ <<s>>[1] = s /\ <<s>> # <<>> /\ s # <<>>
      BY <1>2
    <3>3. FlattenSeq(<<s>>) = s
      BY FlatOne
    <3>4. \A k \in 1..1 : k = 1
      OBVIOUS
    <3> QED
      BY <3>1, <3>2, <3>3, <3>4
  <2>2. CASE ~(LinesSize(s) <= Available)
    <3>1. Grouped(s) = PairsOf(s)
      BY <1>2, <2>2 DEF Grouped, PairsOf, PairEnd
    <3>2. PairsOf(s) \in Seq(Seq(Section)) /\ PairsOf(s) # <<>> /\ \A k \in 1..Len(PairsOf(s)) : PairsOf(s)[k] # <<>>
      <4> DEFINE n == (Len(s) + 1) \div 2
      <4>1. /\ n \in Nat \ {0} /\ PairsOf(s) \in Seq(Seq(Section)) /\ Len(PairsOf(s)) = n
            /\ \A k \in 1..n : PairsOf(s)[k] # <<>>
        BY <1>2, PairsTyped
      <4> HIDE DEF n
      <4> QED
        BY <4>1
    <3>3. FlattenSeq(PairsOf(s)) = s
      BY <1>2, PairsFlat
    <3> QED
      BY <3>1, <3>2, <3>3
  <2> QED
    BY <2>1, <2>2
<1> QED
  BY <1>1, <1>2

(* The first group of a level, and the rest of it. *)
LEMMA FirstGroup ==
  ASSUME NEW S, NEW gs \in Seq(Seq(S)), gs # <<>>, \A k \in 1..Len(gs) : gs[k] # <<>>
  PROVE  /\ Head(gs) \in Seq(S) /\ Head(gs) # <<>> /\ Tail(gs) \in Seq(Seq(S))
         /\ \A k \in 1..Len(Tail(gs)) : Tail(gs)[k] # <<>>
         /\ FlattenSeq(Tail(gs)) \in Seq(S)
         /\ FlattenSeq(gs) = Head(gs) \o FlattenSeq(Tail(gs))
<1>1. Head(gs) \in Seq(S) /\ Tail(gs) \in Seq(Seq(S)) /\ Len(Tail(gs)) = Len(gs) - 1 /\ Head(gs) = gs[1]
      /\ \A i \in 1..Len(Tail(gs)) : Tail(gs)[i] = gs[i + 1]
  BY HeadTailProperties
<1>2. gs = <<Head(gs)>> \o Tail(gs)
  BY <1>1
<1>3. <<Head(gs)>> \in Seq(Seq(S)) /\ FlattenSeq(<<Head(gs)>>) = Head(gs)
  BY <1>1, FlatOne
<1>4. FlattenSeq(gs) = Head(gs) \o FlattenSeq(Tail(gs))
  BY <1>1, <1>2, <1>3, FlatConcat
<1>5. Head(gs) # <<>>
  BY <1>1
<1>6. \A k \in 1..Len(Tail(gs)) : Tail(gs)[k] # <<>>
  <2>1. \A k \in 1..Len(Tail(gs)) : k + 1 \in 1..Len(gs)
    BY <1>1
  <2> QED
    BY <1>1, <2>1
<1>7. FlattenSeq(Tail(gs)) \in Seq(S)
  BY <1>1, FlatTyped
<1> QED
  BY <1>1, <1>4, <1>5, <1>6, <1>7

(* The pages of the list of files. *)
ReadUpTo(files, h, rev) ==
  Len(files) <= Len(h) /\ \A i \in 1..Len(files) : files[i] = [file |-> h[i], rev |-> rev]

LEMMA PageIs ==
  ASSUME NEW h \in Seq(FileChange), NEW page \in Nat \ {0}, NEW n, n = (page - 1) * PerPage
  PROVE  /\ PageOf(h, page) \in Seq(FileChange) /\ n \in Nat /\ page * PerPage = n + PerPage
         /\ n <= Len(h) => /\ Len(PageOf(h, page)) = IF n + PerPage < Len(h) THEN PerPage ELSE Len(h) - n
                           /\ \A i \in 1..Len(PageOf(h, page)) : PageOf(h, page)[i] = h[n + i]
<1>1. PerPage \in Nat \ {0}
  BY PartsAssumption
<1>2. n \in Nat /\ page * PerPage = n + PerPage
  BY <1>1
<1> DEFINE l == Len(h)
           b == IF n + PerPage < l THEN n + PerPage ELSE l
           a == n + 1
<1>3. PageOf(h, page) = SubSeq(h, a, b)
  <2> DEFINE last == page * PerPage
  <2>1. last - PerPage + 1 = a /\ last = n + PerPage
    BY <1>1, <1>2
  <2>2. PageOf(h, page) = SubSeq(h, last - PerPage + 1, IF last < l THEN last ELSE l)
    BY DEF PageOf
  <2> HIDE DEF last, a
  <2> QED
    BY <2>1, <2>2
<1>4. l \in Nat /\ a \in Int /\ b \in Int /\ a >= 1 /\ b <= l
  BY <1>1, <1>2
<1>5. \A i \in a..b : h[i] \in FileChange
  BY <1>4
<1>6. n <= l => (IF a <= b THEN b - a + 1 ELSE 0) = (IF n + PerPage < l THEN PerPage ELSE l - n)
  <2> DEFINE m == PerPage
  <2>1. m \in Nat /\ m >= 1 /\ n \in Nat /\ l \in Nat
    BY <1>1, <1>2, <1>4
  <2>2. a = n + 1 /\ b = IF n + m < l THEN n + m ELSE l
    OBVIOUS
  <2> HIDE DEF m, a, b, l
  <2>3. n <= l => (IF a <= b THEN b - a + 1 ELSE 0) = (IF n + m < l THEN m ELSE l - n)
    <3>1. CASE n + m < l
      BY <2>1, <2>2, <3>1
    <3>2. CASE ~(n + m < l)
      BY <2>1, <2>2, <3>2
    <3> QED
      BY <3>1, <3>2
  <2> QED
    BY <2>3 DEF m
<1>7. \A i \in Int : a + i - 1 = n + i
  BY <1>2
<1> HIDE DEF a, b, l
<1>8. /\ SubSeq(h, a, b) \in Seq(FileChange)
      /\ Len(SubSeq(h, a, b)) = IF a <= b THEN b - a + 1 ELSE 0
      /\ \A i \in 1 .. b - a + 1 : SubSeq(h, a, b)[i] = h[a + i - 1]
  BY <1>4, <1>5, SubSeqProperties
<1>9. \A i \in 1..Len(SubSeq(h, a, b)) : i \in 1 .. b - a + 1 /\ i \in Int
  BY <1>4, <1>8
<1>10. \A i \in 1..Len(SubSeq(h, a, b)) : SubSeq(h, a, b)[i] = h[n + i]
  BY <1>7, <1>8, <1>9
<1> QED
  BY <1>2, <1>3, <1>6, <1>8, <1>10 DEF l

PageAdds(more, files, h, page, rev) ==
  Len(files) = (page - 1) * PerPage /\ ReadUpTo(files, h, rev)
    => /\ ReadUpTo(more, h, rev)
       /\ Len(PageOf(h, page)) < PerPage => Len(more) = Len(h)
       /\ ~(Len(PageOf(h, page)) < PerPage) => Len(more) = page * PerPage

LEMMA PageRead ==
  ASSUME NEW h \in Seq(FileChange), NEW page \in Nat \ {0}, NEW files \in Seq(FileEntry), NEW rev \in Nat,
         NEW more, more = files \o EntriesOf(PageOf(h, page), rev)
  PROVE  /\ more \in Seq(FileEntry) /\ Len(PageOf(h, page)) \in Nat
         /\ PageAdds(more, files, h, page, rev)
<1> DEFINE items == PageOf(h, page)
           n == (page - 1) * PerPage
           es == EntriesOf(items, rev)
<1>1. /\ items \in Seq(FileChange) /\ n \in Nat /\ page * PerPage = n + PerPage
      /\ n <= Len(h) => /\ Len(items) = IF n + PerPage < Len(h) THEN PerPage ELSE Len(h) - n
                        /\ \A i \in 1..Len(items) : items[i] = h[n + i]
  BY PageIs
<1> HIDE DEF items, n
<1>2. es \in Seq(FileEntry) /\ Len(es) = Len(items) /\ \A i \in 1..Len(items) : es[i] = [file |-> items[i], rev |-> rev]
  <2>1. CASE items = <<>>
    <3>1. es = <<>>
      BY <2>1 DEF EntriesOf
    <3>2. <<>> \in Seq(FileEntry) /\ Len(<<>>) = 0 /\ \A i \in 1..0 : FALSE
      OBVIOUS
    <3> HIDE DEF es
    <3> QED
      BY <2>1, <3>1, <3>2
  <2>2. CASE items # <<>>
    <3>1. items[1] \in FileChange
      BY <1>1, <2>2
    <3>2. es \in Seq(FileEntry) /\ Len(es) = Len(items)
      BY <1>1, <3>1, EntriesGrow
    <3> QED
      BY <1>1, <3>2 DEF EntriesOf
  <2> QED
    BY <2>1, <2>2
<1> HIDE DEF es
<1>3. more = files \o es
  BY DEF es, items
<1>4. more \in Seq(FileEntry) /\ Len(more) = Len(files) + Len(items)
      /\ (\A i \in 1..Len(files) : more[i] = files[i])
      /\ \A i \in 1..Len(items) : more[Len(files) + i] = es[i]
  BY <1>2, <1>3, ConcatProperties
<1>5. Len(items) \in Nat /\ Len(files) \in Nat /\ Len(h) \in Nat /\ PerPage \in Nat \ {0}
  BY <1>1, PartsAssumption
<1>6. ASSUME Len(files) = n, ReadUpTo(files, h, rev)
      PROVE  /\ ReadUpTo(more, h, rev)
             /\ Len(items) < PerPage => Len(more) = Len(h)
             /\ ~(Len(items) < PerPage) => Len(more) = page * PerPage
  <2>1. n <= Len(h)
    BY <1>6 DEF ReadUpTo
  <2>2. Len(more) <= Len(h)
    BY <1>1, <1>4, <1>5, <1>6, <2>1
  <2>3. ASSUME NEW i \in 1..Len(more) PROVE more[i] = [file |-> h[i], rev |-> rev]
    <3>1. CASE i <= Len(files)
      <4>1. i \in 1..Len(files)
        BY <1>4, <1>5, <3>1
      <4> QED
        BY <1>4, <1>6, <4>1 DEF ReadUpTo
    <3>2. CASE ~(i <= Len(files))
      <4> DEFINE j == i - Len(files)
      <4>1. j \in 1..Len(items) /\ i = Len(files) + j /\ i = n + j
        BY <1>4, <1>5, <1>6, <3>2
      <4> HIDE DEF j
      <4>2. more[i] = [file |-> items[j], rev |-> rev]
        BY <1>2, <1>4, <4>1
      <4>3. items[j] = h[i]
        BY <1>1, <2>1, <4>1
      <4> QED
        BY <4>2, <4>3
    <3> QED
      BY <3>1, <3>2
  <2>4. Len(items) < PerPage => Len(more) = Len(h)
    BY <1>1, <1>4, <1>5, <1>6, <2>1
  <2>5. ~(Len(items) < PerPage) => Len(more) = page * PerPage
    <3> DEFINE q == page * PerPage
               m == PerPage
               k == Len(items)
               l == Len(h)
    <3>1. q = n + m /\ m \in Nat /\ k \in Nat /\ l \in Nat /\ n \in Nat /\ n <= l
          /\ k = (IF n + m < l THEN m ELSE l - n) /\ Len(more) = n + k
      BY <1>1, <1>4, <1>5, <1>6, <2>1
    <3> HIDE DEF q, m, k, l
    <3>2. ~(k < m) => Len(more) = q
      BY <3>1
    <3> QED
      BY <3>2 DEF q, m, k
  <2> QED
    BY <2>2, <2>3, <2>4, <2>5 DEF ReadUpTo
<1> QED
  BY <1>4, <1>5, <1>6 DEF items, n, PageAdds

LEMMA ReadWhole ==
  ASSUME NEW h \in Seq(FileChange), NEW files \in Seq(FileEntry), NEW rev \in Nat,
         ReadUpTo(files, h, rev), Len(files) >= Len(h)
  PROVE  files = EntriesOf(h, rev)
<1>1. Len(files) = Len(h) /\ DOMAIN files = 1..Len(h) /\ DOMAIN h = 1..Len(h)
  BY DEF ReadUpTo
<1>2. files = [i \in 1..Len(h) |-> files[i]]
  BY <1>1
<1>3. \A i \in 1..Len(h) : files[i] = [file |-> h[i], rev |-> rev]
  BY <1>1 DEF ReadUpTo
<1> QED
  BY <1>1, <1>2, <1>3 DEF EntriesOf

-----------------------------------------------------------------------------
(* The review from its first request to its reply: what holds while no     *)
(* push comes is said of the head that is read, and once the reply is made  *)
(* of the head that it names.                                               *)
PullRequest == [head : Nat, count : Nat, page : Nat \ {0}, files : Seq(FileEntry), diff : Nat]
DocsState == [active : BOOLEAN, used : BOOLEAN, notes : SUBSET {"not_selected", "unavailable"}]

PartsTyped ==
  /\ HistoryRead /\ tip \in 1..Len(history)
  /\ pr \in PullRequest /\ pr.head <= tip
  /\ parts \in Seq(DiffItem) /\ plan \in Seq(DiffItem)
  /\ docs \in DocsState
  /\ partials \in Seq(Section) /\ groups \in Seq(Seq(Section))
  /\ step # "done" => ~reply.ok

AllShown == Tokens(Joined(plan).lines) = Tokens(DiffText(history[pr.head], pr.head).lines)

PartsRead ==
  /\ step = "meta" => pr.page = 1 /\ pr.files = <<>>
  /\ step = "plan" => pr.diff \in 1..Len(history)
  /\ step = "files" /\ pr.head = tip => /\ Len(pr.files) = (pr.page - 1) * PerPage
                                        /\ ReadUpTo(pr.files, history[pr.head], pr.head)
                                        /\ pr.count \in {0, Len(history[pr.head])}
  /\ step \in {"diff", "plan"} /\ pr.head = tip => pr.files = EntriesOf(history[pr.head], pr.head)
  /\ step = "plan" /\ pr.head = tip => pr.diff = pr.head
  /\ step \in {"docs", "code", "write", "merge", "head"} /\ pr.head = tip => Skipped = {} /\ AllShown

PartsLeft ==
  /\ step \in {"meta", "files", "diff", "plan"} => partials = <<>>
  /\ step \in {"docs", "code", "write"} => /\ parts # <<>> /\ Len(parts) <= Len(plan)
                                           /\ Covered(partials) = UpToPart(Len(plan) - Len(parts))
  /\ step = "merge" => /\ groups # <<>> /\ \A k \in 1..Len(groups) : groups[k] # <<>>
                       /\ Covered(partials) \o Covered(FlattenSeq(groups)) = UpToPart(Len(plan))
  /\ step = "head" => IF partials = <<>> THEN plan = <<>> ELSE partials[1].covers = UpToPart(Len(plan))

PlanFits == HeaderSize < Available => Fitting(plan, Available)

DocsTold == /\ ~docs.active => docs.notes # {}
            /\ step \in {"code", "write", "merge"} => docs.used \/ docs.notes # {}
            /\ step = "head" /\ plan # <<>> => docs.used \/ docs.notes # {}

RepliesTrue == EveryLineShown /\ EveryPartMerged /\ SilenceExplained

PartsInv == PartsTyped /\ PartsRead /\ PartsLeft /\ PlanFits /\ DocsTold /\ RepliesTrue

LEMMA PartsStart == PartsInit => PartsInv
<1> SUFFICES ASSUME PartsInit PROVE PartsInv
  OBVIOUS
<1>1. HistoryRead /\ tip \in 1..Len(history)
  <2>1. history \in Seq(Seq(FileChange)) /\ history # <<>> /\ \A rev \in DOMAIN history : OncePerPath(history[rev])
    BY PartsAssumption DEF PartsInit
  <2> QED
    BY <2>1 DEF PartsInit, HistoryRead
<1>2. PartsTyped
  <2>1. pr \in PullRequest /\ pr.head = 0
    BY DEF PartsInit, PullRequest
  <2>2. docs \in DocsState
    <3>1. PICK active \in BOOLEAN :
            docs = [active |-> active, used |-> FALSE, notes |-> IF active THEN {} ELSE {"not_selected"}]
      BY DEF PartsInit
    <3> DEFINE notes == IF active THEN {} ELSE {"not_selected"}
    <3>2. notes \in SUBSET {"not_selected", "unavailable"}
      OBVIOUS
    <3>3. docs = [active |-> active, used |-> FALSE, notes |-> notes]
      BY <3>1
    <3> HIDE DEF notes
    <3> QED
      BY <3>2, <3>3 DEF DocsState
  <2>3. parts = <<>> /\ plan = <<>> /\ partials = <<>> /\ groups = <<>> /\ ~reply.ok /\ tip = 1
    BY DEF PartsInit, NoReply
  <2>4. \A S : <<>> \in Seq(S)
    OBVIOUS
  <2> QED
    BY <1>1, <2>1, <2>2, <2>3, <2>4 DEF PartsTyped
<1>3. PartsRead /\ PartsLeft
  BY DEF PartsInit, PartsRead, PartsLeft
<1>4. PlanFits
  BY DEF PartsInit, PlanFits, Fitting
<1>5. DocsTold
  BY DEF PartsInit, DocsTold
<1>6. RepliesTrue
  BY DEF PartsInit, RepliesTrue, EveryLineShown, EveryPartMerged, SilenceExplained, NoReply
<1> QED
  BY <1>2, <1>3, <1>4, <1>5, <1>6 DEF PartsInv

(* A step that replies nothing keeps every reply true. *)
LEMMA NoReplyYet ==
  ASSUME PartsInv, step # "done", reply' = reply
  PROVE  RepliesTrue' /\ ~reply'.ok
BY DEF PartsInv, PartsTyped, RepliesTrue, EveryLineShown, EveryPartMerged, SilenceExplained

LEMMA PartsStopped == ASSUME PartsInv, NEW code, Stops(code) PROVE PartsInv'
<1> USE DEF Stops
<1>1. PartsTyped'
  BY DEF PartsInv, PartsTyped, HistoryRead
<1>2. PartsRead' /\ PartsLeft'
  BY DEF PartsRead, PartsLeft
<1>3. PlanFits'
  BY DEF PartsInv, PlanFits, Fitting
<1>4. DocsTold'
  BY DEF PartsInv, DocsTold
<1>5. RepliesTrue'
  BY DEF RepliesTrue, EveryLineShown, EveryPartMerged, SilenceExplained
<1> QED
  BY <1>1, <1>2, <1>3, <1>4, <1>5 DEF PartsInv

LEMMA PartsPushed == ASSUME PartsInv, Pushes PROVE PartsInv'
<1>1. tip \in 1..Len(history) /\ pr.head \in Nat /\ pr.head <= tip /\ history \in Seq(Seq(FileChange))
  BY DEF PartsInv, PartsTyped, PullRequest, HistoryRead
<1>2. /\ tip < Len(history) /\ tip' = tip + 1
      /\ UNCHANGED <<history, step, pr, parts, plan, docs, tries, partials, groups, reply>>
  BY DEF Pushes
<1>3. tip' \in 1..Len(history) /\ ~(pr.head = tip') /\ pr.head <= tip'
  BY <1>1, <1>2
<1>4. PartsTyped'
  BY <1>2, <1>3 DEF PartsInv, PartsTyped, HistoryRead
<1>5. PartsRead'
  BY <1>2, <1>3 DEF PartsInv, PartsRead
<1>6. PartsLeft'
  BY <1>2 DEF PartsInv, PartsLeft
<1>7. PlanFits' /\ DocsTold'
  BY <1>2 DEF PartsInv, PlanFits, Fitting, DocsTold
<1>8. RepliesTrue'
  BY <1>2 DEF PartsInv, RepliesTrue, EveryLineShown, EveryPartMerged, SilenceExplained
<1> QED
  BY <1>4, <1>5, <1>6, <1>7, <1>8 DEF PartsInv

(* The steps that read the pull request leave the rest alone. *)
LEMMA ReadsKeep ==
  ASSUME PartsInv, NEW next, Reads(next), step \in {"meta", "files", "diff"}, next \in {"files", "diff", "plan"}
  PROVE  /\ step' = next /\ tip' = tip /\ history' = history
         /\ PartsLeft' /\ PlanFits' /\ DocsTold' /\ RepliesTrue'
         /\ pr' \in PullRequest /\ pr'.head <= tip => PartsTyped'
<1>1. /\ step' = next
      /\ UNCHANGED <<history, tip, parts, plan, docs, tries, partials, groups, reply>>
  BY DEF Reads
<1>2. PartsLeft'
  BY <1>1 DEF PartsInv, PartsLeft
<1>3. PlanFits' /\ DocsTold'
  BY <1>1 DEF PartsInv, PlanFits, Fitting, DocsTold
<1>4. RepliesTrue' /\ ~reply'.ok
  BY <1>1, NoReplyYet
<1>5. pr' \in PullRequest /\ pr'.head <= tip => PartsTyped'
  BY <1>1, <1>4 DEF PartsInv, PartsTyped, HistoryRead
<1> QED
  BY <1>1, <1>2, <1>3, <1>4, <1>5

LEMMA HeadIs ==
  ASSUME PartsInv
  PROVE  tip \in Nat /\ tip \in 1..Len(history) /\ history[tip] \in Seq(FileChange) /\ Len(history[tip]) \in Nat
BY DEF PartsInv, PartsTyped, HistoryRead

LEMMA MetaRead == ASSUME PartsInv, ReadsMeta PROVE PartsInv'
<1>1. PICK count \in {0, Len(history[tip])} : pr' = [pr EXCEPT !.head = tip, !.count = count]
  BY DEF ReadsMeta
<1>2. step = "meta" /\ Reads("files")
  BY DEF ReadsMeta
<1>3. pr \in PullRequest /\ pr.page = 1 /\ pr.files = <<>>
  BY <1>2 DEF PartsInv, PartsTyped, PartsRead
<1>4. /\ pr' \in PullRequest /\ pr'.head = tip /\ pr'.count = count /\ pr'.page = 1 /\ pr'.files = <<>>
  <2>1. count \in Nat /\ tip \in Nat
    BY <1>1, HeadIs
  <2> QED
    BY <1>1, <1>3, <2>1 DEF PullRequest
<1>5. /\ step' = "files" /\ tip' = tip /\ history' = history
      /\ PartsLeft' /\ PlanFits' /\ DocsTold' /\ RepliesTrue' /\ (pr' \in PullRequest /\ pr'.head <= tip => PartsTyped')
  BY <1>2, ReadsKeep
<1>6. PartsTyped'
  BY <1>4, <1>5, HeadIs
<1>7. PartsRead'
  <2>1. ReadUpTo(<<>>, history[tip], tip)
    BY HeadIs DEF ReadUpTo
  <2>2. Len(<<>>) = (1 - 1) * PerPage
    BY PartsAssumption
  <2>3. ReadUpTo(pr'.files, history'[pr'.head], pr'.head)
    BY <1>4, <1>5, <2>1
  <2> QED
    BY <1>1, <1>4, <1>5, <2>2, <2>3 DEF PartsRead, ReadUpTo
<1> QED
  BY <1>5, <1>6, <1>7 DEF PartsInv

LEMMA DiffRead == ASSUME PartsInv, ReadsDiff PROVE PartsInv'
<1>1. pr' = [pr EXCEPT !.diff = tip] /\ step = "diff" /\ Reads("plan")
  BY DEF ReadsDiff
<1>2. pr \in PullRequest /\ pr.head <= tip
  BY DEF PartsInv, PartsTyped
<1>3. pr' \in PullRequest /\ pr'.head = pr.head /\ pr'.diff = tip /\ pr'.files = pr.files
  BY <1>1, <1>2, HeadIs DEF PullRequest
<1>4. /\ step' = "plan" /\ tip' = tip /\ history' = history
      /\ PartsLeft' /\ PlanFits' /\ DocsTold' /\ RepliesTrue' /\ (pr' \in PullRequest /\ pr'.head <= tip => PartsTyped')
  BY <1>1, ReadsKeep
<1>5. PartsTyped'
  BY <1>2, <1>3, <1>4
<1>6. pr.head = tip => pr.files = EntriesOf(history[pr.head], pr.head)
  BY <1>1 DEF PartsInv, PartsRead
<1>7. PartsRead'
  <2>1. pr'.diff \in 1..Len(history')
    BY <1>3, <1>4, HeadIs
  <2>2. pr'.head = tip' => pr'.files = EntriesOf(history'[pr'.head], pr'.head) /\ pr'.diff = pr'.head
    BY <1>3, <1>4, <1>6
  <2> QED
    BY <1>4, <2>1, <2>2 DEF PartsRead, EntriesOf
<1> QED
  BY <1>4, <1>5, <1>7 DEF PartsInv

LEMMA PageReadOn == ASSUME PartsInv, ReadsPage PROVE PartsInv'
<1> DEFINE items == PageOf(history[tip], pr.page)
           files == pr.files \o EntriesOf(items, tip)
<1>1. step = "files"
  BY DEF ReadsPage
<1>2. \/ /\ Complete(items, files)
         /\ pr' = [pr EXCEPT !.files = files]
         /\ Reads("diff")
      \/ /\ ~Complete(items, files)
         /\ pr' = [pr EXCEPT !.files = files, !.page = @ + 1]
         /\ Reads("files")
      \/ Stops("PR_TOO_LARGE")
  BY DEF ReadsPage, EntriesOf
<1>3. pr \in PullRequest /\ pr.head <= tip /\ pr.page \in Nat \ {0} /\ pr.files \in Seq(FileEntry) /\ pr.page + 1 \in Nat \ {0}
      /\ pr.head \in Nat
  BY DEF PartsInv, PartsTyped, PullRequest
<1>4. pr.head = tip => /\ Len(pr.files) = (pr.page - 1) * PerPage
                       /\ ReadUpTo(pr.files, history[tip], tip)
                       /\ pr.count \in {0, Len(history[tip])}
  BY <1>1 DEF PartsInv, PartsRead
<1>5. /\ files \in Seq(FileEntry) /\ Len(items) \in Nat
      /\ Len(pr.files) = (pr.page - 1) * PerPage /\ ReadUpTo(pr.files, history[tip], tip)
              => /\ ReadUpTo(files, history[tip], tip)
                 /\ Len(items) < PerPage => Len(files) = Len(history[tip])
                 /\ ~(Len(items) < PerPage) => Len(files) = pr.page * PerPage
  <2> DEFINE h == history[tip]
             p == pr.page
             fs == pr.files
             m == fs \o EntriesOf(PageOf(h, p), tip)
  <2>1. h \in Seq(FileChange) /\ p \in Nat \ {0} /\ fs \in Seq(FileEntry) /\ tip \in Nat
    BY <1>3, HeadIs
  <2>2. files = m /\ items = PageOf(h, p)
    OBVIOUS
  <2>4. m = fs \o EntriesOf(PageOf(h, p), tip)
    OBVIOUS
  <2> HIDE DEF h, p, fs, m, files, items
  <2>3. m \in Seq(FileEntry) /\ Len(PageOf(h, p)) \in Nat /\ PageAdds(m, fs, h, p, tip)
    BY <2>1, <2>4, PageRead
  <2> QED
    BY <2>2, <2>3 DEF h, p, fs, PageAdds
<1> HIDE DEF items, files
<1>6. Complete(items, files) <=> Len(items) < PerPage \/ (pr.count # 0 /\ Len(files) >= pr.count)
  BY DEF Complete
<1>7. CASE Stops("PR_TOO_LARGE")
  BY <1>7, PartsStopped
<1>8. CASE Complete(items, files) /\ pr' = [pr EXCEPT !.files = files] /\ Reads("diff")
  <2>1. pr' \in PullRequest /\ pr'.head = pr.head /\ pr'.files = files
    BY <1>3, <1>5, <1>8 DEF PullRequest
  <2>2. /\ step' = "diff" /\ tip' = tip /\ history' = history
        /\ PartsLeft' /\ PlanFits' /\ DocsTold' /\ RepliesTrue' /\ (pr' \in PullRequest /\ pr'.head <= tip => PartsTyped')
    BY <1>1, <1>8, ReadsKeep
  <2>3. PartsTyped'
    BY <1>3, <2>1, <2>2
  <2>4. pr.head = tip => files = EntriesOf(history[tip], tip)
    <3> SUFFICES ASSUME pr.head = tip PROVE files = EntriesOf(history[tip], tip)
      OBVIOUS
    <3>1. ReadUpTo(files, history[tip], tip) /\ (Len(items) < PerPage => Len(files) = Len(history[tip]))
      BY <1>4, <1>5
    <3>2. Len(files) >= Len(history[tip])
      BY <1>4, <1>6, <1>8, <3>1, HeadIs
    <3> QED
      BY <1>5, <3>1, <3>2, HeadIs, ReadWhole
  <2>5. pr'.head = tip' => pr'.files = EntriesOf(history'[pr'.head], pr'.head)
    BY <2>1, <2>2, <2>4
  <2>6. PartsRead'
    BY <2>2, <2>5 DEF PartsRead, EntriesOf
  <2> QED
    BY <2>2, <2>3, <2>6 DEF PartsInv
<1>9. CASE ~Complete(items, files) /\ pr' = [pr EXCEPT !.files = files, !.page = @ + 1] /\ Reads("files")
  <2>1. pr' \in PullRequest /\ pr'.head = pr.head /\ pr'.files = files /\ pr'.page = pr.page + 1 /\ pr'.count = pr.count
    BY <1>3, <1>5, <1>9 DEF PullRequest
  <2>2. /\ step' = "files" /\ tip' = tip /\ history' = history
        /\ PartsLeft' /\ PlanFits' /\ DocsTold' /\ RepliesTrue' /\ (pr' \in PullRequest /\ pr'.head <= tip => PartsTyped')
    BY <1>1, <1>9, ReadsKeep
  <2>3. PartsTyped'
    BY <1>3, <2>1, <2>2
  <2>4. pr.head = tip => ReadUpTo(files, history[tip], tip) /\ Len(files) = pr.page * PerPage
    BY <1>4, <1>5, <1>6, <1>9
  <2>5. pr.page + 1 - 1 = pr.page
    BY <1>3
  <2>6. pr'.head = tip' => /\ Len(pr'.files) = (pr'.page - 1) * PerPage
                           /\ ReadUpTo(pr'.files, history'[pr'.head], pr'.head)
                           /\ pr'.count \in {0, Len(history'[pr'.head])}
    <3> SUFFICES ASSUME pr'.head = tip'
                 PROVE  /\ Len(pr'.files) = (pr'.page - 1) * PerPage
                        /\ ReadUpTo(pr'.files, history'[pr'.head], pr'.head)
                        /\ pr'.count \in {0, Len(history'[pr'.head])}
      OBVIOUS
    <3>1. pr.head = tip /\ pr'.head = tip /\ history' = history
      BY <2>1, <2>2
    <3>2. pr'.page - 1 = pr.page
      BY <1>3, <2>1, <2>5
    <3>3. Len(pr'.files) = (pr'.page - 1) * PerPage
      BY <2>1, <2>4, <3>1, <3>2
    <3>4. pr'.count \in {0, Len(history'[pr'.head])}
      BY <1>4, <2>1, <3>1
    <3>5. ReadUpTo(pr'.files, history'[pr'.head], pr'.head)
      BY <2>1, <2>4, <3>1
    <3> QED
      BY <3>3, <3>4, <3>5
  <2>7. PartsRead'
    BY <2>2, <2>6 DEF PartsRead, ReadUpTo
  <2> QED
    BY <2>2, <2>3, <2>7 DEF PartsInv
<1> QED
  BY <1>2, <1>7, <1>8, <1>9

LEMMA PartReadFailed == ASSUME PartsInv, ReadFails PROVE PartsInv'
BY PartsStopped DEF ReadFails

LEMMA PartModelFailed == ASSUME PartsInv, PartModelFails PROVE PartsInv'
BY PartsStopped DEF PartModelFails

LEMMA PartSearchFailed == ASSUME PartsInv, PartSearchFails PROVE PartsInv'
<1>1. CASE step = "docs" /\ docs.active /\ Stops("EMBEDDER_UNAVAILABLE")
  BY <1>1, PartsStopped
<1>2. CASE step = "code" /\ \E code \in {"EMBEDDER_UNAVAILABLE", "CODE_INDEX_UNAVAILABLE"} : Stops(code)
  BY <1>2, PartsStopped
<1> QED
  BY <1>1, <1>2 DEF PartSearchFails

(* What the plan leaves out depends on what was read only. *)
LEMMA SkippedKept == ASSUME history' = history, pr' = pr PROVE Skipped' = Skipped
BY DEF Skipped, Unreviewed, Known, InDiff

LEMMA ShownKept == ASSUME history' = history, pr' = pr, plan' = plan, AllShown PROVE AllShown'
BY DEF AllShown

LEMMA PartsPlanned == ASSUME PartsInv, PlansParts PROVE PartsInv'
<1>1. CASE Stops("PR_TOO_LARGE")
  BY <1>1, PartsStopped
<1>2. CASE /\ step = "plan" /\ plan' = Planned /\ parts' = Planned
           /\ step' = After(Planned, <<>>)
           /\ UNCHANGED <<history, tip, pr, docs, tries, partials, groups, reply>>
  <2>1. HistoryRead /\ FilesRead
    BY <1>2 DEF PartsInv, PartsTyped, PartsRead, PullRequest, FilesRead
  <2>2. Planned \in Seq(DiffItem) /\ (HeaderSize < Available => Fitting(Planned, Available))
    BY <2>1, PlannedFits
  <2>3. partials = <<>> /\ step # "done"
    BY <1>2 DEF PartsInv, PartsLeft
  <2>4. step' = IF Planned # <<>> THEN "docs" ELSE "head"
    BY <1>2 DEF After
  <2>5. PartsTyped'
    <3>1. (step # "done" => ~reply.ok) /\ step # "done"
      BY <2>3 DEF PartsInv, PartsTyped
    <3> QED
      BY <1>2, <2>2, <3>1 DEF PartsInv, PartsTyped, HistoryRead
  <2>6. PartsRead'
    <3>1. pr.head = tip => pr.diff = pr.head /\ pr.files = EntriesOf(history[pr.diff], pr.diff)
      BY <1>2 DEF PartsInv, PartsRead
    <3>2. pr.head = tip => Skipped = {} /\ ItemTokens(Planned) = Tokens(DiffText(history[pr.head], pr.head).lines)
      <4> SUFFICES ASSUME pr.head = tip
                   PROVE  Skipped = {} /\ ItemTokens(Planned) = Tokens(DiffText(history[pr.head], pr.head).lines)
        OBVIOUS
      <4>1. Skipped = {} /\ ItemTokens(Planned) = Tokens(DiffText(history[pr.diff], pr.diff).lines)
        BY <2>1, <3>1, AllPlanned
      <4> QED
        BY <3>1, <4>1
    <3>3. Tokens(Joined(Planned).lines) = ItemTokens(Planned)
      BY JoinedIs DEF ItemTokens
    <3>4. Skipped' = Skipped
      BY <1>2, SkippedKept
    <3>5. pr.head = tip => AllShown'
      <4> DEFINE p == Planned
      <4>1. pr.head = tip => Tokens(Joined(p).lines) = Tokens(DiffText(history[pr.head], pr.head).lines)
        BY <3>2, <3>3
      <4>2. plan' = p
        BY <1>2
      <4> HIDE DEF p
      <4> QED
        BY <1>2, <4>1, <4>2 DEF AllShown
    <3>6. step' \in {"docs", "head"}
      BY <2>4
    <3>7. pr'.head = tip' => Skipped' = {} /\ AllShown'
      BY <1>2, <3>2, <3>4, <3>5
    <3> QED
      BY <3>6, <3>7 DEF PartsRead
  <2>7. PartsLeft'
    <3>1. UpToPart(Len(Planned) - Len(Planned)) = <<>>
      <4>1. Len(Planned) - Len(Planned) = 0
        BY <2>2
      <4> QED
        BY <4>1 DEF UpToPart
    <3>2. Len(Planned) <= Len(Planned)
      BY <2>2
    <3>3. Covered(<<>>) = <<>>
      BY CoveredNone
    <3>4. partials' = <<>> /\ plan' = Planned /\ parts' = Planned
      BY <1>2, <2>3
    <3>5. CASE Planned # <<>>
      <4>1. step' = "docs"
        BY <2>4, <3>5
      <4>2. parts' # <<>> /\ Len(parts') <= Len(plan')
        BY <3>2, <3>4, <3>5
      <4>3. Covered(partials') = UpToPart(Len(plan') - Len(parts'))
        BY <3>1, <3>3, <3>4
      <4> QED
        BY <4>1, <4>2, <4>3 DEF PartsLeft, Covered, CoversOf, UpToPart
    <3>6. CASE Planned = <<>>
      BY <2>4, <3>4, <3>6 DEF PartsLeft
    <3> QED
      BY <3>5, <3>6
  <2>8. PlanFits'
    BY <1>2, <2>2 DEF PlanFits, Fitting
  <2>9. DocsTold'
    <3>1. step' = "docs" \/ (step' = "head" /\ plan' = <<>>)
      BY <1>2, <2>4
    <3> QED
      BY <1>2, <3>1 DEF PartsInv, DocsTold
  <2>10. RepliesTrue'
    BY <1>2, <2>3, NoReplyYet
  <2> QED
    BY <2>5, <2>6, <2>7, <2>8, <2>9, <2>10 DEF PartsInv
<1> QED
  BY <1>1, <1>2 DEF PlansParts

(* While the parts are reviewed, what was read and the plan stay. *)
Reviewing == step \in {"docs", "code", "write", "merge"} /\ step' \in {"docs", "code", "write", "merge", "head"}
             /\ UNCHANGED <<history, tip, pr, plan, reply>>

LEMMA ReviewKeeps ==
  ASSUME PartsInv, Reviewing
  PROVE  /\ PartsRead' /\ PlanFits' /\ RepliesTrue'
         /\ HistoryRead' /\ tip' \in 1..Len(history') /\ pr' \in PullRequest /\ pr'.head <= tip'
         /\ plan' \in Seq(DiffItem) /\ ~reply'.ok
<1>1. /\ step' \in {"docs", "code", "write", "merge", "head"} /\ step \in {"docs", "code", "write", "merge"}
      /\ history' = history /\ tip' = tip /\ pr' = pr /\ plan' = plan /\ reply' = reply
  BY DEF Reviewing
<1>2. pr.head = tip => Skipped = {} /\ AllShown
  BY <1>1 DEF PartsInv, PartsRead
<1>3. pr'.head = tip' => Skipped' = {} /\ AllShown'
  BY <1>1, <1>2, SkippedKept, ShownKept
<1>4. PartsRead'
  BY <1>1, <1>3 DEF PartsRead
<1>5. PlanFits'
  BY <1>1 DEF PartsInv, PlanFits, Fitting
<1>6. RepliesTrue' /\ ~reply'.ok
  BY <1>1, NoReplyYet
<1> QED
  BY <1>1, <1>4, <1>5, <1>6 DEF PartsInv, PartsTyped, HistoryRead

LEMMA DocsSearched == ASSUME PartsInv, SearchesDocs PROVE PartsInv'
<1>1. /\ step = "docs" /\ step' = "code"
      /\ UNCHANGED <<history, tip, pr, parts, plan, tries, partials, groups, reply>>
  BY DEF SearchesDocs
<1>2. Reviewing
  BY <1>1 DEF Reviewing
<1>3. docs \in DocsState /\ (~docs.active => docs.notes # {})
  BY DEF PartsInv, PartsTyped, DocsTold
<1>4. docs' \in DocsState /\ (~docs'.active => docs'.notes # {}) /\ (docs'.used \/ docs'.notes # {})
  <2>1. CASE ~docs.active /\ docs' = docs
    BY <1>3, <2>1
  <2>2. CASE docs.active /\ docs' = [docs EXCEPT !.used = TRUE]
    BY <1>3, <2>2 DEF DocsState
  <2>3. CASE docs.active /\ docs' = [docs EXCEPT !.active = FALSE, !.notes = @ \cup {"unavailable"}]
    BY <1>3, <2>3 DEF DocsState
  <2> QED
    BY <2>1, <2>2, <2>3 DEF SearchesDocs
<1>5. PartsLeft'
  BY <1>1 DEF PartsInv, PartsLeft
<1>6. DocsTold'
  BY <1>1, <1>4 DEF DocsTold
<1>7. PartsTyped'
  BY <1>1, <1>2, <1>4, ReviewKeeps DEF PartsInv, PartsTyped
<1> QED
  BY <1>2, <1>5, <1>6, <1>7, ReviewKeeps DEF PartsInv

LEMMA CodeSearched == ASSUME PartsInv, SearchesCode PROVE PartsInv'
<1>1. /\ step = "code" /\ step' = "write"
      /\ UNCHANGED <<history, tip, pr, parts, plan, docs, tries, partials, groups, reply>>
  BY DEF SearchesCode
<1>2. Reviewing
  BY <1>1 DEF Reviewing
<1>3. PartsLeft'
  BY <1>1 DEF PartsInv, PartsLeft
<1>4. DocsTold'
  BY <1>1 DEF PartsInv, DocsTold
<1>5. PartsTyped'
  BY <1>1, <1>2, ReviewKeeps DEF PartsInv, PartsTyped
<1> QED
  BY <1>2, <1>3, <1>4, <1>5, ReviewKeeps DEF PartsInv

LEMMA Repeated == ASSUME PartsInv, Malformed PROVE PartsInv'
<1>1. CASE UNCHANGED <<history, tip, step, pr, parts, plan, docs, partials, groups, reply>>
  <2>1. step \in {"write", "merge"}
    BY DEF Malformed, Calls
  <2>2. Reviewing
    BY <1>1, <2>1 DEF Reviewing
  <2>3. PartsLeft'
    BY <1>1 DEF PartsInv, PartsLeft
  <2>4. DocsTold'
    BY <1>1 DEF PartsInv, DocsTold
  <2>5. PartsTyped'
    BY <1>1, <2>2, ReviewKeeps DEF PartsInv, PartsTyped
  <2> QED
    BY <2>2, <2>3, <2>4, <2>5, ReviewKeeps DEF PartsInv
<1>2. CASE Stops("REVIEW_BAD_OUTPUT")
  BY <1>2, PartsStopped
<1> QED
  BY <1>1, <1>2 DEF Malformed

LEMMA NextPart ==
  ASSUME NEW n \in Nat
  PROVE  UpToPart(n) \in Seq(Nat) /\ Len(UpToPart(n)) = n /\ UpToPart(n) \o <<n + 1>> = UpToPart(n + 1)
<1>1. UpToPart(n) \in [1..n -> Nat] /\ UpToPart(n + 1) \in [1..n + 1 -> Nat]
  BY DEF UpToPart
<1>2. UpToPart(n) \in Seq(Nat) /\ Len(UpToPart(n)) = n
  BY <1>1, AsSeq
<1>3. UpToPart(n + 1) \in Seq(Nat) /\ Len(UpToPart(n + 1)) = n + 1
  <2> DEFINE m == n + 1
  <2>1. m \in Nat /\ UpToPart(m) \in [1..m -> Nat]
    BY <1>1
  <2> HIDE DEF m
  <2>2. UpToPart(m) \in Seq(Nat) /\ Len(UpToPart(m)) = m
    BY <2>1, AsSeq
  <2> QED
    BY <2>2 DEF m
<1>4. <<n + 1>> \in Seq(Nat) /\ Len(<<n + 1>>) = 1 /\ <<n + 1>>[1] = n + 1
  OBVIOUS
<1>5. /\ UpToPart(n) \o <<n + 1>> \in Seq(Nat) /\ Len(UpToPart(n) \o <<n + 1>>) = n + 1
      /\ (\A i \in 1..n : (UpToPart(n) \o <<n + 1>>)[i] = UpToPart(n)[i])
      /\ \A i \in 1..1 : (UpToPart(n) \o <<n + 1>>)[n + i] = <<n + 1>>[i]
  <2> DEFINE a == UpToPart(n)
             b == <<n + 1>>
  <2>1. a \in Seq(Nat) /\ b \in Seq(Nat) /\ Len(a) = n /\ Len(b) = 1
    BY <1>2, <1>4
  <2> HIDE DEF a, b
  <2>2. /\ a \o b \in Seq(Nat) /\ Len(a \o b) = Len(a) + Len(b)
        /\ (\A i \in 1..Len(a) : (a \o b)[i] = a[i]) /\ \A i \in 1..Len(b) : (a \o b)[Len(a) + i] = b[i]
    <3>1. /\ a \o b \in Seq(Nat) /\ Len(a \o b) = Len(a) + Len(b)
          /\ \A i \in 1..Len(a) + Len(b) : (a \o b)[i] = IF i <= Len(a) THEN a[i] ELSE b[i - Len(a)]
      BY <2>1, ConcatProperties
    <3>2. \A i \in 1..Len(a) : i \in 1..Len(a) + Len(b) /\ i <= Len(a)
      BY <2>1
    <3>3. \A i \in 1..Len(b) : Len(a) + i \in 1..Len(a) + Len(b) /\ ~(Len(a) + i <= Len(a)) /\ Len(a) + i - Len(a) = i
      BY <2>1
    <3>4. \A i \in 1..Len(a) : (a \o b)[i] = a[i]
      BY <3>1, <3>2
    <3>5. \A i \in 1..Len(b) : (a \o b)[Len(a) + i] = b[i]
      BY <3>1, <3>3
    <3> QED
      BY <3>1, <3>4, <3>5
  <2>3. a \o b \in Seq(Nat) /\ Len(a \o b) = n + 1 /\ (\A i \in 1..n : (a \o b)[i] = a[i]) /\ \A i \in 1..1 : (a \o b)[n + i] = b[i]
    BY <2>1, <2>2
  <2> QED
    BY <2>3 DEF a, b
<1>6. \A i \in 1..n + 1 : (UpToPart(n) \o <<n + 1>>)[i] = UpToPart(n + 1)[i]
  <2>1. \A i \in 1..n + 1 : i \in 1..n \/ i = n + 1
    OBVIOUS
  <2>2. \A i \in 1..n : (UpToPart(n) \o <<n + 1>>)[i] = i
    BY <1>5 DEF UpToPart
  <2>3. (UpToPart(n) \o <<n + 1>>)[n + 1] = n + 1
    <3>1. 1 \in 1..1
      OBVIOUS
    <3> QED
      BY <1>4, <1>5, <3>1
  <2>4. \A i \in 1..n + 1 : UpToPart(n + 1)[i] = i
    BY DEF UpToPart
  <2> QED
    BY <2>1, <2>2, <2>3, <2>4
<1> DEFINE a == UpToPart(n) \o <<n + 1>>
           b == UpToPart(n + 1)
<1>7. a \in Seq(Nat) /\ b \in Seq(Nat) /\ Len(a) = Len(b) /\ \A i \in 1..Len(a) : a[i] = b[i]
  BY <1>3, <1>5, <1>6
<1> HIDE DEF a, b
<1>8. a = b
  BY <1>7, SeqEqual
<1> QED
  BY <1>2, <1>8 DEF a, b

(* A level of sections that is complete goes on as the next level or is the *)
(* review.                                                                  *)
LEMMA LevelEnds ==
  ASSUME NEW s \in Seq(Section), s # <<>>, NEW n \in Nat, Covered(s) = UpToPart(n)
  PROVE  /\ Len(s) > 1 => /\ Grouped(s) \in Seq(Seq(Section)) /\ Grouped(s) # <<>>
                          /\ \A k \in 1..Len(Grouped(s)) : Grouped(s)[k] # <<>>
                          /\ Covered(<<>>) \o Covered(FlattenSeq(Grouped(s))) = UpToPart(n)
         /\ ~(Len(s) > 1) => Len(s) = 1 /\ Grouped(s) = <<>> /\ s[1].covers = UpToPart(n)
<1>1. Len(s) \in Nat /\ Len(s) # 0
  OBVIOUS
<1>2. ASSUME Len(s) > 1
      PROVE /\ Grouped(s) \in Seq(Seq(Section)) /\ Grouped(s) # <<>>
            /\ \A k \in 1..Len(Grouped(s)) : Grouped(s)[k] # <<>>
            /\ Covered(<<>>) \o Covered(FlattenSeq(Grouped(s))) = UpToPart(n)
  <2>1. Len(s) >= 2
    BY <1>1, <1>2
  <2>2. Covered(FlattenSeq(Grouped(s))) = UpToPart(n)
    BY <2>1, GroupedIs
  <2>3. Covered(<<>>) \o Covered(FlattenSeq(Grouped(s))) = UpToPart(n)
    BY <2>2, CoveredNone, NextPart, ConcatEmptySeq
  <2> QED
    BY <2>1, <2>3, GroupedIs
<1>3. ASSUME ~(Len(s) > 1) PROVE Len(s) = 1 /\ Grouped(s) = <<>> /\ s[1].covers = UpToPart(n)
  <2>1. Len(s) = 1 /\ Len(s) < 2
    <3> DEFINE l == Len(s)
    <3>1. l \in Nat /\ l # 0 /\ ~(l > 1)
      BY <1>1, <1>3
    <3> HIDE DEF l
    <3>2. l = 1 /\ l < 2
      BY <3>1
    <3> QED
      BY <3>2 DEF l
  <2>2. s[1] \in Section /\ s = <<s[1]>>
    BY <2>1
  <2>3. Covered(<<s[1]>>) = s[1].covers
    BY <2>2, CoveredOne
  <2> QED
    BY <2>1, <2>2, <2>3, GroupedIs
<1> QED
  BY <1>2, <1>3

LEMMA PartWritten == ASSUME PartsInv, PartWrites PROVE PartsInv'
<1>1. PICK size \in AnswerSizes :
        LET section == [covers |-> <<Len(plan) - Len(parts) + 1>>, size |-> size]
            sections == Append(partials, section)
            rest == Tail(parts)
        IN  /\ parts' = rest /\ partials' = IF rest = <<>> /\ Len(sections) > 1 THEN <<>> ELSE sections
            /\ groups' = IF rest = <<>> THEN Grouped(sections) ELSE <<>>
            /\ step' = After(rest, sections)
  BY DEF PartWrites
<1> DEFINE n == Len(plan) - Len(parts)
           section == [covers |-> <<n + 1>>, size |-> size]
           sections == Append(partials, section)
           rest == Tail(parts)
<1>2. /\ parts' = rest /\ partials' = IF rest = <<>> /\ Len(sections) > 1 THEN <<>> ELSE sections
      /\ groups' = IF rest = <<>> THEN Grouped(sections) ELSE <<>>
      /\ step' = IF rest # <<>> THEN "docs" ELSE IF Len(sections) > 1 THEN "merge" ELSE "head"
      /\ step = "write" /\ UNCHANGED <<history, tip, pr, plan, docs, reply>>
  BY <1>1 DEF PartWrites, After
<1>3. /\ parts \in Seq(DiffItem) /\ parts # <<>> /\ plan \in Seq(DiffItem) /\ Len(parts) <= Len(plan)
      /\ partials \in Seq(Section) /\ Covered(partials) = UpToPart(n)
  BY <1>2 DEF PartsInv, PartsTyped, PartsLeft
<1>4. n \in Nat /\ rest \in Seq(DiffItem) /\ Len(rest) = Len(parts) - 1 /\ Len(parts) \in Nat /\ Len(plan) \in Nat
  BY <1>3
<1>5. Len(plan) - Len(rest) = n + 1 /\ Len(rest) <= Len(plan) /\ (rest = <<>> => Len(plan) = n + 1)
  <2> DEFINE p == Len(parts)
             q == Len(plan)
             r == Len(rest)
  <2>1. p \in Nat /\ q \in Nat /\ r = p - 1 /\ p <= q /\ n = q - p /\ (rest = <<>> => r = 0)
    <3>1. p \in Nat /\ q \in Nat /\ r = p - 1 /\ p <= q
      BY <1>3, <1>4
    <3>2. n = q - p
      OBVIOUS
    <3>3. Len(<<>>) = 0
      OBVIOUS
    <3>4. rest = <<>> => r = 0
      BY <3>3
    <3> HIDE DEF p, q, r, n, rest
    <3> QED
      BY <3>1, <3>2, <3>4
  <2> HIDE DEF p, q, r, n, rest
  <2>2. q - r = n + 1 /\ r <= q /\ (r = 0 => q = n + 1)
    BY <2>1
  <2> QED
    BY <2>1, <2>2 DEF p, q, r
<1>6. size \in Nat
  BY PartsAssumption
<1> HIDE DEF n, rest
<1>7. section \in Section /\ section.covers = <<n + 1>>
  BY <1>4, <1>6 DEF Section
<1> HIDE DEF section
<1>8. sections \in Seq(Section) /\ sections # <<>> /\ Covered(sections) = UpToPart(n + 1) /\ n + 1 \in Nat
  <2>1. Covered(sections) = Covered(partials) \o section.covers
    BY <1>3, <1>7, CoveredAppend
  <2>2. UpToPart(n) \o <<n + 1>> = UpToPart(n + 1)
    BY <1>4, NextPart
  <2>3. sections \in Seq(Section) /\ sections # <<>>
    BY <1>3, <1>7, AppendProperties
  <2>4. Covered(sections) = UpToPart(n + 1)
    BY <1>3, <1>7, <2>1, <2>2
  <2> QED
    BY <1>4, <2>3, <2>4
<1> HIDE DEF sections
<1>9. /\ Len(sections) > 1 => /\ Grouped(sections) \in Seq(Seq(Section)) /\ Grouped(sections) # <<>>
                              /\ \A k \in 1..Len(Grouped(sections)) : Grouped(sections)[k] # <<>>
                              /\ Covered(<<>>) \o Covered(FlattenSeq(Grouped(sections))) = UpToPart(n + 1)
      /\ ~(Len(sections) > 1) => Len(sections) = 1 /\ Grouped(sections) = <<>> /\ sections[1].covers = UpToPart(n + 1)
  <2> DEFINE m == n + 1
  <2>1. m \in Nat /\ Covered(sections) = UpToPart(m)
    BY <1>8
  <2> HIDE DEF m
  <2>2. /\ Len(sections) > 1 => /\ Grouped(sections) \in Seq(Seq(Section)) /\ Grouped(sections) # <<>>
                                /\ \A k \in 1..Len(Grouped(sections)) : Grouped(sections)[k] # <<>>
                                /\ Covered(<<>>) \o Covered(FlattenSeq(Grouped(sections))) = UpToPart(m)
        /\ ~(Len(sections) > 1) => Len(sections) = 1 /\ Grouped(sections) = <<>> /\ sections[1].covers = UpToPart(m)
    BY <1>8, <2>1, LevelEnds
  <2> QED
    BY <2>2 DEF m
<1>10. Reviewing
  BY <1>2 DEF Reviewing
<1>11. partials' \in Seq(Section) /\ groups' \in Seq(Seq(Section))
  <2>1. \A S : <<>> \in Seq(S)
    OBVIOUS
  <2> QED
    BY <1>2, <1>8, <1>9, <2>1
<1>12. PartsTyped'
  BY <1>2, <1>4, <1>10, <1>11, ReviewKeeps DEF PartsInv, PartsTyped
<1>13. DocsTold'
  BY <1>2 DEF PartsInv, DocsTold
<1>14. PartsLeft'
  <2>1. CASE rest # <<>>
    <3>1. step' = "docs" /\ parts' = rest /\ partials' = sections /\ plan' = plan
      BY <1>2, <2>1
    <3>2. parts' # <<>> /\ Len(parts') <= Len(plan') /\ Covered(partials') = UpToPart(Len(plan') - Len(parts'))
      BY <1>5, <1>8, <2>1, <3>1
    <3> QED
      BY <3>1, <3>2 DEF PartsLeft
  <2>2. CASE rest = <<>> /\ Len(sections) > 1
    <3>1. step' = "merge" /\ partials' = <<>> /\ groups' = Grouped(sections) /\ plan' = plan
      BY <1>2, <2>2
    <3>2. /\ groups' # <<>> /\ \A k \in 1..Len(groups') : groups'[k] # <<>>
          /\ Covered(partials') \o Covered(FlattenSeq(groups')) = UpToPart(Len(plan'))
      BY <1>5, <1>9, <2>2, <3>1
    <3> QED
      BY <3>1, <3>2 DEF PartsLeft
  <2>3. CASE rest = <<>> /\ ~(Len(sections) > 1)
    <3>1. step' = "head" /\ partials' = sections /\ plan' = plan
      BY <1>2, <2>3
    <3>2. partials' # <<>> /\ partials'[1].covers = UpToPart(Len(plan'))
      BY <1>5, <1>8, <1>9, <2>3, <3>1
    <3> QED
      BY <3>1, <3>2 DEF PartsLeft
  <2> QED
    BY <2>1, <2>2, <2>3
<1> QED
  BY <1>10, <1>12, <1>13, <1>14, ReviewKeeps DEF PartsInv

LEMMA LevelMerged == ASSUME PartsInv, Merges PROVE PartsInv'
<1> DEFINE group == Head(groups)
           covers == FlattenSeq([i \in DOMAIN group |-> group[i].covers])
           sizes == IF Len(group) = 1 THEN {group[1].size} ELSE AnswerSizes
           rest == Tail(groups)
<1>1. /\ step = "merge"
      /\ \E size \in sizes : NextLevel(Append(partials, [covers |-> covers, size |-> size]), rest)
      /\ UNCHANGED <<history, tip, pr, parts, plan, docs, reply>>
  BY DEF Merges
<1>2. PICK size \in sizes : NextLevel(Append(partials, [covers |-> covers, size |-> size]), rest)
  BY <1>1
<1>3. /\ groups \in Seq(Seq(Section)) /\ groups # <<>> /\ \A k \in 1..Len(groups) : groups[k] # <<>>
      /\ partials \in Seq(Section) /\ plan \in Seq(DiffItem)
      /\ Covered(partials) \o Covered(FlattenSeq(groups)) = UpToPart(Len(plan))
  BY <1>1 DEF PartsInv, PartsTyped, PartsLeft
<1>4. /\ group \in Seq(Section) /\ group # <<>> /\ rest \in Seq(Seq(Section))
      /\ \A k \in 1..Len(rest) : rest[k] # <<>>
      /\ FlattenSeq(rest) \in Seq(Section)
      /\ FlattenSeq(groups) = group \o FlattenSeq(rest)
  BY <1>3, FirstGroup
<1>5. covers = Covered(group)
  BY DEF Covered, CoversOf
<1>6. size \in Nat
  <2>1. group[1] \in Section
    BY <1>4
  <2>2. group[1].size \in Nat
    BY <2>1 DEF Section
  <2> QED
    BY <2>2, PartsAssumption
<1> HIDE DEF group, covers, rest
<1> DEFINE x == [covers |-> covers, size |-> size]
           sections == Append(partials, x)
           n == Len(plan)
<1>7. x \in Section /\ x.covers = Covered(group)
  <2>1. Covered(group) \in Seq(Nat)
    BY <1>4, CoveredTyped
  <2> QED
    BY <1>5, <1>6, <2>1 DEF Section
<1>8. /\ groups' = IF rest = <<>> THEN Grouped(sections) ELSE rest
      /\ partials' = IF rest = <<>> /\ Len(sections) > 1 THEN <<>> ELSE sections
      /\ step' = IF rest = <<>> /\ Len(sections) = 1 THEN "head" ELSE "merge"
  BY <1>2 DEF NextLevel
<1> HIDE DEF x
<1>9. sections \in Seq(Section) /\ sections # <<>> /\ Covered(sections) = Covered(partials) \o Covered(group)
  <2>1. sections \in Seq(Section) /\ sections # <<>>
    BY <1>3, <1>7, AppendProperties
  <2>2. Covered(sections) = Covered(partials) \o x.covers
    BY <1>3, <1>7, CoveredAppend
  <2> QED
    BY <1>7, <2>1, <2>2
<1> HIDE DEF sections
<1>10. Covered(sections) \o Covered(FlattenSeq(rest)) = UpToPart(n)
  <2>1. Covered(FlattenSeq(groups)) = Covered(group) \o Covered(FlattenSeq(rest))
    BY <1>4, CoveredConcat
  <2>2. Covered(partials) \in Seq(Nat) /\ Covered(group) \in Seq(Nat) /\ Covered(FlattenSeq(rest)) \in Seq(Nat)
    BY <1>3, <1>4, CoveredTyped
  <2>3. (Covered(partials) \o Covered(group)) \o Covered(FlattenSeq(rest))
          = Covered(partials) \o (Covered(group) \o Covered(FlattenSeq(rest)))
    <3> DEFINE a == Covered(partials)
               b == Covered(group)
               c == Covered(FlattenSeq(rest))
    <3>1. a \in Seq(Nat) /\ b \in Seq(Nat) /\ c \in Seq(Nat)
      BY <2>2
    <3> HIDE DEF a, b, c
    <3>2. (a \o b) \o c = a \o (b \o c)
      BY <3>1, ConcatAssociative
    <3> QED
      BY <3>2 DEF a, b, c
  <2> QED
    BY <1>3, <1>9, <2>1, <2>3
<1>11. n \in Nat
  BY <1>3
<1> HIDE DEF n
<1>12. rest = <<>> => Covered(sections) = UpToPart(n)
  <2> SUFFICES ASSUME rest = <<>> PROVE Covered(sections) = UpToPart(n)
    OBVIOUS
  <2>1. Covered(FlattenSeq(rest)) = <<>>
    BY FlatNone, CoveredNone, Zenon
  <2>2. Covered(sections) \in Seq(Nat)
    BY <1>9, CoveredTyped
  <2> QED
    BY <1>10, <2>1, <2>2, ConcatEmptySeq
<1>13. rest = <<>> =>
         /\ Len(sections) > 1 => /\ Grouped(sections) \in Seq(Seq(Section)) /\ Grouped(sections) # <<>>
                                 /\ \A k \in 1..Len(Grouped(sections)) : Grouped(sections)[k] # <<>>
                                 /\ Covered(<<>>) \o Covered(FlattenSeq(Grouped(sections))) = UpToPart(n)
         /\ ~(Len(sections) > 1) => Len(sections) = 1 /\ Grouped(sections) = <<>> /\ sections[1].covers = UpToPart(n)
  BY <1>9, <1>11, <1>12, LevelEnds
<1>14. Len(sections) \in Nat /\ (Len(sections) = 1 => ~(Len(sections) > 1))
  <2>1. Len(sections) \in Nat
    BY <1>9
  <2>2. \A l \in Nat : l = 1 => ~(l > 1)
    OBVIOUS
  <2> QED
    BY <2>1, <2>2
<1>15. Reviewing
  BY <1>1, <1>8 DEF Reviewing
<1>16. partials' \in Seq(Section) /\ groups' \in Seq(Seq(Section))
  <2>1. \A S : <<>> \in Seq(S)
    OBVIOUS
  <2> QED
    BY <1>4, <1>8, <1>9, <1>13, <2>1
<1>17. PartsTyped'
  BY <1>1, <1>15, <1>16, ReviewKeeps DEF PartsInv, PartsTyped
<1>18. DocsTold'
  <2>1. docs' = docs /\ plan' = plan /\ (docs.used \/ docs.notes # {}) /\ (~docs.active => docs.notes # {})
    BY <1>1 DEF PartsInv, DocsTold
  <2> QED
    BY <2>1 DEF DocsTold
<1>19. PartsLeft'
  <2>1. CASE rest # <<>>
    <3>1. step' = "merge" /\ groups' = rest /\ partials' = sections /\ plan' = plan
      BY <1>1, <1>8, <2>1
    <3>2. /\ groups' # <<>> /\ \A k \in 1..Len(groups') : groups'[k] # <<>>
          /\ Covered(partials') \o Covered(FlattenSeq(groups')) = UpToPart(Len(plan'))
      BY <1>4, <1>10, <2>1, <3>1 DEF n
    <3> QED
      BY <3>1, <3>2 DEF PartsLeft
  <2>2. CASE rest = <<>> /\ Len(sections) > 1
    <3>1. step' = "merge" /\ partials' = <<>> /\ groups' = Grouped(sections) /\ plan' = plan
      BY <1>1, <1>8, <1>14, <2>2
    <3>2. /\ groups' # <<>> /\ \A k \in 1..Len(groups') : groups'[k] # <<>>
          /\ Covered(partials') \o Covered(FlattenSeq(groups')) = UpToPart(Len(plan'))
      BY <1>13, <2>2, <3>1 DEF n
    <3> QED
      BY <3>1, <3>2 DEF PartsLeft
  <2>3. CASE rest = <<>> /\ ~(Len(sections) > 1)
    <3>1. step' = "head" /\ partials' = sections /\ plan' = plan
      BY <1>1, <1>8, <1>13, <2>3
    <3>2. partials' # <<>> /\ partials'[1].covers = UpToPart(Len(plan'))
      BY <1>9, <1>13, <2>3, <3>1 DEF n
    <3> QED
      BY <3>1, <3>2 DEF PartsLeft
  <2> QED
    BY <2>1, <2>2, <2>3
<1> QED
  BY <1>15, <1>17, <1>18, <1>19, ReviewKeeps DEF PartsInv

LEMMA PartsReplied == ASSUME PartsInv, NEW head, head = tip \/ head = 0, PartReplies(head) PROVE PartsInv'
<1> DEFINE covers == IF partials = <<>> THEN <<>> ELSE partials[1].covers
           moved == head # 0 /\ head # pr.head
<1>1. /\ step = "head" /\ step' = "done"
      /\ reply' = [ok |-> TRUE, code |-> "none", docsUsed |-> docs.used, notes |-> docs.notes,
                   headRead |-> head # 0, headChanged |-> moved, unreviewed |-> Skipped, covers |-> covers]
      /\ UNCHANGED <<history, tip, pr, parts, plan, docs, tries, partials, groups>>
  BY DEF PartReplies
<1>2. plan \in Seq(DiffItem)
  BY DEF PartsInv, PartsTyped
<1>3. covers = UpToPart(Len(plan))
  <2>1. IF partials = <<>> THEN plan = <<>> ELSE partials[1].covers = UpToPart(Len(plan))
    BY <1>1 DEF PartsInv, PartsLeft
  <2>2. UpToPart(Len(<<>>)) = <<>>
    BY DEF UpToPart
  <2> QED
    BY <2>1, <2>2
<1> HIDE DEF covers, moved
<1>4. reply'.headRead = (head # 0) /\ reply'.headChanged = moved /\ reply'.unreviewed = Skipped /\ reply'.covers = covers
      /\ reply'.docsUsed = docs.used /\ reply'.notes = docs.notes
  BY <1>1
<1>5. reply'.headRead /\ ~reply'.headChanged => head = tip /\ pr.head = tip
  BY <1>4 DEF moved
<1>6. pr.head = tip => Skipped = {} /\ AllShown
  BY <1>1 DEF PartsInv, PartsRead
<1>7. EveryLineShown'
  <2>1. AllShown => AllShown'
    BY <1>1, ShownKept
  <2> QED
    BY <1>4, <1>5, <1>6, <2>1 DEF EveryLineShown, AllShown
<1>8. EveryPartMerged'
  <2>1. DOMAIN plan = 1..Len(plan)
    BY <1>2
  <2>2. reply'.covers = [i \in DOMAIN plan |-> i]
    BY <1>3, <1>4, <2>1 DEF UpToPart
  <2> QED
    BY <1>1, <2>2 DEF EveryPartMerged
<1>9. SilenceExplained'
  BY <1>1, <1>4 DEF PartsInv, DocsTold, SilenceExplained
<1>10. PartsTyped'
  BY <1>1 DEF PartsInv, PartsTyped, HistoryRead
<1>11. PartsRead' /\ PartsLeft'
  BY <1>1 DEF PartsRead, PartsLeft
<1>12. PlanFits' /\ DocsTold'
  BY <1>1 DEF PartsInv, PlanFits, Fitting, DocsTold
<1> QED
  BY <1>7, <1>8, <1>9, <1>10, <1>11, <1>12 DEF PartsInv, RepliesTrue

LEMMA PartsMoves == PartsInv /\ [PartsNext]_partVars => PartsInv'
<1> SUFFICES ASSUME PartsInv, [PartsNext]_partVars PROVE PartsInv'
  OBVIOUS
<1>1. CASE UNCHANGED partVars
  <2> USE <1>1 DEF partVars
  <2>1. PartsTyped' /\ PartsLeft'
    BY DEF PartsInv, PartsTyped, HistoryRead, PartsLeft
  <2>2. PartsRead'
    <3>1. AllShown => AllShown'
      BY ShownKept
    <3>2. Skipped' = Skipped
      BY SkippedKept
    <3> QED
      BY <3>1, <3>2 DEF PartsInv, PartsRead
  <2>3. PlanFits' /\ DocsTold'
    BY DEF PartsInv, PlanFits, Fitting, DocsTold
  <2>4. RepliesTrue'
    BY DEF PartsInv, RepliesTrue, EveryLineShown, EveryPartMerged, SilenceExplained
  <2> QED
    BY <2>1, <2>2, <2>3, <2>4 DEF PartsInv
<1>2. CASE Pushes
  BY <1>2, PartsPushed
<1>3. CASE ReadsMeta
  BY <1>3, MetaRead
<1>4. CASE ReadsPage
  BY <1>4, PageReadOn
<1>5. CASE ReadsDiff
  BY <1>5, DiffRead
<1>6. CASE ReadFails
  BY <1>6, PartReadFailed
<1>7. CASE PlansParts
  BY <1>7, PartsPlanned
<1>8. CASE SearchesDocs
  BY <1>8, DocsSearched
<1>9. CASE SearchesCode
  BY <1>9, CodeSearched
<1>10. CASE PartSearchFails
  BY <1>10, PartSearchFailed
<1>11. CASE PartWrites
  BY <1>11, PartWritten
<1>12. CASE Malformed
  BY <1>12, Repeated
<1>13. CASE PartModelFails
  BY <1>13, PartModelFailed
<1>14. CASE Merges
  BY <1>14, LevelMerged
<1>15. CASE PartReplies(tip) \/ PartReplies(0)
  BY <1>15, PartsReplied
<1> QED
  BY <1>1, <1>2, <1>3, <1>4, <1>5, <1>6, <1>7, <1>8, <1>9, <1>10, <1>11, <1>12, <1>13, <1>14, <1>15 DEF PartsNext

LEMMA PartsHold == PartsInv => EveryLineShown /\ EveryPartMerged /\ SilenceExplained
BY DEF PartsInv, RepliesTrue

LEMMA PartsHoldWhole == ASSUME HeaderSize < Available PROVE PartsInv => ReviewWhole
<1> SUFFICES ASSUME PartsInv PROVE PartsFit
  BY PartsHold DEF ReviewWhole
<1>1. Fitting(plan, Available) /\ plan \in Seq(DiffItem)
  BY DEF PartsInv, PlanFits, PartsTyped
<1> QED
  BY <1>1 DEF PartsFit, Fitting

(* A review of a pull request shows every line of the head it names, once   *)
(* and in order, rests on every part and says why no documentation is in    *)
(* it, whatever the sizes; and where the header of a file leaves room in a  *)
(* call, no part takes more than the context leaves (review_github.py,      *)
(* review_pipeline.py).                                                     *)
THEOREM ReviewsAreWhole ==
  /\ TurnsSpec => [](focus = "parts" => EveryLineShown /\ EveryPartMerged /\ SilenceExplained)
  /\ HeaderSize < Available => (TurnsSpec => []PartsSound)
<1> DEFINE Inv == focus = "parts" => PartsInv
<1>1. TurnsInit => Inv
  BY PartsStart DEF TurnsInit
<1>2. Inv /\ [TurnsNext]_turnsVars => Inv'
  BY FocusMoves, PartsMoves
<1>3. Inv => (focus = "parts" => EveryLineShown /\ EveryPartMerged /\ SilenceExplained)
  BY PartsHold
<1>4. TurnsSpec => [](focus = "parts" => EveryLineShown /\ EveryPartMerged /\ SilenceExplained)
  BY <1>1, <1>2, <1>3, PTL DEF TurnsSpec
<1>5. ASSUME HeaderSize < Available PROVE TurnsSpec => []PartsSound
  <2>1. Inv => PartsSound
    BY <1>5, PartsHoldWhole DEF PartsSound
  <2> QED
    BY <1>1, <1>2, <2>1, PTL DEF TurnsSpec
<1> QED
  BY <1>4, <1>5
=============================================================================
