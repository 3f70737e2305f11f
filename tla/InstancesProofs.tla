---------------------------- MODULE InstancesProofs ----------------------------
(***************************************************************************)
(* Proofs about Instances, for any bridges, names, units, packs and past   *)
(* releases, among any other configs: what is taken for a unit's own is    *)
(* exactly what some process wrote of it.                                  *)
(*                                                                         *)
(* They go from the names to the steps.  A separator decides where a token *)
(* of a name ends (OneToken, Field), so an identifier tells its identity   *)
(* root, serial and pack, and a unique_id its leaf too (OwnersApart,       *)
(* UniqueIDsApart).  An entity's unique_id and its state topic give its    *)
(* root together, though neither does alone (OneRoot).  Hence the two      *)
(* filters of a sweep recognise every config of their unit (OwnRecognised) *)
(* and no other bridge's, unit's or integration's (Exclusive,              *)
(* ForeignNotOwn).  The invariants then say what is in the tree (Ours),    *)
(* and what a declared topic (DeclaredFresh) and a session                 *)
(* (SessionDeclared) stand for.                                            *)
(***************************************************************************)
EXTENDS Instances, SequenceTheorems, TLAPS

\* The pieces the code names, as the proofs write them.
Under == "_"
Slash == "/"
PackWord == "pack"
Zendure == "zendure"
TwoMqtt == "2mqtt"

LEMMA Pieces ==
  /\ Under \in Piece /\ Slash \in Piece /\ PackWord \in Piece /\ Zendure \in Piece /\ TwoMqtt \in Piece
  /\ Under # Slash /\ Under # TwoMqtt /\ Slash # TwoMqtt /\ Slash # Zendure
  /\ Slash # PackWord /\ Under # PackWord
<1>1. /\ Under # Slash /\ Under # TwoMqtt /\ Slash # TwoMqtt /\ Slash # Zendure
      /\ Slash # PackWord /\ Under # PackWord
  BY DEF Under, Slash, PackWord, Zendure, TwoMqtt
<1>2. {Under, Slash, PackWord, Zendure, TwoMqtt} \subseteq Piece
  BY InstancesAssumption, Zenon DEF Under, Slash, PackWord, Zendure, TwoMqtt
<1> QED BY <1>1, <1>2

-----------------------------------------------------------------------------
(***************************************************************************)
(* Names: what a prefix and a separator decide.                            *)
(***************************************************************************)
\* Concatenation, element by element.
LEMMA Concat ==
  ASSUME NEW a \in Text, NEW b \in Text
  PROVE  /\ a \o b \in Text
         /\ Len(a) \in Nat /\ Len(b) \in Nat /\ Len(a \o b) = Len(a) + Len(b)
         /\ \A k \in 1..Len(a) : (a \o b)[k] = a[k]
         /\ \A k \in 1..Len(b) : (a \o b)[Len(a) + k] = b[k]
         /\ DOMAIN a = 1..Len(a) /\ DOMAIN b = 1..Len(b)
<1>1. a \o b \in Text /\ Len(a \o b) = Len(a) + Len(b) /\ Len(a) \in Nat /\ Len(b) \in Nat
  BY ConcatProperties, LenProperties DEF Text
<1>2. \A k \in 1..Len(a) + Len(b) : (a \o b)[k] = IF k <= Len(a) THEN a[k] ELSE b[k - Len(a)]
  BY ConcatProperties DEF Text
<1>3. \A k \in 1..Len(a) : (a \o b)[k] = a[k]
  BY <1>1, <1>2
<1>4. ASSUME NEW k \in 1..Len(b) PROVE (a \o b)[Len(a) + k] = b[k]
  <2>1. Len(a) + k \in 1..Len(a) + Len(b) /\ ~(Len(a) + k <= Len(a)) /\ (Len(a) + k) - Len(a) = k
    BY <1>1
  <2> QED BY <1>2, <2>1
<1> QED BY <1>1, <1>3, <1>4, LenProperties DEF Text

LEMMA Associative ==
  ASSUME NEW a \in Text, NEW b \in Text, NEW c \in Text
  PROVE  (a \o b) \o c = a \o (b \o c)
BY ConcatAssociative DEF Text

LEMMA Token ==
  ASSUME NEW x \in Piece
  PROVE  <<x>> \in Text /\ Len(<<x>>) = 1 /\ <<x>>[1] = x
<1>1. \A S : \A y \in S : <<y>> \in Seq(S)
  OBVIOUS
<1> QED BY <1>1 DEF Text

\* A prefix, element by element.
LEMMA Prefix ==
  ASSUME NEW a \in Text, NEW b \in Text
  PROVE  IsPrefix(a, b) <=> Len(a) <= Len(b) /\ \A k \in 1..Len(a) : a[k] = b[k]
<1>1. Len(a) \in Nat /\ Len(b) \in Nat
  BY LenProperties DEF Text
<1>2. SubSeq(a, 1, Len(a)) = a
  BY SubSeqFull DEF Text
<1>3. ASSUME Len(a) <= Len(b)
      PROVE  /\ SubSeq(b, 1, Len(a)) \in Text
             /\ Len(SubSeq(b, 1, Len(a))) = Len(a)
             /\ \A k \in 1..Len(a) : SubSeq(b, 1, Len(a))[k] = b[k]
  <2>1. \A k \in 1..Len(a) : b[k] \in Piece
    BY <1>1, <1>3 DEF Text
  <2> QED BY <1>1, <2>1, SubSeqProperties DEF Text
<1>4. Len(a) <= Len(b) => (a = SubSeq(b, 1, Len(a)) <=> \A k \in 1..Len(a) : a[k] = b[k])
  <2> SUFFICES ASSUME Len(a) <= Len(b)
               PROVE  a = SubSeq(b, 1, Len(a)) <=> \A k \in 1..Len(a) : a[k] = b[k]
    OBVIOUS
  <2> DEFINE c == SubSeq(b, 1, Len(a))
  <2>1. c \in Text /\ Len(c) = Len(a) /\ \A k \in 1..Len(a) : c[k] = b[k]
    BY <1>3
  <2> HIDE DEF c
  <2>2. (\A k \in 1..Len(a) : a[k] = b[k]) => a = c
    BY <2>1, SeqEqual DEF Text
  <2> QED BY <2>1, <2>2 DEF c
<1> QED BY <1>2, <1>4 DEF IsPrefix

LEMMA PrefixOfConcat ==
  ASSUME NEW a \in Text, NEW b \in Text
  PROVE  IsPrefix(a, a \o b)
<1> DEFINE c == a \o b
<1>1. /\ c \in Text /\ Len(a) \in Nat /\ Len(b) \in Nat /\ Len(c) = Len(a) + Len(b)
      /\ \A k \in 1..Len(a) : c[k] = a[k]
  BY Concat
<1> HIDE DEF c
<1>2. IsPrefix(a, c)
  BY <1>1, Prefix
<1> QED BY <1>2 DEF c

LEMMA PrefixOfPrefix ==
  ASSUME NEW a \in Text, NEW b \in Text, NEW c \in Text, IsPrefix(a \o b, c)
  PROVE  IsPrefix(a, c)
<1>1. /\ a \o b \in Text /\ Len(a) \in Nat /\ Len(b) \in Nat /\ Len(a \o b) = Len(a) + Len(b)
      /\ \A k \in 1..Len(a) : (a \o b)[k] = a[k]
  BY Concat
<1>2. Len(a \o b) <= Len(c) /\ \A k \in 1..Len(a \o b) : (a \o b)[k] = c[k]
  BY <1>1, Prefix
<1>3. Len(c) \in Nat
  BY LenProperties DEF Text
<1>4. Len(a) <= Len(c) /\ \A k \in 1..Len(a) : a[k] = c[k]
  BY <1>1, <1>2, <1>3
<1> QED BY <1>4, Prefix

\* At a place of a name stands a token, ended by the separator.
TokenAt(name, h, x, s, m) ==
  name[h + m + 1] = x /\ \A k \in 1..m : name[h + k] = s[k] /\ s[k] # x

LEMMA OneToken ==
  ASSUME NEW name, NEW x, NEW s, NEW t, NEW h \in Nat, NEW m \in Nat, NEW n \in Nat,
         TokenAt(name, h, x, s, m), TokenAt(name, h, x, t, n)
  PROVE  m = n /\ \A k \in 1..m : s[k] = t[k]
<1>1. ~(m < n)
  <2> SUFFICES ASSUME m < n PROVE FALSE
    OBVIOUS
  <2>1. m + 1 \in 1..n /\ h + (m + 1) = h + m + 1
    OBVIOUS
  <2> QED BY <2>1 DEF TokenAt
<1>2. ~(n < m)
  <2> SUFFICES ASSUME n < m PROVE FALSE
    OBVIOUS
  <2>1. n + 1 \in 1..m /\ h + (n + 1) = h + n + 1
    OBVIOUS
  <2> QED BY <2>1 DEF TokenAt
<1> QED BY <1>1, <1>2 DEF TokenAt

LEMMA SameToken ==
  ASSUME NEW name, NEW x, NEW s \in Text, NEW t \in Text, NEW h \in Nat,
         TokenAt(name, h, x, s, Len(s)), TokenAt(name, h, x, t, Len(t))
  PROVE  s = t
<1>1. Len(s) \in Nat /\ Len(t) \in Nat
  BY LenProperties DEF Text
<1>2. Len(s) = Len(t) /\ \A k \in 1..Len(s) : s[k] = t[k]
  BY <1>1, OneToken
<1> QED BY <1>2, SeqEqual DEF Text

LEMMA LongerPrefix ==
  ASSUME NEW a \in Text, NEW b \in Text, NEW c \in Text, IsPrefix(a, b)
  PROVE  IsPrefix(a, b \o c)
<1> DEFINE d == b \o c
           m == Len(a)
           n == Len(b)
           l == Len(d)
<1>1. /\ d \in Text /\ n \in Nat /\ Len(c) \in Nat /\ l = n + Len(c)
      /\ \A k \in 1..n : d[k] = b[k]
  BY Concat
<1>2. m <= n /\ \A k \in 1..m : a[k] = b[k]
  BY Prefix
<1>3. m \in Nat
  BY LenProperties DEF Text
<1>4. m <= l /\ \A k \in 1..m : a[k] = d[k]
  BY <1>1, <1>2, <1>3
<1> HIDE DEF d
<1>5. IsPrefix(a, d)
  BY <1>1, <1>4, Prefix
<1> QED BY <1>5 DEF d

\* What two names have in none of their pieces, the whole has not.
LEMMA NoneInWhole ==
  ASSUME NEW a \in Text, NEW b \in Text, NEW x, x \notin Range(a), x \notin Range(b)
  PROVE  x \notin Range(a \o b)
<1> DEFINE c == a \o b
           m == Len(a)
           n == Len(b)
           l == Len(c)
<1>1. /\ c \in Text /\ m \in Nat /\ n \in Nat /\ l = m + n
      /\ \A k \in 1..m : c[k] = a[k]
      /\ \A k \in 1..n : c[m + k] = b[k]
      /\ DOMAIN a = 1..m /\ DOMAIN b = 1..n
  BY Concat
<1>2. DOMAIN c = 1..l
  BY <1>1, LenProperties DEF Text
<1> HIDE DEF c, m, n, l
<1>3. ASSUME NEW k \in 1..l PROVE c[k] # x
  <2>1. CASE k <= m
    <3>1. k \in 1..m
      BY <1>1, <2>1
    <3> QED BY <1>1, <3>1 DEF Range
  <2>2. CASE ~(k <= m)
    <3> DEFINE h == k - m
    <3>1. h \in 1..n /\ m + h = k
      BY <1>1, <2>2
    <3> HIDE DEF h
    <3>2. c[m + h] = b[h] /\ b[h] # x
      BY <1>1, <3>1 DEF Range
    <3> QED BY <3>1, <3>2
  <2> QED BY <2>1, <2>2
<1>4. x \notin Range(c)
  BY <1>2, <1>3 DEF Range
<1> QED BY <1>4 DEF c

\* A separator behind a name.
LEMMA Ended ==
  ASSUME NEW a \in Text, NEW x \in Piece
  PROVE  /\ a \o <<x>> \in Text /\ Len(a) \in Nat /\ Len(a \o <<x>>) = Len(a) + 1
         /\ \A k \in 1..Len(a) : (a \o <<x>>)[k] = a[k]
         /\ (a \o <<x>>)[Len(a) + 1] = x
<1> DEFINE sep == <<x>>
           b == a \o sep
           m == Len(a)
           n == Len(b)
<1>1. sep \in Text /\ Len(sep) = 1 /\ sep[1] = x
  BY Token
<1> HIDE DEF sep
<1>2. /\ b \in Text /\ m \in Nat /\ n = m + Len(sep)
      /\ \A k \in 1..m : b[k] = a[k]
      /\ \A k \in 1..Len(sep) : b[m + k] = sep[k]
  BY <1>1, Concat
<1>3. b[m + 1] = x
  <2>1. 1 \in 1..Len(sep)
    BY <1>1
  <2> QED BY <1>1, <1>2, <2>1
<1> QED BY <1>1, <1>2, <1>3 DEF sep

\* A name, and the separator a rest begins with.
LEMMA NextPiece ==
  ASSUME NEW a \in Text, NEW w \in Text, NEW x \in Piece, Len(w) >= 1, w[1] = x
  PROVE  IsPrefix(a \o <<x>>, a \o w)
<1> DEFINE b == a \o <<x>>
           c == a \o w
           m == Len(a)
           u == Len(w)
           l == Len(c)
           n == Len(b)
<1>1. /\ b \in Text /\ m \in Nat /\ n = m + 1
      /\ \A k \in 1..m : b[k] = a[k]
      /\ b[m + 1] = x
  BY Ended
<1>2. /\ c \in Text /\ u \in Nat /\ l = m + u
      /\ \A k \in 1..m : c[k] = a[k]
      /\ \A k \in 1..u : c[m + k] = w[k]
  BY Concat
<1>3. u >= 1 /\ n = Len(b) /\ l = Len(c)
  OBVIOUS
<1> HIDE DEF b, c, m, n, u, l
<1>4. c[m + 1] = x
  <2>1. 1 \in 1..u
    BY <1>2, <1>3
  <2>2. c[m + 1] = w[1]
    BY <1>2, <2>1
  <2> QED BY <2>2
<1>5. \A k \in 1..n : b[k] = c[k]
  <2> TAKE k \in 1..n
  <2>1. k \in 1..m \/ k = m + 1
    BY <1>1
  <2> QED BY <1>1, <1>2, <1>4, <2>1
<1>6. n <= l
  BY <1>1, <1>2, <1>3
<1>7. IsPrefix(b, c)
  BY <1>1, <1>2, <1>3, <1>5, <1>6, Prefix
<1> QED BY <1>7 DEF b, c

\* A name is a front, a separator and a rest without one.
SplitAt(name, front, x, rest) ==
  /\ Len(front) \in Nat /\ Len(rest) \in Nat
  /\ Len(name) = Len(front) + 1 + Len(rest)
  /\ \A k \in 1..Len(front) : name[k] = front[k]
  /\ name[Len(front) + 1] = x
  /\ \A k \in 1..Len(rest) : name[Len(front) + 1 + k] = rest[k] /\ rest[k] # x

LEMMA Split ==
  ASSUME NEW a \in Text, NEW s \in Text, NEW x \in Piece, x \notin Range(s)
  PROVE  SplitAt(a \o <<x>> \o s, a, x, s)
<1> DEFINE front == a \o <<x>>
           whole == front \o s
           m == Len(a)
           n == Len(s)
           f == Len(front)
           l == Len(whole)
<1>1. /\ front \in Text /\ m \in Nat /\ f = m + 1
      /\ \A k \in 1..m : front[k] = a[k]
      /\ front[m + 1] = x
  BY Ended
<1> HIDE DEF front
<1>2. /\ n \in Nat /\ DOMAIN s = 1..n /\ l = f + n
      /\ \A k \in 1..f : whole[k] = front[k]
      /\ \A k \in 1..n : whole[f + k] = s[k]
  BY <1>1, Concat
<1>3. m = Len(a) /\ n = Len(s) /\ l = Len(whole)
  OBVIOUS
<1> HIDE DEF whole, m, n, f, l
<1>4. \A k \in 1..n : s[k] # x
  BY <1>2 DEF Range
<1>5. l = m + 1 + n
  BY <1>1, <1>2
<1>6. whole[m + 1] = x
  <2>1. m + 1 \in 1..f
    BY <1>1
  <2> QED BY <1>1, <1>2, <2>1
<1>7. \A k \in 1..m : whole[k] = a[k]
  <2> TAKE k \in 1..m
  <2>1. k \in 1..f
    BY <1>1
  <2> QED BY <1>1, <1>2, <2>1
<1>8. \A k \in 1..n : whole[m + 1 + k] = s[k]
  BY <1>1, <1>2
<1>9. SplitAt(whole, a, x, s)
  BY <1>1, <1>2, <1>3, <1>4, <1>5, <1>6, <1>7, <1>8 DEF SplitAt
<1> QED BY <1>9 DEF whole, front

\* What stands before and behind the last separator.
LEMMA SplitLast ==
  ASSUME NEW name, NEW a \in Text, NEW b \in Text, NEW s \in Text, NEW t \in Text, NEW x,
         SplitAt(name, a, x, s), SplitAt(name, b, x, t)
  PROVE  a = b /\ s = t
<1> DEFINE m == Len(a)
           n == Len(s)
           v == Len(b)
           w == Len(t)
           l == Len(name)
<1>1. /\ m \in Nat /\ n \in Nat /\ l = m + 1 + n
      /\ \A k \in 1..m : name[k] = a[k]
      /\ name[m + 1] = x
      /\ \A k \in 1..n : name[m + 1 + k] = s[k] /\ s[k] # x
  BY DEF SplitAt
<1>2. /\ v \in Nat /\ w \in Nat /\ l = v + 1 + w
      /\ \A k \in 1..v : name[k] = b[k]
      /\ name[v + 1] = x
      /\ \A k \in 1..w : name[v + 1 + k] = t[k] /\ t[k] # x
  BY DEF SplitAt
<1>3. m = Len(a) /\ n = Len(s) /\ v = Len(b) /\ w = Len(t)
  OBVIOUS
<1> HIDE DEF m, n, v, w, l
<1>4. ~(m < v)
  <2> SUFFICES ASSUME m < v PROVE FALSE
    OBVIOUS
  <2> DEFINE k == v - m
  <2>1. k \in 1..n /\ m + 1 + k = v + 1
    BY <1>1, <1>2
  <2> HIDE DEF k
  <2>2. name[m + 1 + k] = s[k] /\ s[k] # x
    BY <1>1, <2>1
  <2> QED BY <1>2, <2>1, <2>2
<1>5. ~(v < m)
  <2> SUFFICES ASSUME v < m PROVE FALSE
    OBVIOUS
  <2> DEFINE k == m - v
  <2>1. k \in 1..w /\ v + 1 + k = m + 1
    BY <1>1, <1>2
  <2> HIDE DEF k
  <2>2. name[v + 1 + k] = t[k] /\ t[k] # x
    BY <1>2, <2>1
  <2> QED BY <1>1, <2>1, <2>2
<1>6. m = v
  BY <1>1, <1>2, <1>4, <1>5
<1>7. n = w
  BY <1>1, <1>2, <1>6
<1>8. (\A k \in 1..m : a[k] = b[k]) /\ (\A k \in 1..n : s[k] = t[k])
  BY <1>1, <1>2, <1>6, <1>7
<1>9. a = b
  BY <1>3, <1>6, <1>8, SeqEqual DEF Text
<1>10. s = t
  BY <1>3, <1>7, <1>8, SeqEqual DEF Text
<1> QED BY <1>9, <1>10

\* What stands between a common head and the next separator.
LEMMA Field ==
  ASSUME NEW h \in Text, NEW s \in Text, NEW t \in Text, NEW w \in Text, NEW x \in Piece,
         x \notin Range(s), x \notin Range(t), Len(w) >= 1, w[1] = x,
         IsPrefix(h \o s \o <<x>>, h \o t \o w)
  PROVE  s = t
<1> DEFINE hs == h \o s
           ht == h \o t
           left == hs \o <<x>>
           right == ht \o w
           g == Len(h)
           m == Len(s)
           n == Len(t)
           l == Len(left)
           u == Len(w)
           lhs == Len(hs)
           lht == Len(ht)
<1>1. /\ hs \in Text /\ g \in Nat /\ m \in Nat /\ lhs = g + m
      /\ \A k \in 1..m : hs[g + k] = s[k]
      /\ DOMAIN s = 1..m
  BY Concat
<1>2. /\ ht \in Text /\ n \in Nat /\ lht = g + n
      /\ \A k \in 1..n : ht[g + k] = t[k]
      /\ DOMAIN t = 1..n
  BY Concat
<1> HIDE DEF hs, ht
<1>4. /\ left \in Text /\ l = lhs + 1
      /\ \A k \in 1..lhs : left[k] = hs[k]
      /\ left[lhs + 1] = x
  BY <1>1, Ended
<1>5. /\ right \in Text /\ u \in Nat
      /\ \A k \in 1..lht : right[k] = ht[k]
      /\ \A k \in 1..u : right[lht + k] = w[k]
  BY <1>2, Concat
<1>6. IsPrefix(left, right)
  BY DEF hs, ht
<1>7. u >= 1
  OBVIOUS
<1> HIDE DEF left, right
<1>8. \A k \in 1..l : left[k] = right[k]
  BY <1>4, <1>5, <1>6, Prefix
<1>3. m = Len(s) /\ n = Len(t)
  OBVIOUS
<1> HIDE DEF g, m, n, l, u, lhs, lht
<1>9. (\A k \in 1..m : s[k] # x) /\ (\A k \in 1..n : t[k] # x)
  BY <1>1, <1>2 DEF Range
<1>10. \A k \in 1..m : right[g + k] = s[k]
  <2> TAKE k \in 1..m
  <2>1. g + k \in 1..lhs /\ g + k \in 1..l
    BY <1>1, <1>4
  <2> QED BY <1>1, <1>4, <1>8, <2>1
<1>11. \A k \in 1..n : right[g + k] = t[k]
  <2> TAKE k \in 1..n
  <2>1. g + k \in 1..lht
    BY <1>1, <1>2
  <2> QED BY <1>2, <1>5, <2>1
<1>12. right[g + m + 1] = x
  <2>1. lhs + 1 \in 1..l /\ lhs + 1 = g + m + 1
    BY <1>1, <1>4
  <2>2. right[lhs + 1] = x
    BY <1>4, <1>8, <2>1
  <2> QED BY <2>1, <2>2
<1>13. right[g + n + 1] = x
  <2>1. 1 \in 1..u /\ lht + 1 = g + n + 1
    BY <1>1, <1>2, <1>5, <1>7
  <2>2. right[lht + 1] = w[1]
    BY <1>5, <2>1
  <2> QED BY <2>1, <2>2
<1>14. TokenAt(right, g, x, s, Len(s)) /\ TokenAt(right, g, x, t, Len(t))
  BY <1>3, <1>9, <1>10, <1>11, <1>12, <1>13 DEF TokenAt
<1>15. g \in Nat
  BY <1>1
<1> QED BY <1>14, <1>15, SameToken

-----------------------------------------------------------------------------
(***************************************************************************)
(* Roots: what an entity's unique_id and state topic tell of its bridge.   *)
(***************************************************************************)
\* The two roots the code knows by name.
LEMMA RootPieces ==
  /\ Len(TopicRoot) = 1 /\ TopicRoot[1] = Zendure
  /\ Len(LegacyTopicRoot) = 2 /\ LegacyTopicRoot[1] = Zendure /\ LegacyTopicRoot[2] = TwoMqtt
  /\ TopicRoot \in Text /\ LegacyTopicRoot \in Text
  /\ Slash \notin Range(TopicRoot) /\ Slash \notin Range(LegacyTopicRoot)
<1>1. TopicRoot = <<Zendure>> /\ LegacyTopicRoot = <<Zendure, TwoMqtt>>
  BY Zenon DEF TopicRoot, LegacyTopicRoot, Zendure, TwoMqtt
<1>2. Zendure \in Piece /\ TwoMqtt \in Piece /\ Slash # Zendure /\ Slash # TwoMqtt
  BY Pieces
<1> QED BY <1>1, <1>2 DEF Text, Range

LEMMA Names ==
  ASSUME NEW i \in Instance
  PROVE  /\ Name(i) \in Text /\ Identity(i) \in Text
         /\ Slash \notin Range(Name(i)) /\ Slash \notin Range(Identity(i))
         /\ Name(i) = Identity(i) \/ (Name(i) = TopicRoot /\ Identity(i) = LegacyTopicRoot)
<1>1. Setting[i] # None => Setting[i] \in Text /\ Slash \notin Range(Setting[i])
  BY InstancesAssumption, Zenon DEF Slash
<1> QED BY <1>1, RootPieces DEF Name, Identity

\* A name begins with a root and the separator.
Heads(name, root, x) ==
  /\ Len(root) + 1 <= Len(name)
  /\ \A k \in 1..Len(root) : name[k] = root[k]
  /\ name[Len(root) + 1] = x

LEMMA PrefixHeads ==
  ASSUME NEW name \in Text, NEW root \in Text, NEW x \in Piece, IsPrefix(root \o <<x>>, name)
  PROVE  Heads(name, root, x)
<1> DEFINE a == root \o <<x>>
           m == Len(root)
           n == Len(a)
<1>1. /\ a \in Text /\ m \in Nat /\ n = m + 1
      /\ \A k \in 1..m : a[k] = root[k]
      /\ a[m + 1] = x
  BY Ended
<1>2. n <= Len(name) /\ \A k \in 1..n : a[k] = name[k]
  BY <1>1, Prefix
<1>3. m = Len(root)
  OBVIOUS
<1> HIDE DEF a, m, n
<1>4. m + 1 \in 1..n /\ \A k \in 1..m : k \in 1..n
  BY <1>1
<1> QED BY <1>1, <1>2, <1>3, <1>4 DEF Heads

\* One root and its separator before another: they are one, or the first ends
\* inside the second.
LEMMA RootBeforeRoot ==
  ASSUME NEW a \in Text, NEW b \in Text, NEW x \in Piece, IsPrefix(a \o <<x>>, b \o <<x>>)
  PROVE  a = b \/ Heads(b, a, x)
<1> DEFINE c == b \o <<x>>
           m == Len(a)
           n == Len(b)
           l == Len(c)
<1>1. /\ c \in Text /\ n \in Nat /\ l = n + 1
      /\ \A k \in 1..n : c[k] = b[k]
  BY Ended
<1>2. Heads(c, a, x)
  BY <1>1, PrefixHeads
<1>3. m + 1 <= l /\ (\A k \in 1..m : c[k] = a[k]) /\ c[m + 1] = x
  BY <1>2 DEF Heads
<1>4. m \in Nat
  BY LenProperties DEF Text
<1>5. m = Len(a) /\ n = Len(b)
  OBVIOUS
<1> HIDE DEF c, m, n, l
<1>6. CASE m = n
  <2>1. \A k \in 1..m : a[k] = b[k]
    BY <1>1, <1>3, <1>6
  <2> QED BY <1>5, <1>6, <2>1, SeqEqual DEF Text
<1>7. CASE m # n
  <2>1. m + 1 \in 1..n /\ m + 1 <= n /\ \A k \in 1..m : k \in 1..n
    BY <1>1, <1>3, <1>4, <1>7
  <2>2. b[m + 1] = x /\ \A k \in 1..m : b[k] = a[k]
    BY <1>1, <1>3, <2>1
  <2> QED BY <1>5, <2>1, <2>2 DEF Heads
<1> QED BY <1>6, <1>7

\* An instance's namespace of unique_ids and its state topics meet in its own
\* root only, whatever other bridge's root is nested in a name or begins like
\* it: the separators differ (cleanup.go:28-39).
LEMMA OneRoot ==
  ASSUME NEW i \in Instance, NEW root \in Text, NEW state \in Text, NEW uid \in Text,
         NEW n \in {Name(i), Identity(i)},
         state = root \/ (root = LegacyTopicRoot /\ state = TopicRoot),
         Heads(uid, root, Under), Heads(uid, Identity(i), Under),
         n = state \/ Heads(state, n, Slash)
  PROVE  root = Identity(i)
<1> DEFINE id == Identity(i)
           lr == Len(root)
           li == Len(id)
<1>1. /\ id \in Text /\ Name(i) \in Text
      /\ Name(i) = id \/ (Name(i) = TopicRoot /\ id = LegacyTopicRoot)
  BY Names
<1>2. lr \in Nat /\ li \in Nat /\ lr = Len(root) /\ li = Len(id)
  BY <1>1, LenProperties DEF Text
<1>3. Heads(uid, root, Under) /\ Heads(uid, id, Under)
  OBVIOUS
<1>4. n = state \/ Heads(state, n, Slash)
  OBVIOUS
<1> HIDE DEF id, lr, li
<1>5. /\ \A k \in 1..lr : uid[k] = root[k]
      /\ uid[lr + 1] = Under
      /\ \A k \in 1..li : uid[k] = id[k]
      /\ uid[li + 1] = Under
  BY <1>2, <1>3 DEF Heads
<1>6. root = LegacyTopicRoot \/ id = LegacyTopicRoot => uid[2] = TwoMqtt
  <2>1. Len(LegacyTopicRoot) = 2 /\ LegacyTopicRoot[2] = TwoMqtt
    BY RootPieces
  <2>2. CASE root = LegacyTopicRoot
    <3>1. Len(root) = 2 /\ root[2] = TwoMqtt
      BY <2>1, <2>2, Zenon
    <3>2. 2 \in 1..lr
      BY <1>2, <3>1
    <3>3. uid[2] = root[2]
      BY <1>5, <3>2
    <3> QED BY <3>1, <3>3
  <2>3. CASE id = LegacyTopicRoot
    <3>1. Len(id) = 2 /\ id[2] = TwoMqtt
      BY <2>1, <2>3, Zenon
    <3>2. 2 \in 1..li
      BY <1>2, <3>1
    <3>3. uid[2] = id[2]
      BY <1>5, <3>2
    <3> QED BY <3>1, <3>3
  <2> QED BY <2>2, <2>3
<1>7. root = TopicRoot \/ id = TopicRoot => uid[2] = Under
  <2>1. Len(TopicRoot) + 1 = 2
    BY RootPieces
  <2> QED BY <1>2, <1>5, <2>1
<1>8. TwoMqtt # Under /\ TwoMqtt # Slash /\ Under # Slash /\ Zendure # Slash
  BY Pieces
<1>9. CASE state = root /\ n = id
  <2> SUFFICES ASSUME Heads(root, id, Slash) PROVE FALSE
    BY <1>4, <1>9 DEF id
  <2>1. li + 1 <= lr /\ root[li + 1] = Slash
    BY <1>2 DEF Heads
  <2>2. li + 1 \in 1..lr
    BY <1>2, <2>1
  <2> QED BY <1>5, <1>8, <2>1, <2>2
<1>10. CASE state = root /\ n # id
  <2>1. n = TopicRoot /\ id = LegacyTopicRoot
    BY <1>1, <1>10 DEF id
  <2>2. root # TopicRoot
    BY <1>6, <1>7, <1>8, <2>1
  <2>3. Heads(root, TopicRoot, Slash)
    BY <1>4, <1>10, <2>1, <2>2
  <2>4. 2 <= lr /\ root[2] = Slash
    <3>1. Len(TopicRoot) + 1 = 2
      BY RootPieces
    <3> QED BY <1>2, <2>3, <3>1 DEF Heads
  <2>5. 2 \in 1..lr
    BY <1>2, <2>4
  <2> QED BY <1>5, <1>6, <1>8, <2>1, <2>4, <2>5
<1>11. CASE root = LegacyTopicRoot /\ state = TopicRoot /\ n = id
  <2>1. id # TopicRoot
    BY <1>6, <1>7, <1>8, <1>11
  <2>2. Heads(TopicRoot, id, Slash)
    BY <1>4, <1>11, <2>1
  <2>3. li + 1 <= Len(TopicRoot) /\ TopicRoot[li + 1] = Slash
    BY <1>2, <2>2 DEF Heads
  <2>4. li + 1 = 1
    BY <1>2, <2>3, RootPieces
  <2> QED BY <1>8, <2>3, <2>4, RootPieces
<1>12. CASE root = LegacyTopicRoot /\ state = TopicRoot /\ n # id
  BY <1>1, <1>12 DEF id
<1> QED BY <1>9, <1>10, <1>11, <1>12

-----------------------------------------------------------------------------
(***************************************************************************)
(* Owners: what an identifier tells of its unit and pack.                  *)
(***************************************************************************)
LEMMA Units ==
  ASSUME PlainSerials, NEW i \in Instance, NEW sn \in Serial[i]
  PROVE  <<i, sn>> \in Served /\ sn \in Text /\ Under \notin Range(sn) /\ Slash \notin Range(sn)
<1>1. <<i, sn>> \in Served
  BY DEF Served
<1>2. sn \in Text
  BY InstancesAssumption
<1>3. Range(sn) \cap {Under, Slash} = {}
  <2>1. \A u \in Served : Range(u[2]) \cap {Under, Slash} = {}
    BY Zenon DEF PlainSerials, Under, Slash
  <2>2. <<i, sn>>[2] = sn
    OBVIOUS
  <2> QED BY <1>1, <2>1, <2>2
<1> QED BY <1>1, <1>2, <1>3

LEMMA Packs ==
  ASSUME PlainSerials, NEW p \in Owners(Pack)
  PROVE  p \in Text /\ Under \notin Range(p) /\ Slash \notin Range(p)
<1>1. Under \notin Range(p)
  BY Zenon DEF PlainSerials, Under
<1>2. CASE p = Unit
  <2>1. Unit \in Text /\ Range(Unit) = {}
    BY DEF Unit, Text, Range
  <2> QED BY <1>1, <1>2, <2>1
<1>3. CASE p \in Pack /\ ValidPackSN(p)
  <2>1. p \in Text
    BY <1>3, InstancesAssumption
  <2>2. Slash \notin Range(p)
    BY <1>3, Zenon DEF ValidPackSN, Slash
  <2> QED BY <1>1, <2>1, <2>2
<1> QED BY <1>2, <1>3 DEF Owners

\* What follows the serial in an owner's identifier.
Suffix(p) == IF p = Unit THEN <<>> ELSE <<Under, PackWord, Under>> \o p

LEMMA OwnerIs ==
  ASSUME NEW root, NEW sn, NEW p
  PROVE  Owner(root, sn, p) = root \o <<Under>> \o sn \o Suffix(p)
BY Zenon DEF Owner, Suffix, Under, PackWord

LEMMA UniqueIDIs ==
  ASSUME NEW root, NEW sn, NEW p, NEW l
  PROVE  UniqueID(root, sn, p, l) = Owner(root, sn, p) \o <<Under, l>>
BY Zenon DEF UniqueID, Under

LEMMA SuffixText ==
  ASSUME NEW p \in Text
  PROVE  /\ Suffix(p) \in Text
         /\ Suffix(p) # <<>> => Len(Suffix(p)) >= 1 /\ Suffix(p)[1] = Under
<1> DEFINE mark == <<Under, PackWord, Under>>
<1>1. mark \in Text /\ Len(mark) = 3 /\ mark[1] = Under
  BY Pieces DEF Text
<1>2. <<>> \in Text
  BY DEF Text
<1> HIDE DEF mark
<1>3. /\ mark \o p \in Text /\ Len(p) \in Nat /\ Len(mark \o p) = Len(mark) + Len(p)
      /\ \A k \in 1..Len(mark) : (mark \o p)[k] = mark[k]
  BY <1>1, Concat
<1>4. Len(mark \o p) >= 1 /\ (mark \o p)[1] = Under
  BY <1>1, <1>3
<1>5. Suffix(p) = IF p = Unit THEN <<>> ELSE mark \o p
  BY DEF Suffix, mark
<1> QED BY <1>2, <1>3, <1>4, <1>5

LEMMA OwnerText ==
  ASSUME NEW root \in Text, NEW sn \in Text, NEW p \in Text
  PROVE  /\ root \o <<Under>> \in Text /\ root \o <<Under>> \o sn \in Text
         /\ Owner(root, sn, p) \in Text
<1>1. root \o <<Under>> \in Text
  BY Ended, Pieces
<1>2. root \o <<Under>> \o sn \in Text
  BY <1>1, Concat
<1>3. root \o <<Under>> \o sn \o Suffix(p) \in Text
  BY <1>2, SuffixText, Concat
<1> QED BY <1>1, <1>2, <1>3, OwnerIs

\* A unit's identifier ends in its serial, a pack's in the pack's.
LEMMA UnitOwner ==
  ASSUME NEW root \in Text, NEW sn \in Text
  PROVE  Owner(root, sn, Unit) = root \o <<Under>> \o sn
<1>1. root \o <<Under>> \o sn \in Text
  BY Ended, Pieces, Concat
<1>2. root \o <<Under>> \o sn \o <<>> = root \o <<Under>> \o sn
  BY <1>1, ConcatEmptySeq DEF Text
<1>3. Suffix(Unit) = <<>>
  BY DEF Suffix
<1> QED BY <1>2, <1>3, OwnerIs

LEMMA PackOwner ==
  ASSUME NEW root \in Text, NEW sn \in Text, NEW p \in Text, p # Unit
  PROVE  Owner(root, sn, p) = root \o <<Under>> \o sn \o <<Under, PackWord>> \o <<Under>> \o p
<1> DEFINE front == root \o <<Under>> \o sn
           mark == <<Under, PackWord>>
           sep == <<Under>>
<1>1. front \in Text
  BY Ended, Pieces, Concat
<1>2. mark \in Text /\ sep \in Text /\ mark \o sep \in Text
  BY Pieces, Concat DEF Text
<1>3. mark \o sep = <<Under, PackWord, Under>>
  <2>1. /\ Len(mark \o sep) = 3
        /\ (mark \o sep)[1] = Under /\ (mark \o sep)[2] = PackWord /\ (mark \o sep)[3] = Under
    OBVIOUS
  <2>2. <<Under, PackWord, Under>> \in Text
    BY Pieces DEF Text
  <2> DEFINE s == mark \o sep
             t == <<Under, PackWord, Under>>
  <2>3. /\ Len(t) = 3 /\ t[1] = Under /\ t[2] = PackWord /\ t[3] = Under
    OBVIOUS
  <2>4. s \in Text /\ t \in Text
    BY <1>2, <2>2
  <2> HIDE DEF s, t
  <2>5. Len(s) = Len(t) /\ \A k \in 1..Len(s) : s[k] = t[k]
    BY <2>1, <2>3 DEF s
  <2>6. s = t
    BY <2>4, <2>5, SeqEqual DEF Text
  <2> QED BY <2>6 DEF s, t
<1>4. Owner(root, sn, p) = front \o ((mark \o sep) \o p)
  <2>1. Suffix(p) = (mark \o sep) \o p
    BY <1>3, Zenon DEF Suffix
  <2> QED BY <2>1, OwnerIs, Zenon
<1> HIDE DEF front, mark, sep
<1>5. front \o ((mark \o sep) \o p) = (front \o (mark \o sep)) \o p
  BY <1>1, <1>2, Associative
<1>6. front \o (mark \o sep) = (front \o mark) \o sep
  BY <1>1, <1>2, Associative
<1>7. Owner(root, sn, p) = ((front \o mark) \o sep) \o p
  BY <1>4, <1>5, <1>6
<1> QED BY <1>7 DEF front, mark, sep

LEMMA OneServer ==
  ASSUME NamesApart, NEW i \in Instance, NEW j \in Instance, NEW sn \in Serial[i], NEW tn \in Serial[j],
         Identity(i) = Identity(j), sn = tn
  PROVE  i = j
<1>1. \A u, v \in Served : Identity(u[1]) = Identity(v[1]) /\ u[2] = v[2] => u = v
  BY Zenon DEF NamesApart
<1> DEFINE u == <<i, sn>>
           v == <<j, tn>>
<1>2. u \in Served /\ v \in Served
  BY DEF Served
<1>3. u[1] = i /\ u[2] = sn /\ v[1] = j /\ v[2] = tn
  OBVIOUS
<1> HIDE DEF u, v
<1>4. Identity(u[1]) = Identity(v[1]) /\ u[2] = v[2]
  BY <1>3, Zenon
<1>5. u = v
  BY <1>1, <1>2, <1>4, Zenon
<1> QED BY <1>3, <1>5

LEMMA NotAPack ==
  ASSUME NamesApart, NEW i \in Instance, NEW j \in Instance, NEW tn \in Serial[j]
  PROVE  Identity(i) # Identity(j) \o <<Under>> \o tn \o <<Under, PackWord>>
<1>1. \A u \in Served : Identity(i) # Identity(u[1]) \o <<Under>> \o u[2] \o <<Under, PackWord>>
  BY Zenon DEF NamesApart, Under, PackWord
<1> DEFINE u == <<j, tn>>
<1>2. u \in Served
  BY DEF Served
<1>3. u[1] = j /\ u[2] = tn
  OBVIOUS
<1> HIDE DEF u
<1> QED BY <1>1, <1>2, <1>3, Zenon

\* Where an owner's identifier splits.
LEMMA OwnerSplits ==
  ASSUME NEW root \in Text, NEW sn \in Text, NEW p \in Text,
         Under \notin Range(sn), Under \notin Range(p)
  PROVE  /\ p = Unit => SplitAt(Owner(root, sn, p), root, Under, sn)
         /\ p # Unit => SplitAt(Owner(root, sn, p), root \o <<Under>> \o sn \o <<Under, PackWord>>, Under, p)
         /\ root \o <<Under>> \o sn \o <<Under, PackWord>> \in Text
<1> DEFINE front == root \o <<Under>> \o sn \o <<Under, PackWord>>
<1>1. <<Under, PackWord>> \in Text
  BY Pieces DEF Text
<1>2. front \in Text
  BY <1>1, OwnerText, Concat
<1>3. ASSUME p = Unit PROVE SplitAt(Owner(root, sn, p), root, Under, sn)
  BY <1>3, UnitOwner, Split, Pieces
<1>4. ASSUME p # Unit PROVE SplitAt(Owner(root, sn, p), front, Under, p)
  <2>1. Owner(root, sn, p) = front \o <<Under>> \o p
    BY <1>4, PackOwner
  <2> HIDE DEF front
  <2> QED BY <1>2, <2>1, Split, Pieces
<1> QED BY <1>2, <1>3, <1>4

\* An identifier says whose it is, if no serial and no name can be read two
\* ways: the instance, the unit, and the pack.
LEMMA OwnersApart ==
  ASSUME PlainSerials, NamesApart,
         NEW i \in Instance, NEW j \in Instance, NEW sn \in Serial[i], NEW tn \in Serial[j],
         NEW p \in Owners(Pack), NEW q \in Owners(Pack),
         Identifier(i, sn, p) = Identifier(j, tn, q)
  PROVE  i = j /\ sn = tn /\ p = q
<1> DEFINE a == Identity(i)
           b == Identity(j)
           name == Identifier(i, sn, p)
           x == <<Under, PackWord>>
           unitA == a \o <<Under>> \o sn
           unitB == b \o <<Under>> \o tn
           frontA == unitA \o x
           frontB == unitB \o x
<1>1. sn \in Text /\ Under \notin Range(sn) /\ tn \in Text /\ Under \notin Range(tn)
  BY Units
<1>2. p \in Text /\ Under \notin Range(p) /\ q \in Text /\ Under \notin Range(q)
  BY Packs
<1>3. a \in Text /\ b \in Text
  BY Names
<1>4. x \in Text /\ unitA \in Text /\ unitB \in Text
  BY <1>1, <1>2, <1>3, OwnerText, Pieces DEF Text
<1>5. name = Owner(a, sn, p) /\ name = Owner(b, tn, q)
  BY Zenon DEF Identifier
<1>6. /\ p = Unit => SplitAt(name, a, Under, sn)
      /\ p # Unit => SplitAt(name, frontA, Under, p)
      /\ frontA \in Text
  <2>1. /\ p = Unit => SplitAt(Owner(a, sn, p), a, Under, sn)
        /\ p # Unit => SplitAt(Owner(a, sn, p), frontA, Under, p)
        /\ frontA \in Text
    <3> HIDE DEF a
    <3> QED BY <1>1, <1>2, <1>3, OwnerSplits
  <2> QED BY <1>5, <2>1, Zenon
<1>7. /\ q = Unit => SplitAt(name, b, Under, tn)
      /\ q # Unit => SplitAt(name, frontB, Under, q)
      /\ frontB \in Text
  <2>1. /\ q = Unit => SplitAt(Owner(b, tn, q), b, Under, tn)
        /\ q # Unit => SplitAt(Owner(b, tn, q), frontB, Under, q)
        /\ frontB \in Text
    <3> HIDE DEF b
    <3> QED BY <1>1, <1>2, <1>3, OwnerSplits
  <2> QED BY <1>5, <2>1, Zenon
<1>8. a # frontB /\ b # frontA
  BY NotAPack
<1>9. SplitAt(unitA, a, Under, sn) /\ SplitAt(unitB, b, Under, tn)
  BY <1>1, <1>3, Split, Pieces
<1>10. frontA = frontB => unitA = unitB
  <2> HIDE DEF unitA, unitB, x
  <2> QED BY <1>4, ConcatSimplifications DEF Text
<1>11. a = b /\ sn = tn => i = j
  BY OneServer
<1> HIDE DEF a, b, name, frontA, frontB, unitA, unitB
<1>12. CASE p = Unit /\ q = Unit
  BY <1>1, <1>3, <1>6, <1>7, <1>11, <1>12, SplitLast
<1>13. CASE p # Unit /\ q # Unit
  <2>1. frontA = frontB /\ p = q
    BY <1>2, <1>6, <1>7, <1>13, SplitLast
  <2>2. a = b /\ sn = tn
    BY <1>1, <1>3, <1>9, <1>10, <2>1, SplitLast
  <2> QED BY <1>11, <2>1, <2>2
<1>14. CASE p = Unit /\ q # Unit
  BY <1>1, <1>2, <1>3, <1>6, <1>7, <1>8, <1>14, SplitLast
<1>15. CASE p # Unit /\ q = Unit
  BY <1>1, <1>2, <1>3, <1>6, <1>7, <1>8, <1>15, SplitLast
<1> QED BY <1>12, <1>13, <1>14, <1>15

\* So does a unique_id, and the point behind it.
LEMMA UniqueIDsApart ==
  ASSUME PlainSerials, NamesApart,
         NEW i \in Instance, NEW j \in Instance, NEW sn \in Serial[i], NEW tn \in Serial[j],
         NEW p \in Owners(Pack), NEW q \in Owners(Pack), NEW k \in Piece, NEW l \in Piece,
         UniqueID(Identity(i), sn, p, k) = UniqueID(Identity(j), tn, q, l)
  PROVE  i = j /\ sn = tn /\ p = q /\ k = l
<1> DEFINE a == Owner(Identity(i), sn, p)
           b == Owner(Identity(j), tn, q)
           v == <<Under, k>>
           w == <<Under, l>>
           name == a \o v
           other == b \o w
           m == Len(a)
           n == Len(b)
           size == Len(name)
<1>1. a \in Text /\ b \in Text
  BY Units, Packs, Names, OwnerText
<1>2. v \in Text /\ w \in Text /\ Len(v) = 2 /\ Len(w) = 2 /\ v[2] = k /\ w[2] = l
  BY Pieces DEF Text
<1>3. name = other
  BY UniqueIDIs, Zenon
<1>4. a = Identifier(i, sn, p) /\ b = Identifier(j, tn, q)
  BY Zenon DEF Identifier
<1> HIDE DEF a, b, v, w
<1>5. /\ size = m + Len(v) /\ m \in Nat
      /\ \A h \in 1..m : name[h] = a[h]
      /\ \A h \in 1..Len(v) : name[m + h] = v[h]
  BY <1>1, <1>2, Concat
<1>6. /\ Len(other) = n + Len(w) /\ n \in Nat
      /\ \A h \in 1..n : other[h] = b[h]
      /\ \A h \in 1..Len(w) : other[n + h] = w[h]
  BY <1>1, <1>2, Concat
<1>7. m = Len(a) /\ n = Len(b) /\ size = Len(other)
  BY <1>3
<1> HIDE DEF name, other, m, n, size
<1>8. m = n
  BY <1>2, <1>5, <1>6, <1>7
<1>9. a = b
  <2>1. \A h \in 1..m : a[h] = b[h]
    BY <1>3, <1>5, <1>6, <1>8
  <2> QED BY <1>1, <1>7, <1>8, <2>1, SeqEqual DEF Text
<1>10. k = l
  <2>1. 2 \in 1..Len(v) /\ 2 \in 1..Len(w)
    BY <1>2
  <2>2. name[m + 2] = v[2] /\ other[n + 2] = w[2]
    BY <1>5, <1>6, <2>1
  <2>3. v[2] = k /\ w[2] = l
    BY <1>2
  <2> QED BY <1>3, <1>8, <2>2, <2>3, Zenon
<1>11. Identifier(i, sn, p) = Identifier(j, tn, q)
  BY <1>4, <1>9, Zenon
<1>12. i = j /\ sn = tn /\ p = q
  BY <1>11, OwnersApart
<1> QED BY <1>10, <1>12

\* Whatever begins with the separator begins with it behind a suffix too.
LEMMA SuffixThen ==
  ASSUME NEW p \in Text, NEW v \in Text, Len(v) >= 1, v[1] = Under
  PROVE  /\ Suffix(p) \o v \in Text
         /\ Len(Suffix(p) \o v) >= 1 /\ (Suffix(p) \o v)[1] = Under
<1> DEFINE z == Suffix(p)
           c == z \o v
           m == Len(z)
           u == Len(v)
           l == Len(c)
<1>1. z \in Text /\ (z # <<>> => m >= 1 /\ z[1] = Under)
  BY SuffixText
<1> HIDE DEF z
<1>2. /\ c \in Text /\ m \in Nat /\ u \in Nat /\ l = m + u
      /\ \A k \in 1..m : c[k] = z[k]
      /\ \A k \in 1..u : c[m + k] = v[k]
  BY <1>1, Concat
<1>3. u >= 1 /\ v[1] = Under
  OBVIOUS
<1>4. z = <<>> => m = 0
  OBVIOUS
<1> HIDE DEF m, u, l, c
<1>5. l >= 1
  BY <1>2, <1>3
<1>6. CASE z = <<>>
  <2>1. 1 \in 1..u /\ m + 1 = 1
    BY <1>2, <1>3, <1>4, <1>6
  <2>2. c[m + 1] = v[1]
    BY <1>2, <2>1
  <2>3. c[1] = Under
    BY <1>3, <2>1, <2>2
  <2> QED BY <1>2, <1>5, <2>3 DEF c, l, z
<1>7. CASE z # <<>>
  <2>1. 1 \in 1..m
    BY <1>1, <1>2, <1>7 DEF m
  <2>2. c[1] = Under
    BY <1>1, <1>2, <1>7, <2>1
  <2> QED BY <1>2, <1>5, <2>2 DEF c, l, z
<1> QED BY <1>6, <1>7

LEMMA OwnerThen ==
  ASSUME NEW root \in Text, NEW sn \in Text, NEW p \in Text, NEW v \in Text
  PROVE  Owner(root, sn, p) \o v = (root \o <<Under>> \o sn) \o (Suffix(p) \o v)
<1> DEFINE d == root \o <<Under>> \o sn
           z == Suffix(p)
           o == Owner(root, sn, p)
<1>1. d \in Text /\ z \in Text
  BY OwnerText, SuffixText
<1>2. o = d \o z
  BY OwnerIs
<1> HIDE DEF d, z, o
<1>3. (d \o z) \o v = d \o (z \o v)
  BY <1>1, Associative
<1>4. o \o v = d \o (z \o v)
  BY <1>2, <1>3, Zenon
<1> QED BY <1>4, Zenon DEF d, z, o

\* A name begins with a unit's and the separator.
OfSerial(root, sn, name) == IsPrefix(root \o <<Under>> \o sn \o <<Under>>, name)

\* Behind one root, a unit's name and the separator lead to that unit alone.
LEMMA SerialsApart ==
  ASSUME NEW root \in Text, NEW s \in Text, NEW t \in Text, NEW p \in Text, NEW v \in Text, NEW name,
         Under \notin Range(s), Under \notin Range(t), Len(v) >= 1, v[1] = Under,
         name = (root \o <<Under>> \o t) \o (Suffix(p) \o v), OfSerial(root, s, name)
  PROVE  s = t
<1> DEFINE h == root \o <<Under>>
           w == Suffix(p) \o v
<1>1. w \in Text /\ Len(w) >= 1 /\ w[1] = Under
  BY SuffixThen
<1>2. h \in Text
  BY OwnerText
<1>3. name = h \o t \o w
  OBVIOUS
<1>4. IsPrefix(h \o s \o <<Under>>, h \o t \o w)
  BY <1>3, Zenon DEF OfSerial
<1> HIDE DEF h, w
<1> QED BY <1>1, <1>2, <1>4, Pieces, Field

LEMMA NoSlash ==
  ASSUME PlainSerials, NEW i \in Instance, NEW sn \in Serial[i], NEW p \in Owners(Pack)
  PROVE  Slash \notin Range(Identifier(i, sn, p))
<1> DEFINE a == Identity(i)
           h == a \o <<Under>>
           d == h \o sn
           z == Suffix(p)
           mark == <<Under, PackWord, Under>>
<1>1. a \in Text /\ Slash \notin Range(a)
  BY Names
<1>2. sn \in Text /\ Slash \notin Range(sn) /\ p \in Text /\ Slash \notin Range(p)
  BY Units, Packs
<1>3. <<Under>> \in Text /\ Slash \notin Range(<<Under>>) /\ mark \in Text /\ Slash \notin Range(mark)
  BY Pieces DEF Text, Range
<1> HIDE DEF a, mark
<1>4. h \in Text /\ Slash \notin Range(h)
  BY <1>1, <1>3, NoneInWhole, Concat
<1> HIDE DEF h
<1>5. d \in Text /\ Slash \notin Range(d)
  BY <1>2, <1>4, NoneInWhole, Concat
<1> HIDE DEF d
<1>6. z \in Text /\ Slash \notin Range(z)
  <2>1. z = IF p = Unit THEN <<>> ELSE mark \o p
    BY DEF Suffix, mark
  <2>2. <<>> \in Text /\ Slash \notin Range(<<>>)
    BY DEF Text, Range
  <2>3. mark \o p \in Text /\ Slash \notin Range(mark \o p)
    BY <1>2, <1>3, NoneInWhole, Concat
  <2> HIDE DEF z
  <2> QED BY <2>1, <2>2, <2>3
<1> HIDE DEF z
<1>7. Slash \notin Range(d \o z)
  BY <1>5, <1>6, NoneInWhole
<1>8. Identifier(i, sn, p) = d \o z
  BY OwnerIs, Zenon DEF Identifier, d, h, a, z
<1> QED BY <1>7, <1>8

-----------------------------------------------------------------------------
(***************************************************************************)
(* Configs: whose they are, and what takes them for its own.               *)
(***************************************************************************)
Leaf == UnitLeaf \cup PackLeaf \cup OldLeaf

LEMMA Leaves == Leaf \subseteq Piece /\ Slash \notin Leaf /\ \A p : LeafOf(p) \subseteq Leaf /\ LeafOf(p) # {}
<1>1. Leaf \subseteq Piece \ {Slash}
  BY InstancesAssumption, Zenon DEF Leaf, Slash
<1>2. UnitLeaf # {} /\ PackLeaf # {}
  BY InstancesAssumption
<1>3. \A p : LeafOf(p) \subseteq Leaf /\ LeafOf(p) # {}
  BY <1>2 DEF LeafOf, Leaf
<1> QED BY <1>1, <1>3

\* A config some instance left or wrote of one of its units, in any form.
OfUnit(c, i, sn, p) ==
  /\ c.by = i /\ c.sn = sn
  /\ \/ c.form = "document" /\ c.id = Identifier(i, sn, p)
     \/ c.form = "entity" /\ \E l \in Leaf : c.id = UniqueID(Identity(i), sn, p, l)
  /\ c.ents # {}
  /\ \A e \in c.ents : \E l \in Leaf : \E root \in {Name(i), Identity(i)} :
       e = Entity(Identity(i), root, sn, p, l)

LEMMA EntityIs ==
  ASSUME NEW root, NEW stateRoot, NEW sn, NEW p, NEW l, NEW e, e = Entity(root, stateRoot, sn, p, l)
  PROVE  /\ e.uid = UniqueID(root, sn, p, l) /\ e.state = stateRoot \o <<Slash>>
         /\ e.pack = p /\ e.leaf = l
<1>1. e = [uid |-> UniqueID(root, sn, p, l), state |-> stateRoot \o <<Slash>>, pack |-> p, leaf |-> l]
  BY Zenon DEF Entity, Slash
<1> QED BY <1>1

LEMMA UniqueIDText ==
  ASSUME NEW root \in Text, NEW sn \in Text, NEW p \in Text, NEW l \in Piece
  PROVE  /\ UniqueID(root, sn, p, l) \in Text
         /\ IsPrefix(root \o <<Under>>, UniqueID(root, sn, p, l))
<1> DEFINE h == root \o <<Under>>
           o == Owner(root, sn, p)
           v == <<Under, l>>
           z == Suffix(p)
           name == UniqueID(root, sn, p, l)
<1>1. h \in Text /\ h \o sn \in Text /\ o \in Text /\ z \in Text
  BY OwnerText, SuffixText
<1>2. v \in Text
  BY Pieces DEF Text
<1>3. name = o \o v /\ o = (h \o sn) \o z
  BY UniqueIDIs, OwnerIs
<1> HIDE DEF h, o, v, z, name
<1>4. IsPrefix(h, h \o sn)
  BY <1>1, PrefixOfConcat
<1>5. IsPrefix(h, (h \o sn) \o z)
  BY <1>1, <1>4, LongerPrefix
<1>6. IsPrefix(h, o)
  BY <1>3, <1>5, Zenon
<1>7. IsPrefix(h, o \o v) /\ o \o v \in Text
  BY <1>1, <1>2, <1>6, LongerPrefix, Concat
<1>8. IsPrefix(h, name) /\ name \in Text
  BY <1>3, <1>7, Zenon
<1> QED BY <1>8 DEF h, name

LEMMA OwnsIs ==
  ASSUME NEW i, NEW e
  PROVE  OwnsIdentity(i, e) <=>
           /\ IsPrefix(Identity(i) \o <<Under>>, e.uid)
           /\ \/ e.state = <<>>
              \/ \E n \in {Name(i), Identity(i)} : IsPrefix(n \o <<Slash>>, e.state)
<1> DEFINE a == IsPrefix(Identity(i) \o <<Under>>, e.uid)
           b == IsPrefix(Name(i) \o <<Slash>>, e.state)
           d == IsPrefix(Identity(i) \o <<Slash>>, e.state)
<1>1. OwnsIdentity(i, e) <=> a /\ (e.state = <<>> \/ b \/ d)
  BY Zenon DEF OwnsIdentity, Under, Slash
<1>2. b \/ d <=> \E n \in {Name(i), Identity(i)} : IsPrefix(n \o <<Slash>>, e.state)
  BY Zenon
<1> HIDE DEF a, b, d
<1>3. OwnsIdentity(i, e) <=> a /\ (e.state = <<>> \/ \E n \in {Name(i), Identity(i)} : IsPrefix(n \o <<Slash>>, e.state))
  BY <1>1, <1>2, Zenon
<1> QED BY <1>3, Zenon DEF a

\* An entity rooted somewhere is an instance's own under its root only.
LEMMA OwnRoot ==
  ASSUME NEW i \in Instance, NEW e, e.uid \in Text, OwnsIdentity(i, e),
         NEW root \in Text, NEW state \in Text,
         state = root \/ (root = LegacyTopicRoot /\ state = TopicRoot),
         Heads(e.uid, root, Under), e.state = state \o <<Slash>>
  PROVE  root = Identity(i)
<1> DEFINE uid == e.uid
           slashed == e.state
<1>1. Identity(i) \in Text /\ Name(i) \in Text
  BY Names
<1>2. Heads(uid, Identity(i), Under)
  <2>1. IsPrefix(Identity(i) \o <<Under>>, uid)
    BY OwnsIs, Zenon
  <2> HIDE DEF uid
  <2>2. uid \in Text
    BY DEF uid
  <2> QED BY <1>1, <2>1, <2>2, Pieces, PrefixHeads
<1>3. slashed # <<>>
  <2>1. Len(state \o <<Slash>>) = Len(state) + 1 /\ Len(state) \in Nat
    BY Ended, Pieces
  <2> QED BY <2>1
<1>4. PICK n \in {Name(i), Identity(i)} : IsPrefix(n \o <<Slash>>, slashed)
  BY <1>3, OwnsIs, Zenon
<1>5. n \in Text
  BY <1>1
<1>6. IsPrefix(n \o <<Slash>>, state \o <<Slash>>)
  BY <1>4, Zenon
<1>7. n = state \/ Heads(state, n, Slash)
  BY <1>5, <1>6, Pieces, RootBeforeRoot
<1> QED BY <1>2, <1>7, OneRoot

\* A config of an instance's unit is taken for that unit's, by that instance.
LEMMA OwnRecognised ==
  ASSUME PlainSerials, NEW c, NEW i \in Instance, NEW sn \in Serial[i], NEW p \in Owners(Pack),
         OfUnit(c, i, sn, p)
  PROVE  OwnsDeviceConfigTopic(i, sn, c) /\ IsOwnConfig(i, c)
<1>1. Identity(i) \in Text /\ Name(i) \in Text
  BY Names
<1>2. sn \in Text /\ p \in Text
  BY Units, Packs
<1>3. IsOwnConfig(i, c)
  <2> SUFFICES ASSUME NEW e \in c.ents PROVE OwnsIdentity(i, e)
    BY DEF IsOwnConfig
  <2>1. PICK l \in Leaf, root \in {Name(i), Identity(i)} : e = Entity(Identity(i), root, sn, p, l)
    BY DEF OfUnit
  <2>2. e.uid = UniqueID(Identity(i), sn, p, l) /\ e.state = root \o <<Slash>>
    BY <2>1, EntityIs
  <2>3. l \in Piece
    BY Leaves
  <2>4. IsPrefix(Identity(i) \o <<Under>>, e.uid)
    BY <1>1, <1>2, <2>2, <2>3, UniqueIDText, Zenon
  <2>5. IsPrefix(root \o <<Slash>>, e.state)
    <3> DEFINE s == root \o <<Slash>>
    <3>1. s \in Text
      BY <1>1, Ended, Pieces
    <3> HIDE DEF s
    <3>2. IsPrefix(s, s)
      BY <3>1 DEF IsPrefix
    <3> QED BY <2>2, <3>2, Zenon DEF s
  <2> QED BY <2>4, <2>5, OwnsIs, Zenon
<1>4. OwnsDeviceConfigTopic(i, sn, c)
  <2> DEFINE device == Identifier(i, sn, Unit)
             d == Identity(i) \o <<Under>> \o sn
             mark == <<Under, PackWord, Under>>
  <2>1. d \in Text /\ device = d
    <3>1. d \in Text
      BY <1>1, <1>2, OwnerText
    <3>2. Owner(Identity(i), sn, Unit) = d
      BY <1>1, <1>2, UnitOwner
    <3> QED BY <3>1, <3>2, Zenon DEF Identifier
  <2>2. CASE c.form = "document" /\ c.id = Identifier(i, sn, p)
    <3>1. c.id = device \/ IsPrefix(device \o mark, c.id)
      <4>1. CASE p = Unit
        BY <2>2, <4>1, Zenon
      <4>2. CASE p # Unit
        <5>1. c.id = d \o Suffix(p)
          BY <2>2, OwnerIs, Zenon DEF Identifier
        <5>2. Suffix(p) = mark \o p
          BY <4>2 DEF Suffix
        <5>3. mark \in Text
          BY Pieces DEF Text
        <5> HIDE DEF d, mark, device
        <5>4. d \o (mark \o p) = (d \o mark) \o p
          BY <1>2, <2>1, <5>3, Associative
        <5>6. d \o mark \in Text
          BY <2>1, <5>3, Concat
        <5>5. IsPrefix(d \o mark, (d \o mark) \o p)
          BY <1>2, <5>6, PrefixOfConcat
        <5> QED BY <2>1, <5>1, <5>2, <5>4, <5>5, Zenon
      <4> QED BY <4>1, <4>2
    <3> QED BY <2>2, <3>1, Zenon DEF OwnsDeviceConfigTopic, Under, PackWord
  <2>3. ASSUME NEW l \in Leaf, c.form = "entity", c.id = UniqueID(Identity(i), sn, p, l)
        PROVE  OwnsDeviceConfigTopic(i, sn, c)
    <3> DEFINE o == Owner(Identity(i), sn, p)
               v == <<Under, l>>
               w == Suffix(p) \o v
    <3>1. l \in Piece /\ l # Slash
      BY Leaves
    <3>2. v \in Text /\ Len(v) >= 1 /\ v[1] = Under /\ Slash \notin Range(v)
      BY <3>1, Pieces DEF Text, Range
    <3>3. w \in Text /\ Len(w) >= 1 /\ w[1] = Under
      <4> HIDE DEF v
      <4> QED BY <1>2, <3>2, SuffixThen
    <3>4. o \in Text /\ Slash \notin Range(o)
      <4>1. Slash \notin Range(Identifier(i, sn, p))
        BY NoSlash
      <4> QED BY <1>1, <1>2, <4>1, OwnerText, Zenon DEF Identifier
    <3>5. c.id = o \o v
      BY <2>3, UniqueIDIs, Zenon
    <3>6. o \o v = d \o w
      <4> DEFINE z == Suffix(p)
      <4>1. z \in Text
        BY <1>2, SuffixText
      <4>2. o = d \o z
        BY OwnerIs
      <4> HIDE DEF o, d, v, z
      <4>3. (d \o z) \o v = d \o (z \o v)
        BY <2>1, <3>2, <4>1, Associative
      <4> QED BY <4>2, <4>3, Zenon DEF w, z
    <3>7. Slash \notin Range(o \o v)
      <4> HIDE DEF o, v
      <4> QED BY <3>2, <3>4, NoneInWhole
    <3>8. IsPrefix(d \o <<Under>>, d \o w)
      <4> HIDE DEF d, w
      <4> QED BY <2>1, <3>3, Pieces, NextPiece
    <3>9. Slash \notin Range(c.id)
      BY <3>5, <3>7, Zenon
    <3>10. IsPrefix(device \o <<Under>>, c.id)
      <4> HIDE DEF d, device, o, v, w
      <4> QED BY <2>1, <3>5, <3>6, <3>8, Zenon
    <3> QED BY <2>3, <3>9, <3>10, Zenon DEF OwnsDeviceConfigTopic, Under, Slash
  <2> QED BY <2>2, <2>3 DEF OfUnit
<1> QED BY <1>3, <1>4
\* What a unit's window picks out begins with the unit.
LEMMA OwnedTopic ==
  ASSUME PlainSerials, NEW i \in Instance, NEW sn \in Serial[i], NEW c, c.id \in Text,
         OwnsDeviceConfigTopic(i, sn, c)
  PROVE  OfSerial(Identity(i), sn, c.id \o <<Under>>)
<1> DEFINE device == Identifier(i, sn, Unit)
           d == Identity(i) \o <<Under>> \o sn
           sep == <<Under>>
           mark == <<Under, PackWord, Under>>
           rest == <<PackWord, Under>>
           id == c.id
<1>1. Identity(i) \in Text /\ sn \in Text
  BY Names, Units
<1>2. d \in Text /\ Owner(Identity(i), sn, Unit) = d
  BY <1>1, OwnerText, UnitOwner
<1>3. device = d
  BY <1>2, Zenon DEF Identifier
<1>4. id = device \/ IsPrefix(device \o mark, id) \/ IsPrefix(device \o sep, id)
  BY Zenon DEF OwnsDeviceConfigTopic, Under, PackWord
<1>5. sep \in Text /\ rest \in Text /\ mark = sep \o rest
  BY Pieces DEF Text
<1>6. id \in Text
  OBVIOUS
<1> HIDE DEF d, device, sep, mark, rest, id
<1>7. d \o sep \in Text
  BY <1>2, <1>5, Concat
<1>8. CASE id = device
  <2> DEFINE e == d \o sep
  <2>1. e \in Text
    BY <1>7
  <2> HIDE DEF e
  <2>2. IsPrefix(e, e)
    BY <2>1 DEF IsPrefix
  <2> QED BY <1>3, <1>8, <2>2, Zenon DEF OfSerial, d, sep, id, e
<1>9. ASSUME IsPrefix(d \o sep, id) PROVE OfSerial(Identity(i), sn, c.id \o <<Under>>)
  <2>1. IsPrefix(d \o sep, id \o sep)
    BY <1>5, <1>6, <1>7, <1>9, LongerPrefix
  <2> QED BY <2>1, Zenon DEF OfSerial, d, sep, id
<1>10. ASSUME IsPrefix(d \o mark, id) PROVE IsPrefix(d \o sep, id)
  <2>1. (d \o sep) \o rest = d \o (sep \o rest)
    BY <1>2, <1>5, Associative
  <2>2. IsPrefix((d \o sep) \o rest, id)
    BY <1>5, <1>10, <2>1, Zenon
  <2> QED BY <1>5, <1>6, <1>7, <2>2, PrefixOfPrefix
<1> QED BY <1>3, <1>4, <1>8, <1>9, <1>10, Zenon

\* A config of a unit has its owner's identifier in its topic, ended there or
\* by the separator.
LEMMA UnitTopic ==
  ASSUME PlainSerials, NEW c, NEW j \in Instance, NEW tn \in Serial[j], NEW q \in Owners(Pack),
         OfUnit(c, j, tn, q)
  PROVE  /\ c.id \in Text
         /\ \E v \in Text : /\ Len(v) >= 1 /\ v[1] = Under
                            /\ c.id \o <<Under>> = (Identity(j) \o <<Under>> \o tn) \o (Suffix(q) \o v)
<1> DEFINE d == Identity(j) \o <<Under>> \o tn
           z == Suffix(q)
           o == Owner(Identity(j), tn, q)
           sep == <<Under>>
<1>1. Identity(j) \in Text /\ tn \in Text /\ q \in Text
  BY Names, Units, Packs
<1>2. d \in Text /\ o \in Text /\ z \in Text
  BY <1>1, OwnerText, SuffixText
<1>3. o = d \o z
  BY OwnerIs
<1>4. sep \in Text /\ Len(sep) >= 1 /\ sep[1] = Under
  BY Pieces, Token
<1>5. CASE c.id = Identifier(j, tn, q)
  <2>1. c.id = o
    BY <1>5, Zenon DEF Identifier
  <2> HIDE DEF d, z, o, sep
  <2>2. (d \o z) \o sep = d \o (z \o sep)
    BY <1>2, <1>4, Associative
  <2>3. c.id \o sep = d \o (z \o sep)
    BY <1>3, <2>1, <2>2, Zenon
  <2> QED BY <1>2, <1>4, <2>1, <2>3, Zenon DEF d, z, sep
<1>6. ASSUME NEW l \in Leaf, c.id = UniqueID(Identity(j), tn, q, l)
      PROVE  /\ c.id \in Text
             /\ \E v \in Text : /\ Len(v) >= 1 /\ v[1] = Under
                                /\ c.id \o <<Under>> = d \o (z \o v)
  <2> DEFINE w == <<Under, l>>
             x == w \o sep
  <2>1. l \in Piece
    BY Leaves
  <2>2. w \in Text /\ Len(w) = 2 /\ w[1] = Under
    BY <2>1, Pieces DEF Text
  <2>3. c.id = o \o w
    BY <1>6, UniqueIDIs, Zenon
  <2> HIDE DEF d, z, o, sep, w
  <2>4. x \in Text /\ Len(x) >= 1 /\ x[1] = Under
    <3>1. x \in Text /\ Len(sep) \in Nat /\ Len(x) = Len(w) + Len(sep) /\ \A k \in 1..Len(w) : x[k] = w[k]
      BY <1>4, <2>2, Concat
    <3> HIDE DEF x
    <3> QED BY <2>2, <3>1
  <2>5. o \o w \in Text
    BY <1>2, <2>2, Concat
  <2>6. (o \o w) \o sep = o \o x
    BY <1>2, <1>4, <2>2, Associative
  <2> HIDE DEF x
  <2>7. (d \o z) \o x = d \o (z \o x)
    BY <1>2, <2>4, Associative
  <2>8. c.id \o sep = d \o (z \o x)
    BY <1>3, <2>3, <2>6, <2>7, Zenon
  <2>9. c.id \in Text
    BY <2>3, <2>5, Zenon
  <2> QED BY <2>4, <2>8, <2>9, Zenon DEF sep
<1> QED BY <1>5, <1>6, Zenon DEF OfUnit, d, z

\* What a unit's window picks out of the instances' configs is that unit's:
\* no longer serial, other name or other bridge's unit is mistaken for it.
LEMMA Exclusive ==
  ASSUME PlainSerials, NamesApart,
         NEW c, NEW j \in Instance, NEW tn \in Serial[j], NEW q \in Owners(Pack), OfUnit(c, j, tn, q),
         NEW i \in Instance, NEW sn \in Serial[i], OwnsDeviceConfigTopic(i, sn, c), IsOwnConfig(i, c)
  PROVE  i = j /\ sn = tn
<1>1. /\ Identity(i) \in Text /\ Identity(j) \in Text
      /\ Name(j) = Identity(j) \/ (Name(j) = TopicRoot /\ Identity(j) = LegacyTopicRoot)
      /\ Name(j) \in Text
  BY Names
<1>2. sn \in Text /\ tn \in Text /\ q \in Text /\ Under \notin Range(sn) /\ Under \notin Range(tn)
  BY Units, Packs
<1>3. Identity(i) = Identity(j)
  <2>1. PICK e \in c.ents : TRUE
    BY DEF OfUnit
  <2>2. PICK l \in Leaf, state \in {Name(j), Identity(j)} : e = Entity(Identity(j), state, tn, q, l)
    BY <2>1 DEF OfUnit
  <2>3. e.uid = UniqueID(Identity(j), tn, q, l) /\ e.state = state \o <<Slash>>
    BY <2>2, EntityIs
  <2>4. l \in Piece
    BY Leaves
  <2> DEFINE uid == e.uid
  <2>5. uid \in Text /\ IsPrefix(Identity(j) \o <<Under>>, uid)
    <3>1. uid = UniqueID(Identity(j), tn, q, l)
      BY <2>3
    <3> HIDE DEF uid
    <3> QED BY <1>1, <1>2, <2>4, <3>1, UniqueIDText, Zenon
  <2> HIDE DEF uid
  <2>6. Heads(uid, Identity(j), Under)
    BY <1>1, <2>5, Pieces, PrefixHeads
  <2>7. OwnsIdentity(i, e)
    BY <2>1 DEF IsOwnConfig
  <2>8. state \in Text /\ (state = Identity(j) \/ (Identity(j) = LegacyTopicRoot /\ state = TopicRoot))
    BY <1>1
  <2>9. e.uid \in Text /\ Heads(e.uid, Identity(j), Under)
    BY <2>5, <2>6 DEF uid
  <2>10. Identity(j) = Identity(i)
    BY <1>1, <2>3, <2>7, <2>8, <2>9, OwnRoot
  <2> QED BY <2>10
<1>4. sn = tn
  <2>1. c.id \in Text
    BY UnitTopic
  <2>2. PICK v \in Text : /\ Len(v) >= 1 /\ v[1] = Under
                          /\ c.id \o <<Under>> = (Identity(j) \o <<Under>> \o tn) \o (Suffix(q) \o v)
    BY UnitTopic
  <2> DEFINE name == c.id \o <<Under>>
  <2>3. OfSerial(Identity(j), sn, name)
    BY <1>3, <2>1, OwnedTopic, Zenon
  <2>4. name = (Identity(j) \o <<Under>> \o tn) \o (Suffix(q) \o v)
    BY <2>2
  <2> HIDE DEF name
  <2> QED BY <1>1, <1>2, <2>2, <2>3, <2>4, SerialsApart
<1> QED BY <1>3, <1>4, OneServer
\* No instance takes a config of others for its own, wherever in its namespace
\* or its tree their root is nested.
LEMMA ForeignNotOwn ==
  ASSUME OthersApart, NEW c \in Foreign, NEW i \in Instance
  PROVE  ~IsOwnConfig(i, c)
<1> SUFFICES ASSUME IsOwnConfig(i, c) PROVE FALSE
  OBVIOUS
<1>1. PICK e \in c.ents : e.uid \in Text /\ e.state \in Text /\ RootedElsewhere(e)
  BY Zenon DEF OthersApart
<1>2. PICK n \in 0..Len(e.state) :
        /\ e.state = SubSeq(e.state, 1, n) \o <<Slash>>
        /\ IsPrefix(SubSeq(e.state, 1, n) \o <<Under>>, e.uid)
        /\ \A k \in Instance : SubSeq(e.state, 1, n) # Identity(k)
  BY <1>1, Zenon DEF RootedElsewhere, Under, Slash
<1> DEFINE root == SubSeq(e.state, 1, n)
           uid == e.uid
           topic == e.state
<1>3. topic \in Text /\ n \in 0..Len(topic)
  BY <1>1, <1>2
<1>4. root \in Text
  <2> HIDE DEF topic
  <2>1. Len(topic) \in Nat /\ DOMAIN topic = 1..Len(topic) /\ \A k \in 1..Len(topic) : topic[k] \in Piece
    BY <1>3, LenProperties, ElementOfSeq DEF Text
  <2>2. 1 \in Int /\ n \in Int /\ \A k \in 1..n : topic[k] \in Piece
    BY <1>3, <2>1
  <2>3. SubSeq(topic, 1, n) \in Seq(Piece)
    BY <2>2, SubSeqProperties
  <2> QED BY <2>3, Zenon DEF Text, topic
<1>5. topic = root \o <<Slash>> /\ IsPrefix(root \o <<Under>>, uid) /\ root # Identity(i)
  BY <1>2
<1>6. uid \in Text
  BY <1>1
<1> HIDE DEF root, uid, topic
<1>7. Heads(uid, root, Under)
  BY <1>4, <1>5, <1>6, Pieces, PrefixHeads
<1>8. OwnsIdentity(i, e)
  BY <1>1 DEF IsOwnConfig
<1>9. e.uid \in Text /\ Heads(e.uid, root, Under)
  BY <1>6, <1>7 DEF uid
<1>10. e.state = root \o <<Slash>>
  BY <1>5 DEF topic
<1>11. root = Identity(i)
  BY <1>4, <1>8, <1>9, <1>10, OwnRoot
<1> QED BY <1>5, <1>11
\* What the configs an instance writes, and those its past releases left, say
\* of their unit.
OneDocument(d, i, sn, p, root) ==
  /\ OfUnit(d, i, sn, p) /\ d.form = "document" /\ d.id = Identifier(i, sn, p)
  /\ d.ents = {Entity(Identity(i), root, sn, p, l) : l \in LeafOf(p)}

LEMMA DocumentIs ==
  ASSUME PlainSerials, NEW i \in Instance, NEW sn \in Serial[i], NEW p \in Owners(Pack),
         NEW root \in {Name(i), Identity(i)}, NEW old, NEW d, d = Document(i, sn, p, root, old)
  PROVE  OneDocument(d, i, sn, p, root) /\ d.old = old
<1> DEFINE ents == {Entity(Identity(i), root, sn, p, l) : l \in LeafOf(p)}
<1>1. d = [form |-> "document", id |-> Identifier(i, sn, p), by |-> i, sn |-> sn, old |-> old, ents |-> ents]
  BY Zenon DEF Document
<1>2. LeafOf(p) # {} /\ LeafOf(p) \subseteq Leaf
  BY Leaves
<1>3. ents # {}
  BY <1>2
<1>4. \A e \in ents : \E l \in Leaf : \E r \in {Name(i), Identity(i)} : e = Entity(Identity(i), r, sn, p, l)
  BY <1>2, Zenon
<1> HIDE DEF ents
<1>5. d.form = "document" /\ d.id = Identifier(i, sn, p) /\ d.by = i /\ d.sn = sn /\ d.old = old /\ d.ents = ents
  BY <1>1
<1>6. OfUnit(d, i, sn, p)
  BY <1>3, <1>4, <1>5, Zenon DEF OfUnit
<1> QED BY <1>5, <1>6, Zenon DEF OneDocument, ents

LEMMA LeftIs ==
  ASSUME PlainSerials, NEW i \in Instance, NEW sn \in Serial[i], NEW form \in LegacyForm,
         NEW c \in Left(i, sn, form)
  PROVE  \E p \in Owners(Pack) : OfUnit(c, i, sn, p)
<1>1. OldRoot(i) = Identity(i)
  BY DEF OldRoot, Identity
<1>2. CASE form = "entities"
  <2>0. PICK p \in Owners(Pack) : c \in {OldEntity(i, sn, p, l) : l \in LeafOf(p) \cup OldLeaf}
    BY <1>2 DEF Left
  <2>1. PICK l \in LeafOf(p) \cup OldLeaf : c = OldEntity(i, sn, p, l)
    BY <2>0
  <2>2. l \in Leaf
    <3>1. LeafOf(p) \subseteq Leaf /\ OldLeaf \subseteq Leaf
      BY Leaves DEF Leaf
    <3> QED BY <3>1
  <2> DEFINE e == Entity(Identity(i), Identity(i), sn, p, l)
  <2>3. e.uid = UniqueID(Identity(i), sn, p, l)
    BY EntityIs
  <2>4. c = [form |-> "entity", id |-> e.uid, by |-> i, sn |-> sn, old |-> TRUE, ents |-> {e}]
    BY <1>1, <2>1, Zenon DEF OldEntity
  <2> HIDE DEF e
  <2>5. c.form = "entity" /\ c.id = e.uid /\ c.by = i /\ c.sn = sn /\ c.ents = {e}
    BY <2>4
  <2>6. c.id = UniqueID(Identity(i), sn, p, l)
    BY <2>3, <2>5, Zenon
  <2>7. c.ents # {} /\ \A f \in c.ents : f = e
    BY <2>5
  <2>8. \A f \in c.ents : \E k \in Leaf : \E r \in {Name(i), Identity(i)} : f = Entity(Identity(i), r, sn, p, k)
    BY <2>2, <2>7, Zenon DEF e
  <2>9. OfUnit(c, i, sn, p)
    BY <2>2, <2>5, <2>6, <2>7, <2>8, Zenon DEF OfUnit
  <2> QED BY <2>9
<1>3. CASE form = "documents"
  <2>1. PICK p \in Owners(Pack) : c = OldDocument(i, sn, p)
    BY <1>3 DEF Left
  <2> DEFINE ents == {Entity(Identity(i), Identity(i), sn, p, l) : l \in LeafOf(p) \cup OldLeaf}
  <2>2. c = [form |-> "document", id |-> Identifier(i, sn, p), by |-> i, sn |-> sn, old |-> TRUE, ents |-> ents]
    BY <1>1, <2>1, Zenon DEF OldDocument, Identifier
  <2>3. LeafOf(p) # {} /\ LeafOf(p) \cup OldLeaf \subseteq Leaf
    <3>1. LeafOf(p) # {} /\ LeafOf(p) \subseteq Leaf /\ OldLeaf \subseteq Leaf
      BY Leaves DEF Leaf
    <3> QED BY <3>1
  <2>4. ents # {}
    BY <2>3
  <2>5. \A e \in ents : \E l \in Leaf : \E r \in {Name(i), Identity(i)} : e = Entity(Identity(i), r, sn, p, l)
    BY <2>3, Zenon
  <2> HIDE DEF ents
  <2>6. c.form = "document" /\ c.id = Identifier(i, sn, p) /\ c.by = i /\ c.sn = sn /\ c.ents = ents
    BY <2>2
  <2>7. OfUnit(c, i, sn, p)
    BY <2>4, <2>5, <2>6, Zenon DEF OfUnit
  <2> QED BY <2>7
<1>4. CASE form = "current"
  <2>1. PICK p \in Owners(Pack) : c = Document(i, sn, p, Name(i), TRUE)
    BY <1>4 DEF Left
  <2>2. OneDocument(c, i, sn, p, Name(i))
    BY <2>1, DocumentIs
  <2> QED BY <2>2 DEF OneDocument
<1>5. CASE form = "nothing"
  BY <1>5 DEF Left
<1> QED BY <1>2, <1>3, <1>4, <1>5 DEF LegacyForm

LEMMA DocumentsAre ==
  ASSUME PlainSerials, NEW i \in Instance, NEW sn \in Serial[i], NEW packs \in Reported,
         NEW d \in Documents(i, sn, packs)
  PROVE  /\ ~d.old /\ TopicOf(d) \in DocumentTopic /\ Slash \notin Range(TopicOf(d).id)
         /\ \E p \in Owners(Pack) :
              /\ OfUnit(d, i, sn, p) /\ d.form = "document" /\ d.id = Identifier(i, sn, p)
              /\ \A e \in d.ents : \E l \in LeafOf(p) : e.uid = UniqueID(Identity(i), sn, p, l)
<1>1. packs \subseteq Pack
  <2>1. Reported \subseteq SUBSET Pack
    BY InstancesAssumption, Zenon
  <2> QED BY <2>1
<1>2. PICK p \in Owners(packs) : d = Document(i, sn, p, Name(i), FALSE)
  BY DEF Documents
<1>3. p \in Owners(Pack)
  BY <1>1 DEF Owners
<1>4. OneDocument(d, i, sn, p, Name(i)) /\ d.old = FALSE
  <2> DEFINE no == FALSE
  <2>1. d = Document(i, sn, p, Name(i), no)
    BY <1>2
  <2> HIDE DEF no
  <2>2. OneDocument(d, i, sn, p, Name(i)) /\ d.old = no
    BY <1>3, <2>1, DocumentIs
  <2> QED BY <2>2 DEF no
<1>5. ASSUME NEW e \in d.ents
      PROVE  \E l \in LeafOf(p) : e.uid = UniqueID(Identity(i), sn, p, l)
  <2>1. PICK l \in LeafOf(p) : e = Entity(Identity(i), Name(i), sn, p, l)
    BY <1>4, Zenon DEF OneDocument
  <2> QED BY <2>1, EntityIs
<1>6. Slash \notin Range(TopicOf(d).id)
  <2>1. TopicOf(d).id = Identifier(i, sn, p)
    BY <1>4 DEF TopicOf, OneDocument
  <2> QED BY <1>3, <2>1, NoSlash, Zenon
<1>7. TopicOf(d) \in DocumentTopic
  <2>1. d \in Documents(i, sn, Pack)
    BY <1>2, <1>3, Zenon DEF Documents
  <2> DEFINE u == <<i, sn>>
  <2>2. u \in Served /\ u[1] = i /\ u[2] = sn
    BY DEF Served
  <2> HIDE DEF u
  <2>3. d \in UNION {Documents(v[1], v[2], Pack) : v \in Served}
    BY <2>1, <2>2
  <2> QED BY <2>3, Zenon DEF DocumentTopic
<1>8. OfUnit(d, i, sn, p) /\ d.form = "document" /\ d.id = Identifier(i, sn, p) /\ ~d.old
  BY <1>4 DEF OneDocument
<1> QED BY <1>3, <1>5, <1>6, <1>7, <1>8
-----------------------------------------------------------------------------
(***************************************************************************)
(* The steps: what is retained, declared and swept.                        *)
(***************************************************************************)
\* What is not foreign is some unit's of an instance.
OwnConfig(c) == \E i \in Instance : \E sn \in Serial[i] : \E p \in Owners(Pack) : OfUnit(c, i, sn, p)

Ours == \A c \in retained : c \in Foreign \/ OwnConfig(c)

\* What an instance declares it has written itself: nothing an earlier process
\* left stands at a declared topic.
DeclaredFresh == \A i \in Instance : \A c \in retained : TopicOf(c) \in declared[i] => ~c.old

\* With a session, every document of a unit's last report is declared.
SessionDeclared ==
  \A i \in session : \A sn \in Serial[i] : last[<<i, sn>>] # None =>
    \A d \in Documents(i, sn, last[<<i, sn>>]) : TopicOf(d) \in declared[i]

\* Documents an instance writes.
Writes(docs, i) ==
  \A d \in docs : \E sn \in Serial[i] : \E packs \in Reported : d \in Documents(i, sn, packs)

LEMMA WritesAre ==
  ASSUME PlainSerials, NEW i \in Instance, NEW docs, Writes(docs, i), NEW d \in docs
  PROVE  /\ OwnConfig(d) /\ ~d.old /\ TopicOf(d) \in DocumentTopic /\ Slash \notin Range(TopicOf(d).id)
<1>1. PICK sn \in Serial[i], packs \in Reported : d \in Documents(i, sn, packs)
  BY DEF Writes
<1>2. /\ ~d.old /\ TopicOf(d) \in DocumentTopic /\ Slash \notin Range(TopicOf(d).id)
      /\ \E p \in Owners(Pack) : OfUnit(d, i, sn, p)
  BY <1>1, DocumentsAre
<1> QED BY <1>2, Zenon DEF OwnConfig

LEMMA WrittenIs ==
  ASSUME NEW docs
  PROVE  /\ \A c \in Written(docs) : c \in docs \/ (c \in retained /\ \A d \in docs : TopicOf(c) # TopicOf(d))
         /\ \A c \in retained \ Written(docs) : \E d \in docs :
              TopicOf(c) = TopicOf(d) \/ (c.form = "entity" /\ \E e \in d.ents : c.id = e.uid)
         /\ docs = {} => Written(docs) = retained
<1> DEFINE superseded == UNION {{e.uid : e \in d.ents} : d \in docs}
           topics == {TopicOf(d) : d \in docs}
           kept == {c \in retained : TopicOf(c) \notin topics /\ ~(c.form = "entity" /\ c.id \in superseded)}
<1>1. Written(docs) = kept \cup docs
  BY Zenon DEF Written
<1>2. \A c : TopicOf(c) \in topics <=> \E d \in docs : TopicOf(c) = TopicOf(d)
  OBVIOUS
<1>3. ASSUME NEW x \in superseded PROVE \E d \in docs : \E e \in d.ents : x = e.uid
  <2>1. PICK d \in docs : x \in {e.uid : e \in d.ents}
    OBVIOUS
  <2> QED BY <2>1
<1>4. docs = {} => superseded = {} /\ topics = {}
  OBVIOUS
<1>5. \A c : c \in kept <=> c \in retained /\ TopicOf(c) \notin topics /\ ~(c.form = "entity" /\ c.id \in superseded)
  OBVIOUS
<1> HIDE DEF superseded, topics, kept
<1>6. \A c \in Written(docs) : c \in docs \/ (c \in retained /\ \A d \in docs : TopicOf(c) # TopicOf(d))
  BY <1>1, <1>2, <1>5
<1>7. ASSUME NEW c \in retained \ Written(docs)
      PROVE  \E d \in docs : TopicOf(c) = TopicOf(d) \/ (c.form = "entity" /\ \E e \in d.ents : c.id = e.uid)
  <2>1. TopicOf(c) \in topics \/ (c.form = "entity" /\ c.id \in superseded)
    BY <1>1, <1>5
  <2>2. CASE TopicOf(c) \in topics
    BY <1>2, <2>2
  <2>3. CASE c.form = "entity" /\ c.id \in superseded
    BY <1>3, <2>3
  <2> QED BY <2>1, <2>2, <2>3
<1>8. docs = {} => Written(docs) = retained
  BY <1>1, <1>4, <1>5
<1> QED BY <1>6, <1>7, <1>8

\* What a connect writes: every document of the instance's last reports.
LEMMA ConnectWrites ==
  ASSUME TypeOK, NEW i \in Instance, Connect(i)
  PROVE  \E docs :
           /\ Writes(docs, i)
           /\ \A sn \in Serial[i] : last[<<i, sn>>] # None => Documents(i, sn, last[<<i, sn>>]) \subseteq docs
           /\ i \notin session /\ i \in session' /\ session' \subseteq session \cup {i}
           /\ retained' = Written(docs)
           /\ declared' = [declared EXCEPT ![i] = @ \cup {TopicOf(d) : d \in docs}]
           /\ UNCHANGED <<last, sig, swept>>
<1> DEFINE docs == UNION {Documents(i, sn, last[<<i, sn>>]) : sn \in {n \in Serial[i] : last[<<i, n>>] # None}}
           others == {j \in session : ClientID(j) = ClientID(i)}
<1>1. /\ i \notin session
      /\ session' = (session \ others) \cup {i}
      /\ retained' = Written(docs)
      /\ declared' = [declared EXCEPT ![i] = @ \cup {TopicOf(d) : d \in docs}]
      /\ UNCHANGED <<last, sig, swept>>
  BY Zenon DEF Connect
<1>2. last \in [Served -> Reported \cup {None}]
  BY DEF TypeOK
<1>3. \A sn \in Serial[i] : last[<<i, sn>>] # None => last[<<i, sn>>] \in Reported
  <2> TAKE sn \in Serial[i]
  <2>1. <<i, sn>> \in Served
    BY DEF Served
  <2> QED BY <1>2, <2>1
<1>4. Writes(docs, i)
  <2> SUFFICES ASSUME NEW d \in docs
               PROVE  \E sn \in Serial[i] : \E packs \in Reported : d \in Documents(i, sn, packs)
    BY DEF Writes
  <2>1. PICK sn \in {n \in Serial[i] : last[<<i, n>>] # None} : d \in Documents(i, sn, last[<<i, sn>>])
    OBVIOUS
  <2> QED BY <1>3, <2>1
<1>5. \A sn \in Serial[i] : last[<<i, sn>>] # None => Documents(i, sn, last[<<i, sn>>]) \subseteq docs
  OBVIOUS
<1>6. i \in session' /\ session' \subseteq session \cup {i}
  BY <1>1
<1> HIDE DEF docs
<1> QED BY <1>1, <1>4, <1>5, <1>6

\* What a report writes, with a session: the documents not declared yet.
LEMMA ReportWrites ==
  ASSUME TypeOK, NEW i \in Instance, NEW sn \in Serial[i], NEW packs \in Reported, Report(i, sn, packs),
         i \in session
  PROVE  \E docs :
           /\ docs = {d \in Documents(i, sn, packs) : TopicOf(d) \notin declared[i]}
           /\ Writes(docs, i) /\ Writes(Documents(i, sn, packs), i)
           /\ retained' = Written(docs)
           /\ declared' = [declared EXCEPT ![i] = @ \cup {TopicOf(d) : d \in Documents(i, sn, packs)}]
<1> DEFINE docs == {d \in Documents(i, sn, packs) : TopicOf(d) \notin declared[i]}
<1>1. /\ retained' = Written(docs)
      /\ declared' = [declared EXCEPT ![i] = @ \cup {TopicOf(d) : d \in Documents(i, sn, packs)}]
  BY Zenon DEF Report
<1>2. Writes(docs, i) /\ Writes(Documents(i, sn, packs), i)
  BY DEF Writes
<1> HIDE DEF docs
<1> QED BY <1>1, <1>2 DEF docs
LEMMA BridgesConfig ==
  ASSUME NEW c, c \in Foreign \/ OwnConfig(c), c.by \in Instance
  PROVE  c.sn \in Serial[c.by] /\ \E p \in Owners(Pack) : OfUnit(c, c.by, c.sn, p)
<1>1. \A d \in Foreign : d.by \notin Instance
  BY InstancesAssumption, Zenon
<1>4. PICK i \in Instance : \E sn \in Serial[i] : \E p \in Owners(Pack) : OfUnit(c, i, sn, p)
  BY <1>1, Zenon DEF OwnConfig
<1>2. PICK sn \in Serial[i] : \E p \in Owners(Pack) : OfUnit(c, i, sn, p)
  BY <1>4
<1>3. c.by = i /\ c.sn = sn
  BY <1>2, Zenon DEF OfUnit
<1> QED BY <1>2, <1>3, Zenon

LEMMA OursInit ==
  ASSUME PlainSerials, Init
  PROVE  Ours /\ session = {} /\ swept = {} /\ declared = [i \in Instance |-> {}]
<1>1. PICK left \in [Served -> Legacy] :
        retained = Foreign \cup UNION {Left(u[1], u[2], left[u]) : u \in Served}
  BY Zenon DEF Init
<1>2. Legacy \subseteq LegacyForm
  BY InstancesAssumption, Zenon
<1>3. ASSUME NEW c \in retained, c \notin Foreign PROVE OwnConfig(c)
  <2>1. PICK u \in Served : c \in Left(u[1], u[2], left[u])
    BY <1>1, <1>3
  <2>2. PICK i \in Instance : u \in {i} \X Serial[i]
    BY DEF Served
  <2>3. u[1] = i /\ u[2] \in Serial[i]
    BY <2>2
  <2>4. left[u] \in LegacyForm
    BY <1>1, <1>2
  <2>5. c \in Left(i, u[2], left[u])
    BY <2>1, <2>3, Zenon
  <2>6. \E p \in Owners(Pack) : OfUnit(c, i, u[2], p)
    BY <2>3, <2>4, <2>5, LeftIs
  <2> QED BY <2>3, <2>6 DEF OwnConfig
<1>4. Ours
  BY <1>3, Zenon DEF Ours
<1>5. session = {} /\ swept = {} /\ declared = [i \in Instance |-> {}]
  BY Zenon DEF Init
<1> QED BY <1>4, <1>5

LEMMA OursWritten ==
  ASSUME PlainSerials, Ours, NEW i \in Instance, NEW docs, Writes(docs, i), retained' = Written(docs)
  PROVE  Ours'
<1> SUFFICES ASSUME NEW c \in retained' PROVE c \in Foreign \/ OwnConfig(c)
  BY DEF Ours, OwnConfig, OfUnit
<1>1. c \in docs \/ c \in retained
  BY WrittenIs
<1>2. c \in docs => OwnConfig(c)
  BY WritesAre
<1> QED BY <1>1, <1>2 DEF Ours

LEMMA OursLess ==
  ASSUME Ours, retained' \subseteq retained
  PROVE  Ours'
<1>1. \A c \in retained' : c \in Foreign \/ OwnConfig(c)
  BY DEF Ours
<1> QED BY <1>1 DEF Ours, OwnConfig, OfUnit

\* What the end of a window clears: what it heard that nobody of this process
\* has written.
LEMMA CloseWindowIs ==
  ASSUME NEW i \in Instance, NEW sn \in Serial[i], CloseWindow(i, sn)
  PROVE  /\ sweep[<<i, sn>>].at \in {"window", "broken"}
         /\ \E heard \in SUBSET Owned(i, sn) :
              /\ sweep[<<i, sn>>].at = "window" => heard = Owned(i, sn)
              /\ i \notin session => retained' = retained
              /\ i \in session => retained' = {c \in retained : c \in heard =>
                                               TopicOf(c) \in sweep[<<i, sn>>].published \cup declared[i]}
<1> DEFINE at == sweep[<<i, sn>>].at
           owned == Owned(i, sn)
           Spared(heard) == {c \in retained : c \in heard =>
                              TopicOf(c) \in sweep[<<i, sn>>].published \cup declared[i]}
           Cleared(heard) == retained' = IF i \in session THEN Spared(heard) ELSE retained
           heards == IF at = "window" THEN {owned} ELSE SUBSET owned
<1>1. at \in {"window", "broken"} /\ \E heard \in heards : Cleared(heard)
  BY Zenon DEF CloseWindow
<1>2. PICK heard \in heards : Cleared(heard)
  BY <1>1, Zenon
<1>3. heard \in SUBSET owned /\ (at = "window" => heard = owned)
  <2> HIDE DEF at, owned
  <2>1. CASE at = "window"
    BY <2>1
  <2>2. CASE at # "window"
    BY <2>2
  <2> QED BY <2>1, <2>2
<1>4. /\ i \notin session => retained' = retained
      /\ i \in session => retained' = Spared(heard)
  BY <1>2
<1> QED BY <1>1, <1>3, <1>4, Zenon

LEMMA OursStep ==
  ASSUME PlainSerials, TypeOK, Ours, [Next]_vars
  PROVE  Ours'
<1>1. CASE \E i \in Instance : Connect(i)
  <2>1. PICK i \in Instance : Connect(i)
    BY <1>1
  <2>2. PICK docs : Writes(docs, i) /\ retained' = Written(docs)
    BY <2>1, ConnectWrites, Zenon
  <2> QED BY <2>2, OursWritten
<1>2. CASE \E i \in Instance : \E sn \in Serial[i], packs \in Reported : Report(i, sn, packs)
  <2>0. PICK i \in Instance : \E sn \in Serial[i], packs \in Reported : Report(i, sn, packs)
    BY <1>2
  <2>1. PICK sn \in Serial[i], packs \in Reported : Report(i, sn, packs)
    BY <2>0, Zenon
  <2>2. CASE i \in session
    <3>1. PICK docs : Writes(docs, i) /\ retained' = Written(docs)
      BY <2>1, <2>2, ReportWrites, Zenon
    <3> QED BY <3>1, OursWritten
  <2>3. CASE i \notin session
    <3>1. retained' = retained
      BY <2>1, <2>3, Zenon DEF Report
    <3> QED BY <3>1, OursLess
  <2> QED BY <2>2, <2>3
<1>3. CASE \E i \in Instance : \E sn \in Serial[i] : OpenWindow(i, sn)
  <2>1. retained' = retained
    BY <1>3, Zenon DEF OpenWindow
  <2> QED BY <2>1, OursLess
<1>4. CASE \E i \in Instance : \E sn \in Serial[i] : CloseWindow(i, sn)
  <2>0. PICK i \in Instance : \E sn \in Serial[i] : CloseWindow(i, sn)
    BY <1>4
  <2>1. PICK sn \in Serial[i] : CloseWindow(i, sn)
    BY <2>0
  <2>2. retained' \subseteq retained
    BY <2>1, CloseWindowIs
  <2> QED BY <2>2, OursLess
<1>5. CASE \E i \in Instance : Restart(i)
  <2>1. retained' = retained
    BY <1>5, Zenon DEF Restart
  <2> QED BY <2>1, OursLess
<1>6. CASE UNCHANGED vars
  <2>1. retained' = retained
    BY <1>6, Zenon DEF vars
  <2> QED BY <2>1, OursLess
<1> QED BY <1>1, <1>2, <1>3, <1>4, <1>5, <1>6, Zenon DEF Next
\* The parts of the type invariant.
Sweep == [at : {"idle", "start", "window", "broken"}, published : SUBSET DocumentTopic]

Declared ==
  /\ declared \in [Instance -> SUBSET DocumentTopic]
  /\ \A i \in Instance : \A t \in declared[i] : Slash \notin Range(t.id)

Types ==
  /\ session \subseteq Instance
  /\ Declared
  /\ last \in [Served -> Reported \cup {None}]
  /\ sig \in [Served -> SUBSET DocumentTopic]
  /\ sweep \in [Served -> Sweep]
  /\ swept \subseteq Served

LEMMA TypeParts == TypeOK <=> Types /\ \A c \in retained : c.by \in Instance => c.sn \in Serial[c.by]
<1> DEFINE slashes == \A i \in Instance : \A t \in declared[i] : Slash \notin Range(t.id)
           serials == \A c \in retained : c.by \in Instance => c.sn \in Serial[c.by]
           sweeps == sweep \in [Served -> Sweep]
<1>1. TypeOK <=> /\ session \subseteq Instance
                 /\ serials
                 /\ declared \in [Instance -> SUBSET DocumentTopic]
                 /\ slashes
                 /\ last \in [Served -> Reported \cup {None}]
                 /\ sig \in [Served -> SUBSET DocumentTopic]
                 /\ sweeps
                 /\ swept \subseteq Served
  BY Zenon DEF TypeOK, Sweep, Slash
<1> HIDE DEF slashes, serials, sweeps
<1>2. Types <=> /\ session \subseteq Instance
                /\ declared \in [Instance -> SUBSET DocumentTopic]
                /\ slashes
                /\ last \in [Served -> Reported \cup {None}]
                /\ sig \in [Served -> SUBSET DocumentTopic]
                /\ sweeps
                /\ swept \subseteq Served
  BY Zenon DEF Types, Declared, slashes, sweeps
<1>3. TypeOK <=> Types /\ serials
  BY <1>1, <1>2
<1> QED BY <1>3 DEF serials

LEMMA Declares ==
  ASSUME PlainSerials, Declared, NEW i \in Instance, NEW docs, Writes(docs, i),
         declared' = [declared EXCEPT ![i] = @ \cup {TopicOf(d) : d \in docs}]
  PROVE  Declared'
<1> DEFINE topics == {TopicOf(d) : d \in docs}
<1>1. \A t \in topics : t \in DocumentTopic /\ Slash \notin Range(t.id)
  BY WritesAre
<1>2. declared' = [declared EXCEPT ![i] = @ \cup topics]
  OBVIOUS
<1> HIDE DEF topics
<1>3. declared' \in [Instance -> SUBSET DocumentTopic]
  BY <1>1, <1>2 DEF Declared
<1>4. \A j \in Instance : declared'[j] = IF j = i THEN declared[i] \cup topics ELSE declared[j]
  BY <1>2 DEF Declared
<1>5. \A j \in Instance : \A t \in declared'[j] : Slash \notin Range(t.id)
  BY <1>1, <1>4 DEF Declared
<1>6. DocumentTopic' = DocumentTopic /\ Slash' = Slash
  BY DEF Slash, DocumentTopic, Documents, Document, TopicOf, Served
<1> QED BY <1>3, <1>5 DEF Declared

LEMMA TypesInit ==
  ASSUME Init
  PROVE  Types
<1>1. /\ session = {} /\ declared = [i \in Instance |-> {}] /\ last = [u \in Served |-> None]
      /\ sig = [u \in Served |-> {}] /\ sweep = [u \in Served |-> Idle] /\ swept = {}
  BY Zenon DEF Init
<1>2. Idle \in Sweep
  BY DEF Idle, Sweep
<1>3. \A i \in Instance : declared[i] = {}
  BY <1>1
<1> QED BY <1>1, <1>2, <1>3 DEF Types, Declared

LEMMA TypesReport ==
  ASSUME PlainSerials, TypeOK, Types, NEW i \in Instance, NEW sn \in Serial[i], NEW packs \in Reported,
         Report(i, sn, packs)
  PROVE  Types'
<1> DEFINE u == <<i, sn>>
           published == {TopicOf(d) : d \in Documents(i, sn, packs)}
<1>1. /\ last' = [last EXCEPT ![u] = packs]
      /\ i \notin session => declared' = declared
      /\ sig' = [sig EXCEPT ![u] = published]
      /\ sweep' = IF sig[u] # published /\ sweep[u].at = "idle"
                  THEN [sweep EXCEPT ![u] = [at |-> "start", published |-> published]]
                  ELSE sweep
      /\ session' = session /\ swept' = swept
  BY Zenon DEF Report
<1>2. u \in Served
  BY DEF Served
<1>3. published \subseteq DocumentTopic
  BY DocumentsAre
<1> HIDE DEF u, published
<1>4. Declared'
  <2>1. CASE i \in session
    <3>1. Writes(Documents(i, sn, packs), i)
      BY DEF Writes
    <3>2. declared' = [declared EXCEPT ![i] = @ \cup {TopicOf(d) : d \in Documents(i, sn, packs)}]
      BY <2>1, Zenon DEF Report
    <3> QED BY <3>1, <3>2, Declares DEF Types
  <2>2. CASE i \notin session
    BY <1>1, <2>2 DEF Types, Declared
  <2> QED BY <2>1, <2>2
<1>5. last' \in [Served -> Reported \cup {None}]
  BY <1>1 DEF Types
<1>6. sig' \in [Served -> SUBSET DocumentTopic]
  BY <1>1, <1>3 DEF Types
<1>7. sweep' \in [Served -> Sweep]
  <2>1. [at |-> "start", published |-> published] \in Sweep
    BY <1>3 DEF Sweep
  <2> DEFINE s == [at |-> "start", published |-> published]
  <2> HIDE DEF s
  <2>2. sweep' = sweep \/ sweep' = [sweep EXCEPT ![u] = s]
    BY <1>1 DEF s
  <2>3. s \in Sweep /\ sweep \in [Served -> Sweep]
    BY <2>1 DEF s, Types
  <2> QED BY <2>2, <2>3
<1>8. session' \subseteq Instance /\ swept' \subseteq Served
  BY <1>1 DEF Types
<1> QED BY <1>4, <1>5, <1>6, <1>7, <1>8 DEF Types
LEMMA TypesConnect ==
  ASSUME PlainSerials, TypeOK, Types, NEW i \in Instance, Connect(i)
  PROVE  Types'
<1>1. Declared' /\ session' \subseteq Instance /\ last' = last /\ sig' = sig /\ swept' = swept
  <2>1. PICK docs : /\ Writes(docs, i) /\ session' \subseteq session \cup {i}
                    /\ declared' = [declared EXCEPT ![i] = @ \cup {TopicOf(d) : d \in docs}]
                    /\ last' = last /\ sig' = sig /\ swept' = swept
    BY ConnectWrites, Zenon
  <2>2. Declared'
    BY <2>1, Declares DEF Types
  <2> QED BY <2>1, <2>2 DEF Types
<1>2. PICK is : Break(is)
  BY Zenon DEF Connect
<1>3. sweep' \in [Served -> Sweep]
  <2> DEFINE next(u) == IF u[1] \in is /\ sweep[u].at = "window" THEN [sweep[u] EXCEPT !.at = "broken"]
                        ELSE sweep[u]
  <2>1. \A u \in Served : next(u) \in Sweep
    BY DEF Types, Sweep
  <2>2. sweep' = [u \in Served |-> next(u)]
    BY <1>2, Zenon DEF Break
  <2> HIDE DEF next
  <2> QED BY <2>1, <2>2
<1> QED BY <1>1, <1>3 DEF Types

LEMMA TypesWindow ==
  ASSUME Types, NEW i \in Instance, NEW sn \in Serial[i], OpenWindow(i, sn) \/ CloseWindow(i, sn)
  PROVE  Types'
<1> DEFINE u == <<i, sn>>
<1>1. u \in Served
  BY DEF Served
<1>2. Idle \in Sweep /\ sweep[u] \in Sweep
  BY <1>1 DEF Idle, Sweep, Types
<1>3. [sweep[u] EXCEPT !.at = "window"] \in Sweep
  BY <1>2 DEF Sweep
<1>4. /\ session' = session /\ declared' = declared /\ last' = last /\ sig' = sig
      /\ swept' = swept \/ swept' = swept \cup {u}
      /\ \E s \in {Idle, [sweep[u] EXCEPT !.at = "window"]} : sweep' = [sweep EXCEPT ![u] = s]
  <2>1. CASE OpenWindow(i, sn)
    BY <2>1, Zenon DEF OpenWindow
  <2>2. CASE CloseWindow(i, sn)
    BY <2>2, Zenon DEF CloseWindow
  <2> QED BY <2>1, <2>2
<1> HIDE DEF u
<1>5. PICK s \in Sweep : sweep' = [sweep EXCEPT ![u] = s]
  BY <1>2, <1>3, <1>4
<1>6. sweep' \in [Served -> Sweep]
  BY <1>5 DEF Types
<1>7. Declared'
  BY <1>4 DEF Types, Declared
<1> QED BY <1>1, <1>4, <1>6, <1>7 DEF Types

LEMMA TypesRestart ==
  ASSUME Types, NEW i \in Instance, Restart(i)
  PROVE  Types'
<1>1. /\ session' = session \ {i} /\ declared' = [declared EXCEPT ![i] = {}]
      /\ last' = [u \in Served |-> IF u[1] = i THEN None ELSE last[u]]
      /\ sig' = [u \in Served |-> IF u[1] = i THEN {} ELSE sig[u]]
      /\ sweep' = [u \in Served |-> IF u[1] = i THEN Idle ELSE sweep[u]]
      /\ swept' = swept
  BY Zenon DEF Restart
<1>2. Idle \in Sweep
  BY DEF Idle, Sweep
<1>3. Declared'
  <2>1. declared' \in [Instance -> SUBSET DocumentTopic]
    BY <1>1 DEF Types, Declared
  <2>2. \A j \in Instance : declared'[j] = IF j = i THEN {} ELSE declared[j]
    BY <1>1 DEF Types, Declared
  <2> QED BY <2>1, <2>2 DEF Types, Declared
<1>4. last' \in [Served -> Reported \cup {None}]
  BY <1>1 DEF Types
<1>5. sig' \in [Served -> SUBSET DocumentTopic]
  BY <1>1 DEF Types
<1>6. sweep' \in [Served -> Sweep]
  BY <1>1, <1>2 DEF Types
<1> QED BY <1>1, <1>3, <1>4, <1>5, <1>6 DEF Types

LEMMA TypeStep ==
  ASSUME PlainSerials, TypeOK, Ours, [Next]_vars
  PROVE  TypeOK' /\ Ours'
<1>0. Types
  BY TypeParts
<1>1. Ours'
  BY OursStep
<1>2. \A c \in retained' : c.by \in Instance => c.sn \in Serial[c.by]
  <2>1. \A c \in retained' : c \in Foreign \/ OwnConfig(c)
    BY <1>1 DEF Ours, OwnConfig, OfUnit
  <2> QED BY <2>1, BridgesConfig
<1>3. Types'
  <2>1. CASE \E i \in Instance : Connect(i)
    BY <2>1, <1>0, TypesConnect
  <2>2. CASE \E i \in Instance : \E sn \in Serial[i], packs \in Reported : Report(i, sn, packs)
    BY <2>2, <1>0, TypesReport
  <2>3. CASE \E i \in Instance : \E sn \in Serial[i] : OpenWindow(i, sn)
    BY <2>3, <1>0, TypesWindow
  <2>4. CASE \E i \in Instance : \E sn \in Serial[i] : CloseWindow(i, sn)
    BY <2>4, <1>0, TypesWindow
  <2>5. CASE \E i \in Instance : Restart(i)
    BY <2>5, <1>0, TypesRestart
  <2>6. CASE UNCHANGED vars
    BY <1>0, <2>6 DEF vars, Types, Declared
  <2> QED BY <2>1, <2>2, <2>3, <2>4, <2>5, <2>6, Zenon DEF Next
<1>4. TypeOK'
  <2>1. (TypeOK <=> Types /\ \A c \in retained : c.by \in Instance => c.sn \in Serial[c.by])'
    BY TypeParts, PTL
  <2> QED BY <1>2, <1>3, <2>1
<1> QED BY <1>1, <1>4

LEMMA TypesAndOwners == ASSUME PlainSerials PROVE Spec => [](TypeOK /\ Ours)
<1>1. Init => TypeOK /\ Ours
  <2> SUFFICES ASSUME Init PROVE TypeOK /\ Ours
    OBVIOUS
  <2>1. Ours
    BY OursInit
  <2>2. \A c \in retained : c.by \in Instance => c.sn \in Serial[c.by]
    BY <2>1, BridgesConfig DEF Ours
  <2> QED BY <2>1, <2>2, TypesInit, TypeParts
<1>2. TypeOK /\ Ours /\ [Next]_vars => (TypeOK /\ Ours)'
  BY TypeStep
<1> QED BY <1>1, <1>2, PTL DEF Spec

\* In every fleet with plain serials every variable keeps its type, and no
\* topic of more levels than a document's is ever declared
\* (config.go:161-178, validPackSN).
THEOREM TypeCorrect == ASSUME PlainSerials PROVE Spec => []TypeOK
BY TypesAndOwners, PTL
-----------------------------------------------------------------------------
(***************************************************************************)
(* What the sweeps leave.                                                  *)
(***************************************************************************)
\* Documents written, and declared with others that were declared before.
LEMMA FreshWritten ==
  ASSUME PlainSerials, Declared, DeclaredFresh, NEW i \in Instance, NEW docs, NEW all, Writes(docs, i),
         docs = {d \in all : TopicOf(d) \notin declared[i]} \/ docs = all,
         retained' = Written(docs), declared' = [declared EXCEPT ![i] = @ \cup {TopicOf(d) : d \in all}]
  PROVE  DeclaredFresh'
<1> SUFFICES ASSUME NEW j \in Instance, NEW c \in retained', TopicOf(c) \in declared'[j]
             PROVE  ~c.old
  BY DEF DeclaredFresh, TopicOf
<1>1. CASE c \in docs
  BY <1>1, WritesAre
<1>2. CASE c \in retained /\ \A d \in docs : TopicOf(c) # TopicOf(d)
  <2>1. CASE TopicOf(c) \in declared[j]
    BY <1>2, <2>1 DEF DeclaredFresh
  <2>2. CASE TopicOf(c) \notin declared[j]
    <3>1. j = i /\ TopicOf(c) \in {TopicOf(d) : d \in all}
      <4> DEFINE topics == {TopicOf(d) : d \in all}
      <4>1. declared' = [declared EXCEPT ![i] = @ \cup topics]
        OBVIOUS
      <4> HIDE DEF topics
      <4>2. declared'[j] = IF j = i THEN declared[i] \cup topics ELSE declared[j]
        BY <4>1 DEF Declared
      <4> QED BY <2>2, <4>2 DEF topics
    <3>2. PICK d \in all : TopicOf(c) = TopicOf(d)
      BY <3>1
    <3>3. d \in docs
      BY <2>2, <3>1, <3>2
    <3> QED BY <1>2, <3>2, <3>3
  <2> QED BY <2>1, <2>2
<1>3. c \in docs \/ (c \in retained /\ \A d \in docs : TopicOf(c) # TopicOf(d))
  BY WrittenIs
<1> QED BY <1>1, <1>2, <1>3

LEMMA FreshLess ==
  ASSUME DeclaredFresh, retained' \subseteq retained,
         \A i \in Instance : declared'[i] \subseteq declared[i]
  PROVE  DeclaredFresh'
BY DEF DeclaredFresh, TopicOf

LEMMA FreshStep ==
  ASSUME PlainSerials, TypeOK, DeclaredFresh, [Next]_vars
  PROVE  DeclaredFresh'
<1>0. Declared
  BY TypeParts DEF Types
<1>1. CASE \E i \in Instance : Connect(i)
  <2>1. PICK i \in Instance : Connect(i)
    BY <1>1
  <2>2. PICK docs : /\ Writes(docs, i) /\ retained' = Written(docs)
                    /\ declared' = [declared EXCEPT ![i] = @ \cup {TopicOf(d) : d \in docs}]
    BY <2>1, ConnectWrites, Zenon
  <2> QED BY <1>0, <2>2, FreshWritten
<1>2. CASE \E i \in Instance : \E sn \in Serial[i], packs \in Reported : Report(i, sn, packs)
  <2>0. PICK i \in Instance : \E sn \in Serial[i], packs \in Reported : Report(i, sn, packs)
    BY <1>2
  <2>1. PICK sn \in Serial[i], packs \in Reported : Report(i, sn, packs)
    BY <2>0, Zenon
  <2>2. CASE i \in session
    <3> DEFINE all == Documents(i, sn, packs)
    <3>1. PICK docs : /\ docs = {d \in all : TopicOf(d) \notin declared[i]}
                      /\ Writes(docs, i) /\ retained' = Written(docs)
                      /\ declared' = [declared EXCEPT ![i] = @ \cup {TopicOf(d) : d \in all}]
      BY <2>1, <2>2, ReportWrites, Zenon
    <3> HIDE DEF all
    <3> QED BY <1>0, <3>1, FreshWritten
  <2>3. CASE i \notin session
    <3>1. retained' = retained /\ declared' = declared
      BY <2>1, <2>3, Zenon DEF Report
    <3> QED BY <3>1, FreshLess
  <2> QED BY <2>2, <2>3
<1>3. CASE \E i \in Instance : \E sn \in Serial[i] : OpenWindow(i, sn)
  <2>1. retained' = retained /\ declared' = declared
    BY <1>3, Zenon DEF OpenWindow
  <2> QED BY <2>1, FreshLess
<1>4. CASE \E i \in Instance : \E sn \in Serial[i] : CloseWindow(i, sn)
  <2>0. PICK i \in Instance : \E sn \in Serial[i] : CloseWindow(i, sn)
    BY <1>4
  <2>1. PICK sn \in Serial[i] : CloseWindow(i, sn)
    BY <2>0
  <2>2. retained' \subseteq retained
    BY <2>1, CloseWindowIs
  <2>3. declared' = declared
    BY <2>1, Zenon DEF CloseWindow
  <2> QED BY <2>2, <2>3, FreshLess
<1>5. CASE \E i \in Instance : Restart(i)
  <2>1. PICK i \in Instance : Restart(i)
    BY <1>5
  <2>2. retained' = retained /\ declared' = [declared EXCEPT ![i] = {}]
    BY <2>1, Zenon DEF Restart
  <2>3. \A j \in Instance : declared'[j] \subseteq declared[j]
    BY <1>0, <2>2 DEF Declared
  <2> QED BY <2>2, <2>3, FreshLess
<1>6. CASE UNCHANGED vars
  <2>1. retained' = retained /\ declared' = declared
    BY <1>6, Zenon DEF vars
  <2> QED BY <2>1, FreshLess
<1> QED BY <1>1, <1>2, <1>3, <1>4, <1>5, <1>6, Zenon DEF Next
LEMMA GhostsStep ==
  ASSUME PlainSerials, TypeOK, Ours, DeclaredFresh, GhostsGone, [Next]_vars
  PROVE  GhostsGone'
<1>1. ASSUME NEW i \in Instance, NEW docs, Writes(docs, i), retained' = Written(docs), swept' = swept
      PROVE  GhostsGone'
  <2> SUFFICES ASSUME NEW c \in retained', <<c.by, c.sn>> \in swept PROVE ~c.old
    BY <1>1 DEF GhostsGone
  <2>1. c \in docs \/ c \in retained
    BY <1>1, WrittenIs
  <2>2. c \in docs => ~c.old
    BY <1>1, WritesAre
  <2> QED BY <2>1, <2>2 DEF GhostsGone
<1>2. ASSUME retained' = retained, swept' = swept PROVE GhostsGone'
  BY <1>2 DEF GhostsGone
<1>3. CASE \E i \in Instance : Connect(i)
  <2>1. PICK i \in Instance : Connect(i)
    BY <1>3
  <2>2. PICK docs : Writes(docs, i) /\ retained' = Written(docs) /\ swept' = swept
    BY <2>1, ConnectWrites, Zenon
  <2> QED BY <1>1, <2>2
<1>4. CASE \E i \in Instance : \E sn \in Serial[i], packs \in Reported : Report(i, sn, packs)
  <2>0. PICK i \in Instance : \E sn \in Serial[i], packs \in Reported : Report(i, sn, packs)
    BY <1>4
  <2>1. PICK sn \in Serial[i], packs \in Reported : Report(i, sn, packs)
    BY <2>0, Zenon
  <2>2. swept' = swept
    BY <2>1, Zenon DEF Report
  <2>3. CASE i \in session
    <3>1. PICK docs : Writes(docs, i) /\ retained' = Written(docs)
      BY <2>1, <2>3, ReportWrites, Zenon
    <3> QED BY <1>1, <2>2, <3>1
  <2>4. CASE i \notin session
    <3>1. retained' = retained
      BY <2>1, <2>4, Zenon DEF Report
    <3> QED BY <1>2, <2>2, <3>1
  <2> QED BY <2>3, <2>4
<1>5. CASE \E i \in Instance : \E sn \in Serial[i] : OpenWindow(i, sn)
  <2>1. retained' = retained /\ swept' = swept
    BY <1>5, Zenon DEF OpenWindow
  <2> QED BY <1>2, <2>1
<1>6. CASE \E i \in Instance : \E sn \in Serial[i] : CloseWindow(i, sn)
  <2>0. PICK i \in Instance : \E sn \in Serial[i] : CloseWindow(i, sn)
    BY <1>6
  <2>1. PICK sn \in Serial[i] : CloseWindow(i, sn)
    BY <2>0
  <2> DEFINE u == <<i, sn>>
             whole == /\ sweep[u].at = "window" /\ i \in session
                      /\ sweep[u].published \subseteq declared[i]
  <2>2. swept' = IF whole THEN swept \cup {u} ELSE swept
    BY <2>1, Zenon DEF CloseWindow
  <2>3. \E heard : /\ sweep[u].at = "window" => heard = Owned(i, sn)
                   /\ i \notin session => retained' = retained
                   /\ i \in session => retained' = {c \in retained : c \in heard =>
                                              TopicOf(c) \in sweep[u].published \cup declared[i]}
    BY <2>1, CloseWindowIs, Zenon
  <2> SUFFICES ASSUME NEW c \in retained', <<c.by, c.sn>> \in swept' PROVE ~c.old
    BY DEF GhostsGone
  <2>4. c \in retained
    BY <2>3
  <2>5. CASE <<c.by, c.sn>> \in swept
    BY <2>4, <2>5 DEF GhostsGone
  <2>6. CASE <<c.by, c.sn>> \notin swept
    <3>1. whole /\ c.by = i /\ c.sn = sn
      BY <2>2, <2>6
    <3>2. PICK p \in Owners(Pack) : OfUnit(c, i, sn, p)
      <4>1. c \in Foreign \/ OwnConfig(c)
        BY <2>4 DEF Ours
      <4> QED BY <3>1, <4>1, BridgesConfig
    <3>3. c \in Owned(i, sn)
      BY <2>4, <3>2, OwnRecognised DEF Owned
    <3>4. TopicOf(c) \in sweep[u].published \cup declared[i]
      BY <2>3, <3>1, <3>3
    <3>5. TopicOf(c) \in declared[i]
      BY <3>1, <3>4
    <3> QED BY <2>4, <3>5 DEF DeclaredFresh
  <2> QED BY <2>5, <2>6
<1>7. CASE \E i \in Instance : Restart(i)
  <2>1. retained' = retained /\ swept' = swept
    BY <1>7, Zenon DEF Restart
  <2> QED BY <1>2, <2>1
<1>8. CASE UNCHANGED vars
  <2>1. retained' = retained /\ swept' = swept
    BY <1>8, Zenon DEF vars
  <2> QED BY <1>2, <2>1
<1> QED BY <1>3, <1>4, <1>5, <1>6, <1>7, <1>8, Zenon DEF Next

\* In every fleet with plain serials, whatever its names, its packs and its
\* past releases: once a whole sweep of a unit has run, nothing an earlier
\* process left of it is retained (cleanup.go:13-21, 92-106).
THEOREM NoGhosts == ASSUME PlainSerials PROVE Spec => []GhostsGone
<1>1. Init => DeclaredFresh /\ GhostsGone
  <2> SUFFICES ASSUME Init PROVE DeclaredFresh /\ GhostsGone
    OBVIOUS
  <2>1. swept = {} /\ declared = [i \in Instance |-> {}]
    BY OursInit
  <2>2. \A i \in Instance : declared[i] = {}
    BY <2>1
  <2> QED BY <2>1, <2>2 DEF DeclaredFresh, GhostsGone
<1>2. TypeOK /\ Ours /\ DeclaredFresh /\ GhostsGone /\ [Next]_vars => (DeclaredFresh /\ GhostsGone)'
  BY FreshStep, GhostsStep
<1> QED BY <1>1, <1>2, TypesAndOwners, PTL DEF Spec

\* In every fleet with plain serials and names apart, Home Assistant's
\* unique_ids are one to one with the entities of the bridges' units, those of
\* every past release included (config.go:161-178, discovery.go:264-288).
THEOREM IdentitiesApart == ASSUME PlainSerials, NamesApart PROVE Spec => []OneIdentity
<1>1. Ours => OneIdentity
  <2> SUFFICES ASSUME Ours,
                      NEW c \in retained, NEW d \in retained, c.by \in Instance, d.by \in Instance,
                      NEW e \in c.ents, NEW f \in d.ents
               PROVE  e.uid = f.uid <=> <<c.by, c.sn, e.pack, e.leaf>> = <<d.by, d.sn, f.pack, f.leaf>>
    BY DEF OneIdentity
  <2> DEFINE i == c.by
             j == d.by
             sn == c.sn
             tn == d.sn
  <2>1. /\ i \in Instance /\ sn \in Serial[i] /\ \E p \in Owners(Pack) : OfUnit(c, i, sn, p)
        /\ j \in Instance /\ tn \in Serial[j] /\ \E q \in Owners(Pack) : OfUnit(d, j, tn, q)
    BY BridgesConfig DEF Ours
  <2> HIDE DEF i, j, sn, tn
  <2>2. PICK p \in Owners(Pack), k \in Leaf : e.uid = UniqueID(Identity(i), sn, p, k) /\ e.pack = p /\ e.leaf = k
    <3>1. PICK p \in Owners(Pack) : OfUnit(c, i, sn, p)
      BY <2>1
    <3>2. PICK k \in Leaf, r \in {Name(i), Identity(i)} : e = Entity(Identity(i), r, sn, p, k)
      BY <3>1 DEF OfUnit
    <3>3. e.uid = UniqueID(Identity(i), sn, p, k) /\ e.pack = p /\ e.leaf = k
      BY <3>2, EntityIs
    <3> QED BY <3>3
  <2>3. PICK q \in Owners(Pack), l \in Leaf : f.uid = UniqueID(Identity(j), tn, q, l) /\ f.pack = q /\ f.leaf = l
    <3>1. PICK q \in Owners(Pack) : OfUnit(d, j, tn, q)
      BY <2>1
    <3>2. PICK l \in Leaf, r \in {Name(j), Identity(j)} : f = Entity(Identity(j), r, tn, q, l)
      BY <3>1 DEF OfUnit
    <3>3. f.uid = UniqueID(Identity(j), tn, q, l) /\ f.pack = q /\ f.leaf = l
      BY <3>2, EntityIs
    <3> QED BY <3>3
  <2>4. k \in Piece /\ l \in Piece
    BY Leaves
  <2>5. ASSUME e.uid = f.uid PROVE i = j /\ sn = tn /\ p = q /\ k = l
    <3>1. UniqueID(Identity(i), sn, p, k) = UniqueID(Identity(j), tn, q, l)
      BY <2>2, <2>3, <2>5, Zenon
    <3>2. i \in Instance /\ j \in Instance /\ sn \in Serial[i] /\ tn \in Serial[j]
      BY <2>1
    <3> QED BY <2>4, <3>1, <3>2, UniqueIDsApart
  <2>6. i = j /\ sn = tn /\ p = q /\ k = l => e.uid = f.uid
    BY <2>2, <2>3
  <2>7. e.uid = f.uid <=> i = j /\ sn = tn /\ e.pack = f.pack /\ e.leaf = f.leaf
    BY <2>2, <2>3, <2>5, <2>6, Zenon
  <2> QED BY <2>7 DEF i, j, sn, tn
<1> QED BY <1>1, TypesAndOwners, PTL
-----------------------------------------------------------------------------
(***************************************************************************)
(* What goes from the discovery tree.                                      *)
(***************************************************************************)
LEMMA SessionStep ==
  ASSUME PlainSerials, TypeOK, SessionDeclared, [Next]_vars
  PROVE  SessionDeclared'
<1>0. Declared /\ session \subseteq Instance /\ last \in [Served -> Reported \cup {None}]
  BY TypeParts DEF Types
<1> SUFFICES ASSUME NEW j \in session', NEW tn \in Serial[j], last'[<<j, tn>>] # None,
                    NEW d \in Documents(j, tn, last'[<<j, tn>>])
             PROVE  TopicOf(d) \in declared'[j]
  BY DEF SessionDeclared
<1>1. ASSUME j \in session, last'[<<j, tn>>] = last[<<j, tn>>], declared[j] \subseteq declared'[j]
      PROVE  TopicOf(d) \in declared'[j]
  BY <1>1 DEF SessionDeclared
<1>2. CASE \E i \in Instance : Connect(i)
  <2>1. PICK i \in Instance : Connect(i)
    BY <1>2
  <2>2. PICK docs : /\ session' \subseteq session \cup {i}
                    /\ \A sn \in Serial[i] : last[<<i, sn>>] # None =>
                         Documents(i, sn, last[<<i, sn>>]) \subseteq docs
                    /\ declared' = [declared EXCEPT ![i] = @ \cup {TopicOf(e) : e \in docs}]
                    /\ last' = last
    BY <2>1, ConnectWrites, Zenon
  <2> DEFINE topics == {TopicOf(e) : e \in docs}
  <2>3. d \in docs => TopicOf(d) \in topics
    OBVIOUS
  <2>4. declared' = [declared EXCEPT ![i] = @ \cup topics]
    BY <2>2
  <2> HIDE DEF topics
  <2>5. declared'[i] = declared[i] \cup topics /\ \A k \in Instance : declared[k] \subseteq declared'[k]
    BY <1>0, <2>4 DEF Declared
  <2>6. CASE j = i
    <3>1. d \in docs
      BY <2>2, <2>6
    <3> QED BY <2>3, <2>5, <2>6, <3>1
  <2>7. CASE j # i
    <3>1. j \in session
      BY <2>2, <2>7
    <3> QED BY <1>0, <1>1, <2>2, <2>5, <3>1
  <2> QED BY <2>6, <2>7
<1>3. CASE \E i \in Instance : \E sn \in Serial[i], packs \in Reported : Report(i, sn, packs)
  <2>0. PICK i \in Instance : \E sn \in Serial[i], packs \in Reported : Report(i, sn, packs)
    BY <1>3
  <2>1. PICK sn \in Serial[i], packs \in Reported : Report(i, sn, packs)
    BY <2>0, Zenon
  <2>2. session' = session /\ last' = [last EXCEPT ![<<i, sn>>] = packs]
    BY <2>1, Zenon DEF Report
  <2>3. <<i, sn>> \in Served /\ <<j, tn>> \in Served
    BY <1>0, <2>2 DEF Served
  <2>4. last'[<<j, tn>>] = IF j = i /\ tn = sn THEN packs ELSE last[<<j, tn>>]
    BY <1>0, <2>2, <2>3
  <2>5. CASE i \notin session
    <3>1. declared' = declared
      BY <2>1, <2>5, Zenon DEF Report
    <3> QED BY <1>1, <2>2, <2>4, <2>5, <3>1
  <2>6. CASE i \in session
    <3> DEFINE topics == {TopicOf(e) : e \in Documents(i, sn, packs)}
    <3>1. d \in Documents(i, sn, packs) => TopicOf(d) \in topics
      OBVIOUS
    <3>2. declared' = [declared EXCEPT ![i] = @ \cup topics]
      BY <2>1, <2>6, Zenon DEF Report
    <3> HIDE DEF topics
    <3>3. declared'[i] = declared[i] \cup topics /\ \A k \in Instance : declared[k] \subseteq declared'[k]
      BY <1>0, <3>2 DEF Declared
    <3>4. CASE j = i /\ tn = sn
      BY <2>4, <3>1, <3>3, <3>4
    <3>5. CASE ~(j = i /\ tn = sn)
      BY <1>0, <1>1, <2>2, <2>4, <3>3, <3>5
    <3> QED BY <3>4, <3>5
  <2> QED BY <2>5, <2>6
<1>4. CASE \E i \in Instance : \E sn \in Serial[i] : OpenWindow(i, sn)
  <2>1. session' = session /\ last' = last /\ declared' = declared
    BY <1>4, Zenon DEF OpenWindow
  <2> QED BY <1>1, <2>1
<1>5. CASE \E i \in Instance : \E sn \in Serial[i] : CloseWindow(i, sn)
  <2>1. session' = session /\ last' = last /\ declared' = declared
    BY <1>5, Zenon DEF CloseWindow
  <2> QED BY <1>1, <2>1
<1>6. CASE \E i \in Instance : Restart(i)
  <2>1. PICK i \in Instance : Restart(i)
    BY <1>6
  <2>2. /\ session' = session \ {i} /\ declared' = [declared EXCEPT ![i] = {}]
        /\ last' = [u \in Served |-> IF u[1] = i THEN None ELSE last[u]]
    BY <2>1, Zenon DEF Restart
  <2>3. j \in session /\ j # i
    BY <2>2
  <2>4. declared'[j] = declared[j]
    BY <1>0, <2>2, <2>3 DEF Declared
  <2>5. last'[<<j, tn>>] = last[<<j, tn>>]
    <3> DEFINE v == <<j, tn>>
    <3>1. v \in Served /\ v[1] = j
      BY <1>0, <2>3 DEF Served
    <3> HIDE DEF v
    <3>2. last'[v] = last[v]
      BY <2>2, <2>3, <3>1
    <3> QED BY <3>2 DEF v
  <2> QED BY <1>1, <2>3, <2>4, <2>5
<1>7. CASE UNCHANGED vars
  <2>1. session' = session /\ last' = last /\ declared' = declared
    BY <1>7, Zenon DEF vars
  <2> QED BY <1>1, <2>1
<1> QED BY <1>2, <1>3, <1>4, <1>5, <1>6, <1>7, Zenon DEF Next

\* A document is written over what is of its own unit only.
LEMMA Overwritten ==
  ASSUME PlainSerials, NamesApart, OthersApart, Ours,
         NEW i \in Instance, NEW sn \in Serial[i], NEW packs \in Reported, NEW d \in Documents(i, sn, packs),
         NEW c \in retained,
         TopicOf(c) = TopicOf(d) \/ (c.form = "entity" /\ \E e \in d.ents : c.id = e.uid)
  PROVE  c.by = i /\ c.sn = sn
<1>1. PICK p \in Owners(Pack) :
        /\ d.form = "document" /\ d.id = Identifier(i, sn, p)
        /\ \A e \in d.ents : \E l \in LeafOf(p) : e.uid = UniqueID(Identity(i), sn, p, l)
  BY DocumentsAre
<1>2. TopicOf(d) \in DocumentTopic
  BY DocumentsAre
<1>3. ASSUME NEW e \in d.ents, c.id = e.uid
      PROVE  \E l \in LeafOf(p) : c.id = UniqueID(Identity(i), sn, p, l)
  <2>1. PICK l \in LeafOf(p) : e.uid = UniqueID(Identity(i), sn, p, l)
    BY <1>1, Zenon
  <2> QED BY <1>3, <2>1, Zenon
<1>4. TopicOf(c) = TopicOf(d) => c.form = "document" /\ c.id = Identifier(i, sn, p)
  BY <1>1 DEF TopicOf
<1>5. \/ c.form = "document" /\ c.id = Identifier(i, sn, p)
      \/ c.form = "entity" /\ \E l \in LeafOf(p) : c.id = UniqueID(Identity(i), sn, p, l)
  <2>1. CASE TopicOf(c) = TopicOf(d)
    BY <1>4, <2>1, Zenon
  <2>2. CASE c.form = "entity" /\ \E e \in d.ents : c.id = e.uid
    BY <1>3, <2>2, Zenon
  <2> QED BY <2>1, <2>2, Zenon
<1>6. c \notin Foreign
  <2> SUFFICES ASSUME c \in Foreign PROVE FALSE
    OBVIOUS
  <2>1. /\ TopicOf(c) \notin DocumentTopic
        /\ c.form = "entity" => \A u \in Served : \A q \in Owners(Pack) : \A l \in LeafOf(q) :
                                 c.id # UniqueID(Identity(u[1]), u[2], q, l)
    BY Zenon DEF OthersApart
  <2>2. CASE TopicOf(c) = TopicOf(d)
    BY <1>2, <2>1, <2>2, Zenon
  <2>3. CASE TopicOf(c) # TopicOf(d)
    <3>1. PICK l \in LeafOf(p) : c.form = "entity" /\ c.id = UniqueID(Identity(i), sn, p, l)
      BY <1>1, <2>3, Zenon
    <3> DEFINE u == <<i, sn>>
    <3>2. u \in Served /\ u[1] = i /\ u[2] = sn
      BY DEF Served
    <3> HIDE DEF u
    <3>3. c.id # UniqueID(Identity(u[1]), u[2], p, l)
      BY <2>1, <3>1, <3>2, Zenon
    <3> QED BY <3>1, <3>2, <3>3, Zenon
  <2> QED BY <2>2, <2>3
<1>7. OwnConfig(c)
  BY <1>6 DEF Ours
<1>8. PICK j \in Instance : \E tn \in Serial[j] : \E q \in Owners(Pack) : OfUnit(c, j, tn, q)
  BY <1>7 DEF OwnConfig
<1>9. PICK tn \in Serial[j] : \E q \in Owners(Pack) : OfUnit(c, j, tn, q)
  BY <1>8
<1>10. PICK q \in Owners(Pack) : OfUnit(c, j, tn, q)
  BY <1>9
<1>11. c.by = j /\ c.sn = tn
  BY <1>10, Zenon DEF OfUnit
<1>12. i = j /\ sn = tn
  <2>1. CASE c.form = "document"
    <3>1. c.id = Identifier(i, sn, p) /\ c.id = Identifier(j, tn, q)
      BY <1>5, <1>10, <2>1 DEF OfUnit
    <3>2. Identifier(i, sn, p) = Identifier(j, tn, q)
      BY <3>1, Zenon
    <3> QED BY <3>2, OwnersApart
  <2>2. CASE c.form = "entity"
    <3>1. PICK k \in LeafOf(p) : c.id = UniqueID(Identity(i), sn, p, k)
      BY <1>5, <2>2
    <3>2. PICK l \in Leaf : c.id = UniqueID(Identity(j), tn, q, l)
      BY <1>10, <2>2 DEF OfUnit
    <3>3. UniqueID(Identity(i), sn, p, k) = UniqueID(Identity(j), tn, q, l)
      BY <3>1, <3>2, Zenon
    <3>4. k \in Piece /\ l \in Piece
      BY Leaves
    <3> QED BY <3>3, <3>4, UniqueIDsApart
  <2> QED BY <1>5, <2>1, <2>2
<1> QED BY <1>11, <1>12
\* A window clears what is of its own unit only.
LEMMA Cleared ==
  ASSUME PlainSerials, NamesApart, OthersApart, Ours,
         NEW i \in Instance, NEW sn \in Serial[i], NEW c \in Owned(i, sn)
  PROVE  c.by = i /\ c.sn = sn
<1>1. c \in retained /\ OwnsDeviceConfigTopic(i, sn, c) /\ IsOwnConfig(i, c)
  BY DEF Owned
<1>2. c \notin Foreign
  BY <1>1, ForeignNotOwn
<1>3. OwnConfig(c)
  BY <1>1, <1>2 DEF Ours
<1>4. PICK j \in Instance : \E tn \in Serial[j] : \E q \in Owners(Pack) : OfUnit(c, j, tn, q)
  BY <1>3 DEF OwnConfig
<1>5. PICK tn \in Serial[j] : \E q \in Owners(Pack) : OfUnit(c, j, tn, q)
  BY <1>4
<1>6. PICK q \in Owners(Pack) : OfUnit(c, j, tn, q)
  BY <1>5
<1>7. c.by = j /\ c.sn = tn
  BY <1>6, Zenon DEF OfUnit
<1>8. i = j /\ sn = tn
  BY <1>1, <1>6, Exclusive
<1> QED BY <1>7, <1>8

\* The unit a config was of, and what its instance did for it in the step.
Handled(c) ==
  \E i \in Instance : \E sn \in Serial[i] :
    /\ c.by = i /\ c.sn = sn
    /\ \/ i \in session' \ session
       \/ last'[<<i, sn>>] # last[<<i, sn>>]
       \/ sweep'[<<i, sn>>] # sweep[<<i, sn>>]

LEMMA ClearedStep ==
  ASSUME PlainSerials, NamesApart, OthersApart, TypeOK, Ours, SessionDeclared, [Next]_vars,
         NEW c \in retained \ retained'
  PROVE  Handled(c)
<1>0. Types
  BY TypeParts
<1>1. CASE \E i \in Instance : Connect(i)
  <2>1. PICK i \in Instance : Connect(i)
    BY <1>1
  <2>2. PICK docs : Writes(docs, i) /\ retained' = Written(docs) /\ i \notin session /\ i \in session'
    BY <2>1, ConnectWrites, Zenon
  <2>3. PICK d \in docs : TopicOf(c) = TopicOf(d) \/ (c.form = "entity" /\ \E e \in d.ents : c.id = e.uid)
    BY <2>2, WrittenIs
  <2>4. PICK sn \in Serial[i], packs \in Reported : d \in Documents(i, sn, packs)
    BY <2>2, <2>3 DEF Writes
  <2>5. c.by = i /\ c.sn = sn
    BY <2>3, <2>4, Overwritten
  <2> QED BY <2>2, <2>5 DEF Handled
<1>2. CASE \E i \in Instance : \E sn \in Serial[i], packs \in Reported : Report(i, sn, packs)
  <2>0. PICK i \in Instance : \E sn \in Serial[i], packs \in Reported : Report(i, sn, packs)
    BY <1>2
  <2>1. PICK sn \in Serial[i], packs \in Reported : Report(i, sn, packs)
    BY <2>0, Zenon
  <2>2. i \in session
    <3>1. i \notin session => retained' = retained
      BY <2>1, Zenon DEF Report
    <3> QED BY <3>1
  <2>3. PICK docs : docs = {d \in Documents(i, sn, packs) : TopicOf(d) \notin declared[i]} /\ retained' = Written(docs)
    BY <2>1, <2>2, ReportWrites, Zenon
  <2>4. PICK d \in docs : TopicOf(c) = TopicOf(d) \/ (c.form = "entity" /\ \E e \in d.ents : c.id = e.uid)
    BY <2>3, WrittenIs
  <2>5. d \in Documents(i, sn, packs) /\ TopicOf(d) \notin declared[i]
    BY <2>3, <2>4
  <2>6. c.by = i /\ c.sn = sn
    BY <2>4, <2>5, Overwritten
  <2>7. last'[<<i, sn>>] # last[<<i, sn>>]
    <3>1. last' = [last EXCEPT ![<<i, sn>>] = packs]
      BY <2>1, Zenon DEF Report
    <3>2. <<i, sn>> \in Served
      BY DEF Served
    <3>3. last'[<<i, sn>>] = packs
      BY <1>0, <3>1, <3>2 DEF Types
    <3>4. last[<<i, sn>>] # None => last[<<i, sn>>] # packs
      BY <2>2, <2>5 DEF SessionDeclared
    <3>5. None \notin Reported
      BY InstancesAssumption, Zenon
    <3> QED BY <3>3, <3>4, <3>5
  <2> QED BY <2>6, <2>7 DEF Handled
<1>3. CASE \E i \in Instance : \E sn \in Serial[i] : OpenWindow(i, sn)
  <2>1. retained' = retained
    BY <1>3, Zenon DEF OpenWindow
  <2> QED BY <2>1
<1>4. CASE \E i \in Instance : \E sn \in Serial[i] : CloseWindow(i, sn)
  <2>0. PICK i \in Instance : \E sn \in Serial[i] : CloseWindow(i, sn)
    BY <1>4
  <2>1. PICK sn \in Serial[i] : CloseWindow(i, sn)
    BY <2>0
  <2>2. PICK heard \in SUBSET Owned(i, sn) :
          /\ i \notin session => retained' = retained
          /\ i \in session => retained' = {d \in retained : d \in heard =>
                                 TopicOf(d) \in sweep[<<i, sn>>].published \cup declared[i]}
    BY <2>1, CloseWindowIs, Zenon
  <2>3. c \in Owned(i, sn)
    BY <2>2
  <2>4. c.by = i /\ c.sn = sn
    BY <2>3, Cleared
  <2>5. sweep'[<<i, sn>>] # sweep[<<i, sn>>]
    <3>1. sweep' = [sweep EXCEPT ![<<i, sn>>] = Idle]
      BY <2>1, Zenon DEF CloseWindow
    <3>2. <<i, sn>> \in Served
      BY DEF Served
    <3>3. sweep'[<<i, sn>>] = Idle
      BY <1>0, <3>1, <3>2 DEF Types
    <3>4. Idle.at = "idle"
      BY DEF Idle
    <3>5. sweep[<<i, sn>>].at \in {"window", "broken"}
      BY <2>1, CloseWindowIs, Zenon
    <3> QED BY <3>3, <3>4, <3>5
  <2> QED BY <2>4, <2>5 DEF Handled
<1>5. CASE \E i \in Instance : Restart(i)
  <2>1. retained' = retained
    BY <1>5, Zenon DEF Restart
  <2> QED BY <2>1
<1>6. CASE UNCHANGED vars
  <2>1. retained' = retained
    BY <1>6, Zenon DEF vars
  <2> QED BY <2>1
<1> QED BY <1>1, <1>2, <1>3, <1>4, <1>5, <1>6, Zenon DEF Next

\* In every fleet with plain serials and names apart, among whatever else is
\* announced from roots of their own: what goes from the tree or is written
\* over is of a unit whose own instance just connected, reported or swept it
\* (cleanup.go:22-39, 79-111, coordinator.go:749-751).
THEOREM OwnOnly == ASSUME PlainSerials, NamesApart, OthersApart PROVE Spec => OnlyOwnCleared
<1>1. Init => SessionDeclared
  BY OursInit DEF SessionDeclared
<1>2. TypeOK /\ SessionDeclared /\ [Next]_vars => SessionDeclared'
  BY SessionStep
<1>3. TypeOK /\ Ours /\ SessionDeclared /\ [Next]_vars =>
        [\A c \in retained \ retained' :
           \E i \in Instance : \E sn \in Serial[i] :
             /\ c.by = i /\ c.sn = sn
             /\ \/ i \in session' \ session
                \/ last'[<<i, sn>>] # last[<<i, sn>>]
                \/ sweep'[<<i, sn>>] # sweep[<<i, sn>>]]_vars
  BY ClearedStep DEF Handled
<1> QED BY <1>1, <1>2, <1>3, TypesAndOwners, PTL DEF Spec, OnlyOwnCleared
=============================================================================
