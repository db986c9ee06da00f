----------------------- MODULE RespConnectionsProofs -----------------------
(***************************************************************************)
(* Proofs about RespConnections, for every list of commands, however the   *)
(* client's messages cut it, and for every limit and capacity.             *)
(***************************************************************************)
EXTENDS RespConnections, Induction, SequenceTheorems, FiniteSetTheorems

----------------------------------------------------------------------------
(* The frames of the commands                                              *)

Tokens == [t : {"star", "dollar", "num", "crlf", "data"}, v : Nat, of : Nat]

(* A piece of the stream that belongs to command i; a string in it is as   *)
(* long as its header says if its CR LF follows at once.                   *)
PieceOf(f, shape, i) ==
    /\ f \in Seq(Tokens)
    /\ \A q \in 1 .. Len(f) :
          /\ f[q].of = i
          /\ f[q].t = "dollar" =>
                /\ q + 4 <= Len(f)
                /\ f[q + 1].t = "num" /\ f[q + 1].v = 1 /\ f[q + 2].t = "crlf"
                /\ f[q + 4].t = "crlf" => shape \in {"allowed", "denied"}

LEMMA DataIs ==
    ASSUME NEW i \in Nat
    PROVE  /\ Crlf(i) \in Tokens /\ Crlf(i).t = "crlf" /\ Crlf(i).of = i
           /\ Data(i) \in Tokens /\ Data(i).t = "data" /\ Data(i).of = i
<1>1. Crlf(i) \in Tokens /\ Crlf(i).t = "crlf" /\ Crlf(i).of = i
  BY DEF Crlf, Token, Tokens
<1>2. Data(i) \in Tokens /\ Data(i).t = "data" /\ Data(i).of = i
  BY DEF Data, Token, Tokens
<1> QED
  BY <1>1, <1>2

(* Where the tokens of two pieces are in the one that joins them.          *)
LEMMA Joined ==
    ASSUME NEW a \in Seq(Tokens), NEW b \in Seq(Tokens)
    PROVE  /\ a \o b \in Seq(Tokens) /\ Len(a \o b) = Len(a) + Len(b)
           /\ Len(a) \in Nat /\ Len(b) \in Nat
           /\ \A k \in 1 .. Len(a) : (a \o b)[k] = a[k]
           /\ \A k \in 1 .. Len(b) : (a \o b)[Len(a) + k] = b[k]
<1>1. /\ a \o b \in Seq(Tokens) /\ Len(a \o b) = Len(a) + Len(b)
      /\ \A i \in 1 .. Len(a) + Len(b) :
            (a \o b)[i] = IF i <= Len(a) THEN a[i] ELSE b[i - Len(a)]
  BY ConcatProperties
<1>2. Len(a) \in Nat /\ Len(b) \in Nat
  OBVIOUS
<1>3. ASSUME NEW k \in 1 .. Len(a) PROVE (a \o b)[k] = a[k]
  <2>1. k \in 1 .. Len(a) + Len(b) /\ k <= Len(a)
    BY <1>2
  <2> QED
    BY <1>1, <2>1
<1>4. ASSUME NEW k \in 1 .. Len(b) PROVE (a \o b)[Len(a) + k] = b[k]
  <2>1. /\ Len(a) + k \in 1 .. Len(a) + Len(b) /\ ~(Len(a) + k <= Len(a))
        /\ (Len(a) + k) - Len(a) = k
    BY <1>2
  <2> QED
    BY <1>1, <2>1
<1> QED
  BY <1>1, <1>2, <1>3, <1>4

LEMMA Tuples ==
    ASSUME NEW S, NEW a \in S, NEW b \in S, NEW c \in S
    PROVE  /\ <<a, b, c>> \in Seq(S) /\ Len(<<a, b, c>>) = 3
           /\ <<a, b, c>>[1] = a /\ <<a, b, c>>[2] = b /\ <<a, b, c>>[3] = c
           /\ <<a, b>> \in Seq(S) /\ Len(<<a, b>>) = 2
           /\ <<a, b>>[1] = a /\ <<a, b>>[2] = b
OBVIOUS

LEMMA LineIs ==
    ASSUME NEW mark \in {"star", "dollar"}, NEW n \in Nat, NEW i \in Nat
    PROVE  LET f == Line(mark, n, i)
           IN  /\ f \in Seq(Tokens) /\ Len(f) = 3
               /\ f[1].t = mark /\ f[2].t = "num" /\ f[2].v = n /\ f[3].t = "crlf"
               /\ \A q \in 1 .. 3 : f[q].of = i
<1> DEFINE a == Token(mark, 0, i)
           b == Token("num", n, i)
           c == Crlf(i)
           f == Line(mark, n, i)
<1>1. /\ a \in Tokens /\ b \in Tokens /\ c \in Tokens
      /\ a.t = mark /\ b.t = "num" /\ b.v = n /\ c.t = "crlf"
      /\ a.of = i /\ b.of = i /\ c.of = i
  <2>1. a \in Tokens /\ a.t = mark /\ a.of = i
    BY DEF Token, Tokens
  <2>2. b \in Tokens /\ b.t = "num" /\ b.v = n /\ b.of = i
    BY DEF Token, Tokens
  <2> HIDE DEF a, b
  <2> QED
    BY <2>1, <2>2, DataIs
<1>2. f = <<a, b, c>>
  BY DEF Line
<1> HIDE DEF a, b, c, f
<1>3. f \in Seq(Tokens) /\ Len(f) = 3 /\ f[1] = a /\ f[2] = b /\ f[3] = c
  BY <1>1, <1>2, Tuples
<1> QED
  BY <1>1, <1>3 DEF f

LEMMA BulkIs ==
    ASSUME NEW i \in Nat, NEW shape \in {"allowed", "denied"}
    PROVE  LET f == Bulk(i)
           IN  /\ Len(f) = 5 /\ PieceOf(f, shape, i) /\ \A q \in 1 .. 5 : f[q].t # "star"
               /\ f[1].t = "dollar" /\ f[2].t = "num" /\ f[2].v = 1 /\ f[3].t = "crlf"
               /\ f[4].t = "data" /\ f[5].t = "crlf"
<1> DEFINE a == Line("dollar", 1, i)
           b == <<Data(i), Crlf(i)>>
           f == Bulk(i)
<1>1. /\ a \in Seq(Tokens) /\ Len(a) = 3
      /\ a[1].t = "dollar" /\ a[2].t = "num" /\ a[2].v = 1 /\ a[3].t = "crlf"
      /\ \A q \in 1 .. 3 : a[q].of = i
  BY LineIs, SMTT(30)
<1>2. /\ b \in Seq(Tokens) /\ Len(b) = 2 /\ b[1].t = "data" /\ b[2].t = "crlf"
      /\ b[1].of = i /\ b[2].of = i
  BY DataIs, Tuples
<1>3. f = a \o b
  BY DEF Bulk
<1> HIDE DEF a, b, f
<1>4. /\ f \in Seq(Tokens) /\ Len(f) = 5
      /\ f[1] = a[1] /\ f[2] = a[2] /\ f[3] = a[3] /\ f[4] = b[1] /\ f[5] = b[2]
  <2>1. a \in Seq(Tokens) /\ b \in Seq(Tokens)
    BY <1>1, <1>2
  <2>2. /\ a \o b \in Seq(Tokens) /\ Len(a \o b) = Len(a) + Len(b)
        /\ \A k \in 1 .. Len(a) : (a \o b)[k] = a[k]
        /\ \A k \in 1 .. Len(b) : (a \o b)[Len(a) + k] = b[k]
    BY <2>1, Joined
  <2> QED
    BY <1>1, <1>2, <1>3, <2>2
<1>5. \A q \in 1 .. 5 : q = 1 \/ q = 2 \/ q = 3 \/ q = 4 \/ q = 5
  OBVIOUS
<1>6. /\ f[1].t = "dollar" /\ f[2].t = "num" /\ f[2].v = 1 /\ f[3].t = "crlf"
      /\ f[4].t = "data" /\ f[5].t = "crlf" /\ \A q \in 1 .. 5 : f[q].of = i
  BY <1>1, <1>2, <1>4, <1>5
<1>7. PieceOf(f, shape, i)
  BY <1>4, <1>5, <1>6 DEF PieceOf
<1>8. \A q \in 1 .. 5 : f[q].t # "star"
  BY <1>5, <1>6
<1> QED
  BY <1>4, <1>6, <1>7, <1>8 DEF f

LEMMA OverlongIs ==
    ASSUME NEW i \in Nat, NEW shape
    PROVE  LET f == Overlong(i)
           IN  /\ Len(f) = 6 /\ PieceOf(f, shape, i) /\ \A q \in 1 .. 6 : f[q].t # "star"
               /\ f[1].t = "dollar" /\ f[2].t = "num" /\ f[2].v = 1 /\ f[3].t = "crlf"
               /\ f[4].t = "data" /\ f[5].t = "data" /\ f[6].t = "crlf"
<1> DEFINE a == Line("dollar", 1, i)
           b == <<Data(i), Data(i), Crlf(i)>>
           f == Overlong(i)
<1>1. /\ a \in Seq(Tokens) /\ Len(a) = 3
      /\ a[1].t = "dollar" /\ a[2].t = "num" /\ a[2].v = 1 /\ a[3].t = "crlf"
      /\ \A q \in 1 .. 3 : a[q].of = i
  BY LineIs
<1>2. /\ b \in Seq(Tokens) /\ Len(b) = 3 /\ b[1].t = "data" /\ b[2].t = "data"
      /\ b[3].t = "crlf" /\ b[1].of = i /\ b[2].of = i /\ b[3].of = i
  BY DataIs, Tuples
<1>3. f = a \o b
  BY DEF Overlong
<1> HIDE DEF a, b, f
<1>4. /\ f \in Seq(Tokens) /\ Len(f) = 6
      /\ f[1] = a[1] /\ f[2] = a[2] /\ f[3] = a[3]
      /\ f[4] = b[1] /\ f[5] = b[2] /\ f[6] = b[3]
  <2>1. a \in Seq(Tokens) /\ b \in Seq(Tokens)
    BY <1>1, <1>2
  <2>2. /\ a \o b \in Seq(Tokens) /\ Len(a \o b) = Len(a) + Len(b)
        /\ \A k \in 1 .. Len(a) : (a \o b)[k] = a[k]
        /\ \A k \in 1 .. Len(b) : (a \o b)[Len(a) + k] = b[k]
    BY <2>1, Joined
  <2> QED
    BY <1>1, <1>2, <1>3, <2>2
<1>5. \A q \in 1 .. 6 : q = 1 \/ q = 2 \/ q = 3 \/ q = 4 \/ q = 5 \/ q = 6
  OBVIOUS
<1>6. /\ f[1].t = "dollar" /\ f[2].t = "num" /\ f[2].v = 1 /\ f[3].t = "crlf"
      /\ f[4].t = "data" /\ f[5].t = "data" /\ f[6].t = "crlf"
      /\ \A q \in 1 .. 6 : f[q].of = i
  BY <1>1, <1>2, <1>4, <1>5
<1>7. PieceOf(f, shape, i)
  BY <1>4, <1>5, <1>6 DEF PieceOf
<1>8. \A q \in 1 .. 6 : f[q].t # "star"
  BY <1>5, <1>6
<1> QED
  BY <1>4, <1>6, <1>7, <1>8 DEF f

StarAtHead(f) == \A q \in 2 .. Len(f) : f[q].t # "star"
StarFree(f) == \A q \in 1 .. Len(f) : f[q].t # "star"

LEMMA PieceJoin ==
    ASSUME NEW shape, NEW i \in Nat, NEW a, NEW b, NEW f, f = a \o b,
           PieceOf(a, shape, i), PieceOf(b, shape, i),
           StarAtHead(a), StarFree(b)
    PROVE  PieceOf(f, shape, i) /\ Len(f) = Len(a) + Len(b) /\ StarAtHead(f)
<1> DEFINE m == Len(a)
<1>0. a \in Seq(Tokens) /\ b \in Seq(Tokens)
  BY DEF PieceOf
<1>1. /\ f \in Seq(Tokens) /\ Len(f) = m + Len(b) /\ m \in Nat /\ Len(b) \in Nat
      /\ \A k \in 1 .. m : f[k] = a[k]
      /\ \A k \in 1 .. Len(b) : f[m + k] = b[k]
  BY <1>0, Joined
<1> HIDE DEF m
<1>2. ASSUME NEW q \in 1 .. Len(f)
      PROVE  /\ f[q].of = i
             /\ f[q].t = "dollar" =>
                  /\ q + 4 <= Len(f)
                  /\ f[q + 1].t = "num" /\ f[q + 1].v = 1 /\ f[q + 2].t = "crlf"
                  /\ f[q + 4].t = "crlf" => shape \in {"allowed", "denied"}
             /\ q # 1 => f[q].t # "star"
  <2>1. CASE q <= m
    <3>1. q \in 1 .. m /\ f[q] = a[q] /\ (q # 1 => q \in 2 .. m)
      BY <1>1, <2>1
    <3>2. /\ a[q].of = i
          /\ a[q].t = "dollar" =>
               /\ q + 4 <= m
               /\ a[q + 1].t = "num" /\ a[q + 1].v = 1 /\ a[q + 2].t = "crlf"
               /\ a[q + 4].t = "crlf" => shape \in {"allowed", "denied"}
          /\ q # 1 => a[q].t # "star"
      BY <3>1 DEF PieceOf, StarAtHead, m
    <3>3. q + 4 <= m => /\ q + 4 <= Len(f) /\ f[q + 1] = a[q + 1]
                        /\ f[q + 2] = a[q + 2] /\ f[q + 4] = a[q + 4]
      <4>1. q + 4 <= m => /\ q + 1 \in 1 .. m /\ q + 2 \in 1 .. m /\ q + 4 \in 1 .. m
                          /\ q + 4 <= Len(f)
        BY <1>1
      <4> QED
        BY <1>1, <4>1
    <3> QED
      BY <3>1, <3>2, <3>3
  <2>2. CASE q > m
    <3> DEFINE k == q - m
    <3>1. k \in 1 .. Len(b) /\ q = m + k /\ k \in Nat
      BY <1>1, <2>2
    <3> HIDE DEF k
    <3>2. f[q] = b[k]
      BY <1>1, <3>1
    <3>3. /\ b[k].of = i
          /\ b[k].t = "dollar" =>
               /\ k + 4 <= Len(b)
               /\ b[k + 1].t = "num" /\ b[k + 1].v = 1 /\ b[k + 2].t = "crlf"
               /\ b[k + 4].t = "crlf" => shape \in {"allowed", "denied"}
          /\ b[k].t # "star"
      BY <3>1 DEF PieceOf, StarFree
    <3>4. k + 4 <= Len(b) => /\ q + 4 <= Len(f) /\ f[q + 1] = b[k + 1]
                             /\ f[q + 2] = b[k + 2] /\ f[q + 4] = b[k + 4]
      <4>1. k + 4 <= Len(b) =>
              /\ k + 1 \in 1 .. Len(b) /\ k + 2 \in 1 .. Len(b) /\ k + 4 \in 1 .. Len(b)
              /\ q + 1 = m + (k + 1) /\ q + 2 = m + (k + 2) /\ q + 4 = m + (k + 4)
              /\ q + 4 <= Len(f)
        BY <1>1, <3>1
      <4>2. k + 4 <= Len(b) => /\ f[m + (k + 1)] = b[k + 1] /\ f[m + (k + 2)] = b[k + 2]
                               /\ f[m + (k + 4)] = b[k + 4]
        BY <1>1, <4>1
      <4> QED
        BY <4>1, <4>2
    <3> QED
      BY <3>2, <3>3, <3>4
  <2>3. q <= m \/ q > m
    BY <1>1
  <2> QED
    BY <2>1, <2>2, <2>3
<1>3. PieceOf(f, shape, i)
  BY <1>1, <1>2 DEF PieceOf
<1>4. StarAtHead(f)
  <2>1. \A q \in 2 .. Len(f) : q \in 1 .. Len(f) /\ q # 1
    BY <1>1
  <2> QED
    BY <1>2, <2>1 DEF StarAtHead
<1> QED
  BY <1>1, <1>3, <1>4 DEF m

(* A frame begins with the only star in it.                                *)
FrameOf(f, shape, i) ==
    PieceOf(f, shape, i) /\ Len(f) >= 3 /\ StarAtHead(f)

LEMMA FrameIs ==
    ASSUME NEW shape \in Shapes, NEW i \in Nat
    PROVE  FrameOf(Frame(shape, i), shape, i)
<1>1. ASSUME NEW n \in Nat
      PROVE  LET f == Line("star", n, i)
             IN  PieceOf(f, shape, i) /\ Len(f) = 3 /\ StarAtHead(f)
  <2> DEFINE f == Line("star", n, i)
  <2>1. /\ f \in Seq(Tokens) /\ Len(f) = 3
        /\ f[1].t = "star" /\ f[2].t = "num" /\ f[3].t = "crlf"
        /\ \A q \in 1 .. 3 : f[q].of = i
    BY <1>1, LineIs
  <2>2. \A q \in 1 .. 3 : q = 1 \/ q = 2 \/ q = 3
    OBVIOUS
  <2> HIDE DEF f
  <2>3. PieceOf(f, shape, i)
    BY <2>1, <2>2 DEF PieceOf
  <2>4. StarAtHead(f)
    <3>1. \A q \in 2 .. 3 : q = 2 \/ q = 3
      OBVIOUS
    <3> QED
      BY <2>1, <3>1 DEF StarAtHead
  <2> QED
    BY <2>1, <2>3, <2>4 DEF f
<1>2. CASE shape = "empty"
  <2>1. Frame(shape, i) = Line("star", 0, i)
    BY <1>2 DEF Frame
  <2> QED
    BY <1>1, <2>1 DEF FrameOf
<1>3. CASE shape = "denied"
  <2> DEFINE a == Line("star", 1, i)
             b == Bulk(i)
  <2>1. Frame(shape, i) = a \o b
    BY <1>3 DEF Frame
  <2>2. PieceOf(a, shape, i) /\ Len(a) = 3 /\ StarAtHead(a)
    BY <1>1
  <2>3. PieceOf(b, shape, i) /\ Len(b) = 5 /\ StarFree(b)
    BY <1>3, BulkIs DEF StarFree
  <2> HIDE DEF a, b
  <2> DEFINE f == Frame(shape, i)
  <2> HIDE DEF f
  <2>5. f = a \o b
    BY <2>1 DEF f
  <2>8. PieceOf(a, shape, i) /\ PieceOf(b, shape, i) /\ StarAtHead(a) /\ StarFree(b)
    BY <2>2, <2>3
  <2>6. PieceOf(f, shape, i)
    BY <2>5, <2>8, PieceJoin
  <2>9. StarAtHead(f)
    BY <2>5, <2>8, PieceJoin
  <2>10. Len(f) = Len(a) + Len(b)
    BY <2>5, <2>8, PieceJoin
  <2> QED
    BY <2>2, <2>3, <2>6, <2>9, <2>10 DEF FrameOf, f
<1>4. CASE shape = "overlong"
  <2> DEFINE a == Line("star", 1, i)
             b == Overlong(i)
  <2>1. Frame(shape, i) = a \o b
    BY <1>4 DEF Frame
  <2>2. PieceOf(a, shape, i) /\ Len(a) = 3 /\ StarAtHead(a)
    BY <1>1
  <2>3. PieceOf(b, shape, i) /\ Len(b) = 6 /\ StarFree(b)
    BY <1>4, OverlongIs DEF StarFree
  <2> HIDE DEF a, b
  <2> DEFINE f == Frame(shape, i)
  <2> HIDE DEF f
  <2>5. f = a \o b
    BY <2>1 DEF f
  <2>8. PieceOf(a, shape, i) /\ PieceOf(b, shape, i) /\ StarAtHead(a) /\ StarFree(b)
    BY <2>2, <2>3
  <2>6. PieceOf(f, shape, i)
    BY <2>5, <2>8, PieceJoin
  <2>9. StarAtHead(f)
    BY <2>5, <2>8, PieceJoin
  <2>10. Len(f) = Len(a) + Len(b)
    BY <2>5, <2>8, PieceJoin
  <2> QED
    BY <2>2, <2>3, <2>6, <2>9, <2>10 DEF FrameOf, f
<1>5. CASE shape = "allowed"
  <2> DEFINE a == Line("star", 2, i)
             b == Bulk(i)
             c == a \o b
  <2>1. Frame(shape, i) = c \o b
    BY <1>5 DEF Frame
  <2>2. PieceOf(a, shape, i) /\ Len(a) = 3 /\ StarAtHead(a)
    BY <1>1
  <2>3. PieceOf(b, shape, i) /\ Len(b) = 5 /\ StarFree(b)
    BY <1>5, BulkIs DEF StarFree
  <2> HIDE DEF a, b
  <2>7. c = a \o b
    OBVIOUS
  <2> HIDE DEF c
  <2>4. PieceOf(c, shape, i) /\ Len(c) = 8 /\ StarAtHead(c)
    <3>0. PieceOf(a, shape, i) /\ PieceOf(b, shape, i) /\ StarAtHead(a) /\ StarFree(b)
      BY <2>2, <2>3
    <3>1. PieceOf(c, shape, i)
      BY <2>7, <3>0, PieceJoin
    <3>2. StarAtHead(c)
      BY <2>7, <3>0, PieceJoin
    <3>3. Len(c) = Len(a) + Len(b)
      BY <2>7, <3>0, PieceJoin
    <3> QED
      BY <2>2, <2>3, <3>1, <3>2, <3>3
  <2> DEFINE f == Frame(shape, i)
  <2> HIDE DEF f
  <2>5. f = c \o b
    BY <2>1 DEF f
  <2>8. PieceOf(c, shape, i) /\ PieceOf(b, shape, i) /\ StarAtHead(c) /\ StarFree(b)
    BY <2>3, <2>4
  <2>6. PieceOf(f, shape, i)
    BY <2>5, <2>8, PieceJoin
  <2>9. StarAtHead(f)
    BY <2>5, <2>8, PieceJoin
  <2>10. Len(f) = Len(c) + Len(b)
    BY <2>5, <2>8, PieceJoin
  <2> QED
    BY <2>3, <2>4, <2>6, <2>9, <2>10 DEF FrameOf, f
<1> QED
  BY <1>2, <1>3, <1>4, <1>5 DEF Shapes

----------------------------------------------------------------------------
(* The stream of a client                                                  *)

(* The tokens of later commands come later, and a star comes before every  *)
(* other token of its command.                                             *)
InTurn(st, n) ==
    /\ \A q \in 1 .. Len(st) : st[q].of \in 1 .. n
    /\ \A p, q \in 1 .. Len(st) :
          p < q => /\ st[p].of <= st[q].of
                   /\ st[q].t = "star" => st[p].of < st[q].of

(* A string in the stream, and what it means that its CR LF follows where  *)
(* its header says.                                                        *)
String(st, s, q) ==
    /\ q + 4 <= Len(st)
    /\ st[q + 1].t = "num" /\ st[q + 1].v = 1 /\ st[q + 2].t = "crlf"
    /\ st[q + 3].of = st[q].of
    /\ st[q + 4].t = "crlf" => s[st[q].of] \in {"allowed", "denied"}
Strings(st, s) == \A q \in 1 .. Len(st) : st[q].t = "dollar" => String(st, s, q)

Made(st, s, n) == st \in Seq(Tokens) /\ InTurn(st, n) /\ Strings(st, s)

LEMMA MadeJoin ==
    ASSUME NEW s, NEW n \in Nat, NEW a, NEW f, NEW st, st = a \o f,
           Made(a, s, n), FrameOf(f, s[n + 1], n + 1)
    PROVE  Made(st, s, n + 1)
<1> DEFINE m == Len(a)
<1>0. a \in Seq(Tokens) /\ f \in Seq(Tokens)
  BY DEF Made, FrameOf, PieceOf
<1>1. /\ st \in Seq(Tokens) /\ Len(st) = m + Len(f) /\ m \in Nat /\ Len(f) \in Nat
      /\ \A k \in 1 .. m : st[k] = a[k]
      /\ \A k \in 1 .. Len(f) : st[m + k] = f[k]
  BY <1>0, Joined
<1>2. ASSUME NEW q \in 1 .. m
      PROVE  /\ q \in 1 .. Len(st) /\ st[q] = a[q] /\ st[q].of \in 1 .. n
  <2>1. q \in 1 .. Len(st) /\ st[q] = a[q]
    BY <1>1
  <2>2. a[q].of \in 1 .. n
    BY DEF Made, InTurn
  <2> QED
    BY <2>1, <2>2
<1>3. ASSUME NEW q \in 1 .. Len(st), q > m
      PROVE  /\ q - m \in 1 .. Len(f) /\ st[q] = f[q - m] /\ st[q].of = n + 1
  <2> DEFINE k == q - m
  <2>1. k \in 1 .. Len(f) /\ q = m + k
    BY <1>1, <1>3
  <2> HIDE DEF k
  <2>2. st[q] = f[k]
    BY <1>1, <2>1
  <2>3. f[k].of = n + 1
    BY <2>1 DEF FrameOf, PieceOf
  <2> QED
    BY <2>1, <2>2, <2>3 DEF k
<1>4. ASSUME NEW q \in 1 .. Len(st), ~(q > m) PROVE q \in 1 .. m
  BY <1>1, <1>4
<1>5. ASSUME NEW q \in 1 .. Len(st) PROVE st[q].of \in 1 .. n + 1
  <2>1. CASE q > m
    <3>1. st[q].of = n + 1
      BY <1>3, <2>1
    <3> QED
      BY <3>1
  <2>2. CASE ~(q > m)
    <3>1. st[q].of \in 1 .. n
      BY <1>2, <1>4, <2>2
    <3> QED
      BY <3>1
  <2> QED
    BY <2>1, <2>2
<1>6. ASSUME NEW p \in 1 .. Len(st), NEW q \in 1 .. Len(st), p < q
      PROVE  st[p].of <= st[q].of /\ (st[q].t = "star" => st[p].of < st[q].of)
  <2>1. CASE ~(q > m)
    <3>1. p \in 1 .. m /\ q \in 1 .. m
      BY <1>1, <1>6, <2>1
    <3>2. a[p].of <= a[q].of /\ (a[q].t = "star" => a[p].of < a[q].of)
      BY <1>6, <3>1 DEF Made, InTurn
    <3>3. st[p] = a[p] /\ st[q] = a[q]
      BY <1>2, <3>1
    <3> QED
      BY <3>2, <3>3
  <2>2. CASE q > m /\ ~(p > m)
    <3>1. st[p].of \in 1 .. n
      BY <1>2, <1>4, <2>2
    <3>2. st[q].of = n + 1
      BY <1>3, <2>2
    <3> QED
      BY <3>1, <3>2
  <2>3. CASE q > m /\ p > m
    <3>1. st[p].of = n + 1 /\ st[q].of = n + 1
      BY <1>3, <2>3
    <3>2. q - m \in 2 .. Len(f) /\ st[q] = f[q - m]
      <4>1. q - m \in 1 .. Len(f) /\ st[q] = f[q - m]
        BY <1>3, <2>3
      <4>2. q - m # 1
        BY <1>1, <1>6, <2>3
      <4> QED
        BY <1>1, <4>1, <4>2
    <3>3. st[q].t # "star"
      BY <3>2 DEF FrameOf, StarAtHead
    <3> QED
      BY <3>1, <3>3
  <2> QED
    BY <2>1, <2>2, <2>3
<1>7. InTurn(st, n + 1)
  BY <1>5, <1>6 DEF InTurn
<1>8. ASSUME NEW q \in 1 .. Len(st), st[q].t = "dollar" PROVE String(st, s, q)
  <2>1. CASE ~(q > m)
    <3>1. q \in 1 .. m /\ st[q] = a[q]
      BY <1>2, <1>4, <2>1
    <3>2. String(a, s, q)
      BY <1>8, <3>1 DEF Made, Strings
    <3>3. /\ q + 1 \in 1 .. m /\ q + 2 \in 1 .. m /\ q + 3 \in 1 .. m /\ q + 4 \in 1 .. m
          /\ q + 4 <= Len(st)
      <4>1. q + 4 <= m
        BY <3>2 DEF String
      <4>2. q \in Nat /\ q >= 1 /\ m \in Nat /\ Len(f) \in Nat /\ Len(st) = m + Len(f)
        BY <1>1, <3>1
      <4> HIDE DEF m
      <4> QED
        BY <4>1, <4>2
    <3>4. /\ st[q + 1] = a[q + 1] /\ st[q + 2] = a[q + 2] /\ st[q + 3] = a[q + 3]
          /\ st[q + 4] = a[q + 4]
      BY <1>2, <3>3
    <3> QED
      BY <3>1, <3>2, <3>3, <3>4 DEF String
  <2>2. CASE q > m
    <3> DEFINE k == q - m
    <3>1. k \in 1 .. Len(f) /\ q = m + k /\ k \in Nat /\ st[q] = f[k] /\ st[q].of = n + 1
      BY <1>1, <1>3, <2>2
    <3> HIDE DEF k
    <3>2. /\ k + 4 <= Len(f)
          /\ f[k + 1].t = "num" /\ f[k + 1].v = 1 /\ f[k + 2].t = "crlf"
          /\ f[k + 4].t = "crlf" => s[n + 1] \in {"allowed", "denied"}
      BY <1>8, <3>1 DEF FrameOf, PieceOf
    <3>3. /\ k + 1 \in 1 .. Len(f) /\ k + 2 \in 1 .. Len(f) /\ k + 3 \in 1 .. Len(f)
          /\ k + 4 \in 1 .. Len(f) /\ q + 4 <= Len(st)
          /\ q + 1 = m + (k + 1) /\ q + 2 = m + (k + 2) /\ q + 3 = m + (k + 3)
          /\ q + 4 = m + (k + 4)
      <4>1. /\ q = m + k /\ k \in Nat /\ k >= 1 /\ k + 4 <= Len(f)
            /\ m \in Nat /\ Len(f) \in Nat /\ Len(st) = m + Len(f)
        BY <1>1, <3>1, <3>2
      <4> HIDE DEF m
      <4> QED
        BY <4>1
    <3>4. /\ st[m + (k + 1)] = f[k + 1] /\ st[m + (k + 2)] = f[k + 2]
          /\ st[m + (k + 3)] = f[k + 3] /\ st[m + (k + 4)] = f[k + 4]
      BY <1>1, <3>3
    <3>5. f[k + 3].of = n + 1
      BY <3>3 DEF FrameOf, PieceOf
    <3>6. /\ st[q + 1] = f[k + 1] /\ st[q + 2] = f[k + 2] /\ st[q + 3] = f[k + 3]
          /\ st[q + 4] = f[k + 4] /\ q + 4 <= Len(st)
      BY <3>3, <3>4
    <3> QED
      BY <3>1, <3>2, <3>5, <3>6 DEF String
  <2> QED
    BY <2>1, <2>2
<1> QED
  BY <1>1, <1>7, <1>8 DEF Made, Strings

IsStream(f, n, s) ==
    f = [i \in 0 .. n |-> IF i = 0 THEN <<>> ELSE f[i - 1] \o Frame(s[i], i)]

LEMMA StreamExists ==
    ASSUME NEW s PROVE \A n \in Nat : \E f : IsStream(f, n, s)
<1> DEFINE T == {n \in Nat : \E f : IsStream(f, n, s)}
           J(a, i) == a \o Frame(s[i], i)
<1>1. 0 \in T
  <2> DEFINE f == [i \in 0 .. 0 |-> <<>>]
  <2>1. f = [i \in 0 .. 0 |-> IF i = 0 THEN <<>> ELSE J(f[i - 1], i)]
    <3> HIDE DEF J
    <3> QED
      OBVIOUS
  <2>2. IsStream(f, 0, s)
    BY <2>1 DEF IsStream
  <2> QED
    BY <2>2
<1>2. ASSUME NEW n \in Nat, n \in T PROVE n + 1 \in T
  <2>1. PICK f : IsStream(f, n, s)
    BY <1>2
  <2>2. f = [i \in 0 .. n |-> IF i = 0 THEN <<>> ELSE J(f[i - 1], i)]
    BY <2>1 DEF IsStream
  <2> HIDE DEF J
  <2> DEFINE g == [i \in 0 .. n + 1 |-> IF i = n + 1 THEN J(f[n], n + 1) ELSE f[i]]
  <2>3. ASSUME NEW i \in 0 .. n + 1
        PROVE  g[i] = IF i = 0 THEN <<>> ELSE J(g[i - 1], i)
    <3>1. CASE i = n + 1
      <4>1. n \in 0 .. n + 1 /\ n # n + 1 /\ n + 1 # 0 /\ (n + 1) - 1 = n
        OBVIOUS
      <4>2. g[n] = f[n] /\ g[n + 1] = J(f[n], n + 1)
        BY <4>1
      <4> QED
        BY <3>1, <4>1, <4>2
    <3>2. CASE i # n + 1 /\ i # 0
      <4>1. i \in 0 .. n /\ i - 1 \in 0 .. n + 1 /\ i - 1 # n + 1
        BY <3>2
      <4>2. g[i] = f[i] /\ g[i - 1] = f[i - 1]
        BY <3>2, <4>1
      <4>3. f[i] = J(f[i - 1], i)
        BY <2>2, <3>2, <4>1
      <4> QED
        BY <3>2, <4>2, <4>3
    <3>3. CASE i = 0
      <4>1. 0 \in 0 .. n /\ 0 \in 0 .. n + 1 /\ 0 # n + 1
        OBVIOUS
      <4>2. f[0] = <<>>
        BY <2>2, <4>1
      <4> QED
        BY <3>3, <4>1, <4>2
    <3> QED
      BY <3>1, <3>2, <3>3
  <2>4. g = [i \in 0 .. n + 1 |-> IF i = 0 THEN <<>> ELSE J(g[i - 1], i)]
    BY <2>3
  <2>5. IsStream(g, n + 1, s)
    BY <2>4 DEF IsStream, J
  <2> QED
    BY <2>5
<1> HIDE DEF T
<1>3. Nat \subseteq T
  BY <1>1, <1>2, SetInduction
<1> QED
  BY <1>3 DEF T

(* Whatever its commands are, the stream of a client is made of their      *)
(* frames, one after the other.                                            *)
LEMMA StreamMade ==
    ASSUME NEW s \in Seq(Shapes)
    PROVE  Made(StreamOf(s), s, Len(s))
<1> DEFINE f == CHOOSE g : IsStream(g, Len(s), s)
<1>1. Len(s) \in Nat /\ \A i \in 1 .. Len(s) : s[i] \in Shapes
  OBVIOUS
<1>2. IsStream(f, Len(s), s)
  BY <1>1, StreamExists
<1>3. StreamOf(s) = f[Len(s)]
  BY DEF StreamOf, IsStream
<1> HIDE DEF f
<1>4. f[0] = <<>> /\ \A i \in 1 .. Len(s) : f[i] = f[i - 1] \o Frame(s[i], i)
  <2>1. 0 \in 0 .. Len(s) /\ \A i \in 1 .. Len(s) : i \in 0 .. Len(s) /\ i # 0
    BY <1>1
  <2> QED
    BY <1>2, <2>1 DEF IsStream
<1> DEFINE T == {i \in Nat : i <= Len(s) => Made(f[i], s, i)}
<1>5. 0 \in T
  <2> DEFINE e == <<>>
  <2>1. e \in Seq(Tokens) /\ Len(e) = 0 /\ 1 .. 0 = {}
    OBVIOUS
  <2> HIDE DEF e
  <2>2. Made(e, s, 0)
    BY <2>1 DEF Made, InTurn, Strings
  <2> QED
    BY <1>4, <2>2 DEF e
<1>6. ASSUME NEW i \in Nat, i \in T PROVE i + 1 \in T
  <2>1. CASE i + 1 <= Len(s)
    <3>1. i + 1 \in 1 .. Len(s) /\ (i + 1) - 1 = i /\ i <= Len(s)
      BY <1>1, <2>1
    <3>2. Made(f[i], s, i)
      BY <1>6, <3>1
    <3>3. f[i + 1] = f[i] \o Frame(s[i + 1], i + 1)
      BY <1>4, <3>1
    <3>4. FrameOf(Frame(s[i + 1], i + 1), s[i + 1], i + 1)
      BY <1>1, <3>1, FrameIs
    <3>5. Made(f[i + 1], s, i + 1)
      BY <3>2, <3>3, <3>4, MadeJoin
    <3> QED
      BY <3>5
  <2>2. CASE ~(i + 1 <= Len(s))
    BY <2>2
  <2> QED
    BY <2>1, <2>2
<1> HIDE DEF T
<1>7. Nat \subseteq T
  BY <1>5, <1>6, SetInduction
<1>8. Len(s) \in T
  BY <1>1, <1>7
<1>9. Made(f[Len(s)], s, Len(s))
  BY <1>1, <1>8 DEF T
<1> QED
  BY <1>3, <1>9

----------------------------------------------------------------------------
(* The parser                                                              *)

(* What is in a buffer: a stretch of the stream, which may end anywhere.   *)
Stretch(buf, s) ==
    /\ buf \in Seq(Tokens)
    /\ \A p \in 1 .. Len(buf) :
          buf[p].t = "dollar" =>
             /\ p + 1 <= Len(buf) => buf[p + 1].t = "num" /\ buf[p + 1].v = 1
             /\ p + 2 <= Len(buf) => buf[p + 2].t = "crlf"
             /\ p + 3 <= Len(buf) => buf[p + 3].of = buf[p].of
             /\ p + 4 <= Len(buf) /\ buf[p + 4].t = "crlf" =>
                   s[buf[p].of] \in {"allowed", "denied"}

LEMMA LineEndIs ==
    ASSUME NEW buf \in Seq(Tokens), NEW p \in 1 .. Len(buf)
    PROVE  /\ LineEnd(buf, p) \in p .. Len(buf)
           /\ \A q \in p .. Len(buf) :
                 /\ buf[q].t = "crlf"
                 /\ \A r \in p .. q - 1 : buf[r].t # "crlf"
                 => LineEnd(buf, p) = q
<1> DEFINE feeds == {q \in p .. Len(buf) : buf[q].t = "crlf"}
<1>1. Len(buf) \in Nat /\ p \in Nat /\ p <= Len(buf)
  OBVIOUS
<1>2. CASE feeds = {}
  <2>1. LineEnd(buf, p) = Len(buf)
    BY <1>2 DEF LineEnd
  <2> QED
    BY <1>1, <1>2, <2>1
<1>3. CASE feeds # {}
  <2> DEFINE e == CHOOSE q \in feeds : \A r \in feeds : q <= r
  <2>1. LineEnd(buf, p) = e
    BY <1>3 DEF LineEnd
  <2>2. feeds \in SUBSET Nat
    BY <1>1
  <2>6. \A q : q \in feeds <=> q \in p .. Len(buf) /\ buf[q].t = "crlf"
    OBVIOUS
  <2> HIDE DEF feeds
  <2>3. \E q \in feeds : \A r \in feeds : q <= r
    BY <1>3, <2>2, LeastElement
  <2>4. e \in feeds /\ \A r \in feeds : e <= r
    BY <2>3
  <2> HIDE DEF e
  <2>5. ASSUME NEW q \in p .. Len(buf), buf[q].t = "crlf",
               \A r \in p .. q - 1 : buf[r].t # "crlf"
        PROVE  e = q
    <3>1. q \in feeds /\ e <= q
      BY <2>4, <2>5, <2>6
    <3>2. e \in p .. Len(buf) /\ ~(e \in p .. q - 1)
      BY <2>4, <2>5, <2>6
    <3>3. ~(e < q)
      BY <1>1, <3>2
    <3> QED
      BY <1>1, <3>1, <3>2, <3>3
  <2>7. e \in p .. Len(buf)
    BY <2>4, <2>6
  <2> QED
    BY <2>1, <2>5, <2>7
<1> QED
  BY <1>2, <1>3

(* An argument is taken for complete only if its string is: the token      *)
(* behind its bytes is the CR LF the header promises.                      *)
LEMMA ArgumentIs ==
    ASSUME NEW buf, NEW s, Stretch(buf, s), NEW p \in 1 .. Len(buf) + 1,
           Argument(buf, p).status = "command"
    PROVE  /\ p + 4 <= Len(buf)
           /\ Argument(buf, p) = Parsed(<<buf[p].of>>, p + 5)
           /\ s[buf[p].of] \in {"allowed", "denied"}
<1> DEFINE e == LineEnd(buf, p)
<1>1. buf \in Seq(Tokens) /\ Len(buf) \in Nat /\ p \in Nat
  BY DEF Stretch
<1>2. More.status # "command" /\ Invalid.status # "command"
  BY DEF More, Invalid
<1>3. p \in 1 .. Len(buf)
  <2>1. ~(p > Len(buf))
    BY <1>2 DEF Argument
  <2> QED
    BY <1>1, <2>1
<1>4. ~(p > Len(buf)) /\ IsHeader(buf, p, "dollar")
  <2>1. ~(p > Len(buf))
    BY <1>2 DEF Argument
  <2> QED
    BY <1>2, <2>1 DEF Argument
<1>5. Argument(buf, p) = Trailer(buf, (e + 1) + buf[p + 1].v, <<buf[e + 1].of>>)
  BY <1>4 DEF Argument
<1>6. e \in p .. Len(buf) /\ p < e
  BY <1>1, <1>3, <1>4, LineEndIs DEF IsHeader
<1>7. buf[p].t = "dollar" /\ buf[p + 1].t = "num"
  BY <1>4 DEF IsHeader
<1>8. /\ p + 1 <= Len(buf) => buf[p + 1].v = 1
      /\ p + 2 <= Len(buf) => buf[p + 2].t = "crlf"
      /\ p + 3 <= Len(buf) => buf[p + 3].of = buf[p].of
      /\ p + 4 <= Len(buf) /\ buf[p + 4].t = "crlf" =>
            s[buf[p].of] \in {"allowed", "denied"}
  BY <1>3, <1>7 DEF Stretch
<1>9. p + 1 <= Len(buf) /\ buf[p + 1].v = 1
  <2>1. p + 1 <= Len(buf)
    <3> HIDE DEF e
    <3> QED
      BY <1>1, <1>6
  <2> QED
    BY <1>8, <2>1
<1>10. Argument(buf, p) = Trailer(buf, e + 2, <<buf[e + 1].of>>)
  <2>1. (e + 1) + 1 = e + 2
    <3>1. e \in Nat
      <4> HIDE DEF e
      <4> QED
        BY <1>1, <1>6
    <3> HIDE DEF e
    <3> QED
      BY <3>1
  <2> QED
    BY <1>5, <1>9, <2>1
<1> HIDE DEF e
<1>11. /\ ~(e + 2 > Len(buf)) /\ buf[e + 2].t = "crlf"
       /\ Argument(buf, p) = Parsed(<<buf[e + 1].of>>, e + 3)
  <2> DEFINE d == e + 2
             args == <<buf[e + 1].of>>
  <2>0. d + 1 = e + 3
    BY <1>1, <1>6
  <2> HIDE DEF d, args
  <2>1. Trailer(buf, d, args).status = "command"
    BY <1>10 DEF d, args
  <2>2. ~(d > Len(buf))
    BY <1>2, <2>1 DEF Trailer
  <2>3. buf[d].t = "crlf"
    BY <1>2, <2>1 DEF Trailer
  <2>4. Trailer(buf, d, args) = Parsed(args, d + 1)
    BY <2>2, <2>3 DEF Trailer
  <2> QED
    BY <1>10, <2>0, <2>2, <2>3, <2>4 DEF d, args
<1>12. p + 2 \in p .. Len(buf) /\ buf[p + 2].t = "crlf"
  <2>1. p + 2 <= Len(buf)
    BY <1>1, <1>6, <1>11
  <2> QED
    BY <1>1, <1>8, <2>1
<1>13. e = p + 2
  <2>1. \A r \in p .. (p + 2) - 1 : buf[r].t # "crlf"
    <3>1. \A r \in p .. (p + 2) - 1 : r = p \/ r = p + 1
      BY <1>1
    <3> QED
      BY <1>7, <3>1
  <2> QED
    BY <1>1, <1>3, <1>12, <2>1, LineEndIs DEF e
<1>14. e + 2 = p + 4 /\ e + 1 = p + 3 /\ e + 3 = p + 5 /\ p + 4 <= Len(buf) /\ p + 3 <= Len(buf)
  BY <1>1, <1>11, <1>13
<1> QED
  BY <1>8, <1>11, <1>14

(* The loop over the arguments                                             *)
IsRead(f, n, buf, argument) ==
    f = [i \in 0 .. n |->
           IF i = 0 THEN Parsed(<<>>, LineEnd(buf, 1) + 1)
             ELSE WithArgument(f[i - 1], argument[f[i - 1].next])]

LEMMA ReadExists ==
    ASSUME NEW buf, NEW argument
    PROVE  \A n \in Nat : \E f : IsRead(f, n, buf, argument)
<1> DEFINE T == {n \in Nat : \E f : IsRead(f, n, buf, argument)}
           z == Parsed(<<>>, LineEnd(buf, 1) + 1)
           J(a) == WithArgument(a, argument[a.next])
<1>1. 0 \in T
  <2> DEFINE f == [i \in 0 .. 0 |-> z]
  <2>1. f = [i \in 0 .. 0 |-> IF i = 0 THEN z ELSE J(f[i - 1])]
    <3> HIDE DEF J, z
    <3> QED
      OBVIOUS
  <2>2. IsRead(f, 0, buf, argument)
    BY <2>1 DEF IsRead
  <2> QED
    BY <2>2
<1>2. ASSUME NEW n \in Nat, n \in T PROVE n + 1 \in T
  <2>1. PICK f : IsRead(f, n, buf, argument)
    BY <1>2
  <2>2. f = [i \in 0 .. n |-> IF i = 0 THEN z ELSE J(f[i - 1])]
    BY <2>1 DEF IsRead
  <2> HIDE DEF J, z
  <2> DEFINE g == [i \in 0 .. n + 1 |-> IF i = n + 1 THEN J(f[n]) ELSE f[i]]
  <2>3. ASSUME NEW i \in 0 .. n + 1
        PROVE  g[i] = IF i = 0 THEN z ELSE J(g[i - 1])
    <3>1. CASE i = n + 1
      <4>1. n \in 0 .. n + 1 /\ n # n + 1 /\ n + 1 # 0 /\ (n + 1) - 1 = n
        OBVIOUS
      <4>2. g[n] = f[n] /\ g[n + 1] = J(f[n])
        BY <4>1
      <4> QED
        BY <3>1, <4>1, <4>2
    <3>2. CASE i # n + 1 /\ i # 0
      <4>1. i \in 0 .. n /\ i - 1 \in 0 .. n + 1 /\ i - 1 # n + 1
        BY <3>2
      <4>2. g[i] = f[i] /\ g[i - 1] = f[i - 1]
        BY <3>2, <4>1
      <4>3. f[i] = J(f[i - 1])
        BY <2>2, <3>2, <4>1
      <4> QED
        BY <3>2, <4>2, <4>3
    <3>3. CASE i = 0
      <4>1. 0 \in 0 .. n /\ 0 \in 0 .. n + 1 /\ 0 # n + 1
        OBVIOUS
      <4>2. f[0] = z
        BY <2>2, <4>1
      <4> QED
        BY <3>3, <4>1, <4>2
    <3> QED
      BY <3>1, <3>2, <3>3
  <2>4. g = [i \in 0 .. n + 1 |-> IF i = 0 THEN z ELSE J(g[i - 1])]
    BY <2>3
  <2>5. IsRead(g, n + 1, buf, argument)
    BY <2>4 DEF IsRead, J, z
  <2> QED
    BY <2>5
<1> HIDE DEF T
<1>3. Nat \subseteq T
  BY <1>1, <1>2, SetInduction
<1> QED
  BY <1>3 DEF T

Statuses == {"more", "invalid", "command"}

(* What a result of the parser says of the buffer: a command ends within   *)
(* it, and its name is a string of a command that may be executed.         *)
Sound(r, buf, s) ==
    /\ r.status \in Statuses
    /\ r.status = "command" =>
          /\ r.next \in 2 .. Len(buf) + 1
          /\ r.args \in Seq(Nat)
          /\ r.args # <<>> =>
                \E k \in 1 .. r.next - 1 :
                    k <= Len(buf) /\ r.args[1] = buf[k].of
                    /\ s[buf[k].of] \in {"allowed", "denied"}

LEMMA ParsedIs ==
    ASSUME NEW args, NEW next
    PROVE  /\ Parsed(args, next).status = "command"
           /\ Parsed(args, next).args = args /\ Parsed(args, next).next = next
BY DEF Parsed

LEMMA ArgumentStatus ==
    ASSUME NEW buf, NEW p PROVE Argument(buf, p).status \in Statuses
<1>1. More.status \in Statuses /\ Invalid.status \in Statuses
  BY DEF More, Invalid, Statuses
<1>2. ASSUME NEW e, NEW args PROVE Trailer(buf, e, args).status \in Statuses
  <2>1. Parsed(args, e + 1).status \in Statuses
    BY DEF Parsed, Statuses
  <2> HIDE DEF Statuses
  <2> QED
    BY <1>1, <2>1 DEF Trailer
<1> QED
  BY <1>1, <1>2 DEF Argument

(* One argument more keeps a result sound.                                 *)
LEMMA WithArgumentSound ==
    ASSUME NEW buf, NEW s, Stretch(buf, s), NEW r, Sound(r, buf, s),
           NEW argument, argument = [p \in 1 .. Len(buf) + 1 |-> Argument(buf, p)]
    PROVE  Sound(WithArgument(r, argument[r.next]), buf, s)
<1>1. CASE r.status # "command"
  BY <1>1 DEF WithArgument
<1>2. CASE r.status = "command"
  <2> DEFINE p == r.next
             a == Argument(buf, p)
  <2>0. Len(buf) \in Nat
    BY DEF Stretch
  <2>1. p \in 2 .. Len(buf) + 1
    BY <1>2 DEF Sound
  <2>2. p \in 1 .. Len(buf) + 1 /\ argument[p] = a
    <3> HIDE DEF p
    <3>1. p \in 1 .. Len(buf) + 1
      BY <2>0, <2>1
    <3> QED
      BY <3>1
  <2>3. a.status \in Statuses
    BY ArgumentStatus
  <2>4. CASE a.status # "command"
    <3>1. WithArgument(r, a) = a
      BY <1>2, <2>4 DEF WithArgument
    <3> QED
      BY <2>2, <2>3, <2>4, <3>1 DEF Sound
  <2>5. CASE a.status = "command"
    <3>1. /\ p + 4 <= Len(buf) /\ a = Parsed(<<buf[p].of>>, p + 5)
          /\ s[buf[p].of] \in {"allowed", "denied"}
      BY <2>2, <2>5, ArgumentIs
    <3> DEFINE b == <<buf[p].of>>
               args == r.args \o b
    <3>2. a.args = b /\ a.next = p + 5
      BY <3>1, ParsedIs
    <3>3. WithArgument(r, a) = Parsed(args, p + 5)
      BY <1>2, <2>5, <3>2 DEF WithArgument
    <3>4. p \in Nat /\ p >= 2 /\ p + 5 \in 2 .. Len(buf) + 1 /\ p \in 1 .. Len(buf)
      <4>1. p + 4 <= Len(buf)
        BY <3>1
      <4> HIDE DEF p
      <4> QED
        BY <2>0, <2>1, <4>1
    <3>5. buf[p].of \in Nat
      <4>1. buf[p] \in Tokens
        <5> HIDE DEF p
        <5> QED
          BY <3>4 DEF Stretch
      <4> QED
        BY <4>1 DEF Tokens
    <3>6. b \in Seq(Nat) /\ Len(b) = 1 /\ b[1] = buf[p].of
      BY <3>5
    <3>7. r.args \in Seq(Nat)
      BY <1>2 DEF Sound
    <3> HIDE DEF b
    <3>8. /\ args \in Seq(Nat) /\ Len(args) = Len(r.args) + Len(b)
          /\ \A i \in 1 .. Len(r.args) + Len(b) :
                args[i] = IF i <= Len(r.args) THEN r.args[i] ELSE b[i - Len(r.args)]
      BY <3>6, <3>7, ConcatProperties
    <3> HIDE DEF args
    <3> DEFINE nx == p + 5
    <3>9. \E k \in 1 .. nx - 1 :
             k <= Len(buf) /\ args[1] = buf[k].of
             /\ s[buf[k].of] \in {"allowed", "denied"}
      <4>1. CASE r.args = <<>>
        <5>1. Len(r.args) = 0
          BY <4>1
        <5>2. args[1] = b[1]
          <6>1. 1 \in 1 .. 0 + 1 /\ ~(1 <= 0) /\ 1 - 0 = 1
            OBVIOUS
          <6> QED
            BY <3>6, <3>8, <5>1, <6>1
        <5>3. p \in 1 .. nx - 1 /\ p <= Len(buf)
          <6> HIDE DEF p
          <6> QED
            BY <3>4, <2>0
        <5> QED
          BY <3>1, <3>6, <5>2, <5>3
      <4>2. CASE r.args # <<>>
        <5>1. Len(r.args) \in Nat /\ Len(r.args) >= 1
          BY <3>7, <4>2
        <5>2. args[1] = r.args[1]
          <6>1. 1 \in 1 .. Len(r.args) + 1 /\ 1 <= Len(r.args)
            BY <5>1
          <6> QED
            BY <3>6, <3>8, <6>1
        <5>3. PICK k \in 1 .. p - 1 : k <= Len(buf) /\ r.args[1] = buf[k].of
                    /\ s[buf[k].of] \in {"allowed", "denied"}
          BY <1>2, <4>2 DEF Sound
        <5>4. k \in 1 .. nx - 1
          <6> HIDE DEF p
          <6> QED
            BY <3>4
        <5> QED
          BY <5>2, <5>3, <5>4
      <4> QED
        BY <4>1, <4>2
    <3>10. nx \in 2 .. Len(buf) + 1
      BY <3>4
    <3> HIDE DEF nx
    <3> DEFINE w == Parsed(args, nx)
    <3>11. w.status = "command" /\ w.args = args /\ w.next = nx
      BY ParsedIs
    <3> HIDE DEF w
    <3>12. Sound(w, buf, s)
      BY <3>8, <3>9, <3>10, <3>11 DEF Sound, Statuses
    <3>13. WithArgument(r, argument[r.next]) = w
      BY <2>2, <3>3 DEF w, nx
    <3> QED
      BY <3>12, <3>13
  <2> QED
    BY <2>4, <2>5
<1> QED
  BY <1>1, <1>2

(* A result of the parser is sound, and a command begins with its star.    *)
LEMMA ParseSound ==
    ASSUME NEW buf, NEW s, Stretch(buf, s)
    PROVE  /\ Sound(ParseCommand(buf), buf, s)
           /\ ParseCommand(buf).status = "command" =>
                 1 <= Len(buf) /\ buf[1].t = "star"
<1>0. buf \in Seq(Tokens) /\ Len(buf) \in Nat
  BY DEF Stretch
<1>1. CASE buf = <<>>
  <2>1. ParseCommand(buf) = More
    BY <1>1 DEF ParseCommand
  <2>2. More.status = "more"
    BY DEF More
  <2> QED
    BY <2>1, <2>2 DEF Sound, Statuses
<1>2. CASE buf # <<>> /\ ~ IsHeader(buf, 1, "star")
  <2>1. ParseCommand(buf) = Invalid
    BY <1>2 DEF ParseCommand
  <2>2. Invalid.status = "invalid"
    BY DEF Invalid
  <2> QED
    BY <2>1, <2>2 DEF Sound, Statuses
<1>3. CASE buf # <<>> /\ IsHeader(buf, 1, "star")
  <2> DEFINE argument == [p \in 1 .. Len(buf) + 1 |-> Argument(buf, p)]
             n == buf[2].v
             f == CHOOSE g : IsRead(g, n, buf, argument)
             e == LineEnd(buf, 1)
  <2>1. 1 \in 1 .. Len(buf)
    BY <1>0, <1>3
  <2>2. e \in 1 .. Len(buf) /\ 1 < e /\ buf[1].t = "star"
    BY <1>0, <1>3, <2>1, LineEndIs DEF IsHeader
  <2>3. e + 1 \in 2 .. Len(buf) + 1 /\ 2 \in 1 .. Len(buf)
    <3> HIDE DEF e
    <3> QED
      BY <1>0, <2>2
  <2>4. n \in Nat
    <3>1. buf[2] \in Tokens
      BY <1>0, <2>3
    <3> QED
      BY <3>1 DEF Tokens
  <2>5. IsRead(f, n, buf, argument)
    <3> HIDE DEF argument, n
    <3> QED
      BY <2>4, ReadExists
  <2>6. ParseCommand(buf) = f[n]
    BY <1>3 DEF ParseCommand, IsRead
  <2> HIDE DEF f, n, e
  <2>7. /\ f[0] = Parsed(<<>>, e + 1)
        /\ \A i \in 1 .. n : f[i] = WithArgument(f[i - 1], argument[f[i - 1].next])
    <3>1. 0 \in 0 .. n /\ \A i \in 1 .. n : i \in 0 .. n /\ i # 0
      BY <2>4
    <3> HIDE DEF argument
    <3> QED
      BY <2>5, <3>1 DEF IsRead, e
  <2> DEFINE T == {i \in Nat : i <= n => Sound(f[i], buf, s)}
  <2>8. 0 \in T
    <3> DEFINE z == Parsed(<<>>, e + 1)
    <3>1. z.status = "command" /\ z.args = <<>> /\ z.next = e + 1
      BY ParsedIs
    <3> HIDE DEF z
    <3>3. <<>> \in Seq(Nat)
      OBVIOUS
    <3>2. Sound(z, buf, s)
      BY <2>3, <3>1, <3>3 DEF Sound, Statuses
    <3> QED
      BY <2>7, <3>2 DEF z
  <2>9. ASSUME NEW i \in Nat, i \in T PROVE i + 1 \in T
    <3>1. CASE i + 1 <= n
      <4>1. i + 1 \in 1 .. n /\ (i + 1) - 1 = i /\ i <= n
        BY <2>4, <3>1
      <4>2. Sound(f[i], buf, s)
        BY <2>9, <4>1
      <4>3. f[i + 1] = WithArgument(f[i], argument[f[i].next])
        BY <2>7, <4>1
      <4>4. Sound(f[i + 1], buf, s)
        BY <4>2, <4>3, WithArgumentSound
      <4> QED
        BY <4>4
    <3>2. CASE ~(i + 1 <= n)
      BY <3>2
    <3> QED
      BY <3>1, <3>2
  <2> HIDE DEF T
  <2>10. Nat \subseteq T
    BY <2>8, <2>9, SetInduction
  <2>11. Sound(f[n], buf, s)
    <3>1. n \in T
      BY <2>4, <2>10
    <3> QED
      BY <2>4, <3>1 DEF T
  <2>12. 1 <= Len(buf)
    BY <1>0, <2>1
  <2> QED
    BY <2>2, <2>6, <2>11, <2>12
<1> QED
  BY <1>1, <1>2, <1>3

----------------------------------------------------------------------------
(* The inductive invariant                                                 *)

(* The last command of which the handler has taken something out of its    *)
(* buffer: the commands up to it are behind, those after it are to come.   *)
UptoAt(n) == IF n = 0 THEN 0 ELSE stream[n].of
Upto == UptoAt(start)

Replies == [id : Ids \cup {0}, res : Results]
Executable(i) == script[i] = "allowed" \/ (kind = "raw" /\ script[i] = "denied")

StreamInv ==
    /\ script \in Seq(Shapes) /\ Len(script) \in 1 .. MaxCommands
    /\ stream = StreamOf(script)
    /\ start \in 0 .. received /\ received \in 0 .. Len(stream)

Types ==
    /\ kind \in Kinds
    /\ count \in Nat /\ count <= Upto
    /\ out \in Seq(Replies) /\ answers \in Seq(Replies)
    /\ kind = "compat" => Len(out) <= OutCap
    /\ kind = "raw" => out = <<>>
    /\ writer \in {"running", "ended"}
    /\ status \in {0, 200, 400}
    /\ peer \in {"open", "closed"}
    /\ faults \in 0 .. MaxFaults /\ pushes \in 0 .. MaxPushes
    /\ lost \in SUBSET Ids /\ badCut \in BOOLEAN

(* What is in the handler's hand has been taken out of the buffer; between *)
(* two commands nothing is.                                                *)
HandInv ==
    /\ pc \in {"recv", "parse", "execute", "reply", "done"}
    /\ hand \in [id : Ids \cup {0}, res : Results \cup {"none"}]
    /\ hand.id <= Upto
    /\ pc \in {"recv", "parse"} => hand.id = 0
    /\ pc = "execute" => hand.id # 0 /\ Executable(hand.id)
    /\ pc = "reply" => hand.res \in Results /\ kind # "http"

(* What was executed is in order, and behind what is about to be.          *)
ExecInv ==
    /\ executed \in Seq(Ids) /\ Rising(executed)
    /\ \A k \in 1 .. Len(executed) :
          /\ Executable(executed[k]) /\ executed[k] <= Upto
          /\ pc = "execute" => executed[k] < hand.id

(* The replies in s are those of commands up to u, and before the command  *)
(* h if that is one; the command whose reply is still to come.             *)
Before(s, u, h) ==
    \A k \in 1 .. Len(s) : s[k].id <= u /\ (h # 0 => s[k].id < h)
Pending == IF pc \in {"execute", "reply"} THEN hand.id ELSE 0
Follows(a, o) ==
    \A j \in 1 .. Len(a), k \in 1 .. Len(o) :
        a[j].id # 0 /\ o[k].id # 0 => a[j].id < o[k].id

OrderInv ==
    /\ RisingIds(out) /\ Before(out, Upto, Pending)
    /\ kind # "http" => /\ RisingIds(answers) /\ Before(answers, Upto, Pending)
                        /\ Follows(answers, out)

DeliveredIds == IdsOf(out) \cup (IF kind = "http" THEN {} ELSE IdsOf(answers))
CoverInv ==
    pc # "done" /\ writer = "running" =>
        \A k \in 1 .. Len(executed) : executed[k] \in DeliveredIds \cup {hand.id}

(* A request counts a command before it executes or answers it.            *)
Open == IF pc = "execute" THEN 1 ELSE 0
PipelineInv ==
    kind = "http" =>
        /\ pc = "recv" => received = 0
        /\ pc # "done" =>
              /\ status = 0 /\ count <= MaxPipeline
              /\ Len(out) + Open <= count /\ Len(executed) + Open <= count
        /\ pc = "done" => Len(out) <= MaxPipeline /\ Len(executed) <= MaxPipeline
        /\ status = 200 => pc = "done" /\ Len(answers) <= MaxPipeline

IInv ==
    /\ StreamInv /\ Types /\ HandInv /\ ExecInv /\ OrderInv /\ CoverInv /\ PipelineInv

(* What the stream and the buffer look like in every state.                *)
LEMMA StreamFacts ==
    ASSUME StreamInv
    PROVE  /\ Made(stream, script, Len(script)) /\ Len(script) \in Nat
           /\ Len(stream) \in Nat /\ start \in Nat /\ received \in Nat
           /\ start <= received /\ received <= Len(stream)
           /\ Ids = 1 .. Len(script)
           /\ \A q \in 1 .. Len(stream) : stream[q] \in Tokens /\ stream[q].of \in 1 .. Len(script)
<1>1. script \in Seq(Shapes) /\ stream = StreamOf(script)
  BY DEF StreamInv
<1>2. Made(stream, script, Len(script))
  BY <1>1, StreamMade
<1>3. Len(script) \in Nat /\ Ids = 1 .. Len(script)
  BY <1>1 DEF Ids
<1>4. stream \in Seq(Tokens) /\ InTurn(stream, Len(script))
  BY <1>2 DEF Made
<1>5. Len(stream) \in Nat
  BY <1>4
<1>6. start \in Nat /\ received \in Nat /\ start <= received /\ received <= Len(stream)
  <2>1. start \in 0 .. received /\ received \in 0 .. Len(stream)
    BY DEF StreamInv
  <2> QED
    BY <1>5, <2>1
<1>7. \A q \in 1 .. Len(stream) : stream[q] \in Tokens /\ stream[q].of \in 1 .. Len(script)
  BY <1>4 DEF InTurn
<1> QED
  BY <1>2, <1>3, <1>5, <1>6, <1>7

LEMMA UptoGrows ==
    ASSUME StreamInv, NEW m \in 0 .. Len(stream), NEW n \in 0 .. Len(stream), m <= n
    PROVE  /\ UptoAt(m) \in Nat /\ UptoAt(n) \in Nat
           /\ UptoAt(m) <= UptoAt(n) /\ UptoAt(n) <= Len(script)
<1>1. Len(stream) \in Nat /\ Len(script) \in Nat
  BY StreamFacts
<1>2. ASSUME NEW q \in 0 .. Len(stream)
      PROVE  /\ q = 0 => UptoAt(q) = 0
             /\ q # 0 => q \in 1 .. Len(stream) /\ UptoAt(q) = stream[q].of
             /\ UptoAt(q) \in 0 .. Len(script)
  <2>1. CASE q = 0
    BY <1>1, <2>1 DEF UptoAt
  <2>2. CASE q # 0
    <3>1. q \in 1 .. Len(stream)
      BY <1>1, <2>2
    <3>2. UptoAt(q) = stream[q].of
      BY <2>2 DEF UptoAt
    <3>3. stream[q].of \in 1 .. Len(script)
      BY <3>1, StreamFacts
    <3> QED
      BY <1>1, <2>2, <3>1, <3>2, <3>3
  <2> QED
    BY <2>1, <2>2
<1>3. UptoAt(m) \in Nat /\ UptoAt(n) \in Nat /\ UptoAt(n) <= Len(script)
  BY <1>1, <1>2
<1>4. UptoAt(m) <= UptoAt(n)
  <2>1. CASE m = 0
    <3>1. UptoAt(m) = 0
      BY <1>2, <2>1
    <3> QED
      BY <1>3, <3>1
  <2>2. CASE m = n
    BY <1>3, <2>2
  <2>3. CASE m # 0 /\ m # n
    <3>1. n # 0 /\ m < n
      BY <1>1, <2>3
    <3>2. /\ m \in 1 .. Len(stream) /\ n \in 1 .. Len(stream)
          /\ UptoAt(m) = stream[m].of /\ UptoAt(n) = stream[n].of
      BY <1>2, <2>3, <3>1
    <3>3. InTurn(stream, Len(script))
      BY StreamFacts DEF Made
    <3>4. stream[m].of <= stream[n].of
      BY <3>1, <3>2, <3>3 DEF InTurn
    <3> QED
      BY <3>2, <3>4
  <2> QED
    BY <2>1, <2>2, <2>3
<1> QED
  BY <1>3, <1>4

LEMMA BufferIs ==
    ASSUME StreamInv
    PROVE  /\ Stretch(Buffer, script) /\ Len(Buffer) = received - start
           /\ \A k \in 1 .. received - start :
                 start + k \in 1 .. Len(stream) /\ Buffer[k] = stream[start + k]
<1>1. /\ Made(stream, script, Len(script)) /\ Len(stream) \in Nat /\ start \in Nat
      /\ received \in Nat /\ start <= received /\ received <= Len(stream)
  BY StreamFacts
<1>2. stream \in Seq(Tokens) /\ Strings(stream, script)
  BY <1>1 DEF Made
<1> DEFINE n == received - start
           buf == Buffer
<1>3. /\ buf \in Seq(Tokens) /\ Len(buf) = n
      /\ \A k \in 1 .. n : buf[k] = stream[start + k]
  <2>1. start + 1 \in 1 .. received + 1 /\ received \in start .. Len(stream)
    BY <1>1
  <2>2. /\ buf \in Seq(Tokens)
        /\ Len(buf) = IF start + 1 <= received THEN received - (start + 1) + 1 ELSE 0
        /\ \A k \in 1 .. received - (start + 1) + 1 : buf[k] = stream[(start + 1) + k - 1]
    <3>1. start + 1 \in 1 .. Len(stream) + 1 /\ received \in (start + 1) - 1 .. Len(stream)
      BY <1>1
    <3> QED
      BY <1>2, <3>1, SubSeqProperties, SMTT(30) DEF Buffer
  <2>3. received - (start + 1) + 1 = n /\ (~(start + 1 <= received) => n = 0)
    BY <1>1
  <2>4. \A k \in 1 .. n : (start + 1) + k - 1 = start + k
    BY <1>1
  <2> HIDE DEF buf
  <2> QED
    BY <2>2, <2>3, <2>4
<1>4. n \in Nat /\ \A k \in 1 .. n : k \in Nat /\ start + k \in 1 .. Len(stream)
  BY <1>1
<1> HIDE DEF buf
<1>5. ASSUME NEW p \in 1 .. n, buf[p].t = "dollar"
      PROVE  /\ p + 1 <= n => buf[p + 1].t = "num" /\ buf[p + 1].v = 1
             /\ p + 2 <= n => buf[p + 2].t = "crlf"
             /\ p + 3 <= n => buf[p + 3].of = buf[p].of
             /\ p + 4 <= n /\ buf[p + 4].t = "crlf" =>
                   script[buf[p].of] \in {"allowed", "denied"}
  <2> DEFINE q == start + p
  <2>1. q \in 1 .. Len(stream) /\ buf[p] = stream[q]
    BY <1>3, <1>4
  <2>2. String(stream, script, q)
    BY <1>2, <1>5, <2>1 DEF Strings
  <2>3. ASSUME NEW d \in {1, 2, 3, 4}, p + d <= n
        PROVE  buf[p + d] = stream[q + d]
    <3>1. p + d \in 1 .. n /\ start + (p + d) = q + d
      BY <1>1, <1>4, <2>3
    <3> QED
      BY <1>3, <3>1
  <2> HIDE DEF q, n
  <2>4. /\ stream[q + 1].t = "num" /\ stream[q + 1].v = 1 /\ stream[q + 2].t = "crlf"
        /\ stream[q + 3].of = stream[q].of
        /\ stream[q + 4].t = "crlf" => script[stream[q].of] \in {"allowed", "denied"}
    BY <2>2 DEF String
  <2> QED
    BY <2>1, <2>3, <2>4
<1>6. Stretch(buf, script)
  <2> HIDE DEF n
  <2> QED
    BY <1>3, <1>5 DEF Stretch
<1> QED
  BY <1>3, <1>4, <1>6 DEF buf

(* A command that is parsed is one after those behind the handler, and is  *)
(* behind it once its bytes are taken out of the buffer.                   *)
LEMMA ParsedIsNext ==
    ASSUME StreamInv, NEW r, r = ParseCommand(Buffer), r.status = "command"
    PROVE  LET n == start + r.next - 1
           IN  /\ n \in start + 1 .. received /\ n \in Nat
               /\ Upto \in Nat /\ Upto < UptoAt(n) /\ UptoAt(n) \in Ids
               /\ r.args # <<>> =>
                     /\ Name(r.args) \in Ids /\ Name(r.args) # 0
                     /\ Upto < Name(r.args) /\ Name(r.args) <= UptoAt(n)
                     /\ script[Name(r.args)] \in {"allowed", "denied"}
<1> DEFINE buf == Buffer
           m == received - start
           n == start + r.next - 1
           f == start + 1
<1>1. /\ Stretch(buf, script) /\ Len(buf) = m
      /\ \A k \in 1 .. m : start + k \in 1 .. Len(stream) /\ buf[k] = stream[start + k]
  BY BufferIs
<1>2. /\ Made(stream, script, Len(script)) /\ Len(script) \in Nat
      /\ Len(stream) \in Nat /\ start \in Nat /\ received \in Nat
      /\ start <= received /\ received <= Len(stream)
      /\ Ids = 1 .. Len(script)
      /\ \A q \in 1 .. Len(stream) : stream[q].of \in 1 .. Len(script)
  BY StreamFacts
<1>3. Sound(r, buf, script) /\ 1 <= m /\ buf[1].t = "star"
  <2> HIDE DEF buf, m
  <2> QED
    BY <1>1, ParseSound DEF buf
<1> HIDE DEF buf
<1>4. r.next \in 2 .. m + 1 /\ r.args \in Seq(Nat)
  BY <1>1, <1>3 DEF Sound
<1>5. /\ n \in start + 1 .. received /\ n \in Nat /\ m \in Nat /\ n \in 1 .. Len(stream)
      /\ f \in 1 .. Len(stream) /\ f <= n /\ start < f
  BY <1>2, <1>3, <1>4, SMTT(30)
<1>6. stream[f].t = "star"
  <2>1. 1 \in 1 .. m
    BY <1>2, <1>3
  <2> QED
    BY <1>1, <1>3, <2>1
<1>7. InTurn(stream, Len(script))
  BY <1>2 DEF Made
<1> DEFINE first == stream[f].of
           last == stream[n].of
<1>8. first \in 1 .. Len(script) /\ last \in 1 .. Len(script) /\ first <= last
  <2>1. first \in 1 .. Len(script) /\ last \in 1 .. Len(script)
    <3> HIDE DEF n, f
    <3> QED
      BY <1>2, <1>5
  <2>2. CASE f = n
    <3>1. first = last
      BY <2>2
    <3> HIDE DEF first, last
    <3> QED
      BY <1>2, <2>1, <3>1
  <2>3. CASE f # n
    <3> HIDE DEF f, n
    <3>1. f < n
      BY <1>2, <1>5, <2>3
    <3> QED
      BY <1>5, <1>7, <2>1, <3>1 DEF InTurn
  <2> QED
    BY <2>2, <2>3
<1>9. Upto \in Nat /\ Upto < first
  <2>1. CASE start = 0
    <3>1. Upto = 0
      BY <2>1 DEF Upto, UptoAt
    <3> HIDE DEF first
    <3> QED
      BY <1>2, <1>8, <3>1
  <2>2. CASE start # 0
    <3>1. start \in 1 .. Len(stream) /\ Upto = stream[start].of
      BY <1>2, <2>2 DEF Upto, UptoAt
    <3> HIDE DEF f
    <3>2. stream[start].of < stream[f].of
      BY <1>5, <1>6, <1>7, <3>1 DEF InTurn
    <3>3. stream[start].of \in 1 .. Len(script)
      BY <1>2, <3>1
    <3>4. stream[start].of \in Nat
      BY <1>2, <3>3
    <3> QED
      BY <3>1, <3>2, <3>4
  <2> QED
    BY <2>1, <2>2
<1>10. UptoAt(n) = last
  <2>1. n # 0
    <3> HIDE DEF n
    <3> QED
      BY <1>2, <1>5
  <2> HIDE DEF n
  <2> QED
    BY <2>1 DEF UptoAt
<1>11. ASSUME r.args # <<>>
       PROVE  /\ Name(r.args) \in 1 .. Len(script)
              /\ first <= Name(r.args) /\ Name(r.args) <= last
              /\ script[Name(r.args)] \in {"allowed", "denied"}
  <2>1. PICK k \in 1 .. r.next - 1 :
              /\ k <= m /\ r.args[1] = buf[k].of
              /\ script[buf[k].of] \in {"allowed", "denied"}
    BY <1>1, <1>3, <1>11 DEF Sound
  <2>2. Name(r.args) = r.args[1]
    BY <1>4, <1>11 DEF Name
  <2> DEFINE q == start + k
  <2>3. k \in 1 .. m /\ q \in 1 .. Len(stream) /\ f <= q /\ q <= n
    <3> DEFINE x == r.next
    <3>1. x \in 2 .. m + 1 /\ k \in 1 .. x - 1 /\ k <= m
      BY <1>4, <2>1
    <3> HIDE DEF x
    <3>2. k \in Nat /\ 1 <= k /\ k <= x - 1 /\ x \in Nat
      BY <1>2, <3>1
    <3>3. k \in 1 .. m /\ q \in 1 .. Len(stream) /\ f <= q
      BY <1>2, <3>1, <3>2
    <3>4. start + k <= start + x - 1
      BY <1>2, <3>2
    <3> QED
      BY <3>3, <3>4 DEF x
  <2>4. buf[k] = stream[q]
    BY <1>1, <2>3
  <2> HIDE DEF q, f, n
  <2>5. stream[q].of \in 1 .. Len(script)
    BY <1>2, <2>3
  <2>6. first <= stream[q].of
    <3>1. CASE f = q
      BY <1>2, <1>8, <3>1
    <3>2. CASE f # q
      <4>1. f < q
        BY <1>2, <1>5, <2>3, <3>2
      <4> QED
        BY <1>5, <1>7, <2>3, <4>1 DEF InTurn
    <3> QED
      BY <3>1, <3>2
  <2>7. stream[q].of <= last
    <3>1. CASE q = n
      BY <1>2, <1>8, <3>1
    <3>2. CASE q # n
      <4>1. q < n
        BY <1>2, <1>5, <2>3, <3>2
      <4> QED
        BY <1>5, <1>7, <2>3, <4>1 DEF InTurn
    <3> QED
      BY <3>1, <3>2
  <2> QED
    BY <2>1, <2>2, <2>4, <2>5, <2>6, <2>7
<1> DEFINE nm == Name(r.args)
           up == UptoAt(n)
<1> HIDE DEF first, last, n, f
<1>12. Upto < up /\ up \in Ids
  BY <1>2, <1>8, <1>9, <1>10
<1>13. r.args # <<>> => /\ nm \in Ids /\ nm # 0 /\ Upto < nm /\ nm <= up
                        /\ script[nm] \in {"allowed", "denied"}
  <2> HIDE DEF nm, up
  <2>1. r.args # <<>> => /\ nm \in 1 .. Len(script) /\ first <= nm /\ nm <= last
                         /\ script[nm] \in {"allowed", "denied"}
    BY <1>11 DEF nm
  <2>2. up = last
    BY <1>10 DEF up
  <2> QED
    BY <1>2, <1>8, <1>9, <2>1, <2>2
<1> QED
  BY <1>5, <1>9, <1>12, <1>13 DEF n

----------------------------------------------------------------------------
(* Sequences of replies                                                    *)

LEMMA AppendIs ==
    ASSUME NEW S, NEW s \in Seq(S), NEW x \in S, NEW w, w = Append(s, x)
    PROVE  /\ w \in Seq(S) /\ Len(s) \in Nat /\ Len(w) = Len(s) + 1
           /\ DOMAIN w = 1 .. Len(s) + 1 /\ DOMAIN s = 1 .. Len(s)
           /\ \A k \in 1 .. Len(s) : w[k] = s[k]
           /\ w[Len(s) + 1] = x
           /\ \A k \in 1 .. Len(s) + 1 : k \in 1 .. Len(s) \/ k = Len(s) + 1
OBVIOUS

LEMMA TailIs ==
    ASSUME NEW S, NEW s \in Seq(S), s # <<>>, NEW w, w = Tail(s)
    PROVE  /\ w \in Seq(S) /\ Len(s) \in Nat /\ Len(s) >= 1 /\ Len(w) = Len(s) - 1
           /\ DOMAIN w = 1 .. Len(w) /\ DOMAIN s = 1 .. Len(s)
           /\ \A k \in 1 .. Len(w) : k + 1 \in 1 .. Len(s) /\ w[k] = s[k + 1]
           /\ Head(s) = s[1] /\ Head(s) \in S /\ 1 \in 1 .. Len(s)
<1>1. Len(s) \in Nat /\ Len(s) >= 1
  OBVIOUS
<1>2. w \in Seq(S) /\ Len(w) = Len(s) - 1 /\ \A k \in 1 .. Len(s) - 1 : w[k] = s[k + 1]
  OBVIOUS
<1>3. DOMAIN w = 1 .. Len(w) /\ DOMAIN s = 1 .. Len(s)
  BY <1>2
<1>4. \A k \in 1 .. Len(s) - 1 : k + 1 \in 1 .. Len(s)
  BY <1>1
<1>5. 1 \in 1 .. Len(s) /\ Head(s) = s[1]
  BY <1>1
<1>6. s[1] \in S
  BY <1>5
<1> QED
  BY <1>1, <1>2, <1>3, <1>4, <1>5, <1>6

LEMMA RisingAppend ==
    ASSUME NEW S, \A r \in S : r.id \in Nat, NEW s \in Seq(S), NEW x \in S,
           RisingIds(s), x.id = 0 \/ \A k \in 1 .. Len(s) : s[k].id < x.id,
           NEW w, w = Append(s, x)
    PROVE  RisingIds(w)
<1>1. /\ Len(s) \in Nat /\ DOMAIN w = 1 .. Len(s) + 1 /\ DOMAIN s = 1 .. Len(s)
      /\ \A k \in 1 .. Len(s) : w[k] = s[k]
      /\ w[Len(s) + 1] = x
      /\ \A k \in 1 .. Len(s) + 1 : k \in 1 .. Len(s) \/ k = Len(s) + 1
  BY AppendIs
<1>2. ASSUME NEW j \in 1 .. Len(s) + 1, NEW k \in 1 .. Len(s) + 1, j < k,
             w[j].id # 0, w[k].id # 0
      PROVE  w[j].id < w[k].id
  <2>1. j \in 1 .. Len(s)
    BY <1>1, <1>2
  <2>2. CASE k \in 1 .. Len(s)
    BY <1>1, <1>2, <2>1, <2>2 DEF RisingIds
  <2>3. CASE k = Len(s) + 1
    BY <1>1, <1>2, <2>1, <2>3
  <2> QED
    BY <1>1, <2>2, <2>3
<1> QED
  BY <1>1, <1>2 DEF RisingIds

LEMMA IdsAppend ==
    ASSUME NEW S, NEW s \in Seq(S), NEW x \in S, NEW w, w = Append(s, x)
    PROVE  IdsOf(s) \subseteq IdsOf(w) /\ (x.id # 0 => x.id \in IdsOf(w))
<1>1. /\ Len(s) \in Nat /\ DOMAIN w = 1 .. Len(s) + 1 /\ DOMAIN s = 1 .. Len(s)
      /\ \A k \in 1 .. Len(s) : w[k] = s[k]
      /\ w[Len(s) + 1] = x
  BY AppendIs
<1>2. \A k \in 1 .. Len(s) : k \in 1 .. Len(s) + 1
  BY <1>1
<1>3. Len(s) + 1 \in 1 .. Len(s) + 1
  BY <1>1
<1> QED
  BY <1>1, <1>2, <1>3 DEF IdsOf

LEMMA BeforeAppend ==
    ASSUME NEW S, NEW s \in Seq(S), NEW x \in S, NEW u, NEW h,
           Before(s, u, h), x.id <= u, h # 0 => x.id < h,
           NEW w, w = Append(s, x)
    PROVE  Before(w, u, h)
<1>1. /\ Len(s) \in Nat /\ Len(w) = Len(s) + 1
      /\ \A k \in 1 .. Len(s) : w[k] = s[k]
      /\ w[Len(s) + 1] = x
      /\ \A k \in 1 .. Len(s) + 1 : k \in 1 .. Len(s) \/ k = Len(s) + 1
  BY AppendIs
<1>2. ASSUME NEW k \in 1 .. Len(w) PROVE w[k].id <= u /\ (h # 0 => w[k].id < h)
  <2>1. CASE k \in 1 .. Len(s)
    BY <1>1, <2>1 DEF Before
  <2>2. CASE k = Len(s) + 1
    BY <1>1, <2>2
  <2> QED
    BY <1>1, <2>1, <2>2
<1> QED
  BY <1>2 DEF Before

(* The handler goes on: more is behind it, and the command in its hand is  *)
(* none, the same, or a later one.                                         *)
LEMMA BeforeGrows ==
    ASSUME NEW S, \A r \in S : r.id \in Nat, NEW s \in Seq(S),
           NEW u \in Nat, NEW h, NEW v \in Nat, NEW g \in Nat,
           Before(s, u, h), u <= v, g = 0 \/ g = h \/ u < g
    PROVE  Before(s, v, g)
<1>1. ASSUME NEW k \in 1 .. Len(s) PROVE s[k].id <= v /\ (g # 0 => s[k].id < g)
  <2>1. s[k].id \in Nat
    OBVIOUS
  <2>2. s[k].id <= u /\ (h # 0 => s[k].id < h)
    BY DEF Before
  <2> QED
    BY <2>1, <2>2
<1> QED
  BY <1>1 DEF Before

LEMMA FollowsAppend ==
    ASSUME NEW S, \A r \in S : r.id \in Nat, NEW a \in Seq(S), NEW o \in Seq(S), NEW x \in S,
           Follows(a, o), x.id = 0 \/ \A k \in 1 .. Len(a) : a[k].id < x.id,
           NEW w, w = Append(o, x)
    PROVE  Follows(a, w)
<1>1. /\ Len(o) \in Nat /\ Len(w) = Len(o) + 1
      /\ \A k \in 1 .. Len(o) : w[k] = o[k]
      /\ w[Len(o) + 1] = x
      /\ \A k \in 1 .. Len(o) + 1 : k \in 1 .. Len(o) \/ k = Len(o) + 1
  BY AppendIs
<1>2. ASSUME NEW j \in 1 .. Len(a), NEW k \in 1 .. Len(w), a[j].id # 0, w[k].id # 0
      PROVE  a[j].id < w[k].id
  <2>1. CASE k \in 1 .. Len(o)
    BY <1>1, <1>2, <2>1 DEF Follows
  <2>2. CASE k = Len(o) + 1
    BY <1>1, <1>2, <2>2
  <2> QED
    BY <1>1, <2>1, <2>2
<1> QED
  BY <1>2 DEF Follows

(* The first reply of the channel goes to the client, who sees it if it    *)
(* names a command.                                                        *)
LEMMA FollowsMove ==
    ASSUME NEW S, \A r \in S : r.id \in Nat, NEW a \in Seq(S), NEW o \in Seq(S), o # <<>>,
           RisingIds(a), RisingIds(o), Follows(a, o),
           NEW w, w = Tail(o), NEW b, b = IF Head(o).id = 0 THEN a ELSE Append(a, Head(o))
    PROVE  RisingIds(b) /\ RisingIds(w) /\ Follows(b, w)
<1>1. /\ w \in Seq(S) /\ Len(o) \in Nat /\ Len(o) >= 1 /\ Len(w) = Len(o) - 1
      /\ DOMAIN w = 1 .. Len(w) /\ DOMAIN o = 1 .. Len(o)
      /\ \A k \in 1 .. Len(w) : k + 1 \in 1 .. Len(o) /\ w[k] = o[k + 1]
      /\ Head(o) = o[1] /\ Head(o) \in S /\ 1 \in 1 .. Len(o)
  BY TailIs
<1>2. RisingIds(w)
  <2>1. ASSUME NEW j \in 1 .. Len(w), NEW k \in 1 .. Len(w), j < k, w[j].id # 0, w[k].id # 0
        PROVE  w[j].id < w[k].id
    <3>1. j + 1 < k + 1
      BY <2>1
    <3> QED
      BY <1>1, <2>1, <3>1 DEF RisingIds
  <2> QED
    BY <1>1, <2>1 DEF RisingIds
<1>3. Follows(a, w)
  BY <1>1 DEF Follows
<1>4. CASE Head(o).id = 0
  BY <1>2, <1>3, <1>4
<1>5. CASE Head(o).id # 0
  <2> DEFINE x == Head(o)
  <2>1. b = Append(a, x) /\ x \in S /\ x = o[1]
    BY <1>1, <1>5
  <2>2. \A k \in 1 .. Len(a) : a[k].id < x.id \/ a[k].id = 0
    BY <1>1, <1>5 DEF Follows
  <2>3. \A k \in 1 .. Len(a) : a[k].id < x.id
    <3>1. x.id \in Nat /\ x.id # 0
      BY <1>1, <1>5
    <3>2. \A k \in 1 .. Len(a) : a[k].id \in Nat
      OBVIOUS
    <3> HIDE DEF x
    <3> QED
      BY <2>2, <3>1, <3>2
  <2>4. \A k \in 1 .. Len(w) : w[k].id # 0 => x.id < w[k].id
    <3>1. \A k \in 1 .. Len(w) : 1 < k + 1
      OBVIOUS
    <3> QED
      BY <1>1, <1>5, <2>1, <3>1 DEF RisingIds
  <2>5. /\ Len(a) \in Nat /\ Len(b) = Len(a) + 1
        /\ \A k \in 1 .. Len(a) : b[k] = a[k]
        /\ b[Len(a) + 1] = x
        /\ \A k \in 1 .. Len(a) + 1 : k \in 1 .. Len(a) \/ k = Len(a) + 1
    BY <2>1, AppendIs
  <2> HIDE DEF x
  <2>6. RisingIds(b)
    BY <2>1, <2>3, RisingAppend
  <2>7. Follows(b, w)
    <3>1. ASSUME NEW j \in 1 .. Len(b), NEW k \in 1 .. Len(w), b[j].id # 0, w[k].id # 0
          PROVE  b[j].id < w[k].id
      <4>1. CASE j \in 1 .. Len(a)
        BY <1>3, <2>5, <3>1, <4>1 DEF Follows
      <4>2. CASE j = Len(a) + 1
        BY <2>4, <2>5, <3>1, <4>2
      <4> QED
        BY <2>5, <4>1, <4>2
    <3> QED
      BY <3>1 DEF Follows
  <2> QED
    BY <1>2, <2>6, <2>7
<1> QED
  BY <1>4, <1>5

LEMMA IdsMove ==
    ASSUME NEW S, NEW a \in Seq(S), NEW o \in Seq(S), o # <<>>,
           NEW w, w = Tail(o), NEW b, b = IF Head(o).id = 0 THEN a ELSE Append(a, Head(o)),
           NEW i, i \in IdsOf(a) \cup IdsOf(o)
    PROVE  i \in IdsOf(b) \cup IdsOf(w)
<1>1. /\ Len(o) \in Nat /\ Len(w) = Len(o) - 1
      /\ DOMAIN w = 1 .. Len(w) /\ DOMAIN o = 1 .. Len(o)
      /\ \A k \in 1 .. Len(w) : w[k] = o[k + 1]
      /\ Head(o) = o[1] /\ Head(o) \in S
  BY TailIs
<1>2. /\ IdsOf(a) \subseteq IdsOf(b)
      /\ Head(o).id # 0 => Head(o).id \in IdsOf(b)
  <2> DEFINE x == Head(o)
  <2>1. CASE x.id = 0
    BY <2>1
  <2>2. CASE x.id # 0
    <3>1. b = Append(a, x) /\ x \in S
      BY <1>1, <2>2
    <3> HIDE DEF x
    <3> QED
      BY <2>2, <3>1, IdsAppend DEF x
  <2> QED
    BY <2>1, <2>2
<1>3. CASE i \in IdsOf(a)
  BY <1>2, <1>3
<1>4. CASE i \in IdsOf(o)
  <2>1. PICK k \in 1 .. Len(o) : i = o[k].id /\ i # 0
    BY <1>1, <1>4 DEF IdsOf
  <2>2. CASE k = 1
    BY <1>1, <1>2, <2>1, <2>2
  <2>3. CASE k # 1
    <3>1. k - 1 \in 1 .. Len(w) /\ (k - 1) + 1 = k
      BY <1>1, <2>3
    <3>2. w[k - 1] = o[k]
      BY <1>1, <3>1
    <3> QED
      BY <1>1, <2>1, <3>1, <3>2 DEF IdsOf
  <2> QED
    BY <2>2, <2>3
<1> QED
  BY <1>3, <1>4

LEMMA BeforeMove ==
    ASSUME NEW S, NEW a \in Seq(S), NEW o \in Seq(S), o # <<>>, NEW u, NEW h,
           Before(a, u, h), Before(o, u, h),
           NEW w, w = Tail(o), NEW b, b = IF Head(o).id = 0 THEN a ELSE Append(a, Head(o))
    PROVE  Before(b, u, h) /\ Before(w, u, h)
<1>1. /\ \A k \in 1 .. Len(w) : k + 1 \in 1 .. Len(o) /\ w[k] = o[k + 1]
      /\ Head(o) = o[1] /\ Head(o) \in S /\ 1 \in 1 .. Len(o)
  BY TailIs
<1>2. Before(w, u, h)
  BY <1>1 DEF Before
<1> DEFINE x == Head(o)
<1>3. x \in S /\ x.id <= u /\ (h # 0 => x.id < h)
  BY <1>1 DEF Before
<1>4. CASE x.id = 0
  BY <1>2, <1>4
<1>5. CASE x.id # 0
  <2>1. b = Append(a, x)
    BY <1>5
  <2> HIDE DEF x
  <2>2. Before(b, u, h)
    BY <1>3, <2>1, BeforeAppend
  <2> QED
    BY <1>2, <2>2
<1> QED
  BY <1>4, <1>5

----------------------------------------------------------------------------
(* What steps leave alone                                                  *)

LEMMA UptoStep ==
    ASSUME StreamInv, UNCHANGED input, start' \in start .. Len(stream)
    PROVE  /\ Upto' = UptoAt(start') /\ Upto \in Nat /\ Upto' \in Nat
           /\ Upto <= Upto' /\ Upto' <= Len(script)
<1> DEFINE m == start
           n == start'
<1>1. Len(stream) \in Nat /\ start \in Nat /\ start <= Len(stream)
  BY StreamFacts
<1>2. m \in 0 .. Len(stream) /\ n \in 0 .. Len(stream) /\ m <= n
  BY <1>1
<1>3. Upto = UptoAt(m)
  BY DEF Upto
<1>4. Upto' = UptoAt(n)
  BY DEF Upto, UptoAt, input
<1> HIDE DEF m, n
<1>5. /\ UptoAt(m) \in Nat /\ UptoAt(n) \in Nat
      /\ UptoAt(m) <= UptoAt(n) /\ UptoAt(n) <= Len(script)
  BY <1>2, UptoGrows
<1> QED
  BY <1>3, <1>4, <1>5 DEF n

LEMMA StreamStep ==
    ASSUME StreamInv, UNCHANGED input, start' \in start .. Len(stream),
           received' \in start' .. Len(stream)
    PROVE  StreamInv'
<1>1. Len(stream) \in Nat /\ start \in Nat
  BY StreamFacts
<1>2. start' \in 0 .. received' /\ received' \in 0 .. Len(stream)
  BY <1>1
<1> QED
  BY <1>2 DEF StreamInv, input

LEMMA IdsAre ==
    ASSUME StreamInv
    PROVE  /\ \A i \in Ids : i \in Nat /\ i # 0
           /\ \A r \in Replies : r.id \in Nat /\ r.id \in Ids \cup {0} /\ r.res \in Results
<1>1. Ids = 1 .. Len(script) /\ Len(script) \in Nat
  BY StreamFacts
<1>2. \A i \in Ids : i \in Nat /\ i # 0
  BY <1>1
<1>3. \A r \in Replies : r.id \in Ids \cup {0} /\ r.res \in Results
  BY DEF Replies
<1> QED
  BY <1>2, <1>3

LEMMA SameIds ==
    ASSUME UNCHANGED input
    PROVE  /\ Ids' = Ids /\ Replies' = Replies
           /\ \A i : Executable(i)' <=> Executable(i)
BY DEF Ids, Replies, Executable, input

(* The command in the hand after a step: none, a later one, or the same.   *)
GoesOn ==
    /\ pc' = "execute" => Upto < hand'.id \/ (pc' = pc /\ hand' = hand)
    /\ pc' = "reply" => hand'.id = 0 \/ Upto < hand'.id \/ (pc' = pc /\ hand' = hand)

LEMMA ExecStays ==
    ASSUME IInv, UNCHANGED <<input, executed>>, start' \in start .. Len(stream),
           GoesOn, hand'.id \in Nat
    PROVE  ExecInv'
<1>1. StreamInv /\ ExecInv
  BY DEF IInv
<1>2. Upto \in Nat /\ Upto' \in Nat /\ Upto <= Upto'
  BY <1>1, UptoStep
<1>3. Ids' = Ids /\ \A i : Executable(i)' <=> Executable(i)
  BY SameIds
<1>4. ASSUME NEW k \in 1 .. Len(executed)
      PROVE  /\ Executable(executed[k])' /\ executed[k] <= Upto'
             /\ pc' = "execute" => executed[k] < hand'.id
  <2>1. executed[k] \in Nat
    BY <1>1, IdsAre DEF ExecInv
  <2>2. /\ Executable(executed[k]) /\ executed[k] <= Upto
        /\ pc = "execute" => executed[k] < hand.id
    BY <1>1 DEF ExecInv
  <2>3. Executable(executed[k])'
    BY <2>2 DEF Executable, input
  <2>4. executed[k] <= Upto'
    BY <1>2, <2>1, <2>2
  <2>5. pc' = "execute" => executed[k] < hand'.id
    <3>1. ASSUME Upto < hand'.id PROVE executed[k] < hand'.id
      BY <1>2, <2>1, <2>2, <3>1
    <3> QED
      BY <2>2, <3>1 DEF GoesOn
  <2> QED
    BY <2>3, <2>4, <2>5
<1>5. executed' \in Seq(Ids') /\ Rising(executed')
  BY <1>1, <1>3 DEF ExecInv
<1>6. \A k \in 1 .. Len(executed') :
             /\ Executable(executed[k])' /\ executed'[k] <= Upto'
             /\ pc' = "execute" => executed'[k] < hand'.id
  BY <1>4
<1> QED
  BY <1>5, <1>6 DEF ExecInv, Executable

LEMMA OrderStays ==
    ASSUME IInv, UNCHANGED <<input, out, answers>>, start' \in start .. Len(stream),
           GoesOn, hand'.id \in Nat
    PROVE  OrderInv'
<1>1. StreamInv /\ OrderInv /\ out \in Seq(Replies) /\ answers \in Seq(Replies)
  BY DEF IInv, Types
<1>2. Upto \in Nat /\ Upto' \in Nat /\ Upto <= Upto'
  BY <1>1, UptoStep
<1> DEFINE u == Upto
           v == Upto'
           h == Pending
           g == Pending'
<1>3. g \in Nat /\ (g = 0 \/ g = h \/ u < g)
  <2>1. g \in Nat
    BY DEF Pending
  <2> QED
    BY <2>1 DEF Pending, GoesOn
<1>4. \A r \in Replies : r.id \in Nat
  BY <1>1, IdsAre
<1>5. RisingIds(out) /\ Before(out, u, h)
  BY <1>1 DEF OrderInv
<1>6. kind # "http" => RisingIds(answers) /\ Before(answers, u, h) /\ Follows(answers, out)
  BY <1>1 DEF OrderInv
<1>10. u \in Nat /\ v \in Nat /\ u <= v
  BY <1>2
<1> HIDE DEF u, v, h, g
<1>7. Before(out, v, g)
  BY <1>1, <1>10, <1>3, <1>4, <1>5, BeforeGrows
<1>8. kind # "http" => Before(answers, v, g)
  BY <1>1, <1>10, <1>3, <1>4, <1>6, BeforeGrows
<1>9. out' = out /\ answers' = answers /\ kind' = kind
  BY DEF input
<1>11. Before(out', Upto', Pending') /\ (kind' # "http" => Before(answers', Upto', Pending'))
  BY <1>7, <1>8, <1>9 DEF v, g
<1>12. RisingIds(out') /\ (kind' # "http" => RisingIds(answers') /\ Follows(answers', out'))
  BY <1>5, <1>6, <1>9
<1> QED
  BY <1>11, <1>12 DEF OrderInv

LEMMA CoverStays ==
    ASSUME IInv, UNCHANGED <<input, out, answers, executed>>,
           pc' # "done" /\ writer' = "running" =>
              pc # "done" /\ writer = "running" /\ (hand'.id = hand.id \/ hand.id = 0)
    PROVE  CoverInv'
<1>1. StreamInv /\ CoverInv /\ executed \in Seq(Ids)
  BY DEF IInv, ExecInv
<1>2. DeliveredIds' = DeliveredIds
  BY DEF DeliveredIds, input
<1>3. ASSUME pc' # "done", writer' = "running", NEW k \in 1 .. Len(executed)
      PROVE  executed[k] \in DeliveredIds \cup {hand'.id}
  <2>1. executed[k] # 0
    BY <1>1, IdsAre
  <2>2. executed[k] \in DeliveredIds \cup {hand.id}
    BY <1>1, <1>3 DEF CoverInv
  <2> QED
    BY <1>3, <2>1, <2>2
<1> QED
  BY <1>2, <1>3 DEF CoverInv

Hands == [id : Ids \cup {0}, res : Results \cup {"none"}]

LEMMA AnswerIs ==
    ASSUME NEW i, NEW res
    PROVE  /\ Answer(i, res).id = i /\ Answer(i, res).res = res
           /\ Nothing.id = 0 /\ Nothing.res = "none"
           /\ i \in Ids \cup {0} /\ res \in Results => Answer(i, res) \in Replies
           /\ i \in Ids \cup {0} /\ res \in Results \cup {"none"} => Answer(i, res) \in Hands
           /\ Nothing \in Hands
BY DEF Answer, Nothing, Replies, Hands

LEMMA HandIs ==
    ASSUME StreamInv, HandInv
    PROVE  hand \in Hands /\ hand.id \in Nat /\ hand.id \in Ids \cup {0}
<1>1. hand \in Hands
  BY DEF HandInv, Hands
<1>2. hand.id \in Ids \cup {0}
  BY <1>1 DEF Hands
<1>3. \A i \in Ids : i \in Nat
  BY IdsAre
<1> QED
  BY <1>1, <1>2, <1>3

(* A step that takes nothing out of the buffer and moves no reply.         *)
LEMMA Idle ==
    ASSUME IInv, UNCHANGED <<input, start, count, out, writer, answers, executed, lost>>,
           received' \in received .. Len(stream), GoesOn, HandInv', PipelineInv',
           hand'.id = hand.id \/ pc' = "done", pc' # "done" => pc # "done",
           status' \in {0, 200, 400}, peer' \in {"open", "closed"},
           faults' \in 0 .. MaxFaults, pushes' \in 0 .. MaxPushes, badCut' \in BOOLEAN
    PROVE  IInv'
<1>1. StreamInv /\ Types /\ HandInv
  BY DEF IInv
<1>2. /\ Len(stream) \in Nat /\ start \in Nat /\ received \in Nat
      /\ start <= received /\ received <= Len(stream)
  BY <1>1, StreamFacts
<1>3. start' \in start .. Len(stream) /\ received' \in start' .. Len(stream)
  BY <1>2
<1>4. StreamInv'
  BY <1>1, <1>3, StreamStep
<1>5. Upto' = Upto
  BY DEF Upto, UptoAt, input
<1>6. Ids' = Ids /\ Replies' = Replies
  BY SameIds
<1>7. Types'
  BY <1>1, <1>5, <1>6 DEF Types, input
<1>8. hand'.id \in Nat
  <2>1. hand' \in [id : Ids \cup {0}, res : Results \cup {"none"}]
    BY <1>6 DEF HandInv
  <2>2. hand'.id \in Ids \cup {0}
    BY <2>1
  <2> QED
    BY <1>1, <2>2, IdsAre
<1>9. ExecInv'
  BY <1>3, <1>8, ExecStays
<1>10. OrderInv'
  BY <1>3, <1>8, OrderStays
<1>11. CoverInv'
  BY CoverStays
<1> QED
  BY <1>4, <1>7, <1>9, <1>10, <1>11 DEF IInv

LEMMA ReceiveMessageStep ==
    ASSUME IInv, NEW n \in received + 1 .. Len(stream), ReceiveMessage(n)
    PROVE  IInv'
<1>1. StreamInv /\ Types /\ HandInv /\ PipelineInv
  BY DEF IInv
<1>2. /\ UNCHANGED <<input, start, count, out, writer, answers, executed, lost>>
      /\ pc = "recv" /\ pc' = "parse" /\ hand' = hand /\ kind # "http" /\ kind' = kind
      /\ received' = n /\ UNCHANGED <<status, peer, faults, pushes>>
  BY DEF ReceiveMessage, output, input
<1>3. received' \in received .. Len(stream)
  <2>1. Len(stream) \in Nat /\ received \in Nat
    BY <1>1, StreamFacts
  <2> QED
    BY <1>2, <2>1
<1>4. badCut' \in BOOLEAN
  BY DEF ReceiveMessage
<1>5. GoesOn /\ (hand'.id = hand.id \/ pc' = "done") /\ (pc' # "done" => pc # "done")
  BY <1>2 DEF GoesOn
<1>6. HandInv'
  <2>1. Upto' = Upto /\ Ids' = Ids
    BY <1>2, SameIds DEF Upto, UptoAt, input
  <2> QED
    BY <1>1, <1>2, <2>1 DEF HandInv
<1>7. PipelineInv'
  BY <1>2 DEF PipelineInv
<1>8. /\ status' \in {0, 200, 400} /\ peer' \in {"open", "closed"}
      /\ faults' \in 0 .. MaxFaults /\ pushes' \in 0 .. MaxPushes
  BY <1>1, <1>2 DEF Types
<1> QED
  BY <1>2, <1>3, <1>4, <1>5, <1>6, <1>7, <1>8, Idle

LEMMA ReceiveBodyStep ==
    ASSUME IInv, NEW n \in 0 .. Len(stream), ReceiveBody(n)
    PROVE  IInv'
<1>1. StreamInv /\ Types /\ HandInv /\ PipelineInv
  BY DEF IInv
<1>2. /\ UNCHANGED <<input, start, count, out, writer, answers, executed, lost>>
      /\ pc = "recv" /\ pc' \in {"parse", "done"} /\ hand' = hand /\ kind = "http" /\ kind' = kind
      /\ received' = n /\ UNCHANGED <<peer, faults, pushes>>
      /\ pc' = "parse" => status' = status
      /\ pc' = "done" => status' = 400
  BY DEF ReceiveBody, input
<1>3. received' \in received .. Len(stream)
  <2>1. Len(stream) \in Nat /\ received = 0
    BY <1>1, <1>2, StreamFacts DEF PipelineInv
  <2> QED
    BY <1>2, <2>1
<1>4. badCut' \in BOOLEAN
  BY DEF ReceiveBody
<1>5. GoesOn /\ (hand'.id = hand.id \/ pc' = "done") /\ (pc' # "done" => pc # "done")
  BY <1>2 DEF GoesOn
<1>6. HandInv'
  <2>1. Upto' = Upto /\ Ids' = Ids
    BY <1>2, SameIds DEF Upto, UptoAt, input
  <2> QED
    BY <1>1, <1>2, <2>1 DEF HandInv
<1>8. /\ status' \in {0, 200, 400} /\ peer' \in {"open", "closed"}
      /\ faults' \in 0 .. MaxFaults /\ pushes' \in 0 .. MaxPushes
  BY <1>1, <1>2 DEF Types
<1>7. PipelineInv'
  <2>1. /\ status = 0 /\ count <= MaxPipeline /\ Len(out) + 0 <= count
        /\ Len(executed) + 0 <= count
    BY <1>1, <1>2 DEF PipelineInv, Open
  <2>2. Len(out) \in Nat /\ Len(executed) \in Nat /\ count \in Nat /\ MaxPipeline \in Nat
    BY <1>1, BoundsAssumption DEF Types, IInv, ExecInv
  <2>3. Len(out) <= MaxPipeline /\ Len(executed) <= MaxPipeline
    BY <2>1, <2>2
  <2> QED
    BY <1>2, <2>1, <2>3 DEF PipelineInv, Open
<1> QED
  BY <1>2, <1>3, <1>4, <1>5, <1>6, <1>7, <1>8, Idle

LEMMA ReceivePingStep ==
    ASSUME IInv, ReceivePing PROVE IInv'
<1>1. StreamInv /\ Types /\ HandInv
  BY DEF IInv
<1>2. /\ UNCHANGED <<input, start, count, out, writer, answers, executed, lost>>
      /\ pc = "recv" /\ pc' = "reply" /\ hand' = Answer(0, "pong") /\ kind # "http" /\ kind' = kind
      /\ UNCHANGED <<received, status, peer, faults, badCut>>
      /\ pushes < MaxPushes /\ pushes' = pushes + 1
  BY DEF ReceivePing, output, input, buffer, history
<1>3. received' \in received .. Len(stream)
  <2>1. Len(stream) \in Nat /\ received \in Nat /\ received <= Len(stream)
    BY <1>1, StreamFacts
  <2> QED
    BY <1>2, <2>1
<1>4. hand'.id = 0 /\ hand'.res = "pong" /\ hand' \in Hands
  BY <1>2, AnswerIs DEF Results
<1>5. GoesOn /\ (hand'.id = hand.id \/ pc' = "done") /\ (pc' # "done" => pc # "done")
  BY <1>1, <1>2, <1>4 DEF GoesOn, HandInv
<1>6. HandInv'
  <2>1. Upto' = Upto /\ Ids' = Ids
    BY <1>2, SameIds DEF Upto, UptoAt, input
  <2>2. Upto \in Nat
    <3>1. Len(stream) \in Nat /\ start \in Nat /\ start <= Len(stream)
      BY <1>1, StreamFacts
    <3>2. start' \in start .. Len(stream)
      BY <1>2, <3>1
    <3> QED
      BY <1>1, <1>2, <3>2, UptoStep
  <2>3. hand' \in [id : Ids' \cup {0}, res : Results \cup {"none"}]
    BY <1>4, <2>1 DEF Hands
  <2>4. hand'.id <= Upto'
    BY <1>4, <2>1, <2>2
  <2>5. hand'.res \in Results
    BY <1>4 DEF Results
  <2> QED
    BY <1>2, <2>3, <2>4, <2>5 DEF HandInv
<1>7. PipelineInv'
  BY <1>2 DEF PipelineInv
<1>8. /\ status' \in {0, 200, 400} /\ peer' \in {"open", "closed"}
      /\ faults' \in 0 .. MaxFaults /\ badCut' \in BOOLEAN
  BY <1>1, <1>2 DEF Types
<1>9. pushes' \in 0 .. MaxPushes
  BY <1>1, <1>2, BoundsAssumption DEF Types
<1> QED
  BY <1>2, <1>3, <1>5, <1>6, <1>7, <1>8, <1>9, Idle

(* The handler returns: with what it has in its hand, it is gone.          *)
LEMMA DoneStep ==
    ASSUME IInv, ReceiveClose \/ Cancel PROVE IInv'
<1>1. StreamInv /\ Types /\ HandInv /\ PipelineInv
  BY DEF IInv
<1>2. /\ UNCHANGED <<input, start, count, out, writer, answers, executed, lost>>
      /\ pc # "done" /\ pc' = "done" /\ hand' = hand /\ kind' = kind
      /\ UNCHANGED <<received, status, peer, faults, pushes, badCut>>
  BY DEF ReceiveClose, Cancel, output, input, buffer, history
<1>3. received' \in received .. Len(stream)
  <2>1. Len(stream) \in Nat /\ received \in Nat /\ received <= Len(stream)
    BY <1>1, StreamFacts
  <2> QED
    BY <1>2, <2>1
<1>5. GoesOn /\ (hand'.id = hand.id \/ pc' = "done") /\ (pc' # "done" => pc # "done")
  BY <1>2 DEF GoesOn
<1>6. HandInv'
  <2>1. Upto' = Upto /\ Ids' = Ids
    BY <1>2, SameIds DEF Upto, UptoAt, input
  <2> QED
    BY <1>1, <1>2, <2>1 DEF HandInv
<1>7. PipelineInv'
  <2>1. kind = "http" => /\ status = 0 /\ count <= MaxPipeline /\ Len(out) + Open <= count
                         /\ Len(executed) + Open <= count
    BY <1>1, <1>2 DEF PipelineInv
  <2>2. /\ Len(out) \in Nat /\ Len(executed) \in Nat /\ count \in Nat /\ MaxPipeline \in Nat
        /\ Open \in Nat
    BY <1>1, BoundsAssumption DEF Types, IInv, ExecInv, Open
  <2>3. kind = "http" => Len(out) <= MaxPipeline /\ Len(executed) <= MaxPipeline
    BY <2>1, <2>2
  <2> QED
    BY <1>2, <2>1, <2>3 DEF PipelineInv
<1>8. /\ status' \in {0, 200, 400} /\ peer' \in {"open", "closed"} /\ badCut' \in BOOLEAN
      /\ faults' \in 0 .. MaxFaults /\ pushes' \in 0 .. MaxPushes
  BY <1>1, <1>2 DEF Types
<1> QED
  BY <1>2, <1>3, <1>5, <1>6, <1>7, <1>8, Idle

LEMMA PeerClosesStep ==
    ASSUME IInv, PeerCloses PROVE IInv'
<1>1. StreamInv /\ Types /\ HandInv /\ PipelineInv
  BY DEF IInv
<1>2. /\ UNCHANGED <<input, start, count, out, writer, answers, executed, lost>>
      /\ pc' = pc /\ hand' = hand /\ kind' = kind /\ peer' = "closed"
      /\ UNCHANGED <<received, status, faults, pushes, badCut>>
  BY DEF PeerCloses, output, input, buffer, history, handler
<1>3. received' \in received .. Len(stream)
  <2>1. Len(stream) \in Nat /\ received \in Nat /\ received <= Len(stream)
    BY <1>1, StreamFacts
  <2> QED
    BY <1>2, <2>1
<1>5. GoesOn /\ (hand'.id = hand.id \/ pc' = "done") /\ (pc' # "done" => pc # "done")
  BY <1>2 DEF GoesOn
<1>6. HandInv'
  <2>1. Upto' = Upto /\ Ids' = Ids
    BY <1>2, SameIds DEF Upto, UptoAt, input
  <2>2. \A i : Executable(i)' <=> Executable(i)
    BY <1>2, SameIds
  <2>3. Executable(hand.id)' <=> Executable(hand.id)
    BY <1>2 DEF Executable, input
  <2> QED
    BY <1>1, <1>2, <2>1, <2>3 DEF HandInv
<1>7. PipelineInv'
  BY <1>1, <1>2 DEF PipelineInv, Open
<1>8. /\ status' \in {0, 200, 400} /\ peer' \in {"open", "closed"} /\ badCut' \in BOOLEAN
      /\ faults' \in 0 .. MaxFaults /\ pushes' \in 0 .. MaxPushes
  BY <1>1, <1>2 DEF Types
<1> QED
  BY <1>2, <1>3, <1>5, <1>6, <1>7, <1>8, Idle

----------------------------------------------------------------------------
(* Parsing                                                                 *)

(* A step of the loop over a socket's buffer: it may take something out,   *)
(* what it takes is in the hand, and no reply moves.                       *)
LEMMA ParseKeeps ==
    ASSUME IInv, pc = "parse", kind # "http", HandInv', GoesOn,
           UNCHANGED <<input, received, count, output, peer, faults, pushes, executed, badCut>>,
           start' \in start .. received, lost' \in SUBSET Ids
    PROVE  IInv'
<1>1. StreamInv /\ Types /\ HandInv /\ hand.id = 0
  BY DEF IInv, HandInv
<1>2. /\ Len(stream) \in Nat /\ start \in Nat /\ received \in Nat
      /\ start <= received /\ received <= Len(stream)
  BY <1>1, StreamFacts
<1>3. start' \in start .. Len(stream) /\ received' \in start' .. Len(stream)
  BY <1>2
<1>4. StreamInv'
  BY <1>1, <1>3, StreamStep
<1>5. Upto \in Nat /\ Upto' \in Nat /\ Upto <= Upto'
  BY <1>1, <1>3, UptoStep
<1>6. Ids' = Ids /\ Replies' = Replies
  BY SameIds
<1>7. Types'
  <2>1. count' \in Nat /\ count' <= Upto'
    <3>1. count \in Nat /\ count <= Upto
      BY <1>1 DEF Types
    <3> QED
      BY <1>5, <3>1
  <2> QED
    BY <1>1, <1>6, <2>1 DEF Types, input, output
<1>8. hand'.id \in Nat
  <2>1. hand' \in [id : Ids \cup {0}, res : Results \cup {"none"}]
    BY <1>6 DEF HandInv
  <2>2. hand'.id \in Ids \cup {0}
    BY <2>1
  <2> QED
    BY <1>1, <2>2, IdsAre
<1>9. ExecInv'
  BY <1>3, <1>8, ExecStays
<1>10. OrderInv'
  BY <1>3, <1>8, OrderStays DEF output
<1>11. CoverInv'
  <2>1. pc # "done"
    OBVIOUS
  <2> QED
    BY <1>1, <2>1, CoverStays DEF output
<1>12. PipelineInv'
  BY DEF PipelineInv, input
<1> QED
  BY <1>4, <1>7, <1>9, <1>10, <1>11, <1>12 DEF IInv

(* Taking a command out of the buffer puts it into the hand, or answers it *)
(* at once.                                                                *)
LEMMA TakeStep ==
    ASSUME IInv, pc = "parse", UNCHANGED input,
           NEW r, r = ParseCommand(Buffer), r.status = "command", Consume(r),
           NEW i, NEW res, hand' = Answer(i, res), pc' \in {"execute", "reply"},
           i = 0 \/ (r.args # <<>> /\ i = Name(r.args)),
           pc' = "execute" => i # 0 /\ res = "none" /\ Executable(i),
           pc' = "reply" => res \in Results /\ kind # "http"
    PROVE  HandInv' /\ GoesOn /\ start' \in start .. received
<1>1. StreamInv
  BY DEF IInv
<1> DEFINE n == start + r.next - 1
<1>2. /\ n \in start + 1 .. received /\ n \in Nat
      /\ Upto \in Nat /\ Upto < UptoAt(n) /\ UptoAt(n) \in Ids
      /\ r.args # <<>> => /\ Name(r.args) \in Ids /\ Name(r.args) # 0
                          /\ Upto < Name(r.args) /\ Name(r.args) <= UptoAt(n)
  BY <1>1, ParsedIsNext
<1>3. start' = n
  BY DEF Consume
<1> HIDE DEF n
<1>4. Len(stream) \in Nat /\ start \in Nat /\ received \in Nat /\ received <= Len(stream)
  BY <1>1, StreamFacts
<1>5. start' \in start .. received /\ start' \in start .. Len(stream)
  BY <1>2, <1>3, <1>4
<1>6. Upto' = UptoAt(n) /\ Upto' \in Nat
  BY <1>1, <1>3, <1>5, UptoStep
<1>7. Ids' = Ids
  BY SameIds
<1>8. i \in Ids \cup {0} /\ i <= Upto' /\ (i # 0 => Upto < i)
  <2>1. CASE i = 0
    BY <1>6, <2>1
  <2>2. CASE i # 0
    <3>1. r.args # <<>> /\ i = Name(r.args)
      BY <2>2
    <3> QED
      BY <1>2, <1>6, <3>1
  <2> QED
    BY <2>1, <2>2
<1>9. res \in Results \cup {"none"}
  OBVIOUS
<1>10. hand' \in Hands /\ hand'.id = i /\ hand'.res = res
  BY <1>8, <1>9, AnswerIs
<1>11. hand' \in [id : Ids' \cup {0}, res : Results \cup {"none"}]
  BY <1>7, <1>10 DEF Hands
<1>12. pc' = "execute" => hand'.id # 0 /\ Executable(i)'
  BY <1>10 DEF Executable, input
<1>13. HandInv'
  <2>1. kind' = kind
    BY DEF input
  <2>2. hand'.id <= Upto'
    BY <1>8, <1>10
  <2>3. pc' = "execute" => Executable(hand.id)'
    BY <1>10, <1>12 DEF Executable
  <2> QED
    BY <1>10, <1>11, <1>12, <2>1, <2>2, <2>3 DEF HandInv
<1>14. GoesOn
  BY <1>8, <1>10 DEF GoesOn
<1> QED
  BY <1>5, <1>13, <1>14

(* buffer.clear() moves the handler behind all it has received.            *)
LEMMA RefuseStep ==
    ASSUME IInv, pc = "parse", kind # "http", Refuse, UNCHANGED input
    PROVE  HandInv' /\ GoesOn /\ start' \in start .. received /\ lost' \in SUBSET Ids
<1>1. StreamInv /\ lost \in SUBSET Ids
  BY DEF IInv, Types
<1>2. /\ Len(stream) \in Nat /\ start \in Nat /\ received \in Nat
      /\ start <= received /\ received <= Len(stream) /\ Ids = 1 .. Len(script)
      /\ \A q \in 1 .. Len(stream) : stream[q].of \in 1 .. Len(script)
  BY <1>1, StreamFacts
<1>3. start' \in start .. received /\ start' \in start .. Len(stream)
  BY <1>2 DEF Refuse
<1>4. lost' \in SUBSET Ids
  <2> DEFINE buf == Buffer
  <2>1. /\ buf \in Seq(Tokens) /\ Len(buf) = received - start
        /\ \A k \in 1 .. received - start :
              start + k \in 1 .. Len(stream) /\ buf[k] = stream[start + k]
    BY <1>1, BufferIs DEF Stretch
  <2>2. lost' = lost \cup {k.of : k \in ToSet(buf)}
    BY DEF Refuse
  <2> HIDE DEF buf
  <2>3. DOMAIN buf = 1 .. received - start
    BY <2>1
  <2>4. ASSUME NEW k \in ToSet(buf) PROVE k.of \in Ids
    <3>1. PICK j \in 1 .. received - start : k = buf[j]
      BY <2>3, <2>4 DEF ToSet
    <3> QED
      BY <1>2, <2>1, <3>1
  <2> QED
    BY <1>1, <2>2, <2>4
<1>5. Ids' = Ids /\ Upto' \in Nat
  BY <1>1, <1>3, SameIds, UptoStep
<1>6. hand' \in Hands /\ hand'.id = 0 /\ hand'.res = "invalid" /\ "invalid" \in Results /\ pc' = "reply"
  BY AnswerIs DEF Refuse, Results
<1>7. HandInv'
  <2>1. hand' \in [id : Ids' \cup {0}, res : Results \cup {"none"}]
    BY <1>5, <1>6 DEF Hands
  <2>2. hand'.id <= Upto' /\ kind' = kind
    BY <1>5, <1>6 DEF input
  <2> QED
    BY <1>6, <2>1, <2>2 DEF HandInv
<1>8. GoesOn
  BY <1>6 DEF GoesOn
<1> QED
  BY <1>3, <1>4, <1>7, <1>8

(* The handler stays between two commands.                                 *)
LEMMA WaitStep ==
    ASSUME IInv, pc = "parse", UNCHANGED <<input, hand>>, pc' \in {"parse", "recv"},
           start' \in start .. received
    PROVE  HandInv' /\ GoesOn
<1>1. StreamInv /\ HandInv
  BY DEF IInv
<1>2. Len(stream) \in Nat /\ start \in Nat /\ received \in Nat /\ received <= Len(stream)
  BY <1>1, StreamFacts
<1>3. start' \in start .. Len(stream)
  BY <1>2
<1>4. Ids' = Ids /\ Upto' \in Nat
  BY <1>1, <1>3, SameIds, UptoStep
<1>5. hand.id = 0 /\ hand \in [id : Ids \cup {0}, res : Results \cup {"none"}]
  BY <1>1 DEF HandInv
<1>6. HandInv'
  BY <1>4, <1>5 DEF HandInv
<1> QED
  BY <1>6 DEF GoesOn

LEMMA ParseStatus ==
    ASSUME StreamInv PROVE ParseCommand(Buffer).status \in Statuses
<1> DEFINE buf == Buffer
<1>1. Stretch(buf, script)
  BY BufferIs
<1> HIDE DEF buf
<1>2. Sound(ParseCommand(buf), buf, script)
  BY <1>1, ParseSound
<1> QED
  BY <1>2 DEF Sound, buf

LEMMA RawParseStep ==
    ASSUME IInv, RawParse PROVE IInv'
<1> DEFINE r == ParseCommand(Buffer)
<1>1. StreamInv /\ Types
  BY DEF IInv
<1>2. r.status \in Statuses
  BY <1>1, ParseStatus
<1>3. /\ UNCHANGED <<input, received, count, output, peer, faults, pushes, executed, badCut>>
      /\ pc = "parse" /\ kind = "raw" /\ kind # "http"
  BY DEF RawParse
<1>4. start \in Nat /\ received \in Nat /\ start <= received /\ lost \in SUBSET Ids
  BY <1>1, StreamFacts DEF Types
<1>5. CASE r.status = "command" /\ r.args = <<>>
  <2>1. Consume(r) /\ UNCHANGED <<pc, hand, lost>>
    BY <1>5 DEF RawParse, SkipEmpty
  <2>2. start + r.next - 1 \in start + 1 .. received
    BY <1>1, <1>5, ParsedIsNext
  <2>3. start' \in start .. received
    <3> HIDE DEF r
    <3>1. start' \in start + 1 .. received
      BY <2>1, <2>2 DEF Consume
    <3> QED
      BY <1>4, <3>1
  <2>4. HandInv' /\ GoesOn
    BY <1>3, <2>1, <2>3, WaitStep
  <2> QED
    BY <1>3, <1>4, <2>1, <2>3, <2>4, ParseKeeps
<1>6. CASE r.status = "command" /\ r.args # <<>>
  <2> DEFINE i == Name(r.args)
  <2>1. /\ Consume(r) /\ pc' = "execute" /\ hand' = Answer(i, "none") /\ UNCHANGED lost
    BY <1>6 DEF RawParse
  <2>2. i # 0 /\ script[i] \in {"allowed", "denied"}
    BY <1>1, <1>6, ParsedIsNext
  <2>3. Executable(i)
    BY <1>3, <2>2 DEF Executable
  <2>6. r = ParseCommand(Buffer) /\ r.status = "command" /\ r.args # <<>> /\ i = Name(r.args)
    BY <1>6
  <2> HIDE DEF r, i
  <2>4. HandInv' /\ GoesOn /\ start' \in start .. received
    BY <1>3, <2>1, <2>2, <2>3, <2>6, TakeStep
  <2> QED
    BY <1>3, <1>4, <2>1, <2>4, ParseKeeps
<1>7. CASE r.status = "more"
  <2>1. pc' = "recv" /\ UNCHANGED <<start, hand, lost>>
    BY <1>7 DEF RawParse
  <2>2. start' \in start .. received
    BY <1>4, <2>1
  <2>3. HandInv' /\ GoesOn
    BY <1>3, <2>1, <2>2, WaitStep
  <2> QED
    BY <1>3, <1>4, <2>1, <2>2, <2>3, ParseKeeps
<1>8. CASE r.status = "invalid"
  <2>1. Refuse
    BY <1>8 DEF RawParse
  <2>2. HandInv' /\ GoesOn /\ start' \in start .. received /\ lost' \in SUBSET Ids
    BY <1>3, <2>1, RefuseStep
  <2> QED
    BY <1>3, <2>2, ParseKeeps
<1> QED
  BY <1>2, <1>5, <1>6, <1>7, <1>8 DEF Statuses

LEMMA CompatParseStep ==
    ASSUME IInv, CompatParse PROVE IInv'
<1> DEFINE r == ParseCommand(Buffer)
<1>1. StreamInv /\ Types
  BY DEF IInv
<1>2. r.status \in Statuses
  BY <1>1, ParseStatus
<1>3. /\ UNCHANGED <<input, received, count, output, peer, faults, pushes, executed, badCut>>
      /\ pc = "parse" /\ kind = "compat" /\ kind # "http"
  BY DEF CompatParse
<1>4. start \in Nat /\ received \in Nat /\ start <= received /\ lost \in SUBSET Ids
  BY <1>1, StreamFacts DEF Types
<1>5. CASE r.status = "command"
  <2> DEFINE i == IF r.args = <<>> THEN 0 ELSE Name(r.args)
             res == IF r.args = <<>> THEN "emptyCommand"
                    ELSE IF ~ is_command_allowed(r.args) THEN "forbidden" ELSE "none"
  <2>1. Consume(r) /\ UNCHANGED lost
    BY <1>5 DEF CompatParse
  <2>2. /\ hand' = Answer(i, res)
        /\ pc' = IF res = "none" THEN "execute" ELSE "reply"
    BY <1>5 DEF CompatParse
  <2>3. r.args # <<>> => i # 0 /\ i = Name(r.args) /\ script[i] \in {"allowed", "denied"}
    BY <1>1, <1>5, ParsedIsNext
  <2>4. res = "none" => i # 0 /\ Executable(i)
    <3>1. res = "none" => r.args # <<>> /\ script[Name(r.args)] # "denied"
      BY DEF is_command_allowed
    <3> QED
      BY <2>3, <3>1 DEF Executable
  <2>5. res # "none" => res \in Results
    BY DEF Results
  <2>6. r = ParseCommand(Buffer) /\ r.status = "command" /\ (i = 0 \/ (r.args # <<>> /\ i = Name(r.args)))
    BY <1>5
  <2> HIDE DEF r, i, res
  <2>7. /\ pc' \in {"execute", "reply"}
        /\ pc' = "execute" => i # 0 /\ res = "none" /\ Executable(i)
        /\ pc' = "reply" => res \in Results /\ kind # "http"
    BY <1>3, <2>2, <2>4, <2>5
  <2>8. HandInv' /\ GoesOn /\ start' \in start .. received
    BY <1>3, <2>1, <2>2, <2>6, <2>7, TakeStep
  <2> QED
    BY <1>3, <1>4, <2>1, <2>8, ParseKeeps
<1>7. CASE r.status = "more"
  <2>1. pc' = "recv" /\ UNCHANGED <<start, hand, lost>>
    BY <1>7 DEF CompatParse
  <2>2. start' \in start .. received
    BY <1>4, <2>1
  <2>3. HandInv' /\ GoesOn
    BY <1>3, <2>1, <2>2, WaitStep
  <2> QED
    BY <1>3, <1>4, <2>1, <2>2, <2>3, ParseKeeps
<1>8. CASE r.status = "invalid"
  <2>1. Refuse
    BY <1>8 DEF CompatParse
  <2>2. HandInv' /\ GoesOn /\ start' \in start .. received /\ lost' \in SUBSET Ids
    BY <1>3, <2>1, RefuseStep
  <2> QED
    BY <1>3, <2>2, ParseKeeps
<1> QED
  BY <1>2, <1>5, <1>7, <1>8 DEF Statuses

(* A request adds a reply to the ones it has for a command after theirs.   *)
LEMMA HttpOrder ==
    ASSUME IInv, kind = "http", pc = "parse", UNCHANGED <<input, executed, writer>>,
           start' \in start .. Len(stream), GoesOn, hand'.id \in Nat,
           \/ out' = out
           \/ \E x \in Replies : /\ out' = Append(out, x) /\ pc' = "parse"
                                 /\ x.id = 0 \/ Upto < x.id
                                 /\ x.id <= Upto'
    PROVE  OrderInv' /\ CoverInv'
<1>1. StreamInv /\ OrderInv /\ CoverInv /\ out \in Seq(Replies) /\ hand.id = 0
  BY DEF IInv, Types, HandInv
<1>2. Upto \in Nat /\ Upto' \in Nat /\ Upto <= Upto'
  BY <1>1, UptoStep
<1> DEFINE u == Upto
           v == Upto'
           h == Pending
           g == Pending'
<1>3. g \in Nat /\ (g = 0 \/ g = h \/ u < g)
  <2>1. g \in Nat
    BY DEF Pending
  <2> QED
    BY <2>1 DEF Pending, GoesOn
<1>4. \A r \in Replies : r.id \in Nat
  BY <1>1, IdsAre
<1>5. RisingIds(out) /\ Before(out, u, h)
  BY <1>1 DEF OrderInv
<1>6. u \in Nat /\ v \in Nat /\ u <= v
  BY <1>2
<1>7. kind' = "http"
  BY DEF input
<1>8. pc' = "parse" => g = 0
  BY DEF Pending
<1> HIDE DEF u, v, h, g
<1>9. Before(out, v, g)
  BY <1>1, <1>3, <1>4, <1>5, <1>6, BeforeGrows
<1>10. /\ RisingIds(out') /\ Before(out', v, g) /\ IdsOf(out) \subseteq IdsOf(out')
  <2>1. CASE out' = out
    BY <1>5, <1>9, <2>1
  <2>2. CASE out' # out
    <3>1. PICK x \in Replies : /\ out' = Append(out, x) /\ pc' = "parse"
                               /\ x.id = 0 \/ u < x.id
                               /\ x.id <= v
      BY <2>2 DEF u, v
    <3>2. x.id = 0 \/ \A k \in 1 .. Len(out) : out[k].id < x.id
      <4>1. ASSUME NEW k \in 1 .. Len(out), u < x.id PROVE out[k].id < x.id
        <5>1. out[k].id \in Nat /\ x.id \in Nat
          BY <1>1, <1>4
        <5>2. out[k].id <= u
          BY <1>5 DEF Before
        <5> QED
          BY <1>6, <4>1, <5>1, <5>2
      <4> QED
        BY <3>1, <4>1
    <3> DEFINE w == out'
    <3>3. w = Append(out, x) /\ g = 0
      BY <1>8, <3>1
    <3> HIDE DEF w
    <3>4. RisingIds(w)
      BY <1>1, <1>4, <1>5, <3>2, <3>3, RisingAppend
    <3>5. Before(w, v, g)
      BY <1>1, <1>9, <3>1, <3>3, BeforeAppend
    <3>6. IdsOf(out) \subseteq IdsOf(w)
      BY <1>1, <3>3, IdsAppend
    <3> QED
      BY <3>4, <3>5, <3>6 DEF w
  <2> QED
    BY <2>1, <2>2
<1>11. OrderInv'
  BY <1>7, <1>10 DEF OrderInv, v, g
<1>12. CoverInv'
  <2>1. ASSUME writer = "running", NEW k \in 1 .. Len(executed) PROVE executed[k] \in IdsOf(out')
    <3>1. executed[k] # 0
      BY <1>1, IdsAre DEF IInv, ExecInv
    <3>2. executed[k] \in DeliveredIds \cup {hand.id}
      BY <1>1, <2>1 DEF CoverInv
    <3>3. executed[k] \in IdsOf(out)
      BY <1>1, <3>1, <3>2 DEF DeliveredIds
    <3> QED
      BY <1>10, <3>3
  <2> QED
    BY <2>1 DEF CoverInv, DeliveredIds
<1> QED
  BY <1>11, <1>12

LEMMA HttpKeeps ==
    ASSUME IInv, kind = "http", pc = "parse",
           UNCHANGED <<input, received, writer, peer, faults, pushes, history>>,
           start' \in start .. received, count' \in Nat, count' <= Upto',
           HandInv', GoesOn, PipelineInv',
           answers' \in Seq(Replies), status' \in {0, 200, 400},
           \/ out' = out
           \/ \E x \in Replies : /\ out' = Append(out, x) /\ pc' = "parse"
                                 /\ x.id = 0 \/ Upto < x.id
                                 /\ x.id <= Upto'
    PROVE  IInv'
<1>1. StreamInv /\ Types /\ HandInv /\ out \in Seq(Replies)
  BY DEF IInv, Types
<1>2. /\ Len(stream) \in Nat /\ start \in Nat /\ received \in Nat
      /\ start <= received /\ received <= Len(stream)
  BY <1>1, StreamFacts
<1>3. start' \in start .. Len(stream) /\ received' \in start' .. Len(stream)
  BY <1>2
<1>4. StreamInv'
  BY <1>1, <1>3, StreamStep
<1>6. Ids' = Ids /\ Replies' = Replies /\ kind' = "http"
  BY SameIds DEF input
<1>5. out' \in Seq(Replies)
  BY <1>1, AppendIs
<1>7. Types'
  BY <1>1, <1>5, <1>6 DEF Types, input, history
<1>8. hand'.id \in Nat
  <2>1. hand' \in [id : Ids \cup {0}, res : Results \cup {"none"}]
    BY <1>6 DEF HandInv
  <2>2. hand'.id \in Ids \cup {0}
    BY <2>1
  <2> QED
    BY <1>1, <2>2, IdsAre
<1>9. ExecInv'
  BY <1>3, <1>8, ExecStays DEF history
<1>10. OrderInv' /\ CoverInv'
  BY <1>3, <1>8, HttpOrder DEF history
<1> QED
  BY <1>4, <1>7, <1>9, <1>10 DEF IInv

LEMMA HttpParseStep ==
    ASSUME IInv, HttpParse PROVE IInv'
<1> DEFINE r == ParseCommand(Buffer)
<1>1. StreamInv /\ Types /\ HandInv /\ PipelineInv /\ hand.id = 0
  BY DEF IInv, HandInv, HttpParse
<1>2. r.status \in Statuses
  BY <1>1, ParseStatus
<1>3. /\ UNCHANGED <<input, received, writer, peer, faults, pushes, history>>
      /\ pc = "parse" /\ kind = "http" /\ kind' = "http" /\ executed' = executed
  BY DEF HttpParse, input, history
<1>4. start \in Nat /\ received \in Nat /\ start <= received /\ received <= Len(stream)
      /\ Len(stream) \in Nat
  BY <1>1, StreamFacts
<1>5. /\ count \in Nat /\ count <= Upto /\ answers \in Seq(Replies)
      /\ out \in Seq(Replies) /\ Len(out) \in Nat /\ Len(executed) \in Nat /\ MaxPipeline \in Nat
  BY <1>1, BoundsAssumption DEF Types, IInv, ExecInv
<1>6. /\ status = 0 /\ count <= MaxPipeline /\ Len(out) + 0 <= count /\ Len(executed) + 0 <= count
  BY <1>1, <1>3 DEF PipelineInv, Open
<1>7. Len(out) <= count /\ Len(executed) <= count /\ Len(out) <= MaxPipeline /\ Len(executed) <= MaxPipeline
  BY <1>5, <1>6
<1>8. Upto \in Nat /\ Upto' \in Nat /\ (start' \in start .. received => Upto <= Upto')
  <2>1. start' \in start .. received => start' \in start .. Len(stream)
    BY <1>4
  <2>2. Upto \in Nat
    BY <1>1, <1>4, UptoGrows DEF Upto
  <2>3. start' \in start .. received
    <3>1. r.status = "command" => start + r.next - 1 \in start + 1 .. received
      BY <1>1, ParsedIsNext
    <3>2. UNCHANGED start \/ (r.status = "command" /\ start' = start + r.next - 1)
      BY DEF HttpParse, Consume
    <3> DEFINE n == start + r.next - 1
    <3> HIDE DEF n
    <3>3. r.status = "command" => n \in start + 1 .. received
      BY <3>1 DEF n
    <3>4. UNCHANGED start \/ (r.status = "command" /\ start' = n)
      BY <3>2 DEF n
    <3> HIDE DEF r
    <3> QED
      BY <1>4, <3>3, <3>4
  <2> QED
    BY <1>1, <1>3, <2>1, <2>2, <2>3, UptoStep
<1>9. ASSUME pc' = "done", hand' = hand, out' = out, start' \in start .. received,
             status' = 400 \/ status' = 200, status' = 200 => answers' = out,
             status' = 400 => answers' = answers,
             count' \in Nat, count' <= Upto'
      PROVE  IInv'
  <2>1. HandInv'
    <3>1. Ids' = Ids /\ 0 <= Upto'
      BY <1>3, <1>8, SameIds
    <3> QED
      BY <1>1, <1>9, <3>1 DEF HandInv
  <2>2. GoesOn
    BY <1>9 DEF GoesOn
  <2>3. PipelineInv'
    BY <1>3, <1>7, <1>9 DEF PipelineInv
  <2>4. answers' \in Seq(Replies) /\ status' \in {0, 200, 400}
    BY <1>5, <1>9
  <2> QED
    BY <1>3, <1>9, <2>1, <2>2, <2>3, <2>4, HttpKeeps
<1>10. CASE Buffer = <<>>
  <2>1. r = More
    BY <1>10 DEF ParseCommand
  <2>2. r.status # "command"
    BY <2>1 DEF More
  <2>3. Respond(200) /\ answers' = out /\ UNCHANGED <<start, hand, count, out>>
    BY <1>10, <2>2 DEF HttpParse
  <2>4. start' \in start .. received
    BY <1>4, <2>3
  <2>5. count' \in Nat /\ count' <= Upto'
    BY <1>5, <1>8, <2>3, <2>4
  <2> QED
    BY <1>9, <2>3, <2>4, <2>5 DEF Respond
<1>11. CASE Buffer # <<>> /\ r.status # "command"
  <2>3. Respond(400) /\ UNCHANGED <<start, hand, count, out, answers>>
    BY <1>11 DEF HttpParse
  <2>4. start' \in start .. received
    BY <1>4, <2>3
  <2>5. count' \in Nat /\ count' <= Upto'
    BY <1>5, <1>8, <2>3, <2>4
  <2> QED
    BY <1>9, <2>3, <2>4, <2>5 DEF Respond
<1>12. CASE r.status = "command"
  <2>1. Buffer # <<>>
    <3>1. Buffer = <<>> => r = More
      BY DEF ParseCommand
    <3>2. More.status # "command"
      BY DEF More
    <3> QED
      BY <1>12, <3>1, <3>2
  <2> DEFINE n == start + r.next - 1
  <2>2. /\ n \in start + 1 .. received /\ n \in Nat /\ Upto < UptoAt(n)
        /\ r.args # <<>> => /\ Name(r.args) \in Ids /\ Name(r.args) # 0
                            /\ Upto < Name(r.args) /\ Name(r.args) <= UptoAt(n)
                            /\ script[Name(r.args)] \in {"allowed", "denied"}
    BY <1>1, <1>12, ParsedIsNext
  <2>3. Consume(r) /\ count' = count + 1
    BY <1>12, <2>1 DEF HttpParse
  <2>4. start' = n
    BY <2>3 DEF Consume
  <2>5. start' \in start .. received /\ start' \in start .. Len(stream)
    <3> HIDE DEF n
    <3> QED
      BY <1>4, <2>2, <2>4
  <2>6. Upto' = UptoAt(n)
    BY <1>1, <1>3, <2>4, <2>5, UptoStep
  <2>7. count' \in Nat /\ count' <= Upto' /\ Upto < Upto'
    <3>1. Upto < Upto'
      BY <2>2, <2>6
    <3> QED
      BY <1>5, <1>8, <2>3, <3>1
  <2>8. CASE OverLimit
    <3>1. Respond(400) /\ UNCHANGED <<hand, out, answers>>
      BY <1>12, <2>1, <2>8 DEF HttpParse
    <3> QED
      BY <1>9, <2>5, <2>7, <3>1 DEF Respond
  <2>9. CASE ~ OverLimit
    <3> DEFINE args == r.args
    <3>0. count + 1 <= MaxPipeline
      BY <1>5, <2>9 DEF OverLimit
    <3>1. /\ UNCHANGED <<answers, status>>
          /\ IF args = <<>>
               THEN out' = Append(out, Answer(0, "emptyCommand")) /\ UNCHANGED <<pc, hand>>
             ELSE IF ~ is_command_allowed(args)
               THEN out' = Append(out, Answer(Name(args), "forbidden")) /\ UNCHANGED <<pc, hand>>
               ELSE /\ pc' = "execute" /\ hand' = Answer(Name(args), "none")
                    /\ UNCHANGED out
      BY <1>12, <2>1, <2>9 DEF HttpParse
    <3>7. r = ParseCommand(Buffer) /\ r.status = "command" /\ args = r.args
      BY <1>12
    <3>6. answers' \in Seq(Replies) /\ status' \in {0, 200, 400} /\ status' = 0
      BY <1>5, <1>6, <3>1
    <3> HIDE DEF r, n, args
    <3>2. ASSUME NEW i, NEW res, i = 0 \/ (args # <<>> /\ i = Name(args)), res \in Results,
                 out' = Append(out, Answer(i, res)), UNCHANGED <<pc, hand>>
          PROVE  IInv'
      <4> DEFINE x == Answer(i, res)
      <4>1. i \in Ids \cup {0} /\ (i = 0 \/ Upto < i) /\ i <= Upto'
        <5>1. CASE i = 0
          BY <1>8, <5>1
        <5>2. CASE i # 0
          <6>1. args # <<>> /\ i = Name(args)
            BY <3>2, <5>2
          <6> QED
            BY <2>2, <2>6, <3>7, <6>1
        <5> QED
          BY <5>1, <5>2
      <4>2. x \in Replies /\ x.id = i
        BY <3>2, <4>1, AnswerIs
      <4> HIDE DEF x
      <4>3. out' = Append(out, x) /\ pc' = "parse" /\ hand' = hand
        BY <1>3, <3>2 DEF x
      <4>4. HandInv' /\ GoesOn
        BY <1>3, <2>5, <4>3, WaitStep
      <4>5. Len(out') = Len(out) + 1
        BY <1>5, <4>2, <4>3, AppendIs
      <4>6. PipelineInv'
        <5>1. /\ Len(out') + 0 <= count' /\ Len(executed') + 0 <= count' /\ count' <= MaxPipeline
          BY <1>3, <1>5, <1>7, <2>3, <3>0, <4>5
        <5> QED
          BY <3>6, <4>3, <5>1 DEF PipelineInv, Open
      <4>7. \E y \in Replies : /\ out' = Append(out, y) /\ pc' = "parse"
                               /\ y.id = 0 \/ Upto < y.id
                               /\ y.id <= Upto'
        BY <4>1, <4>2, <4>3
      <4> QED
        BY <1>3, <2>5, <2>7, <3>6, <4>4, <4>6, <4>7, HttpKeeps
    <3>3. CASE args = <<>>
      <4>1. out' = Append(out, Answer(0, "emptyCommand")) /\ UNCHANGED <<pc, hand>>
        BY <3>1, <3>3
      <4>2. "emptyCommand" \in Results
        BY DEF Results
      <4> QED
        BY <3>2, <4>1, <4>2
    <3>4. CASE args # <<>> /\ ~ is_command_allowed(args)
      <4>1. out' = Append(out, Answer(Name(args), "forbidden")) /\ UNCHANGED <<pc, hand>>
        BY <3>1, <3>4
      <4>2. "forbidden" \in Results
        BY DEF Results
      <4> QED
        BY <3>2, <3>4, <4>1, <4>2
    <3>5. CASE args # <<>> /\ is_command_allowed(args)
      <4> DEFINE i == Name(args)
      <4>1. pc' = "execute" /\ hand' = Answer(i, "none") /\ out' = out
        BY <3>1, <3>5
      <4>2. i # 0 /\ script[i] \in {"allowed", "denied"}
        BY <2>2, <3>5, <3>7
      <4>3. Executable(i)
        <5>1. script[i] # "denied"
          BY <3>5 DEF is_command_allowed
        <5> QED
          BY <4>2, <5>1 DEF Executable
      <4>4. r.args # <<>> /\ i = Name(r.args)
        BY <3>5, <3>7
      <4> HIDE DEF i
      <4>5. HandInv' /\ GoesOn
        BY <1>3, <2>3, <3>7, <4>1, <4>2, <4>3, <4>4, TakeStep
      <4>6. PipelineInv'
        <5>1. /\ Len(out') + 1 <= count' /\ Len(executed') + 1 <= count' /\ count' <= MaxPipeline
          BY <1>3, <1>5, <1>7, <2>3, <3>0, <4>1
        <5> QED
          BY <3>6, <4>1, <5>1 DEF PipelineInv, Open
      <4> QED
        BY <1>3, <2>5, <2>7, <3>6, <4>1, <4>5, <4>6, HttpKeeps
    <3> QED
      BY <3>3, <3>4, <3>5
  <2> QED
    BY <2>8, <2>9
<1> QED
  BY <1>10, <1>11, <1>12

----------------------------------------------------------------------------
(* Executing and answering                                                 *)

LEMMA RisingNext ==
    ASSUME NEW S, NEW s \in Seq(S), NEW x \in S, Rising(s),
           \A k \in 1 .. Len(s) : s[k] < x, NEW w, w = Append(s, x)
    PROVE  Rising(w)
<1>1. /\ Len(s) \in Nat /\ DOMAIN w = 1 .. Len(s) + 1 /\ DOMAIN s = 1 .. Len(s)
      /\ \A k \in 1 .. Len(s) : w[k] = s[k]
      /\ w[Len(s) + 1] = x
      /\ \A k \in 1 .. Len(s) + 1 : k \in 1 .. Len(s) \/ k = Len(s) + 1
  BY AppendIs
<1>2. ASSUME NEW j \in 1 .. Len(s) + 1, NEW k \in 1 .. Len(s) + 1, j < k
      PROVE  w[j] < w[k]
  <2>1. j \in 1 .. Len(s)
    BY <1>1, <1>2
  <2>2. CASE k \in 1 .. Len(s)
    BY <1>1, <1>2, <2>1, <2>2 DEF Rising
  <2>3. CASE k = Len(s) + 1
    BY <1>1, <2>1, <2>3
  <2> QED
    BY <1>1, <2>2, <2>3
<1> QED
  BY <1>1, <1>2 DEF Rising

(* The answer of the command in the hand, which was executed or was not.   *)
LEMMA AnsweredStep ==
    ASSUME IInv, pc = "execute", NEW res \in Results, Answered(res),
           UNCHANGED <<input, buffer, count, writer, answers, status, peer, pushes, lost, badCut>>,
           faults' \in 0 .. MaxFaults,
           executed' = executed \/ executed' = Append(executed, hand.id)
    PROVE  IInv'
<1>1. /\ StreamInv /\ Types /\ HandInv /\ ExecInv /\ OrderInv /\ CoverInv /\ PipelineInv
      /\ out \in Seq(Replies) /\ answers \in Seq(Replies) /\ executed \in Seq(Ids)
  BY DEF IInv, Types, ExecInv
<1>2. /\ start' = start /\ received' = received /\ kind' = kind /\ script' = script
      /\ stream' = stream /\ answers' = answers /\ count' = count /\ status' = status
      /\ writer' = writer
  BY DEF input, buffer
<1>3. StreamInv'
  BY <1>1, <1>2 DEF StreamInv
<1>4. Ids' = Ids /\ Replies' = Replies /\ Upto' = Upto
  BY <1>2, SameIds DEF Upto, UptoAt
<1> DEFINE i == hand.id
           x == Answer(i, res)
           u == Upto
<1>5. /\ i \in Ids /\ i \in Nat /\ i # 0 /\ i <= u /\ Executable(i)
  <2>1. i # 0 /\ i <= u /\ Executable(i)
    BY <1>1 DEF HandInv
  <2>2. i \in Nat /\ i \in Ids \cup {0}
    BY <1>1, HandIs
  <2> QED
    BY <2>1, <2>2
<1>6. x \in Replies /\ x.id = i /\ x.res = res /\ x \in Hands
  BY <1>5, AnswerIs
<1>7. /\ kind = "http" => out' = Append(out, x) /\ pc' = "parse" /\ hand' = Nothing
      /\ kind # "http" => out' = out /\ pc' = "reply" /\ hand' = x
  BY DEF Answered
<1>8. Nothing.id = 0 /\ Nothing \in Hands
  BY AnswerIs
<1>9. u \in Nat
  <2>1. Len(stream) \in Nat /\ start \in Nat /\ start <= Len(stream)
    BY <1>1, StreamFacts
  <2> QED
    BY <1>1, <2>1, UptoGrows DEF Upto
<1>10. \A r \in Replies : r.id \in Nat
  BY <1>1, IdsAre
<1>11. RisingIds(out) /\ Before(out, u, i)
  BY <1>1 DEF OrderInv, Pending
<1>12. kind # "http" => RisingIds(answers) /\ Before(answers, u, i) /\ Follows(answers, out)
  BY <1>1 DEF OrderInv, Pending
<1>13. /\ Rising(executed)
       /\ \A k \in 1 .. Len(executed) :
             Executable(executed[k]) /\ executed[k] <= u /\ executed[k] < i
  BY <1>1 DEF ExecInv
<1>22. (kind = "http" => Pending' = 0) /\ (kind # "http" => Pending' = hand'.id)
  BY <1>7 DEF Pending
<1>23. Upto' = u
  BY <1>4
<1> HIDE DEF i, x, u
<1>14. out' \in Seq(Replies)
  BY <1>1, <1>6, <1>7, AppendIs
<1>15. Types'
  <2>1. kind = "raw" => out' = <<>>
    BY <1>1, <1>7 DEF Types
  <2>2. kind = "compat" => Len(out') <= OutCap
    BY <1>1, <1>7 DEF Types
  <2> QED
    BY <1>1, <1>2, <1>4, <1>14, <2>1, <2>2 DEF Types
<1>16. HandInv'
  <2>1. hand' \in Hands /\ hand'.id <= u
    BY <1>5, <1>6, <1>7, <1>8, <1>9
  <2>2. hand' \in [id : Ids' \cup {0}, res : Results \cup {"none"}]
    BY <1>4, <2>1 DEF Hands
  <2> QED
    BY <1>2, <1>6, <1>7, <1>8, <1>23, <2>1, <2>2 DEF HandInv
<1>17. ExecInv'
  <2>0. pc' # "execute"
    BY <1>7
  <2>1. ASSUME NEW k \in 1 .. Len(executed')
        PROVE  Executable(executed'[k]) /\ executed'[k] <= u
    <3>1. CASE executed' = executed
      BY <1>13, <3>1
    <3>2. CASE executed' = Append(executed, i)
      <4>1. /\ Len(executed') = Len(executed) + 1
            /\ \A j \in 1 .. Len(executed) : executed'[j] = executed[j]
            /\ executed'[Len(executed) + 1] = i
            /\ \A j \in 1 .. Len(executed) + 1 : j \in 1 .. Len(executed) \/ j = Len(executed) + 1
        BY <1>1, <1>5, <3>2, AppendIs
      <4>2. CASE k \in 1 .. Len(executed)
        BY <1>13, <4>1, <4>2
      <4>3. CASE k = Len(executed) + 1
        BY <1>5, <4>1, <4>3
      <4> QED
        BY <4>1, <4>2, <4>3
    <3> QED
      BY <3>1, <3>2 DEF i
  <2>2. executed' \in Seq(Ids) /\ Rising(executed')
    <3>1. CASE executed' = executed
      BY <1>1, <1>13, <3>1
    <3>2. CASE executed' = Append(executed, i)
      <4>1. executed' \in Seq(Ids)
        BY <1>1, <1>5, <3>2, AppendIs
      <4>2. Rising(executed')
        BY <1>1, <1>5, <1>13, <3>2, RisingNext
      <4> QED
        BY <4>1, <4>2
    <3> QED
      BY <3>1, <3>2 DEF i
  <2>3. \A k \in 1 .. Len(executed') : Executable(executed[k])' /\ executed'[k] <= Upto'
    BY <1>2, <1>23, <2>1 DEF Executable
  <2> QED
    BY <1>4, <2>0, <2>2, <2>3 DEF ExecInv
<1>18. CASE kind = "http"
  <2>1. out' = Append(out, x) /\ pc' = "parse" /\ hand' = Nothing
    BY <1>7, <1>18
  <2> DEFINE w == out'
  <2>2. w = Append(out, x)
    BY <2>1
  <2> HIDE DEF w
  <2>3. \A k \in 1 .. Len(out) : out[k].id < x.id
    BY <1>5, <1>6, <1>11 DEF Before
  <2>4. RisingIds(w)
    BY <1>1, <1>6, <1>10, <1>11, <2>2, <2>3, RisingAppend
  <2>5. Before(w, u, 0)
    <3>1. Before(out, u, 0)
      BY <1>11 DEF Before
    <3>2. x.id <= u
      BY <1>5, <1>6
    <3> QED
      BY <1>1, <1>6, <2>2, <3>1, <3>2, BeforeAppend
  <2>6. IdsOf(out) \subseteq IdsOf(w)
    BY <1>1, <1>6, <2>2, IdsAppend
  <2>7. i \in IdsOf(w)
    <3>1. x.id # 0 => x.id \in IdsOf(w)
      BY <1>1, <1>6, <2>2, IdsAppend
    <3> QED
      BY <1>5, <1>6, <3>1
  <2>8. OrderInv'
    BY <1>2, <1>18, <1>22, <1>23, <2>4, <2>5 DEF OrderInv, w
  <2>9. CoverInv'
    <3>1. ASSUME writer = "running", NEW k \in 1 .. Len(executed) PROVE executed[k] \in IdsOf(w)
      <4>1. executed[k] \in DeliveredIds \cup {i}
        BY <1>1, <3>1 DEF CoverInv, i
      <4> QED
        BY <1>18, <2>6, <2>7, <4>1 DEF DeliveredIds
    <3>2. ASSUME writer = "running", NEW k \in 1 .. Len(executed') PROVE executed'[k] \in IdsOf(w)
      <4>1. CASE executed' = executed
        BY <3>1, <3>2, <4>1
      <4>2. CASE executed' = Append(executed, i)
        <5>1. /\ Len(executed') = Len(executed) + 1
              /\ \A j \in 1 .. Len(executed) : executed'[j] = executed[j]
              /\ executed'[Len(executed) + 1] = i
              /\ \A j \in 1 .. Len(executed) + 1 : j \in 1 .. Len(executed) \/ j = Len(executed) + 1
          BY <1>1, <1>5, <4>2, AppendIs
        <5>2. CASE k \in 1 .. Len(executed)
          BY <3>1, <3>2, <5>1, <5>2
        <5>3. CASE k = Len(executed) + 1
          BY <2>7, <5>1, <5>3
        <5> QED
          BY <5>1, <5>2, <5>3
      <4> QED
        BY <4>1, <4>2 DEF i
    <3> QED
      BY <1>2, <3>2 DEF CoverInv, DeliveredIds, w
  <2>10. PipelineInv'
    <3>1. /\ status = 0 /\ count <= MaxPipeline /\ Len(out) + 1 <= count
          /\ Len(executed) + 1 <= count
      BY <1>1, <1>18 DEF PipelineInv, Open
    <3>2. Len(out') = Len(out) + 1
      BY <1>1, <1>6, <2>1, AppendIs
    <3>3. Len(executed') = Len(executed) \/ Len(executed') = Len(executed) + 1
      BY <1>1, <1>5, AppendIs DEF i
    <3>4. Len(executed) \in Nat /\ count \in Nat
      BY <1>1 DEF Types
    <3>5. Len(executed) <= count /\ Len(executed) + 0 = Len(executed)
      BY <3>1, <3>4
    <3>6. Len(executed') + 0 <= count /\ Len(out') + 0 <= count
      BY <1>1, <3>1, <3>2, <3>3, <3>4, <3>5
    <3> QED
      BY <1>2, <2>1, <3>1, <3>6 DEF PipelineInv, Open
  <2> QED
    BY <1>3, <1>15, <1>16, <1>17, <2>8, <2>9, <2>10 DEF IInv
<1>19. CASE kind # "http"
  <2>1. out' = out /\ pc' = "reply" /\ hand' = x /\ Pending' = i
    BY <1>6, <1>7, <1>19, <1>22
  <2>2. OrderInv'
    BY <1>2, <1>11, <1>12, <1>19, <1>23, <2>1 DEF OrderInv
  <2>3. CoverInv'
    <3>1. ASSUME writer = "running", NEW k \in 1 .. Len(executed')
          PROVE  executed'[k] \in DeliveredIds \cup {i}
      <4>1. CASE executed' = executed
        BY <1>1, <3>1, <4>1 DEF CoverInv, i
      <4>2. CASE executed' = Append(executed, i)
        <5>1. /\ Len(executed') = Len(executed) + 1
              /\ \A j \in 1 .. Len(executed) : executed'[j] = executed[j]
              /\ executed'[Len(executed) + 1] = i
              /\ \A j \in 1 .. Len(executed) + 1 : j \in 1 .. Len(executed) \/ j = Len(executed) + 1
          BY <1>1, <1>5, <4>2, AppendIs
        <5>2. CASE k \in 1 .. Len(executed)
          BY <1>1, <3>1, <5>1, <5>2 DEF CoverInv, i
        <5>3. CASE k = Len(executed) + 1
          BY <5>1, <5>3
        <5> QED
          BY <5>1, <5>2, <5>3
      <4> QED
        BY <4>1, <4>2 DEF i
    <3>2. DeliveredIds' = DeliveredIds
      BY <1>2, <2>1 DEF DeliveredIds
    <3> QED
      BY <1>2, <1>6, <2>1, <3>1, <3>2 DEF CoverInv
  <2>4. PipelineInv'
    BY <1>2, <1>19 DEF PipelineInv
  <2> QED
    BY <1>3, <1>15, <1>16, <1>17, <2>2, <2>3, <2>4 DEF IInv
<1> QED
  BY <1>18, <1>19

LEMMA ExecuteStep ==
    ASSUME IInv, Execute PROVE IInv'
<1>1. "result" \in Results
  BY DEF Results
<1>2. faults' \in 0 .. MaxFaults
  BY DEF IInv, Types, Execute
<1>3. /\ pc = "execute" /\ Answered("result") /\ executed' = Append(executed, hand.id)
      /\ UNCHANGED <<input, buffer, count, writer, answers, status, peer, pushes, lost, badCut>>
  BY DEF Execute
<1> QED
  BY <1>1, <1>2, <1>3, AnsweredStep

LEMMA ExecuteFailsStep ==
    ASSUME IInv, ExecuteFails PROVE IInv'
<1>1. "error" \in Results
  BY DEF Results
<1>2. faults' \in 0 .. MaxFaults
  BY BoundsAssumption DEF IInv, Types, ExecuteFails
<1>3. /\ pc = "execute" /\ Answered("error") /\ executed' = executed
      /\ UNCHANGED <<input, buffer, count, writer, answers, status, peer, pushes, lost, badCut>>
  BY DEF ExecuteFails, history
<1> QED
  BY <1>1, <1>2, <1>3, AnsweredStep

(* A step that moves replies, and takes nothing out of the buffer.         *)
LEMMA ReplyKeeps ==
    ASSUME IInv, kind # "http",
           UNCHANGED <<input, buffer, count, status, faults, peer, history>>,
           HandInv', OrderInv', CoverInv', GoesOn,
           out' \in Seq(Replies), answers' \in Seq(Replies),
           kind = "raw" => out' = <<>>, kind = "compat" => Len(out') <= OutCap,
           writer' \in {"running", "ended"}, pushes' \in 0 .. MaxPushes
    PROVE  IInv'
<1>1. StreamInv /\ Types
  BY DEF IInv
<1>2. /\ start' = start /\ received' = received /\ kind' = kind /\ script' = script
      /\ stream' = stream /\ executed' = executed /\ lost' = lost /\ badCut' = badCut
  BY DEF input, buffer, history
<1>3. StreamInv'
  BY <1>1, <1>2 DEF StreamInv
<1>4. Ids' = Ids /\ Replies' = Replies /\ Upto' = Upto
  BY <1>2, SameIds DEF Upto, UptoAt
<1>5. Types'
  BY <1>1, <1>2, <1>4 DEF Types
<1>6. hand'.id \in Nat
  <2>1. hand' \in [id : Ids \cup {0}, res : Results \cup {"none"}]
    BY <1>4 DEF HandInv
  <2>2. hand'.id \in Ids \cup {0}
    BY <2>1
  <2> QED
    BY <1>1, <2>2, IdsAre
<1>7. start' \in start .. Len(stream)
  <2>1. Len(stream) \in Nat /\ start \in Nat /\ start <= Len(stream)
    BY <1>1, StreamFacts
  <2> QED
    BY <1>2, <2>1
<1>8. ExecInv'
  BY <1>2, <1>6, <1>7, ExecStays
<1>9. PipelineInv'
  BY <1>2 DEF PipelineInv
<1> QED
  BY <1>3, <1>5, <1>8, <1>9 DEF IInv

(* Facts about the handler that is about to reply, and the empty hand.     *)
LEMMA ReplyFacts ==
    ASSUME IInv, pc = "reply"
    PROVE  /\ hand \in Replies /\ hand.id \in Nat /\ hand.id <= Upto /\ Upto \in Nat
           /\ kind # "http"
<1>1. StreamInv /\ HandInv
  BY DEF IInv
<1>2. hand \in Hands /\ hand.id \in Nat
  BY <1>1, HandIs
<1>3. hand.res \in Results /\ kind # "http" /\ hand.id <= Upto
  BY <1>1 DEF HandInv
<1>4. hand \in Replies
  BY <1>2, <1>3 DEF Hands, Replies
<1>5. Upto \in Nat
  <2>1. Len(stream) \in Nat /\ start \in Nat /\ start <= Len(stream)
    BY <1>1, StreamFacts
  <2> QED
    BY <1>1, <2>1, UptoGrows DEF Upto
<1> QED
  BY <1>2, <1>3, <1>4, <1>5

LEMMA EmptyHand ==
    ASSUME IInv, UNCHANGED <<input, start>>, hand' = Nothing,
           pc' \in {"recv", "parse", "done"}
    PROVE  HandInv' /\ GoesOn /\ Pending' = 0 /\ hand'.id = 0
<1>1. StreamInv
  BY DEF IInv
<1>2. Ids' = Ids /\ Upto' = Upto
  BY SameIds DEF Upto, UptoAt, input
<1>3. Upto \in Nat
  <2>1. Len(stream) \in Nat /\ start \in Nat /\ start <= Len(stream)
    BY <1>1, StreamFacts
  <2> QED
    BY <1>1, <2>1, UptoGrows DEF Upto
<1>4. hand' \in Hands /\ hand'.id = 0
  BY AnswerIs
<1>5. hand' \in [id : Ids' \cup {0}, res : Results \cup {"none"}]
  BY <1>2, <1>4 DEF Hands
<1>6. HandInv'
  BY <1>2, <1>3, <1>4, <1>5 DEF HandInv
<1> QED
  BY <1>4, <1>6 DEF GoesOn, Pending

LEMMA RawReplyStep ==
    ASSUME IInv, RawReply PROVE IInv'
<1>1. /\ StreamInv /\ Types /\ HandInv /\ OrderInv /\ CoverInv
      /\ out \in Seq(Replies) /\ answers \in Seq(Replies)
  BY DEF IInv, Types
<1>2. /\ UNCHANGED <<input, buffer, count, status, faults, peer, history>>
      /\ UNCHANGED <<out, writer, pushes>> /\ pc = "reply" /\ kind = "raw" /\ kind # "http"
      /\ start' = start /\ kind' = kind /\ executed' = executed
  BY DEF RawReply, buffer, input, history
<1>3. out = <<>> /\ writer' \in {"running", "ended"} /\ pushes' \in 0 .. MaxPushes
  BY <1>1, <1>2 DEF Types
<1>4. start' \in start .. Len(stream)
  <2>1. Len(stream) \in Nat /\ start \in Nat /\ start <= Len(stream)
    BY <1>1, StreamFacts
  <2> QED
    BY <1>2, <2>1
<1>5. CASE peer = "closed"
  <2>1. pc' = "done" /\ UNCHANGED <<answers, hand>>
    BY <1>5 DEF RawReply
  <2>2. GoesOn
    BY <2>1 DEF GoesOn
  <2>3. HandInv'
    <3>1. Upto' = Upto /\ Ids' = Ids
      BY <1>2, SameIds DEF Upto, UptoAt, input
    <3> QED
      BY <1>1, <2>1, <3>1 DEF HandInv
  <2>4. hand'.id \in Nat
    BY <1>1, <2>1, HandIs
  <2>5. OrderInv'
    BY <1>2, <1>4, <2>1, <2>2, <2>4, OrderStays
  <2>6. CoverInv'
    BY <2>1 DEF CoverInv
  <2> QED
    BY <1>1, <1>2, <1>3, <2>1, <2>2, <2>3, <2>5, <2>6, ReplyKeeps
<1>6. CASE peer # "closed"
  <2> DEFINE w == answers'
             i == hand.id
             u == Upto
  <2>1. w = (IF i = 0 THEN answers ELSE Append(answers, hand)) /\ pc' = AfterReply /\ hand' = Nothing
    BY <1>6 DEF RawReply, Seen
  <2>2. pc' \in {"recv", "parse"}
    BY <2>1 DEF AfterReply
  <2>3. HandInv' /\ GoesOn /\ Pending' = 0 /\ hand'.id = 0
    BY <1>2, <2>1, <2>2, EmptyHand
  <2>4. hand \in Replies /\ i \in Nat /\ i <= u /\ u \in Nat
    BY <1>2, ReplyFacts
  <2>5. RisingIds(answers) /\ Before(answers, u, i)
    BY <1>1, <1>2 DEF OrderInv, Pending
  <2>6. \A r \in Replies : r.id \in Nat
    BY <1>1, IdsAre
  <2>7. Upto' = u
    BY <1>2 DEF Upto, UptoAt, input
  <2> HIDE DEF w, i, u
  <2>8. w \in Seq(Replies)
    <3>1. Append(answers, hand) \in Seq(Replies)
      BY <1>1, <2>4, AppendIs
    <3> QED
      BY <1>1, <2>1, <3>1
  <2>9. Before(answers, u, 0)
    BY <2>5 DEF Before
  <2>10. RisingIds(w) /\ Before(w, u, 0) /\ (\A k \in IdsOf(answers) \cup {i} : k # 0 => k \in IdsOf(w))
    <3>1. CASE i = 0
      BY <2>1, <2>5, <2>9, <3>1
    <3>2. CASE i # 0
      <4>1. w = Append(answers, hand) /\ hand.id = i
        BY <2>1, <3>2 DEF i
      <4>2. \A k \in 1 .. Len(answers) : answers[k].id < hand.id
        BY <2>5, <3>2, <4>1 DEF Before
      <4>3. RisingIds(w)
        BY <1>1, <2>4, <2>5, <2>6, <4>1, <4>2, RisingAppend
      <4>4. Before(w, u, 0)
        BY <1>1, <2>4, <2>9, <4>1, BeforeAppend
      <4>5. IdsOf(answers) \subseteq IdsOf(w)
        BY <1>1, <2>4, <4>1, IdsAppend
      <4>6. hand.id # 0 => hand.id \in IdsOf(w)
        BY <1>1, <2>4, <4>1, IdsAppend
      <4> QED
        BY <3>2, <4>1, <4>3, <4>4, <4>5, <4>6
    <3> QED
      BY <3>1, <3>2
  <2>11. RisingIds(<<>>) /\ Before(<<>>, u, 0) /\ Follows(w, <<>>) /\ IdsOf(<<>>) = {}
    BY DEF RisingIds, Before, Follows, IdsOf
  <2>12. OrderInv'
    BY <1>2, <1>3, <2>3, <2>7, <2>10, <2>11 DEF OrderInv, w
  <2>13. CoverInv'
    <3>1. ASSUME writer = "running", NEW k \in 1 .. Len(executed) PROVE executed[k] \in IdsOf(w)
      <4>1. executed[k] # 0
        BY <1>1, IdsAre DEF IInv, ExecInv
      <4>2. executed[k] \in DeliveredIds \cup {i}
        BY <1>1, <1>2, <3>1 DEF CoverInv, i
      <4>3. executed[k] \in IdsOf(answers) \cup {i}
        BY <1>2, <1>3, <2>11, <4>2 DEF DeliveredIds
      <4> QED
        BY <2>10, <4>1, <4>3
    <3>2. IdsOf(w) \subseteq DeliveredIds'
      BY <1>2 DEF DeliveredIds, w
    <3> QED
      BY <1>2, <3>1, <3>2 DEF CoverInv
  <2>14. answers' \in Seq(Replies) /\ out' \in Seq(Replies) /\ out' = <<>>
    BY <1>1, <1>2, <1>3, <2>8 DEF w
  <2> QED
    BY <1>2, <1>3, <2>3, <2>12, <2>13, <2>14, ReplyKeeps
<1> QED
  BY <1>5, <1>6

(* A reply is put behind the others in the channel of a compat socket.     *)
LEMMA EnqueueStep ==
    ASSUME IInv, kind = "compat", NEW a \in Replies, Enqueue(a), UNCHANGED <<input, start, answers>>,
           Pending' \in {0, Pending},
           a.id = 0 \/ (pc = "reply" /\ a.id = hand.id /\ Pending' = 0), a.id <= Upto
    PROVE  /\ OrderInv' /\ out' \in Seq(Replies) /\ Len(out') <= OutCap
           /\ IdsOf(out) \subseteq IdsOf(out') /\ (a.id # 0 => a.id \in IdsOf(out'))
<1>1. /\ StreamInv /\ OrderInv /\ out \in Seq(Replies) /\ answers \in Seq(Replies)
      /\ HandInv
  BY DEF IInv, Types
<1> DEFINE w == out'
           u == Upto
           h == Pending
           g == Pending'
<1>2. w = Append(out, a) /\ Len(out) < OutCap /\ OutCap \in Nat
  BY BoundsAssumption DEF Enqueue
<1>3. /\ RisingIds(out) /\ Before(out, u, h)
      /\ RisingIds(answers) /\ Before(answers, u, h) /\ Follows(answers, out)
  BY <1>1 DEF OrderInv
<1>4. \A r \in Replies : r.id \in Nat
  BY <1>1, IdsAre
<1>5. a.id # 0 => h = a.id
  BY DEF Pending
<1>6. (g = 0 \/ g = h) /\ (a.id # 0 => g = 0)
  OBVIOUS
<1>7. Upto' = u /\ kind' = "compat" /\ a.id <= u /\ answers' = answers
  BY DEF Upto, UptoAt, input
<1>8. a.id \in Nat
  BY <1>4
<1>16. h \in Nat
  <2>1. hand.id \in Nat
    BY <1>1, HandIs
  <2> QED
    BY <2>1 DEF Pending
<1> HIDE DEF w, u, h, g
<1>9. a.id = 0 \/ \A k \in 1 .. Len(out) : out[k].id < a.id
  BY <1>3, <1>5 DEF Before
<1>10. a.id = 0 \/ \A k \in 1 .. Len(answers) : answers[k].id < a.id
  BY <1>3, <1>5 DEF Before
<1>11. RisingIds(w)
  BY <1>1, <1>2, <1>3, <1>4, <1>9, RisingAppend
<1>12. Follows(answers, w)
  BY <1>1, <1>2, <1>3, <1>4, <1>10, FollowsAppend
<1>13. Before(out, u, g) /\ Before(answers, u, g)
  BY <1>3, <1>6 DEF Before
<1>14. Before(w, u, g)
  <2>1. g # 0 => a.id < g
    BY <1>6, <1>8, <1>16
  <2> QED
    BY <1>1, <1>2, <1>7, <1>13, <2>1, BeforeAppend
<1>15. w \in Seq(Replies) /\ Len(w) = Len(out) + 1
  BY <1>1, <1>2, AppendIs
<1>17. Len(w) <= OutCap
  <2>1. Len(out) \in Nat
    BY <1>1
  <2> QED
    BY <1>2, <1>15, <2>1
<1>18. IdsOf(out) \subseteq IdsOf(w)
  BY <1>1, <1>2, IdsAppend
<1>19. a.id # 0 => a.id \in IdsOf(w)
  BY <1>1, <1>2, IdsAppend
<1>20. OrderInv'
  <2>1. Before(w, Upto', g) /\ Before(answers', Upto', g) /\ Follows(answers', w)
    BY <1>7, <1>12, <1>13, <1>14
  <2>2. RisingIds(answers')
    BY <1>3, <1>7
  <2> QED
    BY <1>11, <2>1, <2>2 DEF OrderInv, w, g
<1> QED
  BY <1>15, <1>17, <1>18, <1>19, <1>20 DEF w

LEMMA CompatReplyStep ==
    ASSUME IInv, CompatReply PROVE IInv'
<1>1. /\ StreamInv /\ Types /\ HandInv /\ OrderInv /\ CoverInv
      /\ out \in Seq(Replies) /\ answers \in Seq(Replies)
  BY DEF IInv, Types
<1>2. /\ UNCHANGED <<input, buffer, count, status, faults, peer, history>>
      /\ UNCHANGED <<answers, writer, pushes>> /\ pc = "reply" /\ kind = "compat"
      /\ kind # "http" /\ kind # "raw" /\ start' = start /\ kind' = kind /\ executed' = executed
      /\ hand' = Nothing
  BY DEF CompatReply, buffer, input, history
<1>3. /\ writer' \in {"running", "ended"} /\ pushes' \in 0 .. MaxPushes /\ answers' \in Seq(Replies)
      /\ Len(out) <= OutCap
  BY <1>1, <1>2 DEF Types
<1>4. start' \in start .. Len(stream)
  <2>1. Len(stream) \in Nat /\ start \in Nat /\ start <= Len(stream)
    BY <1>1, StreamFacts
  <2> QED
    BY <1>2, <2>1
<1>5. pc' \in {"recv", "parse", "done"}
  BY DEF CompatReply, AfterReply
<1>6. HandInv' /\ GoesOn /\ Pending' = 0 /\ hand'.id = 0
  BY <1>2, <1>5, EmptyHand
<1>7. hand \in Replies /\ hand.id \in Nat /\ hand.id <= Upto
  BY <1>2, ReplyFacts
<1>8. CASE writer = "running"
  <2>1. Enqueue(hand)
    BY <1>8 DEF CompatReply
  <2>2. UNCHANGED <<input, start, answers>> /\ Pending' \in {0, Pending}
    BY <1>2, <1>6
  <2>3. hand.id = 0 \/ (pc = "reply" /\ hand.id = hand.id /\ Pending' = 0)
    BY <1>2, <1>6
  <2>4. /\ OrderInv' /\ out' \in Seq(Replies) /\ Len(out') <= OutCap
        /\ IdsOf(out) \subseteq IdsOf(out') /\ (hand.id # 0 => hand.id \in IdsOf(out'))
    BY <1>2, <1>7, <2>1, <2>2, <2>3, EnqueueStep
  <2>5. CoverInv'
    <3>1. ASSUME NEW k \in 1 .. Len(executed) PROVE executed[k] \in DeliveredIds'
      <4>1. executed[k] # 0
        BY <1>1, IdsAre DEF IInv, ExecInv
      <4>2. executed[k] \in DeliveredIds \cup {hand.id}
        BY <1>1, <1>2, <1>8 DEF CoverInv
      <4>3. executed[k] \in IdsOf(out') \cup IdsOf(answers)
        BY <1>2, <2>4, <4>1, <4>2 DEF DeliveredIds
      <4> QED
        BY <1>2, <4>3 DEF DeliveredIds
    <3> QED
      BY <1>2, <3>1 DEF CoverInv
  <2> QED
    BY <1>2, <1>3, <1>6, <2>4, <2>5, ReplyKeeps
<1>9. CASE writer # "running"
  <2>1. out' = out /\ out' \in Seq(Replies) /\ Len(out') <= OutCap
    BY <1>1, <1>3, <1>9 DEF CompatReply
  <2>2. OrderInv'
    BY <1>2, <1>4, <1>6, <2>1, OrderStays
  <2>3. CoverInv'
    BY <1>2, <1>9 DEF CoverInv
  <2> QED
    BY <1>2, <1>3, <1>6, <2>1, <2>2, <2>3, ReplyKeeps
<1> QED
  BY <1>8, <1>9

LEMMA SameHand ==
    ASSUME IInv, UNCHANGED <<input, start, handler>>
    PROVE  HandInv' /\ GoesOn /\ Pending' = Pending /\ Upto' = Upto
<1>1. HandInv
  BY DEF IInv
<1>2. pc' = pc /\ hand' = hand /\ kind' = kind /\ script' = script /\ stream' = stream
  BY DEF handler, input
<1>3. Upto' = Upto /\ Ids' = Ids
  BY <1>2 DEF Upto, UptoAt, Ids
<1>4. Executable(hand.id)' <=> Executable(hand.id)
  BY <1>2 DEF Executable
<1>5. HandInv'
  BY <1>1, <1>2, <1>3, <1>4 DEF HandInv
<1> QED
  BY <1>2, <1>3, <1>5 DEF GoesOn, Pending

LEMMA PushStep ==
    ASSUME IInv, Push PROVE IInv'
<1>1. /\ StreamInv /\ Types /\ CoverInv /\ HandInv
  BY DEF IInv
<1>2. /\ UNCHANGED <<input, buffer, count, status, faults, peer, history>>
      /\ UNCHANGED <<answers, writer, handler>> /\ kind = "compat"
      /\ kind # "http" /\ kind # "raw" /\ start' = start /\ kind' = kind /\ executed' = executed
      /\ pc' = pc /\ hand' = hand /\ Enqueue(Answer(0, "push"))
      /\ pushes < MaxPushes /\ pushes' = pushes + 1
  BY DEF Push, buffer, input, history, handler
<1>3. /\ writer' \in {"running", "ended"} /\ pushes' \in 0 .. MaxPushes /\ answers' \in Seq(Replies)
  <2>1. pushes \in 0 .. MaxPushes /\ MaxPushes \in Nat
    BY <1>1, BoundsAssumption DEF Types
  <2>2. pushes' \in 0 .. MaxPushes
    BY <1>2, <2>1
  <2> QED
    BY <1>1, <1>2, <2>2 DEF Types
<1>4. HandInv' /\ GoesOn /\ Pending' = Pending /\ Upto' = Upto
  BY <1>2, SameHand
<1> DEFINE a == Answer(0, "push")
<1>5. a \in Replies /\ a.id = 0
  BY AnswerIs DEF Results
<1>6. a.id <= Upto
  <2>1. Len(stream) \in Nat /\ start \in Nat /\ start <= Len(stream)
    BY <1>1, StreamFacts
  <2>2. Upto \in Nat
    BY <1>1, <2>1, UptoGrows DEF Upto
  <2> HIDE DEF a
  <2> QED
    BY <1>5, <2>2
<1>7. Enqueue(a)
  BY <1>2
<1> HIDE DEF a
<1>8. /\ OrderInv' /\ out' \in Seq(Replies) /\ Len(out') <= OutCap
      /\ IdsOf(out) \subseteq IdsOf(out')
  BY <1>2, <1>4, <1>5, <1>6, <1>7, EnqueueStep
<1>9. CoverInv'
  <2>1. DeliveredIds \subseteq DeliveredIds'
    BY <1>2, <1>8 DEF DeliveredIds
  <2> QED
    BY <1>1, <1>2, <2>1 DEF CoverInv
<1> QED
  BY <1>2, <1>3, <1>4, <1>8, <1>9, ReplyKeeps

LEMMA WriterSendsStep ==
    ASSUME IInv, WriterSends PROVE IInv'
<1>1. /\ StreamInv /\ Types /\ HandInv /\ OrderInv /\ CoverInv
      /\ out \in Seq(Replies) /\ answers \in Seq(Replies)
  BY DEF IInv, Types
<1>2. /\ UNCHANGED <<input, buffer, count, status, faults, peer, history>>
      /\ UNCHANGED <<handler, pushes>> /\ kind = "compat" /\ out # <<>> /\ writer = "running"
      /\ kind # "http" /\ kind # "raw" /\ start' = start /\ kind' = kind /\ executed' = executed
      /\ pc' = pc /\ hand' = hand
  BY DEF WriterSends, buffer, input, history, handler
<1>3. pushes' \in 0 .. MaxPushes /\ Len(out) <= OutCap /\ OutCap \in Nat
  BY <1>1, <1>2, BoundsAssumption DEF Types
<1>4. HandInv' /\ GoesOn /\ Pending' = Pending /\ Upto' = Upto
  BY <1>2, SameHand
<1> DEFINE u == Upto
           h == Pending
<1>5. /\ RisingIds(out) /\ Before(out, u, h)
      /\ RisingIds(answers) /\ Before(answers, u, h) /\ Follows(answers, out)
  BY <1>1, <1>2 DEF OrderInv
<1>6. \A r \in Replies : r.id \in Nat
  BY <1>1, IdsAre
<1>7. Upto' = u /\ Pending' = h
  BY <1>4
<1> HIDE DEF u, h
<1>8. CASE peer = "closed"
  <2>1. writer' = "ended" /\ out' = <<>> /\ answers' = answers
    BY <1>8 DEF WriterSends
  <2>2. RisingIds(<<>>) /\ Before(<<>>, u, h) /\ Follows(answers, <<>>)
    BY DEF RisingIds, Before, Follows
  <2>3. OrderInv'
    <3>1. RisingIds(out') /\ Before(out', Upto', Pending')
      BY <1>7, <2>1, <2>2
    <3>2. RisingIds(answers') /\ Before(answers', Upto', Pending') /\ Follows(answers', out')
      BY <1>5, <1>7, <2>1, <2>2
    <3> QED
      BY <3>1, <3>2 DEF OrderInv
  <2>4. CoverInv'
    BY <2>1 DEF CoverInv
  <2>5. out' \in Seq(Replies) /\ answers' \in Seq(Replies) /\ Len(out') <= OutCap
    BY <1>1, <1>3, <2>1
  <2> QED
    BY <1>2, <1>3, <1>4, <2>1, <2>3, <2>4, <2>5, ReplyKeeps
<1>9. CASE peer # "closed"
  <2> DEFINE w == out'
             b == answers'
  <2>1. /\ w = Tail(out) /\ writer' = writer
        /\ b = IF Head(out).id = 0 THEN answers ELSE Append(answers, Head(out))
    BY <1>9 DEF WriterSends, WriterGoesOn, Seen
  <2> HIDE DEF w, b
  <2>2. RisingIds(b) /\ RisingIds(w) /\ Follows(b, w)
    <3>1. RisingIds(b)
      BY <1>1, <1>2, <1>5, <1>6, <2>1, FollowsMove
    <3>2. RisingIds(w)
      BY <1>1, <1>2, <1>5, <1>6, <2>1, FollowsMove
    <3>3. Follows(b, w)
      BY <1>1, <1>2, <1>5, <1>6, <2>1, FollowsMove
    <3> QED
      BY <3>1, <3>2, <3>3
  <2>3. Before(b, u, h)
    BY <1>1, <1>2, <1>5, <2>1, BeforeMove
  <2>4. Before(w, u, h)
    BY <1>1, <1>2, <1>5, <2>1, BeforeMove
  <2>5. OrderInv'
    <3>1. RisingIds(out') /\ Before(out', Upto', Pending')
      BY <1>7, <2>2, <2>4 DEF w
    <3>2. RisingIds(answers') /\ Before(answers', Upto', Pending') /\ Follows(answers', out')
      BY <1>7, <2>2, <2>3 DEF w, b
    <3> QED
      BY <3>1, <3>2 DEF OrderInv
  <2>6. CoverInv'
    <3>1. ASSUME NEW k \in DeliveredIds PROVE k \in DeliveredIds'
      <4>1. k \in IdsOf(answers) \cup IdsOf(out)
        BY <1>2, <3>1 DEF DeliveredIds
      <4>2. k \in IdsOf(b) \cup IdsOf(w)
        BY <1>1, <1>2, <2>1, <4>1, IdsMove
      <4> QED
        BY <1>2, <4>2 DEF DeliveredIds, b, w
    <3> QED
      BY <1>1, <1>2, <3>1 DEF CoverInv
  <2>7. w \in Seq(Replies) /\ Len(w) = Len(out) - 1 /\ Head(out) \in Replies
    BY <1>1, <1>2, <2>1, TailIs
  <2>8. b \in Seq(Replies)
    <3>1. Append(answers, Head(out)) \in Seq(Replies)
      BY <1>1, <2>7, AppendIs
    <3> QED
      BY <1>1, <2>1, <3>1
  <2>9. Len(w) <= OutCap
    <3>1. Len(out) \in Nat
      BY <1>1
    <3> QED
      BY <1>3, <2>7, <3>1
  <2>10. out' \in Seq(Replies) /\ answers' \in Seq(Replies) /\ Len(out') <= OutCap
    BY <2>7, <2>8, <2>9 DEF w, b
  <2>11. writer' \in {"running", "ended"}
    BY <1>2, <2>1
  <2> QED
    BY <1>2, <1>3, <1>4, <2>5, <2>6, <2>10, <2>11, ReplyKeeps
<1> QED
  BY <1>8, <1>9

----------------------------------------------------------------------------
(* The theorems                                                            *)

LEMMA InitHolds ==
    ASSUME Init PROVE IInv
<1>1. /\ script \in Seq(Shapes) /\ Len(script) \in 1 .. MaxCommands
  <2>1. PICK n \in 1 .. MaxCommands : script \in [1 .. n -> Shapes]
    BY DEF Init
  <2>2. n \in Nat
    BY BoundsAssumption
  <2> QED
    BY <2>1, <2>2
<1>2. stream = StreamOf(script) /\ start = 0 /\ received = 0
  BY DEF Init
<1>3. Len(stream) \in Nat
  <2>1. stream \in Seq(Tokens)
    BY <1>1, <1>2, StreamMade DEF Made
  <2> QED
    BY <2>1
<1>4. StreamInv
  BY <1>1, <1>2, <1>3 DEF StreamInv
<1>5. Upto = 0
  BY <1>2 DEF Upto, UptoAt
<1>6. hand \in Hands /\ hand.id = 0 /\ pc = "recv"
  BY AnswerIs DEF Init
<1>7. Len(<<>>) = 0 /\ <<>> \in Seq(Replies) /\ <<>> \in Seq(Ids) /\ DOMAIN <<>> = {} /\ 1 .. 0 = {}
  OBVIOUS
<1>8. Types
  <2>1. MaxFaults \in Nat /\ MaxPushes \in Nat /\ OutCap \in Nat
    BY BoundsAssumption
  <2>2. /\ kind \in Kinds /\ count = 0 /\ out = <<>> /\ answers = <<>> /\ writer = "running"
        /\ status = 0 /\ peer = "open" /\ faults = 0 /\ pushes = 0 /\ lost = {} /\ badCut = FALSE
    BY DEF Init
  <2>3. out \in Seq(Replies) /\ answers \in Seq(Replies)
    BY <1>7, <2>2
  <2>4. Len(out) <= OutCap
    BY <1>7, <2>1, <2>2
  <2>5. faults \in 0 .. MaxFaults /\ pushes \in 0 .. MaxPushes /\ count \in Nat /\ count <= Upto
    BY <1>5, <2>1, <2>2
  <2> QED
    BY <2>2, <2>3, <2>4, <2>5 DEF Types
<1>9. HandInv
  BY <1>5, <1>6 DEF HandInv, Hands
<1>10. ExecInv /\ CoverInv
  BY <1>7 DEF Init, ExecInv, CoverInv, Rising
<1>11. OrderInv
  BY <1>7 DEF Init, OrderInv, RisingIds, Before, Follows
<1>12. PipelineInv
  BY <1>2, <1>7, BoundsAssumption DEF Init, PipelineInv, Open
<1> QED
  BY <1>4, <1>8, <1>9, <1>10, <1>11, <1>12 DEF IInv

LEMMA Stutter ==
    ASSUME IInv, UNCHANGED vars PROVE IInv'
<1>1. UNCHANGED <<input, start, count, out, writer, answers, executed, lost>>
  BY DEF vars, input, buffer, handler, output, history
<1>2. /\ UNCHANGED <<received, pc, hand, status, peer, faults, pushes, badCut, handler>>
  BY DEF vars, buffer, handler, output, history
<1>3. HandInv' /\ GoesOn
  BY <1>1, <1>2, SameHand
<1>4. PipelineInv'
  BY <1>1, <1>2 DEF IInv, PipelineInv, Open, input
<1>5. received' \in received .. Len(stream)
  <2>1. Len(stream) \in Nat /\ received \in Nat /\ received <= Len(stream)
    BY StreamFacts DEF IInv
  <2> QED
    BY <1>2, <2>1
<1>6. /\ status' \in {0, 200, 400} /\ peer' \in {"open", "closed"} /\ badCut' \in BOOLEAN
      /\ faults' \in 0 .. MaxFaults /\ pushes' \in 0 .. MaxPushes
  BY <1>2 DEF IInv, Types
<1> QED
  BY <1>1, <1>2, <1>3, <1>4, <1>5, <1>6, Idle

(* The invariant holds of every connection: whatever the client sends,     *)
(* however it is cut, for every limit and capacity.                        *)
THEOREM Inductive == Spec => []IInv
<1>1. Init => IInv
  BY InitHolds
<1>2. IInv /\ [Next]_vars => IInv'
  <2> SUFFICES ASSUME IInv, [Next]_vars PROVE IInv'
    OBVIOUS
  <2>1. CASE \E n \in received + 1 .. Len(stream) : ReceiveMessage(n)
    BY <2>1, ReceiveMessageStep
  <2>2. CASE \E n \in 0 .. Len(stream) : ReceiveBody(n)
    BY <2>2, ReceiveBodyStep
  <2>3. CASE ReceivePing
    BY <2>3, ReceivePingStep
  <2>4. CASE ReceiveClose \/ Cancel
    BY <2>4, DoneStep
  <2>5. CASE RawParse
    BY <2>5, RawParseStep
  <2>6. CASE CompatParse
    BY <2>6, CompatParseStep
  <2>7. CASE HttpParse
    BY <2>7, HttpParseStep
  <2>8. CASE Execute
    BY <2>8, ExecuteStep
  <2>9. CASE ExecuteFails
    BY <2>9, ExecuteFailsStep
  <2>10. CASE RawReply
    BY <2>10, RawReplyStep
  <2>11. CASE CompatReply
    BY <2>11, CompatReplyStep
  <2>12. CASE WriterSends
    BY <2>12, WriterSendsStep
  <2>13. CASE Push
    BY <2>13, PushStep
  <2>14. CASE PeerCloses
    BY <2>14, PeerClosesStep
  <2>15. CASE UNCHANGED vars
    BY <2>15, Stutter
  <2> QED
    BY <2>1, <2>2, <2>3, <2>4, <2>5, <2>6, <2>7, <2>8, <2>9, <2>10, <2>11, <2>12,
       <2>13, <2>14, <2>15 DEF Next
<1> QED
  BY <1>1, <1>2, PTL DEF Spec

(* The variables stay in their domains: the handler's place in the stream  *)
(* is one, what it holds and has sent are of commands of the client, and   *)
(* the channel of handle_ws does not hold more than its capacity.          *)
THEOREM TypeCorrect == Spec => []TypeOK
<1>1. ASSUME IInv PROVE TypeOK
  <2>1. /\ StreamInv /\ Types /\ HandInv /\ ExecInv
    BY <1>1 DEF IInv
  <2>2. count \in 0 .. MaxCommands
    <3>1. Len(stream) \in Nat /\ start \in Nat /\ start <= Len(stream) /\ Len(script) \in Nat
      BY <2>1, StreamFacts
    <3>2. Upto \in Nat /\ Upto <= Len(script)
      BY <2>1, <3>1, UptoGrows DEF Upto
    <3>3. count \in Nat /\ count <= Upto
      BY <2>1 DEF Types
    <3>4. Len(script) \in 1 .. MaxCommands /\ MaxCommands \in Nat
      BY <2>1, BoundsAssumption DEF StreamInv
    <3> QED
      BY <3>1, <3>2, <3>3, <3>4
  <2>3. /\ out \in Seq([id : Ids \cup {0}, res : Results])
        /\ answers \in Seq([id : Ids \cup {0}, res : Results])
    BY <2>1 DEF Types, Replies
  <2>4. /\ kind \in Kinds /\ (kind = "compat" => Len(out) <= OutCap)
        /\ writer \in {"running", "ended"} /\ status \in {0, 200, 400}
        /\ peer \in {"open", "closed"}
        /\ faults \in 0 .. MaxFaults /\ pushes \in 0 .. MaxPushes
        /\ lost \in SUBSET Ids /\ badCut \in BOOLEAN
    BY <2>1 DEF Types
  <2>5. /\ script \in Seq(Shapes) /\ Len(script) \in 1 .. MaxCommands
        /\ start \in 0 .. received /\ received \in 0 .. Len(stream)
    BY <2>1 DEF StreamInv
  <2>6. /\ pc \in {"recv", "parse", "execute", "reply", "done"}
        /\ hand \in [id : Ids \cup {0}, res : Results \cup {"none"}]
        /\ executed \in Seq(Ids)
    BY <2>1 DEF HandInv, ExecInv
  <2> QED
    BY <2>2, <2>3, <2>4, <2>5, <2>6 DEF TypeOK
<1> QED
  BY <1>1, Inductive, PTL

(* Redis is given commands of the client that are well formed, each at     *)
(* most once and in the order in which they were sent, and behind an ACL   *)
(* none that it refuses, wherever the messages cut the stream.             *)
THEOREM ExecutedHolds == Spec => []ExecutedAsSent
<1>1. ASSUME IInv PROVE ExecutedAsSent
  <2>1. /\ executed \in Seq(Ids) /\ Rising(executed)
        /\ \A k \in 1 .. Len(executed) : Executable(executed[k])
    BY <1>1 DEF IInv, ExecInv
  <2>2. DOMAIN executed = 1 .. Len(executed)
    BY <2>1
  <2>3. \A i \in ToSet(executed) : Executable(i)
    BY <2>1, <2>2 DEF ToSet
  <2> QED
    BY <2>1, <2>3 DEF ExecutedAsSent, Executable
<1> QED
  BY <1>1, Inductive, PTL

(* The answers are in the order of the commands, none of what was executed *)
(* is without one while the handler and its writer run, and a request does *)
(* not execute more than its limit.                                        *)
THEOREM AnswersHold == Spec => []AnswersInOrder
<1>1. ASSUME IInv PROVE AnswersInOrder
  <2>1. /\ StreamInv /\ OrderInv /\ CoverInv /\ PipelineInv
        /\ out \in Seq(Replies) /\ answers \in Seq(Replies) /\ executed \in Seq(Ids)
    BY <1>1 DEF IInv, Types, ExecInv
  <2>2. DOMAIN executed = 1 .. Len(executed)
    BY <2>1
  <2>3. RisingIds(Delivered) /\ DeliveredIds \subseteq IdsOf(Delivered)
    <3>1. CASE kind = "http"
      BY <2>1, <3>1 DEF Delivered, OrderInv, DeliveredIds
    <3>2. CASE kind # "http"
      <4> DEFINE f == Delivered
      <4>1. f = answers \o out
        BY <3>2 DEF Delivered
      <4> HIDE DEF f
      <4>2. /\ Len(f) = Len(answers) + Len(out) /\ f \in Seq(Replies)
            /\ \A k \in 1 .. Len(answers) + Len(out) :
                  f[k] = IF k <= Len(answers) THEN answers[k] ELSE out[k - Len(answers)]
        BY <2>1, <4>1, ConcatProperties
      <4>3. /\ DOMAIN f = 1 .. Len(f) /\ DOMAIN answers = 1 .. Len(answers)
            /\ DOMAIN out = 1 .. Len(out) /\ Len(answers) \in Nat /\ Len(out) \in Nat
        BY <2>1, <4>2
      <4>4. \A k \in 1 .. Len(answers) : k \in 1 .. Len(f) /\ f[k] = answers[k]
        <5>1. \A k \in 1 .. Len(answers) : k \in 1 .. Len(answers) + Len(out) /\ k <= Len(answers)
          BY <4>3
        <5> QED
          BY <4>2, <5>1
      <4>5. \A k \in 1 .. Len(out) :
               Len(answers) + k \in 1 .. Len(f) /\ f[Len(answers) + k] = out[k]
        <5>1. \A k \in 1 .. Len(out) :
                 /\ Len(answers) + k \in 1 .. Len(answers) + Len(out)
                 /\ ~(Len(answers) + k <= Len(answers)) /\ (Len(answers) + k) - Len(answers) = k
          BY <4>3
        <5> QED
          BY <4>2, <5>1
      <4>6. ASSUME NEW k \in 1 .. Len(f)
            PROVE  \/ k \in 1 .. Len(answers) /\ f[k] = answers[k]
                   \/ /\ k - Len(answers) \in 1 .. Len(out) /\ f[k] = out[k - Len(answers)]
                      /\ k > Len(answers)
        <5>1. k \in 1 .. Len(answers) \/ (k > Len(answers) /\ k - Len(answers) \in 1 .. Len(out))
          BY <4>2, <4>3
        <5>2. k \in 1 .. Len(answers) => k <= Len(answers)
          BY <4>3
        <5>3. k > Len(answers) => ~(k <= Len(answers))
          BY <4>3
        <5> QED
          BY <4>2, <5>1, <5>2, <5>3
      <4>7. RisingIds(answers) /\ RisingIds(out) /\ Follows(answers, out)
        BY <2>1, <3>2 DEF OrderInv
      <4>8. ASSUME NEW j \in 1 .. Len(f), NEW k \in 1 .. Len(f), j < k,
                   f[j].id # 0, f[k].id # 0
            PROVE  f[j].id < f[k].id
        <5>1. CASE k \in 1 .. Len(answers)
          <6>1. j \in 1 .. Len(answers)
            BY <4>3, <4>8, <5>1
          <6> QED
            BY <4>3, <4>4, <4>7, <4>8, <5>1, <6>1 DEF RisingIds
        <5>2. CASE ~(k \in 1 .. Len(answers))
          <6> DEFINE m == k - Len(answers)
                     i == j - Len(answers)
          <6>1. m \in 1 .. Len(out) /\ f[k] = out[m]
            BY <4>6, <5>2
          <6>2. CASE j \in 1 .. Len(answers)
            <7>1. f[j] = answers[j]
              BY <4>4, <6>2
            <7> HIDE DEF m
            <7> QED
              BY <4>7, <4>8, <6>1, <6>2, <7>1 DEF Follows
          <6>3. CASE ~(j \in 1 .. Len(answers))
            <7>1. i \in 1 .. Len(out) /\ f[j] = out[i]
              BY <4>6, <6>3
            <7>2. i < m
              BY <4>3, <4>8
            <7> HIDE DEF m, i
            <7> QED
              BY <4>3, <4>7, <4>8, <6>1, <7>1, <7>2 DEF RisingIds
          <6> QED
            BY <6>2, <6>3
        <5> QED
          BY <5>1, <5>2
      <4>9. RisingIds(f)
        BY <4>3, <4>8 DEF RisingIds
      <4>10. IdsOf(answers) \subseteq IdsOf(f)
        BY <4>3, <4>4 DEF IdsOf
      <4>11. IdsOf(out) \subseteq IdsOf(f)
        BY <4>3, <4>5 DEF IdsOf
      <4> QED
        BY <3>2, <4>9, <4>10, <4>11 DEF DeliveredIds, f
    <3> QED
      BY <3>1, <3>2
  <2>4. pc # "done" /\ writer = "running" =>
           ToSet(executed) \subseteq IdsOf(Delivered) \cup {hand.id}
    <3>1. ASSUME pc # "done", writer = "running", NEW i \in ToSet(executed)
          PROVE  i \in IdsOf(Delivered) \cup {hand.id}
      <4>1. PICK k \in 1 .. Len(executed) : i = executed[k]
        BY <2>2, <3>1 DEF ToSet
      <4>2. executed[k] \in DeliveredIds \cup {hand.id}
        BY <2>1, <3>1 DEF CoverInv
      <4> QED
        BY <2>3, <4>1, <4>2
    <3> QED
      BY <3>1
  <2>5. PipelineLimit
    <3>1. ASSUME kind = "http" PROVE Len(executed) <= MaxPipeline
      <4>1. /\ Len(executed) \in Nat /\ count \in Nat /\ MaxPipeline \in Nat /\ Open \in Nat
        BY <1>1, <2>1, BoundsAssumption DEF IInv, Types, Open
      <4>2. \/ Len(executed) <= MaxPipeline
            \/ count <= MaxPipeline /\ Len(executed) + Open <= count
        BY <2>1, <3>1 DEF PipelineInv
      <4> QED
        BY <4>1, <4>2
    <3> QED
      BY <2>1, <3>1 DEF PipelineLimit, PipelineInv
  <2> QED
    BY <2>3, <2>4, <2>5 DEF AnswersInOrder
<1> QED
  BY <1>1, Inductive, PTL

----------------------------------------------------------------------------
(* Where the frames are                                                    *)

(* As much as b holds of a header at p, and of a string at p: `last` comes *)
(* where its CR LF should.                                                 *)
HeadAt(b, p, mark, n) ==
    /\ p <= Len(b) => b[p].t = mark
    /\ p + 1 <= Len(b) => b[p + 1].t = "num" /\ b[p + 1].v = n
    /\ p + 2 <= Len(b) => b[p + 2].t = "crlf"
StringAt(b, p, last) ==
    /\ HeadAt(b, p, "dollar", 1)
    /\ p + 3 <= Len(b) => b[p + 3].t = "data"
    /\ p + 4 <= Len(b) => b[p + 4].t = last

(* As much as b holds of the frame of a command.                           *)
Size(shape) ==
    IF shape = "allowed" THEN 13 ELSE IF shape = "denied" THEN 8
    ELSE IF shape = "empty" THEN 3 ELSE 9
Arity(shape) ==
    IF shape = "allowed" THEN 2 ELSE IF shape = "empty" THEN 0 ELSE 1
Begins(b, shape) ==
    /\ HeadAt(b, 1, "star", Arity(shape))
    /\ shape \in {"allowed", "denied"} => StringAt(b, 4, "crlf")
    /\ shape = "allowed" => StringAt(b, 9, "crlf")
    /\ shape = "overlong" => StringAt(b, 4, "data")

LEMMA SizeIs ==
    ASSUME NEW shape \in Shapes
    PROVE  Size(shape) \in Nat /\ Size(shape) >= 3
BY DEF Size, Shapes

(* A header, and a string behind what comes before it.                     *)
LEMMA HeadFirst ==
    ASSUME NEW a \in Seq(Tokens), NEW b \in Seq(Tokens), NEW f, f = a \o b, Len(a) = 3,
           NEW n, HeadAt(a, 1, "star", n)
    PROVE  HeadAt(f, 1, "star", n)
<1>1. /\ f \in Seq(Tokens) /\ Len(f) = Len(a) + Len(b) /\ Len(b) \in Nat
      /\ \A k \in 1 .. Len(a) : f[k] = a[k]
  BY Joined
<1>2. f[1] = a[1] /\ f[2] = a[2] /\ f[3] = a[3] /\ Len(f) >= 3
  BY <1>1
<1> QED
  BY <1>1, <1>2 DEF HeadAt

LEMMA StringFirst ==
    ASSUME NEW a \in Seq(Tokens), NEW b \in Seq(Tokens), NEW f, f = a \o b,
           NEW last, NEW p \in Nat \ {0}, p + 4 <= Len(a), StringAt(a, p, last)
    PROVE  StringAt(f, p, last)
<1>1. /\ f \in Seq(Tokens) /\ Len(f) = Len(a) + Len(b) /\ Len(b) \in Nat /\ Len(a) \in Nat
      /\ \A k \in 1 .. Len(a) : f[k] = a[k]
  BY Joined
<1>2. /\ f[p] = a[p] /\ f[p + 1] = a[p + 1] /\ f[p + 2] = a[p + 2]
      /\ f[p + 3] = a[p + 3] /\ f[p + 4] = a[p + 4]
  <2>1. /\ p \in 1 .. Len(a) /\ p + 1 \in 1 .. Len(a) /\ p + 2 \in 1 .. Len(a)
        /\ p + 3 \in 1 .. Len(a) /\ p + 4 \in 1 .. Len(a)
    BY <1>1
  <2> QED
    BY <1>1, <2>1
<1>3. p <= Len(a) /\ p + 1 <= Len(a) /\ p + 2 <= Len(a) /\ p + 3 <= Len(a)
  BY <1>1
<1> QED
  BY <1>2, <1>3 DEF StringAt, HeadAt

LEMMA StringLast ==
    ASSUME NEW a \in Seq(Tokens), NEW b \in Seq(Tokens), NEW f, f = a \o b,
           NEW last, Len(b) >= 5, b[1].t = "dollar", b[2].t = "num", b[2].v = 1,
           b[3].t = "crlf", b[4].t = "data", b[5].t = last,
           NEW p, p = Len(a) + 1
    PROVE  StringAt(f, p, last) /\ p + 4 <= Len(f)
<1>1. /\ f \in Seq(Tokens) /\ Len(f) = Len(a) + Len(b) /\ Len(b) \in Nat /\ Len(a) \in Nat
      /\ \A k \in 1 .. Len(b) : f[Len(a) + k] = b[k]
  BY Joined
<1>2. /\ 1 \in 1 .. Len(b) /\ 2 \in 1 .. Len(b) /\ 3 \in 1 .. Len(b)
      /\ 4 \in 1 .. Len(b) /\ 5 \in 1 .. Len(b)
  BY <1>1
<1>3. /\ f[Len(a) + 1] = b[1] /\ f[Len(a) + 2] = b[2] /\ f[Len(a) + 3] = b[3]
      /\ f[Len(a) + 4] = b[4] /\ f[Len(a) + 5] = b[5]
  BY <1>1, <1>2
<1>4. /\ p = Len(a) + 1 /\ p + 1 = Len(a) + 2 /\ p + 2 = Len(a) + 3
      /\ p + 3 = Len(a) + 4 /\ p + 4 = Len(a) + 5 /\ p + 4 <= Len(f)
  BY <1>1
<1> QED
  BY <1>3, <1>4 DEF StringAt, HeadAt

LEMMA FrameBegins ==
    ASSUME NEW shape \in Shapes, NEW i \in Nat
    PROVE  /\ Frame(shape, i) \in Seq(Tokens)
           /\ Len(Frame(shape, i)) = Size(shape) /\ Begins(Frame(shape, i), shape)
<1> DEFINE f == Frame(shape, i)
           b == Bulk(i)
           o == Overlong(i)
           h(n) == Line("star", n, i)
<1>1. f \in Seq(Tokens)
  BY FrameIs DEF FrameOf, PieceOf
<1>2. ASSUME NEW n \in Nat
      PROVE  h(n) \in Seq(Tokens) /\ Len(h(n)) = 3 /\ HeadAt(h(n), 1, "star", n)
  <2>1. /\ h(n) \in Seq(Tokens) /\ Len(h(n)) = 3
        /\ h(n)[1].t = "star" /\ h(n)[2].t = "num" /\ h(n)[2].v = n /\ h(n)[3].t = "crlf"
    BY <1>2, LineIs
  <2> HIDE DEF h
  <2> QED
    BY <2>1 DEF HeadAt
<1>3. /\ b \in Seq(Tokens) /\ Len(b) = 5
      /\ b[1].t = "dollar" /\ b[2].t = "num" /\ b[2].v = 1 /\ b[3].t = "crlf"
      /\ b[4].t = "data" /\ b[5].t = "crlf"
  BY BulkIs DEF PieceOf
<1>4. /\ o \in Seq(Tokens) /\ Len(o) = 6
      /\ o[1].t = "dollar" /\ o[2].t = "num" /\ o[2].v = 1 /\ o[3].t = "crlf"
      /\ o[4].t = "data" /\ o[5].t = "data"
  BY OverlongIs DEF PieceOf
<1>5. /\ shape = "empty" => f = h(0)
      /\ shape = "denied" => f = h(1) \o b
      /\ shape = "overlong" => f = h(1) \o o
      /\ shape = "allowed" => f = (h(2) \o b) \o b
  BY DEF Frame
<1> HIDE DEF f, b, o, h
<1>6. CASE shape = "empty"
  BY <1>1, <1>2, <1>5, <1>6 DEF Begins, Size, Arity, f
<1>7. CASE shape = "denied"
  <2> DEFINE a == h(1)
  <2>1. a \in Seq(Tokens) /\ Len(a) = 3 /\ HeadAt(a, 1, "star", 1) /\ f = a \o b
    BY <1>2, <1>5, <1>7
  <2> HIDE DEF a
  <2>2. Len(f) = 8
    <3>1. Len(f) = Len(a) + Len(b)
      BY <1>3, <2>1, Joined
    <3> QED
      BY <1>3, <2>1, <3>1
  <2>3. HeadAt(f, 1, "star", 1)
    BY <1>3, <2>1, HeadFirst
  <2>4. StringAt(f, 4, "crlf")
    <3>1. 4 = Len(a) + 1 /\ Len(b) >= 5
      BY <1>3, <2>1
    <3> QED
      BY <1>3, <2>1, <3>1, StringLast
  <2> QED
    BY <1>1, <1>7, <2>2, <2>3, <2>4 DEF Begins, Size, Arity, f
<1>8. CASE shape = "overlong"
  <2> DEFINE a == h(1)
  <2>1. a \in Seq(Tokens) /\ Len(a) = 3 /\ HeadAt(a, 1, "star", 1) /\ f = a \o o
    BY <1>2, <1>5, <1>8
  <2> HIDE DEF a
  <2>2. Len(f) = 9
    <3>1. Len(f) = Len(a) + Len(o)
      BY <1>4, <2>1, Joined
    <3> QED
      BY <1>4, <2>1, <3>1
  <2>3. HeadAt(f, 1, "star", 1)
    BY <1>4, <2>1, HeadFirst
  <2>4. StringAt(f, 4, "data")
    <3>1. 4 = Len(a) + 1 /\ Len(o) >= 5
      BY <1>4, <2>1
    <3> QED
      BY <1>4, <2>1, <3>1, StringLast
  <2> QED
    BY <1>1, <1>8, <2>2, <2>3, <2>4 DEF Begins, Size, Arity, f
<1>9. CASE shape = "allowed"
  <2> DEFINE a == h(2)
             c == a \o b
  <2>1. a \in Seq(Tokens) /\ Len(a) = 3 /\ HeadAt(a, 1, "star", 2) /\ f = c \o b
    BY <1>2, <1>5, <1>9
  <2> HIDE DEF a
  <2>2. c \in Seq(Tokens) /\ Len(c) = 8
    <3>1. c \in Seq(Tokens) /\ Len(c) = Len(a) + Len(b)
      BY <1>3, <2>1, Joined
    <3> QED
      BY <1>3, <2>1, <3>1
  <2>3. HeadAt(c, 1, "star", 2)
    BY <1>3, <2>1, HeadFirst
  <2>4. StringAt(c, 4, "crlf")
    <3>1. 4 = Len(a) + 1 /\ Len(b) >= 5
      BY <1>3, <2>1
    <3> QED
      BY <1>3, <2>1, <3>1, StringLast
  <2> HIDE DEF c
  <2>5. Len(f) = 13
    <3>1. Len(f) = Len(c) + Len(b)
      BY <1>3, <2>1, <2>2, Joined
    <3> QED
      BY <1>3, <2>2, <3>1
  <2>6. StringAt(f, 4, "crlf")
    <3>1. 4 \in Nat \ {0} /\ 4 + 4 <= Len(c)
      BY <2>2
    <3> QED
      BY <1>3, <2>1, <2>2, <2>4, <3>1, StringFirst
  <2>7. StringAt(f, 9, "crlf")
    <3>1. 9 = Len(c) + 1 /\ Len(b) >= 5
      BY <1>3, <2>2
    <3> QED
      BY <1>3, <2>1, <2>2, <3>1, StringLast
  <2>8. HeadAt(f, 1, "star", 2)
    <3>1. \A k \in 1 .. Len(c) : f[k] = c[k]
      BY <1>3, <2>1, <2>2, Joined
    <3>2. f[1] = c[1] /\ f[2] = c[2] /\ f[3] = c[3]
      BY <2>2, <3>1
    <3> QED
      BY <2>2, <2>3, <3>2 DEF HeadAt
  <2> QED
    BY <1>1, <1>9, <2>5, <2>6, <2>7, <2>8 DEF Begins, Size, Arity, f
<1> QED
  BY <1>6, <1>7, <1>8, <1>9 DEF Shapes

(* What holds the first tokens of a frame begins as the frame does.        *)
LEMMA BeginsLike ==
    ASSUME NEW shape \in Shapes, NEW f \in Seq(Tokens), Len(f) = Size(shape),
           Begins(f, shape), NEW b \in Seq(Tokens),
           \A k \in 1 .. Size(shape) : k <= Len(b) => b[k] = f[k]
    PROVE  Begins(b, shape)
<1>1. Len(b) \in Nat
  OBVIOUS
<1>2. /\ 1 <= Len(b) => b[1] = f[1]
      /\ 2 <= Len(b) => b[2] = f[2]
      /\ 3 <= Len(b) => b[3] = f[3]
  <2>1. 1 \in 1 .. Size(shape) /\ 2 \in 1 .. Size(shape) /\ 3 \in 1 .. Size(shape)
    BY SizeIs
  <2> QED
    BY <2>1
<1>3. HeadAt(b, 1, "star", Arity(shape))
  BY <1>1, <1>2, SizeIs DEF Begins, HeadAt
<1>4. ASSUME NEW p \in {4, 9}, NEW last, p + 4 <= Size(shape), StringAt(f, p, last)
      PROVE  StringAt(b, p, last)
  <2>1. \A d \in 0 .. 4 : p + d \in 1 .. Size(shape) /\ p + d <= Len(f)
    BY <1>4, SizeIs
  <2>2. \A d \in 0 .. 4 : p + d <= Len(b) => b[p + d] = f[p + d]
    BY <2>1
  <2>3. /\ p <= Len(b) => b[p] = f[p]
        /\ p + 1 <= Len(b) => b[p + 1] = f[p + 1]
        /\ p + 2 <= Len(b) => b[p + 2] = f[p + 2]
        /\ p + 3 <= Len(b) => b[p + 3] = f[p + 3]
        /\ p + 4 <= Len(b) => b[p + 4] = f[p + 4]
    <3>1. p + 0 = p
      OBVIOUS
    <3> QED
      BY <2>2, <3>1
  <2>4. p <= Len(f) /\ p + 1 <= Len(f) /\ p + 2 <= Len(f) /\ p + 3 <= Len(f) /\ p + 4 <= Len(f)
    BY <1>4
  <2> QED
    BY <1>4, <2>3, <2>4 DEF StringAt, HeadAt
<1>5. /\ shape \in {"allowed", "denied", "overlong"} => 4 + 4 <= Size(shape)
      /\ shape = "allowed" => 9 + 4 <= Size(shape)
  BY DEF Size
<1> QED
  BY <1>3, <1>4, <1>5 DEF Begins
(* pos[i] is where the frame of command i ends in st.                      *)
Layout(pos, st, s) ==
    /\ pos[0] = 0 /\ pos[Len(s)] = Len(st)
    /\ \A i \in 0 .. Len(s) : pos[i] \in Nat /\ pos[i] <= Len(st)
    /\ \A i, j \in 0 .. Len(s) : i <= j => pos[i] <= pos[j]
    /\ \A i \in 1 .. Len(s) :
          /\ pos[i] = pos[i - 1] + Size(s[i])
          /\ \A k \in 1 .. Size(s[i]) : st[pos[i - 1] + k] = Frame(s[i], i)[k]

LEMMA LayoutExists ==
    ASSUME NEW s \in Seq(Shapes)
    PROVE  \E pos : Layout(pos, StreamOf(s), s)
<1> DEFINE f == CHOOSE g : IsStream(g, Len(s), s)
           n == Len(s)
           F(i) == Frame(s[i], i)
<1>1. n \in Nat /\ \A i \in 1 .. n : s[i] \in Shapes /\ i \in Nat
  OBVIOUS
<1>2. IsStream(f, n, s)
  BY <1>1, StreamExists
<1>3. StreamOf(s) = f[n]
  BY DEF StreamOf, IsStream
<1> HIDE DEF f
<1>4. f[0] = <<>> /\ \A i \in 1 .. n : f[i] = f[i - 1] \o F(i)
  <2>1. 0 \in 0 .. n /\ \A i \in 1 .. n : i \in 0 .. n /\ i # 0
    BY <1>1
  <2> QED
    BY <1>2, <2>1 DEF IsStream
<1>5. \A i \in 1 .. n : F(i) \in Seq(Tokens) /\ Len(F(i)) = Size(s[i]) /\ Size(s[i]) \in Nat
  BY <1>1, FrameBegins, SizeIs
<1> HIDE DEF F, n
<1> DEFINE Extends(a, b) == Len(b) <= Len(a) /\ \A k \in 1 .. Len(b) : a[k] = b[k]
           P(i) == f[i] \in Seq(Tokens) /\ \A j \in 0 .. i : Extends(f[i], f[j])
           T == {i \in Nat : i <= n => P(i)}
<1>6. 0 \in T
  <2> DEFINE e == <<>>
  <2>1. e \in Seq(Tokens) /\ Len(e) = 0 /\ 1 .. 0 = {}
    OBVIOUS
  <2>2. \A j \in 0 .. 0 : j = 0
    OBVIOUS
  <2> HIDE DEF e
  <2>3. Extends(e, e)
    BY <2>1
  <2>4. f[0] = e
    BY <1>4 DEF e
  <2>5. P(0)
    BY <2>1, <2>2, <2>3, <2>4
  <2> QED
    BY <2>5
<1>7. ASSUME NEW i \in Nat, i \in T PROVE i + 1 \in T
  <2>1. CASE i + 1 <= n
    <3> DEFINE a == f[i]
               b == f[i + 1]
               g == F(i + 1)
    <3>1. i + 1 \in 1 .. n /\ (i + 1) - 1 = i /\ i <= n
      BY <1>1, <2>1
    <3>2. P(i)
      BY <1>7, <3>1
    <3>3. b = a \o g /\ a \in Seq(Tokens) /\ g \in Seq(Tokens)
      BY <1>4, <1>5, <3>1, <3>2
    <3>4. \A j \in 0 .. i : Extends(a, f[j])
      BY <3>2
    <3> HIDE DEF a, b, g, P
    <3>5. /\ b \in Seq(Tokens) /\ Len(b) = Len(a) + Len(g) /\ Len(a) \in Nat /\ Len(g) \in Nat
          /\ \A k \in 1 .. Len(a) : b[k] = a[k]
      BY <3>3, Joined
    <3>6. ASSUME NEW j \in 0 .. i + 1 PROVE Extends(b, f[j])
      <4>1. CASE j = i + 1
        <5>1. f[j] = b
          BY <4>1 DEF b
        <5>2. Len(b) <= Len(b)
          BY <3>5
        <5> QED
          BY <5>1, <5>2
      <4>2. CASE j # i + 1
        <5>1. j \in 0 .. i
          BY <4>2
        <5> DEFINE c == f[j]
        <5>2. Len(c) <= Len(a) /\ \A k \in 1 .. Len(c) : a[k] = c[k]
          BY <3>4, <5>1
        <5> QED
          BY <3>5, <5>2
      <4> QED
        BY <4>1, <4>2
    <3>7. P(i + 1)
      BY <3>5, <3>6 DEF P, b
    <3> QED
      BY <3>7
  <2>2. CASE ~(i + 1 <= n)
    BY <2>2
  <2> QED
    BY <2>1, <2>2
<1> HIDE DEF T
<1>8. Nat \subseteq T
  BY <1>6, <1>7, SetInduction
<1>9. ASSUME NEW i \in 0 .. n PROVE P(i)
  <2>1. i \in Nat /\ i <= n /\ i \in T
    BY <1>1, <1>8
  <2> QED
    BY <2>1 DEF T
<1> DEFINE pos == [i \in 0 .. n |-> Len(f[i])]
           st == f[n]
<1>10. 0 \in 0 .. n /\ n \in 0 .. n
  BY <1>1
<1>11. ASSUME NEW i \in 0 .. n
       PROVE  /\ f[i] \in Seq(Tokens) /\ pos[i] = Len(f[i]) /\ pos[i] \in Nat
              /\ \A j \in 0 .. i : Extends(f[i], f[j])
  <2>1. f[i] \in Seq(Tokens) /\ \A j \in 0 .. i : Extends(f[i], f[j])
    BY <1>9
  <2>2. pos[i] = Len(f[i])
    OBVIOUS
  <2> HIDE DEF pos
  <2> QED
    BY <2>1, <2>2
<1>12. pos[0] = 0 /\ pos[n] = Len(st)
  <2>1. Len(<<>>) = 0
    OBVIOUS
  <2> QED
    BY <1>4, <1>10, <1>11, <2>1
<1>13. ASSUME NEW i \in 0 .. n, NEW j \in 0 .. n, i <= j PROVE pos[i] <= pos[j]
  <2>1. i \in 0 .. j
    BY <1>1, <1>13
  <2> QED
    BY <1>11, <2>1
<1>14. \A i \in 0 .. n : pos[i] \in Nat /\ pos[i] <= Len(st)
  <2>1. \A i \in 0 .. n : i <= n
    BY <1>1
  <2> QED
    BY <1>10, <1>11, <1>12, <1>13, <2>1
<1>15. ASSUME NEW i \in 1 .. n
       PROVE  /\ pos[i] = pos[i - 1] + Size(s[i])
              /\ \A k \in 1 .. Size(s[i]) : st[pos[i - 1] + k] = F(i)[k]
  <2> DEFINE a == f[i - 1]
             b == f[i]
             g == F(i)
  <2>1. i - 1 \in 0 .. n /\ i \in 0 .. n
    BY <1>1
  <2>2. a \in Seq(Tokens) /\ g \in Seq(Tokens) /\ b = a \o g
    BY <1>4, <1>5, <1>11, <2>1
  <2>3. /\ pos[i - 1] = Len(a) /\ pos[i] = Len(b) /\ Len(g) = Size(s[i])
    BY <1>5, <1>11, <2>1
  <2>4. Extends(st, b)
    BY <1>10, <1>11, <2>1
  <2> HIDE DEF a, b, g, pos, st
  <2>5. /\ Len(b) = Len(a) + Len(g) /\ Len(a) \in Nat /\ Len(g) \in Nat
        /\ \A k \in 1 .. Len(g) : b[Len(a) + k] = g[k]
    BY <2>2, Joined
  <2>6. ASSUME NEW k \in 1 .. Size(s[i]) PROVE st[pos[i - 1] + k] = F(i)[k]
    <3>1. k \in 1 .. Len(g) /\ Len(a) + k \in 1 .. Len(b) /\ pos[i - 1] + k = Len(a) + k
      BY <2>3, <2>5
    <3>2. st[Len(a) + k] = b[Len(a) + k] /\ b[Len(a) + k] = g[k]
      BY <2>4, <2>5, <3>1
    <3> QED
      BY <3>1, <3>2 DEF g
  <2> QED
    BY <2>3, <2>5, <2>6
<1> HIDE DEF pos
<1>16. Layout(pos, st, s)
  BY <1>12, <1>13, <1>14, <1>15 DEF Layout, n, F
<1> QED
  BY <1>3, <1>16
(* Where the frame of command i ends in the stream.                        *)
EndOf(i) == (CHOOSE pos : Layout(pos, stream, script))[i]

LEMMA EndsAre ==
    ASSUME StreamInv
    PROVE  LET n == Len(script)
           IN  /\ EndOf(0) = 0 /\ EndOf(n) = Len(stream) /\ n \in Nat /\ Ids = 1 .. n
               /\ \A i \in 0 .. n : EndOf(i) \in Nat /\ EndOf(i) <= Len(stream)
               /\ \A i, j \in 0 .. n : i <= j => EndOf(i) <= EndOf(j)
               /\ \A i \in 1 .. n :
                     /\ i - 1 \in 0 .. n /\ i \in 0 .. n /\ i \in Nat
                     /\ script[i] \in Shapes
                     /\ EndOf(i) = EndOf(i - 1) + Size(script[i])
                     /\ \A k \in 1 .. Size(script[i]) :
                           stream[EndOf(i - 1) + k] = Frame(script[i], i)[k]
<1> DEFINE pos == CHOOSE pos : Layout(pos, stream, script)
           n == Len(script)
<1>1. script \in Seq(Shapes) /\ stream = StreamOf(script)
  BY DEF StreamInv
<1>2. \E p : Layout(p, stream, script)
  BY <1>1, LayoutExists
<1>3. Layout(pos, stream, script)
  BY <1>2
<1>4. \A i : EndOf(i) = pos[i]
  BY DEF EndOf
<1>5. n \in Nat /\ \A i \in 1 .. n : script[i] \in Shapes
  BY <1>1
<1>6. Ids = 1 .. n
  BY StreamFacts
<1> HIDE DEF pos
<1>7. \A i \in 1 .. n : i - 1 \in 0 .. n /\ i \in 0 .. n /\ i \in Nat
  BY <1>5
<1> QED
  BY <1>3, <1>4, <1>5, <1>6, <1>7 DEF Layout

(* The tokens of command i are those between the end of the frame before   *)
(* it and the end of its own, and the first of them is the only star.      *)
LEMMA TokensOf ==
    ASSUME StreamInv, NEW i \in Ids
    PROVE  /\ \A p \in 1 .. Len(stream) :
                 stream[p].of = i <=> EndOf(i - 1) < p /\ p <= EndOf(i)
           /\ EndOf(i - 1) + 1 \in 1 .. Len(stream)
           /\ stream[EndOf(i - 1) + 1].t = "star"
           /\ \A p \in 1 .. Len(stream) :
                 stream[p].of = i /\ stream[p].t = "star" => p = EndOf(i - 1) + 1
<1> DEFINE n == Len(script)
           a == EndOf(i - 1)
           z == EndOf(i)
           f == Frame(script[i], i)
           m == Size(script[i])
<1>1. /\ n \in Nat /\ Ids = 1 .. n /\ i \in 1 .. n /\ i \in Nat
      /\ i - 1 \in 0 .. n /\ i \in 0 .. n /\ script[i] \in Shapes
      /\ a \in Nat /\ z \in Nat /\ z <= Len(stream) /\ z = a + m
      /\ \A k \in 1 .. m : stream[a + k] = f[k]
      /\ EndOf(0) = 0 /\ EndOf(n) = Len(stream)
  BY EndsAre
<1>2. /\ InTurn(stream, n) /\ Len(stream) \in Nat
      /\ \A q \in 1 .. Len(stream) : stream[q].of \in 1 .. n
  BY StreamFacts DEF Made
<1>3. m \in Nat /\ m >= 3
  BY <1>1, SizeIs
<1>4. /\ Len(f) = m /\ Begins(f, script[i])
      /\ \A k \in 1 .. m : f[k].of = i
      /\ \A k \in 2 .. m : f[k].t # "star"
  <2>1. Len(f) = m /\ Begins(f, script[i])
    BY <1>1, FrameBegins
  <2>2. FrameOf(f, script[i], i)
    BY <1>1, FrameIs
  <2> HIDE DEF f, m
  <2> QED
    BY <2>1, <2>2 DEF FrameOf, PieceOf, StarAtHead
<1>10. ASSUME NEW j \in 1 .. n
       PROVE  /\ EndOf(j) \in 1 .. Len(stream) /\ stream[EndOf(j)].of = j
              /\ EndOf(j - 1) + 1 \in 1 .. Len(stream) /\ stream[EndOf(j - 1) + 1].of = j
  <2> DEFINE b == EndOf(j - 1)
             y == EndOf(j)
             g == Frame(script[j], j)
             l == Size(script[j])
  <2>1. /\ script[j] \in Shapes /\ j \in Nat
        /\ b \in Nat /\ y \in Nat /\ y <= Len(stream) /\ y = b + l
        /\ \A k \in 1 .. l : stream[b + k] = g[k]
    BY EndsAre
  <2>2. l \in Nat /\ l >= 3
    BY <2>1, SizeIs
  <2>3. FrameOf(g, script[j], j) /\ Len(g) = l
    BY <2>1, FrameIs, FrameBegins
  <2> HIDE DEF b, y, g, l
  <2>4. \A k \in 1 .. l : g[k].of = j
    BY <2>3 DEF FrameOf, PieceOf
  <2>5. 1 \in 1 .. l /\ l \in 1 .. l /\ b + 1 \in 1 .. Len(stream) /\ y \in 1 .. Len(stream)
    BY <1>2, <2>1, <2>2
  <2>6. stream[b + 1].of = j /\ stream[y].of = j
    BY <2>1, <2>4, <2>5
  <2> QED
    BY <2>5, <2>6 DEF b, y
<1> HIDE DEF a, z, f, m
<1>5. ASSUME NEW p \in 1 .. Len(stream), a < p, p <= z
      PROVE  stream[p].of = i /\ (stream[p].t = "star" => p = a + 1)
  <2> DEFINE k == p - a
  <2>1. k \in 1 .. m /\ a + k = p /\ (p # a + 1 => k \in 2 .. m)
    BY <1>1, <1>2, <1>3, <1>5
  <2> HIDE DEF k
  <2> QED
    BY <1>1, <1>4, <2>1
<1>6. ASSUME NEW p \in 1 .. Len(stream), stream[p].of = i
      PROVE  a < p /\ p <= z
  <2>1. CASE ~(a < p)
    <3>1. a # 0 /\ i - 1 \in 1 .. n
      <4>1. p \in Nat /\ p >= 1
        OBVIOUS
      <4>2. a # 0
        BY <1>1, <2>1, <4>1
      <4>3. i - 1 # 0
        BY <1>1, <4>2 DEF a
      <4> QED
        BY <1>1, <4>2, <4>3
    <3>2. a \in 1 .. Len(stream) /\ stream[a].of = i - 1
      BY <1>10, <3>1 DEF a
    <3>3. p = a \/ p < a
      BY <1>1, <2>1
    <3>4. stream[p].of <= stream[a].of
      <4>1. CASE p = a
        BY <1>1, <3>2, <4>1
      <4>2. CASE p < a
        BY <1>2, <3>2, <4>2 DEF InTurn
      <4> QED
        BY <3>3, <4>1, <4>2
    <3> QED
      BY <1>1, <1>6, <3>2, <3>4
  <2>2. CASE ~(p <= z)
    <3>1. i + 1 \in 1 .. n /\ (i + 1) - 1 = i
      <4>1. i # n
        <5>1. p <= Len(stream)
          OBVIOUS
        <5>2. i = n => z = Len(stream)
          BY <1>1 DEF z
        <5> QED
          BY <1>2, <2>2, <5>1, <5>2
      <4> QED
        BY <1>1, <4>1
    <3>2. z + 1 \in 1 .. Len(stream) /\ stream[z + 1].of = i + 1
      BY <1>10, <3>1 DEF z
    <3>3. p = z + 1 \/ z + 1 < p
      BY <1>1, <2>2
    <3>4. stream[z + 1].of <= stream[p].of
      <4>1. CASE p = z + 1
        BY <1>1, <3>2, <4>1
      <4>2. CASE z + 1 < p
        BY <1>2, <3>2, <4>2 DEF InTurn
      <4> QED
        BY <3>3, <4>1, <4>2
    <3> QED
      BY <1>1, <1>6, <3>2, <3>4
  <2> QED
    BY <2>1, <2>2
<1>7. a + 1 \in 1 .. Len(stream) /\ stream[a + 1].t = "star"
  <2>1. 1 \in 1 .. m /\ a + 1 \in 1 .. Len(stream)
    BY <1>1, <1>2, <1>3
  <2>2. f[1].t = "star"
    BY <1>3, <1>4 DEF Begins, HeadAt
  <2> QED
    BY <1>1, <2>1, <2>2
<1> QED
  BY <1>5, <1>6, <1>7 DEF a, z
LEMMA EndsGrow ==
    ASSUME StreamInv, NEW i \in 0 .. Len(script), NEW j \in 0 .. Len(script)
    PROVE  /\ EndOf(i) \in Nat /\ EndOf(j) \in Nat /\ i \in Nat /\ j \in Nat
           /\ EndOf(i) <= EndOf(j) <=> i <= j
<1> DEFINE n == Len(script)
<1>1. n \in Nat /\ EndOf(i) \in Nat /\ EndOf(j) \in Nat /\ i \in Nat /\ j \in Nat
  BY EndsAre
<1>2. ASSUME NEW k \in 0 .. n, NEW l \in 0 .. n, k < l PROVE EndOf(k) < EndOf(l)
  <2>1. l \in 1 .. n /\ l - 1 \in 0 .. n /\ k <= l - 1
    BY <1>1, <1>2
  <2>2. EndOf(k) <= EndOf(l - 1) /\ EndOf(k) \in Nat /\ EndOf(l - 1) \in Nat
    BY <2>1, EndsAre
  <2>3. EndOf(l) = EndOf(l - 1) + Size(script[l]) /\ script[l] \in Shapes
    BY <2>1, EndsAre
  <2>4. Size(script[l]) \in Nat /\ Size(script[l]) >= 3
    BY <2>3, SizeIs
  <2> QED
    BY <2>2, <2>3, <2>4
<1>3. CASE i <= j
  BY <1>3, EndsAre
<1>4. CASE j < i
  BY <1>1, <1>2, <1>4
<1> QED
  BY <1>1, <1>3, <1>4

LEMMA UptoEnd ==
    ASSUME StreamInv, NEW i \in 0 .. Len(script)
    PROVE  UptoAt(EndOf(i)) = i
<1> DEFINE n == Len(script)
<1>1. n \in Nat /\ EndOf(0) = 0 /\ Ids = 1 .. n
  BY EndsAre
<1>2. CASE i = 0
  BY <1>1, <1>2 DEF UptoAt
<1>3. CASE i # 0
  <2>1. i \in Ids /\ i \in 1 .. n /\ i - 1 \in 0 .. n /\ 0 \in 0 .. n
    BY <1>1, <1>3
  <2>2. EndOf(i) \in Nat /\ EndOf(i) <= Len(stream) /\ EndOf(i - 1) \in Nat
    BY <2>1, EndsAre
  <2>3. EndOf(i - 1) < EndOf(i)
    <3>1. ~(EndOf(i) <= EndOf(i - 1))
      <4>1. ~(i <= i - 1)
        BY <2>1
      <4> QED
        BY <2>1, <4>1, EndsGrow
    <3> QED
      BY <2>2, <3>1
  <2>4. EndOf(i) \in 1 .. Len(stream) /\ EndOf(i) # 0 /\ EndOf(i) <= EndOf(i)
    <3>1. Len(stream) \in Nat
      BY StreamFacts
    <3> QED
      BY <2>2, <2>3, <3>1
  <2>5. stream[EndOf(i)].of = i
    BY <2>1, <2>3, <2>4, TokensOf
  <2> QED
    BY <2>4, <2>5 DEF UptoAt
<1> QED
  BY <1>2, <1>3

LEMMA WholeIs ==
    ASSUME StreamInv, NEW i \in Ids
    PROVE  Whole(i) <=> EndOf(i) <= received
<1>1. /\ Len(stream) \in Nat /\ received \in Nat /\ stream \in Seq(Tokens)
      /\ i \in 1 .. Len(script) /\ Len(script) \in Nat
  BY StreamFacts DEF Made
<1>2. /\ EndOf(i) \in Nat /\ EndOf(i) <= Len(stream) /\ EndOf(i - 1) \in Nat
      /\ EndOf(i) = EndOf(i - 1) + Size(script[i]) /\ script[i] \in Shapes
  BY <1>1, EndsAre
<1>3. Size(script[i]) \in Nat /\ Size(script[i]) >= 3
  BY <1>2, SizeIs
<1>4. EndOf(i) \in 1 .. Len(stream) /\ EndOf(i - 1) < EndOf(i) /\ EndOf(i) <= EndOf(i)
  BY <1>1, <1>2, <1>3
<1>5. \A p \in 1 .. Len(stream) : stream[p].of = i <=> EndOf(i - 1) < p /\ p <= EndOf(i)
  BY TokensOf
<1>6. DOMAIN stream = 1 .. Len(stream)
  BY <1>1
<1>7. ASSUME Whole(i) PROVE EndOf(i) <= received
  BY <1>4, <1>5, <1>6, <1>7 DEF Whole
<1>8. ASSUME EndOf(i) <= received PROVE Whole(i)
  <2>1. ASSUME NEW p \in 1 .. Len(stream), stream[p].of = i PROVE p <= received
    <3>1. p <= EndOf(i) /\ p \in Nat
      BY <1>5, <2>1
    <3> QED
      BY <1>1, <1>2, <1>8, <3>1
  <2> QED
    BY <1>6, <2>1 DEF Whole
<1> QED
  BY <1>7, <1>8

(* A buffer that begins with a star begins with the frame of a command,    *)
(* and holds all of it when the command has come as a whole.               *)
LEMMA BufferBegins ==
    ASSUME StreamInv, NEW i \in Ids, start = EndOf(i - 1), start < received
    PROVE  /\ Begins(Buffer, script[i]) /\ Buffer \in Seq(Tokens) /\ script[i] \in Shapes
           /\ Len(Buffer) = received - start /\ Len(Buffer) \in Nat /\ Len(Buffer) >= 1
           /\ EndOf(i) <= received <=> Size(script[i]) <= Len(Buffer)
           /\ EndOf(i) = start + Size(script[i])
<1> DEFINE b == Buffer
           m == received - start
           f == Frame(script[i], i)
           z == Size(script[i])
<1>1. /\ b \in Seq(Tokens) /\ Len(b) = m
      /\ \A k \in 1 .. m : start + k \in 1 .. Len(stream) /\ b[k] = stream[start + k]
  BY BufferIs DEF Stretch
<1>2. /\ start \in Nat /\ received \in Nat /\ i \in 1 .. Len(script)
  BY StreamFacts
<1>3. /\ EndOf(i) = start + z /\ script[i] \in Shapes /\ i \in Nat
      /\ \A k \in 1 .. z : stream[start + k] = f[k]
  BY <1>2, EndsAre
<1>4. z \in Nat /\ f \in Seq(Tokens) /\ Len(f) = z /\ Begins(f, script[i])
  BY <1>3, SizeIs, FrameBegins
<1> HIDE DEF b, f
<1>5. m \in Nat /\ m >= 1
  BY <1>2
<1>6. ASSUME NEW k \in 1 .. z, k <= Len(b) PROVE b[k] = f[k]
  <2>1. k \in 1 .. m
    BY <1>1, <1>4, <1>5, <1>6
  <2> QED
    BY <1>1, <1>3, <2>1
<1>7. Begins(b, script[i])
  BY <1>1, <1>3, <1>4, <1>6, BeginsLike
<1>8. EndOf(i) <= received <=> z <= Len(b)
  <2> HIDE DEF z
  <2> QED
    BY <1>1, <1>2, <1>3, <1>4
<1> QED
  BY <1>1, <1>3, <1>5, <1>7, <1>8 DEF b
----------------------------------------------------------------------------
(* What the parser says of the first part of a frame                       *)

(* A header needs its mark and its number; its line ends behind its CR LF, *)
(* or behind the data.                                                     *)
LEMMA HeaderIs ==
    ASSUME NEW b \in Seq(Tokens), NEW p \in 1 .. Len(b), NEW mark \in {"star", "dollar"},
           NEW n, HeadAt(b, p, mark, n)
    PROVE  /\ IsHeader(b, p, mark) <=> p < Len(b)
           /\ p < Len(b) => LineEnd(b, p) = IF p + 2 <= Len(b) THEN p + 2 ELSE p + 1
<1>1. Len(b) \in Nat /\ p \in Nat /\ p <= Len(b) /\ b[p].t = mark /\ p >= 1
  BY DEF HeadAt
<1>2. LineEnd(b, p) \in p .. Len(b)
  BY LineEndIs
<1>3. CASE p = Len(b)
  <2>1. ~(p < LineEnd(b, p))
    BY <1>1, <1>2, <1>3
  <2> QED
    BY <1>1, <1>3, <2>1 DEF IsHeader
<1>4. CASE p + 1 = Len(b)
  <2> DEFINE feeds == {q \in p .. Len(b) : b[q].t = "crlf"}
  <2>1. b[p + 1].t = "num"
    BY <1>1, <1>4 DEF HeadAt
  <2>2. \A q \in p .. Len(b) : q = p \/ q = p + 1
    BY <1>1, <1>4
  <2>3. feeds = {}
    BY <1>1, <2>1, <2>2
  <2>4. LineEnd(b, p) = Len(b)
    BY <2>3 DEF LineEnd
  <2>5. p + 2 .. Len(b) = {}
    BY <1>1, <1>4
  <2>6. IsHeader(b, p, mark)
    BY <1>1, <1>4, <2>1, <2>4, <2>5 DEF IsHeader
  <2> QED
    BY <1>1, <1>4, <2>4, <2>6
<1>5. CASE p + 2 <= Len(b)
  <2>1. b[p + 1].t = "num" /\ b[p + 2].t = "crlf"
    BY <1>1, <1>5 DEF HeadAt
  <2>2. p + 2 \in p .. Len(b) /\ \A r \in p .. (p + 2) - 1 : r = p \/ r = p + 1
    BY <1>1, <1>5
  <2>3. LineEnd(b, p) = p + 2
    BY <1>1, <2>1, <2>2, LineEndIs
  <2>4. \A r \in p + 2 .. p + 2 : r = p + 2
    BY <1>1
  <2>5. IsHeader(b, p, mark)
    BY <1>1, <2>1, <2>3, <2>4 DEF IsHeader
  <2> QED
    BY <1>1, <1>5, <2>3, <2>5
<1> QED
  BY <1>1, <1>3, <1>4, <1>5

LEMMA ArgumentAt ==
    ASSUME NEW b \in Seq(Tokens), NEW p \in 1 .. Len(b), HeadAt(b, p, "dollar", 1)
    PROVE  /\ p = Len(b) => Argument(b, p) = Invalid
           /\ p < Len(b) /\ Len(b) < p + 4 => Argument(b, p) = More
           /\ p + 4 <= Len(b) /\ b[p + 4].t = "crlf" =>
                 Argument(b, p) = Parsed(<<b[p + 3].of>>, p + 5)
           /\ p + 4 = Len(b) /\ b[p + 4].t # "crlf" => Argument(b, p) = More
           /\ p + 4 < Len(b) /\ b[p + 4].t # "crlf" => Argument(b, p) = Invalid
<1>1. Len(b) \in Nat /\ p \in Nat /\ p <= Len(b) /\ p >= 1 /\ ~(p > Len(b))
  OBVIOUS
<1>2. /\ IsHeader(b, p, "dollar") <=> p < Len(b)
      /\ p < Len(b) => LineEnd(b, p) = IF p + 2 <= Len(b) THEN p + 2 ELSE p + 1
  BY HeaderIs
<1>3. CASE p = Len(b)
  <2>1. ~ IsHeader(b, p, "dollar")
    BY <1>1, <1>2, <1>3
  <2>2. Argument(b, p) = Invalid
    BY <1>1, <2>1 DEF Argument
  <2> QED
    BY <1>1, <1>3, <2>2
<1>4. CASE p < Len(b)
  <2> DEFINE e == LineEnd(b, p)
  <2>1. b[p + 1].v = 1
    BY <1>1, <1>4 DEF HeadAt
  <2>2. Argument(b, p) = Trailer(b, (e + 1) + 1, <<b[e + 1].of>>)
    BY <1>1, <1>2, <1>4, <2>1 DEF Argument
  <2>3. e = IF p + 2 <= Len(b) THEN p + 2 ELSE p + 1
    BY <1>2, <1>4
  <2> HIDE DEF e
  <2>4. CASE Len(b) < p + 4
    <3>1. (e + 1) + 1 > Len(b)
      BY <1>1, <1>4, <2>3, <2>4
    <3>2. Argument(b, p) = More
      BY <2>2, <3>1 DEF Trailer
    <3> QED
      BY <1>1, <1>4, <2>4, <3>2
  <2>5. CASE p + 4 <= Len(b)
    <3> DEFINE d == p + 4
               args == <<b[p + 3].of>>
    <3>1. (e + 1) + 1 = d /\ e + 1 = p + 3 /\ d + 1 = p + 5 /\ ~(d > Len(b)) /\ d \in Nat
      BY <1>1, <2>3, <2>5
    <3>2. Argument(b, p) = Trailer(b, d, args)
      BY <2>2, <3>1
    <3> HIDE DEF d, args
    <3>3. CASE b[d].t = "crlf"
      <4>1. Argument(b, p) = Parsed(args, d + 1)
        BY <3>1, <3>2, <3>3 DEF Trailer
      <4> QED
        BY <1>1, <1>4, <2>5, <3>1, <3>3, <4>1 DEF d, args
    <3>4. CASE b[d].t # "crlf" /\ d = Len(b)
      <4>1. Argument(b, p) = More
        BY <3>1, <3>2, <3>4 DEF Trailer
      <4> QED
        BY <1>1, <1>4, <2>5, <3>1, <3>4, <4>1 DEF d
    <3>5. CASE b[d].t # "crlf" /\ d # Len(b)
      <4>1. Argument(b, p) = Invalid
        BY <3>1, <3>2, <3>5 DEF Trailer
      <4> QED
        BY <1>1, <1>4, <2>5, <3>1, <3>5, <4>1 DEF d
    <3> QED
      BY <3>3, <3>4, <3>5
  <2> QED
    BY <1>1, <2>4, <2>5
<1> QED
  BY <1>1, <1>3, <1>4

(* What has been read, and the argument behind it.                         *)
ReadOn(b, r) == WithArgument(r, [p \in 1 .. Len(b) + 1 |-> Argument(b, p)][r.next])

LEMMA ReadIs ==
    ASSUME NEW b \in Seq(Tokens), b # <<>>, IsHeader(b, 1, "star"), b[2].v \in Nat
    PROVE  LET z == Parsed(<<>>, LineEnd(b, 1) + 1)
           IN  /\ b[2].v = 0 => ParseCommand(b) = z
               /\ b[2].v = 1 => ParseCommand(b) = ReadOn(b, z)
               /\ b[2].v = 2 => ParseCommand(b) = ReadOn(b, ReadOn(b, z))
<1> DEFINE argument == [p \in 1 .. Len(b) + 1 |-> Argument(b, p)]
           n == b[2].v
           f == CHOOSE g : IsRead(g, n, b, argument)
           z == Parsed(<<>>, LineEnd(b, 1) + 1)
<1>1. n \in Nat
  OBVIOUS
<1>2. IsRead(f, n, b, argument)
  <2> HIDE DEF argument, n
  <2> QED
    BY <1>1, ReadExists
<1>3. ParseCommand(b) = f[n]
  BY DEF ParseCommand, IsRead
<1>4. \A r : ReadOn(b, r) = WithArgument(r, argument[r.next])
  BY DEF ReadOn
<1> HIDE DEF f, n, argument
<1>5. /\ f[0] = z
      /\ \A i \in 1 .. n : f[i] = ReadOn(b, f[i - 1])
  <2>1. 0 \in 0 .. n /\ \A i \in 1 .. n : i \in 0 .. n /\ i # 0
    BY <1>1
  <2> QED
    BY <1>2, <1>4, <2>1 DEF IsRead
<1> HIDE DEF z
<1>6. n = 0 => f[n] = z
  BY <1>5
<1>7. n = 1 => f[n] = ReadOn(b, z)
  <2>1. n = 1 => 1 \in 1 .. n /\ 1 - 1 = 0
    OBVIOUS
  <2> QED
    BY <1>5, <2>1
<1>8. n = 2 => f[n] = ReadOn(b, ReadOn(b, z))
  <2>1. n = 2 => 1 \in 1 .. n /\ 1 - 1 = 0 /\ 2 \in 1 .. n /\ 2 - 1 = 1
    OBVIOUS
  <2> QED
    BY <1>5, <2>1
<1> QED
  BY <1>3, <1>6, <1>7, <1>8 DEF n, z
LEMMA ReadOnIs ==
    ASSUME NEW b \in Seq(Tokens), NEW args, NEW p \in 1 .. Len(b) + 1
    PROVE  LET a == Argument(b, p)
               w == ReadOn(b, Parsed(args, p))
           IN  /\ a.status # "command" => w = a
               /\ a.status = "command" => w = Parsed(args \o a.args, a.next)
<1> DEFINE a == Argument(b, p)
           r == Parsed(args, p)
<1>1. r.status = "command" /\ r.args = args /\ r.next = p
  BY ParsedIs
<1>2. [q \in 1 .. Len(b) + 1 |-> Argument(b, q)][p] = a
  OBVIOUS
<1>3. ReadOn(b, r) = WithArgument(r, a)
  BY <1>1, <1>2 DEF ReadOn
<1> HIDE DEF r, a
<1>4. /\ a.status # "command" => ReadOn(b, r) = a
      /\ a.status = "command" => ReadOn(b, r) = Parsed(args \o a.args, a.next)
  BY <1>1, <1>3 DEF WithArgument
<1> QED
  BY <1>4 DEF r, a

LEMMA ReadStops ==
    ASSUME NEW b, NEW r, r.status # "command"
    PROVE  ReadOn(b, r) = r
BY DEF ReadOn, WithArgument

LEMMA StatusIs ==
    /\ More.status = "more" /\ Invalid.status = "invalid"
BY DEF More, Invalid

(* The string at p, with what has been read before it.                     *)
LEMMA StringRead ==
    ASSUME NEW b \in Seq(Tokens), NEW args, NEW p \in 1 .. Len(b) + 1,
           NEW last \in {"crlf", "data"}, StringAt(b, p, last)
    PROVE  LET w == ReadOn(b, Parsed(args, p))
           IN  /\ p = Len(b) => w = Invalid
               /\ Len(b) < p + 4 /\ p # Len(b) => w = More
               /\ p + 4 <= Len(b) /\ last = "crlf" =>
                     w = Parsed(args \o <<b[p + 3].of>>, p + 5)
               /\ p + 4 = Len(b) /\ last = "data" => w = More
               /\ p + 4 < Len(b) /\ last = "data" => w = Invalid
<1> DEFINE a == Argument(b, p)
           w == ReadOn(b, Parsed(args, p))
<1>1. Len(b) \in Nat /\ p \in Nat
  OBVIOUS
<1>2. /\ a.status # "command" => w = a
      /\ a.status = "command" => w = Parsed(args \o a.args, a.next)
  BY ReadOnIs
<1>3. CASE p > Len(b)
  <2>1. a = More
    BY <1>3 DEF Argument
  <2>2. w = More
    BY <1>2, <2>1, StatusIs
  <2>3. ~(p = Len(b)) /\ ~(p + 4 <= Len(b)) /\ ~(p + 4 = Len(b)) /\ ~(p + 4 < Len(b))
    BY <1>1, <1>3
  <2> QED
    BY <2>2, <2>3
<1>4. CASE p <= Len(b)
  <2>1. p \in 1 .. Len(b) /\ HeadAt(b, p, "dollar", 1)
    BY <1>1, <1>4 DEF StringAt
  <2>2. p + 4 <= Len(b) => b[p + 4].t = last
    BY DEF StringAt
  <2>3. /\ p = Len(b) => a = Invalid
        /\ p < Len(b) /\ Len(b) < p + 4 => a = More
        /\ p + 4 <= Len(b) /\ b[p + 4].t = "crlf" => a = Parsed(<<b[p + 3].of>>, p + 5)
        /\ p + 4 = Len(b) /\ b[p + 4].t # "crlf" => a = More
        /\ p + 4 < Len(b) /\ b[p + 4].t # "crlf" => a = Invalid
    BY <2>1, ArgumentAt
  <2>4. LET q == Parsed(<<b[p + 3].of>>, p + 5)
        IN  q.status = "command" /\ q.args = <<b[p + 3].of>> /\ q.next = p + 5
    BY ParsedIs
  <2>5. /\ a = Invalid => w = Invalid
        /\ a = More => w = More
    BY <1>2, StatusIs
  <2>6. a = Parsed(<<b[p + 3].of>>, p + 5) => w = Parsed(args \o <<b[p + 3].of>>, p + 5)
    BY <1>2, <2>4
  <2> HIDE DEF a, w
  <2>7. /\ p + 4 = Len(b) => p + 4 <= Len(b)
        /\ p + 4 < Len(b) => p + 4 <= Len(b)
        /\ Len(b) < p + 4 /\ p # Len(b) => p < Len(b)
    BY <1>1, <1>4
  <2>8. p = Len(b) => w = Invalid
    BY <2>3, <2>5
  <2>9. Len(b) < p + 4 /\ p # Len(b) => w = More
    BY <2>3, <2>5, <2>7
  <2>10. p + 4 <= Len(b) /\ last = "crlf" => w = Parsed(args \o <<b[p + 3].of>>, p + 5)
    BY <2>2, <2>3, <2>6
  <2>11. p + 4 = Len(b) /\ last = "data" => w = More
    BY <2>2, <2>3, <2>5, <2>7
  <2>12. p + 4 < Len(b) /\ last = "data" => w = Invalid
    BY <2>2, <2>3, <2>5, <2>7
  <2> QED
    BY <2>8, <2>9, <2>10, <2>11, <2>12 DEF w
<1> QED
  BY <1>1, <1>3, <1>4

(* The parser takes a frame that is all there and well formed, refuses one *)
(* that is too long, and waits for the rest of any other, unless the data  *)
(* ends behind a mark or the frame is that of an empty array.              *)
LEMMA Outcome ==
    ASSUME NEW shape \in Shapes, NEW b \in Seq(Tokens), b # <<>>, Begins(b, shape),
           NEW r, r = ParseCommand(b)
    PROVE  /\ Size(shape) <= Len(b) /\ shape # "overlong" =>
                 /\ r.status = "command" /\ r.next = Size(shape) + 1
                 /\ r.args = <<>> <=> shape = "empty"
           /\ Size(shape) <= Len(b) /\ shape = "overlong" => r.status = "invalid"
           /\ Len(b) < Size(shape) /\ shape # "empty" =>
                 /\ r.status # "command"
                 /\ b[Len(b)].t \notin {"star", "dollar"} => r.status = "more"
           /\ Len(b) < Size(shape) /\ shape = "empty" =>
                 /\ r.status \in {"command", "invalid"}
                 /\ r.status = "command" => r.args = <<>>
<1> DEFINE n == Len(b)
           e == LineEnd(b, 1)
           z == Parsed(<<>>, e + 1)
           one == ReadOn(b, z)
           two == ReadOn(b, one)
<1>1. n \in Nat /\ n >= 1 /\ 1 \in 1 .. n
  OBVIOUS
<1>2. HeadAt(b, 1, "star", Arity(shape))
  BY DEF Begins
<1>3. /\ IsHeader(b, 1, "star") <=> 1 < n
      /\ 1 < n => e = IF 1 + 2 <= n THEN 1 + 2 ELSE 1 + 1
  BY <1>1, <1>2, HeaderIs
<1>4. Size(shape) \in Nat /\ Size(shape) >= 3
  BY SizeIs
<1>5. CASE n = 1
  <2>1. ~ IsHeader(b, 1, "star")
    BY <1>3, <1>5
  <2>2. r = Invalid
    BY <2>1 DEF ParseCommand
  <2>3. b[Len(b)].t = "star"
    BY <1>1, <1>2, <1>5 DEF HeadAt
  <2>4. ~(Size(shape) <= n)
    BY <1>4, <1>5
  <2> QED
    BY <2>2, <2>3, <2>4, StatusIs
<1>6. CASE n # 1
  <2>1. IsHeader(b, 1, "star") /\ 2 <= n /\ e = IF 3 <= n THEN 3 ELSE 2
    BY <1>1, <1>3, <1>6
  <2>2. b[2].v = Arity(shape)
    BY <1>1, <2>1 DEF HeadAt, Begins
  <2>3. Arity(shape) \in Nat
    BY DEF Arity
  <2>4. /\ Arity(shape) = 0 => r = z
        /\ Arity(shape) = 1 => r = one
        /\ Arity(shape) = 2 => r = two
    BY <2>1, <2>2, <2>3, ReadIs
  <2>5. z.status = "command" /\ z.args = <<>> /\ z.next = e + 1
    BY ParsedIs
  <2> HIDE DEF z, e, n
  <2>6. CASE shape = "empty"
    <3>1. r = z /\ Size(shape) = 3
      BY <2>4, <2>6 DEF Arity, Size
    <3>2. 3 <= n => e + 1 = 3 + 1
      BY <2>1
    <3> QED
      BY <2>5, <2>6, <3>1, <3>2 DEF n
  <2>7. ASSUME NEW last \in {"crlf", "data"}, StringAt(b, 4, last)
        PROVE  /\ n = 4 => one = Invalid
               /\ n < 8 /\ n # 4 => one = More
               /\ 8 <= n /\ last = "crlf" => one = Parsed(<<>> \o <<b[7].of>>, 9)
               /\ n = 8 /\ last = "data" => one = More
               /\ 8 < n /\ last = "data" => one = Invalid
    <3>1. CASE n = 2
      <4>1. e + 1 = 3 /\ 3 \in 1 .. n + 1 /\ 3 > n
        BY <2>1, <3>1
      <4>2. Argument(b, 3) = More
        BY <4>1 DEF Argument, n
      <4>3. one = More
        BY <4>1, <4>2, ReadOnIs, StatusIs DEF z, n
      <4> HIDE DEF one
      <4> QED
        BY <3>1, <4>3
    <3>2. CASE n # 2
      <4>0. e + 1 = 4 /\ 4 \in 1 .. n + 1
        BY <1>1, <2>1, <3>2
      <4>1. e + 1 = 4 /\ 4 \in 1 .. n + 1 /\ z = Parsed(<<>>, 4) /\ n \in Nat
        BY <1>1, <4>0 DEF z
      <4> DEFINE w == ReadOn(b, Parsed(<<>>, 4))
      <4>2. /\ 4 = Len(b) => w = Invalid
            /\ Len(b) < 4 + 4 /\ 4 # Len(b) => w = More
            /\ 4 + 4 <= Len(b) /\ last = "crlf" => w = Parsed(<<>> \o <<b[4 + 3].of>>, 4 + 5)
            /\ 4 + 4 = Len(b) /\ last = "data" => w = More
            /\ 4 + 4 < Len(b) /\ last = "data" => w = Invalid
        BY <2>7, <4>1, StringRead DEF n
      <4>3. one = w
        BY <4>1
      <4> HIDE DEF w, one
      <4>4. 4 + 4 = 8 /\ 4 + 3 = 7 /\ 4 + 5 = 9
        OBVIOUS
      <4> QED
        BY <4>1, <4>2, <4>3, <4>4 DEF n
    <3> QED
      BY <3>1, <3>2
  <2>8. ASSUME NEW x, NEW y
        PROVE  <<>> \o <<x>> # <<>> /\ (<<>> \o <<x>>) \o <<y>> # <<>>
    <3> DEFINE S == {x, y}
               s == <<>>
               u == <<x>>
               v == <<y>>
    <3>1. /\ s \in Seq(S) /\ Len(s) = 0 /\ u \in Seq(S) /\ Len(u) = 1
          /\ v \in Seq(S) /\ Len(v) = 1
      OBVIOUS
    <3> HIDE DEF S, s, u, v
    <3>2. s \o u \in Seq(S) /\ Len(s \o u) = Len(s) + Len(u)
      BY <3>1, ConcatProperties
    <3> DEFINE t == s \o u
    <3>3. t \in Seq(S) /\ Len(t) = 1
      BY <3>1, <3>2
    <3> HIDE DEF t
    <3> DEFINE w == t \o v
    <3>4. Len(w) = Len(t) + Len(v)
      BY <3>1, <3>3, ConcatProperties
    <3> HIDE DEF w
    <3>5. Len(w) = 2
      BY <3>1, <3>3, <3>4
    <3>6. t # s
      <4>1. Len(t) # Len(s)
        BY <3>1, <3>3
      <4> QED
        BY <4>1
    <3>7. w # s
      <4>1. Len(w) # Len(s)
        BY <3>1, <3>5
      <4> QED
        BY <4>1
    <3> QED
      BY <3>6, <3>7 DEF t, s, u, v, w
  <2>9. CASE shape = "overlong"
    <3>1. r = one /\ Size(shape) = 9 /\ StringAt(b, 4, "data")
      BY <2>4, <2>9 DEF Arity, Size, Begins
    <3>2. /\ n = 4 => r = Invalid
          /\ n < 8 /\ n # 4 => r = More
          /\ n = 8 => r = More
          /\ 8 < n => r = Invalid
      BY <2>7, <3>1
    <3>3. n = 4 => b[Len(b)].t = "dollar"
      BY <3>1 DEF StringAt, HeadAt, n
    <3> HIDE DEF one
    <3>4. n \in Nat /\ (n < 9 => n = 4 \/ (n < 8 /\ n # 4) \/ n = 8) /\ (9 <= n => 8 < n)
      BY <1>1
    <3>5. n < 9 => r.status # "command" /\ (b[Len(b)].t \notin {"star", "dollar"} => r.status = "more")
      BY <3>2, <3>3, <3>4, StatusIs
    <3>6. 9 <= n => r.status = "invalid"
      BY <3>2, <3>4, StatusIs
    <3> QED
      BY <2>9, <3>1, <3>4, <3>5, <3>6 DEF n
  <2>10. CASE shape = "denied"
    <3>1. r = one /\ Size(shape) = 8 /\ StringAt(b, 4, "crlf")
      BY <2>4, <2>10 DEF Arity, Size, Begins
    <3> DEFINE args == <<>> \o <<b[7].of>>
    <3>2. /\ n = 4 => r = Invalid
          /\ n < 8 /\ n # 4 => r = More
          /\ 8 <= n => r = Parsed(args, 9)
      BY <2>7, <3>1
    <3>3. n = 4 => b[Len(b)].t = "dollar"
      BY <3>1 DEF StringAt, HeadAt, n
    <3>7. args # <<>>
      BY <2>8
    <3> HIDE DEF one, args
    <3>4. n \in Nat /\ (n < 8 => n = 4 \/ (n < 8 /\ n # 4))
      BY <1>1 DEF n
    <3>5. n < 8 => r.status # "command" /\ (b[Len(b)].t \notin {"star", "dollar"} => r.status = "more")
      BY <3>2, <3>3, <3>4, StatusIs
    <3>6. 8 <= n => r.status = "command" /\ r.args = args /\ r.next = 9
      BY <3>2, ParsedIs
    <3> QED
      BY <2>10, <3>1, <3>5, <3>6, <3>7 DEF n
  <2>11. CASE shape = "allowed"
    <3>1. r = two /\ Size(shape) = 13 /\ StringAt(b, 4, "crlf") /\ StringAt(b, 9, "crlf")
      BY <2>4, <2>11 DEF Arity, Size, Begins
    <3> DEFINE args == <<>> \o <<b[7].of>>
               both == args \o <<b[9 + 3].of>>
    <3>2. /\ n = 4 => one = Invalid
          /\ n < 8 /\ n # 4 => one = More
          /\ 8 <= n => one = Parsed(args, 9)
      BY <2>7, <3>1
    <3>3. both # <<>>
      BY <2>8
    <3> HIDE DEF one, args
    <3>4. /\ n = 4 => r = Invalid
          /\ n < 8 /\ n # 4 => r = More
      BY <3>1, <3>2, ReadStops, StatusIs
    <3>5. ASSUME 8 <= n
          PROVE  /\ n = 9 => r = Invalid
                 /\ n < 13 /\ n # 9 => r = More
                 /\ 13 <= n => r = Parsed(both, 14)
      <4> DEFINE w == ReadOn(b, Parsed(args, 9))
      <4>1. 9 \in 1 .. Len(b) + 1
        BY <1>1, <3>5 DEF n
      <4>2. /\ 9 = Len(b) => w = Invalid
            /\ Len(b) < 9 + 4 /\ 9 # Len(b) => w = More
            /\ 9 + 4 <= Len(b) => w = Parsed(args \o <<b[9 + 3].of>>, 9 + 5)
        BY <3>1, <4>1, StringRead
      <4>3. r = w
        BY <3>1, <3>2, <3>5
      <4> HIDE DEF w
      <4>4. 9 + 4 = 13 /\ 9 + 5 = 14
        OBVIOUS
      <4> QED
        BY <4>2, <4>3, <4>4 DEF n
    <3> HIDE DEF both, two
    <3>10. n = 4 => b[Len(b)].t = "dollar"
      BY <3>1 DEF StringAt, HeadAt, n
    <3>11. n = 9 => b[Len(b)].t = "dollar"
      <4>1. HeadAt(b, 9, "dollar", 1)
        BY <3>1 DEF StringAt
      <4> QED
        BY <4>1 DEF HeadAt, n
    <3>6. (n = 4 => b[Len(b)].t = "dollar") /\ (n = 9 => b[Len(b)].t = "dollar")
      BY <3>10, <3>11
    <3>7. n \in Nat /\ (n < 13 => n = 4 \/ (n < 8 /\ n # 4) \/ n = 9 \/ (8 <= n /\ n < 13 /\ n # 9))
          /\ (13 <= n => 8 <= n) /\ (n = 9 => 8 <= n)
      BY <1>1
    <3>8. n < 13 => r.status # "command" /\ (b[Len(b)].t \notin {"star", "dollar"} => r.status = "more")
      BY <3>4, <3>5, <3>6, <3>7, StatusIs
    <3>9. 13 <= n => r.status = "command" /\ r.args = both /\ r.next = 14
      BY <3>5, <3>7, ParsedIs
    <3> QED
      BY <2>11, <3>1, <3>3, <3>8, <3>9 DEF n
  <2> QED
    BY <2>6, <2>9, <2>10, <2>11 DEF Shapes
<1> QED
  BY <1>5, <1>6
----------------------------------------------------------------------------
(* The parser and the stream                                               *)

(* The buffer begins with the frame of command i.                          *)
At(i) == i \in Ids /\ start = EndOf(i - 1) /\ start < received

LEMMA AtStar ==
    ASSUME StreamInv, start < received, stream[start + 1].t = "star"
    PROVE  At(stream[start + 1].of)
<1> DEFINE p == start + 1
           i == stream[p].of
<1>1. /\ start \in Nat /\ received \in Nat /\ received <= Len(stream) /\ Len(stream) \in Nat
      /\ Ids = 1 .. Len(script) /\ Len(script) \in Nat
      /\ \A q \in 1 .. Len(stream) : stream[q].of \in 1 .. Len(script)
  BY StreamFacts
<1>2. p \in 1 .. Len(stream)
  BY <1>1
<1> HIDE DEF p
<1>3. i \in Ids /\ i - 1 \in 0 .. Len(script)
  <2>1. i \in Ids
    BY <1>1, <1>2
  <2> HIDE DEF i
  <2> QED
    BY <1>1, <2>1
<1>4. stream[p].of = i /\ stream[p].t = "star"
  BY DEF p
<1> HIDE DEF i
<1>5. p = EndOf(i - 1) + 1
  BY <1>2, <1>3, <1>4, TokensOf
<1>6. EndOf(i - 1) \in Nat
  BY <1>3, EndsAre
<1>7. start = EndOf(i - 1)
  BY <1>1, <1>5, <1>6 DEF p
<1> QED
  BY <1>3, <1>7 DEF At, i, p

LEMMA AtIs ==
    ASSUME StreamInv, NEW i, At(i)
    PROVE  /\ Upto = i - 1 /\ i \in Nat /\ i >= 1 /\ i - 1 \in 0 .. Len(script)
           /\ i \in 0 .. Len(script) /\ Len(script) \in Nat
           /\ EndOf(i) \in Nat /\ start < EndOf(i) /\ EndOf(i) <= Len(stream)
           /\ \A j \in Ids : EndOf(j) <= EndOf(i) => EndOf(j) <= start \/ j = i
           /\ \A j \in Ids : start < EndOf(j) => EndOf(i) <= EndOf(j)
<1>1. i \in Ids /\ start = EndOf(i - 1) /\ start < received
  BY DEF At
<1>2. /\ Len(script) \in Nat /\ Ids = 1 .. Len(script) /\ start \in Nat
      /\ received \in Nat
  BY StreamFacts
<1>3. i \in Nat /\ i >= 1 /\ i - 1 \in 0 .. Len(script) /\ i \in 0 .. Len(script)
  BY <1>1, <1>2
<1>4. Upto = i - 1
  BY <1>1, <1>3, UptoEnd DEF Upto
<1>5. EndOf(i) \in Nat /\ EndOf(i) <= Len(stream)
  BY <1>3, EndsAre
<1>6. start < EndOf(i)
  <2>1. ~(EndOf(i) <= EndOf(i - 1))
    <3>1. ~(i <= i - 1)
      BY <1>3
    <3> QED
      BY <1>3, <3>1, EndsGrow
  <2> QED
    BY <1>1, <1>2, <1>5, <2>1
<1>7. ASSUME NEW j \in Ids
      PROVE  /\ EndOf(j) <= EndOf(i) => EndOf(j) <= start \/ j = i
             /\ start < EndOf(j) => EndOf(i) <= EndOf(j)
  <2>1. j \in 0 .. Len(script) /\ j \in Nat
    BY <1>2
  <2>2. /\ EndOf(j) \in Nat
        /\ EndOf(j) <= EndOf(i) <=> j <= i
        /\ EndOf(i) <= EndOf(j) <=> i <= j
        /\ EndOf(j) <= EndOf(i - 1) <=> j <= i - 1
    BY <1>3, <2>1, EndsGrow
  <2>3. j <= i => j <= i - 1 \/ j = i
    BY <1>3, <2>1
  <2>4. ~(j <= i - 1) => i <= j
    BY <1>3, <2>1
  <2>5. start < EndOf(j) => ~(EndOf(j) <= start)
    BY <1>2, <2>2
  <2> QED
    BY <1>1, <2>2, <2>3, <2>4, <2>5
<1> QED
  BY <1>2, <1>3, <1>4, <1>5, <1>6, <1>7

(* A message that ends within the header of an empty array ends where the  *)
(* parser does not wait.                                                   *)
LEMMA CutEmpty ==
    ASSUME StreamInv, NEW i, At(i), received < EndOf(i), script[i] = "empty"
    PROVE  CutsHeader(received)
<1>1. i \in Ids /\ start = EndOf(i - 1) /\ start < received
  BY DEF At
<1>2. /\ start \in Nat /\ received \in Nat /\ Len(stream) \in Nat
  BY StreamFacts
<1>3. EndOf(i) \in Nat /\ EndOf(i) <= Len(stream)
  BY AtIs
<1>4. /\ received \in 1 .. Len(stream) /\ received + 1 \in 1 .. Len(stream)
      /\ received < Len(stream) /\ EndOf(i - 1) < received /\ received <= EndOf(i)
      /\ EndOf(i - 1) < received + 1 /\ received + 1 <= EndOf(i)
  BY <1>1, <1>2, <1>3
<1>5. stream[received].of = i /\ stream[received + 1].of = i
  BY <1>1, <1>4, TokensOf
<1> QED
  BY <1>4, <1>5 DEF CutsHeader

(* What is taken out of the buffer is the frame of the next command, or    *)
(* the part of an empty array that the message ends with.                  *)
LEMMA Taken ==
    ASSUME StreamInv, NEW r, r = ParseCommand(Buffer), r.status = "command"
    PROVE  \E i :
             /\ At(i)
             /\ LET m == start + r.next - 1
                IN  \/ /\ m = EndOf(i) /\ script[i] # "overlong"
                       /\ r.args = <<>> <=> script[i] = "empty"
                       /\ r.args # <<>> => Name(r.args) = i
                    \/ /\ m < EndOf(i) /\ script[i] = "empty" /\ r.args = <<>>
                       /\ received < EndOf(i)
<1> DEFINE b == Buffer
           i == stream[start + 1].of
           m == start + r.next - 1
<1>1. /\ Stretch(b, script) /\ Len(b) = received - start /\ b \in Seq(Tokens)
      /\ \A k \in 1 .. received - start : b[k] = stream[start + k]
  BY BufferIs DEF Stretch
<1>2. start \in Nat /\ received \in Nat /\ start <= received
  BY StreamFacts
<1>3. 1 <= Len(b) /\ b[1].t = "star"
  <2> HIDE DEF b
  <2> QED
    BY <1>1, ParseSound DEF b
<1>4. start < received /\ stream[start + 1].t = "star"
  <2>1. start < received
    <3> HIDE DEF b
    <3> QED
      BY <1>1, <1>2, <1>3
  <2>2. 1 \in 1 .. received - start
    BY <1>2, <2>1
  <2> QED
    BY <1>1, <1>3, <2>1, <2>2
<1>5. At(i)
  BY <1>4, AtStar
<1> HIDE DEF i
<1>6. /\ m \in start + 1 .. received /\ m \in Nat
      /\ r.args # <<>> => /\ Name(r.args) \in Ids /\ Upto < Name(r.args)
                          /\ Name(r.args) <= UptoAt(m)
  BY ParsedIsNext
<1>7. /\ Begins(b, script[i]) /\ script[i] \in Shapes
      /\ EndOf(i) <= received <=> Size(script[i]) <= Len(b)
      /\ EndOf(i) = start + Size(script[i]) /\ Len(b) \in Nat
  BY <1>4, <1>5, BufferBegins DEF At
<1>8. /\ Upto = i - 1 /\ i \in Nat /\ EndOf(i) \in Nat /\ i \in 0 .. Len(script)
      /\ Ids = 1 .. Len(script) /\ Len(script) \in Nat
  BY <1>5, AtIs, StreamFacts
<1>9. Size(script[i]) \in Nat
  BY <1>7, SizeIs
<1>10. b # <<>>
  BY <1>3
<1>11. r = ParseCommand(b)
  OBVIOUS
<1> HIDE DEF b
<1>12. /\ Size(script[i]) <= Len(b) /\ script[i] # "overlong" =>
             r.next = Size(script[i]) + 1 /\ (r.args = <<>> <=> script[i] = "empty")
       /\ Size(script[i]) <= Len(b) => script[i] # "overlong"
       /\ Len(b) < Size(script[i]) => script[i] = "empty" /\ r.args = <<>>
  <2>1. "invalid" # "command"
    OBVIOUS
  <2> QED
    BY <1>1, <1>7, <1>10, <1>11, <2>1, Outcome
<1>13. CASE Size(script[i]) <= Len(b)
  <2>1. r.next = Size(script[i]) + 1 /\ (r.args = <<>> <=> script[i] = "empty")
        /\ script[i] # "overlong"
    BY <1>12, <1>13
  <2>2. m = EndOf(i)
    BY <1>2, <1>7, <1>9, <2>1
  <2>3. UptoAt(m) = i
    BY <1>8, <2>2, UptoEnd
  <2>4. r.args # <<>> => Name(r.args) = i
    <3> HIDE DEF m
    <3>1. r.args # <<>> => /\ Name(r.args) \in Nat /\ i - 1 < Name(r.args) /\ Name(r.args) <= i
      BY <1>6, <1>8, <2>3
    <3> QED
      BY <1>8, <3>1
  <2> QED
    BY <1>5, <2>1, <2>2, <2>4
<1>14. CASE Len(b) < Size(script[i])
  <2>1. script[i] = "empty" /\ r.args = <<>>
    BY <1>12, <1>14
  <2>2. received < EndOf(i)
    BY <1>2, <1>7, <1>8, <1>9, <1>14
  <2>3. m < EndOf(i)
    <3> HIDE DEF m
    <3> QED
      BY <1>2, <1>6, <1>8, <2>2
  <2> QED
    BY <1>5, <2>1, <2>2, <2>3
<1> QED
  BY <1>7, <1>9, <1>13, <1>14

(* A buffer that the parser wants more of holds no command as a whole.     *)
LEMMA MoreIsPart ==
    ASSUME StreamInv, ParseCommand(Buffer).status = "more",
           NEW j \in Ids, EndOf(j) <= received
    PROVE  EndOf(j) <= start
<1> DEFINE b == Buffer
           i == stream[start + 1].of
<1>1. /\ Len(b) = received - start /\ b \in Seq(Tokens)
      /\ \A k \in 1 .. received - start : b[k] = stream[start + k]
  BY BufferIs DEF Stretch
<1>2. /\ start \in Nat /\ received \in Nat /\ start <= received
      /\ Ids = 1 .. Len(script) /\ Len(script) \in Nat
  BY StreamFacts
<1>3. EndOf(j) \in Nat
  <2>1. j \in 0 .. Len(script)
    BY <1>2
  <2> QED
    BY <2>1, EndsAre
<1> SUFFICES ASSUME start < EndOf(j) PROVE FALSE
  BY <1>2, <1>3
<1>4. start < received
  BY <1>2, <1>3
<1>5. b # <<>> /\ 1 \in 1 .. received - start /\ b[1] = stream[start + 1]
  <2>1. 1 \in 1 .. received - start /\ received - start >= 1
    BY <1>2, <1>4
  <2> HIDE DEF b
  <2> QED
    BY <1>1, <2>1
<1>6. stream[start + 1].t = "star"
  <2>1. IsHeader(b, 1, "star")
    <3>1. ~ IsHeader(b, 1, "star") => ParseCommand(b) = Invalid
      BY <1>5 DEF ParseCommand
    <3> QED
      BY <3>1, StatusIs
  <2> QED
    BY <1>5, <2>1 DEF IsHeader
<1>7. At(i)
  BY <1>4, <1>6, AtStar
<1> HIDE DEF i
<1>8. EndOf(i) <= EndOf(j) /\ EndOf(i) \in Nat
  BY <1>7, AtIs
<1>9. EndOf(i) <= received
  BY <1>2, <1>3, <1>8
<1>10. /\ Begins(b, script[i]) /\ script[i] \in Shapes /\ Size(script[i]) <= Len(b)
  BY <1>4, <1>7, <1>9, BufferBegins DEF At
<1> HIDE DEF b
<1>11. ParseCommand(b).status \in {"command", "invalid"}
  BY <1>1, <1>5, <1>10, Outcome
<1> QED
  BY <1>11 DEF b

(* What is refused at the beginning of a frame is not well formed, or the  *)
(* message ended where the parser does not wait.                           *)
LEMMA RefusedIs ==
    ASSUME StreamInv, ParseCommand(Buffer).status = "invalid"
    PROVE  /\ start < received
           /\ start = EndOf(Upto) =>
                 CutsHeader(received) \/ \E i \in Ids : script[i] \notin WellFormed
<1> DEFINE b == Buffer
           i == Upto + 1
<1>1. /\ Len(b) = received - start /\ b \in Seq(Tokens)
      /\ \A k \in 1 .. received - start : b[k] = stream[start + k]
  BY BufferIs DEF Stretch
<1>2. /\ start \in Nat /\ received \in Nat /\ start <= received /\ received <= Len(stream)
      /\ Ids = 1 .. Len(script) /\ Len(script) \in Nat /\ Len(stream) \in Nat
  BY StreamFacts
<1>3. b # <<>>
  <2>1. b = <<>> => ParseCommand(b) = More
    BY DEF ParseCommand
  <2> QED
    BY <2>1, StatusIs
<1>4. start < received
  <2> HIDE DEF b
  <2> QED
    BY <1>1, <1>2, <1>3
<1>5. ASSUME start = EndOf(Upto), ~ CutsHeader(received),
             \A k \in Ids : script[k] \in WellFormed
      PROVE  FALSE
  <2>1. Upto \in Nat /\ Upto <= Len(script)
    <3>1. start \in 0 .. Len(stream)
      BY <1>2
    <3> QED
      BY <3>1, <1>2, UptoGrows DEF Upto
  <2>2. Upto # Len(script)
    <3>1. EndOf(Len(script)) = Len(stream)
      BY EndsAre
    <3> QED
      BY <1>2, <1>4, <1>5, <3>1
  <2>3. i \in Ids /\ i - 1 = Upto
    BY <1>2, <2>1, <2>2
  <2> HIDE DEF i
  <2>4. At(i)
    BY <1>4, <1>5, <2>3 DEF At
  <2>5. /\ Begins(b, script[i]) /\ script[i] \in Shapes
        /\ EndOf(i) <= received <=> Size(script[i]) <= Len(b)
        /\ Len(b) \in Nat /\ Len(b) >= 1
    BY <1>4, <2>4, BufferBegins DEF At
  <2>6. /\ EndOf(i) \in Nat /\ EndOf(i) <= Len(stream)
    BY <2>4, AtIs
  <2>7. Size(script[i]) \in Nat
    BY <2>5, SizeIs
  <2>8. script[i] \in WellFormed /\ script[i] # "overlong"
    BY <1>5, <2>3 DEF WellFormed
  <2>9. stream[received] = b[Len(b)]
    <3>1. received - start \in 1 .. received - start /\ start + (received - start) = received
      BY <1>2, <1>4
    <3> HIDE DEF b
    <3> QED
      BY <1>1, <3>1
  <2> HIDE DEF b
  <2>10. ParseCommand(b).status = "invalid"
    BY DEF b
  <2>11. Len(b) < Size(script[i]) /\ script[i] # "empty" => b[Len(b)].t \in {"star", "dollar"}
    BY <1>1, <1>3, <2>5, <2>10, Outcome
  <2>12. ~(Size(script[i]) <= Len(b))
    BY <1>1, <1>3, <2>5, <2>8, <2>10, Outcome
  <2>13. Len(b) < Size(script[i]) /\ received < EndOf(i)
    BY <1>2, <2>5, <2>6, <2>7, <2>12
  <2>14. CASE script[i] = "empty"
    BY <1>5, <2>4, <2>13, <2>14, CutEmpty
  <2>15. CASE script[i] # "empty"
    <3>1. stream[received].t \in {"star", "dollar"}
      BY <2>9, <2>11, <2>13, <2>15
    <3>2. received < Len(stream)
      BY <1>2, <2>6, <2>13
    <3> QED
      BY <1>5, <3>1, <3>2 DEF CutsHeader
  <2> QED
    BY <2>14, <2>15
<1> QED
  BY <1>4, <1>5
----------------------------------------------------------------------------
(* Nothing is lost without a reason                                        *)

Named(i) == script[i] \in {"allowed", "denied"}

(* A socket's handler that waits for the next message, or will once it has *)
(* replied.                                                                *)
Waits == kind # "http" /\ (pc = "recv" \/ (pc = "reply" /\ EndsMessage))

(* What is behind a socket's handler has its answer, was reported as       *)
(* invalid, or is in the hand.                                             *)
HandledInv ==
    kind # "http" /\ writer = "running" /\ pc # "done" =>
        \A i \in Ids : Named(i) /\ EndOf(i) <= start =>
                           i \in DeliveredIds \cup lost \cup {Pending}

(* What has come as a whole is behind a handler that waits.                *)
WaitInv == Waits => \A i \in Ids : EndOf(i) <= received => EndOf(i) <= start

CutInv == ~ badCut /\ received > 0 => ~ CutsHeader(received)

(* Without a bad cut the handler is between two frames.                    *)
FrameInv == ~ badCut /\ lost = {} => start = EndOf(Upto)

ReasonInv == lost # {} => badCut \/ \E i \in Ids : script[i] \notin WellFormed

(* A request has an answer, or the hand, for every frame behind it.        *)
RequestInv ==
    kind = "http" =>
        /\ lost = {}
        /\ pc = "recv" => ~ badCut
        /\ ~ badCut => /\ pc \in {"recv", "parse"} => Len(out) = Upto
                       /\ pc = "execute" => Len(out) + 1 = Upto
                       /\ status = 200 => Len(answers) = Upto /\ start = received

LossInv == HandledInv /\ WaitInv /\ CutInv /\ FrameInv /\ ReasonInv /\ RequestInv

LEMMA SameEnds ==
    ASSUME UNCHANGED input
    PROVE  /\ \A i : EndOf(i)' = EndOf(i) /\ (Named(i)' <=> Named(i))
           /\ \A n : CutsHeader(n)' <=> CutsHeader(n)
           /\ \A n : UptoAt(n)' = UptoAt(n)
           /\ Ids' = Ids /\ kind' = kind /\ script' = script
<1>1. kind' = kind /\ script' = script /\ stream' = stream
  BY DEF input
<1>2. \A i : EndOf(i)' = EndOf(i)
  BY <1>1 DEF EndOf
<1>3. \A i : Named(i)' <=> Named(i)
  BY <1>1 DEF Named
<1>4. \A n : CutsHeader(n)' <=> CutsHeader(n)
  BY <1>1 DEF CutsHeader
<1>5. \A n : UptoAt(n)' = UptoAt(n)
  BY <1>1 DEF UptoAt
<1>6. Ids' = Ids
  BY <1>1 DEF Ids
<1> QED
  BY <1>1, <1>2, <1>3, <1>4, <1>5, <1>6

(* What was on its way to the client still is.                             *)
Keeps ==
    kind # "http" /\ writer' = "running" /\ pc' # "done" =>
        /\ writer = "running" /\ pc # "done"
        /\ \A i \in Ids : i \in DeliveredIds \cup {Pending} =>
                              i \in DeliveredIds' \cup {Pending'}

(* A step that leaves the buffer alone.                                    *)
LEMMA Quiet ==
    ASSUME LossInv, UNCHANGED <<input, start, received, lost, badCut>>,
           Waits' => Waits, Keeps, RequestInv'
    PROVE  LossInv'
<1>1. /\ \A i : EndOf(i)' = EndOf(i) /\ (Named(i)' <=> Named(i))
      /\ \A n : CutsHeader(n)' <=> CutsHeader(n)
      /\ Ids' = Ids /\ kind' = kind /\ script' = script
  BY SameEnds
<1>2. Upto' = Upto
  BY DEF Upto, UptoAt, input
<1>3. start' = start /\ received' = received /\ lost' = lost /\ badCut' = badCut
  OBVIOUS
<1>4. HandledInv'
  <2> SUFFICES ASSUME kind # "http", writer' = "running", pc' # "done",
                      NEW i \in Ids, Named(i), EndOf(i) <= start
               PROVE  i \in DeliveredIds' \cup lost \cup {Pending'}
    BY <1>1, <1>3 DEF HandledInv
  <2>1. i \in DeliveredIds \cup lost \cup {Pending}
    BY DEF LossInv, HandledInv, Keeps
  <2> QED
    BY <2>1 DEF Keeps
<1>5. WaitInv'
  BY <1>1, <1>3 DEF LossInv, WaitInv
<1>6. CutInv'
  BY <1>1, <1>3 DEF LossInv, CutInv
<1>7. FrameInv'
  BY <1>1, <1>2, <1>3 DEF LossInv, FrameInv
<1>8. ReasonInv'
  BY <1>1, <1>3 DEF LossInv, ReasonInv
<1> QED
  BY <1>4, <1>5, <1>6, <1>7, <1>8 DEF LossInv

LEMMA MessageLoss ==
    ASSUME IInv, LossInv, NEW n, ReceiveMessage(n)
    PROVE  LossInv'
<1>1. /\ pc = "recv" /\ kind # "http" /\ received' = n /\ badCut' = (badCut \/ CutsHeader(n))
      /\ pc' = "parse" /\ UNCHANGED <<input, start, hand, lost, out, writer, answers>>
  BY DEF ReceiveMessage, output
<1>2. /\ \A i : EndOf(i)' = EndOf(i) /\ (Named(i)' <=> Named(i))
      /\ \A m : CutsHeader(m)' <=> CutsHeader(m)
      /\ Ids' = Ids /\ kind' = kind /\ script' = script
  BY <1>1, SameEnds
<1>3. Upto' = Upto
  BY <1>1 DEF Upto, UptoAt, input
<1>4. HandledInv'
  <2>1. DeliveredIds' = DeliveredIds
    BY <1>1, <1>2 DEF DeliveredIds
  <2>2. Pending' = Pending
    BY <1>1 DEF Pending
  <2> QED
    BY <1>1, <1>2, <2>1, <2>2 DEF LossInv, HandledInv
<1>5. WaitInv'
  BY <1>1 DEF WaitInv, Waits
<1>6. CutInv'
  BY <1>1, <1>2 DEF CutInv
<1>7. FrameInv'
  BY <1>1, <1>2, <1>3 DEF LossInv, FrameInv
<1>8. ReasonInv'
  BY <1>1, <1>2 DEF LossInv, ReasonInv
<1>9. RequestInv'
  BY <1>1, <1>2 DEF RequestInv
<1> QED
  BY <1>4, <1>5, <1>6, <1>7, <1>8, <1>9 DEF LossInv

LEMMA BodyLoss ==
    ASSUME IInv, LossInv, NEW n, ReceiveBody(n)
    PROVE  LossInv'
<1>1. /\ pc = "recv" /\ kind = "http" /\ received' = n /\ badCut' = (n > 0 /\ CutsHeader(n))
      /\ UNCHANGED <<input, start, hand, lost, out, writer, answers>>
      /\ (pc' = "done" /\ status' = 400) \/ (pc' = "parse" /\ status' = status)
  BY DEF ReceiveBody
<1>2. /\ \A i : EndOf(i)' = EndOf(i) /\ (Named(i)' <=> Named(i))
      /\ \A m : CutsHeader(m)' <=> CutsHeader(m)
      /\ Ids' = Ids /\ kind' = kind /\ script' = script
  BY <1>1, SameEnds
<1>3. Upto' = Upto
  BY <1>1 DEF Upto, UptoAt, input
<1>4. StreamInv /\ PipelineInv
  BY DEF IInv
<1>5. start = 0 /\ Upto = 0 /\ EndOf(0) = 0 /\ status = 0
  <2>1. received = 0 /\ status = 0
    BY <1>1, <1>4 DEF PipelineInv
  <2>2. start = 0
    BY <1>4, <2>1, StreamFacts
  <2>3. EndOf(0) = 0
    BY <1>4, EndsAre
  <2> QED
    BY <2>1, <2>2, <2>3 DEF Upto, UptoAt
<1>6. lost = {} /\ Len(out) = Upto
  BY <1>1 DEF LossInv, RequestInv
<1>7. HandledInv' /\ WaitInv'
  BY <1>1, <1>2 DEF HandledInv, WaitInv, Waits
<1>8. CutInv'
  BY <1>1, <1>2 DEF CutInv
<1>9. FrameInv' /\ ReasonInv'
  BY <1>1, <1>2, <1>3, <1>5, <1>6 DEF FrameInv, ReasonInv
<1>10. RequestInv'
  BY <1>1, <1>2, <1>3, <1>5, <1>6 DEF RequestInv
<1> QED
  BY <1>7, <1>8, <1>9, <1>10 DEF LossInv

(* Without a bad cut, taking a command moves the handler by one frame; in  *)
(* any case no command with a name is left behind but the one in hand.     *)
LEMMA TakeLoss ==
    ASSUME StreamInv, CutInv, UNCHANGED <<input, badCut>>,
           NEW r, r = ParseCommand(Buffer), r.status = "command", Consume(r)
    PROVE  /\ ~ badCut => start' = EndOf(Upto') /\ Upto' = Upto + 1 /\ Upto \in Nat
           /\ FrameInv'
           /\ \A j \in Ids : Named(j) /\ EndOf(j) <= start' =>
                 EndOf(j) <= start \/ (r.args # <<>> /\ j = Name(r.args))
<1> DEFINE m == start + r.next - 1
<1>1. PICK i : /\ At(i)
               /\ \/ /\ m = EndOf(i) /\ script[i] # "overlong"
                     /\ r.args = <<>> <=> script[i] = "empty"
                     /\ r.args # <<>> => Name(r.args) = i
                  \/ /\ m < EndOf(i) /\ script[i] = "empty" /\ r.args = <<>>
                     /\ received < EndOf(i)
  BY Taken
<1>2. m \in start + 1 .. received /\ m \in Nat
  BY ParsedIsNext
<1>3. start' = m
  BY DEF Consume
<1> HIDE DEF m
<1>4. /\ start \in Nat /\ received \in Nat /\ received > 0 /\ Ids = 1 .. Len(script)
      /\ Len(script) \in Nat
  <2>1. start \in Nat /\ received \in Nat /\ Ids = 1 .. Len(script) /\ Len(script) \in Nat
    BY StreamFacts
  <2>2. start < received
    BY <1>1 DEF At
  <2> QED
    BY <2>1, <2>2
<1>5. /\ Upto = i - 1 /\ i \in Nat /\ i >= 1 /\ i \in 0 .. Len(script)
      /\ EndOf(i) \in Nat
      /\ \A j \in Ids : EndOf(j) <= EndOf(i) => EndOf(j) <= start \/ j = i
  BY <1>1, AtIs
<1>6. /\ \A j : EndOf(j)' = EndOf(j)
      /\ \A n : UptoAt(n)' = UptoAt(n)
  BY SameEnds
<1>7. ASSUME ~ badCut
      PROVE  start' = EndOf(Upto') /\ Upto' = Upto + 1 /\ Upto \in Nat
  <2>1. ~ CutsHeader(received)
    BY <1>4, <1>7 DEF CutInv
  <2>2. m = EndOf(i)
    BY <1>1, <2>1, CutEmpty
  <2>3. Upto' = i
    <3>1. Upto' = UptoAt(m)
      BY <1>3 DEF Upto, UptoAt, input
    <3>2. UptoAt(EndOf(i)) = i
      BY <1>5, UptoEnd
    <3> QED
      BY <2>2, <3>1, <3>2
  <2> QED
    BY <1>3, <1>5, <2>2, <2>3
<1>8. FrameInv'
  <2>1. \A j : EndOf(j)' = EndOf(j)
    BY <1>6
  <2>2. badCut' = badCut
    OBVIOUS
  <2>3. start' = EndOf(Upto') => start' = EndOf(Upto)'
    BY DEF EndOf, input
  <2> QED
    BY <1>7, <2>2, <2>3 DEF FrameInv
<1>9. ASSUME NEW j \in Ids, Named(j), EndOf(j) <= start'
      PROVE  EndOf(j) <= start \/ (r.args # <<>> /\ j = Name(r.args))
  <2>0. EndOf(j) \in Nat
    <3>1. j \in 0 .. Len(script)
      BY <1>4
    <3> QED
      BY <3>1, EndsAre
  <2>1. EndOf(j) <= EndOf(i)
    BY <1>1, <1>2, <1>3, <1>5, <1>9, <2>0
  <2>2. CASE j # i
    BY <1>5, <2>1, <2>2
  <2>3. CASE j = i
    <3>1. script[i] # "empty"
      BY <1>9, <2>3 DEF Named
    <3> QED
      BY <1>1, <2>3, <3>1
  <2> QED
    BY <2>2, <2>3
<1> QED
  BY <1>7, <1>8, <1>9
LEMMA SocketTakes ==
    ASSUME IInv, LossInv, pc = "parse", kind # "http",
           UNCHANGED <<input, received, output, lost, badCut>>,
           NEW r, r = ParseCommand(Buffer), r.status = "command", Consume(r), ~ Waits',
           r.args # <<>> => pc' \in {"execute", "reply"} /\ hand'.id = Name(r.args)
    PROVE  LossInv'
<1>1. /\ \A i : EndOf(i)' = EndOf(i) /\ (Named(i)' <=> Named(i))
      /\ \A m : CutsHeader(m)' <=> CutsHeader(m)
      /\ Ids' = Ids /\ kind' = kind /\ script' = script
  BY SameEnds
<1>2. StreamInv /\ CutInv
  BY DEF IInv, LossInv
<1>3. /\ FrameInv'
      /\ \A j \in Ids : Named(j) /\ EndOf(j) <= start' =>
            EndOf(j) <= start \/ (r.args # <<>> /\ j = Name(r.args))
  BY <1>2, TakeLoss
<1>4. HandledInv'
  <2>0. DeliveredIds' = DeliveredIds /\ writer' = writer
    BY <1>1 DEF DeliveredIds, output
  <2> SUFFICES ASSUME writer = "running", NEW i \in Ids, Named(i), EndOf(i) <= start'
               PROVE  i \in DeliveredIds \cup lost \cup {Pending'}
    BY <1>1, <2>0 DEF HandledInv
  <2>1. CASE EndOf(i) <= start
    <3>1. Pending = 0 /\ i # 0
      BY <1>2, IdsAre DEF Pending
    <3>2. i \in DeliveredIds \cup lost \cup {Pending}
      BY <2>1 DEF LossInv, HandledInv
    <3> QED
      BY <3>1, <3>2
  <2>2. CASE r.args # <<>> /\ i = Name(r.args)
    BY <2>2 DEF Pending
  <2> QED
    BY <1>3, <2>1, <2>2
<1>5. WaitInv'
  BY DEF WaitInv
<1>6. CutInv' /\ ReasonInv'
  BY <1>1 DEF LossInv, CutInv, ReasonInv
<1>7. RequestInv'
  BY <1>1 DEF RequestInv
<1> QED
  BY <1>3, <1>4, <1>5, <1>6, <1>7 DEF LossInv

LEMMA SocketRefuses ==
    ASSUME IInv, LossInv, pc = "parse", kind # "http", Refuse,
           UNCHANGED <<input, received, output, badCut>>,
           ParseCommand(Buffer).status = "invalid"
    PROVE  LossInv'
<1> DEFINE b == Buffer
<1>1. /\ \A i : EndOf(i)' = EndOf(i) /\ (Named(i)' <=> Named(i))
      /\ \A m : CutsHeader(m)' <=> CutsHeader(m)
      /\ Ids' = Ids /\ kind' = kind /\ script' = script
  BY SameEnds
<1>2. StreamInv
  BY DEF IInv
<1>3. /\ lost' = lost \cup {k.of : k \in ToSet(b)} /\ start' = received
      /\ pc' = "reply" /\ received' = received /\ badCut' = badCut
  BY DEF Refuse
<1>4. /\ Len(b) = received - start /\ b \in Seq(Tokens)
      /\ \A k \in 1 .. received - start : b[k] = stream[start + k]
  BY <1>2, BufferIs DEF Stretch
<1>5. /\ start \in Nat /\ received \in Nat /\ Ids = 1 .. Len(script) /\ Len(script) \in Nat
      /\ received <= Len(stream) /\ Len(stream) \in Nat
  BY <1>2, StreamFacts
<1>6. /\ start < received
      /\ start = EndOf(Upto) =>
            CutsHeader(received) \/ \E i \in Ids : script[i] \notin WellFormed
  BY <1>2, RefusedIs
<1> HIDE DEF b
<1>7. ASSUME NEW p \in start + 1 .. received PROVE stream[p].of \in lost'
  <2> DEFINE k == p - start
  <2>1. k \in 1 .. received - start /\ start + k = p
    BY <1>5
  <2> HIDE DEF k
  <2>2. b[k] = stream[p] /\ k \in DOMAIN b
    BY <1>4, <2>1
  <2>3. b[k] \in ToSet(b)
    BY <2>2 DEF ToSet
  <2> QED
    BY <1>3, <2>2, <2>3
<1>8. HandledInv'
  <2>0. DeliveredIds' = DeliveredIds /\ writer' = writer
    BY <1>1 DEF DeliveredIds, output
  <2> SUFFICES ASSUME writer = "running", NEW i \in Ids, Named(i), EndOf(i) <= received
               PROVE  i \in DeliveredIds \cup lost' \cup {Pending'}
    BY <1>1, <1>3, <2>0 DEF HandledInv
  <2>1. CASE EndOf(i) <= start
    <3>1. Pending = 0 /\ i # 0
      BY <1>2, IdsAre DEF Pending, IInv, HandInv
    <3>2. i \in DeliveredIds \cup lost \cup {Pending}
      BY <2>1 DEF LossInv, HandledInv
    <3> QED
      BY <1>3, <3>1, <3>2
  <2>2. CASE ~(EndOf(i) <= start)
    <3>1. i \in 1 .. Len(script) /\ i - 1 \in 0 .. Len(script) /\ i \in 0 .. Len(script)
      BY <1>5
    <3>2. EndOf(i) \in Nat /\ EndOf(i - 1) \in Nat
      BY <1>2, <3>1, EndsAre
    <3>3. ~(EndOf(i) <= EndOf(i - 1))
      <4>1. ~(i <= i - 1)
        BY <3>1
      <4> QED
        BY <1>2, <3>1, <4>1, EndsGrow
    <3>4. /\ EndOf(i) \in start + 1 .. received /\ EndOf(i) \in 1 .. Len(stream)
          /\ EndOf(i - 1) < EndOf(i) /\ EndOf(i) <= EndOf(i)
      BY <1>5, <2>2, <3>2, <3>3
    <3>5. stream[EndOf(i)].of = i
      BY <1>2, <3>4, TokensOf
    <3> QED
      BY <1>7, <3>4, <3>5
  <2> QED
    BY <2>1, <2>2
<1>9. WaitInv'
  BY <1>1, <1>3 DEF WaitInv
<1>10. CutInv'
  BY <1>1, <1>3 DEF LossInv, CutInv
<1>11. lost' # {}
  <2>1. received \in start + 1 .. received
    BY <1>5, <1>6
  <2> QED
    BY <1>7, <2>1
<1>12. FrameInv'
  BY <1>11 DEF FrameInv
<1>13. ReasonInv'
  <2> SUFFICES ASSUME ~ badCut PROVE \E i \in Ids : script[i] \notin WellFormed
    BY <1>1, <1>3 DEF ReasonInv
  <2>1. CASE lost # {}
    BY <2>1 DEF LossInv, ReasonInv
  <2>2. CASE lost = {}
    <3>1. start = EndOf(Upto)
      BY <2>2 DEF LossInv, FrameInv
    <3>2. received > 0
      BY <1>5, <1>6
    <3>3. ~ CutsHeader(received)
      BY <3>2 DEF LossInv, CutInv
    <3> QED
      BY <1>6, <3>1, <3>3
  <2> QED
    BY <2>1, <2>2
<1>14. RequestInv'
  BY <1>1 DEF RequestInv
<1> QED
  BY <1>8, <1>9, <1>10, <1>12, <1>13, <1>14 DEF LossInv

LEMMA SocketWaits ==
    ASSUME IInv, LossInv, pc = "parse", kind # "http", pc' = "recv",
           UNCHANGED <<input, start, received, hand, output, lost, badCut>>,
           ParseCommand(Buffer).status = "more"
    PROVE  LossInv'
<1>1. /\ \A i : EndOf(i)' = EndOf(i) /\ (Named(i)' <=> Named(i))
      /\ \A m : CutsHeader(m)' <=> CutsHeader(m)
      /\ Ids' = Ids /\ kind' = kind /\ script' = script
  BY SameEnds
<1>2. StreamInv
  BY DEF IInv
<1>3. HandledInv'
  <2>1. DeliveredIds' = DeliveredIds /\ writer' = writer
    BY <1>1 DEF DeliveredIds, output
  <2>2. Pending' = Pending
    BY DEF Pending
  <2> QED
    BY <1>1, <2>1, <2>2 DEF LossInv, HandledInv
<1>4. WaitInv'
  <2>1. \A i \in Ids : EndOf(i) <= received => EndOf(i) <= start
    BY <1>2, MoreIsPart
  <2> QED
    BY <1>1, <2>1 DEF WaitInv
<1>5. CutInv' /\ ReasonInv'
  BY <1>1 DEF LossInv, CutInv, ReasonInv
<1>6. FrameInv'
  <2>1. Upto' = Upto
    BY DEF Upto, UptoAt, input
  <2> QED
    BY <1>1, <2>1 DEF LossInv, FrameInv
<1>7. RequestInv'
  BY <1>1 DEF RequestInv
<1> QED
  BY <1>3, <1>4, <1>5, <1>6, <1>7 DEF LossInv

LEMMA RawParseLoss ==
    ASSUME IInv, LossInv, RawParse PROVE LossInv'
<1> DEFINE r == ParseCommand(Buffer)
<1>1. r.status \in Statuses
  BY ParseStatus DEF IInv
<1>2. /\ UNCHANGED <<input, received, output, badCut>> /\ kind' = kind
      /\ pc = "parse" /\ kind = "raw" /\ kind # "http"
  BY DEF RawParse, input
<1>3. CASE r.status = "command" /\ r.args = <<>>
  <2>1. Consume(r) /\ UNCHANGED <<pc, hand, lost>>
    BY <1>3 DEF RawParse, SkipEmpty
  <2>2. ~ Waits'
    BY <1>2, <2>1 DEF Waits
  <2>3. r = ParseCommand(Buffer) /\ r.status = "command" /\ r.args = <<>>
    BY <1>3
  <2> HIDE DEF r
  <2> QED
    BY <1>2, <2>1, <2>2, <2>3, SocketTakes
<1>4. CASE r.status = "command" /\ r.args # <<>>
  <2>1. Consume(r) /\ pc' = "execute" /\ hand' = Answer(Name(r.args), "none") /\ UNCHANGED lost
    BY <1>4 DEF RawParse
  <2>2. ~ Waits'
    BY <2>1 DEF Waits
  <2>3. hand'.id = Name(r.args)
    BY <2>1, AnswerIs
  <2>4. r = ParseCommand(Buffer) /\ r.status = "command"
    BY <1>4
  <2> HIDE DEF r
  <2> QED
    BY <1>2, <2>1, <2>2, <2>3, <2>4, SocketTakes
<1>5. CASE r.status = "more"
  <2>1. pc' = "recv" /\ UNCHANGED <<start, hand, lost>>
    BY <1>5 DEF RawParse
  <2> QED
    BY <1>2, <1>5, <2>1, SocketWaits
<1>6. CASE r.status = "invalid"
  <2>1. Refuse
    BY <1>6 DEF RawParse
  <2> QED
    BY <1>2, <1>6, <2>1, SocketRefuses
<1> QED
  BY <1>1, <1>3, <1>4, <1>5, <1>6 DEF Statuses

LEMMA CompatParseLoss ==
    ASSUME IInv, LossInv, CompatParse PROVE LossInv'
<1> DEFINE r == ParseCommand(Buffer)
<1>1. r.status \in Statuses
  BY ParseStatus DEF IInv
<1>2. /\ UNCHANGED <<input, received, output, badCut>> /\ kind' = kind
      /\ pc = "parse" /\ kind = "compat" /\ kind # "http"
  BY DEF CompatParse, input
<1>3. CASE r.status = "command"
  <2> DEFINE i == Name(r.args)
  <2>1. /\ Consume(r) /\ UNCHANGED lost
        /\ \/ r.args = <<>> /\ pc' = "reply" /\ hand' = Answer(0, "emptyCommand")
           \/ r.args # <<>> /\ pc' = "reply" /\ hand' = Answer(i, "forbidden")
           \/ r.args # <<>> /\ pc' = "execute" /\ hand' = Answer(i, "none")
    BY <1>3 DEF CompatParse
  <2>2. /\ r.args # <<>> => pc' \in {"execute", "reply"} /\ hand'.id = i
        /\ hand'.res \in {"emptyCommand", "forbidden", "none"} /\ pc' # "recv"
    BY <2>1, AnswerIs
  <2>3. ~ Waits'
    BY <2>2 DEF Waits, EndsMessage
  <2>4. r = ParseCommand(Buffer) /\ r.status = "command" /\ i = Name(r.args)
    BY <1>3
  <2> HIDE DEF r, i
  <2> QED
    BY <1>2, <2>1, <2>2, <2>3, <2>4, SocketTakes
<1>4. CASE r.status = "more"
  <2>1. pc' = "recv" /\ UNCHANGED <<start, hand, lost>>
    BY <1>4 DEF CompatParse
  <2> QED
    BY <1>2, <1>4, <2>1, SocketWaits
<1>5. CASE r.status = "invalid"
  <2>1. Refuse
    BY <1>5 DEF CompatParse
  <2> QED
    BY <1>2, <1>5, <2>1, SocketRefuses
<1> QED
  BY <1>1, <1>3, <1>4, <1>5 DEF Statuses
LEMMA HttpParseLoss ==
    ASSUME IInv, LossInv, HttpParse PROVE LossInv'
<1> DEFINE r == ParseCommand(Buffer)
<1>1. r.status \in Statuses
  BY ParseStatus DEF IInv
<1>2. /\ UNCHANGED <<input, received, lost, badCut>> /\ pc = "parse" /\ kind = "http"
  BY DEF HttpParse, history
<1>3. /\ \A i : EndOf(i)' = EndOf(i) /\ (Named(i)' <=> Named(i))
      /\ \A m : CutsHeader(m)' <=> CutsHeader(m)
      /\ Ids' = Ids /\ kind' = kind /\ script' = script
  BY <1>2, SameEnds
<1>4. StreamInv /\ CutInv /\ PipelineInv /\ out \in Seq(Replies)
  BY DEF IInv, LossInv, Types
<1>5. lost = {} /\ status = 0 /\ (~ badCut => Len(out) = Upto)
  BY <1>2, <1>4 DEF LossInv, RequestInv, PipelineInv
<1>6. HandledInv' /\ WaitInv' /\ CutInv' /\ ReasonInv'
  BY <1>2, <1>3, <1>5 DEF LossInv, HandledInv, WaitInv, Waits, CutInv, ReasonInv
<1>7. ASSUME start' = start PROVE FrameInv' /\ Upto' = Upto
  <2>1. Upto' = Upto
    BY <1>2, <1>7 DEF Upto, UptoAt, input
  <2> QED
    BY <1>2, <1>3, <1>7, <2>1 DEF LossInv, FrameInv
<1>8. CASE Buffer = <<>>
  <2>0. r.status # "command"
    <3>1. r = More
      BY <1>8 DEF ParseCommand
    <3> QED
      BY <3>1, StatusIs
  <2>1. pc' = "done" /\ answers' = out /\ start' = start
    BY <1>8, <2>0 DEF HttpParse, Respond
  <2>2. start = received
    <3>1. Len(Buffer) = received - start /\ start \in Nat /\ received \in Nat
      BY <1>4, BufferIs, StreamFacts
    <3>2. Len(Buffer) = 0
      BY <1>8
    <3> QED
      BY <3>1, <3>2
  <2>3. FrameInv' /\ Upto' = Upto
    BY <1>7, <2>1
  <2>4. RequestInv'
    BY <1>2, <1>5, <2>1, <2>2, <2>3 DEF RequestInv
  <2> QED
    BY <1>6, <2>3, <2>4 DEF LossInv
<1>9. CASE r.status = "command"
  <2>1. Buffer # <<>>
    <3>1. Buffer = <<>> => r = More
      BY DEF ParseCommand
    <3> QED
      BY <1>9, <3>1, StatusIs
  <2>2. /\ Consume(r)
        /\ \/ pc' = "done" /\ status' = 400
           \/ /\ status' = status
              /\ \/ \E i, res : /\ out' = Append(out, Answer(i, res)) /\ pc' = pc
                 \/ pc' = "execute" /\ out' = out
    BY <1>9, <2>1 DEF HttpParse, Respond
  <2>3. r = ParseCommand(Buffer) /\ r.status = "command"
    BY <1>9
  <2> HIDE DEF r
  <2>4. /\ ~ badCut => Upto' = Upto + 1 /\ Upto \in Nat
        /\ FrameInv'
    BY <1>2, <1>4, <2>2, <2>3, TakeLoss
  <2>5. CASE pc' = "done" /\ status' = 400
    <3>1. RequestInv'
      BY <1>2, <1>5, <2>5 DEF RequestInv
    <3> QED
      BY <1>6, <2>4, <3>1 DEF LossInv
  <2>6. CASE pc' = "execute" /\ out' = out /\ status' = status
    <3>1. RequestInv'
      BY <1>2, <1>5, <2>4, <2>6 DEF RequestInv
    <3> QED
      BY <1>6, <2>4, <3>1 DEF LossInv
  <2>7. ASSUME NEW i, NEW res, out' = Append(out, Answer(i, res)), pc' = pc, status' = status
        PROVE  LossInv'
    <3>1. Len(out') = Len(out) + 1
      <4> DEFINE a == Answer(i, res)
      <4> HIDE DEF a
      <4>1. out' = Append(out, a)
        BY <2>7 DEF a
      <4> QED
        BY <1>4, <4>1
    <3>2. RequestInv'
      BY <1>2, <1>5, <2>4, <2>7, <3>1 DEF RequestInv
    <3> QED
      BY <1>6, <2>4, <3>2 DEF LossInv
  <2> QED
    BY <2>2, <2>5, <2>6, <2>7
<1>10. CASE Buffer # <<>> /\ r.status # "command"
  <2>1. pc' = "done" /\ status' = 400 /\ start' = start
    BY <1>10 DEF HttpParse, Respond
  <2>2. FrameInv'
    BY <1>7, <2>1
  <2>3. RequestInv'
    BY <1>2, <1>5, <2>1 DEF RequestInv
  <2> QED
    BY <1>6, <2>2, <2>3 DEF LossInv
<1> QED
  BY <1>8, <1>9, <1>10

(* The handler turns to something else, with the command in its hand.      *)
LEMMA HandlerLoss ==
    ASSUME IInv, LossInv, ReceivePing \/ ReceiveClose \/ Cancel \/ PeerCloses
    PROVE  LossInv'
<1>1. UNCHANGED <<input, start, received, lost, badCut, out, writer, answers, status>>
  BY DEF ReceivePing, ReceiveClose, Cancel, PeerCloses, buffer, history, output
<1>2. kind' = kind
  BY <1>1 DEF input
<1>3. DeliveredIds' = DeliveredIds
  BY <1>1, <1>2 DEF DeliveredIds
<1>4. \/ /\ pc = "recv" /\ pc' = "reply" /\ kind # "http"
      \/ pc' = "done" /\ pc \in {"recv", "execute"}
      \/ UNCHANGED <<pc, hand>> /\ pc # "done"
  BY DEF ReceivePing, ReceiveClose, Cancel, PeerCloses, handler
<1>5. Waits' => Waits
  BY <1>2, <1>4 DEF Waits, EndsMessage
<1>6. Keeps
  <2>1. pc = "recv" => Pending = 0
    BY DEF Pending
  <2>2. \A i \in Ids : i # 0
    BY IdsAre DEF IInv
  <2>3. UNCHANGED <<pc, hand>> => Pending' = Pending
    BY DEF Pending
  <2> QED
    BY <1>1, <1>3, <1>4, <2>1, <2>2, <2>3 DEF Keeps
<1>7. RequestInv'
  <2>1. Upto' = Upto
    BY <1>1 DEF Upto, UptoAt, input
  <2>2. kind = "http" /\ pc # "done" => status = 0
    BY DEF IInv, PipelineInv
  <2> QED
    BY <1>1, <1>2, <1>4, <2>1, <2>2 DEF LossInv, RequestInv
<1> QED
  BY <1>1, <1>5, <1>6, <1>7, Quiet

LEMMA ExecuteLoss ==
    ASSUME IInv, LossInv, Execute \/ ExecuteFails
    PROVE  LossInv'
<1>1. /\ UNCHANGED <<input, start, received, lost, badCut, writer, answers, status>>
      /\ pc = "execute"
  BY DEF Execute, ExecuteFails, buffer, history
<1>2. kind' = kind
  BY <1>1 DEF input
<1>3. PICK res \in {"result", "error"} : Answered(res)
  BY DEF Execute, ExecuteFails
<1>4. out \in Seq(Replies) /\ StreamInv
  BY DEF IInv, Types
<1>5. CASE kind = "http"
  <2>1. pc' = "parse" /\ out' = Append(out, Answer(hand.id, res))
    BY <1>3, <1>5 DEF Answered
  <2>2. Len(out') = Len(out) + 1
    <3> DEFINE a == Answer(hand.id, res)
    <3> HIDE DEF a
    <3>1. out' = Append(out, a)
      BY <2>1 DEF a
    <3> QED
      BY <1>4, <3>1
  <2>3. Keeps /\ ~ Waits'
    BY <1>2, <1>5 DEF Keeps, Waits
  <2>4. Upto' = Upto
    BY <1>1 DEF Upto, UptoAt, input
  <2>5. status = 0
    BY <1>1, <1>5 DEF IInv, PipelineInv
  <2>6. RequestInv'
    BY <1>1, <1>5, <2>1, <2>2, <2>4, <2>5 DEF LossInv, RequestInv
  <2> QED
    BY <1>1, <2>3, <2>6, Quiet
<1>6. CASE kind # "http"
  <2>1. pc' = "reply" /\ hand' = Answer(hand.id, res) /\ out' = out
    BY <1>3, <1>6 DEF Answered
  <2>2. hand'.id = hand.id /\ hand'.res = res
    BY <2>1, AnswerIs
  <2>3. ~ Waits'
    BY <2>1, <2>2 DEF Waits, EndsMessage
  <2>4. Keeps
    <3>1. DeliveredIds' = DeliveredIds
      BY <1>1, <1>2, <2>1 DEF DeliveredIds
    <3>2. Pending' = Pending
      BY <1>1, <2>1, <2>2 DEF Pending
    <3> QED
      BY <1>1, <3>1, <3>2 DEF Keeps
  <2>5. RequestInv'
    BY <1>2, <1>6 DEF RequestInv
  <2> QED
    BY <1>1, <2>3, <2>4, <2>5, Quiet
<1> QED
  BY <1>5, <1>6

(* A reply that has been sent is on its way.                               *)
LEMMA ReplyLoss ==
    ASSUME IInv, LossInv, RawReply \/ CompatReply
    PROVE  LossInv'
<1>1. /\ UNCHANGED <<input, start, received, lost, badCut, writer, status>>
      /\ pc = "reply" /\ kind # "http"
  BY DEF RawReply, CompatReply, buffer, history
<1>2. kind' = kind
  BY <1>1 DEF input
<1>3. StreamInv /\ out \in Seq(Replies) /\ answers \in Seq(Replies) /\ HandInv
  BY DEF IInv, Types
<1>4. hand \in Replies /\ Pending = hand.id
  <2>1. hand \in Hands /\ hand.res \in Results
    BY <1>1, <1>3, HandIs DEF HandInv
  <2>2. hand \in Replies
    BY <2>1 DEF Hands, Replies
  <2> QED
    BY <1>1, <2>2 DEF Pending
<1>5. RequestInv'
  BY <1>1, <1>2 DEF RequestInv
<1>6. CASE RawReply
  <2>1. out' = out /\ kind = "raw"
    BY <1>6 DEF RawReply
  <2>2. CASE peer = "closed"
    <3>1. pc' = "done"
      BY <1>6, <2>2 DEF RawReply
    <3>2. Keeps /\ ~ Waits'
      BY <3>1 DEF Keeps, Waits
    <3> QED
      BY <1>1, <1>5, <3>2, Quiet
  <2>3. CASE peer # "closed"
    <3>1. answers' = Seen(hand) /\ pc' = AfterReply
      BY <1>6, <2>3 DEF RawReply
    <3>2. Waits' => Waits
      <4>1. pc' = "recv" => EndsMessage
        BY <3>1 DEF AfterReply
      <4>2. pc' # "reply"
        BY <3>1 DEF AfterReply
      <4> QED
        BY <1>1, <1>2, <4>1, <4>2 DEF Waits
    <3>3. /\ IdsOf(answers) \subseteq IdsOf(answers')
          /\ hand.id # 0 => hand.id \in IdsOf(answers')
      <4>1. CASE hand.id = 0
        <5>1. answers' = answers
          BY <3>1, <4>1 DEF Seen
        <5> QED
          BY <4>1, <5>1
      <4>2. CASE hand.id # 0
        <5>1. answers' = Append(answers, hand)
          BY <3>1, <4>2 DEF Seen
        <5> QED
          BY <1>3, <1>4, <5>1, IdsAppend
      <4> QED
        BY <4>1, <4>2
    <3>4. /\ DeliveredIds = IdsOf(out) \cup IdsOf(answers)
          /\ DeliveredIds' = IdsOf(out) \cup IdsOf(answers')
      BY <1>1, <1>2, <2>1 DEF DeliveredIds
    <3>5. \A i \in Ids : i # 0
      BY <1>3, IdsAre
    <3>6. Keeps
      BY <1>1, <1>4, <3>3, <3>4, <3>5 DEF Keeps
    <3> QED
      BY <1>1, <1>5, <3>2, <3>6, Quiet
  <2> QED
    BY <2>2, <2>3
<1>7. CASE CompatReply
  <2>1. answers' = answers
    BY <1>7 DEF CompatReply
  <2>2. CASE writer # "running"
    <3>1. pc' = IF hand.res = "invalid" THEN "recv" ELSE "done"
      BY <1>7, <2>2 DEF CompatReply
    <3>2. Waits' => Waits
      BY <1>1, <1>2, <3>1 DEF Waits, EndsMessage
    <3>3. Keeps
      BY <1>1, <2>2 DEF Keeps
    <3> QED
      BY <1>1, <1>5, <3>2, <3>3, Quiet
  <2>3. CASE writer = "running"
    <3>1. Enqueue(hand) /\ pc' = AfterReply
      BY <1>7, <2>3 DEF CompatReply
    <3>2. Waits' => Waits
      <4>1. pc' = "recv" => EndsMessage
        BY <3>1 DEF AfterReply
      <4>2. pc' # "reply"
        BY <3>1 DEF AfterReply
      <4> QED
        BY <1>1, <1>2, <4>1, <4>2 DEF Waits
    <3>3. out' = Append(out, hand)
      BY <3>1 DEF Enqueue
    <3>4. /\ IdsOf(out) \subseteq IdsOf(out')
          /\ hand.id # 0 => hand.id \in IdsOf(out')
      BY <1>3, <1>4, <3>3, IdsAppend
    <3>5. /\ DeliveredIds = IdsOf(out) \cup IdsOf(answers)
          /\ DeliveredIds' = IdsOf(out') \cup IdsOf(answers)
      BY <1>1, <1>2, <2>1 DEF DeliveredIds
    <3>6. \A i \in Ids : i # 0
      BY <1>3, IdsAre
    <3>7. Keeps
      BY <1>1, <1>4, <3>4, <3>5, <3>6 DEF Keeps
    <3> QED
      BY <1>1, <1>5, <3>2, <3>7, Quiet
  <2> QED
    BY <2>2, <2>3
<1> QED
  BY <1>6, <1>7

(* The other tasks of handle_ws lose nothing either.                       *)
LEMMA WriterLoss ==
    ASSUME IInv, LossInv, WriterSends \/ Push
    PROVE  LossInv'
<1>1. /\ UNCHANGED <<input, start, received, lost, badCut, pc, hand, status>>
      /\ kind = "compat" /\ kind # "http" /\ writer = "running"
  BY DEF WriterSends, Push, buffer, history, handler
<1>2. kind' = kind
  BY <1>1 DEF input
<1>3. StreamInv /\ out \in Seq(Replies) /\ answers \in Seq(Replies)
  BY DEF IInv, Types
<1>4. RequestInv'
  BY <1>1, <1>2 DEF RequestInv
<1>5. Waits' => Waits
  BY <1>1, <1>2 DEF Waits, EndsMessage
<1>6. Pending' = Pending
  BY <1>1 DEF Pending
<1>7. /\ DeliveredIds = IdsOf(out) \cup IdsOf(answers)
      /\ DeliveredIds' = IdsOf(out') \cup IdsOf(answers')
  BY <1>1, <1>2 DEF DeliveredIds
<1>8. CASE WriterSends
  <2>1. CASE peer = "closed"
    <3>1. writer' = "ended"
      BY <1>8, <2>1 DEF WriterSends
    <3>2. Keeps
      BY <3>1 DEF Keeps
    <3> QED
      BY <1>1, <1>4, <1>5, <3>2, Quiet
  <2>2. CASE peer # "closed"
    <3>1. answers' = Seen(Head(out)) /\ out' = Tail(out) /\ out # <<>>
      BY <1>8, <2>2 DEF WriterSends, WriterGoesOn
    <3>2. answers' = IF Head(out).id = 0 THEN answers ELSE Append(answers, Head(out))
      BY <3>1 DEF Seen
    <3>3. ASSUME NEW i, i \in IdsOf(answers) \cup IdsOf(out)
          PROVE  i \in IdsOf(answers') \cup IdsOf(out')
      BY <1>3, <3>1, <3>2, <3>3, IdsMove
    <3>4. Keeps
      BY <1>1, <1>6, <1>7, <3>3 DEF Keeps
    <3> QED
      BY <1>1, <1>4, <1>5, <3>4, Quiet
  <2> QED
    BY <2>1, <2>2
<1>9. CASE Push
  <2> DEFINE a == Answer(0, "push")
  <2>1. out' = Append(out, a) /\ answers' = answers
    BY <1>9 DEF Push, Enqueue
  <2>2. a \in Replies
    BY AnswerIs DEF Results
  <2> HIDE DEF a
  <2>3. IdsOf(out) \subseteq IdsOf(out')
    BY <1>3, <2>1, <2>2, IdsAppend
  <2>4. Keeps
    BY <1>1, <1>6, <1>7, <2>1, <2>3 DEF Keeps
  <2> QED
    BY <1>1, <1>4, <1>5, <2>4, Quiet
<1> QED
  BY <1>8, <1>9
LEMMA StutterLoss ==
    ASSUME IInv, LossInv, UNCHANGED vars PROVE LossInv'
<1>1. /\ UNCHANGED <<input, start, received, lost, badCut>>
      /\ UNCHANGED <<pc, hand, out, writer, answers, status>>
  BY DEF vars, buffer, handler, output, history
<1>2. kind' = kind /\ Ids' = Ids
  BY <1>1 DEF input, Ids
<1>3. Waits' => Waits
  BY <1>1, <1>2 DEF Waits, EndsMessage
<1>4. DeliveredIds' = DeliveredIds /\ Pending' = Pending
  BY <1>1, <1>2 DEF DeliveredIds, Pending
<1>5. Keeps
  BY <1>1, <1>4 DEF Keeps
<1>6. RequestInv'
  <2>1. Upto' = Upto
    BY <1>1 DEF Upto, UptoAt, input
  <2> QED
    BY <1>1, <1>2, <2>1 DEF LossInv, RequestInv
<1> QED
  BY <1>1, <1>3, <1>5, <1>6, Quiet

LEMMA InitLoss ==
    ASSUME Init PROVE LossInv
<1>1. /\ start = 0 /\ received = 0 /\ pc = "recv" /\ out = <<>> /\ answers = <<>>
      /\ status = 0 /\ lost = {} /\ badCut = FALSE
  BY DEF Init
<1>2. StreamInv
  BY InitHolds DEF IInv
<1>3. EndOf(0) = 0 /\ Len(script) \in Nat /\ Ids = 1 .. Len(script)
  BY <1>2, EndsAre
<1>4. Upto = 0
  BY <1>1 DEF Upto, UptoAt
<1>5. ASSUME NEW i \in Ids PROVE ~(EndOf(i) <= 0)
  <2>1. i \in 0 .. Len(script) /\ 0 \in 0 .. Len(script) /\ ~(i <= 0)
    BY <1>3
  <2>2. EndOf(i) <= EndOf(0) <=> i <= 0
    BY <1>2, <2>1, EndsGrow
  <2> QED
    BY <1>3, <2>1, <2>2
<1>6. HandledInv /\ WaitInv
  BY <1>1, <1>5 DEF HandledInv, WaitInv
<1>7. CutInv
  BY <1>1 DEF CutInv
<1>8. FrameInv /\ ReasonInv
  BY <1>1, <1>3, <1>4 DEF FrameInv, ReasonInv
<1>9. Len(out) = 0
  BY <1>1
<1>10. RequestInv
  BY <1>1, <1>4, <1>9 DEF RequestInv
<1> QED
  BY <1>6, <1>7, <1>8, <1>10 DEF LossInv

LEMMA DeliveredHas ==
    ASSUME out \in Seq(Replies), answers \in Seq(Replies)
    PROVE  DeliveredIds \subseteq IdsOf(Delivered)
<1>1. CASE kind = "http"
  BY <1>1 DEF Delivered, DeliveredIds
<1>2. CASE kind # "http"
  <2> DEFINE f == Delivered
  <2>1. f = answers \o out
    BY <1>2 DEF Delivered
  <2> HIDE DEF f
  <2>2. /\ Len(f) = Len(answers) + Len(out) /\ f \in Seq(Replies)
        /\ \A k \in 1 .. Len(answers) + Len(out) :
              f[k] = IF k <= Len(answers) THEN answers[k] ELSE out[k - Len(answers)]
    BY <2>1, ConcatProperties
  <2>3. /\ DOMAIN f = 1 .. Len(f) /\ DOMAIN answers = 1 .. Len(answers)
        /\ DOMAIN out = 1 .. Len(out) /\ Len(answers) \in Nat /\ Len(out) \in Nat
    BY <2>2
  <2>4. \A k \in 1 .. Len(answers) : k \in 1 .. Len(f) /\ f[k] = answers[k]
    <3>1. \A k \in 1 .. Len(answers) : k \in 1 .. Len(answers) + Len(out) /\ k <= Len(answers)
      BY <2>3
    <3> QED
      BY <2>2, <3>1
  <2>5. \A k \in 1 .. Len(out) :
           Len(answers) + k \in 1 .. Len(f) /\ f[Len(answers) + k] = out[k]
    <3>1. \A k \in 1 .. Len(out) :
             /\ Len(answers) + k \in 1 .. Len(answers) + Len(out)
             /\ ~(Len(answers) + k <= Len(answers)) /\ (Len(answers) + k) - Len(answers) = k
      BY <2>3
    <3> QED
      BY <2>2, <3>1
  <2>6. IdsOf(answers) \subseteq IdsOf(f) /\ IdsOf(out) \subseteq IdsOf(f)
    <3>1. IdsOf(answers) \subseteq IdsOf(f)
      BY <2>3, <2>4 DEF IdsOf
    <3>2. IdsOf(out) \subseteq IdsOf(f)
      BY <2>3, <2>5 DEF IdsOf
    <3> QED
      BY <3>1, <3>2
  <2> QED
    BY <1>2, <2>6 DEF DeliveredIds, f
<1> QED
  BY <1>1, <1>2

(* Commands are thrown away only after a message that ends where the       *)
(* parser does not wait, or for a command that is none; a handler that     *)
(* waits for the next message has answered, or reported as invalid, every  *)
(* command that has come as a whole; and the response of a request that is *)
(* answered with 200 has an answer for every one of its commands.          *)
THEOREM LossExplained == Spec => []LossIsExplained
<1>1. Init => IInv /\ LossInv
  BY InitHolds, InitLoss
<1>2. IInv /\ LossInv /\ [Next]_vars => LossInv'
  <2> SUFFICES ASSUME IInv, LossInv, [Next]_vars PROVE LossInv'
    OBVIOUS
  <2>1. CASE \E n \in received + 1 .. Len(stream) : ReceiveMessage(n)
    BY <2>1, MessageLoss
  <2>2. CASE \E n \in 0 .. Len(stream) : ReceiveBody(n)
    BY <2>2, BodyLoss
  <2>3. CASE ReceivePing \/ ReceiveClose \/ Cancel \/ PeerCloses
    BY <2>3, HandlerLoss
  <2>4. CASE RawParse
    BY <2>4, RawParseLoss
  <2>5. CASE CompatParse
    BY <2>5, CompatParseLoss
  <2>6. CASE HttpParse
    BY <2>6, HttpParseLoss
  <2>7. CASE Execute \/ ExecuteFails
    BY <2>7, ExecuteLoss
  <2>8. CASE RawReply \/ CompatReply
    BY <2>8, ReplyLoss
  <2>9. CASE WriterSends \/ Push
    BY <2>9, WriterLoss
  <2>10. CASE UNCHANGED vars
    BY <2>10, StutterLoss
  <2> QED
    BY <2>1, <2>2, <2>3, <2>4, <2>5, <2>6, <2>7, <2>8, <2>9, <2>10 DEF Next
<1>3. ASSUME IInv, LossInv PROVE LossIsExplained
  <2>1. /\ StreamInv /\ out \in Seq(Replies) /\ answers \in Seq(Replies)
    BY <1>3 DEF IInv, Types
  <2>2. /\ Ids = 1 .. Len(script) /\ Len(script) \in Nat
        /\ start \in Nat /\ start <= Len(stream) /\ Len(stream) \in Nat
    BY <2>1, StreamFacts
  <2>3. ASSUME pc = "recv", kind # "http", writer = "running", NEW i \in Ids, Whole(i),
               script[i] \in WellFormed \ {"empty"}
        PROVE  i \in IdsOf(Delivered) \cup lost
    <3>1. EndOf(i) <= received
      BY <2>1, <2>3, WholeIs
    <3>2. EndOf(i) <= start
      BY <1>3, <2>3, <3>1 DEF LossInv, WaitInv, Waits
    <3>3. Named(i)
      BY <2>3 DEF Named, WellFormed
    <3>4. i \in DeliveredIds \cup lost \cup {Pending}
      BY <1>3, <2>3, <3>2, <3>3 DEF LossInv, HandledInv
    <3>5. Pending = 0 /\ i # 0
      BY <2>1, <2>3, IdsAre DEF Pending
    <3> QED
      BY <2>1, <3>4, <3>5, DeliveredHas
  <2>4. ASSUME kind = "http", status = 200, ~ badCut
        PROVE  Len(answers) = Cardinality({i \in Ids : Whole(i)})
    <3>1. Len(answers) = Upto /\ start = received /\ start = EndOf(Upto)
      BY <1>3, <2>4 DEF LossInv, RequestInv, FrameInv
    <3>2. Upto \in Nat /\ Upto <= Len(script)
      <4>1. start \in 0 .. Len(stream)
        BY <2>2
      <4> QED
        BY <2>1, <2>2, <4>1, UptoGrows DEF Upto
    <3>3. \A i \in Ids : Whole(i) <=> i <= Upto
      <4>1. ASSUME NEW i \in Ids PROVE Whole(i) <=> i <= Upto
        <5>1. i \in 0 .. Len(script) /\ Upto \in 0 .. Len(script)
          BY <2>2, <3>2
        <5>2. EndOf(i) <= EndOf(Upto) <=> i <= Upto
          BY <2>1, <5>1, EndsGrow
        <5> QED
          BY <2>1, <3>1, <5>2, WholeIs
      <4> QED
        BY <4>1
    <3>4. {i \in Ids : Whole(i)} = 1 .. Upto
      <4>1. {i \in Ids : Whole(i)} = {i \in Ids : i <= Upto}
        BY <3>3
      <4>2. {i \in 1 .. Len(script) : i <= Upto} = 1 .. Upto
        <5> DEFINE u == Upto
                   n == Len(script)
        <5> HIDE DEF u, n
        <5>1. u \in Nat /\ n \in Nat /\ u <= n
          BY <2>2, <3>2 DEF u, n
        <5>2. {i \in 1 .. n : i <= u} = 1 .. u
          BY <5>1
        <5> QED
          BY <5>2 DEF u, n
      <4> QED
        BY <2>2, <4>1, <4>2
    <3>5. Cardinality(1 .. Upto) = Upto
      <4>1. 1 \in Int /\ Upto \in Int
        BY <3>2
      <4>2. Cardinality(1 .. Upto) = IF 1 > Upto THEN 0 ELSE Upto - 1 + 1
        BY <4>1, FS_Interval
      <4> QED
        BY <3>2, <4>2
    <3> QED
      BY <3>1, <3>4, <3>5
  <2>5. NothingLeftBehind
    BY <2>3, <2>4 DEF NothingLeftBehind
  <2>6. lost # {} => badCut \/ \E i \in Ids : script[i] \notin WellFormed
    BY <1>3 DEF LossInv, ReasonInv
  <2> QED
    BY <2>5, <2>6 DEF LossIsExplained
<1> QED
  BY <1>1, <1>2, <1>3, Inductive, PTL DEF Spec
============================================================================
