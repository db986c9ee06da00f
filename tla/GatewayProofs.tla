--------------------------- MODULE GatewayProofs ---------------------------
(***************************************************************************)
(* Proofs about Gateway, for every set of clients, documents, URLs and     *)
(* commands, every table of access rules and every capacity.               *)
(***************************************************************************)
EXTENDS Gateway, Induction, SequenceTheorems

----------------------------------------------------------------------------
(* The loop of Acl::check                                                  *)

(* f[i] is what the first i rules make of the command, for i up to n.      *)
IsLoop(f, n, rules, who, command) ==
    f = [i \in 0 .. n |-> IF i = 0 THEN TRUE
                          ELSE Judge(f[i - 1], AclRule(rules[i]), who, command)]

LEMMA LoopExists ==
    ASSUME NEW rules, NEW who, NEW command
    PROVE  \A n \in Nat : \E f : IsLoop(f, n, rules, who, command)
<1> DEFINE T == {n \in Nat : \E f : IsLoop(f, n, rules, who, command)}
           J(a, i) == Judge(a, AclRule(rules[i]), who, command)
<1>1. 0 \in T
  <2> DEFINE f == [i \in 0 .. 0 |-> TRUE]
  <2>1. f = [i \in 0 .. 0 |-> IF i = 0 THEN TRUE ELSE J(f[i - 1], i)]
    <3> HIDE DEF J
    <3> QED
      OBVIOUS
  <2>2. IsLoop(f, 0, rules, who, command)
    BY <2>1 DEF IsLoop
  <2> QED
    BY <2>2
<1>2. ASSUME NEW n \in Nat, n \in T PROVE n + 1 \in T
  <2>1. PICK f : IsLoop(f, n, rules, who, command)
    BY <1>2
  <2>2. f = [i \in 0 .. n |-> IF i = 0 THEN TRUE ELSE J(f[i - 1], i)]
    BY <2>1 DEF IsLoop
  <2> HIDE DEF J
  <2> DEFINE g == [i \in 0 .. n + 1 |-> IF i = n + 1 THEN J(f[n], n + 1) ELSE f[i]]
  <2>3. ASSUME NEW i \in 0 .. n + 1
        PROVE  g[i] = IF i = 0 THEN TRUE ELSE J(g[i - 1], i)
    <3>1. CASE i = n + 1
      <4>1. n \in 0 .. n + 1 /\ n # n + 1 /\ n + 1 # 0 /\ (n + 1) - 1 = n
        OBVIOUS
      <4>2. g[n] = f[n] /\ g[n + 1] = J(f[n], n + 1)
        BY <4>1
      <4> QED
        BY <3>1, <4>1, <4>2
    <3>2. CASE i # n + 1 /\ i # 0
      <4>1. i \in 0 .. n /\ i - 1 \in 0 .. n + 1 /\ i - 1 # n + 1
        BY <3>2
      <4>2. g[i] = f[i] /\ g[i - 1] = f[i - 1]
        BY <3>2, <4>1
      <4>3. f[i] = J(f[i - 1], i)
        BY <2>2, <3>2, <4>1
      <4> QED
        BY <3>2, <4>2, <4>3
    <3>3. CASE i = 0
      <4>1. 0 \in 0 .. n /\ 0 \in 0 .. n + 1 /\ 0 # n + 1
        OBVIOUS
      <4>2. f[0] = TRUE
        BY <2>2, <4>1
      <4> QED
        BY <3>3, <4>1, <4>2
    <3> QED
      BY <3>1, <3>2, <3>3
  <2>4. g = [i \in 0 .. n + 1 |-> IF i = 0 THEN TRUE ELSE J(g[i - 1], i)]
    BY <2>3
  <2>5. IsLoop(g, n + 1, rules, who, command)
    BY <2>4 DEF IsLoop, J
  <2> QED
    BY <2>5
<1> HIDE DEF T
<1>3. Nat \subseteq T
  BY <1>1, <1>2, SetInduction
<1> QED
  BY <1>3 DEF T

LEMMA CheckIsLoop ==
    ASSUME NEW rules, Len(rules) \in Nat, NEW who, NEW command
    PROVE  \E f : /\ IsLoop(f, Len(rules), rules, who, command)
                  /\ check(rules, who, command) = f[Len(rules)]
<1> DEFINE f == CHOOSE g : IsLoop(g, Len(rules), rules, who, command)
<1>1. IsLoop(f, Len(rules), rules, who, command)
  BY LoopExists
<1>2. check(rules, who, command) = f[Len(rules)]
  BY DEF check, IsLoop
<1> QED
  BY <1>1, <1>2

(* The last of the first n rules that apply and name the command is i.     *)
IsLast(i, n, rules, who, command) ==
    /\ i \in Deciding(rules, who, command) /\ i <= n
    /\ \A j \in Deciding(rules, who, command) : j <= n => j <= i

(* The loop after n rules: the verdict is that of the last one so far.     *)
LastDecides(f, n, rules, who, command) ==
    /\ f[n] \in BOOLEAN
    /\ (\A j \in Deciding(rules, who, command) : j > n) => f[n]
    /\ \A i : IsLast(i, n, rules, who, command) => (f[n] <=> Names(rules[i].enabled, command))

LEMMA RuleParts ==
    ASSUME NEW c
    PROVE  AclRule(c).enabled = c.enabled /\ AclRule(c).disabled = c.disabled
BY DEF AclRule

LEMMA DecidingRule ==
    ASSUME NEW rules, Len(rules) \in Nat, NEW who, NEW command, NEW i \in 1 .. Len(rules)
    PROVE  i \in Deciding(rules, who, command) <=>
              /\ Matches(AclRule(rules[i]), who)
              /\ Names(rules[i].enabled, command) \/ Names(rules[i].disabled, command)
<1>1. i \in Deciding(rules, who, command) <=>
         /\ Matches(AclRule(rules[i]), who)
         /\ Names(AclRule(rules[i]).enabled \cup AclRule(rules[i]).disabled, command)
  BY DEF Deciding
<1> QED
  BY <1>1, RuleParts DEF Names

LEMMA LoopStep ==
    ASSUME NEW rules, Len(rules) \in Nat, NEW who, NEW command, NEW f,
           IsLoop(f, Len(rules), rules, who, command),
           NEW n \in Nat, n + 1 <= Len(rules),
           LastDecides(f, n, rules, who, command)
    PROVE  LastDecides(f, n + 1, rules, who, command)
<1> DEFINE D == Deciding(rules, who, command)
           m == n + 1
           en == Names(rules[m].enabled, command)
           dis == Names(rules[m].disabled, command)
<1>1. /\ m \in 1 .. Len(rules) /\ m \in Nat /\ n < m
      /\ \A j \in D : j \in Nat /\ (j <= m <=> j <= n \/ j = m) /\ (j > n <=> j > m \/ j = m)
  BY DEF Deciding
<1>2. f[m] = Judge(f[n], AclRule(rules[m]), who, command)
  BY <1>1 DEF IsLoop
<1>3. f[m] = IF ~Matches(AclRule(rules[m]), who) THEN f[n] ELSE en \/ (f[n] /\ ~dis)
  BY <1>2, RuleParts DEF Judge
<1>4. m \in D <=> Matches(AclRule(rules[m]), who) /\ (en \/ dis)
  BY <1>1, DecidingRule
<1>5. /\ f[n] \in BOOLEAN /\ ((\A j \in D : j > n) => f[n])
      /\ \A i : IsLast(i, n, rules, who, command) => (f[n] <=> Names(rules[i].enabled, command))
  BY DEF LastDecides
<1>6. en \in BOOLEAN /\ dis \in BOOLEAN
  BY DEF Names
<1> HIDE DEF m, en, dis
<1>7. CASE m \in D
  <2>1. f[m] = en
    BY <1>3, <1>4, <1>5, <1>6, <1>7, Zenon
  <2>2. ASSUME NEW i, IsLast(i, m, rules, who, command) PROVE i = m
    BY <1>1, <1>7, <2>2 DEF IsLast
  <2>3. ~ (\A j \in D : j > m)
    BY <1>1, <1>7
  <2>4. LastDecides(f, m, rules, who, command)
    BY <1>6, <2>1, <2>2, <2>3 DEF LastDecides, en
  <2> QED
    BY <2>4 DEF m
<1>8. CASE m \notin D
  <2>1. f[m] = f[n]
    <3>1. CASE ~Matches(AclRule(rules[m]), who)
      BY <1>3, <3>1, Zenon
    <3>2. CASE Matches(AclRule(rules[m]), who)
      <4>1. ~en /\ ~dis
        BY <1>4, <1>8, <3>2, Zenon
      <4>2. f[m] = (en \/ (f[n] /\ ~dis))
        BY <1>3, <3>2, Zenon
      <4>3. (en \/ (f[n] /\ ~dis)) <=> f[n]
        BY <4>1, Zenon
      <4> QED
        BY <1>5, <4>2, <4>3
    <3> QED
      BY <3>1, <3>2
  <2>2. ASSUME NEW i, IsLast(i, m, rules, who, command)
        PROVE  IsLast(i, n, rules, who, command)
    BY <1>1, <1>8, <2>2 DEF IsLast
  <2>3. (\A j \in D : j > m) => (\A j \in D : j > n)
    BY <1>1
  <2>4. LastDecides(f, m, rules, who, command)
    BY <1>5, <2>1, <2>2, <2>3 DEF LastDecides
  <2> QED
    BY <2>4 DEF m
<1> QED
  BY <1>7, <1>8

(* Acl::check allows a command exactly when the last of the rules that     *)
(* apply to the client and name the command enables it, or when there is   *)
(* none: later rules supersede earlier ones, for every list of rules.      *)
THEOREM CheckIsLastWord ==
    ASSUME NEW rules, Len(rules) \in Nat, NEW who, NEW command
    PROVE  check(rules, who, command) <=> LastWord(rules, who, command)
<1> DEFINE D == Deciding(rules, who, command)
           L == Len(rules)
<1>1. PICK f : /\ IsLoop(f, L, rules, who, command)
               /\ check(rules, who, command) = f[L]
  BY CheckIsLoop
<1>2. D \subseteq 1 .. L
  BY DEF Deciding
<1>3. LastDecides(f, L, rules, who, command)
  <2> DEFINE T == {n \in Nat : n <= L => LastDecides(f, n, rules, who, command)}
  <2>1. 0 \in T
    <3>1. f[0] = TRUE
      BY <1>1 DEF IsLoop
    <3>2. ASSUME NEW i, IsLast(i, 0, rules, who, command) PROVE FALSE
      BY <1>2, <3>2 DEF IsLast
    <3>3. LastDecides(f, 0, rules, who, command)
      BY <3>1, <3>2 DEF LastDecides
    <3> QED
      BY <3>3
  <2>2. ASSUME NEW n \in Nat, n \in T PROVE n + 1 \in T
    <3>1. CASE n + 1 <= L
      <4>1. LastDecides(f, n, rules, who, command)
        BY <2>2, <3>1
      <4> QED
        BY <1>1, <3>1, <4>1, LoopStep
    <3> QED
      BY <3>1
  <2> HIDE DEF T
  <2>3. Nat \subseteq T
    BY <2>1, <2>2, SetInduction
  <2> QED
    BY <2>3 DEF T
<1>4. CASE D = {}
  BY <1>1, <1>3, <1>4 DEF LastDecides, LastWord
<1>5. CASE D # {}
  <2> DEFINE T == {L - i : i \in D}
             latest == CHOOSE i \in D : \A j \in D : j <= i
  <2>1. T \in SUBSET Nat /\ T # {}
    BY <1>2, <1>5
  <2>2. PICK k \in T : \A j \in T : k <= j
    BY <2>1, LeastElement
  <2>3. PICK i \in D : k = L - i
    BY <2>2
  <2>4. ASSUME NEW j \in D PROVE j <= i
    <3>1. L - i <= L - j
      BY <2>2, <2>3
    <3> QED
      BY <1>2, <2>3, <3>1
  <2>5. latest \in D /\ \A j \in D : j <= latest
    BY <2>3, <2>4
  <2>6. IsLast(latest, L, rules, who, command)
    <3> HIDE DEF latest
    <3> QED
      BY <1>2, <2>5 DEF IsLast
  <2>7. LastWord(rules, who, command) <=> Names(rules[latest].enabled, command)
    BY <1>5 DEF LastWord
  <2> QED
    BY <1>1, <1>3, <2>6, <2>7 DEF LastDecides
<1> QED
  BY <1>4, <1>5

----------------------------------------------------------------------------
(* The replies in a channel                                                *)

(* f[i] holds the replies among the first i things in q, for i up to n.    *)
IsFirst(f, n, q) ==
    f = [i \in 0 .. n |->
           IF i = 0 THEN <<>>
             ELSE IF q[i] = 0 THEN f[i - 1] ELSE Append(f[i - 1], q[i])]

LEMMA FirstExists ==
    ASSUME NEW q PROVE \A n \in Nat : \E f : IsFirst(f, n, q)
<1> DEFINE T == {n \in Nat : \E f : IsFirst(f, n, q)}
           J(s, i) == IF q[i] = 0 THEN s ELSE Append(s, q[i])
<1>1. 0 \in T
  <2> DEFINE f == [i \in 0 .. 0 |-> <<>>]
  <2>1. f = [i \in 0 .. 0 |-> IF i = 0 THEN <<>> ELSE J(f[i - 1], i)]
    <3> HIDE DEF J
    <3> QED
      OBVIOUS
  <2>2. IsFirst(f, 0, q)
    BY <2>1 DEF IsFirst
  <2> QED
    BY <2>2
<1>2. ASSUME NEW n \in Nat, n \in T PROVE n + 1 \in T
  <2>1. PICK f : IsFirst(f, n, q)
    BY <1>2
  <2>2. f = [i \in 0 .. n |-> IF i = 0 THEN <<>> ELSE J(f[i - 1], i)]
    BY <2>1 DEF IsFirst
  <2> HIDE DEF J
  <2> DEFINE g == [i \in 0 .. n + 1 |-> IF i = n + 1 THEN J(f[n], n + 1) ELSE f[i]]
  <2>3. ASSUME NEW i \in 0 .. n + 1
        PROVE  g[i] = IF i = 0 THEN <<>> ELSE J(g[i - 1], i)
    <3>1. CASE i = n + 1
      <4>1. n \in 0 .. n + 1 /\ n # n + 1 /\ n + 1 # 0 /\ (n + 1) - 1 = n
        OBVIOUS
      <4>2. g[n] = f[n] /\ g[n + 1] = J(f[n], n + 1)
        BY <4>1
      <4> QED
        BY <3>1, <4>1, <4>2
    <3>2. CASE i # n + 1 /\ i # 0
      <4>1. i \in 0 .. n /\ i - 1 \in 0 .. n + 1 /\ i - 1 # n + 1
        BY <3>2
      <4>2. g[i] = f[i] /\ g[i - 1] = f[i - 1]
        BY <3>2, <4>1
      <4>3. f[i] = J(f[i - 1], i)
        BY <2>2, <3>2, <4>1
      <4> QED
        BY <3>2, <4>2, <4>3
    <3>3. CASE i = 0
      <4>1. 0 \in 0 .. n /\ 0 \in 0 .. n + 1 /\ 0 # n + 1
        OBVIOUS
      <4>2. f[0] = <<>>
        BY <2>2, <4>1
      <4> QED
        BY <3>3, <4>1, <4>2
    <3> QED
      BY <3>1, <3>2, <3>3
  <2>4. g = [i \in 0 .. n + 1 |-> IF i = 0 THEN <<>> ELSE J(g[i - 1], i)]
    BY <2>3
  <2>5. IsFirst(g, n + 1, q)
    BY <2>4 DEF IsFirst, J
  <2> QED
    BY <2>5
<1> HIDE DEF T
<1>3. Nat \subseteq T
  BY <1>1, <1>2, SetInduction
<1> QED
  BY <1>3 DEF T

LEMMA FirstValues ==
    ASSUME NEW n \in Nat, NEW q, NEW f, IsFirst(f, n, q)
    PROVE  /\ f[0] = <<>>
           /\ \A i \in 1 .. n :
                 f[i] = IF q[i] = 0 THEN f[i - 1] ELSE Append(f[i - 1], q[i])
<1>1. 0 \in 0 .. n /\ \A i \in 1 .. n : i \in 0 .. n /\ i # 0
  OBVIOUS
<1> QED
  BY <1>1 DEF IsFirst

(* The values of the loop are determined by the first things of q.         *)
LEMMA RepliedIs ==
    ASSUME NEW q \in Seq(Nat)
    PROVE  \E f : /\ f[0] = <<>> /\ Replied(q) = f[Len(q)]
                  /\ \A i \in 1 .. Len(q) :
                        f[i] = IF q[i] = 0 THEN f[i - 1] ELSE Append(f[i - 1], q[i])
                  /\ \A i \in 0 .. Len(q) : f[i] \in Seq(Nat)
<1> DEFINE f == CHOOSE g : IsFirst(g, Len(q), q)
<1>1. Len(q) \in Nat /\ \A i \in 1 .. Len(q) : q[i] \in Nat
  OBVIOUS
<1>2. IsFirst(f, Len(q), q)
  BY <1>1, FirstExists
<1>3. Replied(q) = f[Len(q)]
  BY DEF Replied, IsFirst
<1> HIDE DEF f
<1>4. /\ f[0] = <<>>
      /\ \A i \in 1 .. Len(q) :
            f[i] = IF q[i] = 0 THEN f[i - 1] ELSE Append(f[i - 1], q[i])
  BY <1>1, <1>2, FirstValues
<1> DEFINE T == {i \in Nat : i <= Len(q) => f[i] \in Seq(Nat)}
<1>5. 0 \in T
  <2>1. <<>> \in Seq(Nat)
    OBVIOUS
  <2> QED
    BY <1>4, <2>1
<1>6. ASSUME NEW i \in Nat, i \in T PROVE i + 1 \in T
  <2>1. CASE i + 1 <= Len(q)
    <3>1. i + 1 \in 1 .. Len(q) /\ (i + 1) - 1 = i /\ f[i] \in Seq(Nat)
      BY <1>1, <1>6, <2>1
    <3>2. f[i + 1] = IF q[i + 1] = 0 THEN f[i] ELSE Append(f[i], q[i + 1])
      BY <1>4, <3>1
    <3>3. f[i + 1] \in Seq(Nat)
      BY <1>1, <3>1, <3>2
    <3> QED
      BY <3>3
  <2> QED
    BY <2>1
<1> HIDE DEF T
<1>7. Nat \subseteq T
  BY <1>5, <1>6, SetInduction
<1>8. \A i \in 0 .. Len(q) : f[i] \in Seq(Nat)
  BY <1>1, <1>7 DEF T
<1> QED
  BY <1>3, <1>4, <1>8

LEMMA RepliedType ==
    ASSUME NEW q \in Seq(Nat) PROVE Replied(q) \in Seq(Nat)
<1>1. Len(q) \in 0 .. Len(q)
  OBVIOUS
<1> QED
  BY <1>1, RepliedIs

LEMMA RepliedEmpty == Replied(<<>>) = <<>>
<1>1. <<>> \in Seq(Nat) /\ Len(<<>>) = 0
  OBVIOUS
<1> QED
  BY <1>1, RepliedIs

LEMMA RepliedAppend ==
    ASSUME NEW q \in Seq(Nat), NEW x \in Nat
    PROVE  Replied(Append(q, x)) = IF x = 0 THEN Replied(q) ELSE Append(Replied(q), x)
<1> DEFINE r == Append(q, x)
           L == Len(q)
<1>1. /\ r \in Seq(Nat) /\ Len(r) = L + 1 /\ r[L + 1] = x /\ L \in Nat
      /\ \A i \in 1 .. L : r[i] = q[i]
  OBVIOUS
<1> HIDE DEF r
<1>2. PICK f : /\ f[0] = <<>> /\ Replied(q) = f[L]
               /\ \A i \in 1 .. L :
                     f[i] = IF q[i] = 0 THEN f[i - 1] ELSE Append(f[i - 1], q[i])
  BY RepliedIs
<1>3. PICK g : /\ g[0] = <<>> /\ Replied(r) = g[L + 1]
               /\ \A i \in 1 .. L + 1 :
                     g[i] = IF r[i] = 0 THEN g[i - 1] ELSE Append(g[i - 1], r[i])
  <2>1. PICK g : /\ g[0] = <<>> /\ Replied(r) = g[Len(r)]
                 /\ \A i \in 1 .. Len(r) :
                       g[i] = IF r[i] = 0 THEN g[i - 1] ELSE Append(g[i - 1], r[i])
    BY <1>1, RepliedIs
  <2> QED
    BY <1>1, <2>1
<1> DEFINE T == {i \in Nat : i <= L => f[i] = g[i]}
<1>4. 0 \in T
  BY <1>2, <1>3
<1>5. ASSUME NEW i \in Nat, i \in T PROVE i + 1 \in T
  <2>1. CASE i + 1 <= L
    <3>1. /\ i + 1 \in 1 .. L /\ i + 1 \in 1 .. L + 1 /\ (i + 1) - 1 = i
          /\ f[i] = g[i]
      <4>1. i + 1 \in 1 .. L /\ i + 1 \in 1 .. L + 1 /\ (i + 1) - 1 = i /\ i <= L
        BY <1>1, <2>1
      <4> QED
        BY <1>5, <4>1
    <3>2. f[i + 1] = g[i + 1]
      BY <1>1, <1>2, <1>3, <3>1
    <3> QED
      BY <3>2
  <2> QED
    BY <2>1
<1> HIDE DEF T
<1>6. f[L] = g[L]
  <2>1. Nat \subseteq T
    BY <1>4, <1>5, SetInduction
  <2> QED
    BY <1>1, <2>1 DEF T
<1>7. g[L + 1] = IF x = 0 THEN g[L] ELSE Append(g[L], x)
  <2>1. L + 1 \in 1 .. L + 1 /\ (L + 1) - 1 = L
    BY <1>1
  <2> QED
    BY <1>1, <1>3, <2>1
<1> QED
  BY <1>2, <1>3, <1>6, <1>7 DEF r

LEMMA AppendRight ==
    ASSUME NEW s \in Seq(Nat), NEW u \in Seq(Nat), NEW x \in Nat
    PROVE  Append(s \o u, x) = s \o Append(u, x)
<1> DEFINE v == <<x>>
<1>1. v \in Seq(Nat)
  OBVIOUS
<1>2. s \o u \in Seq(Nat)
  BY ConcatProperties
<1>3. Append(u, x) = u \o v /\ Append(s \o u, x) = (s \o u) \o v
  BY <1>2, AppendIsConcat
<1> HIDE DEF v
<1>4. (s \o u) \o v = s \o (u \o v)
  BY <1>1, ConcatAssociative, SMTT(30)
<1> QED
  BY <1>3, <1>4

LEMMA RepliedTail ==
    ASSUME NEW q \in Seq(Nat), q # <<>>
    PROVE  Replied(q) = (IF Head(q) = 0 THEN <<>> ELSE <<Head(q)>>) \o Replied(Tail(q))
<1> DEFINE t == Tail(q)
           L == Len(t)
           h == IF Head(q) = 0 THEN <<>> ELSE <<Head(q)>>
<1>1. /\ t \in Seq(Nat) /\ L \in Nat /\ Len(q) = L + 1 /\ q[1] = Head(q) /\ Head(q) \in Nat
      /\ \A i \in 1 .. L : t[i] = q[i + 1] /\ t[i] \in Nat
  BY HeadTailProperties
<1>2. h \in Seq(Nat)
  BY <1>1
<1> HIDE DEF t
<1>3. PICK f : /\ f[0] = <<>> /\ Replied(t) = f[L]
               /\ \A i \in 1 .. L :
                     f[i] = IF t[i] = 0 THEN f[i - 1] ELSE Append(f[i - 1], t[i])
               /\ \A i \in 0 .. L : f[i] \in Seq(Nat)
  BY <1>1, RepliedIs
<1>4. PICK g : /\ g[0] = <<>> /\ Replied(q) = g[L + 1]
               /\ \A i \in 1 .. L + 1 :
                     g[i] = IF q[i] = 0 THEN g[i - 1] ELSE Append(g[i - 1], q[i])
  <2>1. PICK g : /\ g[0] = <<>> /\ Replied(q) = g[Len(q)]
                 /\ \A i \in 1 .. Len(q) :
                       g[i] = IF q[i] = 0 THEN g[i - 1] ELSE Append(g[i - 1], q[i])
    BY RepliedIs
  <2> QED
    BY <1>1, <2>1
<1> DEFINE T == {i \in Nat : i <= L => g[i + 1] = h \o f[i]}
<1>5. 0 \in T
  <2>1. g[1] = IF q[1] = 0 THEN g[0] ELSE Append(g[0], q[1])
    <3>1. 1 \in 1 .. L + 1 /\ 1 - 1 = 0
      BY <1>1
    <3> QED
      BY <1>4, <3>1
  <2>2. Append(<<>>, q[1]) = <<q[1]>>
    OBVIOUS
  <2>3. g[1] = h
    BY <1>1, <1>4, <2>1, <2>2
  <2>4. h \o f[0] = h
    BY <1>2, <1>3, ConcatEmptySeq
  <2> HIDE DEF h
  <2> QED
    BY <2>3, <2>4
<1> HIDE DEF h
<1>6. ASSUME NEW i \in Nat, i \in T PROVE i + 1 \in T
  <2>1. CASE i + 1 <= L
    <3> DEFINE m == i + 1
    <3>1. /\ m \in 1 .. L /\ m + 1 \in 1 .. L + 1 /\ m - 1 = i /\ (m + 1) - 1 = m
          /\ g[m] = h \o f[i] /\ i \in 0 .. L /\ f[i] \in Seq(Nat)
          /\ t[m] = q[m + 1] /\ t[m] \in Nat
      <4>1. /\ m \in 1 .. L /\ m + 1 \in 1 .. L + 1 /\ m - 1 = i /\ (m + 1) - 1 = m
            /\ i <= L /\ i \in 0 .. L
        BY <1>1, <2>1, SMTT(30)
      <4>2. g[m] = h \o f[i]
        BY <1>6, <4>1
      <4> HIDE DEF m
      <4>3. t[m] = q[m + 1] /\ t[m] \in Nat
        BY <1>1, <4>1
      <4>4. f[i] \in Seq(Nat)
        BY <1>3, <4>1
      <4> QED
        BY <4>1, <4>2, <4>3, <4>4
    <3> HIDE DEF m
    <3>2. /\ f[m] = IF t[m] = 0 THEN f[i] ELSE Append(f[i], t[m])
          /\ g[m + 1] = IF t[m] = 0 THEN g[m] ELSE Append(g[m], t[m])
      BY <1>3, <1>4, <3>1
    <3>3. Append(h \o f[i], t[m]) = h \o Append(f[i], t[m])
      BY <1>2, <3>1, AppendRight
    <3>4. g[m + 1] = h \o f[m]
      BY <3>1, <3>2, <3>3
    <3> QED
      BY <3>4 DEF m
  <2> QED
    BY <2>1
<1> HIDE DEF T
<1>7. g[L + 1] = h \o f[L]
  <2>1. Nat \subseteq T
    BY <1>5, <1>6, SetInduction
  <2> QED
    BY <1>1, <2>1 DEF T
<1> QED
  BY <1>3, <1>4, <1>7 DEF h, t

----------------------------------------------------------------------------
(* The start                                                               *)

AllDocuments == Documents \cup {NoFile, default_document, starter_document}
Places == {"idle", "exists", "write", "load", "pool", "pubsub",
           "compat", "listen", "serving", "exited"}

(* The clients that a config stands for: pools and sessions have one kind, *)
(* Pub/Sub the other.                                                      *)
ClientsOf(c) == {pool_connection_info(c), create_pubsub_client(c)}

(* A config that was loaded has its types, and every client that exists is *)
(* made from it.                                                           *)
LoadedInv ==
    /\ run.pc \in {"pool", "pubsub", "compat", "listen", "serving"} =>
          run.cfg.database \in Databases /\ run.cfg.acl \in DOMAIN AclTable
    /\ run.pc = "pubsub" => run.pool \in ClientsOf(run.cfg)
    /\ run.pc \in {"compat", "listen", "serving"} =>
          /\ run = [pc |-> run.pc, cfg |-> run.cfg, size |-> run.size,
                    clients |-> run.clients]
          /\ run.clients \subseteq ClientsOf(run.cfg)
StartInv ==
    /\ files \in [Files -> AllDocuments] /\ run.pc \in Places
    /\ run.pc = "exists" => run = [pc |-> "exists", bin |-> run.bin,
                                   write |-> run.write, path |-> run.path]
    /\ LoadedInv

(* Updates of the record of the process.                                   *)
LEMMA PcUpdates ==
    ASSUME NEW pc, NEW p2, NEW a, NEW b, NEW c
    PROVE  /\ [[pc |-> pc, bin |-> a, write |-> b, path |-> c] EXCEPT !.pc = p2].pc = p2
           /\ [[pc |-> pc, cfg |-> a, size |-> b, clients |-> c] EXCEPT !.pc = p2]
                = [pc |-> p2, cfg |-> a, size |-> b, clients |-> c]
<1>1. [[pc |-> pc, bin |-> a, write |-> b, path |-> c] EXCEPT !.pc = p2].pc = p2
  OBVIOUS
<1>2. [[pc |-> pc, cfg |-> a, size |-> b, clients |-> c] EXCEPT !.pc = p2]
        = [pc |-> p2, cfg |-> a, size |-> b, clients |-> c]
  OBVIOUS
<1> QED
  BY <1>1, <1>2

LEMMA LoadedTypes ==
    ASSUME NEW doc, HasItsTypes(doc)
    PROVE  ConfigOf(doc).database \in Databases /\ ConfigOf(doc).acl \in DOMAIN AclTable
<1>1. Field(doc, "database", "0") \in Databases
  BY GatewayAssumption DEF Field, HasItsTypes, Databases
<1>2. Field(doc, "acl", "none") \in DOMAIN AclTable
  BY GatewayAssumption DEF Field, HasItsTypes
<1>3. /\ ConfigOf(doc).database = Field(doc, "database", "0")
      /\ ConfigOf(doc).acl = Field(doc, "acl", "none")
  BY DEF ConfigOf
<1> QED
  BY <1>1, <1>2, <1>3

LEMMA StartStep == StartInv /\ StartNext => StartInv'
<1> SUFFICES ASSUME StartInv, StartNext PROVE StartInv'
  OBVIOUS
<1> USE DEF At, Goto
<1>0. ASSUME files' = files, run' = Exit(0) \/ run' = Exit(1) \/ run' = Exit(101) PROVE StartInv'
  BY <1>0 DEF StartInv, LoadedInv, Exit, Places
<1>1. ASSUME NEW i \in Invocations, Invoke(i) PROVE StartInv'
  <2>1. CASE i.write = "both"
    BY <1>0, <1>1, <2>1 DEF Invoke
  <2>2. CASE i.write # "both"
    <3>1. /\ run' = [pc |-> IF i.write = "no" THEN "load" ELSE "exists",
                     bin |-> i.bin, write |-> i.write, path |-> ConfigPath(i)]
          /\ files' = files
      BY <1>1, <2>2 DEF Invoke
    <3>2. run'.pc \in {"load", "exists"} /\ run' = [pc |-> run'.pc, bin |-> run'.bin,
                                                    write |-> run'.write, path |-> run'.path]
      BY <3>1
    <3> QED
      BY <3>1, <3>2 DEF StartInv, LoadedInv, Places
  <2> QED
    BY <2>1, <2>2
<1>2. CASE CheckAbsent
  <2>1. CASE Present(run.path)
    BY <1>0, <1>2, <2>1 DEF CheckAbsent
  <2>2. CASE ~Present(run.path)
    <3>1. run' = [run EXCEPT !.pc = "write"] /\ files' = files /\ run.pc = "exists"
      BY <1>2, <2>2 DEF CheckAbsent
    <3>2. run = [pc |-> "exists", bin |-> run.bin, write |-> run.write, path |-> run.path]
      BY <3>1 DEF StartInv
    <3>3. run'.pc = "write"
      BY <3>1, <3>2, PcUpdates
    <3> QED
      BY <3>1, <3>3 DEF StartInv, LoadedInv, Places
  <2> QED
    BY <2>1, <2>2
<1>3. CASE WriteConfig
  <2>1. run' = Exit(0) /\ files' \in [Files -> AllDocuments]
    BY <1>3 DEF WriteConfig, StartInv, AllDocuments
  <2> QED
    BY <2>1 DEF StartInv, LoadedInv, Exit, Places
<1>4. CASE LoadConfig
  <2> DEFINE full == expand_env_vars_in_json(files[run.path])
  <2>1. \/ run' = Exit(1) \/ run' = Exit(101)
        \/ HasItsTypes(full) /\ run' = [pc |-> "pool", cfg |-> ConfigOf(full)]
    BY <1>4 DEF LoadConfig
  <2>2. CASE HasItsTypes(full) /\ run' = [pc |-> "pool", cfg |-> ConfigOf(full)]
    <3> HIDE DEF full
    <3>1. run'.pc = "pool" /\ run'.cfg = ConfigOf(full)
      BY <2>2
    <3>2. run'.cfg.database \in Databases /\ run'.cfg.acl \in DOMAIN AclTable
      BY <2>2, <3>1, LoadedTypes
    <3> QED
      BY <1>4, <3>1, <3>2 DEF LoadConfig, StartInv, LoadedInv, Places
  <2> QED
    BY <1>0, <1>4, <2>1, <2>2 DEF LoadConfig
<1>5. CASE BuildPool
  <2>1. /\ run.pc = "pool" /\ files' = files
        /\ \/ run' = Exit(1)
           \/ run' = [pc |-> "pubsub", cfg |-> run.cfg, size |-> PoolSize(run.cfg),
                      pool |-> pool_connection_info(run.cfg)]
    BY <1>5 DEF BuildPool
  <2>2. CASE run' = [pc |-> "pubsub", cfg |-> run.cfg, size |-> PoolSize(run.cfg),
                     pool |-> pool_connection_info(run.cfg)]
    <3>1. /\ run'.pc = "pubsub" /\ run'.cfg = run.cfg
          /\ run'.pool = pool_connection_info(run.cfg)
      BY <2>2
    <3> QED
      BY <2>1, <3>1 DEF StartInv, LoadedInv, ClientsOf, Places
  <2> QED
    BY <1>0, <2>1, <2>2
<1>6. CASE BuildPubSub
  <2>1. /\ run.pc = "pubsub" /\ files' = files
        /\ \/ run' = Exit(1)
           \/ run' = [pc |-> "compat", cfg |-> run.cfg, size |-> run.size,
                      clients |-> {run.pool, create_pubsub_client(run.cfg)}]
    BY <1>6 DEF BuildPubSub
  <2>2. CASE run' = [pc |-> "compat", cfg |-> run.cfg, size |-> run.size,
                     clients |-> {run.pool, create_pubsub_client(run.cfg)}]
    <3>1. /\ run'.pc = "compat" /\ run'.cfg = run.cfg /\ run'.size = run.size
          /\ run'.clients = {run.pool, create_pubsub_client(run.cfg)}
      BY <2>2
    <3>2. run'.clients \subseteq ClientsOf(run'.cfg)
      BY <2>1, <3>1 DEF StartInv, LoadedInv, ClientsOf
    <3> QED
      BY <2>1, <2>2, <3>1, <3>2 DEF StartInv, LoadedInv, Places
  <2> QED
    BY <1>0, <2>1, <2>2
<1>7. ASSUME NEW p \in {"listen", "serving"}, run.pc \in {"compat", "listen"},
             NEW new \in SUBSET ClientsOf(run.cfg), files' = files,
             run' = [pc |-> p, cfg |-> run.cfg, size |-> run.size,
                     clients |-> run.clients \cup new]
      PROVE  StartInv'
  <2>1. /\ run'.pc = p /\ run'.cfg = run.cfg /\ run'.size = run.size
        /\ run'.clients = run.clients \cup new
    BY <1>7
  <2>2. run'.clients \subseteq ClientsOf(run'.cfg)
    BY <1>7, <2>1 DEF StartInv, LoadedInv
  <2> QED
    BY <1>7, <2>1, <2>2 DEF StartInv, LoadedInv, Places
<1>8. CASE BuildCompat
  <2> DEFINE both == {create_client(run.cfg), create_pubsub_client(run.cfg)}
  <2>1. /\ run.pc = "compat" /\ files' = files
        /\ run = [pc |-> "compat", cfg |-> run.cfg, size |-> run.size,
                  clients |-> run.clients]
        /\ both \subseteq ClientsOf(run.cfg) /\ {} \subseteq ClientsOf(run.cfg)
    BY <1>8 DEF BuildCompat, StartInv, LoadedInv, ClientsOf, create_client
  <2>2. \/ run' = Exit(1)
        \/ run' = [run EXCEPT !.pc = "listen"]
        \/ run' = [pc |-> "listen", cfg |-> run.cfg, size |-> run.size,
                   clients |-> run.clients \cup both]
    BY <1>8 DEF BuildCompat
  <2> HIDE DEF both
  <2>3. CASE run' = [run EXCEPT !.pc = "listen"]
    <3>1. run' = [pc |-> "listen", cfg |-> run.cfg, size |-> run.size,
                  clients |-> run.clients]
      BY <2>1, <2>3, PcUpdates
    <3>2. run' = [pc |-> "listen", cfg |-> run.cfg, size |-> run.size,
                  clients |-> run.clients \cup {}]
      BY <3>1
    <3>3. {} \in SUBSET ClientsOf(run.cfg)
      OBVIOUS
    <3> HIDE DEF At, Goto
    <3> QED
      BY <1>7, <2>1, <3>2, <3>3
  <2>4. CASE run' = [pc |-> "listen", cfg |-> run.cfg, size |-> run.size,
                     clients |-> run.clients \cup both]
    BY <1>7, <2>1, <2>4
  <2> QED
    BY <1>0, <2>1, <2>2, <2>3, <2>4
<1>9. CASE Listen
  <2>1. /\ run.pc = "listen" /\ files' = files
        /\ run = [pc |-> "listen", cfg |-> run.cfg, size |-> run.size,
                  clients |-> run.clients]
        /\ run' = Exit(1) \/ run' = [run EXCEPT !.pc = "serving"]
    BY <1>9 DEF Listen, StartInv, LoadedInv
  <2>2. CASE run' = [run EXCEPT !.pc = "serving"]
    <3>1. run' = [pc |-> "serving", cfg |-> run.cfg, size |-> run.size,
                  clients |-> run.clients]
      BY <2>1, <2>2, PcUpdates
    <3>2. run' = [pc |-> "serving", cfg |-> run.cfg, size |-> run.size,
                  clients |-> run.clients \cup {}]
      BY <3>1
    <3>3. {} \in SUBSET ClientsOf(run.cfg)
      OBVIOUS
    <3> QED
      BY <1>7, <2>1, <3>2, <3>3
  <2> QED
    BY <1>0, <2>1, <2>2
<1>10. CASE Edit
  <2>1. run' = run /\ files' \in [Files -> AllDocuments]
    BY <1>10 DEF Edit, StartInv, AllDocuments
  <2> QED
    BY <2>1 DEF StartInv, LoadedInv
<1>11. CASE Again
  BY <1>11 DEF Again, Idle, StartInv, LoadedInv, Places
<1> QED
  BY <1>1, <1>2, <1>3, <1>4, <1>5, <1>6, <1>8, <1>9, <1>10, <1>11
     DEF StartNext, Program

----------------------------------------------------------------------------
(* One Redis                                                               *)

(* Whether or not a config asks for keep-alive, the client of the pool is  *)
(* the one for Pub/Sub in everything else.                                 *)
LEMMA SameRedis ==
    ASSUME NEW c
    PROVE  [pool_connection_info(c) EXCEPT !.keepAlive = 0]
             = [create_pubsub_client(c) EXCEPT !.keepAlive = 0]
<1>1. CASE c.socket # ""
  BY <1>1 DEF pool_connection_info, create_pubsub_client
<1>2. CASE c.socket = ""
  <2> DEFINE url == get_redis_url(c)
             n == NumberOf[c.keepAlive]
  <2>1. \/ pool_connection_info(c) = url
        \/ pool_connection_info(c) = [url EXCEPT !.keepAlive = n]
    BY <1>2 DEF pool_connection_info, maybe_apply_tcp_keepalive
  <2>2. create_pubsub_client(c) = url
    BY <1>2 DEF create_pubsub_client
  <2> HIDE DEF n
  <2>3. [[url EXCEPT !.keepAlive = n] EXCEPT !.keepAlive = 0]
          = [url EXCEPT !.keepAlive = 0]
    BY DEF get_redis_url
  <2> HIDE DEF url
  <2> QED
    BY <2>1, <2>2, <2>3
<1> QED
  BY <1>1, <1>2

LEMMA OneRedisFollows == StartInv => OneRedis
<1> SUFFICES ASSUME StartInv, At("listen") \/ At("serving"),
                    NEW a \in run.clients, NEW b \in run.clients
             PROVE  [a EXCEPT !.keepAlive = 0] = [b EXCEPT !.keepAlive = 0]
  BY DEF OneRedis
<1>1. a \in ClientsOf(run.cfg) /\ b \in ClientsOf(run.cfg)
  BY DEF StartInv, LoadedInv, At
<1> DEFINE pool == pool_connection_info(run.cfg)
           pubsub == create_pubsub_client(run.cfg)
<1>2. (a = pool \/ a = pubsub) /\ (b = pool \/ b = pubsub)
  BY <1>1 DEF ClientsOf
<1>3. [pool EXCEPT !.keepAlive = 0] = [pubsub EXCEPT !.keepAlive = 0]
  BY SameRedis
<1> HIDE DEF pool, pubsub
<1> QED
  BY <1>2, <1>3

----------------------------------------------------------------------------
(* The tasks of the clients                                                *)

(* The command in hand has a database and, over HTTP and gRPC, the consent *)
(* of the rules; so has a subscription over gRPC.                          *)
Sound(acl, kind, t, h) ==
    /\ t = "exec" =>
         /\ h.cmd.db \in Databases
         /\ Len(h.cmd.args) = 2 => h.cmd.args[2] \in Stored
         /\ kind # "json" => check(AclTable[acl], h.who, h.cmd.name)
    /\ t = "stream" /\ kind # "http" => check(AclTable[acl], h.who, h.cmd.name)

(* A command that is being run or answered has a number.                   *)
Numbered(t, h) == t \in {"exec", "send"} => h.id \in Nat \ {0}

OpenReply(t, h) == IF t \in {"exec", "send"} THEN <<h.id>> ELSE <<>>
Ordered(t, h, o, w, g, left) ==
    IF left THEN IsPrefix(g, w) ELSE g \o Replied(o) \o OpenReply(t, h) = w

TrafficTypes ==
    /\ store \in [Databases -> Stored]
    /\ task \in [Peers -> {"idle", "exec", "send", "stream", "ended"}]
    /\ hand = [p \in Peers |-> hand[p]] /\ login = [p \in Peers |-> login[p]]
    /\ asked \in [Peers -> Nat] /\ owed \in [Peers -> Seq(Nat)]
    /\ out \in [Peers -> Seq(Nat)] /\ got \in [Peers -> Seq(Nat)]
    /\ gone \in [Peers -> BOOLEAN]
PeerInv(p) ==
    /\ Len(out[p]) <= OutCap
    /\ task[p] \in {"exec", "stream"} \/ login[p] # {} => run.pc = "serving"
    /\ Sound(run.cfg.acl, Kind[p], task[p], hand[p])
    /\ InOrder(p) => /\ Numbered(task[p], hand[p])
                     /\ Ordered(task[p], hand[p], out[p], owed[p], got[p], gone[p])
IInv == StartInv /\ TrafficTypes /\ \A p \in Peers : PeerInv(p)

(* A step of the handlers changes what belongs to one client.              *)
LEMMA PeerStep ==
    ASSUME IInv, NEW p \in Peers, UNCHANGED startVars, UNCHANGED login,
           \A q \in Peers \ {p} :
              /\ task'[q] = task[q] /\ hand'[q] = hand[q] /\ out'[q] = out[q]
              /\ owed'[q] = owed[q] /\ got'[q] = got[q] /\ gone'[q] = gone[q],
           TrafficTypes', PeerInv(p)'
    PROVE  IInv'
<1>1. StartInv'
  BY DEF IInv, StartInv, LoadedInv, startVars
<1>2. ASSUME NEW q \in Peers \ {p} PROVE PeerInv(q)'
  <2>1. /\ task'[q] = task[q] /\ hand'[q] = hand[q] /\ out'[q] = out[q]
        /\ owed'[q] = owed[q] /\ got'[q] = got[q] /\ gone'[q] = gone[q]
        /\ run' = run /\ login' = login
    BY DEF startVars
  <2>2. PeerInv(q)
    BY DEF IInv
  <2> QED
    BY <2>1, <2>2 DEF PeerInv, InOrder
<1> QED
  BY <1>1, <1>2 DEF IInv

----------------------------------------------------------------------------
(* The order of the replies                                                *)

LEMMA Regroup ==
    ASSUME NEW a \in Seq(Nat), NEW b \in Seq(Nat), NEW c \in Seq(Nat)
    PROVE  (a \o b) \o c = a \o (b \o c)
BY ConcatAssociative, SMTT(30)

LEMMA PrefixOf ==
    ASSUME NEW g \in Seq(Nat), NEW x \in Seq(Nat)
    PROVE  IsPrefix(g, g \o x)
<1> DEFINE w == g \o x
<1>1. Len(g) <= Len(w)
  BY ConcatProperties
<1>2. SubSeq(g, 1, Len(g)) = g
  BY SubSeqFull
<1>3. SubSeq(w, 1, Len(g)) = g
  BY <1>2, SubSeqOfConcat1
<1> QED
  BY <1>1, <1>2, <1>3 DEF IsPrefix

LEMMA OrderOwe ==
    ASSUME NEW h, NEW h2, NEW o \in Seq(Nat), NEW w \in Seq(Nat), NEW g \in Seq(Nat),
           NEW n \in Nat, h2.id = n, NEW t2 \in {"exec", "send"},
           Ordered("idle", h, o, w, g, FALSE)
    PROVE  Ordered(t2, h2, o, Append(w, n), g, FALSE)
<1> DEFINE s == g \o Replied(o)
           v == <<n>>
<1>1. s \in Seq(Nat) /\ v \in Seq(Nat)
  BY RepliedType, ConcatProperties
<1>2. s \o <<>> = w /\ OpenReply(t2, h2) = v
  BY DEF Ordered, OpenReply
<1>3. Append(s, n) = s \o v
  BY <1>1, AppendIsConcat
<1> HIDE DEF v
<1>4. s = w
  BY <1>1, <1>2, ConcatEmptySeq
<1> QED
  BY <1>2, <1>3, <1>4 DEF Ordered

LEMMA OrderSend ==
    ASSUME NEW h, NEW h2, NEW o \in Seq(Nat), NEW w \in Seq(Nat), NEW g \in Seq(Nat),
           h.id \in Nat \ {0}, Ordered("send", h, o, w, g, FALSE)
    PROVE  Ordered("idle", h2, Append(o, h.id), w, g, FALSE)
<1> DEFINE s == g \o Replied(o)
           n == h.id
<1>1. s \in Seq(Nat) /\ n \in Nat /\ n # 0 /\ Replied(o) \in Seq(Nat)
  BY RepliedType, ConcatProperties
<1>2. s \o <<n>> = w
  BY DEF Ordered, OpenReply
<1>3. Replied(Append(o, n)) = Append(Replied(o), n)
  BY <1>1, RepliedAppend
<1> HIDE DEF n
<1>4. g \o Append(Replied(o), n) = Append(s, n)
  BY <1>1, AppendRight
<1>5. Append(s, n) = w
  BY <1>1, <1>2, AppendIsConcat
<1>6. w \o <<>> = w
  BY ConcatEmptySeq
<1> QED
  BY <1>3, <1>4, <1>5, <1>6 DEF Ordered, OpenReply, n

LEMMA OrderDeliver ==
    ASSUME NEW t, NEW h, NEW o \in Seq(Nat), NEW w \in Seq(Nat), NEW g \in Seq(Nat),
           o # <<>>, Ordered(t, h, o, w, g, FALSE)
    PROVE  Ordered(t, h, Tail(o), w, IF Head(o) = 0 THEN g ELSE Append(g, Head(o)), FALSE)
<1> DEFINE x == Head(o)
           u == Tail(o)
           r == Replied(u)
           v == <<x>>
<1>1. x \in Nat /\ u \in Seq(Nat) /\ v \in Seq(Nat)
  BY HeadTailProperties
<1>2. r \in Seq(Nat)
  BY <1>1, RepliedType
<1>3. Replied(o) = (IF x = 0 THEN <<>> ELSE v) \o r
  BY RepliedTail
<1>4. Append(g, x) = g \o v
  BY <1>1, AppendIsConcat
<1> HIDE DEF x, u, r, v
<1>5. <<>> \o r = r
  BY <1>2, ConcatEmptySeq
<1>6. (g \o v) \o r = g \o (v \o r)
  BY <1>1, <1>2, Regroup, ZenonT(40)
<1>7. g \o Replied(o) = (IF x = 0 THEN g ELSE Append(g, x)) \o r
  BY <1>3, <1>4, <1>5, <1>6
<1> QED
  BY <1>7 DEF Ordered, x, u, r

LEMMA OrderPush ==
    ASSUME NEW t, NEW h, NEW o \in Seq(Nat), NEW w, NEW g, Ordered(t, h, o, w, g, FALSE)
    PROVE  Ordered(t, h, Append(o, 0), w, g, FALSE)
<1>1. Replied(Append(o, 0)) = Replied(o)
  BY RepliedAppend
<1> QED
  BY <1>1 DEF Ordered

LEMMA OrderLeave ==
    ASSUME NEW t, NEW h, NEW h2, NEW t2, NEW o \in Seq(Nat), NEW o2, NEW w \in Seq(Nat),
           NEW g \in Seq(Nat),
           t \in {"exec", "send"} => h.id \in Nat, Ordered(t, h, o, w, g, FALSE)
    PROVE  Ordered(t2, h2, o2, w, g, TRUE)
<1> DEFINE r == Replied(o)
           v == OpenReply(t, h)
<1>1. r \in Seq(Nat)
  BY RepliedType
<1>2. v \in Seq(Nat)
  BY DEF OpenReply
<1>3. (g \o r) \o v = w
  BY DEF Ordered
<1> HIDE DEF r, v
<1>4. (g \o r) \o v = g \o (r \o v)
  BY <1>1, <1>2, Regroup, ZenonT(40)
<1>5. r \o v \in Seq(Nat)
  BY <1>1, <1>2, ConcatProperties
<1>6. IsPrefix(g, g \o (r \o v))
  BY <1>5, PrefixOf
<1> QED
  BY <1>3, <1>4, <1>6 DEF Ordered

----------------------------------------------------------------------------
(* The handlers                                                            *)

(* A step that changes only what a task does and has in hand.              *)
LEMMA TaskStep ==
    ASSUME IInv, NEW p \in Peers, UNCHANGED startVars, UNCHANGED login,
           NEW t \in {"idle", "exec", "send", "stream", "ended"}, NEW h,
           task' = [task EXCEPT ![p] = t], hand' = [hand EXCEPT ![p] = h],
           out' = out, owed' = owed, got' = got, gone' = gone,
           asked' \in [Peers -> Nat], store' \in [Databases -> Stored],
           t \in {"exec", "stream"} => run.pc = "serving",
           Sound(run.cfg.acl, Kind[p], t, h),
           InOrder(p) => /\ Numbered(t, h)
                         /\ Ordered(t, h, out[p], owed[p], got[p], gone[p])
    PROVE  IInv'
<1>1. TrafficTypes /\ PeerInv(p)
  BY DEF IInv
<1>2. TrafficTypes' /\ task'[p] = t /\ hand'[p] = h
  BY <1>1 DEF TrafficTypes
<1>3. PeerInv(p)'
  BY <1>1, <1>2 DEF PeerInv, InOrder, startVars
<1>4. \A q \in Peers \ {p} : task'[q] = task[q] /\ hand'[q] = hand[q]
  BY <1>1 DEF TrafficTypes
<1> QED
  BY <1>2, <1>3, <1>4, PeerStep

LEMMA OneMore ==
    ASSUME TrafficTypes, NEW p \in Peers, asked' = [asked EXCEPT ![p] = @ + 1]
    PROVE  asked' \in [Peers -> Nat]
BY DEF TrafficTypes

LEMMA Arguments ==
    ASSUME NEW k
    PROVE  /\ Len(<<>>) = 0 /\ Len(<<k>>) = 1
           /\ Len(Append(<<>>, "a")) = 1 /\ Append(<<k>>, "a")[2] = "a"
OBVIOUS

LEMMA SecondArgument ==
    ASSUME NEW k, NEW args,
           \/ args = <<>> \/ args = <<k>>
           \/ args = Append(<<>>, "a") \/ args = Append(<<k>>, "a")
    PROVE  Len(args) = 2 => args[2] = "a"
<1>1. Len(args) = 0 \/ Len(args) = 1 \/ args[2] = "a"
  BY Arguments
<1> QED
  BY <1>1

LEMMA OutcomeType ==
    ASSUME TrafficTypes, NEW c, NEW r, Outcome(c, r), c.db \in Databases,
           Len(c.args) = 2 => c.args[2] \in Stored
    PROVE  store' \in [Databases -> Stored]
BY DEF TrafficTypes, Outcome, Effect

LEMMA ParsedParts ==
    ASSUME NEW url, NEW body \in {"none", "", "a"}, NEW tag
    PROVE  LET c == ParsedRequest(url, body, tag)
           IN  /\ c.db = IF url.prefix = "none" THEN run.cfg.database ELSE url.prefix
               /\ Len(c.args) = 2 => c.args[2] \in Stored
<1> DEFINE bare == url.key = ""
           k == decode(WithSuffix(url, url.key))
           key == IF bare THEN <<>> ELSE <<k>>
           args == IF body \in {"none", ""} THEN key ELSE Append(key, body)
<1>1. /\ ParsedRequest(url, body, tag).db
           = IF url.prefix = "none" THEN run.cfg.database ELSE url.prefix
      /\ ParsedRequest(url, body, tag).args = args
  BY DEF ParsedRequest
<1> HIDE DEF k
<1>2. \/ args = <<>> \/ args = <<k>>
      \/ args = Append(<<>>, "a") \/ args = Append(<<k>>, "a")
  OBVIOUS
<1> HIDE DEF args
<1>3. Len(args) = 2 => args[2] = "a"
  BY <1>2, SecondArgument
<1> QED
  BY <1>1, <1>3 DEF Stored

(* A request that is answered at once, or held with the rules' consent.    *)
LEMMA RequestStep ==
    ASSUME IInv, UNCHANGED startVars, UNCHANGED login, NEW p \in Peers,
           NEW url \in Urls, NEW body \in {"none", "", "a"}, process_request(p, url, body)
    PROVE  IInv'
<1>0. TrafficTypes /\ PeerInv(p) /\ run.pc = "serving" /\ StartInv /\ Kind[p] = "http"
  BY DEF IInv, process_request, Serving, At
<1>1. /\ out' = out /\ owed' = owed /\ got' = got /\ gone' = gone /\ store' = store
      /\ asked' = [asked EXCEPT ![p] = @ + 1]
  BY DEF process_request, redis
<1>9. asked' \in [Peers -> Nat] /\ store' \in [Databases -> Stored]
  BY <1>0, <1>1, OneMore DEF TrafficTypes
<1>2. ~InOrder(p)
  BY <1>0 DEF InOrder
<1>3. PICK auth \in Auths, tag \in ConditionalTags(p, url) :
        LET c == ParsedRequest(url, body, tag)
            refused == json_value_response(403, <<"Forbidden">>, c.callback)
            wrong == json_value_response(400, <<PathError(url)>>, select_jsonp_callback(url))
        IN  IF PathError(url) # "" THEN Answer(p, wrong, url, wrong.body)
              ELSE IF ~check(Rules, Who(p, auth), c.name)
              THEN Answer(p, refused, url, refused.body)
              ELSE /\ hand' = [hand EXCEPT ![p] = [cmd |-> c, url |-> url,
                                                  who |-> Who(p, auth)]]
                   /\ task' = [task EXCEPT ![p] = "exec"]
                   /\ UNCHANGED last
  BY DEF process_request
<1> DEFINE c == ParsedRequest(url, body, tag)
           h == [cmd |-> c, url |-> url, who |-> Who(p, auth)]
<1>4. \/ /\ task' = [task EXCEPT ![p] = "idle"]
         /\ hand' = [hand EXCEPT ![p] = Nothing]
      \/ /\ task' = [task EXCEPT ![p] = "exec"]
         /\ hand' = [hand EXCEPT ![p] = h]
         /\ check(Rules, Who(p, auth), c.name) /\ PathError(url) = ""
  BY <1>3, ZenonT(40) DEF Answer
<1>5. CASE /\ task' = [task EXCEPT ![p] = "idle"]
           /\ hand' = [hand EXCEPT ![p] = Nothing]
  <2>1. Sound(run.cfg.acl, Kind[p], "idle", Nothing)
    BY DEF Sound
  <2> QED
    BY <1>1, <1>2, <1>5, <1>9, <2>1, TaskStep
<1>6. CASE /\ task' = [task EXCEPT ![p] = "exec"]
           /\ hand' = [hand EXCEPT ![p] = h]
           /\ check(Rules, Who(p, auth), c.name) /\ PathError(url) = ""
  <2>1. /\ c.db = IF url.prefix = "none" THEN run.cfg.database ELSE url.prefix
        /\ Len(c.args) = 2 => c.args[2] \in Stored
    BY ParsedParts
  <2>2. c.db \in Databases
    <3>1. url.prefix # "256" /\ url.prefix # "bare"
      BY <1>6 DEF PathError
    <3>2. run.cfg.database \in Databases
      BY <1>0 DEF StartInv, LoadedInv
    <3> QED
      BY <2>1, <3>1, <3>2, GatewayAssumption
  <2> HIDE DEF c
  <2>3. h.cmd = c /\ h.who = Who(p, auth)
    OBVIOUS
  <2>4. Sound(run.cfg.acl, Kind[p], "exec", h)
    BY <1>6, <2>1, <2>2, <2>3 DEF Sound, Rules
  <2> HIDE DEF h
  <2> QED
    BY <1>0, <1>1, <1>2, <1>6, <1>9, <2>4, TaskStep
<1> QED
  BY <1>4, <1>5, <1>6

(* The end of a command that is answered by its status alone.              *)
LEMMA StatusStep ==
    ASSUME IInv, UNCHANGED startVars, UNCHANGED login, NEW p \in Peers,
           ExecuteHttp(p) \/ ExecuteUnary(p)
    PROVE  IInv'
<1>0. TrafficTypes /\ PeerInv(p) /\ ~InOrder(p) /\ task[p] = "exec"
  BY DEF IInv, ExecuteHttp, ExecuteUnary, InOrder
<1>1. /\ out' = out /\ owed' = owed /\ got' = got /\ gone' = gone /\ asked' = asked
      /\ task' = [task EXCEPT ![p] = "idle"] /\ hand' = [hand EXCEPT ![p] = Nothing]
      /\ \E r : Outcome(hand[p].cmd, r)
  BY DEF ExecuteHttp, ExecuteUnary, Answer, Hold
<1>2. store' \in [Databases -> Stored]
  <2>1. PICK r : Outcome(hand[p].cmd, r)
    BY <1>1
  <2>2. /\ hand[p].cmd.db \in Databases
        /\ Len(hand[p].cmd.args) = 2 => hand[p].cmd.args[2] \in Stored
    BY <1>0 DEF PeerInv, Sound
  <2> QED
    BY <1>0, <2>1, <2>2, OutcomeType
<1>3. Sound(run.cfg.acl, Kind[p], "idle", Nothing) /\ asked' \in [Peers -> Nat]
  BY <1>0, <1>1 DEF Sound, TrafficTypes
<1> QED
  BY <1>0, <1>1, <1>2, <1>3, TaskStep

LEMMA FromProto ==
    ASSUME NEW c \in Commands, c.db # "256", run.cfg.database \in Databases
    PROVE  LET d == command_from_proto(c)
           IN  /\ d.db \in Databases
               /\ Len(d.args) = 2 => d.args[2] \in Stored
<1> DEFINE d == command_from_proto(c)
           x == IF c.db = "none" THEN run.cfg.database ELSE c.db
<1>1. /\ c \in [db : Databases \cup {"none", "256"}, name : STRING, args : Seq(STRING)]
      /\ Len(c.args) = 2 => c.args[2] \in Stored
  BY GatewayAssumption
<1>2. d = [c EXCEPT !.db = x]
  BY DEF command_from_proto
<1>3. d.db = x /\ d.args = c.args
  BY <1>1, <1>2
<1> QED
  BY <1>1, <1>3

LEMMA UnaryStep ==
    ASSUME IInv, UNCHANGED startVars, UNCHANGED login, NEW p \in Peers, execute(p)
    PROVE  IInv'
<1>0. /\ TrafficTypes /\ PeerInv(p) /\ run.pc = "serving" /\ Kind[p] = "unary"
      /\ run.cfg.database \in Databases /\ ~InOrder(p)
  BY DEF IInv, execute, Serving, At, StartInv, LoadedInv, InOrder
<1>1. /\ out' = out /\ owed' = owed /\ got' = got /\ gone' = gone /\ store' = store
      /\ asked' = [asked EXCEPT ![p] = @ + 1]
  BY DEF execute, redis
<1>2. asked' \in [Peers -> Nat] /\ store' \in [Databases -> Stored]
  BY <1>0, <1>1, OneMore DEF TrafficTypes
<1>3. PICK c \in Commands, auth \in Auths :
        IF BadCommand(c) \/ ~Authorized(p, command_from_proto(c), auth)
          THEN UNCHANGED <<task, hand>>
          ELSE Hold(p, "exec", [cmd |-> command_from_proto(c), who |-> Who(p, auth)])
  BY DEF execute
<1>4. CASE UNCHANGED <<task, hand>>
  <2>1. TrafficTypes' /\ PeerInv(p)'
    BY <1>0, <1>1, <1>2, <1>4 DEF TrafficTypes, PeerInv, InOrder, startVars
  <2> QED
    BY <1>1, <1>4, <2>1, PeerStep
<1>5. CASE /\ ~BadCommand(c) /\ Authorized(p, command_from_proto(c), auth)
           /\ Hold(p, "exec", [cmd |-> command_from_proto(c), who |-> Who(p, auth)])
  <2> DEFINE d == command_from_proto(c)
             h == [cmd |-> d, who |-> Who(p, auth)]
  <2>1. d.db \in Databases /\ (Len(d.args) = 2 => d.args[2] \in Stored)
    BY <1>0, <1>5, FromProto DEF BadCommand
  <2>2. check(Rules, Who(p, auth), d.name)
    BY <1>5 DEF Authorized
  <2>3. task' = [task EXCEPT ![p] = "exec"] /\ hand' = [hand EXCEPT ![p] = h]
    BY <1>5 DEF Hold
  <2> HIDE DEF d
  <2>4. h.cmd = d /\ h.who = Who(p, auth)
    OBVIOUS
  <2>5. Sound(run.cfg.acl, Kind[p], "exec", h)
    BY <2>1, <2>2, <2>4 DEF Sound, Rules
  <2> HIDE DEF h
  <2> QED
    BY <1>0, <1>1, <1>2, <2>3, <2>5, TaskStep
<1> QED
  BY <1>3, <1>4, <1>5

(* A subscription begins, over HTTP unasked, over gRPC with the consent of *)
(* the rules.                                                              *)
LEMMA SubscribeStep ==
    ASSUME IInv, UNCHANGED startVars, UNCHANGED login, NEW p \in Peers,
           handle_subscribe(p) \/ subscribe(p)
    PROVE  IInv'
<1>0. /\ TrafficTypes /\ PeerInv(p) /\ run.pc = "serving"
      /\ Kind[p] \in {"http", "unary"} /\ ~InOrder(p)
  BY DEF IInv, handle_subscribe, subscribe, Serving, At, InOrder
<1>1. /\ out' = out /\ owed' = owed /\ got' = got /\ gone' = gone /\ store' = store
      /\ asked' = [asked EXCEPT ![p] = @ + 1]
  BY DEF handle_subscribe, subscribe, redis
<1>2. asked' \in [Peers -> Nat] /\ store' \in [Databases -> Stored]
  BY <1>0, <1>1, OneMore DEF TrafficTypes
<1>3. CASE UNCHANGED <<task, hand>>
  <2>1. TrafficTypes' /\ PeerInv(p)'
    BY <1>0, <1>1, <1>2, <1>3 DEF TrafficTypes, PeerInv, InOrder, startVars
  <2> QED
    BY <1>1, <1>3, <2>1, PeerStep
<1>4. ASSUME NEW h, Hold(p, "stream", h), Sound(run.cfg.acl, Kind[p], "stream", h)
      PROVE  IInv'
  <2>1. task' = [task EXCEPT ![p] = "stream"] /\ hand' = [hand EXCEPT ![p] = h]
    BY <1>4 DEF Hold
  <2> QED
    BY <1>0, <1>1, <1>2, <1>4, <2>1, TaskStep
<1>5. CASE handle_subscribe(p)
  <2>1. Kind[p] = "http" /\ Hold(p, "stream", [cmd |-> [name |-> "SUBSCRIBE"]])
    BY <1>5 DEF handle_subscribe
  <2>2. Sound(run.cfg.acl, Kind[p], "stream", [cmd |-> [name |-> "SUBSCRIBE"]])
    BY <2>1 DEF Sound
  <2> QED
    BY <1>4, <2>1, <2>2
<1>6. CASE subscribe(p)
  <2> DEFINE c == [name |-> "SUBSCRIBE"]
  <2>1. PICK named \in BOOLEAN, auth \in Auths :
          IF ~named \/ ~Authorized(p, c, auth) THEN UNCHANGED <<task, hand>>
            ELSE Hold(p, "stream", [cmd |-> c, who |-> Who(p, auth)])
    BY <1>6 DEF subscribe
  <2>2. CASE /\ Authorized(p, c, auth)
             /\ Hold(p, "stream", [cmd |-> c, who |-> Who(p, auth)])
    <3> DEFINE h == [cmd |-> c, who |-> Who(p, auth)]
    <3>1. check(Rules, Who(p, auth), c.name)
      BY <2>2 DEF Authorized
    <3> HIDE DEF c
    <3>2. h.cmd = c /\ h.who = Who(p, auth)
      OBVIOUS
    <3>3. Sound(run.cfg.acl, Kind[p], "stream", h)
      BY <3>1, <3>2 DEF Sound, Rules
    <3> QED
      BY <1>4, <2>2, <3>3
  <2> QED
    BY <1>3, <2>1, <2>2
<1> QED
  BY <1>5, <1>6

LEMMA EndStep ==
    ASSUME IInv, UNCHANGED startVars, UNCHANGED login, NEW p \in Peers, EndSubscription(p)
    PROVE  IInv'
<1>1. /\ TrafficTypes /\ PeerInv(p) /\ task[p] = "stream"
      /\ out' = out /\ owed' = owed /\ got' = got /\ gone' = gone /\ store' = store
      /\ asked' = asked
      /\ task' = [task EXCEPT ![p] = "idle"] /\ hand' = [hand EXCEPT ![p] = Nothing]
  BY DEF IInv, EndSubscription, Hold, redis
<1>2. asked' \in [Peers -> Nat] /\ store' \in [Databases -> Stored]
  BY <1>1 DEF TrafficTypes
<1>3. Sound(run.cfg.acl, Kind[p], "idle", Nothing) /\ Numbered("idle", Nothing)
  BY DEF Sound, Numbered
<1>4. ASSUME InOrder(p)
      PROVE  Ordered("idle", Nothing, out[p], owed[p], got[p], gone[p])
  <2>1. Ordered("stream", hand[p], out[p], owed[p], got[p], gone[p])
    BY <1>1, <1>4 DEF PeerInv
  <2> QED
    BY <2>1 DEF Ordered, OpenReply
<1> QED
  BY <1>1, <1>2, <1>3, <1>4, TaskStep

(* An item or a command that is owed an answer, under its number.          *)
LEMMA OweStep ==
    ASSUME IInv, UNCHANGED startVars, UNCHANGED login, NEW p \in Peers, Owe(p),
           task[p] = "idle", gone[p] = FALSE, NEW t \in {"exec", "send"}, NEW h,
           Hold(p, t, h), h.id = asked[p] + 1, UNCHANGED <<out, got, gone, store>>,
           t = "exec" => run.pc = "serving", Sound(run.cfg.acl, Kind[p], t, h)
    PROVE  IInv'
<1> DEFINE n == asked[p] + 1
<1>1. /\ TrafficTypes /\ PeerInv(p) /\ n \in Nat \ {0}
      /\ out[p] \in Seq(Nat) /\ owed[p] \in Seq(Nat) /\ got[p] \in Seq(Nat)
  BY DEF IInv, TrafficTypes
<1>2. /\ task' = [task EXCEPT ![p] = t] /\ hand' = [hand EXCEPT ![p] = h]
      /\ owed' = [owed EXCEPT ![p] = Append(@, n)] /\ asked' = [asked EXCEPT ![p] = n]
      /\ out' = out /\ got' = got /\ gone' = gone /\ store' = store
  BY DEF Hold, Owe
<1> HIDE DEF n
<1>3. /\ task'[p] = t /\ hand'[p] = h /\ owed'[p] = Append(owed[p], n)
      /\ \A q \in Peers \ {p} :
            task'[q] = task[q] /\ hand'[q] = hand[q] /\ owed'[q] = owed[q]
  BY <1>1, <1>2 DEF TrafficTypes
<1>4. TrafficTypes'
  <2>1. Append(owed[p], n) \in Seq(Nat)
    BY <1>1, AppendProperties
  <2> QED
    BY <1>1, <1>2, <2>1 DEF TrafficTypes
<1>5. InOrder(p) => Numbered(t, h) /\ Ordered(t, h, out[p], Append(owed[p], n), got[p], FALSE)
  <2>1. Numbered(t, h)
    BY <1>1 DEF Numbered, n
  <2>2. ASSUME InOrder(p) PROVE Ordered("idle", hand[p], out[p], owed[p], got[p], FALSE)
    BY <1>1, <2>2 DEF PeerInv
  <2>3. h.id = n /\ n \in Nat
    BY <1>1 DEF n
  <2>4. ASSUME InOrder(p)
        PROVE  Ordered(t, h, out[p], Append(owed[p], n), got[p], FALSE)
    <3>1. Ordered("idle", hand[p], out[p], owed[p], got[p], FALSE)
      BY <2>2, <2>4
    <3> DEFINE o == out[p]
               w == owed[p]
               g == got[p]
               old == hand[p]
    <3>2. o \in Seq(Nat) /\ w \in Seq(Nat) /\ g \in Seq(Nat)
      BY <1>1
    <3>3. Ordered("idle", old, o, w, g, FALSE)
      BY <3>1
    <3> HIDE DEF o, w, g, old
    <3>4. Ordered(t, h, o, Append(w, n), g, FALSE)
      BY <2>3, <3>2, <3>3, OrderOwe
    <3> QED
      BY <3>4 DEF o, w, g
  <2> QED
    BY <2>1, <2>4
<1>6. PeerInv(p)'
  <2>1. run' = run /\ login' = login
    BY DEF startVars
  <2>2. Len(out[p]) <= OutCap /\ (login[p] # {} => run.pc = "serving")
    BY <1>1 DEF PeerInv
  <2> QED
    BY <1>2, <1>3, <1>5, <2>1, <2>2 DEF PeerInv, InOrder
<1> QED
  BY <1>2, <1>3, <1>4, <1>6, PeerStep

LEMMA StreamStep ==
    ASSUME IInv, UNCHANGED startVars, UNCHANGED login, NEW p \in Peers, execute_stream(p)
    PROVE  IInv'
<1>1. PICK auth \in login[p], c \in Commands \cup {Nothing} :
        IF c = Nothing \/ BadCommand(c) \/ ~Authorized(p, command_from_proto(c), auth)
          THEN Hold(p, "send", [reply |-> "error", id |-> asked[p] + 1])
          ELSE Hold(p, "exec", [cmd |-> command_from_proto(c), id |-> asked[p] + 1,
                                who |-> Who(p, auth)])
  BY DEF execute_stream
<1>2. /\ Owe(p) /\ task[p] = "idle" /\ UNCHANGED <<out, got, gone, store>>
      /\ ~gone[p] /\ gone[p] \in BOOLEAN
  BY DEF execute_stream, Ask, redis, IInv, TrafficTypes
<1>3. gone[p] = FALSE
  BY <1>2
<1>4. run.pc = "serving" /\ run.cfg.database \in Databases
  <2>1. PeerInv(p) /\ login[p] # {} /\ StartInv
    BY DEF IInv
  <2> QED
    BY <2>1 DEF PeerInv, StartInv, LoadedInv
<1>5. CASE Hold(p, "send", [reply |-> "error", id |-> asked[p] + 1])
  <2> DEFINE h == [reply |-> "error", id |-> asked[p] + 1]
  <2>1. Sound(run.cfg.acl, Kind[p], "send", h) /\ h.id = asked[p] + 1
    BY DEF Sound
  <2> HIDE DEF h
  <2> QED
    BY <1>2, <1>3, <1>5, <2>1, OweStep DEF h
<1>6. CASE /\ c \in Commands /\ ~BadCommand(c) /\ Authorized(p, command_from_proto(c), auth)
           /\ Hold(p, "exec", [cmd |-> command_from_proto(c), id |-> asked[p] + 1,
                               who |-> Who(p, auth)])
  <2> DEFINE d == command_from_proto(c)
             h == [cmd |-> d, id |-> asked[p] + 1, who |-> Who(p, auth)]
  <2>1. d.db \in Databases /\ (Len(d.args) = 2 => d.args[2] \in Stored)
    BY <1>4, <1>6, FromProto DEF BadCommand
  <2>2. check(Rules, Who(p, auth), d.name)
    BY <1>6 DEF Authorized
  <2>3. Hold(p, "exec", h)
    BY <1>6
  <2> HIDE DEF d
  <2>4. h.cmd = d /\ h.who = Who(p, auth) /\ h.id = asked[p] + 1
    OBVIOUS
  <2>5. Sound(run.cfg.acl, Kind[p], "exec", h)
    BY <2>1, <2>2, <2>4 DEF Sound, Rules
  <2> HIDE DEF h
  <2> QED
    BY <1>2, <1>3, <1>4, <2>3, <2>4, <2>5, OweStep
<1> QED
  BY <1>1, <1>5, <1>6

LEMMA JsonStep ==
    ASSUME IInv, UNCHANGED startVars, UNCHANGED login, NEW p \in Peers, JsonCommand(p)
    PROVE  IInv'
<1>1. PICK c \in Commands :
        Hold(p, "exec", [cmd |-> [c EXCEPT !.db = run.cfg.database], id |-> asked[p] + 1])
  BY DEF JsonCommand
<1>2. /\ Owe(p) /\ task[p] = "idle" /\ UNCHANGED <<out, got, gone, store>>
      /\ ~gone[p] /\ gone[p] \in BOOLEAN /\ Kind[p] = "json"
      /\ run.pc = "serving"
  BY DEF JsonCommand, Ask, redis, IInv, TrafficTypes, Serving, At
<1>3. gone[p] = FALSE
  BY <1>2
<1>4. run.cfg.database \in Databases
  BY <1>2 DEF IInv, StartInv, LoadedInv
<1> DEFINE d == [c EXCEPT !.db = run.cfg.database]
           h == [cmd |-> d, id |-> asked[p] + 1]
<1>5. /\ c \in [db : Databases \cup {"none", "256"}, name : STRING, args : Seq(STRING)]
      /\ Len(c.args) = 2 => c.args[2] \in Stored
  BY GatewayAssumption
<1>6. d.db \in Databases /\ d.args = c.args
  BY <1>4, <1>5
<1>7. Hold(p, "exec", h)
  BY <1>1
<1> HIDE DEF d
<1>8. h.cmd = d /\ h.id = asked[p] + 1
  OBVIOUS
<1>9. Sound(run.cfg.acl, Kind[p], "exec", h)
  BY <1>2, <1>5, <1>6, <1>8 DEF Sound
<1> HIDE DEF h
<1> QED
  BY <1>2, <1>3, <1>7, <1>8, <1>9, OweStep

(* The command of a stream or a WebSocket has been run.                    *)
LEMMA ExecutedStep ==
    ASSUME IInv, UNCHANGED startVars, UNCHANGED login, NEW p \in Peers, ExecuteNext(p)
    PROVE  IInv'
<1>1. PICK r : /\ Outcome(hand[p].cmd, r)
               /\ Hold(p, "send", [reply |-> r, id |-> hand[p].id])
  BY DEF ExecuteNext
<1>2. /\ TrafficTypes /\ PeerInv(p) /\ task[p] = "exec" /\ InOrder(p)
      /\ out' = out /\ owed' = owed /\ got' = got /\ gone' = gone /\ asked' = asked
  BY DEF IInv, ExecuteNext
<1> DEFINE h == [reply |-> r, id |-> hand[p].id]
<1>3. h.id = hand[p].id
  OBVIOUS
<1>4. task' = [task EXCEPT ![p] = "send"] /\ hand' = [hand EXCEPT ![p] = h]
  BY <1>1 DEF Hold
<1> HIDE DEF h
<1>5. store' \in [Databases -> Stored]
  <2>1. /\ hand[p].cmd.db \in Databases
        /\ Len(hand[p].cmd.args) = 2 => hand[p].cmd.args[2] \in Stored
    BY <1>2 DEF PeerInv, Sound
  <2> QED
    BY <1>1, <1>2, <2>1, OutcomeType
<1>6. /\ Sound(run.cfg.acl, Kind[p], "send", h)
      /\ Numbered("send", h)
      /\ Ordered("send", h, out[p], owed[p], got[p], gone[p])
  <2>1. /\ Numbered("exec", hand[p])
        /\ Ordered("exec", hand[p], out[p], owed[p], got[p], gone[p])
    BY <1>2 DEF PeerInv
  <2> QED
    BY <1>3, <2>1 DEF Sound, Numbered, Ordered, OpenReply
<1>7. asked' \in [Peers -> Nat]
  BY <1>2 DEF TrafficTypes
<1> QED
  BY <1>2, <1>4, <1>5, <1>6, <1>7, TaskStep

(* The reply enters the channel, or finds that the client has gone.        *)
LEMMA SendStep ==
    ASSUME IInv, UNCHANGED startVars, UNCHANGED login, NEW p \in Peers, SendReply(p)
    PROVE  IInv'
<1>1. /\ TrafficTypes /\ PeerInv(p) /\ task[p] = "send" /\ InOrder(p)
      /\ owed' = owed /\ got' = got /\ gone' = gone /\ asked' = asked /\ store' = store
  BY DEF IInv, SendReply, redis
<1>2. asked' \in [Peers -> Nat] /\ store' \in [Databases -> Stored] /\ gone[p] \in BOOLEAN
  BY <1>1 DEF TrafficTypes
<1>3. CASE gone[p] = TRUE
  <2>1. /\ task' = [task EXCEPT ![p] = "ended"] /\ hand' = [hand EXCEPT ![p] = Nothing]
        /\ out' = out
    BY <1>3 DEF SendReply, Hold
  <2>2. Ordered("send", hand[p], out[p], owed[p], got[p], gone[p])
    BY <1>1 DEF PeerInv
  <2>3. /\ Sound(run.cfg.acl, Kind[p], "ended", Nothing) /\ Numbered("ended", Nothing)
        /\ Ordered("ended", Nothing, out[p], owed[p], got[p], gone[p])
    BY <1>3, <2>2 DEF Sound, Numbered, Ordered
  <2> QED
    BY <1>1, <1>2, <2>1, <2>3, TaskStep
<1>4. CASE gone[p] = FALSE
  <2> DEFINE n == hand[p].id
             o == out[p]
             w == owed[p]
             g == got[p]
             old == hand[p]
  <2>1. /\ task' = [task EXCEPT ![p] = "idle"] /\ hand' = [hand EXCEPT ![p] = Nothing]
        /\ out' = [out EXCEPT ![p] = Append(o, n)] /\ Len(o) < OutCap
    BY <1>4 DEF SendReply, Hold
  <2>2. /\ Numbered("send", old) /\ Ordered("send", old, o, w, g, FALSE)
        /\ o \in Seq(Nat) /\ w \in Seq(Nat) /\ g \in Seq(Nat) /\ n = old.id
    BY <1>1, <1>4 DEF PeerInv, TrafficTypes
  <2>3. /\ task'[p] = "idle" /\ hand'[p] = Nothing /\ out'[p] = Append(o, n)
        /\ \A q \in Peers \ {p} : task'[q] = task[q] /\ hand'[q] = hand[q] /\ out'[q] = out[q]
    BY <1>1, <2>1 DEF TrafficTypes
  <2> HIDE DEF n, o, w, g, old
  <2>4. old.id \in Nat \ {0} /\ n \in Nat
    BY <2>2 DEF Numbered
  <2>5. Ordered("idle", Nothing, Append(o, n), w, g, FALSE)
    BY <2>2, <2>4, OrderSend
  <2>6. Append(o, n) \in Seq(Nat) /\ Len(Append(o, n)) <= OutCap
    <3>1. Append(o, n) \in Seq(Nat) /\ Len(Append(o, n)) = Len(o) + 1 /\ Len(o) \in Nat
      BY <2>2, <2>4, AppendProperties, LenProperties
    <3> QED
      BY <2>1, <3>1, GatewayAssumption
  <2>7. TrafficTypes'
    BY <1>1, <2>1, <2>6 DEF TrafficTypes
  <2>8. PeerInv(p)'
    <3>1. /\ owed'[p] = w /\ got'[p] = g /\ gone'[p] = FALSE
          /\ run' = run /\ login' = login
      BY <1>1, <1>4 DEF w, g, startVars
    <3>2. login[p] # {} => run.pc = "serving"
      BY <1>1 DEF PeerInv
    <3> QED
      BY <2>3, <2>5, <2>6, <3>1, <3>2 DEF PeerInv, InOrder, Sound, Numbered
  <2> QED
    BY <1>1, <2>3, <2>7, <2>8, PeerStep
<1> QED
  BY <1>2, <1>3, <1>4

(* The channel is written to the client; a message is no reply.            *)
LEMMA DeliverStep ==
    ASSUME IInv, UNCHANGED startVars, UNCHANGED login, NEW p \in Peers, Deliver(p)
    PROVE  IInv'
<1> DEFINE o == out[p]
           w == owed[p]
           g == got[p]
           g2 == IF Head(o) = 0 THEN g ELSE Append(g, Head(o))
<1>1. /\ TrafficTypes /\ PeerInv(p) /\ InOrder(p) /\ o # <<>> /\ ~gone[p]
      /\ task' = task /\ hand' = hand /\ owed' = owed /\ gone' = gone /\ asked' = asked
      /\ store' = store /\ out' = [out EXCEPT ![p] = Tail(o)]
      /\ got' = IF Head(o) = 0 THEN got ELSE [got EXCEPT ![p] = Append(@, Head(o))]
  BY DEF IInv, Deliver, redis
<1>2. /\ o \in Seq(Nat) /\ w \in Seq(Nat) /\ g \in Seq(Nat) /\ gone[p] = FALSE
      /\ Ordered(task[p], hand[p], o, w, g, gone[p])
  BY <1>1 DEF TrafficTypes, PeerInv
<1>3. /\ out'[p] = Tail(o) /\ got'[p] = g2
      /\ \A q \in Peers \ {p} : out'[q] = out[q] /\ got'[q] = got[q]
      /\ got' = [got EXCEPT ![p] = g2]
  BY <1>1 DEF TrafficTypes
<1> HIDE DEF o, w, g
<1>4. Ordered(task[p], hand[p], Tail(o), w, g2, FALSE)
  <2>1. Ordered(task[p], hand[p], o, w, g, FALSE)
    BY <1>2
  <2> DEFINE t == task[p]
             h == hand[p]
  <2>2. Ordered(t, h, o, w, g, FALSE)
    BY <2>1
  <2> HIDE DEF t, h
  <2>3. Ordered(t, h, Tail(o), w, g2, FALSE)
    BY <1>1, <1>2, <2>2, OrderDeliver
  <2> QED
    BY <2>3 DEF t, h
<1>5. /\ Tail(o) \in Seq(Nat) /\ Len(Tail(o)) <= OutCap /\ Head(o) \in Nat
  <2>1. Tail(o) \in Seq(Nat) /\ Len(Tail(o)) = Len(o) - 1 /\ Head(o) \in Nat /\ Len(o) \in Nat
    BY <1>1, <1>2, HeadTailProperties, LenProperties
  <2>2. Len(o) <= OutCap
    BY <1>1 DEF PeerInv, o
  <2> QED
    BY <2>1, <2>2, GatewayAssumption
<1>6. g2 \in Seq(Nat)
  <2>1. Append(g, Head(o)) \in Seq(Nat)
    BY <1>2, <1>5, AppendProperties
  <2> QED
    BY <1>2, <2>1
<1> HIDE DEF g2
<1>7. TrafficTypes'
  BY <1>1, <1>3, <1>5, <1>6 DEF TrafficTypes
<1>8. PeerInv(p)'
  <2>1. owed'[p] = w /\ gone'[p] = FALSE /\ run' = run /\ login' = login
    BY <1>1, <1>2 DEF w, startVars
  <2> QED
    BY <1>1, <1>3, <1>4, <1>5, <2>1 DEF PeerInv, InOrder
<1> QED
  BY <1>1, <1>3, <1>7, <1>8, PeerStep

LEMMA PushStep ==
    ASSUME IInv, UNCHANGED startVars, UNCHANGED login, NEW p \in Peers, Push(p)
    PROVE  IInv'
<1> DEFINE o == out[p]
           t == task[p]
           h == hand[p]
           w == owed[p]
           g == got[p]
<1>1. /\ TrafficTypes /\ PeerInv(p) /\ ~gone[p] /\ Len(o) < OutCap
      /\ task' = task /\ hand' = hand /\ owed' = owed /\ gone' = gone /\ asked' = asked
      /\ store' = store /\ got' = got /\ out' = [out EXCEPT ![p] = Append(o, 0)]
  BY DEF IInv, Push, redis
<1>2. /\ o \in Seq(Nat) /\ gone[p] = FALSE
      /\ InOrder(p) => Ordered(t, h, o, w, g, gone[p])
  BY <1>1 DEF TrafficTypes, PeerInv
<1>3. /\ out'[p] = Append(o, 0)
      /\ \A q \in Peers \ {p} : out'[q] = out[q]
  BY <1>1 DEF TrafficTypes
<1> HIDE DEF o, t, h, w, g
<1>4. InOrder(p) => Ordered(t, h, Append(o, 0), w, g, FALSE)
  <2> SUFFICES ASSUME InOrder(p) PROVE Ordered(t, h, Append(o, 0), w, g, FALSE)
    OBVIOUS
  <2>1. Ordered(t, h, o, w, g, FALSE)
    BY <1>2
  <2> QED
    BY <1>2, <2>1, OrderPush
<1>5. Append(o, 0) \in Seq(Nat) /\ Len(Append(o, 0)) <= OutCap
  <2>1. Append(o, 0) \in Seq(Nat) /\ Len(Append(o, 0)) = Len(o) + 1 /\ Len(o) \in Nat
    BY <1>2, AppendProperties, LenProperties
  <2> QED
    BY <1>1, <2>1, GatewayAssumption
<1>6. TrafficTypes'
  BY <1>1, <1>5 DEF TrafficTypes
<1>7. PeerInv(p)'
  <2>1. /\ gone'[p] = FALSE /\ run' = run /\ login' = login
        /\ task'[p] = t /\ hand'[p] = h /\ owed'[p] = w /\ got'[p] = g
    BY <1>1, <1>2 DEF t, h, w, g, startVars
  <2>2. /\ t \in {"exec", "stream"} \/ login[p] # {} => run.pc = "serving"
        /\ Sound(run.cfg.acl, Kind[p], t, h) /\ (InOrder(p) => Numbered(t, h))
    BY <1>1 DEF PeerInv, t, h
  <2> QED
    BY <1>3, <1>4, <1>5, <2>1, <2>2 DEF PeerInv, InOrder
<1> QED
  BY <1>1, <1>3, <1>6, <1>7, PeerStep

(* An item that cannot be read ends the stream with an error, no reply.    *)
LEMMA FailStep ==
    ASSUME IInv, UNCHANGED startVars, UNCHANGED login, NEW p \in Peers, FailStream(p)
    PROVE  IInv'
<1> DEFINE o == out[p]
           h == hand[p]
           w == owed[p]
           g == got[p]
<1>1. /\ TrafficTypes /\ PeerInv(p) /\ ~gone[p] /\ Len(o) < OutCap /\ task[p] = "idle"
      /\ owed' = owed /\ gone' = gone /\ asked' = asked
      /\ store' = store /\ got' = got /\ out' = [out EXCEPT ![p] = Append(o, 0)]
      /\ task' = [task EXCEPT ![p] = "ended"] /\ hand' = [hand EXCEPT ![p] = Nothing]
  BY DEF IInv, FailStream, Hold, redis
<1>2. /\ o \in Seq(Nat) /\ gone[p] = FALSE
      /\ InOrder(p) => Ordered("idle", h, o, w, g, gone[p])
  BY <1>1 DEF TrafficTypes, PeerInv
<1>3. /\ out'[p] = Append(o, 0) /\ task'[p] = "ended" /\ hand'[p] = Nothing
      /\ \A q \in Peers \ {p} : out'[q] = out[q] /\ task'[q] = task[q] /\ hand'[q] = hand[q]
  BY <1>1 DEF TrafficTypes
<1> HIDE DEF o, h, w, g
<1>4. InOrder(p) => Ordered("ended", Nothing, Append(o, 0), w, g, FALSE)
  <2> SUFFICES ASSUME InOrder(p) PROVE Ordered("ended", Nothing, Append(o, 0), w, g, FALSE)
    OBVIOUS
  <2>1. Ordered("idle", h, o, w, g, FALSE)
    BY <1>2
  <2>2. Ordered("idle", h, Append(o, 0), w, g, FALSE)
    BY <1>2, <2>1, OrderPush
  <2> QED
    BY <2>2 DEF Ordered, OpenReply
<1>5. Append(o, 0) \in Seq(Nat) /\ Len(Append(o, 0)) <= OutCap
  <2>1. Append(o, 0) \in Seq(Nat) /\ Len(Append(o, 0)) = Len(o) + 1 /\ Len(o) \in Nat
    BY <1>2, AppendProperties, LenProperties
  <2> QED
    BY <1>1, <2>1, GatewayAssumption
<1>6. TrafficTypes'
  BY <1>1, <1>5 DEF TrafficTypes
<1>7. PeerInv(p)'
  <2>1. /\ gone'[p] = FALSE /\ run' = run /\ login' = login
        /\ owed'[p] = w /\ got'[p] = g
    BY <1>1, <1>2 DEF w, g, startVars
  <2>2. login[p] # {} => run.pc = "serving"
    BY <1>1 DEF PeerInv
  <2>3. Sound(run.cfg.acl, Kind[p], "ended", Nothing) /\ Numbered("ended", Nothing)
    BY DEF Sound, Numbered
  <2> QED
    BY <1>3, <1>4, <1>5, <2>1, <2>2, <2>3 DEF PeerInv, InOrder
<1> QED
  BY <1>1, <1>3, <1>6, <1>7, PeerStep

(* The client goes, and what is in the channel with it.                    *)
LEMMA LeaveStep ==
    ASSUME IInv, UNCHANGED startVars, UNCHANGED login, NEW p \in Peers, Leave(p)
    PROVE  IInv'
<1> DEFINE o == out[p]
           t == task[p]
           h == hand[p]
           w == owed[p]
           g == got[p]
           t2 == IF t = "idle" THEN "ended" ELSE t
<1>1. /\ TrafficTypes /\ PeerInv(p) /\ ~gone[p] /\ InOrder(p)
      /\ hand' = hand /\ owed' = owed /\ gone' = [gone EXCEPT ![p] = TRUE]
      /\ asked' = asked /\ store' = store /\ got' = got /\ out' = [out EXCEPT ![p] = <<>>]
      /\ task' = IF t = "idle" THEN [task EXCEPT ![p] = "ended"] ELSE task
  BY DEF IInv, Leave, redis
<1>2. /\ o \in Seq(Nat) /\ w \in Seq(Nat) /\ g \in Seq(Nat) /\ gone[p] = FALSE
      /\ Ordered(t, h, o, w, g, gone[p]) /\ Numbered(t, h)
  BY <1>1 DEF TrafficTypes, PeerInv
<1>3. /\ out'[p] = <<>> /\ gone'[p] = TRUE /\ task'[p] = t2
      /\ \A q \in Peers \ {p} :
            out'[q] = out[q] /\ gone'[q] = gone[q] /\ task'[q] = task[q]
  BY <1>1 DEF TrafficTypes
<1>4. TrafficTypes'
  <2>1. <<>> \in Seq(Nat) /\ t2 \in {"idle", "exec", "send", "stream", "ended"}
    BY <1>1 DEF TrafficTypes
  <2> QED
    BY <1>1, <2>1 DEF TrafficTypes
<1>5. PeerInv(p)'
  <2>1. /\ run' = run /\ login' = login /\ hand'[p] = h /\ owed'[p] = w /\ got'[p] = g
    BY <1>1 DEF startVars
  <2>2. /\ t \in {"exec", "stream"} \/ login[p] # {} => run.pc = "serving"
        /\ Sound(run.cfg.acl, Kind[p], t, h)
    BY <1>1 DEF PeerInv
  <2> HIDE DEF o, h, w, g, t
  <2>3. Ordered(t2, h, <<>>, w, g, TRUE)
    <3>1. Ordered(t, h, o, w, g, FALSE) /\ (t \in {"exec", "send"} => h.id \in Nat)
      BY <1>2 DEF Numbered
    <3> HIDE DEF t2
    <3> QED
      BY <1>2, <3>1, OrderLeave
  <2>4. /\ Numbered(t2, h) /\ Sound(run.cfg.acl, Kind[p], t2, h)
        /\ t2 \in {"exec", "stream"} => t \in {"exec", "stream"}
    BY <1>2, <2>2 DEF Numbered, Sound
  <2>5. Len(<<>>) <= OutCap
    <3>1. Len(<<>>) = 0
      OBVIOUS
    <3> QED
      BY <3>1, GatewayAssumption
  <2> HIDE DEF t2
  <2> QED
    BY <1>3, <2>1, <2>2, <2>3, <2>4, <2>5 DEF PeerInv, InOrder
<1> QED
  BY <1>1, <1>3, <1>4, <1>5, PeerStep

LEMMA OtherSteps ==
    ASSUME IInv, UNCHANGED startVars, UNCHANGED login,
           Write \/ \E p \in Peers : JsonOther(p)
    PROVE  IInv'
<1>1. /\ task' = task /\ hand' = hand /\ owed' = owed /\ gone' = gone
      /\ out' = out /\ got' = got
  BY DEF Write, JsonOther, traffic
<1>2. asked' \in [Peers -> Nat] /\ store' \in [Databases -> Stored]
  <2>1. TrafficTypes
    BY DEF IInv
  <2>2. CASE Write
    BY <2>1, <2>2 DEF TrafficTypes, Write, traffic, Stored
  <2>3. ASSUME NEW p \in Peers, JsonOther(p) PROVE asked' \in [Peers -> Nat] /\ store' = store
    BY <2>1, <2>3, OneMore DEF JsonOther, redis
  <2> QED
    BY <2>1, <2>2, <2>3 DEF TrafficTypes
<1>3. TrafficTypes'
  BY <1>1, <1>2 DEF IInv, TrafficTypes
<1>4. StartInv' /\ \A p \in Peers : PeerInv(p)'
  BY <1>1 DEF IInv, PeerInv, InOrder, StartInv, LoadedInv, startVars
<1> QED
  BY <1>3, <1>4 DEF IInv

(* While the process starts no client has been let in, so that the rules   *)
(* of a command in hand are those that were asked.                         *)
LEMMA StartingStep ==
    ASSUME IInv, StartNext, UNCHANGED <<redis, traffic, login>>
    PROVE  IInv'
<1>1. StartInv'
  BY StartStep DEF IInv
<1>2. run.pc # "serving"
  BY DEF StartNext, Program, At, Invoke, CheckAbsent, WriteConfig, LoadConfig,
         BuildPool, BuildPubSub, BuildCompat, Listen, Edit, Again
<1>3. /\ task' = task /\ hand' = hand /\ owed' = owed /\ gone' = gone /\ asked' = asked
      /\ out' = out /\ got' = got /\ store' = store /\ login' = login
  BY DEF traffic, redis
<1>4. TrafficTypes'
  BY <1>3 DEF IInv, TrafficTypes
<1>5. ASSUME NEW p \in Peers PROVE PeerInv(p)'
  <2>1. PeerInv(p)
    BY DEF IInv
  <2>2. task[p] # "exec" /\ task[p] # "stream" /\ login[p] = {}
    BY <1>2, <2>1 DEF PeerInv
  <2> QED
    BY <1>3, <2>1, <2>2 DEF PeerInv, InOrder, Sound
<1> QED
  BY <1>1, <1>4, <1>5 DEF IInv

LEMMA OpenStep ==
    ASSUME IInv, NEW p \in Peers, OpenStream(p), UNCHANGED <<startVars, redis, traffic>>
    PROVE  IInv'
<1>1. /\ task' = task /\ hand' = hand /\ owed' = owed /\ gone' = gone /\ asked' = asked
      /\ out' = out /\ got' = got /\ store' = store /\ run' = run /\ files' = files
  BY DEF traffic, redis, startVars
<1>2. TrafficTypes' /\ \A q \in Peers \ {p} : login'[q] = login[q]
  BY <1>1 DEF IInv, TrafficTypes, OpenStream
<1>3. run.pc = "serving"
  BY DEF OpenStream, Serving, At
<1>4. StartInv'
  BY <1>1 DEF IInv, StartInv, LoadedInv
<1>5. ASSUME NEW q \in Peers PROVE PeerInv(q)'
  BY <1>1, <1>2, <1>3 DEF IInv, PeerInv, InOrder
<1> QED
  BY <1>2, <1>4, <1>5 DEF IInv

LEMMA InitIInv == Init => IInv
<1> SUFFICES ASSUME Init PROVE IInv
  OBVIOUS
<1>1. StartInv
  <2>1. files \in [Files -> AllDocuments]
    BY DEF Init, StartInit, AllDocuments
  <2>2. run.pc = "idle"
    BY DEF Init, StartInit, Idle
  <2> QED
    BY <2>1, <2>2 DEF StartInv, LoadedInv, Places
<1>2. TrafficTypes
  <2>1. <<>> \in Seq(Nat)
    OBVIOUS
  <2>2. "nil" \in Stored
    BY DEF Stored
  <2> QED
    BY <2>1, <2>2 DEF Init, TrafficTypes
<1>3. ASSUME NEW p \in Peers PROVE PeerInv(p)
  <2>1. /\ task[p] = "idle" /\ login[p] = {} /\ gone[p] = FALSE
        /\ out[p] = <<>> /\ got[p] = <<>> /\ owed[p] = <<>>
    BY DEF Init
  <2>2. Len(<<>>) = 0 /\ <<>> \o <<>> = <<>>
    OBVIOUS
  <2>3. Ordered("idle", hand[p], <<>>, <<>>, <<>>, FALSE)
    BY <2>2, RepliedEmpty DEF Ordered, OpenReply
  <2>4. Len(out[p]) <= OutCap
    BY <2>1, <2>2, GatewayAssumption
  <2> QED
    BY <2>1, <2>3, <2>4 DEF PeerInv, Sound, Numbered
<1> QED
  BY <1>1, <1>2, <1>3 DEF IInv

LEMMA NextIInv == IInv /\ [Next]_vars => IInv'
<1> SUFFICES ASSUME IInv, [Next]_vars PROVE IInv'
  OBVIOUS
<1>1. CASE StartNext /\ UNCHANGED <<redis, traffic, login>>
  BY <1>1, StartingStep
<1>2. CASE Handlers /\ UNCHANGED <<startVars, login>>
  <2>0. UNCHANGED startVars /\ UNCHANGED login
    BY <1>2
  <2>1. CASE Write
    BY <2>0, <2>1, OtherSteps
  <2>2. ASSUME NEW p \in Peers, handle_get(p) \/ handle_post(p) \/ handle_put(p) PROVE IInv'
    <3>1. PICK url \in Urls, body \in {"none", "", "a"} : process_request(p, url, body)
      BY <2>2 DEF handle_get, handle_post, handle_put
    <3> QED
      BY <2>0, <3>1, RequestStep
  <2>3. ASSUME NEW p \in Peers, ExecuteHttp(p) \/ ExecuteUnary(p) PROVE IInv'
    BY <2>0, <2>3, StatusStep
  <2>4. ASSUME NEW p \in Peers, execute(p) PROVE IInv'
    BY <2>0, <2>4, UnaryStep
  <2>5. ASSUME NEW p \in Peers, execute_stream(p) PROVE IInv'
    BY <2>0, <2>5, StreamStep
  <2>6. ASSUME NEW p \in Peers, JsonCommand(p) PROVE IInv'
    BY <2>0, <2>6, JsonStep
  <2>7. ASSUME NEW p \in Peers, JsonOther(p) PROVE IInv'
    BY <2>0, <2>7, OtherSteps
  <2>8. ASSUME NEW p \in Peers, Push(p) PROVE IInv'
    BY <2>0, <2>8, PushStep
  <2>9. ASSUME NEW p \in Peers, ExecuteNext(p) PROVE IInv'
    BY <2>0, <2>9, ExecutedStep
  <2>10. ASSUME NEW p \in Peers, SendReply(p) PROVE IInv'
    BY <2>0, <2>10, SendStep
  <2>11. ASSUME NEW p \in Peers, Deliver(p) PROVE IInv'
    BY <2>0, <2>11, DeliverStep
  <2>12. ASSUME NEW p \in Peers, Leave(p) PROVE IInv'
    BY <2>0, <2>12, LeaveStep
  <2>13. ASSUME NEW p \in Peers, handle_subscribe(p) \/ subscribe(p) PROVE IInv'
    BY <2>0, <2>13, SubscribeStep
  <2>14. ASSUME NEW p \in Peers, EndSubscription(p) PROVE IInv'
    BY <2>0, <2>14, EndStep
  <2>15. ASSUME NEW p \in Peers, FailStream(p) PROVE IInv'
    BY <2>0, <2>15, FailStep
  <2> QED
    BY <1>2, <2>1, <2>2, <2>3, <2>4, <2>5, <2>6, <2>7, <2>8, <2>9, <2>10, <2>11, <2>12,
       <2>13, <2>14, <2>15 DEF Handlers
<1>3. CASE \E p \in Peers : OpenStream(p) /\ UNCHANGED <<startVars, redis, traffic>>
  BY <1>3, OpenStep
<1>4. CASE UNCHANGED vars
  BY <1>4 DEF vars, startVars, redis, traffic, IInv, StartInv, LoadedInv, TrafficTypes,
              PeerInv, InOrder
<1> QED
  BY <1>1, <1>2, <1>3, <1>4 DEF Next

(* What the process is loaded with and every client's task, command and    *)
(* channel fit together in every state.                                    *)
THEOREM Inductive == Spec => []IInv
<1>1. Init => IInv
  BY InitIInv
<1>2. IInv /\ [Next]_vars => IInv'
  BY NextIInv
<1> QED
  BY <1>1, <1>2, PTL DEF Spec

(* Whatever the files, the command line and the clients, process, store,   *)
(* tasks and reply channels stay in their domains, and no channel exceeds  *)
(* its capacity.                                                           *)
THEOREM TypeCorrect == Spec => []TypeOK
<1>1. IInv => TypeOK
  <2> SUFFICES ASSUME IInv PROVE TypeOK
    OBVIOUS
  <2>1. /\ run.pc \in {"idle", "exists", "write", "load", "pool", "pubsub",
                       "compat", "listen", "serving", "exited"}
        /\ \A f \in Files : files[f] \in Documents
                                 \cup {NoFile, default_document, starter_document}
    BY DEF IInv, StartInv, Places, AllDocuments
  <2>2. /\ store \in [Databases -> Stored] /\ DOMAIN store = Databases
        /\ task \in [Peers -> {"idle", "exec", "send", "stream", "ended"}]
        /\ asked \in [Peers -> Nat] /\ out \in [Peers -> Seq(Nat)]
    BY DEF IInv, TrafficTypes
  <2>3. ASSUME NEW p \in Peers
        PROVE  Len(out[p]) <= OutCap /\ (task[p] = "exec" => hand[p].cmd.db \in DOMAIN store)
    BY <2>2 DEF IInv, PeerInv, Sound
  <2> QED
    BY <2>1, <2>2, <2>3 DEF TypeOK
<1> QED
  BY <1>1, Inductive, PTL

(* The pool, the Pub/Sub client and the clients of the session manager of  *)
(* a process that listens agree on address, user and database, whatever    *)
(* config it was given.                                                    *)
THEOREM OneRedisHolds == Spec => []OneRedis
<1>1. IInv => OneRedis
  BY OneRedisFollows DEF IInv
<1> QED
  BY <1>1, Inductive, PTL

(* For every list of rules, a command that runs for a request to the HTTP  *)
(* command routes or for a gRPC call or stream, and a subscription over    *)
(* gRPC, was permitted by the last rule that concerns it.  Nothing is said *)
(* of the WebSocket and of HTTP subscriptions, which ask no rules.         *)
THEOREM DeniedNeverRunsHolds == Spec => []DeniedNeverRuns
<1>1. IInv => DeniedNeverRuns
  <2> SUFFICES ASSUME IInv, NEW p \in Peers,
                      \/ task[p] = "exec" /\ Kind[p] # "json"
                      \/ task[p] = "stream" /\ Kind[p] # "http"
               PROVE  LastWord(Rules, hand[p].who, hand[p].cmd.name)
    BY DEF DeniedNeverRuns
  <2>1. PeerInv(p) /\ StartInv
    BY DEF IInv
  <2>2. check(Rules, hand[p].who, hand[p].cmd.name) /\ run.pc = "serving"
    BY <2>1 DEF PeerInv, Sound, Rules
  <2>3. Len(Rules) \in Nat
    BY <2>1, <2>2, GatewayAssumption DEF StartInv, LoadedInv, Rules
  <2> QED
    BY <2>2, <2>3, CheckIsLastWord
<1> QED
  BY <1>1, Inductive, PTL

(* With any capacity and any number of clients, the replies of a stream or *)
(* a WebSocket reach its client in the order of the commands, none lost    *)
(* and none twice while it stays.                                          *)
THEOREM RepliesInOrderHolds == Spec => []RepliesInOrder
<1>1. IInv => RepliesInOrder
  <2> SUFFICES ASSUME IInv PROVE RepliesInOrder
    OBVIOUS
  <2>1. ASSUME NEW p \in Peers, InOrder(p)
        PROVE  Ordered(task[p], hand[p], out[p], owed[p], got[p], gone[p])
    BY <2>1 DEF IInv, PeerInv
  <2> QED
    BY <2>1 DEF RepliesInOrder, Ordered, OpenReply
<1> QED
  BY <1>1, Inductive, PTL
----------------------------------------------------------------------------
(* The entity tags                                                         *)

(* f[i] is the digest of the first i texts, for i up to n.                 *)
IsDigest(f, n, texts) ==
    f = [i \in 0 .. n |-> IF i = 0 THEN "sha1 " ELSE Joined(f[i - 1], texts[i])]

LEMMA DigestExists ==
    ASSUME NEW texts PROVE \A n \in Nat : \E f : IsDigest(f, n, texts)
<1> DEFINE T == {n \in Nat : \E f : IsDigest(f, n, texts)}
           J(s, i) == Joined(s, texts[i])
<1>1. 0 \in T
  <2> DEFINE f == [i \in 0 .. 0 |-> "sha1 "]
  <2>1. f = [i \in 0 .. 0 |-> IF i = 0 THEN "sha1 " ELSE J(f[i - 1], i)]
    <3> HIDE DEF J
    <3> QED
      OBVIOUS
  <2>2. IsDigest(f, 0, texts)
    BY <2>1 DEF IsDigest
  <2> QED
    BY <2>2
<1>2. ASSUME NEW n \in Nat, n \in T PROVE n + 1 \in T
  <2>1. PICK f : IsDigest(f, n, texts)
    BY <1>2
  <2>2. f = [i \in 0 .. n |-> IF i = 0 THEN "sha1 " ELSE J(f[i - 1], i)]
    BY <2>1 DEF IsDigest
  <2> HIDE DEF J
  <2> DEFINE g == [i \in 0 .. n + 1 |-> IF i = n + 1 THEN J(f[n], n + 1) ELSE f[i]]
  <2>3. ASSUME NEW i \in 0 .. n + 1
        PROVE  g[i] = IF i = 0 THEN "sha1 " ELSE J(g[i - 1], i)
    <3>1. CASE i = n + 1
      <4>1. n \in 0 .. n + 1 /\ n # n + 1 /\ n + 1 # 0 /\ (n + 1) - 1 = n
        OBVIOUS
      <4>2. g[n] = f[n] /\ g[n + 1] = J(f[n], n + 1)
        BY <4>1
      <4> QED
        BY <3>1, <4>1, <4>2
    <3>2. CASE i # n + 1 /\ i # 0
      <4>1. i \in 0 .. n /\ i - 1 \in 0 .. n + 1 /\ i - 1 # n + 1
        BY <3>2
      <4>2. g[i] = f[i] /\ g[i - 1] = f[i - 1]
        BY <3>2, <4>1
      <4>3. f[i] = J(f[i - 1], i)
        BY <2>2, <3>2, <4>1
      <4> QED
        BY <3>2, <4>2, <4>3
    <3>3. CASE i = 0
      <4>1. 0 \in 0 .. n /\ 0 \in 0 .. n + 1 /\ 0 # n + 1
        OBVIOUS
      <4>2. f[0] = "sha1 "
        BY <2>2, <4>1
      <4> QED
        BY <3>3, <4>1, <4>2
    <3> QED
      BY <3>1, <3>2, <3>3
  <2>4. g = [i \in 0 .. n + 1 |-> IF i = 0 THEN "sha1 " ELSE J(g[i - 1], i)]
    BY <2>3
  <2>5. IsDigest(g, n + 1, texts)
    BY <2>4 DEF IsDigest, J
  <2> QED
    BY <2>5
<1> HIDE DEF T
<1>3. Nat \subseteq T
  BY <1>1, <1>2, SetInduction
<1> QED
  BY <1>3 DEF T

LEMMA HashedIs ==
    ASSUME NEW texts, Len(texts) \in Nat
    PROVE  \E f : /\ f[0] = "sha1 " /\ Hashed(texts) = f[Len(texts)]
                  /\ \A i \in 1 .. Len(texts) : f[i] = Joined(f[i - 1], texts[i])
<1> DEFINE f == CHOOSE g : IsDigest(g, Len(texts), texts)
<1>1. IsDigest(f, Len(texts), texts)
  BY DigestExists
<1>2. Hashed(texts) = f[Len(texts)]
  BY DEF Hashed, IsDigest
<1> HIDE DEF f
<1>3. 0 \in 0 .. Len(texts) /\ \A i \in 1 .. Len(texts) : i \in 0 .. Len(texts) /\ i # 0
  OBVIOUS
<1>4. f[0] = "sha1 " /\ \A i \in 1 .. Len(texts) : f[i] = Joined(f[i - 1], texts[i])
  BY <1>1, <1>3 DEF IsDigest
<1> QED
  BY <1>2, <1>4

LEMMA OneText ==
    ASSUME NEW T, NEW x \in T
    PROVE  <<x>> \in Seq(T) /\ Len(<<x>>) = 1 /\ <<x>>[1] = x
OBVIOUS

LEMMA JoinedLaws ==
    ASSUME TextLaws(STRING), NEW a \in STRING, NEW b \in STRING
    PROVE  /\ Joined(a, b) \in STRING
           /\ a # "" => Joined(a, b) # ""
           /\ \A c \in STRING : Joined(a, b) = Joined(a, c) => b = c
BY ZenonT(30) DEF TextLaws, Joined

LEMMA HashedType ==
    ASSUME TextLaws(STRING), NEW texts \in Seq(STRING)
    PROVE  Hashed(texts) \in STRING /\ Hashed(texts) # ""
<1>1. Len(texts) \in Nat /\ \A i \in 1 .. Len(texts) : texts[i] \in STRING
  OBVIOUS
<1>2. PICK f : /\ f[0] = "sha1 " /\ Hashed(texts) = f[Len(texts)]
               /\ \A i \in 1 .. Len(texts) : f[i] = Joined(f[i - 1], texts[i])
  BY <1>1, HashedIs
<1> DEFINE S == STRING \ {""}
           T == {i \in Nat : i <= Len(texts) => f[i] \in S}
<1>3. 0 \in T
  <2>0. "sha1 " \in STRING
    BY DEF TextLaws, Words
  <2>1. "sha1 " # ""
    OBVIOUS
  <2>2. "sha1 " \in S
    BY <2>0, <2>1
  <2> HIDE DEF S
  <2> QED
    BY <1>2, <2>2
<1>4. ASSUME NEW i \in Nat, i \in T PROVE i + 1 \in T
  <2>1. CASE i + 1 <= Len(texts)
    <3>1. i + 1 \in 1 .. Len(texts) /\ (i + 1) - 1 = i /\ i <= Len(texts)
      BY <1>1, <2>1
    <3>2. f[i] \in STRING /\ f[i] # "" /\ texts[i + 1] \in STRING
      BY <1>1, <1>4, <3>1
    <3>3. f[i + 1] = Joined(f[i], texts[i + 1])
      BY <1>2, <3>1
    <3>4. f[i + 1] \in S
      BY <3>2, <3>3, JoinedLaws
    <3> HIDE DEF S
    <3> QED
      BY <3>4
  <2> HIDE DEF S
  <2> QED
    BY <2>1
<1> HIDE DEF T
<1>5. Nat \subseteq T
  BY <1>3, <1>4, SetInduction
<1>6. f[Len(texts)] \in S
  <2> HIDE DEF S
  <2> QED
    BY <1>1, <1>5 DEF T
<1> QED
  BY <1>2, <1>6

(* One more text is put behind what was hashed before.                     *)
LEMMA HashedAppend ==
    ASSUME NEW texts \in Seq(STRING), NEW x \in STRING
    PROVE  Hashed(texts \o <<x>>) = Joined(Hashed(texts), x)
<1> DEFINE r == texts \o <<x>>
           L == Len(texts)
<1>1. /\ Len(r) = L + 1 /\ r[L + 1] = x /\ L \in Nat /\ Len(r) \in Nat
      /\ \A i \in 1 .. L : r[i] = texts[i]
  <2> DEFINE y == <<x>>
  <2>0. L \in Nat
    OBVIOUS
  <2>1. y \in Seq(STRING) /\ Len(y) = 1 /\ y[1] = x
    BY OneText, Zenon
  <2> HIDE DEF y
  <2>2. /\ Len(texts \o y) = L + Len(y)
        /\ \A i \in 1 .. L + Len(y) :
             (texts \o y)[i] = IF i <= L THEN texts[i] ELSE y[i - L]
    BY <2>1, ConcatProperties
  <2>3. L + 1 \in 1 .. L + 1 /\ (L + 1) - L = 1 /\ ~(L + 1 <= L)
    BY <2>0
  <2> QED
    BY <2>0, <2>1, <2>2, <2>3 DEF y
<1> HIDE DEF r
<1>2. PICK f : /\ f[0] = "sha1 " /\ Hashed(texts) = f[L]
               /\ \A i \in 1 .. L : f[i] = Joined(f[i - 1], texts[i])
  BY <1>1, HashedIs
<1>3. PICK g : /\ g[0] = "sha1 " /\ Hashed(r) = g[L + 1]
               /\ \A i \in 1 .. L + 1 : g[i] = Joined(g[i - 1], r[i])
  <2>1. PICK g : /\ g[0] = "sha1 " /\ Hashed(r) = g[Len(r)]
                 /\ \A i \in 1 .. Len(r) : g[i] = Joined(g[i - 1], r[i])
    BY <1>1, HashedIs
  <2> QED
    BY <1>1, <2>1
<1> DEFINE T == {i \in Nat : i <= L => f[i] = g[i]}
<1>4. 0 \in T
  BY <1>2, <1>3
<1>5. ASSUME NEW i \in Nat, i \in T PROVE i + 1 \in T
  <2>1. CASE i + 1 <= L
    <3>1. i + 1 \in 1 .. L /\ i + 1 \in 1 .. L + 1 /\ (i + 1) - 1 = i /\ i <= L
      BY <1>1, <2>1
    <3>2. f[i] = g[i]
      BY <1>5, <3>1
    <3>3. f[i + 1] = g[i + 1]
      BY <1>1, <1>2, <1>3, <3>1, <3>2
    <3> QED
      BY <3>3
  <2> QED
    BY <2>1
<1> HIDE DEF T
<1>6. f[L] = g[L]
  <2>1. Nat \subseteq T
    BY <1>4, <1>5, SetInduction
  <2> QED
    BY <1>1, <2>1 DEF T
<1>7. g[L + 1] = Joined(g[L], x)
  <2>1. L + 1 \in 1 .. L + 1 /\ (L + 1) - 1 = L
    BY <1>1
  <2> QED
    BY <1>1, <1>3, <2>1
<1> QED
  BY <1>2, <1>3, <1>6, <1>7 DEF r
(* What a GET of a URL asks for, whatever config the server has.           *)
NameOf(u) == decode(IF u.key = "" THEN WithSuffix(u, u.name) ELSE u.name)
ArgsOf(u) == IF u.key = "" THEN <<>> ELSE <<decode(WithSuffix(u, u.key))>>
FormatOf(u) == from_extension[IF Stripped(u) THEN u.ext ELSE "json"]
CallbackOf(u) == IF FormatOf(u) = "Json" THEN select_jsonp_callback(u) ELSE ""
Asks(c, u) ==
    /\ c.name = NameOf(u) /\ c.args = ArgsOf(u)
    /\ c.format = FormatOf(u) /\ c.callback = CallbackOf(u)

LEMMA ParsedGet ==
    ASSUME NEW u, NEW body, NEW tag
    PROVE  LET c == ParsedRequest(u, body, tag)
           IN  /\ c.etag = (body = "none") /\ c.ifNoneMatch = tag
               /\ body = "none" => Asks(c, u)
<1> DEFINE c == ParsedRequest(u, body, tag)
<1>1. c.etag = (body = "none") /\ c.ifNoneMatch = tag
  BY DEF ParsedRequest
<1>2. c.format = FormatOf(u) /\ c.callback = CallbackOf(u) /\ c.name = NameOf(u)
  BY DEF ParsedRequest, FormatOf, CallbackOf, NameOf
<1>3. body = "none" => c.args = ArgsOf(u)
  BY DEF ParsedRequest, ArgsOf
<1> QED
  BY <1>1, <1>2, <1>3 DEF Asks

LEMMA Formats ==
    ASSUME NEW u PROVE FormatOf(u) \in {"Json", "Raw", "Text"}
<1>1. /\ DOMAIN from_extension = {"json", "raw", "txt", "png"}
      /\ \A e \in {"json", "raw", "txt", "png"} :
           from_extension[e] \in {"Json", "Raw", "Text"}
  BY DEF from_extension
<1> QED
  BY <1>1 DEF FormatOf, Stripped

LEMMA TextsOf ==
    ASSUME TextLaws(STRING), NEW u \in Urls
    PROVE  NameOf(u) \in STRING /\ ArgsOf(u) \in Seq(STRING) /\ CallbackOf(u) \in STRING
<1>1. /\ u.name \in STRING /\ u.key \in STRING /\ u.ext \in STRING
      /\ u.jsonp \in STRING /\ u.callback \in STRING
  BY TextsAssumption
<1>2. "." \in STRING /\ "" \in STRING
  BY DEF TextLaws, Words
<1>3. ASSUME NEW t \in STRING PROVE decode(t) \in STRING
  BY TextsAssumption DEF decode
<1>4. ASSUME NEW t \in STRING PROVE WithSuffix(u, t) \in STRING
  <2>1. t \o "." \in STRING
    BY <1>2, Zenon DEF TextLaws
  <2>2. t \o "." \o u.ext \in STRING
    BY <1>1, <2>1, Zenon DEF TextLaws
  <2> QED
    BY <2>2, Zenon DEF WithSuffix
<1>5. NameOf(u) \in STRING
  <2>1. WithSuffix(u, u.name) \in STRING
    BY <1>1, <1>4
  <2>2. (IF u.key = "" THEN WithSuffix(u, u.name) ELSE u.name) \in STRING
    BY <1>1, <2>1, Zenon
  <2> QED
    BY <1>3, <2>2, Zenon DEF NameOf
<1>6. ArgsOf(u) \in Seq(STRING)
  <2> DEFINE k == decode(WithSuffix(u, u.key))
  <2>1. k \in STRING
    BY <1>1, <1>3, <1>4, Zenon
  <2> HIDE DEF k
  <2>2. <<k>> \in Seq(STRING)
    BY <2>1, OneText, Zenon
  <2>3. <<>> \in Seq(STRING)
    BY EmptySeq
  <2>4. ArgsOf(u) = IF u.key = "" THEN <<>> ELSE <<k>>
    BY Zenon DEF ArgsOf, k
  <2> QED
    BY <2>2, <2>3, <2>4, Zenon
<1>7. CallbackOf(u) \in STRING
  BY <1>1, <1>2, Zenon DEF CallbackOf, select_jsonp_callback
<1> QED
  BY <1>5, <1>6, <1>7

(* The tag and the body of what Redis replies with v to a GET of u.        *)
Hashing(u) == Hashed(<<NameOf(u)>> \o ArgsOf(u))
Plainly(u) == [name |-> NameOf(u)]
TagOf(u, v) ==
    IF FormatOf(u) = "Text" THEN Joined(Hashing(u), redis_value_to_bytes(v))
      ELSE Joined(Joined(Joined(Hashing(u), CallbackOf(u)),
                         redis_value_to_json(Plainly(u), v)[1]), v)
BodyOf(u, v) ==
    IF FormatOf(u) = "Text" THEN <<redis_value_to_bytes(v)>>
      ELSE Append(<<NameOf(u)>> \o redis_value_to_json(Plainly(u), v), CallbackOf(u))

(* What Redis may reply to it: INFO has its text, and an error no tag.     *)
Given(u) == {v \in Values \cup {"nil", "a", "OK"} : NameOf(u) = "INFO" => v = "a"}

LEMMA GivenTexts ==
    ASSUME TextLaws(STRING), NEW u, NEW v \in Given(u)
    PROVE  /\ v \in STRING /\ redis_value_to_bytes(v) \in STRING
           /\ redis_value_to_json(Plainly(u), v)[1] \in STRING
           /\ redis_value_to_json(Plainly(u), v)
                = <<redis_value_to_json(Plainly(u), v)[1], v>>
<1>1. v \in STRING /\ "" \in STRING /\ "fields" \in STRING /\ "value" \in STRING
  BY TextsAssumption DEF TextLaws, Words, Given
<1>2. redis_value_to_bytes(v) \in STRING
  BY <1>1, Zenon DEF redis_value_to_bytes
<1>3. \/ redis_value_to_json(Plainly(u), v) = <<"fields", v>>
      \/ redis_value_to_json(Plainly(u), v) = <<"value", v>>
  BY Zenon DEF redis_value_to_json
<1>4. ASSUME NEW k PROVE <<k, v>>[1] = k
  OBVIOUS
<1>5. \A k : redis_value_to_json(Plainly(u), v) = <<k, v>>
         => redis_value_to_json(Plainly(u), v)[1] = k
  BY <1>4, Zenon
<1> QED
  BY <1>1, <1>2, <1>3, <1>5, Zenon

(* Two replies to a GET of one URL that have the same tag have the same    *)
(* body.                                                                   *)
LEMMA SameTag ==
    ASSUME TextLaws(STRING), NEW u \in Urls, NEW v \in Given(u), NEW w \in Given(u),
           TagOf(u, v) = TagOf(u, w)
    PROVE  BodyOf(u, v) = BodyOf(u, w)
<1> DEFINE k(x) == redis_value_to_json(Plainly(u), x)[1]
           h == Hashing(u)
           j == Joined(h, CallbackOf(u))
<1>1. NameOf(u) \in STRING /\ ArgsOf(u) \in Seq(STRING) /\ CallbackOf(u) \in STRING
  BY TextsOf
<1>2. h \in STRING
  <2>1. <<NameOf(u)>> \in Seq(STRING)
    BY <1>1, OneText, Zenon
  <2>2. <<NameOf(u)>> \o ArgsOf(u) \in Seq(STRING)
    BY <1>1, <2>1, ConcatProperties, Zenon
  <2> QED
    BY <2>2, HashedType, Zenon DEF Hashing
<1>3. /\ v \in STRING /\ redis_value_to_bytes(v) \in STRING /\ k(v) \in STRING
      /\ w \in STRING /\ redis_value_to_bytes(w) \in STRING /\ k(w) \in STRING
      /\ redis_value_to_json(Plainly(u), v) = <<k(v), v>>
      /\ redis_value_to_json(Plainly(u), w) = <<k(w), w>>
  BY GivenTexts, Zenon
<1>4. CASE FormatOf(u) = "Text"
  <2>1. Joined(h, redis_value_to_bytes(v)) = Joined(h, redis_value_to_bytes(w))
    BY <1>4, Zenon DEF TagOf
  <2>2. redis_value_to_bytes(v) = redis_value_to_bytes(w)
    BY <1>2, <1>3, <2>1, JoinedLaws, Zenon
  <2> QED
    BY <1>4, <2>2, Zenon DEF BodyOf
<1>5. CASE FormatOf(u) # "Text"
  <2>1. Joined(Joined(j, k(v)), v) = Joined(Joined(j, k(w)), w)
    BY <1>5, Zenon DEF TagOf
  <2>2. j \in STRING
    BY <1>1, <1>2, JoinedLaws, Zenon
  <2>3. v = w
    <3>1. CASE NameOf(u) = "INFO"
      BY <3>1 DEF Given
    <3>2. CASE NameOf(u) # "INFO"
      <4>1. ASSUME NEW x PROVE redis_value_to_json(Plainly(u), x) = <<"value", x>>
        BY <3>2 DEF redis_value_to_json, Plainly
      <4>2. ASSUME NEW x PROVE k(x) = "value"
        <5>1. <<"value", x>>[1] = "value"
          OBVIOUS
        <5> QED
          BY <4>1, <5>1, Zenon
      <4>3. Joined(j, "value") \in STRING
        BY <1>3, <2>2, <4>2, JoinedLaws, Zenon
      <4>4. Joined(Joined(j, "value"), v) = Joined(Joined(j, "value"), w)
        <5>1. k(v) = "value" /\ k(w) = "value"
          BY <4>2, Zenon
        <5> HIDE DEF k, j
        <5> QED
          BY <2>1, <5>1
      <4> QED
        BY <1>3, <4>3, <4>4, JoinedLaws, Zenon
    <3> QED
      BY <3>1, <3>2
  <2> QED
    BY <2>3
<1> QED
  BY <1>4, <1>5

LEMMA TagIsText ==
    ASSUME TextLaws(STRING), NEW u \in Urls, NEW v \in Given(u)
    PROVE  TagOf(u, v) # ""
<1> DEFINE h == Hashing(u)
           k == redis_value_to_json(Plainly(u), v)[1]
<1>1. NameOf(u) \in STRING /\ ArgsOf(u) \in Seq(STRING) /\ CallbackOf(u) \in STRING
  BY TextsOf
<1>2. h \in STRING /\ h # ""
  <2>1. <<NameOf(u)>> \in Seq(STRING)
    BY <1>1, OneText, Zenon
  <2>2. <<NameOf(u)>> \o ArgsOf(u) \in Seq(STRING)
    BY <1>1, <2>1, ConcatProperties, Zenon
  <2> QED
    BY <2>2, HashedType, Zenon DEF Hashing
<1>3. v \in STRING /\ redis_value_to_bytes(v) \in STRING /\ k \in STRING
  BY GivenTexts, Zenon
<1>4. Joined(h, redis_value_to_bytes(v)) # ""
  BY <1>2, <1>3, JoinedLaws, Zenon
<1> DEFINE j == Joined(h, CallbackOf(u))
           l == Joined(j, k)
<1>5. j \in STRING /\ j # ""
  BY <1>1, <1>2, JoinedLaws, Zenon
<1>6. l \in STRING /\ l # ""
  BY <1>3, <1>5, JoinedLaws, Zenon
<1>7. Joined(l, v) # ""
  BY <1>3, <1>6, JoinedLaws, Zenon
<1> QED
  BY <1>4, <1>7, Zenon DEF TagOf
LEMMA TwoTexts ==
    ASSUME NEW T, NEW k \in T, NEW v \in T
    PROVE  <<k>> \o <<v>> = <<k, v>>
<1> DEFINE x == <<k>>
           y == <<v>>
           z == <<k, v>>
           w == x \o y
<1>1. /\ x \in Seq(T) /\ y \in Seq(T) /\ Len(x) = 1 /\ Len(y) = 1
      /\ x[1] = k /\ y[1] = v
  OBVIOUS
<1>2. z \in Seq(T) /\ Len(z) = 2 /\ z[1] = k /\ z[2] = v
  OBVIOUS
<1> HIDE DEF x, y, z
<1>3. /\ w \in Seq(T) /\ Len(w) = Len(x) + Len(y)
      /\ \A i \in 1 .. Len(x) + Len(y) :
           w[i] = IF i <= Len(x) THEN x[i] ELSE y[i - Len(x)]
  BY <1>1, ConcatProperties
<1> HIDE DEF w
<1>4. Len(w) = 2 /\ w[1] = k /\ w[2] = v
  <2>1. 1 \in 1 .. 2 /\ 2 \in 1 .. 2 /\ 2 - 1 = 1 /\ 1 + 1 = 2
    OBVIOUS
  <2> QED
    BY <1>1, <1>3, <2>1
<1>5. \A i \in 1 .. 2 : i = 1 \/ i = 2
  OBVIOUS
<1>6. w = z
  BY <1>2, <1>3, <1>4, <1>5, SeqEqual
<1> QED
  BY <1>6 DEF w, x, y, z

LEMMA HashedTwice ==
    ASSUME NEW s \in Seq(STRING), NEW k \in STRING, NEW v \in STRING
    PROVE  Hashed(s \o <<k, v>>) = Joined(Joined(Hashed(s), k), v)
<1> DEFINE T == STRING
           x == <<k>>
           y == <<v>>
<1>0. s \in Seq(T) /\ k \in T /\ v \in T
  OBVIOUS
<1>4. /\ Hashed(s \o x) = Joined(Hashed(s), k)
      /\ \A r \in Seq(STRING) : Hashed(r \o y) = Joined(Hashed(r), v)
  BY HashedAppend, Zenon
<1> HIDE DEF T
<1>1. x \in Seq(T) /\ y \in Seq(T)
  BY <1>0, OneText, Zenon
<1>2. x \o y = <<k, v>>
  BY <1>0, TwoTexts, Zenon
<1> HIDE DEF x, y
<1>3. (s \o x) \o y = s \o (x \o y) /\ s \o x \in Seq(T)
  BY <1>0, <1>1, ConcatAssociative, ConcatProperties
<1>5. Hashed((s \o x) \o y) = Joined(Joined(Hashed(s), k), v)
  BY <1>3, <1>4 DEF T
<1> QED
  BY <1>2, <1>3, <1>5

(* The tags of process_request are those of the URL.                       *)
LEMMA TagsAre ==
    ASSUME TextLaws(STRING), NEW u \in Urls, NEW v \in Given(u), NEW c, Asks(c, u)
    PROVE  /\ FormatOf(u) = "Text" => TextTag(c, v) = TagOf(u, v)
           /\ FormatOf(u) = "Json" => JsonTag(c, v) = TagOf(u, v)
<1> DEFINE b == <<NameOf(u)>> \o ArgsOf(u)
           k == redis_value_to_json(Plainly(u), v)[1]
           cb == CallbackOf(u)
<1>1. NameOf(u) \in STRING /\ ArgsOf(u) \in Seq(STRING) /\ cb \in STRING
  BY TextsOf
<1>2. b \in Seq(STRING)
  <2>1. <<NameOf(u)>> \in Seq(STRING)
    BY <1>1, OneText, Zenon
  <2> QED
    BY <1>1, <2>1, ConcatProperties, Zenon
<1>3. /\ v \in STRING /\ redis_value_to_bytes(v) \in STRING /\ k \in STRING
      /\ redis_value_to_json(Plainly(u), v) = <<k, v>>
  BY GivenTexts, Zenon
<1>4. redis_value_to_json(c, v) = <<k, v>>
  <2>1. Plainly(u).name = c.name
    BY DEF Plainly, Asks
  <2> QED
    BY <1>3, <2>1 DEF redis_value_to_json
<1>5. TextTag(c, v) = Joined(Hashing(u), redis_value_to_bytes(v))
  <2>1. TextTag(c, v) = Hashed(b \o <<redis_value_to_bytes(v)>>)
    BY Zenon DEF TextTag, Asks
  <2> HIDE DEF b
  <2>2. TextTag(c, v) = Joined(Hashed(b), redis_value_to_bytes(v))
    BY <1>2, <1>3, <2>1, HashedAppend, Zenon
  <2> QED
    BY <2>2 DEF Hashing, b
<1>6. JsonTag(c, v) = Joined(Joined(Joined(Hashing(u), cb), k), v)
  <2>1. JsonTag(c, v) = Hashed((b \o <<cb>>) \o <<k, v>>)
    BY <1>4, Zenon DEF JsonTag, Asks
  <2> HIDE DEF b
  <2> DEFINE d == b \o <<cb>>
  <2>2. d \in Seq(STRING)
    <3>1. <<cb>> \in Seq(STRING)
      BY <1>1, OneText, Zenon
    <3> QED
      BY <1>2, <3>1, ConcatProperties, Zenon
  <2>3. Hashed(d) = Joined(Hashed(b), cb)
    BY <1>1, <1>2, HashedAppend, Zenon
  <2> HIDE DEF d, k
  <2>4. Hashed(d \o <<k, v>>) = Joined(Joined(Hashed(d), k), v)
    BY <1>3, <2>2, HashedTwice, Zenon
  <2>5. JsonTag(c, v) = Hashed(d \o <<k, v>>)
    BY <2>1, Zenon DEF d
  <2>7. JsonTag(c, v) = Joined(Joined(Joined(Hashed(b), cb), k), v)
    BY <2>3, <2>4, <2>5
  <2> QED
    BY <2>7 DEF Hashing, b
<1> QED
  BY <1>5, <1>6 DEF TagOf

(* The prover of arithmetic does not take the empty text.                  *)
None == ""
Code(r) == r.status
Tag(r) == r.tag
Body(r) == r.body
WithTag(r, tag) == [r EXCEPT !.tag = tag]

LEMMA Headers ==
    ASSUME NEW c, NEW s, NEW b, NEW l
    PROVE  LET r == WithHeaders(c, Plain(s, b, l)) IN Code(r) = s /\ Tag(r) = None
BY DEF WithHeaders, Plain, Code, Tag, None

LEMMA HeadersTagged ==
    ASSUME NEW c, NEW s, NEW b, NEW l, NEW tag
    PROVE  LET r == WithHeaders(c, WithTag(Plain(s, b, l), tag))
           IN  Code(r) = s /\ Body(r) = b /\ Tag(r) = tag
BY DEF WithHeaders, Plain, Code, Tag, Body, WithTag

LEMMA JsonParts ==
    ASSUME NEW s, NEW b, NEW cb
    PROVE  LET r == json_value_response(s, b, cb) IN Code(r) = s /\ Tag(r) = None
BY DEF json_value_response, Code, Tag, None

LEMMA JsonHeaders ==
    ASSUME NEW c, NEW s, NEW b, NEW cb
    PROVE  LET r == WithHeaders(c, json_value_response(s, b, cb))
           IN  Code(r) = s /\ Tag(r) = None
BY DEF WithHeaders, json_value_response, Code, Tag, None

LEMMA JsonTagged ==
    ASSUME NEW c, NEW s, NEW b, NEW cb, NEW tag
    PROVE  LET r == WithHeaders(c, WithTag(json_value_response(s, b, cb), tag))
           IN  Code(r) = s /\ Body(r) = Append(b, cb) /\ Tag(r) = tag
<1> DEFINE l == IF cb = "" THEN "application/json" ELSE "application/javascript"
           d == Append(b, cb)
<1>1. json_value_response(s, b, cb) = Plain(s, d, l)
  BY Zenon DEF json_value_response, Plain
<1> HIDE DEF l, d
<1>2. LET r == WithHeaders(c, WithTag(Plain(s, d, l), tag))
      IN  Code(r) = s /\ Body(r) = d /\ Tag(r) = tag
  BY HeadersTagged
<1> QED
  BY <1>1, <1>2 DEF d

(* A response that may be confirmed instead of being sent.                 *)
LEMMA Tagging ==
    ASSUME NEW c, c.etag = TRUE, NEW tag, NEW full
    PROVE  \/ c.ifNoneMatch = tag /\ Tagged(c, tag, full) = NotModified(tag)
           \/ /\ c.ifNoneMatch # tag
              /\ Tagged(c, tag, full) = WithHeaders(c, WithTag(full, tag))
BY Zenon DEF Tagged, WithTag

LEMMA Unmodified ==
    ASSUME NEW tag PROVE Code(NotModified(tag)) = 304 /\ Tag(NotModified(tag)) = tag
BY DEF NotModified, Code, Tag

(* Of a reply that is no error, a text response needs its bytes; a raw one *)
(* has no tag.                                                             *)
HasTag(u, v) == FormatOf(u) = "Json" \/ (FormatOf(u) = "Text" /\ HasBytes(v))

(* The response r to c, a GET of u, if Redis replied with v.               *)
IsAnswer(r, c, u, v) ==
    /\ HasTag(u, v) =>
         /\ Tag(r) = TagOf(u, v)
         /\ c.ifNoneMatch = TagOf(u, v) => Code(r) = 304
         /\ c.ifNoneMatch # TagOf(u, v) => Code(r) = 200 /\ Body(r) = BodyOf(u, v)
    /\ ~HasTag(u, v) => Code(r) # 304 /\ Tag(r) = None

LEMMA AnswerOfGet ==
    ASSUME TextLaws(STRING), NEW u \in Urls, NEW v \in Given(u), ~IsError(v),
           NEW c, Asks(c, u), c.etag = TRUE
    PROVE  IsAnswer(HttpResponse(c, v), c, u, v)
<1> DEFINE r == HttpResponse(c, v)
<1>1. r = Responded(c, v)
  BY DEF HttpResponse
<1> HIDE DEF r
<1>2. c.format = FormatOf(u) /\ FormatOf(u) \in {"Json", "Raw", "Text"}
  BY Formats DEF Asks
<1>0. 200 # 304 /\ 500 # 304
  OBVIOUS
<1>3. CASE FormatOf(u) = "Raw"
  <2>1. r = WithHeaders(c, Plain(200, <<"resp", v>>, "text/plain"))
    BY <1>1, <1>2, <1>3 DEF Responded, RawOk
  <2>2. Code(r) = 200 /\ Tag(r) = None
    BY <2>1, Headers
  <2>3. ~HasTag(u, v)
    BY <1>3 DEF HasTag
  <2>4. IsAnswer(r, c, u, v)
    BY <1>0, <2>2, <2>3 DEF IsAnswer
  <2> QED
    BY <2>4 DEF r
<1>4. CASE FormatOf(u) = "Text" /\ ~HasBytes(v)
  <2>1. r = json_value_response(500, <<"error">>, None)
    BY <1>1, <1>2, <1>4 DEF Responded, TextOk, None
  <2>2. Code(r) = 500 /\ Tag(r) = None
    BY <2>1, JsonParts
  <2>3. ~HasTag(u, v)
    BY <1>4 DEF HasTag
  <2>4. IsAnswer(r, c, u, v)
    BY <1>0, <2>2, <2>3 DEF IsAnswer
  <2> QED
    BY <2>4 DEF r
<1>5. CASE FormatOf(u) = "Text" /\ HasBytes(v)
  <2> DEFINE full == Plain(200, BodyOf(u, v), None)
  <2>1. r = Tagged(c, TagOf(u, v), full)
    <3>1. r = Tagged(c, TextTag(c, v), Plain(200, <<redis_value_to_bytes(v)>>, None))
      BY <1>1, <1>2, <1>5 DEF Responded, TextOk, None
    <3>2. TextTag(c, v) = TagOf(u, v)
      BY <1>5, TagsAre
    <3>3. BodyOf(u, v) = <<redis_value_to_bytes(v)>>
      BY <1>5 DEF BodyOf
    <3> QED
      BY <3>1, <3>2, <3>3
  <2>2. LET q == WithHeaders(c, WithTag(full, TagOf(u, v)))
        IN  Code(q) = 200 /\ Body(q) = BodyOf(u, v) /\ Tag(q) = TagOf(u, v)
    BY HeadersTagged
  <2> HIDE DEF full
  <2>3. /\ Tag(r) = TagOf(u, v)
        /\ c.ifNoneMatch = TagOf(u, v) => Code(r) = 304
        /\ c.ifNoneMatch # TagOf(u, v) => Code(r) = 200 /\ Body(r) = BodyOf(u, v)
    <3>1. \/ c.ifNoneMatch = TagOf(u, v) /\ r = NotModified(TagOf(u, v))
          \/ /\ c.ifNoneMatch # TagOf(u, v)
             /\ r = WithHeaders(c, WithTag(full, TagOf(u, v)))
      BY <2>1, Tagging, Zenon
    <3> QED
      BY <2>2, <3>1, Unmodified
  <2>4. HasTag(u, v)
    BY <1>5 DEF HasTag
  <2>5. IsAnswer(r, c, u, v)
    BY <2>3, <2>4 DEF IsAnswer
  <2> QED
    BY <2>5 DEF r
<1>6. CASE FormatOf(u) = "Json"
  <2> DEFINE b == <<c.name>> \o redis_value_to_json(c, v)
             full == json_value_response(200, b, c.callback)
  <2>1. JsonTag(c, v) = TagOf(u, v)
    BY <1>6, TagsAre
  <2>2. Append(b, c.callback) = BodyOf(u, v)
    <3>1. Plainly(u).name = c.name
      BY DEF Plainly, Asks
    <3>2. redis_value_to_json(c, v) = redis_value_to_json(Plainly(u), v)
      BY <3>1 DEF redis_value_to_json
    <3> QED
      BY <1>6, <3>2 DEF BodyOf, Asks
  <2>3. r = Tagged(c, TagOf(u, v), full)
    BY <1>1, <1>2, <1>6, <2>1 DEF Responded, JsonOk
  <2> HIDE DEF b
  <2>4. LET q == WithHeaders(c, WithTag(full, TagOf(u, v)))
        IN  Code(q) = 200 /\ Body(q) = BodyOf(u, v) /\ Tag(q) = TagOf(u, v)
    BY <2>2, JsonTagged
  <2> HIDE DEF full
  <2>5. /\ Tag(r) = TagOf(u, v)
        /\ c.ifNoneMatch = TagOf(u, v) => Code(r) = 304
        /\ c.ifNoneMatch # TagOf(u, v) => Code(r) = 200 /\ Body(r) = BodyOf(u, v)
    <3>1. \/ c.ifNoneMatch = TagOf(u, v) /\ r = NotModified(TagOf(u, v))
          \/ /\ c.ifNoneMatch # TagOf(u, v)
             /\ r = WithHeaders(c, WithTag(full, TagOf(u, v)))
      BY <2>3, Tagging, Zenon
    <3> QED
      BY <2>4, <3>1, Unmodified
  <2>6. HasTag(u, v)
    BY <1>6 DEF HasTag
  <2>7. IsAnswer(r, c, u, v)
    BY <2>5, <2>6 DEF IsAnswer
  <2> QED
    BY <2>7 DEF r
<1> QED
  BY <1>2, <1>3, <1>4, <1>5, <1>6

(* A write over HTTP and an error have no tag.                             *)
IsPlain(c, v) ==
    c.format \in {"Json", "Raw", "Text"} /\ (c.etag = FALSE \/ IsError(v))
IsBare(r) == Code(r) # 304 /\ Tag(r) = None
LEMMA Untagged ==
    ASSUME NEW c, NEW v, IsPlain(c, v)
    PROVE  IsBare(HttpResponse(c, v))
<1> DEFINE r == HttpResponse(c, v)
<1>3. c.format \in {"Json", "Raw", "Text"} /\ (c.etag = FALSE \/ IsError(v))
  BY DEF IsPlain
<1>0. 200 # 304 /\ 500 # 304 /\ 503 # 304
  OBVIOUS
<1>1. CASE IsError(v)
  <2>1. (StatusOf(v) = 500 \/ StatusOf(v) = 503) /\ r = Failed(c, StatusOf(v))
    BY <1>1 DEF HttpResponse, StatusOf
  <2> HIDE DEF r, IsBare
  <2>2. CASE c.format = "Raw"
    <3>1. r = WithHeaders(c, Plain(200, <<"-ERR">>, "text/plain"))
      BY <2>1, <2>2 DEF Failed
    <3>2. Code(r) = 200 /\ Tag(r) = None
      BY <3>1, Headers
    <3> QED
      BY <1>0, <3>2 DEF r, IsBare
  <2>3. CASE c.format = "Text"
    <3>1. r = WithHeaders(c, Plain(StatusOf(v), <<"error">>, "text/plain"))
      BY <2>1, <2>3 DEF Failed
    <3>2. Code(r) = StatusOf(v) /\ Tag(r) = None
      BY <3>1, Headers
    <3> QED
      BY <1>0, <2>1, <3>2 DEF r, IsBare
  <2>4. CASE c.format = "Json"
    <3>1. r = WithHeaders(c, json_value_response(StatusOf(v), <<"error">>, c.callback))
      BY <2>1, <2>4 DEF Failed
    <3>2. Code(r) = StatusOf(v) /\ Tag(r) = None
      BY <3>1, JsonHeaders
    <3> QED
      BY <1>0, <2>1, <3>2 DEF r, IsBare
  <2> QED
    BY <1>3, <2>2, <2>3, <2>4
<1>2. CASE c.etag = FALSE /\ ~IsError(v)
  <2>1. r = Responded(c, v)
    BY <1>2 DEF HttpResponse
  <2>2. c.etag = FALSE
    BY <1>2
  <2> HIDE DEF r, IsBare
  <2>3. (Code(r) = 200 \/ Code(r) = 500) /\ Tag(r) = None
    <3>1. CASE c.format = "Raw"
      <4>1. r = WithHeaders(c, Plain(200, <<"resp", v>>, "text/plain"))
        BY <2>1, <3>1 DEF Responded, RawOk
      <4> QED
        BY <4>1, Headers
    <3>2. CASE c.format = "Text" /\ ~HasBytes(v)
      <4>1. r = json_value_response(500, <<"error">>, None)
        BY <2>1, <3>2 DEF Responded, TextOk, None
      <4> QED
        BY <4>1, JsonParts
    <3>3. CASE c.format = "Text" /\ HasBytes(v)
      <4>1. r = Tagged(c, TextTag(c, v), Plain(200, <<redis_value_to_bytes(v)>>, None))
        BY <2>1, <3>3 DEF Responded, TextOk, None
      <4>2. r = WithHeaders(c, Plain(200, <<redis_value_to_bytes(v)>>, None))
        BY <2>2, <4>1, Zenon DEF Tagged
      <4> QED
        BY <4>2, Headers
    <3>4. CASE c.format = "Json"
      <4> DEFINE b == <<c.name>> \o redis_value_to_json(c, v)
      <4>1. r = Tagged(c, JsonTag(c, v), json_value_response(200, b, c.callback))
        BY <2>1, <3>4 DEF Responded, JsonOk
      <4> HIDE DEF b
      <4>2. r = WithHeaders(c, json_value_response(200, b, c.callback))
        BY <2>2, <4>1, Zenon DEF Tagged
      <4> QED
        BY <4>2, JsonHeaders
    <3> QED
      BY <1>3, <3>1, <3>2, <3>3, <3>4
  <2> QED
    BY <1>0, <2>3 DEF r, IsBare
<1> QED
  BY <1>1, <1>2, <1>3
----------------------------------------------------------------------------
(* A client that is told "not modified"                                    *)

(* A response that was kept is one to a GET of its URL.                    *)
Kept(e) ==
    e.tag # None =>
      /\ e.url \in Urls
      /\ \E v \in Given(e.url) : e.tag = TagOf(e.url, v) /\ e.body = BodyOf(e.url, v)

IsRequest(c) ==
    c = [db |-> c.db, name |-> c.name, args |-> c.args, format |-> c.format,
         callback |-> c.callback, override |-> c.override, extType |-> c.extType,
         etag |-> c.etag, ifNoneMatch |-> c.ifNoneMatch]
(* A request in hand asks for what its URL says, and to confirm only what  *)
(* the client still has.                                                   *)
Held(t, h, e) ==
    t = "exec" =>
      /\ h.url \in Urls /\ IsRequest(h.cmd)
      /\ h.cmd.format \in {"Json", "Raw", "Text"}
      /\ h.cmd.etag = FALSE \/ (h.cmd.etag = TRUE /\ Asks(h.cmd, h.url))
      /\ h.cmd.ifNoneMatch # None => e.url = h.url /\ e.tag = h.cmd.ifNoneMatch
Confirmed(l, e) == Code(l.resp) = 304 => e.url = l.url /\ e.body = l.full

CacheInv ==
    /\ cache = [p \in Peers |-> cache[p]] /\ last = [p \in Peers |-> last[p]]
    /\ \A p \in Peers :
         /\ Confirmed(last[p], cache[p])
         /\ login[p] # {} => Kind[p] = "stream"
         /\ Kind[p] = "http" => Kept(cache[p]) /\ Held(task[p], hand[p], cache[p])

(* A step that leaves every HTTP command in hand as it is, or ends it.     *)
LEMMA QuietStep ==
    ASSUME CacheInv, last' = last, cache' = cache, login' = login,
           \A p \in Peers : Kind[p] = "http" =>
              (task'[p] = task[p] /\ hand'[p] = hand[p]) \/ task'[p] # "exec"
    PROVE  CacheInv'
<1>1. ASSUME NEW p \in Peers PROVE Confirmed(last'[p], cache'[p])
  BY DEF CacheInv
<1>2. ASSUME NEW p \in Peers, Kind[p] = "http"
      PROVE  Kept(cache'[p]) /\ Held(task'[p], hand'[p], cache'[p])
  <2>1. (task'[p] = task[p] /\ hand'[p] = hand[p]) \/ task'[p] # "exec"
    BY <1>2
  <2>2. Kept(cache[p]) /\ Held(task[p], hand[p], cache[p])
    BY <1>2 DEF CacheInv
  <2> QED
    BY <2>1, <2>2 DEF Held
<1>3. /\ cache' = [p \in Peers |-> cache'[p]] /\ last' = [p \in Peers |-> last'[p]]
      /\ \A p \in Peers : login'[p] # {} => Kind[p] = "stream"
  BY DEF CacheInv
<1> QED
  BY <1>1, <1>2, <1>3 DEF CacheInv

(* The handlers of subscriptions, of gRPC and of the WebSocket.            *)
LEMMA OtherHandlers ==
    ASSUME TrafficTypes, CacheInv, NEW p \in Peers,
           \/ execute(p) \/ ExecuteUnary(p) \/ execute_stream(p) \/ JsonCommand(p)
           \/ JsonOther(p) \/ Push(p) \/ ExecuteNext(p) \/ SendReply(p) \/ Deliver(p)
           \/ Leave(p) \/ subscribe(p) \/ FailStream(p)
           \/ handle_subscribe(p) \/ EndSubscription(p),
           login' = login
    PROVE  CacheInv'
<1>1. last' = last /\ cache' = cache
  BY DEF execute, ExecuteUnary, execute_stream, JsonCommand, JsonOther, Push,
         ExecuteNext, SendReply, Deliver, Leave, subscribe, FailStream,
         handle_subscribe, EndSubscription
<1>2. ASSUME NEW q \in Peers, Kind[q] = "http"
      PROVE  (task'[q] = task[q] /\ hand'[q] = hand[q]) \/ task'[q] # "exec"
  <2>1. \A t, h : Hold(p, t, h) /\ p # q => task'[q] = task[q] /\ hand'[q] = hand[q]
    BY DEF Hold, TrafficTypes
  <2>2. CASE execute(p)
    <3>1. p # q
      BY <1>2, <2>2 DEF execute
    <3> QED
      BY <2>1, <2>2, <3>1 DEF execute
  <2>3. CASE ExecuteUnary(p)
    <3>1. p # q
      BY <1>2, <2>3 DEF ExecuteUnary
    <3> QED
      BY <2>1, <2>3, <3>1 DEF ExecuteUnary
  <2>4. CASE execute_stream(p)
    <3>1. p # q
      BY <1>2, <2>4 DEF CacheInv, execute_stream
    <3> QED
      BY <2>1, <2>4, <3>1 DEF execute_stream
  <2>5. CASE JsonCommand(p)
    <3>1. p # q
      BY <1>2, <2>5 DEF JsonCommand
    <3> QED
      BY <2>1, <2>5, <3>1 DEF JsonCommand
  <2>6. CASE JsonOther(p) \/ Push(p) \/ Deliver(p)
    BY <2>6 DEF JsonOther, Push, Deliver
  <2>7. CASE ExecuteNext(p)
    <3>1. p # q
      BY <1>2, <2>7 DEF ExecuteNext, InOrder
    <3> QED
      BY <2>1, <2>7, <3>1 DEF ExecuteNext
  <2>8. CASE SendReply(p)
    <3>1. p # q
      BY <1>2, <2>8 DEF SendReply, InOrder
    <3> QED
      BY <2>1, <2>8, <3>1 DEF SendReply
  <2>9. CASE Leave(p)
    <3>1. p # q
      BY <1>2, <2>9 DEF Leave, InOrder
    <3> QED
      BY <2>9, <3>1 DEF Leave, TrafficTypes
  <2>10. CASE subscribe(p)
    <3>1. p # q
      BY <1>2, <2>10 DEF subscribe
    <3> QED
      BY <2>1, <2>10, <3>1 DEF subscribe
  <2>11. CASE FailStream(p)
    <3>1. p # q
      BY <1>2, <2>11 DEF CacheInv, FailStream
    <3> QED
      BY <2>1, <2>11, <3>1 DEF FailStream
  <2>12. CASE handle_subscribe(p) \/ EndSubscription(p)
    BY <2>12 DEF handle_subscribe, EndSubscription, Hold, TrafficTypes
  <2> QED
    BY <2>2, <2>3, <2>4, <2>5, <2>6, <2>7, <2>8, <2>9, <2>10, <2>11, <2>12
<1> QED
  BY <1>1, <1>2, QuietStep
(* A step of one HTTP client p.                                            *)
LEMMA HttpStep ==
    ASSUME TrafficTypes, CacheInv, NEW p \in Peers, Kind[p] = "http", login' = login,
           NEW t, NEW h, NEW l, NEW e,
           task' = [task EXCEPT ![p] = t], hand' = [hand EXCEPT ![p] = h],
           last' = [last EXCEPT ![p] = l], cache' = [cache EXCEPT ![p] = e],
           Confirmed(l, e), Kept(e), Held(t, h, e)
    PROVE  CacheInv'
<1>1. /\ task'[p] = t /\ hand'[p] = h /\ last'[p] = l /\ cache'[p] = e
      /\ \A q \in Peers \ {p} : /\ task'[q] = task[q] /\ hand'[q] = hand[q]
                                /\ last'[q] = last[q] /\ cache'[q] = cache[q]
  BY DEF TrafficTypes, CacheInv
<1>2. /\ cache' = [q \in Peers |-> cache'[q]] /\ last' = [q \in Peers |-> last'[q]]
      /\ \A q \in Peers : login'[q] # {} => Kind[q] = "stream"
  BY DEF CacheInv
<1>3. ASSUME NEW q \in Peers
      PROVE  /\ Confirmed(last'[q], cache'[q])
             /\ Kind[q] = "http" => Kept(cache'[q]) /\ Held(task'[q], hand'[q], cache'[q])
  <2>1. CASE q = p
    BY <1>1, <2>1
  <2>2. CASE q # p
    BY <1>1, <2>2 DEF CacheInv
  <2> QED
    BY <2>1, <2>2
<1> QED
  BY <1>2, <1>3 DEF CacheInv

LEMMA SameValue ==
    ASSUME CacheInv, NEW p \in Peers
    PROVE  last = [last EXCEPT ![p] = last[p]] /\ cache = [cache EXCEPT ![p] = cache[p]]
BY DEF CacheInv

LEMMA RequestIs ==
    ASSUME NEW u, NEW body, NEW tag
    PROVE  /\ IsRequest(ParsedRequest(u, body, tag))
           /\ ParsedRequest(u, body, tag).format \in {"Json", "Raw", "Text"}
<1>1. ParsedRequest(u, body, tag).format = FormatOf(u)
  BY DEF ParsedRequest, FormatOf
<1>2. IsRequest(ParsedRequest(u, body, tag))
  BY DEF ParsedRequest, IsRequest
<1> QED
  BY <1>1, <1>2, Formats

LEMMA RequestKeeps ==
    ASSUME TrafficTypes, CacheInv, NEW p \in Peers, NEW url \in Urls, NEW body,
           process_request(p, url, body), login' = login
    PROVE  CacheInv'
<1>1. /\ Kind[p] = "http" /\ cache' = cache
  BY DEF process_request
<1>2. Kept(cache[p]) /\ Confirmed(last[p], cache[p])
  BY <1>1 DEF CacheInv
<1>3. PICK auth \in Auths, tag \in ConditionalTags(p, url) :
        LET c == ParsedRequest(url, body, tag)
            refused == json_value_response(403, <<"Forbidden">>, c.callback)
            wrong == json_value_response(400, <<PathError(url)>>, select_jsonp_callback(url))
        IN  IF PathError(url) # "" THEN Answer(p, wrong, url, wrong.body)
              ELSE IF ~check(Rules, Who(p, auth), c.name)
              THEN Answer(p, refused, url, refused.body)
              ELSE /\ hand' = [hand EXCEPT ![p] = [cmd |-> c, url |-> url,
                                                  who |-> Who(p, auth)]]
                   /\ task' = [task EXCEPT ![p] = "exec"]
                   /\ UNCHANGED last
  BY DEF process_request
<1> DEFINE c == ParsedRequest(url, body, tag)
           refused == json_value_response(403, <<"Forbidden">>, c.callback)
           wrong == json_value_response(400, <<PathError(url)>>, select_jsonp_callback(url))
           h == [cmd |-> c, url |-> url, who |-> Who(p, auth)]
           held == /\ task' = [task EXCEPT ![p] = "exec"] /\ hand' = [hand EXCEPT ![p] = h]
                   /\ last' = last
<1>4. \/ Answer(p, wrong, url, wrong.body)
      \/ Answer(p, refused, url, refused.body)
      \/ held
  <2>1. IF PathError(url) # "" THEN Answer(p, wrong, url, wrong.body)
          ELSE IF ~check(Rules, Who(p, auth), c.name)
          THEN Answer(p, refused, url, refused.body)
          ELSE held
    BY <1>3
  <2> HIDE DEF wrong, refused, held
  <2> QED
    BY <2>1, Zenon
<1>5. CASE \/ Answer(p, wrong, url, wrong.body)
           \/ Answer(p, refused, url, refused.body)
  <2>1. PICK r \in {wrong, refused} : \E b : Answer(p, r, url, b)
    <3> HIDE DEF wrong, refused
    <3> QED
      BY <1>5, Zenon
  <2>7. PICK b : Answer(p, r, url, b)
    BY <2>1
  <2>2. Code(r) # 304
    <3>1. Code(wrong) = 400 /\ Code(refused) = 403
      BY JsonParts
    <3> HIDE DEF wrong, refused
    <3> QED
      BY <3>1
  <2> HIDE DEF wrong, refused
  <2> DEFINE l == [resp |-> r, url |-> url, full |-> b]
  <2>3. /\ task' = [task EXCEPT ![p] = "idle"] /\ hand' = [hand EXCEPT ![p] = Nothing]
        /\ last' = [last EXCEPT ![p] = l]
    BY <2>7 DEF Answer
  <2>4. l.resp = r
    OBVIOUS
  <2> HIDE DEF l
  <2>5. Confirmed(l, cache[p]) /\ Held("idle", Nothing, cache[p])
    BY <2>2, <2>4 DEF Confirmed, Held
  <2>6. cache' = [cache EXCEPT ![p] = cache[p]]
    BY <1>1, SameValue
  <2> QED
    BY <1>1, <1>2, <2>3, <2>5, <2>6, HttpStep
<1>6. CASE held
  <2>1. /\ IsRequest(c) /\ c.format \in {"Json", "Raw", "Text"}
        /\ c.etag = (body = "none") /\ c.ifNoneMatch = tag
        /\ body = "none" => Asks(c, url)
    BY RequestIs, ParsedGet
  <2>2. h.cmd = c /\ h.url = url
    OBVIOUS
  <2>3. tag # None => cache[p].url = url /\ cache[p].tag = tag
    BY DEF ConditionalTags, None
  <2>4. c.etag = FALSE \/ (c.etag = TRUE /\ Asks(c, url))
    BY <2>1
  <2> HIDE DEF c, h
  <2>5. Held("exec", h, cache[p])
    BY <2>1, <2>2, <2>3, <2>4 DEF Held
  <2>6. last' = [last EXCEPT ![p] = last[p]] /\ cache' = [cache EXCEPT ![p] = cache[p]]
    BY <1>1, <1>6, SameValue
  <2> QED
    BY <1>1, <1>2, <1>6, <2>5, <2>6, HttpStep
<1> QED
  BY <1>4, <1>5, <1>6
(* What Redis replies to a GET of a URL, unless it is an error.            *)
LEMMA ReplyGiven ==
    ASSUME NEW u, NEW c, Asks(c, u), NEW r \in Replies, Outcome(c, r), ~IsError(r)
    PROVE  r \in Given(u)
<1>1. r \in Values \cup {"nil", "a", "OK"}
  BY DEF Replies, IsError
<1>2. r = Reply(c)
  BY DEF Outcome, IsError
<1>3. ASSUME NameOf(u) = "INFO" PROVE r = "a"
  <2>1. c.name = "INFO"
    BY <1>3 DEF Asks
  <2>2. Reply(c) = "a"
    BY <2>1 DEF Reply
  <2> QED
    BY <1>2, <2>2
<1> QED
  BY <1>1, <1>3 DEF Given

LEMMA ExecuteKeeps ==
    ASSUME TextLaws(STRING), TrafficTypes, CacheInv, NEW p \in Peers, ExecuteHttp(p),
           login' = login
    PROVE  CacheInv'
<1> DEFINE c == hand[p].cmd
           u == hand[p].url
           d == [c EXCEPT !.ifNoneMatch = ""]
<1>1. /\ Kind[p] = "http" /\ task[p] = "exec"
      /\ Kept(cache[p]) /\ Held(task[p], hand[p], cache[p])
  BY DEF ExecuteHttp, CacheInv
<1>2. PICK r \in Replies :
        /\ Outcome(c, r)
        /\ Answer(p, HttpResponse(c, r), u, HttpResponse(d, r).body)
        /\ cache' = IF HttpResponse(c, r).status = 200 /\ HttpResponse(c, r).tag # ""
                      THEN [cache EXCEPT ![p] = [url |-> u, tag |-> HttpResponse(c, r).tag,
                                                 body |-> HttpResponse(c, r).body]]
                      ELSE cache
  BY DEF ExecuteHttp
<1> DEFINE resp == HttpResponse(c, r)
           full == HttpResponse(d, r)
           l == [resp |-> resp, url |-> u, full |-> Body(full)]
           k == [url |-> u, tag |-> Tag(resp), body |-> Body(resp)]
<1>3. /\ u \in Urls /\ IsRequest(c) /\ c.format \in {"Json", "Raw", "Text"}
      /\ c.etag = FALSE \/ (c.etag = TRUE /\ Asks(c, u))
      /\ c.ifNoneMatch # None => cache[p].url = u /\ cache[p].tag = c.ifNoneMatch
  BY <1>1 DEF Held
<1>4. /\ task' = [task EXCEPT ![p] = "idle"] /\ hand' = [hand EXCEPT ![p] = Nothing]
      /\ last' = [last EXCEPT ![p] = l]
  BY <1>2, Zenon DEF Answer, Body
<1>5. cache' = IF Code(resp) = 200 /\ Tag(resp) # None
                 THEN [cache EXCEPT ![p] = k] ELSE cache
  BY <1>2, Zenon DEF Code, Tag, Body, None
<1>6. /\ d.name = c.name /\ d.args = c.args /\ d.format = c.format
      /\ d.callback = c.callback /\ d.etag = c.etag /\ d.ifNoneMatch = None
  BY <1>3, Zenon DEF IsRequest, None
<1>7. l.resp = resp /\ l.url = u /\ l.full = Body(full)
  OBVIOUS
<1>8. k.url = u /\ k.tag = Tag(resp) /\ k.body = Body(resp)
  OBVIOUS
<1> HIDE DEF d, resp, full, l, k
<1>9. Held("idle", Nothing, cache[p]) /\ Held("idle", Nothing, k)
  BY DEF Held
<1>10. cache = [cache EXCEPT ![p] = cache[p]]
  BY SameValue
<1>11. ASSUME Code(resp) # 304, Tag(resp) = None PROVE CacheInv'
  <2>1. cache' = [cache EXCEPT ![p] = cache[p]]
    BY <1>5, <1>10, <1>11
  <2>2. Confirmed(l, cache[p])
    BY <1>7, <1>11 DEF Confirmed
  <2> QED
    BY <1>1, <1>4, <1>9, <2>1, <2>2, HttpStep
<1>12. CASE c.etag = FALSE \/ IsError(r)
  <2>1. Code(resp) # 304 /\ Tag(resp) = None
    <3>1. IsBare(resp)
      <4>1. IsPlain(c, r)
        BY <1>3, <1>12 DEF IsPlain
      <4> QED
        BY <4>1, Untagged, Zenon DEF resp
    <3> QED
      BY <3>1 DEF IsBare
  <2> QED
    BY <1>11, <2>1
<1>13. CASE c.etag = TRUE /\ Asks(c, u) /\ ~IsError(r)
  <2>1. r \in Given(u)
    BY <1>2, <1>13, ReplyGiven
  <2>2. IsAnswer(resp, c, u, r)
    BY <1>3, <1>13, <2>1, AnswerOfGet DEF resp
  <2>3. IsAnswer(full, d, u, r)
    <3>1. Asks(d, u) /\ d.etag = TRUE
      BY <1>6, <1>13 DEF Asks
    <3> QED
      BY <1>3, <1>13, <2>1, <3>1, AnswerOfGet DEF full
  <2>4. CASE ~HasTag(u, r)
    BY <1>11, <2>2, <2>4 DEF IsAnswer
  <2>5. CASE HasTag(u, r)
    <3>1. TagOf(u, r) # None
      BY <1>3, <2>1, TagIsText DEF None
    <3>2. Body(full) = BodyOf(u, r)
      BY <1>6, <2>3, <2>5, <3>1 DEF IsAnswer
    <3>3. CASE c.ifNoneMatch = TagOf(u, r)
      <4>1. Code(resp) = 304
        BY <2>2, <2>5, <3>3 DEF IsAnswer
      <4>2. cache' = [cache EXCEPT ![p] = cache[p]]
        BY <1>5, <1>10, <4>1
      <4>3. cache[p].url = u /\ cache[p].tag = TagOf(u, r)
        BY <1>3, <3>1, <3>3
      <4>4. PICK v \in Given(u) : /\ cache[p].tag = TagOf(u, v)
                                  /\ cache[p].body = BodyOf(u, v)
        BY <1>1, <3>1, <4>3 DEF Kept
      <4>5. BodyOf(u, v) = BodyOf(u, r)
        BY <1>3, <2>1, <4>3, <4>4, SameTag
      <4>6. Confirmed(l, cache[p])
        BY <1>7, <3>2, <4>3, <4>4, <4>5 DEF Confirmed
      <4> QED
        BY <1>1, <1>4, <1>9, <4>2, <4>6, HttpStep
    <3>4. CASE c.ifNoneMatch # TagOf(u, r)
      <4>1. Code(resp) = 200 /\ Body(resp) = BodyOf(u, r) /\ Tag(resp) = TagOf(u, r)
        BY <2>2, <2>5, <3>4 DEF IsAnswer
      <4>2. cache' = [cache EXCEPT ![p] = k]
        BY <1>5, <3>1, <4>1
      <4>3. Kept(k)
        BY <1>3, <1>8, <2>1, <4>1 DEF Kept
      <4>4. Confirmed(l, k)
        BY <1>7, <4>1 DEF Confirmed
      <4> QED
        BY <1>1, <1>4, <1>9, <4>2, <4>3, <4>4, HttpStep
    <3> QED
      BY <3>3, <3>4
  <2> QED
    BY <2>4, <2>5
<1> QED
  BY <1>3, <1>12, <1>13
LEMMA InitCache == Init => CacheInv
<1> SUFFICES ASSUME Init PROVE CacheInv
  OBVIOUS
<1> DEFINE e == [url |-> [name |-> ""], tag |-> "", body |-> <<>>]
<1>1. Kept(e)
  <2>1. e.tag = None
    BY DEF None
  <2> HIDE DEF e
  <2> QED
    BY <2>1 DEF Kept
<1> HIDE DEF e
<1>2. ASSUME NEW l, l = NoResponse PROVE Code(l.resp) # 304
  BY <1>2 DEF NoResponse, Code
<1>3. /\ cache = [p \in Peers |-> e] /\ last = [p \in Peers |-> NoResponse]
      /\ task = [p \in Peers |-> "idle"] /\ login = [p \in Peers |-> {}]
  BY DEF Init, e
<1>4. ASSUME NEW p \in Peers
      PROVE  /\ Confirmed(last[p], cache[p]) /\ login[p] = {}
             /\ Kept(cache[p]) /\ Held(task[p], hand[p], cache[p])
  <2>1. last[p] = NoResponse /\ cache[p] = e /\ task[p] = "idle" /\ login[p] = {}
    BY <1>3
  <2> QED
    BY <1>1, <1>2, <2>1 DEF Confirmed, Held
<1>5. cache = [p \in Peers |-> cache[p]] /\ last = [p \in Peers |-> last[p]]
  BY <1>3
<1> QED
  BY <1>4, <1>5 DEF CacheInv

LEMMA NextCache ==
    ASSUME TextLaws(STRING), IInv, CacheInv, [Next]_vars
    PROVE  CacheInv'
<1>0. TrafficTypes
  BY DEF IInv
<1>1. CASE StartNext /\ UNCHANGED <<redis, traffic, login>>
  BY <1>1, QuietStep DEF traffic
<1>2. CASE Handlers /\ UNCHANGED <<startVars, login>>
  <2>0. login' = login
    BY <1>2
  <2>1. CASE Write
    BY <2>0, <2>1, QuietStep DEF Write, traffic
  <2>2. ASSUME NEW p \in Peers, handle_get(p) \/ handle_post(p) \/ handle_put(p)
        PROVE  CacheInv'
    <3>1. PICK url \in Urls : \E body : process_request(p, url, body)
      BY <2>2, Zenon DEF handle_get, handle_post, handle_put
    <3> QED
      BY <1>0, <2>0, <3>1, RequestKeeps
  <2>3. ASSUME NEW p \in Peers, ExecuteHttp(p) PROVE CacheInv'
    BY <1>0, <2>0, <2>3, ExecuteKeeps
  <2>4. ASSUME NEW p \in Peers,
               \/ execute(p) \/ ExecuteUnary(p) \/ execute_stream(p) \/ JsonCommand(p)
               \/ JsonOther(p) \/ Push(p) \/ ExecuteNext(p) \/ SendReply(p) \/ Deliver(p)
               \/ Leave(p) \/ subscribe(p) \/ FailStream(p)
               \/ handle_subscribe(p) \/ EndSubscription(p)
        PROVE  CacheInv'
    BY <1>0, <2>0, <2>4, OtherHandlers
  <2> QED
    BY <1>2, <2>1, <2>2, <2>3, <2>4 DEF Handlers
<1>3. CASE \E p \in Peers : OpenStream(p) /\ UNCHANGED <<startVars, redis, traffic>>
  <2>1. PICK p \in Peers : OpenStream(p) /\ UNCHANGED <<startVars, redis, traffic>>
    BY <1>3
  <2>2. /\ Kind[p] = "stream" /\ last' = last /\ cache' = cache /\ task' = task
        /\ hand' = hand /\ \A q \in Peers : q = p \/ login'[q] = login[q]
    BY <1>0, <2>1 DEF OpenStream, traffic, TrafficTypes
  <2> QED
    BY <2>2 DEF CacheInv
<1>4. CASE UNCHANGED vars
  BY <1>4, QuietStep DEF vars, traffic
<1> QED
  BY <1>1, <1>2, <1>3, <1>4 DEF Next

(* Whoever writes in between, a client of process_request that is answered *)
(* 304 has the body that it would have been sent, for all URLs, values and *)
(* clients.  That concatenation can be undone is what a text is; that the  *)
(* SHA-1 has no collisions is in the model.                                *)
THEOREM NotModifiedHolds ==
    ASSUME TextLaws(STRING)
    PROVE  Spec => []NotModifiedIsCurrent
<1>1. Init => CacheInv
  BY InitCache
<1>2. IInv /\ CacheInv /\ [Next]_vars => CacheInv'
  BY NextCache
<1>3. CacheInv => NotModifiedIsCurrent
  BY DEF CacheInv, Confirmed, NotModifiedIsCurrent, Code
<1> QED
  BY <1>1, <1>2, <1>3, Inductive, PTL DEF Spec
============================================================================
