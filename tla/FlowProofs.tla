----------------------------- MODULE FlowProofs ------------------------------
(***************************************************************************)
(* Theorems about what flows in order: the lines of one log through their  *)
(* buffers into the files (src/src/common/log.cpp), and the requests of a  *)
(* connection through the buffers of both ends (tcp_connection.cpp with    *)
(* tcp_buffer.cpp, zrpc_pb_codec.cpp, http_codec.cpp and the dispatchers). *)
(* Both rest on what is known of sequences of sequences put together.      *)
(*                                                                         *)
(* Of a log: no line is doubled or vanishes from a running process, and    *)
(* the lines are in the files in the order they were logged, for any       *)
(* threads, lines, days, files and starts.                                 *)
(*                                                                         *)
(* Of a connection: no byte is lost, doubled or reordered, what has        *)
(* arrived is decoded, each request is answered under its number, and a    *)
(* connection is closed when its peer is, for any data that decode can     *)
(* find again, any sizes of buffers and integers and any pieces, as long   *)
(* as no write fails.                                                      *)
(***************************************************************************)
EXTENDS AsyncLogger, TcpStream, FiniteSetTheorems, SequenceTheorems, WellFoundedInduction,
        TLAPS

(* Where a line is not: in the hand of a thread that is not about to push, *)
(* of a writer that is not about to write, or in a process that is down.   *)
HandsEmpty ==
  /\ \A t \in Flushers : flusher_pc[t] # "push" => batch[t] = <<>>
  /\ \A t \in Flushers \ active : flusher_pc[t] = "idle"
  /\ writer_pc # "write" => tmp = <<>>
  /\ ~Up => buffer = <<>> /\ m_tasks = <<>> /\ \A t \in Flushers : batch[t] = <<>>

(* The lines on their way grow, and none is newer than the last logged.    *)
Growing(s, n) ==
  /\ \A i, j \in DOMAIN s : i < j => s[i] < s[j]
  /\ \A i \in DOMAIN s : s[i] <= n
WayInv ==
  \A t \in Flushers : active = {t} => Growing(OnTheWay(t), made)

(* In the first run no file is written after the one m_date and m_no name. *)
LaterFilesEmpty ==
  starts = 1 =>
    /\ m_date <= today
    /\ \A f \in Files : f[1] > m_date \/ (f[1] = m_date /\ f[2] > m_no) => files[f] = <<>>

IInv == TypeOK /\ HandsEmpty /\ EachLineOnce /\ WayInv /\ LaterFilesEmpty /\ FilesReadInOrder

-----------------------------------------------------------------------------
(* FlattenSeq of the community modules: the recursive function it takes    *)
(* its value from exists, and any function that satisfies its equation is  *)
(* that one.                                                               *)

LEMMA LeastNatural ==
  ASSUME NEW S \in SUBSET Nat, S # {}
  PROVE  \E m \in S : \A n \in S : m <= n
<1>1. PICK m \in S : \A n \in S : ~(<<n, m>> \in OpToRel(<, Nat))
  BY WFMin, NatLessThanWellFounded
<1>2. \A n \in S : ~(n < m)
  BY <1>1 DEF OpToRel
<1> QED
  BY <1>2

(* Concatenation is associative; named, so that provers instantiate it.    *)
Assoc(S) == \A u, v, w \in Seq(S) : (u \o v) \o w = u \o (v \o w)

LEMMA Associative == ASSUME NEW S PROVE Assoc(S)
BY ConcatAssociative DEF Assoc

(* The partial concatenations of the first n sequences of s.               *)
Flattening(f, s, n) ==
  f = [i \in 1 .. n |-> IF i = 1 THEN s[i] ELSE f[i - 1] \o s[i]]

LEMMA FlatteningExists ==
  ASSUME NEW s, NEW n \in Nat
  PROVE  \E f : Flattening(f, s, n)
<1> DEFINE Bad == {k \in Nat : ~ \E f : Flattening(f, s, k)}
<1>1. SUFFICES ASSUME Bad # {} PROVE FALSE
  OBVIOUS
<1>2. PICK m \in Bad : \A k \in Bad : m <= k
  BY <1>1, LeastNatural
<1>3. m # 0
  <2>1. Flattening([i \in 1 .. 0 |-> s], s, 0)
    BY DEF Flattening
  <2> QED
    BY <2>1
<1>4. PICK f : Flattening(f, s, m - 1)
  BY <1>2, <1>3
<1> DEFINE g == [i \in 1 .. m |-> IF i < m THEN f[i]
                                  ELSE IF i = 1 THEN s[i] ELSE f[i - 1] \o s[i]]
<1>5. Flattening(g, s, m)
  <2>1. \A i \in 1 .. m - 1 : f[i] = IF i = 1 THEN s[i] ELSE f[i - 1] \o s[i]
    BY <1>4 DEF Flattening
  <2>2. ASSUME NEW i \in 1 .. m
        PROVE  g[i] = IF i = 1 THEN s[i] ELSE g[i - 1] \o s[i]
    <3>1. i # 1 => g[i - 1] = f[i - 1]
      OBVIOUS
    <3>2. CASE i < m
      BY <2>1, <3>1, <3>2
    <3>3. CASE i = m
      BY <3>1, <3>3
    <3> QED
      BY <3>2, <3>3
  <2>3. g = [i \in 1 .. m |-> g[i]]
    OBVIOUS
  <2> HIDE DEF g
  <2> QED
    BY <2>2, <2>3, Zenon DEF Flattening
<1> QED
  BY <1>5

LEMMA FlatteningUnique ==
  ASSUME NEW s, NEW n \in Nat, NEW f, NEW g, Flattening(f, s, n), Flattening(g, s, n)
  PROVE  f = g
<1> DEFINE Bad == {k \in 1 .. n : f[k] # g[k]}
<1>1. \A i \in 1 .. n : /\ f[i] = IF i = 1 THEN s[i] ELSE f[i - 1] \o s[i]
                        /\ g[i] = IF i = 1 THEN s[i] ELSE g[i - 1] \o s[i]
  BY DEF Flattening
<1>2. Bad = {}
  <2>1. SUFFICES ASSUME Bad # {} PROVE FALSE
    OBVIOUS
  <2>2. PICK m \in Bad : \A k \in Bad : m <= k
    <3>1. Bad \in SUBSET Nat
      OBVIOUS
    <3> HIDE DEF Bad
    <3> QED
      BY <2>1, <3>1, LeastNatural
  <2>3. m # 1 => f[m - 1] = g[m - 1]
    BY <2>2
  <2> QED
    BY <1>1, <2>3
<1>3. f = [i \in 1 .. n |-> f[i]] /\ g = [i \in 1 .. n |-> g[i]]
  <2>1. \E e : f = [i \in 1 .. n |-> e[i]]
    BY Zenon DEF Flattening
  <2>2. \E e : g = [i \in 1 .. n |-> e[i]]
    BY Zenon DEF Flattening
  <2> QED
    BY <2>1, <2>2
<1> QED
  BY <1>2, <1>3

LEMMA FlattenIs ==
  ASSUME NEW s, Len(s) \in Nat \ {0}, NEW f, Flattening(f, s, Len(s))
  PROVE  FlattenSeq(s) = f[Len(s)]
<1> DEFINE c == CHOOSE h : Flattening(h, s, Len(s))
<1>1. Flattening(c, s, Len(s))
  OBVIOUS
<1>2. c = f
  BY <1>1, FlatteningUnique
<1>3. FlattenSeq(s) = c[Len(s)]
  BY DEF FlattenSeq, Flattening
<1> QED
  BY <1>2, <1>3

LEMMA FlatteningSteps ==
  ASSUME NEW f, NEW s, NEW n \in Nat, Flattening(f, s, n)
  PROVE  \A i \in 1 .. n : f[i] = IF i = 1 THEN s[i] ELSE f[i - 1] \o s[i]
BY DEF Flattening

LEMMA FlatteningType ==
  ASSUME NEW S, NEW s \in Seq(Seq(S)), NEW f, Flattening(f, s, Len(s))
  PROVE  \A i \in 1 .. Len(s) : f[i] \in Seq(S)
<1> DEFINE Bad == {i \in 1 .. Len(s) : f[i] \notin Seq(S)}
<1>1. Bad \in SUBSET Nat
  OBVIOUS
<1>2. ASSUME NEW m \in Bad, \A k \in Bad : m <= k PROVE FALSE
  <2>1. m # 1 => f[m - 1] \in Seq(S)
    BY <1>2
  <2>2. s[m] \in Seq(S)
    OBVIOUS
  <2>3. f[m] = IF m = 1 THEN s[m] ELSE f[m - 1] \o s[m]
    BY FlatteningSteps
  <2>4. f[m] \in Seq(S)
    BY <2>1, <2>2, <2>3, ConcatProperties
  <2> QED
    BY <2>4
<1>3. Bad = {}
  <2> HIDE DEF Bad
  <2> QED
    BY <1>1, <1>2, LeastNatural
<1> QED
  BY <1>3

LEMMA FlattenEmpty == FlattenSeq(<<>>) = <<>>
BY DEF FlattenSeq

LEMMA FlattenType ==
  ASSUME NEW S, NEW s \in Seq(Seq(S))
  PROVE  FlattenSeq(s) \in Seq(S)
<1>0. Len(s) \in Nat /\ (Len(s) = 0 => s = <<>>)
  OBVIOUS
<1>1. CASE s = <<>>
  <2>1. FlattenSeq(s) = <<>>
    BY <1>1, FlattenEmpty, Zenon
  <2> QED
    BY <2>1
<1>2. CASE s # <<>>
  <2>1. PICK f : Flattening(f, s, Len(s))
    BY <1>0, FlatteningExists, Zenon
  <2>2. FlattenSeq(s) = f[Len(s)] /\ f[Len(s)] \in Seq(S)
    BY <1>0, <1>2, <2>1, FlattenIs, FlatteningType
  <2> QED
    BY <2>2
<1> QED
  BY <1>1, <1>2

(* What is pushed goes to the end.                                         *)
LEMMA FlattenAppend ==
  ASSUME NEW S, NEW s \in Seq(Seq(S)), NEW x \in Seq(S)
  PROVE  FlattenSeq(Append(s, x)) = FlattenSeq(s) \o x
<1> DEFINE B == Seq(S)
           n == Len(s)
           m == n + 1
           t == Append(s, x)
<1>0. s \in Seq(B) /\ x \in B
  OBVIOUS
<1>1. n \in Nat /\ m \in Nat \ {0} /\ Len(t) = m
  <2> HIDE DEF B
  <2> QED
    BY <1>0, AppendProperties
<1>2. t[m] = x /\ \A i \in 1 .. n : t[i] = s[i]
  <2> HIDE DEF B
  <2> QED
    BY <1>0, AppendProperties
<1> HIDE DEF t
<1>3. PICK g : Flattening(g, t, m)
  BY <1>1, FlatteningExists, Zenon
<1>4. FlattenSeq(t) = g[m]
  BY <1>1, <1>3, FlattenIs, Zenon
<1>5. \A i \in 1 .. m : g[i] = IF i = 1 THEN t[i] ELSE g[i - 1] \o t[i]
  <2>1. m \in Nat
    BY <1>1
  <2> QED
    BY <1>3, <2>1, FlatteningSteps, ZenonT(40)
<1>6. CASE n = 0
  <2>1. s = <<>>
    BY <1>6
  <2> QED
    BY <1>2, <1>4, <1>5, <1>6, <2>1, FlattenEmpty DEF t
<1>7. CASE n # 0
  <2> DEFINE f == [i \in 1 .. n |-> g[i]]
  <2>2. \A i \in 1 .. n : g[i] = IF i = 1 THEN s[i] ELSE f[i - 1] \o s[i]
    BY <1>1, <1>2, <1>5
  <2>3. Flattening(f, s, n)
    BY <2>2, Zenon DEF Flattening
  <2>4. FlattenSeq(s) = f[n]
    BY <1>1, <1>7, <2>3, FlattenIs, Zenon
  <2>5. g[m] = g[n] \o x
    <3>1. m \in 1 .. m /\ m # 1 /\ m - 1 = n
      BY <1>1, <1>7
    <3> QED
      BY <1>2, <1>5, <3>1, Zenon
  <2>6. f[n] = g[n]
    BY <1>1, <1>7
  <2> QED
    BY <1>4, <2>4, <2>5, <2>6 DEF t
<1> QED
  BY <1>6, <1>7

(* What is popped comes from the front.                                    *)
LEMMA FlattenHead ==
  ASSUME NEW S, NEW s \in Seq(Seq(S)), s # <<>>
  PROVE  FlattenSeq(s) = Head(s) \o FlattenSeq(Tail(s))
<1> DEFINE B == Seq(S)
           n == Len(s)
           m == n - 1
           x == Head(s)
           t == Tail(s)
<1>1. s \in Seq(B)
  OBVIOUS
<1>2. /\ n \in Nat \ {0} /\ m \in Nat /\ x = s[1] /\ x \in B /\ t \in Seq(B) /\ Len(t) = m
      /\ \A i \in 1 .. m : t[i] = s[i + 1]
      /\ \A i \in 1 .. n : s[i] \in B
  <2> HIDE DEF B
  <2> QED
    BY <1>1, HeadTailProperties
<1> HIDE DEF t, x
<1>3. PICK f : Flattening(f, s, n)
  <2>1. n \in Nat
    BY <1>2
  <2> QED
    BY <2>1, FlatteningExists, Zenon
<1>4. FlattenSeq(s) = f[n]
  BY <1>2, <1>3, FlattenIs, Zenon
<1>5. \A i \in 1 .. n : f[i] = IF i = 1 THEN s[i] ELSE f[i - 1] \o s[i]
  <2>1. n \in Nat
    BY <1>2
  <2> QED
    BY <1>3, <2>1, FlatteningSteps, ZenonT(40)
<1>6. CASE m = 0
  <2>1. FlattenSeq(t) = <<>>
    <3>1. t = <<>>
      BY <1>2, <1>6, SMTT(30)
    <3> QED
      BY <3>1, FlattenEmpty, Zenon
  <2>2. FlattenSeq(s) = x
    BY <1>2, <1>4, <1>5, <1>6
  <2> QED
    BY <1>2, <2>1, <2>2 DEF t, x
<1>7. CASE m # 0
  <2>1. PICK g : Flattening(g, t, m)
    BY <1>2, FlatteningExists, Zenon
  <2>2. FlattenSeq(t) = g[m]
    <3>1. Len(t) \in Nat \ {0}
      BY <1>2, <1>7
    <3> QED
      BY <1>2, <2>1, <3>1, FlattenIs, Zenon
  <2>3. \A i \in 1 .. m : g[i] = IF i = 1 THEN t[i] ELSE g[i - 1] \o t[i]
    BY <1>2, <2>1, FlatteningSteps, Zenon
  <2>4. \A i \in 1 .. m : g[i] \in Seq(S)
    <3>1. t \in Seq(Seq(S)) /\ Flattening(g, t, Len(t))
      BY <1>2, <2>1
    <3> QED
      BY <1>2, <3>1, FlatteningType, Zenon
  <2> DEFINE Bad == {i \in 1 .. m : f[i + 1] # x \o g[i]}
  <2>5. Bad = {}
    <3>1. Bad \in SUBSET Nat
      OBVIOUS
    <3>2. ASSUME NEW i \in Bad, \A k \in Bad : i <= k PROVE FALSE
      <4>1. i \in 1 .. m /\ i + 1 \in 1 .. n /\ i + 1 # 1 /\ (i + 1) - 1 = i
        BY <1>2
      <4>2. f[i + 1] = f[i] \o t[i]
        BY <1>2, <1>5, <4>1
      <4>3. CASE i = 1
        <5>1. f[i] = x /\ g[i] = t[i]
          BY <1>2, <1>5, <2>3, <4>1, <4>3
        <5> QED
          BY <4>2, <5>1
      <4>4. CASE i # 1
        <5>1. i - 1 \in 1 .. m /\ (i - 1) + 1 = i
          BY <4>1, <4>4
        <5>2. f[i] = x \o g[i - 1]
          BY <3>2, <5>1, SMTT(30)
        <5>3. g[i] = g[i - 1] \o t[i]
          BY <2>3, <4>1, <4>4
        <5>4. x \in Seq(S) /\ g[i - 1] \in Seq(S) /\ t[i] \in Seq(S)
          BY <1>2, <2>4, <4>1, <5>1
        <5>5. (x \o g[i - 1]) \o t[i] = x \o (g[i - 1] \o t[i])
          <6> DEFINE a == g[i - 1]
                     b == t[i]
          <6>1. a \in Seq(S) /\ b \in Seq(S) /\ x \in Seq(S)
            BY <5>4
          <6>2. Assoc(S)
            BY Associative, Zenon
          <6> HIDE DEF a, b
          <6>3. (x \o a) \o b = x \o (a \o b)
            BY <6>1, <6>2 DEF Assoc
          <6> QED
            BY <6>3 DEF a, b
        <5> QED
          BY <4>2, <5>2, <5>3, <5>5
      <4> QED
        BY <4>3, <4>4
    <3> HIDE DEF Bad
    <3> QED
      BY <3>1, <3>2, LeastNatural
  <2>6. \A i \in 1 .. m : f[i + 1] = x \o g[i]
    BY <2>5
  <2>7. m \in 1 .. m /\ m + 1 = n
    BY <1>2, <1>7
  <2>8. f[n] = x \o g[m]
    BY <2>6, <2>7, Zenon
  <2> QED
    BY <1>4, <2>2, <2>8, Zenon DEF t, x
<1> QED
  BY <1>6, <1>7

(* Empty sequences make an empty one.                                      *)
LEMMA FlattenEmpties ==
  ASSUME NEW s, Len(s) \in Nat \ {0}, \A i \in 1 .. Len(s) : s[i] = <<>>
  PROVE  FlattenSeq(s) = <<>>
<1> DEFINE n == Len(s)
<1>1. n \in Nat
  OBVIOUS
<1>2. PICK f : Flattening(f, s, n)
  BY <1>1, FlatteningExists, Zenon
<1>3. FlattenSeq(s) = f[n]
  BY <1>2, FlattenIs, Zenon
<1>4. \A i \in 1 .. n : f[i] = IF i = 1 THEN s[i] ELSE f[i - 1] \o s[i]
  BY <1>2 DEF Flattening
<1> DEFINE Bad == {i \in 1 .. n : f[i] # <<>>}
<1>5. Bad = {}
  <2>1. Bad \in SUBSET Nat
    BY <1>1
  <2>2. ASSUME NEW i \in Bad, \A k \in Bad : i <= k PROVE FALSE
    <3>1. i # 1 => f[i - 1] = <<>>
      BY <1>1, <2>2
    <3>2. f[i] = IF i = 1 THEN <<>> ELSE f[i - 1] \o <<>>
      BY <1>4
    <3>3. <<>> \o <<>> = <<>>
      OBVIOUS
    <3> QED
      BY <3>1, <3>2, <3>3
  <2> HIDE DEF Bad
  <2> QED
    BY <2>1, <2>2, LeastNatural
<1> QED
  BY <1>1, <1>3, <1>5

(* What is appended to the last sequence that is not empty, or to one      *)
(* after it, comes last.                                                   *)
ExtendsAt(s, t, k, x) ==
  /\ Len(t) = Len(s) /\ k \in 1 .. Len(s) /\ t[k] = s[k] \o x
  /\ \A i \in 1 .. Len(s) : (i # k => t[i] = s[i]) /\ (i > k => s[i] = <<>>)

LEMMA FlattenExtend ==
  ASSUME NEW S, NEW s \in Seq(Seq(S)), NEW t, NEW k, NEW x \in Seq(S), ExtendsAt(s, t, k, x)
  PROVE  FlattenSeq(t) = FlattenSeq(s) \o x
<1> SUFFICES ASSUME Len(t) = Len(s), k \in 1 .. Len(s), t[k] = s[k] \o x,
                    \A i \in 1 .. Len(s) : (i # k => t[i] = s[i]) /\ (i > k => s[i] = <<>>)
             PROVE  FlattenSeq(t) = FlattenSeq(s) \o x
  BY Zenon DEF ExtendsAt
<1> DEFINE n == Len(s)
<1>0. n \in Nat
  OBVIOUS
<1>1. n \in Nat \ {0} /\ Len(t) \in Nat \ {0} /\ Len(t) = n
  OBVIOUS
<1>2. PICK f : Flattening(f, s, n)
  BY <1>0, FlatteningExists, Zenon
<1>3. PICK g : Flattening(g, t, n)
  BY <1>0, FlatteningExists, Zenon
<1>4. FlattenSeq(s) = f[n] /\ FlattenSeq(t) = g[n]
  <2>1. FlattenSeq(s) = f[n]
    BY <1>1, <1>2, FlattenIs, Zenon
  <2>2. Flattening(g, t, Len(t))
    BY <1>3
  <2>3. FlattenSeq(t) = g[Len(t)]
    BY <1>1, <2>2, FlattenIs, Zenon
  <2> QED
    BY <2>1, <2>3
<1>5. \A i \in 1 .. n : f[i] \in Seq(S) /\ s[i] \in Seq(S)
  BY <1>2, FlatteningType
<1>6. \A i \in 1 .. n : /\ i = k => t[i] = s[i] \o x
                        /\ i # k => t[i] = s[i]
                        /\ i > k => s[i] = <<>>
  BY Zenon
<1>7. \A i \in 1 .. n : f[i] = IF i = 1 THEN s[i] ELSE f[i - 1] \o s[i]
  BY <1>2 DEF Flattening
<1>8. \A i \in 1 .. n : g[i] = IF i = 1 THEN t[i] ELSE g[i - 1] \o t[i]
  BY <1>3 DEF Flattening
<1> HIDE DEF n
<1> DEFINE Bad == {i \in 1 .. n : g[i] # IF i < k THEN f[i] ELSE f[i] \o x}
<1>9. Bad = {}
  <2>1. Bad \in SUBSET Nat
    BY <1>0
  <2>2. ASSUME NEW i \in Bad, \A j \in Bad : i <= j PROVE FALSE
    <3> DEFINE fp == f[i - 1]
               gp == g[i - 1]
               si == s[i]
               ti == t[i]
    <3>1. i \in 1 .. n /\ (i # 1 => i - 1 \in 1 .. n)
      BY <1>0
    <3>2. f[i] = IF i = 1 THEN si ELSE fp \o si
      BY <1>7, <3>1, Zenon
    <3>3. g[i] = IF i = 1 THEN ti ELSE gp \o ti
      BY <1>8, <3>1, Zenon
    <3>4. i # 1 => gp = IF i - 1 < k THEN fp ELSE fp \o x
      <4>1. i - 1 \notin Bad
        BY <2>2, <3>1
      <4> QED
        BY <3>1, <4>1, Zenon
    <3>5. g[i] # IF i < k THEN f[i] ELSE f[i] \o x
      BY Zenon
    <3>6. /\ i = k => ti = si \o x
          /\ i # k => ti = si
          /\ i > k => si = <<>>
      BY <1>6, <3>1, Zenon
    <3>7. si \in Seq(S) /\ (i # 1 => fp \in Seq(S)) /\ i \in Nat /\ k \in Nat /\ 1 <= k /\ 1 <= i
      BY <1>0, <1>5, <3>1 DEF n
    <3> HIDE DEF Bad, fp, gp, si, ti
    <3>8. CASE i < k
      <4>1. i # k /\ i - 1 < k
        BY <3>7, <3>8
      <4> QED
        BY <3>2, <3>3, <3>4, <3>5, <3>6, <3>8, <4>1, Zenon
    <3>9. CASE i = k
      <4>1. i - 1 < k /\ ~(i < k)
        BY <3>7, <3>9
      <4>2. Assoc(S)
        BY Associative, Zenon
      <4>3. i # 1 => (fp \o si) \o x = fp \o (si \o x)
        BY <3>7, <4>2 DEF Assoc
      <4> QED
        BY <3>2, <3>3, <3>4, <3>5, <3>6, <3>9, <4>1, <4>3, Zenon
    <3>10. CASE i > k
      <4>1. i # k /\ i # 1 /\ ~(i - 1 < k) /\ ~(i < k)
        BY <3>7, <3>10
      <4>2. fp \o <<>> = fp /\ (fp \o x) \o <<>> = fp \o x
        BY <3>7, <4>1, ConcatEmptySeq, ConcatProperties
      <4> QED
        BY <3>2, <3>3, <3>4, <3>5, <3>6, <3>10, <4>1, <4>2, Zenon
    <3> QED
      BY <3>7, <3>8, <3>9, <3>10
  <2> HIDE DEF Bad
  <2> QED
    BY <2>1, <2>2, LeastNatural
<1>10. n \in 1 .. n /\ ~(n < k)
  BY <1>1 DEF n
<1> QED
  BY <1>4, <1>9, <1>10

-----------------------------------------------------------------------------
(* Types.                                                                  *)

LEMMA VolatileType == TypeOK => Volatile \subseteq Lines
<1> SUFFICES ASSUME TypeOK PROVE Volatile \subseteq Lines
  OBVIOUS
<1>1. FlattenSeq(m_tasks) \in Seq(Lines)
  BY FlattenType DEF TypeOK
<1>2. Range(FlattenSeq(m_tasks)) \in SUBSET Lines /\ Range(buffer) \in SUBSET Lines
  BY <1>1, RangeOfSeq DEF TypeOK
<1>3. Range(tmp) \in SUBSET Lines
  BY RangeOfSeq DEF TypeOK
<1>4. \A t \in Flushers : Range(batch[t]) \in SUBSET Lines
  BY RangeOfSeq DEF TypeOK
<1> QED
  BY <1>2, <1>3, <1>4 DEF Volatile

LEMMA Bounds ==
  LoggerAssumption => /\ MaxLines \in Nat /\ MaxNo \in Nat
                      /\ MaxDate \in Nat \ {0} /\ MaxStarts \in Nat \ {0}
BY DEF LoggerAssumption

LEMMA InitType == LoggerAssumption /\ Init => TypeOK
<1> SUFFICES ASSUME LoggerAssumption, Init PROVE TypeOK
  OBVIOUS
<1>1. /\ {today, m_date} \subseteq 1 .. MaxDate /\ m_no \in 0 .. MaxNo
      /\ starts \in 1 .. MaxStarts
  BY Bounds DEF Init
<1>2. /\ made \in Lines \cup {0} /\ buffer \in Seq(Lines)
      /\ m_tasks \in Seq(Seq(Lines)) /\ tmp \in Seq(Lines) /\ written \in Seq(Lines)
      /\ batch \in [Flushers -> Seq(Lines)] /\ files \in [Files -> Seq(Lines)]
  BY DEF Init
<1>3. /\ flusher_pc \in
           [Flushers -> {"idle", "push", "signal", "stop", "stop_signal", "join", "exited"}]
      /\ exiting \in [Flushers -> BOOLEAN] /\ m_stop \in BOOLEAN /\ is_stop \in BOOLEAN
  BY DEF Init
<1> QED
  BY <1>1, <1>2, <1>3 DEF Init, TypeOK

LEMMA GoDownType ==
  TypeOK /\ GoDown => /\ writer_pc' = "down" /\ lost' \subseteq Lines
                      /\ buffer' \in Seq(Lines) /\ m_tasks' \in Seq(Seq(Lines))
                      /\ tmp' \in Seq(Lines) /\ batch' \in [Flushers -> Seq(Lines)]
<1> SUFFICES ASSUME TypeOK, GoDown
             PROVE  lost' \subseteq Lines /\ batch' \in [Flushers -> Seq(Lines)]
  BY DEF GoDown
<1>1. Volatile \subseteq Lines
  BY VolatileType
<1> QED
  BY <1>1 DEF TypeOK, GoDown

LEMMA NextType == LoggerAssumption /\ TypeOK /\ [Next]_vars => TypeOK'
<1> SUFFICES ASSUME LoggerAssumption, TypeOK, [Next]_vars PROVE TypeOK'
  OBVIOUS
<1>0. active' \subseteq Flushers
  BY DEF Next, vars, TypeOK
<1> USE DEF TypeOK, logs, queue, flusher, writer, disk
<1>1. CASE pushLog
  <2>1. made + 1 \in Lines
    BY <1>1 DEF pushLog, LoggerAssumption, Lines
  <2>2. made' \in Lines \cup {0} /\ buffer' \in Seq(Lines)
    BY <1>1, <2>1 DEF pushLog
  <2> QED
    BY <1>0, <1>1, <2>2 DEF pushLog
<1>2. ASSUME NEW t \in Flushers, SwapBuffer(t) PROVE TypeOK'
  BY <1>0, <1>2 DEF SwapBuffer, Goto
<1>3. ASSUME NEW t \in Flushers, push(t) PROVE TypeOK'
  <2>1. m_tasks' \in Seq(Seq(Lines))
    <3>1. Append(m_tasks, batch[t]) \in Seq(Seq(Lines))
      <4> DEFINE B == Seq(Lines)
      <4>1. m_tasks \in Seq(B) /\ batch[t] \in B
        OBVIOUS
      <4> HIDE DEF B
      <4>2. Append(m_tasks, batch[t]) \in Seq(B)
        BY <4>1, AppendProperties
      <4> QED
        BY <4>2 DEF B
    <3>2. m_tasks' = m_tasks \/ m_tasks' = Append(m_tasks, batch[t])
      BY <1>3 DEF push
    <3>3. m_tasks \in Seq(Seq(Lines))
      OBVIOUS
    <3> QED
      BY <3>1, <3>2, <3>3, Zenon
  <2>2. batch' \in [Flushers -> Seq(Lines)]
    BY <1>3 DEF push
  <2>3. flusher_pc' \in
          [Flushers -> {"idle", "push", "signal", "stop", "stop_signal", "join", "exited"}]
    BY <1>3 DEF push, Goto, Pushed
  <2> QED
    BY <1>0, <1>3, <2>1, <2>2, <2>3 DEF push
<1>4. ASSUME NEW t \in Flushers, pushSignal(t) \/ stopSignal(t) PROVE TypeOK'
  BY <1>0, <1>4 DEF pushSignal, stopSignal, signal, Goto, Pushed
<1>5. ASSUME NEW t \in Flushers, stop(t) PROVE TypeOK'
  BY <1>0, <1>5 DEF stop, Goto
<1>6. ASSUME NEW t \in Flushers, Exit(t) PROVE TypeOK'
  BY <1>0, <1>6, GoDownType DEF Exit, Goto
<1>7. CASE WriterCheck \/ WriterWait \/ SpuriousWakeup
  BY <1>0, <1>7 DEF WriterCheck, WriterWait, SpuriousWakeup
<1>8. CASE WriterTake
  BY <1>0, <1>8 DEF WriterTake
<1>9. CASE WriterTakesNothing
  BY <1>0, <1>9, GoDownType DEF WriterTakesNothing
<1>10. CASE WriteBatch
  <2> DEFINE f == <<today, NextNumber>>
  <2>3. MaxNo \in Nat /\ NumberToday \in 0 .. MaxNo
    <3>1. MaxNo \in Nat
      BY DEF LoggerAssumption
    <3>2. m_no \in 0 .. MaxNo /\ 0 \in 0 .. MaxNo
      BY <3>1
    <3> QED
      BY <3>1, <3>2, Zenon DEF NumberToday
  <2>4. NextNumber \in 0 .. MaxNo
    BY <1>10, <2>3 DEF WriteBatch, NextNumber
  <2>1. NextNumber \in 0 .. MaxNo /\ f \in Files
    BY <1>0, <2>4 DEF Files
  <2>2. files[f] \o tmp \in Seq(Lines)
    BY <2>1
  <2> QED
    BY <1>0, <1>10, <2>1, <2>2 DEF WriteBatch
<1>11. CASE Midnight
  BY <1>0, <1>11 DEF Midnight, LoggerAssumption
<1>12. CASE Kill
  BY <1>0, <1>12, GoDownType DEF Kill
<1>13. CASE Start
  <2>1. /\ {today', m_date'} \subseteq 1 .. MaxDate /\ m_no' \in 0 .. MaxNo
        /\ starts' \in 1 .. MaxStarts
    BY <1>13, Bounds DEF Start
  <2>2. /\ flusher_pc' \in
             [Flushers -> {"idle", "push", "signal", "stop", "stop_signal", "join", "exited"}]
        /\ exiting' \in [Flushers -> BOOLEAN] /\ m_stop' \in BOOLEAN /\ is_stop' \in BOOLEAN
    BY <1>13 DEF Start
  <2> QED
    BY <1>0, <1>13, <2>1, <2>2 DEF Start
<1>14. CASE UNCHANGED vars
  BY <1>0, <1>14 DEF vars
<1> QED
  BY <1>1, <1>2, <1>3, <1>4, <1>5, <1>6, <1>7, <1>8, <1>9, <1>10, <1>11, <1>12, <1>13, <1>14
  DEF Next, FlusherSteps, WriterSteps

-----------------------------------------------------------------------------
(* Where no line is.                                                       *)

LEMMA InitHands == Init => HandsEmpty
BY DEF Init, HandsEmpty, Up

LEMMA NextHands == TypeOK /\ HandsEmpty /\ [Next]_vars => HandsEmpty'
<1> SUFFICES ASSUME TypeOK, HandsEmpty, [Next]_vars PROVE HandsEmpty'
  OBVIOUS
<1>0. active' = active /\ active \subseteq Flushers
  BY DEF Next, vars, TypeOK
<1>a. /\ flusher_pc \in
           [Flushers -> {"idle", "push", "signal", "stop", "stop_signal", "join", "exited"}]
      /\ batch \in [Flushers -> Seq(Lines)]
      /\ \A t \in Flushers : flusher_pc[t] # "push" => batch[t] = <<>>
      /\ \A t \in Flushers \ active : flusher_pc[t] = "idle"
      /\ writer_pc # "write" => tmp = <<>>
      /\ ~Up => buffer = <<>> /\ m_tasks = <<>> /\ \A t \in Flushers : batch[t] = <<>>
  BY DEF TypeOK, HandsEmpty
<1> USE DEF HandsEmpty, Up, logs, queue, flusher, writer, disk
<1>1. CASE pushLog
  BY <1>0, <1>a, <1>1 DEF pushLog
<1>2. ASSUME NEW t \in Flushers, SwapBuffer(t) PROVE HandsEmpty'
  BY <1>0, <1>a, <1>2 DEF SwapBuffer, Goto
<1>3. ASSUME NEW t \in Flushers, push(t) PROVE HandsEmpty'
  BY <1>0, <1>a, <1>3 DEF push, Goto, Pushed
<1>4. ASSUME NEW t \in Flushers, pushSignal(t) \/ stopSignal(t) PROVE HandsEmpty'
  BY <1>0, <1>a, <1>4 DEF pushSignal, stopSignal, signal, Goto, Pushed
<1>5. ASSUME NEW t \in Flushers, stop(t) PROVE HandsEmpty'
  BY <1>0, <1>a, <1>5 DEF stop, Goto
<1>6. ASSUME NEW t \in Flushers, Exit(t) PROVE HandsEmpty'
  BY <1>0, <1>a, <1>6 DEF Exit, GoDown, Goto
<1>7. CASE WriterCheck \/ WriterWait \/ SpuriousWakeup
  BY <1>0, <1>a, <1>7 DEF WriterCheck, WriterWait, SpuriousWakeup
<1>8. CASE WriterTake
  BY <1>0, <1>a, <1>8 DEF WriterTake
<1>9. CASE WriterTakesNothing
  BY <1>0, <1>a, <1>9 DEF WriterTakesNothing, GoDown
<1>10. CASE WriteBatch
  BY <1>0, <1>a, <1>10 DEF WriteBatch
<1>11. CASE Midnight
  BY <1>0, <1>a, <1>11 DEF Midnight
<1>12. CASE Kill
  BY <1>0, <1>a, <1>12 DEF Kill, GoDown
<1>13. CASE Start
  BY <1>0, <1>a, <1>13 DEF Start
<1>14. CASE UNCHANGED vars
  BY <1>0, <1>a, <1>14 DEF vars
<1> QED
  BY <1>1, <1>2, <1>3, <1>4, <1>5, <1>6, <1>7, <1>8, <1>9, <1>10, <1>11, <1>12, <1>13, <1>14
  DEF Next, FlusherSteps, WriterSteps

-----------------------------------------------------------------------------
(* What was handed over keeps its order while the writer moves it, and a   *)
(* batch that is pushed goes to its end.                                   *)

LEMMA HandedType == TypeOK => FlattenSeq(m_tasks) \in Seq(Lines) /\ Handed \in Seq(Lines)
<1> SUFFICES ASSUME TypeOK PROVE FlattenSeq(m_tasks) \in Seq(Lines) /\ Handed \in Seq(Lines)
  OBVIOUS
<1>1. FlattenSeq(m_tasks) \in Seq(Lines)
  BY FlattenType DEF TypeOK
<1>2. written \in Seq(Lines) /\ tmp \in Seq(Lines)
  BY DEF TypeOK
<1>3. written \o tmp \in Seq(Lines)
  BY <1>2, ConcatProperties
<1> QED
  BY <1>1, <1>3, ConcatProperties DEF Handed

LEMMA HandedByWriter ==
  TypeOK /\ HandsEmpty /\ (WriterTake \/ WriteBatch) => Handed' = Handed
<1> SUFFICES ASSUME TypeOK, HandsEmpty, WriterTake \/ WriteBatch PROVE Handed' = Handed
  OBVIOUS
<1> DEFINE rest == FlattenSeq(m_tasks')
<1>1. written \in Seq(Lines) /\ tmp \in Seq(Lines)
  BY DEF TypeOK
<1>2. m_tasks \in Seq(Seq(Lines))
  BY DEF TypeOK
<1>3. CASE WriterTake
  <2>1. tmp = <<>> /\ m_tasks # <<>>
    BY <1>3 DEF HandsEmpty, WriterTake
  <2>2. tmp' = Head(m_tasks) /\ m_tasks' = Tail(m_tasks) /\ written' = written
    BY <1>3 DEF WriterTake, disk
  <2>3. FlattenSeq(m_tasks) = Head(m_tasks) \o FlattenSeq(Tail(m_tasks))
    BY <1>2, <2>1, FlattenHead, Zenon
  <2>4. Head(m_tasks) \in Seq(Lines) /\ FlattenSeq(Tail(m_tasks)) \in Seq(Lines)
    <3> DEFINE B == Seq(Lines)
    <3>1. m_tasks \in Seq(B)
      BY <1>2
    <3> HIDE DEF B
    <3>2. Head(m_tasks) \in B /\ Tail(m_tasks) \in Seq(B)
      BY <2>1, <3>1, HeadTailProperties
    <3> USE DEF B
    <3> QED
      BY <3>2, FlattenType
  <2> DEFINE h == Head(m_tasks)
             r == FlattenSeq(Tail(m_tasks))
  <2>5. Handed' = (written \o h) \o r
    BY <2>2, Zenon DEF Handed
  <2>6. Handed = (written \o <<>>) \o (h \o r)
    BY <2>1, <2>3, Zenon DEF Handed
  <2>7. h \in Seq(Lines) /\ r \in Seq(Lines)
    BY <2>4
  <2> HIDE DEF h, r
  <2>8. written \o <<>> = written
    BY <1>1, ConcatEmptySeq
  <2>9. Assoc(Lines)
    BY Associative, Zenon
  <2>10. (written \o h) \o r = written \o (h \o r)
    BY <1>1, <2>7, <2>9 DEF Assoc
  <2> QED
    BY <2>5, <2>6, <2>8, <2>10
<1>4. CASE WriteBatch
  <2>1. written' = written \o tmp /\ tmp' = <<>> /\ m_tasks' = m_tasks
    BY <1>4 DEF WriteBatch, queue
  <2>2. Handed' = ((written \o tmp) \o <<>>) \o FlattenSeq(m_tasks)
    BY <2>1, Zenon DEF Handed
  <2>3. (written \o tmp) \o <<>> = written \o tmp
    BY <1>1, ConcatProperties, ConcatEmptySeq
  <2> QED
    BY <2>2, <2>3 DEF Handed
<1> QED
  BY <1>3, <1>4

LEMMA HandedByPush ==
  ASSUME TypeOK, HandsEmpty, NEW t \in Flushers, push(t)
  PROVE  Handed' = Handed \o batch[t]
<1>1. written \o tmp \in Seq(Lines) /\ batch[t] \in Seq(Lines)
  BY ConcatProperties DEF TypeOK
<1>2. Handed \in Seq(Lines) /\ FlattenSeq(m_tasks) \in Seq(Lines)
  BY HandedType
<1>3. written' = written /\ tmp' = tmp
  BY DEF push, disk, writer
<1>4. CASE batch[t] = <<>>
  <2>1. m_tasks' = m_tasks
    BY <1>4 DEF push
  <2>2. Handed' = Handed
    BY <1>3, <2>1, Zenon DEF Handed
  <2> QED
    BY <1>2, <1>4, <2>2, ConcatEmptySeq
<1>5. CASE batch[t] # <<>>
  <2>1. m_tasks' = Append(m_tasks, batch[t])
    BY <1>5 DEF push
  <2>2. m_tasks \in Seq(Seq(Lines))
    BY DEF TypeOK
  <2>3. FlattenSeq(Append(m_tasks, batch[t])) = FlattenSeq(m_tasks) \o batch[t]
    BY <1>1, <2>2, FlattenAppend, Zenon
  <2> DEFINE w == written \o tmp
             r == FlattenSeq(m_tasks)
             b == batch[t]
  <2>4. Handed' = w \o (r \o b) /\ Handed = w \o r
    BY <1>3, <2>1, <2>3, Zenon DEF Handed
  <2>5. w \in Seq(Lines) /\ r \in Seq(Lines) /\ b \in Seq(Lines)
    BY <1>1, <1>2
  <2>6. Assoc(Lines)
    BY Associative, Zenon
  <2> HIDE DEF w, r, b
  <2>7. (w \o r) \o b = w \o (r \o b)
    BY <2>5, <2>6 DEF Assoc
  <2>8. Handed' = Handed \o b
    BY <2>4, <2>7
  <2> QED
    BY <2>8 DEF b
<1> QED
  BY <1>4, <1>5

-----------------------------------------------------------------------------
(* No line twice, no line lost.                                            *)

LEMMA ConcatInjective ==
  ASSUME NEW S, NEW s \in Seq(S), NEW t \in Seq(S)
  PROVE  IsInjective(s \o t)
           <=> IsInjective(s) /\ IsInjective(t) /\ Range(s) \cap Range(t) = {}
<1>1. /\ DOMAIN s = 1 .. Len(s) /\ DOMAIN t = 1 .. Len(t)
      /\ Len(s) \in Nat /\ Len(t) \in Nat
      /\ DOMAIN (s \o t) = 1 .. Len(s) + Len(t)
  OBVIOUS
<1>2. \A i \in 1 .. Len(s) : i \in DOMAIN (s \o t) /\ (s \o t)[i] = s[i]
  OBVIOUS
<1>3. \A i \in 1 .. Len(t) :
        Len(s) + i \in DOMAIN (s \o t) /\ (s \o t)[Len(s) + i] = t[i]
  OBVIOUS
<1>4. \A i \in DOMAIN (s \o t) :
        i \in 1 .. Len(s) \/ \E j \in 1 .. Len(t) : i = Len(s) + j
  <2>1. ASSUME NEW i \in 1 .. Len(s) + Len(t), i \notin 1 .. Len(s)
        PROVE  i - Len(s) \in 1 .. Len(t) /\ i = Len(s) + (i - Len(s))
    BY <1>1, <2>1
  <2> QED
    BY <1>1, <2>1
<1> DEFINE c == s \o t
<1> HIDE DEF c
<1>5. ASSUME IsInjective(c)
      PROVE  IsInjective(s) /\ IsInjective(t) /\ Range(s) \cap Range(t) = {}
  <2>1. IsInjective(s)
    BY <1>1, <1>2, <1>5 DEF IsInjective, c
  <2>2. IsInjective(t)
    <3>1. ASSUME NEW i \in 1 .. Len(t), NEW j \in 1 .. Len(t), t[i] = t[j] PROVE i = j
      <4>1. Len(s) + i = Len(s) + j
        BY <1>3, <1>5, <3>1 DEF IsInjective, c
      <4> QED
        BY <1>1, <4>1
    <3> QED
      BY <1>1, <3>1 DEF IsInjective
  <2>3. ASSUME NEW i \in 1 .. Len(s), NEW j \in 1 .. Len(t), s[i] = t[j] PROVE FALSE
    <3>1. i = Len(s) + j
      BY <1>2, <1>3, <1>5, <2>3 DEF IsInjective, c
    <3> QED
      BY <1>1, <3>1
  <2> QED
    BY <1>1, <2>1, <2>2, <2>3 DEF Range
<1>6. ASSUME IsInjective(s), IsInjective(t), Range(s) \cap Range(t) = {}
      PROVE  IsInjective(c)
  <2>1. SUFFICES ASSUME NEW i \in DOMAIN c, NEW j \in DOMAIN c, c[i] = c[j] PROVE i = j
    BY DEF IsInjective
  <2>2. \A k \in 1 .. Len(s), l \in 1 .. Len(t) : s[k] # t[l]
    BY <1>1, <1>6 DEF Range
  <2>3. CASE i \in 1 .. Len(s) /\ j \in 1 .. Len(s)
    BY <1>1, <1>2, <1>6, <2>1, <2>3 DEF IsInjective, c
  <2>4. CASE i \notin 1 .. Len(s) /\ j \notin 1 .. Len(s)
    <3>1. PICK k \in 1 .. Len(t) : i = Len(s) + k
      BY <1>4, <2>4 DEF c
    <3>2. PICK l \in 1 .. Len(t) : j = Len(s) + l
      BY <1>4, <2>4 DEF c
    <3>3. t[k] = t[l]
      BY <1>3, <2>1, <3>1, <3>2 DEF c
    <3> QED
      BY <1>1, <1>6, <3>1, <3>2, <3>3 DEF IsInjective
  <2>5. CASE i \in 1 .. Len(s) /\ j \notin 1 .. Len(s)
    BY <1>2, <1>3, <1>4, <2>1, <2>2, <2>5 DEF c
  <2>6. CASE i \notin 1 .. Len(s) /\ j \in 1 .. Len(s)
    BY <1>2, <1>3, <1>4, <2>1, <2>2, <2>6 DEF c
  <2> QED
    BY <2>3, <2>4, <2>5, <2>6
<1> QED
  BY <1>5, <1>6 DEF c

LEMMA AppendInjects ==
  ASSUME NEW S, NEW s \in Seq(S), NEW x \in S
  PROVE  /\ Range(Append(s, x)) = Range(s) \cup {x}
         /\ IsInjective(s) /\ x \notin Range(s) => IsInjective(Append(s, x))
<1> DEFINE a == Append(s, x)
<1>1. /\ DOMAIN s = 1 .. Len(s) /\ Len(s) \in Nat
      /\ DOMAIN a = 1 .. Len(s) + 1 /\ a[Len(s) + 1] = x
      /\ \A i \in 1 .. Len(s) : a[i] = s[i]
  OBVIOUS
<1> HIDE DEF a
<1>2. \A i \in DOMAIN a : i \in 1 .. Len(s) \/ i = Len(s) + 1
  BY <1>1
<1>3. Range(a) = Range(s) \cup {x}
  BY <1>1, <1>2 DEF Range
<1>4. ASSUME IsInjective(s), x \notin Range(s) PROVE IsInjective(a)
  <2>1. \A i \in 1 .. Len(s) : a[i] # a[Len(s) + 1]
    BY <1>1, <1>4 DEF Range
  <2> QED
    BY <1>1, <1>2, <1>4, <2>1 DEF IsInjective
<1> QED
  BY <1>3, <1>4 DEF a

(* What EachLineOnce says of the places.                                   *)
InBatches == UNION {Range(batch[t]) : t \in Flushers}

LEMMA InitOnce == Init => EachLineOnce
<1> SUFFICES ASSUME Init PROVE EachLineOnce
  OBVIOUS
<1>1. FlattenSeq(m_tasks) = <<>>
  BY FlattenEmpty, Zenon DEF Init
<1>2. <<>> \o <<>> = <<>>
  OBVIOUS
<1>3. Shared = <<>>
  BY <1>1, <1>2, Zenon DEF Init, Shared, Handed
<1>4. Range(Shared) = {} /\ \A t \in Flushers : Range(batch[t]) = {}
  BY <1>3 DEF Init, Range
<1>5. IsInjective(Shared) /\ \A t \in Flushers : IsInjective(batch[t])
  BY <1>3 DEF Init, IsInjective
<1>6. 1 .. made = {} /\ lost = {}
  BY DEF Init
<1> QED
  BY <1>4, <1>5, <1>6 DEF EachLineOnce

LEMMA SharedType ==
  TypeOK => /\ Shared \in Seq(Lines) /\ Handed \in Seq(Lines) /\ buffer \in Seq(Lines)
            /\ Range(Shared) = Range(Handed) \cup Range(buffer)
            /\ IsInjective(Shared) <=> IsInjective(Handed) /\ IsInjective(buffer)
                                         /\ Range(Handed) \cap Range(buffer) = {}
<1> SUFFICES ASSUME TypeOK, Handed \in Seq(Lines)
    PROVE  /\ Shared \in Seq(Lines) /\ buffer \in Seq(Lines)
           /\ Range(Shared) = Range(Handed) \cup Range(buffer)
           /\ IsInjective(Shared) <=> IsInjective(Handed) /\ IsInjective(buffer)
                                        /\ Range(Handed) \cap Range(buffer) = {}
  BY HandedType
<1>1. buffer \in Seq(Lines)
  BY DEF TypeOK
<1>2. Handed \o buffer \in Seq(Lines)
  BY <1>1, ConcatProperties
<1>3. Range(Handed \o buffer) = Range(Handed) \cup Range(buffer)
  BY <1>1, RangeConcatenation, Zenon
<1>4. IsInjective(Handed \o buffer) <=> IsInjective(Handed) /\ IsInjective(buffer)
                                          /\ Range(Handed) \cap Range(buffer) = {}
  BY <1>1, ConcatInjective, Zenon
<1> QED
  BY <1>1, <1>2, <1>3, <1>4, Zenon DEF Shared

LEMMA SharedTypeNext ==
  TypeOK' => /\ Range(Shared') = Range(Handed') \cup Range(buffer')
             /\ IsInjective(Shared') <=> IsInjective(Handed') /\ IsInjective(buffer')
                                          /\ Range(Handed') \cap Range(buffer') = {}
<1> SUFFICES
      (TypeOK => /\ Range(Shared) = Range(Handed) \cup Range(buffer)
                 /\ IsInjective(Shared) <=> IsInjective(Handed) /\ IsInjective(buffer)
                                              /\ Range(Handed) \cap Range(buffer) = {})'
  OBVIOUS
<1> QED
  BY SharedType, PTL

LEMMA LogOnce == TypeOK /\ EachLineOnce /\ TypeOK' /\ pushLog => EachLineOnce'
<1> SUFFICES ASSUME TypeOK, EachLineOnce, TypeOK', pushLog PROVE EachLineOnce'
  OBVIOUS
<1> DEFINE x == made + 1
<1>1. Handed' = Handed
  BY DEF pushLog, queue, writer, disk, Handed
<1>2. /\ buffer' = Append(buffer, x) /\ made' = x /\ batch' = batch /\ lost' = lost
      /\ made \in Nat /\ x \in Lines
  BY DEF pushLog, flusher, TypeOK, Lines
<1>3. 1 .. x = 1 .. made \cup {x} /\ x \notin 1 .. made
  BY <1>2
<1> HIDE DEF x
<1>4. /\ Range(buffer') = Range(buffer) \cup {x}
      /\ IsInjective(buffer) /\ x \notin Range(buffer) => IsInjective(buffer')
  BY <1>2, SharedType, AppendInjects
<1>5. /\ Range(Shared) = Range(Handed) \cup Range(buffer)
      /\ IsInjective(Shared) <=> IsInjective(Handed) /\ IsInjective(buffer)
                                   /\ Range(Handed) \cap Range(buffer) = {}
  BY SharedType
<1>6. /\ Range(Shared') = Range(Handed') \cup Range(buffer')
      /\ IsInjective(Shared') <=> IsInjective(Handed') /\ IsInjective(buffer')
                                    /\ Range(Handed') \cap Range(buffer') = {}
  BY SharedTypeNext
<1>7. x \notin Range(Shared) /\ \A t \in Flushers : x \notin Range(batch[t])
  BY <1>3 DEF EachLineOnce
<1>8. x \notin lost
  BY <1>3 DEF EachLineOnce
<1>9. Range(Shared') = Range(Shared) \cup {x}
  BY <1>1, <1>4, <1>5, <1>6
<1>10. IsInjective(Shared')
  BY <1>1, <1>4, <1>5, <1>6, <1>7 DEF EachLineOnce
<1>11. UNION {Range(batch'[t]) : t \in Flushers} = InBatches
  BY <1>2 DEF InBatches
<1>12. /\ (Range(Shared') \cup InBatches) \cap lost' = {}
       /\ (Range(Shared') \cup InBatches) \cup lost' = 1 .. made'
  BY <1>2, <1>3, <1>8, <1>9 DEF EachLineOnce, InBatches
<1>13. \A t \in Flushers : Range(batch'[t]) \cap Range(Shared') = {}
  BY <1>2, <1>7, <1>9 DEF EachLineOnce
<1> QED
  BY <1>2, <1>10, <1>11, <1>12, <1>13 DEF EachLineOnce

LEMMA SwapOnce ==
  ASSUME TypeOK, HandsEmpty, EachLineOnce, NEW t \in Flushers, SwapBuffer(t)
  PROVE  EachLineOnce'
<1>1. batch' = [batch EXCEPT ![t] = buffer] /\ batch \in [Flushers -> Seq(Lines)]
  BY DEF SwapBuffer, TypeOK
<1>2. batch[t] = <<>> /\ Range(batch[t]) = {}
  BY DEF SwapBuffer, HandsEmpty, Range
<1>3. Shared' = Handed
  <2>1. Handed' = Handed /\ buffer' = <<>>
    BY DEF SwapBuffer, queue, writer, disk, Handed
  <2>2. Shared' = Handed \o <<>>
    BY <2>1, Zenon DEF Shared
  <2> QED
    BY <2>2, SharedType, ConcatEmptySeq
<1>4. /\ Range(Shared) = Range(Handed) \cup Range(buffer)
      /\ IsInjective(Shared) <=> IsInjective(Handed) /\ IsInjective(buffer)
                                   /\ Range(Handed) \cap Range(buffer) = {}
  BY SharedType
<1>5. \A u \in Flushers : batch'[u] = IF u = t THEN buffer ELSE batch[u]
  BY <1>1
<1>6. made' = made /\ lost' = lost
  BY DEF SwapBuffer
<1> DEFINE A(u) == Range(batch[u])
           B(u) == Range(batch'[u])
<1>7. \A u \in Flushers : B(u) = IF u = t THEN Range(buffer) ELSE A(u)
  BY <1>5
<1>8. /\ IsInjective(Handed) /\ IsInjective(buffer) /\ Range(Handed) \cap Range(buffer) = {}
      /\ \A u \in Flushers : IsInjective(batch[u])
      /\ \A u \in Flushers : A(u) \cap Range(Shared) = {}
      /\ \A u, v \in Flushers : u # v => A(u) \cap A(v) = {}
      /\ (Range(Shared) \cup InBatches) \cap lost = {}
      /\ (Range(Shared) \cup InBatches) \cup lost = 1 .. made
  BY <1>4 DEF EachLineOnce, InBatches
<1>9. A(t) = {} /\ InBatches = UNION {A(u) : u \in Flushers}
  BY <1>2 DEF InBatches
<1> HIDE DEF A, B
<1>10. (UNION {B(u) : u \in Flushers}) \cup Range(Handed) = Range(Shared) \cup InBatches
  BY <1>4, <1>7, <1>9
<1>11. \A u \in Flushers : B(u) \cap Range(Handed) = {}
  BY <1>4, <1>7, <1>8
<1>12. \A u, v \in Flushers : u # v => B(u) \cap B(v) = {}
  BY <1>4, <1>7, <1>8
<1>13. \A u \in Flushers : IsInjective(batch'[u])
  BY <1>5, <1>8
<1> QED
  BY <1>3, <1>6, <1>8, <1>10, <1>11, <1>12, <1>13 DEF EachLineOnce, B

LEMMA PushOnce ==
  ASSUME TypeOK, HandsEmpty, EachLineOnce, NEW t \in Flushers, push(t), TypeOK'
  PROVE  EachLineOnce'
<1>1. batch' = [batch EXCEPT ![t] = <<>>] /\ batch \in [Flushers -> Seq(Lines)]
  BY DEF push, TypeOK
<1>2. /\ Handed' = Handed \o batch[t] /\ batch[t] \in Seq(Lines) /\ Handed \in Seq(Lines)
      /\ buffer' = buffer
  BY <1>1, HandedByPush, SharedType DEF push, logs
<1>3. /\ Range(Handed') = Range(Handed) \cup Range(batch[t])
      /\ IsInjective(Handed') <=> IsInjective(Handed) /\ IsInjective(batch[t])
                                   /\ Range(Handed) \cap Range(batch[t]) = {}
  <2>1. Range(Handed \o batch[t]) = Range(Handed) \cup Range(batch[t])
    BY <1>2, RangeConcatenation, Zenon
  <2>2. IsInjective(Handed \o batch[t]) <=> IsInjective(Handed) /\ IsInjective(batch[t])
                                              /\ Range(Handed) \cap Range(batch[t]) = {}
    BY <1>2, ConcatInjective, Zenon
  <2> QED
    BY <1>2, <2>1, <2>2
<1>4. /\ Range(Shared) = Range(Handed) \cup Range(buffer)
      /\ IsInjective(Shared) <=> IsInjective(Handed) /\ IsInjective(buffer)
                                   /\ Range(Handed) \cap Range(buffer) = {}
  BY SharedType
<1>5. /\ Range(Shared') = Range(Handed') \cup Range(buffer')
      /\ IsInjective(Shared') <=> IsInjective(Handed') /\ IsInjective(buffer')
                                    /\ Range(Handed') \cap Range(buffer') = {}
  BY SharedTypeNext
<1>6. \A u \in Flushers : batch'[u] = IF u = t THEN <<>> ELSE batch[u]
  BY <1>1
<1>7. made' = made /\ lost' = lost
  BY DEF push, logs
<1> DEFINE A(u) == Range(batch[u])
           B(u) == Range(batch'[u])
<1>8. \A u \in Flushers : B(u) = IF u = t THEN {} ELSE A(u)
  BY <1>6 DEF Range
<1>9. /\ IsInjective(Shared)
      /\ \A u \in Flushers : IsInjective(batch[u])
      /\ \A u \in Flushers : A(u) \cap Range(Shared) = {}
      /\ \A u, v \in Flushers : u # v => A(u) \cap A(v) = {}
      /\ (Range(Shared) \cup InBatches) \cap lost = {}
      /\ (Range(Shared) \cup InBatches) \cup lost = 1 .. made
  BY DEF EachLineOnce, InBatches
<1>10. InBatches = UNION {A(u) : u \in Flushers} /\ Range(batch[t]) = A(t)
  BY DEF InBatches
<1> HIDE DEF A, B
<1>11. Range(Shared') = Range(Shared) \cup A(t)
  BY <1>2, <1>3, <1>4, <1>5, <1>10
<1>12. IsInjective(Shared')
  BY <1>2, <1>3, <1>4, <1>5, <1>9, <1>10
<1>13. (UNION {B(u) : u \in Flushers}) \cup Range(Shared') = Range(Shared) \cup InBatches
  BY <1>8, <1>10, <1>11
<1>14. \A u \in Flushers : B(u) \cap Range(Shared') = {}
  BY <1>8, <1>9, <1>11
<1>15. \A u, v \in Flushers : u # v => B(u) \cap B(v) = {}
  BY <1>8, <1>9
<1>16. \A u \in Flushers : IsInjective(batch'[u])
  BY <1>6, <1>9 DEF IsInjective
<1> QED
  BY <1>7, <1>9, <1>12, <1>13, <1>14, <1>15, <1>16 DEF EachLineOnce, B

(* When the process goes down what was written stays and the rest is lost. *)
LEMMA DownOnce ==
  TypeOK /\ EachLineOnce /\ GoDown /\ written' = written /\ made' = made => EachLineOnce'
<1> SUFFICES ASSUME TypeOK, EachLineOnce, GoDown, written' = written, made' = made
             PROVE  EachLineOnce'
  OBVIOUS
<1> DEFINE F == FlattenSeq(m_tasks)
<1>1. /\ written \in Seq(Lines) /\ tmp \in Seq(Lines) /\ F \in Seq(Lines)
      /\ written \o tmp \in Seq(Lines)
  BY HandedType, ConcatProperties DEF TypeOK
<1>2. Shared' = written
  <2>1. Shared' = ((written \o <<>>) \o FlattenSeq(<<>>)) \o <<>>
    BY Zenon DEF Shared, Handed, GoDown
  <2>2. written \o <<>> = written
    BY <1>1, ConcatEmptySeq
  <2> QED
    BY <2>1, <2>2, FlattenEmpty
<1>3. /\ Range(Handed) = Range(written) \cup Range(tmp) \cup Range(F)
      /\ IsInjective(Handed) => /\ IsInjective(written)
                                /\ Range(written) \cap (Range(tmp) \cup Range(F)) = {}
  <2>1. /\ Range(written \o tmp) = Range(written) \cup Range(tmp)
        /\ Range((written \o tmp) \o F) = Range(written \o tmp) \cup Range(F)
    BY <1>1, RangeConcatenation, ZenonT(40)
  <2>2. /\ IsInjective(written \o tmp)
              => IsInjective(written) /\ Range(written) \cap Range(tmp) = {}
        /\ IsInjective((written \o tmp) \o F)
              => IsInjective(written \o tmp) /\ Range(written \o tmp) \cap Range(F) = {}
    BY <1>1, ConcatInjective, Zenon
  <2> QED
    BY <2>1, <2>2 DEF Handed
<1>4. /\ Range(Shared) = Range(Handed) \cup Range(buffer)
      /\ IsInjective(Shared) => IsInjective(Handed) /\ Range(Handed) \cap Range(buffer) = {}
  BY SharedType
<1>5. /\ IsInjective(Shared)
      /\ Range(Shared) \cap InBatches = {}
      /\ (Range(Shared) \cup InBatches) \cap lost = {}
      /\ (Range(Shared) \cup InBatches) \cup lost = 1 .. made
  BY DEF EachLineOnce, InBatches
<1>6. Volatile = Range(buffer) \cup Range(F) \cup Range(tmp) \cup InBatches
  BY DEF Volatile, InBatches
<1>7. lost' = lost \cup Volatile /\ \A t \in Flushers : batch'[t] = <<>>
  BY DEF GoDown
<1>8. \A t \in Flushers : Range(batch'[t]) = {} /\ IsInjective(batch'[t])
  BY <1>7 DEF Range, IsInjective
<1>9. IsInjective(written) /\ Range(written) \cap lost' = {}
  BY <1>3, <1>4, <1>5, <1>6, <1>7
<1>10. Range(written) \cup lost' = 1 .. made
  BY <1>3, <1>4, <1>5, <1>6, <1>7
<1>11. UNION {Range(batch'[t]) : t \in Flushers} = {}
  BY <1>8
<1>12. IsInjective(Shared') /\ Range(Shared') = Range(written) /\ made' = made
  BY <1>2, <1>9
<1>13. /\ (Range(Shared') \cup UNION {Range(batch'[t]) : t \in Flushers}) \cap lost' = {}
       /\ (Range(Shared') \cup UNION {Range(batch'[t]) : t \in Flushers}) \cup lost' = 1 .. made'
  BY <1>9, <1>10, <1>11, <1>12
<1> QED
  BY <1>8, <1>12, <1>13 DEF EachLineOnce

LEMMA KeepOnce ==
  EachLineOnce /\ Handed' = Handed /\ UNCHANGED <<buffer, batch, made, lost>> => EachLineOnce'
BY DEF EachLineOnce, Shared

(* Steps that move no line, or one from the writer's hand to the file.     *)
LEMMA QuietSteps ==
  ASSUME TypeOK, HandsEmpty, [Next]_vars
  PROVE  \/ pushLog
         \/ \E t \in Flushers : SwapBuffer(t) \/ push(t)
         \/ GoDown /\ written' = written /\ made' = made
         \/ Handed' = Handed /\ UNCHANGED <<buffer, batch, made, lost>>
<1> USE DEF logs, queue, flusher, writer, disk
<1> DEFINE Still == Handed' = Handed /\ UNCHANGED <<buffer, batch, made, lost>>
<1>1. UNCHANGED <<written, tmp, m_tasks>> => Handed' = Handed
  BY DEF Handed
<1>2. ASSUME NEW t \in Flushers, pushSignal(t) \/ stop(t) \/ stopSignal(t) PROVE Still
  BY <1>1, <1>2 DEF pushSignal, stop, stopSignal
<1>3. CASE WriterCheck \/ WriterWait \/ SpuriousWakeup \/ Midnight \/ Start \/ UNCHANGED vars
  BY <1>1, <1>3 DEF WriterCheck, WriterWait, SpuriousWakeup, Midnight, Start, vars
<1>4. CASE WriterTake \/ WriteBatch
  BY <1>4, HandedByWriter DEF WriterTake, WriteBatch
<1>5. CASE WriterTakesNothing
  BY <1>1, <1>5 DEF WriterTakesNothing
<1>6. CASE Kill
  BY <1>6 DEF Kill
<1>7. ASSUME NEW t \in Flushers, Exit(t) PROVE GoDown /\ written' = written /\ made' = made
  BY <1>7 DEF Exit
<1> QED
  BY <1>2, <1>3, <1>4, <1>5, <1>6, <1>7 DEF Next, FlusherSteps, WriterSteps

LEMMA NextOnce ==
  TypeOK /\ TypeOK' /\ HandsEmpty /\ EachLineOnce /\ [Next]_vars => EachLineOnce'
BY QuietSteps, LogOnce, SwapOnce, PushOnce, DownOnce, KeepOnce

-----------------------------------------------------------------------------
(* The lines on their way stay in order.                                   *)

LEMMA GrowingAppend ==
  ASSUME NEW s \in Seq(Nat), NEW n \in Nat, Growing(s, n)
  PROVE  Growing(Append(s, n + 1), n + 1)
<1> DEFINE a == Append(s, n + 1)
<1>1. /\ DOMAIN s = 1 .. Len(s) /\ Len(s) \in Nat
      /\ DOMAIN a = 1 .. Len(s) + 1 /\ a[Len(s) + 1] = n + 1
      /\ \A i \in 1 .. Len(s) : a[i] = s[i] /\ s[i] \in Nat
  OBVIOUS
<1> HIDE DEF a
<1>2. \A i \in DOMAIN a : i \in 1 .. Len(s) \/ i = Len(s) + 1
  BY <1>1
<1>3. \A i \in 1 .. Len(s) : a[i] <= n
  BY <1>1 DEF Growing
<1>4. \A i, j \in 1 .. Len(s) : i < j => a[i] < a[j]
  BY <1>1 DEF Growing
<1>5. ASSUME NEW i \in DOMAIN a, NEW j \in DOMAIN a, i < j PROVE a[i] < a[j]
  <2>1. i \in 1 .. Len(s) /\ a[i] <= n /\ a[i] \in Nat
    BY <1>1, <1>3, <1>5
  <2> QED
    BY <1>1, <1>2, <1>4, <1>5, <2>1
<1>6. ASSUME NEW i \in DOMAIN a PROVE a[i] <= n + 1
  BY <1>1, <1>2, <1>3
<1> QED
  BY <1>5, <1>6 DEF Growing, a

LEMMA GrowingPrefix ==
  ASSUME NEW s \in Seq(Nat), NEW t \in Seq(Nat), NEW n \in Nat, Growing(s \o t, n)
  PROVE  Growing(s, n)
<1> DEFINE c == s \o t
<1>1. /\ DOMAIN s = 1 .. Len(s) /\ Len(s) \in Nat
      /\ \A i \in 1 .. Len(s) : i \in DOMAIN c /\ c[i] = s[i]
  OBVIOUS
<1> HIDE DEF c
<1>2. Growing(c, n)
  BY DEF c
<1> QED
  BY <1>1, <1>2 DEF Growing

LEMMA ConcatAppend ==
  ASSUME NEW S, NEW s \in Seq(S), NEW t \in Seq(S), NEW x \in S
  PROVE  s \o Append(t, x) = Append(s \o t, x)
<1>1. Append(t, x) = t \o <<x>> /\ <<x>> \in Seq(S)
  BY AppendIsConcat
<1>2. s \o t \in Seq(S)
  BY ConcatProperties
<1>3. Append(s \o t, x) = (s \o t) \o <<x>>
  BY <1>2, AppendIsConcat
<1>4. Assoc(S)
  BY Associative, Zenon
<1>5. (s \o t) \o <<x>> = s \o (t \o <<x>>)
  BY <1>1, <1>4, Zenon DEF Assoc
<1> QED
  BY <1>1, <1>3, <1>5

LEMMA WayType ==
  ASSUME TypeOK, NEW t \in Flushers
  PROVE  /\ OnTheWay(t) \in Seq(Lines) /\ Handed \in Seq(Lines)
         /\ batch[t] \in Seq(Lines) /\ buffer \in Seq(Lines)
         /\ Handed \o batch[t] \in Seq(Lines)
<1>1. Handed \in Seq(Lines) /\ batch[t] \in Seq(Lines) /\ buffer \in Seq(Lines)
  BY HandedType DEF TypeOK
<1>2. Handed \o batch[t] \in Seq(Lines)
  BY <1>1, ConcatProperties
<1> QED
  BY <1>1, <1>2, ConcatProperties DEF OnTheWay

LEMMA LinesAreNumbers == Seq(Lines) \subseteq Seq(Nat)
<1>1. Lines \subseteq Nat
  BY DEF Lines
<1>2. ASSUME NEW s \in Seq(Lines) PROVE s \in Seq(Nat)
  BY <1>1, SeqMonotonic
<1> QED
  BY <1>2

LEMMA InitWay == Init => WayInv
<1> SUFFICES ASSUME Init, NEW t \in Flushers PROVE OnTheWay(t) = <<>>
  BY DEF WayInv, Growing
<1>1. FlattenSeq(m_tasks) = <<>>
  BY FlattenEmpty, Zenon DEF Init
<1>2. <<>> \o <<>> = <<>>
  OBVIOUS
<1>3. Handed = <<>> /\ buffer = <<>> /\ batch[t] = <<>>
  BY <1>1, <1>2 DEF Init, Handed
<1> QED
  BY <1>2, <1>3 DEF OnTheWay

LEMMA NextWay == TypeOK /\ TypeOK' /\ HandsEmpty /\ WayInv /\ [Next]_vars => WayInv'
<1> SUFFICES ASSUME TypeOK, TypeOK', HandsEmpty, WayInv, [Next]_vars,
                    NEW t \in Flushers, active' = {t}
             PROVE  Growing(OnTheWay(t)', made')
  BY DEF WayInv
<1>1. active = {t}
  BY DEF Next, vars
<1>2. Growing(OnTheWay(t), made) /\ made \in Nat
  BY <1>1 DEF WayInv, TypeOK, Lines
<1> DEFINE H == Handed
           b == batch[t]
<1>3. /\ H \in Seq(Lines) /\ b \in Seq(Lines) /\ buffer \in Seq(Lines)
      /\ H \o b \in Seq(Lines) /\ OnTheWay(t) \in Seq(Lines)
  BY WayType
<1>4. OnTheWay(t) \in Seq(Nat)
  BY <1>3, LinesAreNumbers
<1>5. CASE pushLog
  <2>1. Handed' = H /\ batch' = batch /\ buffer' = Append(buffer, made + 1) /\ made' = made + 1
    BY <1>5 DEF pushLog, queue, writer, disk, flusher, Handed
  <2>2. made + 1 \in Lines
    BY <1>2, <2>1 DEF TypeOK
  <2>3. OnTheWay(t)' = (H \o b) \o Append(buffer, made + 1)
    BY <2>1 DEF OnTheWay
  <2>4. OnTheWay(t)' = Append(OnTheWay(t), made + 1)
    <3> DEFINE s == H \o b
               x == made + 1
    <3>1. s \in Seq(Lines) /\ x \in Lines
      BY <1>3, <2>2
    <3> HIDE DEF s, x
    <3>2. s \o Append(buffer, x) = Append(s \o buffer, x)
      BY <1>3, <3>1, ConcatAppend
    <3> QED
      BY <2>3, <3>2 DEF OnTheWay, s, x
  <2> QED
    BY <1>2, <1>4, <2>1, <2>4, GrowingAppend
<1>6. ASSUME NEW u \in Flushers, SwapBuffer(u) PROVE OnTheWay(t)' = OnTheWay(t) /\ made' = made
  <2>1. u = t /\ batch[t] = <<>>
    BY <1>1, <1>6 DEF SwapBuffer, HandsEmpty
  <2>2. Handed' = H /\ batch'[t] = buffer /\ buffer' = <<>> /\ made' = made
    BY <1>6, <2>1 DEF SwapBuffer, queue, writer, disk, Handed, TypeOK
  <2>3. OnTheWay(t)' = (H \o buffer) \o <<>> /\ OnTheWay(t) = (H \o <<>>) \o buffer
    BY <2>1, <2>2 DEF OnTheWay
  <2>4. (H \o buffer) \o <<>> = H \o buffer /\ H \o <<>> = H
    <3>1. H \o buffer \in Seq(Lines)
      BY <1>3, ConcatProperties
    <3> QED
      BY <1>3, <3>1, ConcatEmptySeq
  <2> QED
    BY <2>2, <2>3, <2>4
<1>7. ASSUME NEW u \in Flushers, push(u) PROVE OnTheWay(t)' = OnTheWay(t) /\ made' = made
  <2>1. u = t
    BY <1>1, <1>7 DEF push, HandsEmpty
  <2>2. Handed' = H \o b
    BY <1>7, <2>1, HandedByPush
  <2>3. batch'[t] = <<>> /\ buffer' = buffer /\ made' = made
    BY <1>7, <2>1 DEF push, logs, TypeOK
  <2>4. OnTheWay(t)' = ((H \o b) \o <<>>) \o buffer
    BY <2>2, <2>3 DEF OnTheWay
  <2>5. (H \o b) \o <<>> = H \o b
    BY <1>3, ConcatEmptySeq
  <2> QED
    BY <2>3, <2>4, <2>5 DEF OnTheWay
<1>8. ASSUME GoDown, written' = written, made' = made PROVE Growing(OnTheWay(t)', made')
  <2> DEFINE W == written \o tmp
             F == FlattenSeq(m_tasks)
  <2>1. written \in Seq(Nat) /\ tmp \in Seq(Nat) /\ F \in Seq(Nat) /\ b \in Seq(Nat)
          /\ buffer \in Seq(Nat)
    <3>1. written \in Seq(Lines) /\ tmp \in Seq(Lines) /\ F \in Seq(Lines)
      BY HandedType DEF TypeOK
    <3> QED
      BY <1>3, <3>1, LinesAreNumbers, Zenon
  <2>2. W \in Seq(Nat) /\ W \o F \in Seq(Nat) /\ (W \o F) \o b \in Seq(Nat)
    <3>1. W \in Seq(Nat)
      BY <2>1, ConcatProperties
    <3> HIDE DEF W, F, b
    <3>2. W \o F \in Seq(Nat)
      BY <2>1, <3>1, ConcatProperties
    <3> QED
      BY <2>1, <3>1, <3>2, ConcatProperties
  <2>3. OnTheWay(t) = ((W \o F) \o b) \o buffer
    BY DEF OnTheWay, Handed
  <2>4. Growing((W \o F) \o b, made)
    BY <1>2, <2>1, <2>2, <2>3, GrowingPrefix, Zenon
  <2>5. Growing(W \o F, made)
    BY <1>2, <2>1, <2>2, <2>4, GrowingPrefix, Zenon
  <2>6. Growing(W, made)
    BY <1>2, <2>1, <2>2, <2>5, GrowingPrefix, Zenon
  <2>7. Growing(written, made)
    BY <1>2, <2>1, <2>6, GrowingPrefix, Zenon
  <2>8. OnTheWay(t)' = (((written \o <<>>) \o FlattenSeq(<<>>)) \o <<>>) \o <<>>
    BY <1>8 DEF OnTheWay, Handed, GoDown
  <2>9. written \o <<>> = written
    BY <2>1, ConcatEmptySeq
  <2>10. OnTheWay(t)' = written
    BY <2>8, <2>9, FlattenEmpty
  <2> QED
    BY <1>8, <2>7, <2>10
<1>9. ASSUME Handed' = Handed, UNCHANGED <<buffer, batch, made, lost>>
      PROVE  OnTheWay(t)' = OnTheWay(t) /\ made' = made
  BY <1>9 DEF OnTheWay
<1> QED
  BY <1>2, <1>5, <1>6, <1>7, <1>8, <1>9, QuietSteps

-----------------------------------------------------------------------------
(* The files hold what was written.                                        *)

LEMMA FunctionIsSeq ==
  ASSUME NEW B, NEW n \in Nat, NEW f \in [1 .. n -> B]
  PROVE  f \in Seq(B) /\ Len(f) = n
OBVIOUS

(* The files of a day, and those of all days.                              *)
Day(fs, d) == [n \in 1 .. MaxNo + 1 |-> fs[<<d, n - 1>>]]
Days(fs)   == [d \in 1 .. MaxDate |-> FlattenSeq(Day(fs, d))]

LEMMA FilesAreDays == FilesReadInOrder <=> (starts = 1 => FlattenSeq(Days(files)) = written)
BY DEF FilesReadInOrder, OfDay, Day, Days

LEMMA DayType ==
  ASSUME LoggerAssumption, TypeOK, NEW d \in 1 .. MaxDate
  PROVE  /\ Day(files, d) \in Seq(Seq(Lines)) /\ Len(Day(files, d)) = MaxNo + 1
         /\ FlattenSeq(Day(files, d)) \in Seq(Lines)
<1>1. MaxNo + 1 \in Nat
  BY Bounds
<1>2. \A n \in 1 .. MaxNo + 1 : <<d, n - 1>> \in Files
  BY Bounds DEF Files
<1>3. files \in [Files -> Seq(Lines)]
  BY DEF TypeOK
<1> DEFINE B == Seq(Lines)
<1> HIDE DEF B
<1>4. Day(files, d) \in [1 .. MaxNo + 1 -> B]
  BY <1>2, <1>3 DEF Day, B
<1>5. Day(files, d) \in Seq(B) /\ Len(Day(files, d)) = MaxNo + 1
  BY <1>1, <1>4, FunctionIsSeq, Zenon
<1> QED
  BY <1>5, FlattenType, Zenon DEF B

LEMMA DaysType ==
  ASSUME LoggerAssumption, TypeOK
  PROVE  Days(files) \in Seq(Seq(Lines)) /\ Len(Days(files)) = MaxDate
<1> DEFINE B == Seq(Lines)
<1>1. \A d \in 1 .. MaxDate : FlattenSeq(Day(files, d)) \in B
  BY DayType
<1>2. MaxDate \in Nat
  BY Bounds
<1> HIDE DEF B
<1>3. Days(files) \in [1 .. MaxDate -> B]
  BY <1>1 DEF Days
<1> QED
  BY <1>2, <1>3, FunctionIsSeq, Zenon DEF B

LEMMA InitFiles == LoggerAssumption /\ Init => LaterFilesEmpty /\ FilesReadInOrder
<1> SUFFICES ASSUME LoggerAssumption, Init PROVE LaterFilesEmpty /\ FilesReadInOrder
  OBVIOUS
<1>0. TypeOK
  BY InitType
<1>1. LaterFilesEmpty
  BY DEF Init, LaterFilesEmpty
<1>2. ASSUME NEW d \in 1 .. MaxDate PROVE FlattenSeq(Day(files, d)) = <<>>
  <2> DEFINE D == Day(files, d)
  <2>1. Len(D) = MaxNo + 1 /\ MaxNo + 1 \in Nat \ {0}
    BY <1>0, DayType, Bounds
  <2>2. \A n \in 1 .. MaxNo + 1 : D[n] = <<>>
    BY Bounds DEF Init, Day, Files
  <2> HIDE DEF D
  <2>3. FlattenSeq(D) = <<>>
    BY <2>1, <2>2, FlattenEmpties
  <2> QED
    BY <2>3 DEF D
<1>3. FlattenSeq(Days(files)) = <<>>
  <2> DEFINE D == Days(files)
  <2>1. Len(D) \in Nat \ {0} /\ Len(D) = MaxDate
    BY <1>0, DaysType, Bounds
  <2>2. \A d \in 1 .. MaxDate : D[d] = <<>>
    BY <1>2 DEF Days
  <2> HIDE DEF D
  <2>3. FlattenSeq(D) = <<>>
    BY <2>1, <2>2, FlattenEmpties
  <2> QED
    BY <2>3 DEF D
<1> QED
  BY <1>1, <1>3, FilesAreDays DEF Init

LEMMA WriteFiles ==
  ASSUME LoggerAssumption, TypeOK, LaterFilesEmpty, FilesReadInOrder, WriteBatch
  PROVE  LaterFilesEmpty' /\ FilesReadInOrder'
<1> SUFFICES ASSUME starts = 1
             PROVE  LaterFilesEmpty' /\ FlattenSeq(Days(files')) = written'
  <2>1. starts' = starts
    BY DEF WriteBatch
  <2>2. FilesReadInOrder' <=> (starts' = 1 => FlattenSeq(Days(files')) = written')
    BY DEF FilesReadInOrder, OfDay, Day, Days
  <2> QED
    BY <2>1, <2>2 DEF LaterFilesEmpty
<1> DEFINE k == NextNumber
           f == <<today, k>>
<1>1. /\ k \in 0 .. MaxNo /\ f \in Files /\ m_date' = today /\ m_no' = k /\ today' = today
      /\ files' = [files EXCEPT ![f] = @ \o tmp] /\ written' = written \o tmp
      /\ starts' = starts
  BY SMTT(30) DEF WriteBatch, NextNumber, NumberToday, TypeOK, LoggerAssumption, Files
<1>2. /\ m_date <= today /\ m_date \in Nat /\ today \in 1 .. MaxDate /\ m_no \in Nat
      /\ m_date = today => m_no <= k
  BY DEF LaterFilesEmpty, TypeOK, NextNumber, NumberToday
<1>3. files \in [Files -> Seq(Lines)] /\ tmp \in Seq(Lines)
  BY DEF TypeOK
<1> HIDE DEF k
<1>4. \A g \in Files : files'[g] = IF g = f THEN files[f] \o tmp ELSE files[g]
  BY <1>1, <1>3
<1>5. \A g \in Files : g[1] > today \/ (g[1] = today /\ g[2] > k) => files[g] = <<>> /\ g # f
  BY <1>1, <1>2 DEF LaterFilesEmpty, Files
<1>6. LaterFilesEmpty'
  <2>1. ASSUME NEW g \in Files, g[1] > today \/ (g[1] = today /\ g[2] > k)
        PROVE  files'[g] = <<>>
    BY <1>4, <1>5, <2>1
  <2>2. m_date' = today /\ today' = today /\ m_no' = k /\ today <= today
    BY <1>1, <1>2
  <2> QED
    BY <2>1, <2>2 DEF LaterFilesEmpty
<1>7. FlattenSeq(Day(files', today)) = FlattenSeq(Day(files, today)) \o tmp
  <2> DEFINE s == Day(files, today)
             t == Day(files', today)
             n == k + 1
  <2>1. s \in Seq(Seq(Lines)) /\ Len(s) = MaxNo + 1
    BY <1>2, DayType
  <2>2. Len(t) = MaxNo + 1
    <3>1. MaxNo + 1 \in Nat
      BY Bounds
    <3>2. t = [i \in 1 .. MaxNo + 1 |-> t[i]]
      BY DEF Day
    <3> HIDE DEF t
    <3>3. t \in [1 .. MaxNo + 1 -> {t[i] : i \in 1 .. MaxNo + 1}]
      BY <3>2
    <3> QED
      BY <3>1, <3>3, FunctionIsSeq, Zenon
  <2>3. n \in 1 .. MaxNo + 1 /\ n - 1 = k
    BY <1>1, Bounds
  <2>4. \A i \in 1 .. MaxNo + 1 : /\ s[i] = files[<<today, i - 1>>]
                                   /\ t[i] = files'[<<today, i - 1>>]
                                   /\ <<today, i - 1>> \in Files
    BY <1>2, Bounds DEF Day, Files
  <2>5. t[n] = s[n] \o tmp
    BY <1>1, <1>4, <2>3, <2>4
  <2>6. ASSUME NEW i \in 1 .. MaxNo + 1 PROVE (i # n => t[i] = s[i]) /\ (i > n => s[i] = <<>>)
    <3>1. i # n => <<today, i - 1>> # f
      BY <1>1, Bounds
    <3>2. i > n => i - 1 > k
      BY <1>1, Bounds
    <3> QED
      BY <1>4, <1>5, <2>4, <3>1, <3>2
  <2> HIDE DEF s, t, n
  <2>7. ExtendsAt(s, t, n, tmp)
    BY <2>1, <2>2, <2>3, <2>5, <2>6 DEF ExtendsAt
  <2>8. FlattenSeq(t) = FlattenSeq(s) \o tmp
    BY <1>3, <2>1, <2>7, FlattenExtend, ZenonT(40)
  <2> QED
    BY <2>8 DEF s, t
<1>8. ASSUME NEW d \in 1 .. MaxDate, d # today PROVE Day(files', d) = Day(files, d)
  <2>1. \A n \in 1 .. MaxNo + 1 : <<d, n - 1>> \in Files /\ <<d, n - 1>> # f
    BY <1>8, Bounds DEF Files
  <2> QED
    BY <1>4, <2>1 DEF Day
<1>9. ASSUME NEW d \in 1 .. MaxDate, d > today PROVE FlattenSeq(Day(files, d)) = <<>>
  <2> DEFINE s == Day(files, d)
  <2>1. Len(s) = MaxNo + 1 /\ MaxNo + 1 \in Nat \ {0}
    BY DayType, Bounds
  <2>2. \A n \in 1 .. MaxNo + 1 : <<d, n - 1>> \in Files /\ s[n] = files[<<d, n - 1>>]
    BY Bounds DEF Day, Files
  <2>3. \A n \in 1 .. MaxNo + 1 : s[n] = <<>>
    BY <1>5, <1>9, <2>2
  <2> HIDE DEF s
  <2>4. FlattenSeq(s) = <<>>
    BY <2>1, <2>3, FlattenEmpties
  <2> QED
    BY <2>4 DEF s
<1>10. FlattenSeq(Days(files')) = FlattenSeq(Days(files)) \o tmp
  <2> DEFINE s == Days(files)
             t == Days(files')
  <2>1. s \in Seq(Seq(Lines)) /\ Len(s) = MaxDate
    BY DaysType
  <2>2. Len(t) = MaxDate
    <3>1. MaxDate \in Nat /\ t \in [1 .. MaxDate -> {t[i] : i \in 1 .. MaxDate}]
      BY Bounds DEF Days
    <3> HIDE DEF t
    <3> QED
      BY <3>1, FunctionIsSeq, Zenon
  <2>3. \A d \in 1 .. MaxDate : /\ s[d] = FlattenSeq(Day(files, d))
                                 /\ t[d] = FlattenSeq(Day(files', d))
    BY DEF Days
  <2>4. t[today] = s[today] \o tmp
    BY <1>2, <1>7, <2>3
  <2>5. \A d \in 1 .. MaxDate : (d # today => t[d] = s[d]) /\ (d > today => s[d] = <<>>)
    BY <1>8, <1>9, <2>3
  <2> HIDE DEF s, t
  <2>6. ExtendsAt(s, t, today, tmp)
    BY <1>2, <2>1, <2>2, <2>4, <2>5 DEF ExtendsAt
  <2>7. FlattenSeq(t) = FlattenSeq(s) \o tmp
    BY <1>3, <2>1, <2>6, FlattenExtend, ZenonT(40)
  <2> QED
    BY <2>7 DEF s, t
<1> QED
  BY <1>1, <1>6, <1>10, FilesAreDays

LEMMA NextFiles ==
  LoggerAssumption /\ TypeOK /\ LaterFilesEmpty /\ FilesReadInOrder /\ [Next]_vars
    => LaterFilesEmpty' /\ FilesReadInOrder'
<1> SUFFICES ASSUME LoggerAssumption, TypeOK, LaterFilesEmpty, FilesReadInOrder, [Next]_vars
             PROVE  LaterFilesEmpty' /\ FilesReadInOrder'
  OBVIOUS
<1> USE DEF logs, queue, flusher, writer, disk
<1> DEFINE Kept == /\ UNCHANGED <<files, written, m_date, m_no, starts>>
                   /\ today' = today \/ today' = today + 1
<1>1. ASSUME NEW t \in Flushers, SwapBuffer(t) \/ push(t) \/ pushSignal(t) PROVE Kept
  BY <1>1 DEF SwapBuffer, push, pushSignal
<1>2. ASSUME NEW t \in Flushers, stop(t) \/ stopSignal(t) \/ Exit(t) PROVE Kept
  BY <1>2 DEF stop, stopSignal, Exit
<1>3. ASSUME \/ pushLog \/ WriterCheck \/ WriterWait \/ SpuriousWakeup
             \/ WriterTake \/ WriterTakesNothing \/ Midnight \/ Kill \/ UNCHANGED vars
      PROVE  Kept
  <2>1. CASE pushLog \/ WriterCheck \/ WriterWait \/ SpuriousWakeup \/ WriterTake
    BY <2>1 DEF pushLog, WriterCheck, WriterWait, SpuriousWakeup, WriterTake
  <2>2. CASE WriterTakesNothing \/ Midnight \/ Kill \/ UNCHANGED vars
    BY <2>2 DEF WriterTakesNothing, Midnight, Kill, vars
  <2> QED
    BY <1>3, <2>1, <2>2
<1>4. CASE Start
  <2>1. starts' # 1
    BY <1>4 DEF Start, TypeOK
  <2> QED
    BY <2>1 DEF LaterFilesEmpty, FilesReadInOrder
<1>5. CASE WriteBatch
  BY <1>5, WriteFiles
<1>6. ASSUME Kept PROVE LaterFilesEmpty' /\ FilesReadInOrder'
  <2>1. m_date <= today => m_date <= today'
    BY <1>6 DEF TypeOK
  <2>2. LaterFilesEmpty'
    BY <1>6, <2>1 DEF LaterFilesEmpty
  <2>3. FilesReadInOrder'
    BY <1>6 DEF FilesReadInOrder, OfDay
  <2> QED
    BY <2>2, <2>3
<1> QED
  BY <1>1, <1>2, <1>3, <1>4, <1>5, <1>6 DEF Next, FlusherSteps, WriterSteps

-----------------------------------------------------------------------------
LEMMA Invariance == Spec => []IInv
<1>1. LoggerAssumption /\ Init => IInv
  BY InitType, InitHands, InitOnce, InitWay, InitFiles DEF IInv
<1>2. LoggerAssumption /\ IInv /\ [Next]_vars => IInv'
  BY NextType, NextHands, NextOnce, NextWay, NextFiles DEF IInv
<1> QED
  BY <1>1, <1>2, LoggerAssumption, PTL DEF Spec

(* Every variable keeps its type.                                          *)
THEOREM TypeCorrect == Spec => []TypeOK
BY Invariance, PTL DEF IInv

(* EachLineOnce: no line is twice in the files and on its way, and one     *)
(* that is in neither went down with a process, for any threads in         *)
(* loopFunc, any lines, days and files, and any number of restarts.        *)
THEOREM LinesOnce == Spec => []EachLineOnce
BY Invariance, PTL DEF IInv

(* LinesInOrder: with one thread in loopFunc the lines are in the order    *)
(* they were logged, and the files of the first run hold them, day by day  *)
(* and number by number, in the order they were written.                   *)
THEOREM LinesOrdered == Spec => []LinesInOrder
<1>1. IInv => LinesInOrder
  BY DEF IInv, LinesInOrder, WayInv, Growing, WrittenAsLogged
<1> QED
  BY <1>1, Invariance, PTL

(* The first n steps from x, the i-th by h[i].                          *)
Iteration(f, x, h, n) ==
  f = [i \in 0 .. n |-> IF i = 0 THEN x ELSE h[i][f[i - 1]]]

(* A function that takes n steps from x exists.                            *)
LEMMA IterationExists ==
  ASSUME NEW x, NEW h, NEW n \in Nat
  PROVE  \E f : Iteration(f, x, h, n)
<1> DEFINE Bad == {k \in Nat : ~ \E f : Iteration(f, x, h, k)}
<1>1. SUFFICES ASSUME Bad # {} PROVE FALSE
  OBVIOUS
<1>2. PICK m \in Bad : \A k \in Bad : m <= k
  <2>1. Bad \in SUBSET Nat
    OBVIOUS
  <2> HIDE DEF Bad
  <2> QED
    BY <1>1, <2>1, LeastNatural
<1>3. m # 0
  <2>1. Iteration([i \in 0 .. 0 |-> x], x, h, 0)
    BY DEF Iteration
  <2> QED
    BY <2>1
<1>4. PICK f : Iteration(f, x, h, m - 1)
  BY <1>2, <1>3
<1> DEFINE g == [i \in 0 .. m |-> IF i < m THEN f[i] ELSE h[i][f[i - 1]]]
<1>5. Iteration(g, x, h, m)
  <2>1. \A i \in 0 .. m - 1 : f[i] = IF i = 0 THEN x ELSE h[i][f[i - 1]]
    BY <1>4 DEF Iteration
  <2>2. ASSUME NEW i \in 0 .. m
        PROVE  g[i] = IF i = 0 THEN x ELSE h[i][g[i - 1]]
    <3>1. i # 0 => i - 1 \in 0 .. m /\ i - 1 < m
      OBVIOUS
    <3>4. i # 0 => g[i - 1] = f[i - 1]
      <4> DEFINE j == i - 1
      <4>1. j \in 0 .. m /\ j < m => g[j] = f[j]
        OBVIOUS
      <4> HIDE DEF g
      <4> QED
        BY <3>1, <4>1, Zenon
    <3>2. CASE i < m
      BY <2>1, <3>4, <3>2
    <3>3. CASE i = m
      BY <1>3, <3>4, <3>3
    <3> QED
      BY <3>2, <3>3
  <2>3. g = [i \in 0 .. m |-> g[i]]
    OBVIOUS
  <2> HIDE DEF g
  <2> QED
    BY <2>2, <2>3, Zenon DEF Iteration
<1> QED
  BY <1>5

(* What steps from x by h is in S as long as the steps are.                *)
LEMMA StepsStay ==
  ASSUME NEW S, NEW x \in S, NEW n \in Nat, NEW h \in [1 .. n -> [S -> S]],
         NEW f, f[0] = x, \A i \in 1 .. n : f[i - 1] \in S => f[i] = h[i][f[i - 1]]
  PROVE  \A i \in 0 .. n : f[i] \in S
<1> DEFINE Bad == {i \in 0 .. n : f[i] \notin S}
<1>1. Bad \in SUBSET Nat
  OBVIOUS
<1>2. ASSUME NEW m \in Bad, \A k \in Bad : m <= k PROVE FALSE
  <2>1. m \in 1 .. n
    BY <1>2
  <2>2. m - 1 \in 0 .. n /\ m - 1 \notin Bad
    BY <1>2, <2>1
  <2>3. f[m - 1] \in S
    BY <2>2
  <2> QED
    BY <2>1, <2>3
<1>3. Bad = {}
  <2> HIDE DEF Bad
  <2> QED
    BY <1>1, <1>2, LeastNatural
<1> QED
  BY <1>3

Steps(S, f, x, h, n) ==
  f \in [0 .. n -> S] /\ f[0] = x /\ \A i \in 1 .. n : f[i] = h[i][f[i - 1]]

(* Steps from x by h exist, and stay in S.                                 *)
LEMMA StepsExist ==
  ASSUME NEW S, NEW x \in S, NEW n \in Nat, NEW h \in [1 .. n -> [S -> S]]
  PROVE  \E f : Steps(S, f, x, h, n)
<1>1. PICK f : Iteration(f, x, h, n)
  BY IterationExists
<1>2. f[0] = x /\ \A i \in 1 .. n : f[i] = h[i][f[i - 1]]
  BY <1>1 DEF Iteration
<1>3. \A i \in 0 .. n : f[i] \in S
  BY <1>2, StepsStay
<1>4. f = [i \in 0 .. n |-> f[i]]
  <2>1. \E e : f = [i \in 0 .. n |-> e[i]]
    BY <1>1, Zenon DEF Iteration
  <2> QED
    BY <2>1
<1>5. f \in [0 .. n -> S]
  BY <1>3, <1>4
<1> QED
  BY <1>1, <1>2, <1>5 DEF Steps

-----------------------------------------------------------------------------
(* The powers of Base, and numbers in network order.                       *)

(* What the assumptions say of the constants of the codec.                 *)
LEMMA BaseFacts ==
  /\ Base \in Nat /\ Base > 3 /\ Base % 2 = 0
  /\ IntSize \in Nat /\ IntSize > 0 /\ IntSize < Base
BY CodecAssumption

(* Power is the recursive function it is defined to be.                    *)
LEMMA PowerSteps ==
  /\ Power \in [0 .. IntSize -> Nat \ {0}]
  /\ Power[0] = 1 /\ \A i \in 1 .. IntSize : Power[i] = Base * Power[i - 1]
<1> DEFINE S == Nat \ {0}
           h == [i \in 1 .. IntSize |-> [p \in S |-> Base * p]]
           Is(f) == f = [n \in 0 .. IntSize |-> IF n = 0 THEN 1 ELSE Base * f[n - 1]]
<1>1. h \in [1 .. IntSize -> [S -> S]] /\ 1 \in S /\ IntSize \in Nat
  BY BaseFacts
<1>2. PICK f : Steps(S, f, 1, h, IntSize)
  <2> HIDE DEF h, S, Is
  <2> QED
    BY <1>1, StepsExist
<1>3. Is(f)
  <2>1. \A i \in 1 .. IntSize : f[i - 1] \in S
    BY <1>1, <1>2 DEF Steps
  <2>4. \A i \in 1 .. IntSize : f[i] = Base * f[i - 1]
    BY <1>2, <2>1 DEF Steps
  <2>2. \A i \in 0 .. IntSize : f[i] = IF i = 0 THEN 1 ELSE Base * f[i - 1]
    BY <1>1, <1>2, <2>4 DEF Steps
  <2>3. f = [i \in 0 .. IntSize |-> f[i]]
    BY <1>2 DEF Steps
  <2> QED
    BY <2>2, <2>3, Zenon
<1>4. Is(Power)
  <2> HIDE DEF Is
  <2>1. \E g : Is(g)
    BY <1>3
  <2>2. Power = CHOOSE g : Is(g)
    BY DEF Power, Is
  <2> QED
    BY <2>1, <2>2
<1>5. Power[0] = 1 /\ \A i \in 1 .. IntSize : Power[i] = Base * Power[i - 1]
  BY <1>1, <1>4
<1>6. \A i \in 0 .. IntSize : Power[i] \in S
  <2>1. \A i \in 1 .. IntSize : Power[i - 1] \in S => Power[i] = h[i][Power[i - 1]]
    BY <1>5
  <2> HIDE DEF h, S
  <2> QED
    BY <1>1, <1>5, <2>1, StepsStay
<1>7. Power \in [0 .. IntSize -> S]
  <2>1. Power = [i \in 0 .. IntSize |-> Power[i]]
    BY <1>4
  <2> QED
    BY <1>6, <2>1
<1> QED
  BY <1>5, <1>7

(* ntohl is the last of the values its recursion takes.                    *)
LEMMA NtohlSteps ==
  ASSUME NEW bytes \in [1 .. IntSize -> Nat]
  PROVE  \E f \in [0 .. IntSize -> Nat] :
           /\ f[0] = 0 /\ ntohl(bytes) = f[IntSize]
           /\ \A i \in 1 .. IntSize : f[i] = f[i - 1] * Base + bytes[i]
<1> DEFINE S == Nat
           h == [i \in 1 .. IntSize |-> [p \in S |-> p * Base + bytes[i]]]
           Is(f) == f = [i \in 0 .. IntSize |-> IF i = 0 THEN 0 ELSE f[i - 1] * Base + bytes[i]]
<1>1. h \in [1 .. IntSize -> [S -> S]] /\ 0 \in S /\ IntSize \in Nat /\ IntSize > 0
  BY BaseFacts
<1>2. PICK f : Steps(S, f, 0, h, IntSize)
  <2> HIDE DEF h, S, Is
  <2> QED
    BY <1>1, StepsExist
<1>3. Is(f)
  <2>1. \A i \in 1 .. IntSize : f[i - 1] \in Nat
    <3>1. \A i \in 1 .. IntSize : i - 1 \in 0 .. IntSize
      BY <1>1
    <3>2. f \in [0 .. IntSize -> Nat]
      BY <1>2 DEF Steps
    <3> QED
      BY <3>1, <3>2
  <2>2. \A i \in 1 .. IntSize : f[i] = f[i - 1] * Base + bytes[i]
    BY <1>2, <2>1 DEF Steps
  <2>3. \A i \in 0 .. IntSize : f[i] = IF i = 0 THEN 0 ELSE f[i - 1] * Base + bytes[i]
    BY <1>1, <1>2, <2>2 DEF Steps
  <2>4. f = [i \in 0 .. IntSize |-> f[i]]
    BY <1>2 DEF Steps
  <2> QED
    BY <2>3, <2>4, Zenon
<1> DEFINE g == CHOOSE e : Is(e)
<1>4. Is(g)
  <2> HIDE DEF Is
  <2> QED
    BY <1>3
<1>5. ntohl(bytes) = g[IntSize]
  BY DEF ntohl
<1> HIDE DEF g
<1>6. g[0] = 0 /\ \A i \in 1 .. IntSize : g[i] = g[i - 1] * Base + bytes[i]
  <2>1. \A i \in 0 .. IntSize : g[i] = IF i = 0 THEN 0 ELSE g[i - 1] * Base + bytes[i]
    BY <1>4
  <2>2. 0 \in 0 .. IntSize /\ \A i \in 1 .. IntSize : i \in 0 .. IntSize /\ i # 0
    BY <1>1
  <2> QED
    BY <2>1, <2>2, Zenon
<1>7. \A i \in 0 .. IntSize : g[i] \in Nat
  <2>1. \A i \in 1 .. IntSize : g[i - 1] \in S => g[i] = h[i][g[i - 1]]
    BY <1>6
  <2>2. \A i \in 0 .. IntSize : g[i] \in S
    <3> HIDE DEF h, S, Is
    <3> QED
      BY <1>1, <1>6, <2>1, StepsStay
  <2> QED
    BY <2>2
<1>8. g \in [0 .. IntSize -> Nat]
  <2>1. g = [i \in 0 .. IntSize |-> g[i]]
    BY <1>4
  <2> QED
    BY <1>7, <2>1
<1> QED
  BY <1>5, <1>6, <1>8

(* The modulus is even, positive and a power of Base.                      *)
LEMMA ModulusFacts ==
  /\ Modulus \in Nat \ {0} /\ Modulus % 2 = 0
  /\ \A i \in 0 .. IntSize : Power[i] \in Nat \ {0}
  /\ Modulus = Base * Power[IntSize - 1]
<1>1. /\ Power[IntSize] = Base * Power[IntSize - 1]
      /\ \A i \in 0 .. IntSize : Power[i] \in Nat \ {0}
      /\ IntSize - 1 \in 0 .. IntSize
  BY BaseFacts, PowerSteps
<1> DEFINE p == Power[IntSize - 1]
<1>2. p \in Nat
  BY <1>1
<1>3. PICK q \in Nat : Base = 2 * q
  BY BaseFacts
<1> HIDE DEF p
<1>4. (Base * p) % 2 = 0
  <2>1. Base * p = 2 * (q * p) /\ q * p \in Nat
    BY <1>2, <1>3
  <2> QED
    BY <2>1
<1> QED
  BY <1>1, <1>4, BaseFacts DEF Modulus, p

(* A quotient that is too small is 0.                                      *)
LEMMA DivSmall == ASSUME NEW n \in Nat, NEW p \in Nat \ {0}, n < p PROVE n \div p = 0
OBVIOUS

(* One more digit of a number.                                             *)
LEMMA NextDigit ==
  ASSUME NEW n \in Nat, NEW p \in Nat \ {0}
  PROVE  n \div p = (n \div (Base * p)) * Base + ((n \div p) % Base)
<1>1. Base \in Nat /\ Base > 0
  BY BaseFacts
<1>2. n \div (Base * p) = (n \div p) \div Base
  BY <1>1
<1> DEFINE q == n \div p
<1>3. q \in Nat
  OBVIOUS
<1> HIDE DEF q
<1>4. q = (q \div Base) * Base + (q % Base)
  BY <1>1, <1>3
<1> QED
  BY <1>2, <1>4 DEF q

(* The bytes of a number, read again, are the number.                      *)
LEMMA NtohlDigits ==
  ASSUME NEW n \in 0 .. Modulus - 1
  PROVE  ntohl([i \in 1 .. IntSize |-> (n \div Power[IntSize - i]) % Base]) = n
<1> DEFINE bytes == [i \in 1 .. IntSize |-> (n \div Power[IntSize - i]) % Base]
<1>1. /\ n \in Nat /\ n < Modulus /\ IntSize \in Nat /\ IntSize > 0 /\ Base \in Nat /\ Base > 0
      /\ \A i \in 0 .. IntSize : Power[i] \in Nat \ {0}
  BY ModulusFacts, BaseFacts
<1>2. \A i \in 1 .. IntSize : IntSize - i \in 0 .. IntSize /\ bytes[i] \in Nat
  <2>1. \A i \in 1 .. IntSize : IntSize - i \in 0 .. IntSize
    BY <1>1
  <2>2. \A p \in Nat \ {0} : (n \div p) % Base \in Nat
    BY <1>1
  <2> QED
    BY <1>1, <2>1, <2>2
<1>3. bytes \in [1 .. IntSize -> Nat]
  BY <1>2
<1>4. PICK f \in [0 .. IntSize -> Nat] :
        /\ f[0] = 0 /\ ntohl(bytes) = f[IntSize]
        /\ \A i \in 1 .. IntSize : f[i] = f[i - 1] * Base + bytes[i]
  <2> HIDE DEF bytes
  <2> QED
    BY <1>3, NtohlSteps
<1> DEFINE Bad == {i \in 0 .. IntSize : f[i] # n \div Power[IntSize - i]}
<1>5. Bad \in SUBSET Nat
  OBVIOUS
<1>6. ASSUME NEW m \in Bad, \A k \in Bad : m <= k PROVE FALSE
  <2>1. CASE m = 0
    <3>1. n \div Power[IntSize] = 0
      <4>1. \A p \in Nat \ {0} : n < p => n \div p = 0
        BY <1>1, DivSmall
      <4> QED
        BY <1>1, <4>1, ModulusFacts DEF Modulus
    <3> QED
      BY <1>1, <1>4, <2>1, <3>1
  <2>2. CASE m # 0
    <3>1. m \in 1 .. IntSize /\ m - 1 \in 0 .. IntSize /\ m - 1 \notin Bad
      BY <1>1, <1>6, <2>2
    <3>2. f[m - 1] = n \div Power[IntSize - (m - 1)]
      BY <3>1
    <3> DEFINE k == IntSize - m
    <3>3. k \in 0 .. IntSize - 1 /\ IntSize - (m - 1) = k + 1 /\ k + 1 \in 1 .. IntSize
      BY <1>1, <3>1
    <3>4. Power[k + 1] = Base * Power[k]
      <4>1. (k + 1) - 1 = k
        BY <3>3
      <4> QED
        BY <3>3, <4>1, PowerSteps
    <3>5. f[m] = (n \div (Base * Power[k])) * Base + ((n \div Power[k]) % Base)
      BY <1>4, <3>1, <3>2, <3>3, <3>4
    <3>6. f[m] = n \div Power[k]
      <4>1. Power[k] \in Nat \ {0}
        BY <1>1, <3>3
      <4> QED
        BY <1>1, <3>5, <4>1, NextDigit
    <3> QED
      BY <3>6
  <2> QED
    BY <2>1, <2>2
<1>7. Bad = {}
  <2> HIDE DEF Bad
  <2> QED
    BY <1>5, <1>6, LeastNatural
<1>8. f[IntSize] = n \div Power[0]
  <2>1. IntSize \in 0 .. IntSize /\ IntSize - IntSize = 0
    BY <1>1
  <2> QED
    BY <1>7, <2>1
<1>9. n \div 1 = n
  BY <1>1
<1> QED
  BY <1>4, <1>8, <1>9, PowerSteps

(* A byte is worth at least its place.                                     *)
LEMMA NtohlFloor ==
  ASSUME NEW bytes \in [1 .. IntSize -> Nat], NEW m \in 1 .. IntSize
  PROVE  ntohl(bytes) \in Nat /\ bytes[m] * Power[IntSize - m] <= ntohl(bytes)
<1>1. /\ IntSize \in Nat /\ IntSize > 0 /\ Base \in Nat /\ Base > 0
      /\ \A i \in 0 .. IntSize : Power[i] \in Nat \ {0}
  BY ModulusFacts, BaseFacts
<1>2. PICK f \in [0 .. IntSize -> Nat] :
        /\ f[0] = 0 /\ ntohl(bytes) = f[IntSize]
        /\ \A i \in 1 .. IntSize : f[i] = f[i - 1] * Base + bytes[i]
  BY NtohlSteps
<1> DEFINE Bad == {i \in m .. IntSize : ~ (bytes[m] * Power[i - m] <= f[i])}
<1>3. Bad \in SUBSET Nat
  OBVIOUS
<1>4. ASSUME NEW i \in Bad, \A k \in Bad : i <= k PROVE FALSE
  <2>1. CASE i = m
    <3>1. m - 1 \in 0 .. IntSize
      BY <1>1
    <3>2. f[m - 1] \in Nat /\ bytes[m] \in Nat
      BY <3>1
    <3>3. f[m - 1] * Base \in Nat
      BY <1>1, <3>2
    <3>4. f[m] >= bytes[m]
      BY <1>2, <3>2, <3>3
    <3>5. Power[i - m] = 1
      BY <2>1, PowerSteps
    <3>6. bytes[m] * 1 = bytes[m]
      BY <3>2
    <3> QED
      BY <2>1, <3>2, <3>4, <3>5, <3>6
  <2>2. CASE i # m
    <3>1. i \in 1 .. IntSize /\ i - 1 \in m .. IntSize /\ i - 1 \notin Bad /\ i - m \in 1 .. IntSize
      BY <1>1, <1>4, <2>2
    <3>2. bytes[m] * Power[(i - 1) - m] <= f[i - 1]
      BY <3>1
    <3> DEFINE k == (i - 1) - m
               p == Power[k]
    <3>3. k \in 0 .. IntSize /\ i - m = k + 1 /\ k = (i - m) - 1
      BY <1>1, <3>1
    <3>4. Power[i - m] = Base * p
      BY <3>1, <3>3, PowerSteps
    <3>5. p \in Nat /\ bytes[m] \in Nat /\ bytes[i] \in Nat /\ f[i - 1] \in Nat
      BY <1>1, <3>1, <3>3
    <3> HIDE DEF p, k
    <3>6. bytes[m] * p <= f[i - 1]
      BY <3>2 DEF p, k
    <3>7. f[i] = f[i - 1] * Base + bytes[i]
      BY <1>2, <3>1
    <3>8. ASSUME NEW a \in Nat, NEW e \in Nat, NEW c \in Nat, NEW d \in Nat, a * d <= e
          PROVE  a * (Base * d) <= e * Base + c
      <4>1. a * (Base * d) = (a * d) * Base /\ a * d \in Nat
        BY <1>1
      <4>2. (a * d) * Base <= e * Base
        BY <1>1, <3>8, <4>1
      <4> DEFINE u == (a * d) * Base
                 v == e * Base
      <4>3. u \in Nat /\ v \in Nat /\ u <= v
        BY <1>1, <4>1, <4>2
      <4> HIDE DEF u, v
      <4>4. u <= v + c
        BY <4>3
      <4> QED
        BY <4>1, <4>4 DEF u, v
    <3>9. bytes[m] * (Base * p) <= f[i - 1] * Base + bytes[i]
      BY <3>5, <3>6, <3>8
    <3> QED
      BY <3>4, <3>7, <3>9
  <2> QED
    BY <2>1, <2>2
<1>5. Bad = {}
  <2> HIDE DEF Bad
  <2> QED
    BY <1>3, <1>4, LeastNatural
<1>6. IntSize \in m .. IntSize /\ IntSize \in 0 .. IntSize
  BY <1>1
<1> QED
  BY <1>2, <1>5, <1>6

(* The value is below what the first byte, increased by one, is worth.     *)
LEMMA NtohlCeiling ==
  ASSUME NEW bytes \in [1 .. IntSize -> Bytes]
  PROVE  ntohl(bytes) < (bytes[1] + 1) * Power[IntSize - 1]
<1>1. /\ IntSize \in Nat /\ IntSize > 0 /\ Base \in Nat /\ Base > 0
      /\ \A i \in 0 .. IntSize : Power[i] \in Nat \ {0}
      /\ \A i \in 1 .. IntSize : bytes[i] \in Nat /\ bytes[i] < Base
  BY ModulusFacts, BaseFacts DEF Bytes
<1>2. PICK f \in [0 .. IntSize -> Nat] :
        /\ f[0] = 0 /\ ntohl(bytes) = f[IntSize]
        /\ \A i \in 1 .. IntSize : f[i] = f[i - 1] * Base + bytes[i]
  <2>1. bytes \in [1 .. IntSize -> Nat]
    BY <1>1
  <2> QED
    BY <2>1, NtohlSteps
<1> DEFINE b == bytes[1] + 1
           Bad == {i \in 1 .. IntSize : ~ (f[i] < b * Power[i - 1])}
<1>3. Bad \in SUBSET Nat /\ b \in Nat
  BY <1>1
<1>4. ASSUME NEW i \in Bad, \A k \in Bad : i <= k PROVE FALSE
  <2>1. CASE i = 1
    <3>1. f[1] = f[0] * Base + bytes[1]
      <4>1. 1 \in 1 .. IntSize /\ 1 - 1 = 0
        BY <1>1
      <4> QED
        BY <1>2, <4>1
    <3>2. f[1] = bytes[1]
      BY <1>1, <1>2, <3>1
    <3>3. Power[i - 1] = 1
      BY <2>1, PowerSteps
    <3> QED
      BY <1>1, <1>3, <2>1, <3>2, <3>3
  <2>2. CASE i # 1
    <3>1. i \in 1 .. IntSize /\ i - 1 \in 1 .. IntSize /\ i - 1 \notin Bad
      BY <1>1, <1>4, <2>2
    <3> DEFINE p == Power[(i - 1) - 1]
    <3>2. f[i - 1] < b * p
      BY <3>1
    <3>3. (i - 1) - 1 \in 0 .. IntSize /\ i - 1 \in 0 .. IntSize
      BY <1>1, <3>1
    <3>4. Power[i - 1] = Base * p /\ p \in Nat /\ f[i - 1] \in Nat
      BY <1>1, <3>1, <3>3, PowerSteps
    <3>5. f[i] = f[i - 1] * Base + bytes[i] /\ bytes[i] \in Nat /\ bytes[i] < Base
      BY <1>1, <1>2, <3>1
    <3> HIDE DEF p, b
    <3>6. ASSUME NEW a \in Nat, NEW c \in Nat, NEW d \in Nat, c < a, d < Base
          PROVE  c * Base + d < a * Base
      <4>1. (c + 1) * Base <= a * Base
        BY <1>1, <3>6
      <4>2. (c + 1) * Base = c * Base + Base
        BY <1>1
      <4> DEFINE u == c * Base
                 v == a * Base
      <4>3. u \in Nat /\ v \in Nat /\ u + Base <= v
        BY <1>1, <4>1, <4>2
      <4> HIDE DEF u, v
      <4>4. u + d < v
        BY <1>1, <3>6, <4>3
      <4> QED
        BY <4>4 DEF u, v
    <3>7. b * p \in Nat
      BY <1>3, <3>4
    <3>8. f[i] < (b * p) * Base
      BY <3>2, <3>4, <3>5, <3>6, <3>7
    <3>9. (b * p) * Base = b * (Base * p)
      BY <1>1, <1>3, <3>4
    <3> QED
      BY <3>4, <3>8, <3>9 DEF b
  <2> QED
    BY <2>1, <2>2
<1>5. Bad = {}
  <2> HIDE DEF Bad
  <2> QED
    BY <1>3, <1>4, LeastNatural
<1>6. IntSize \in 1 .. IntSize
  BY <1>1
<1> QED
  BY <1>2, <1>5, <1>6

(* An integer takes IntSize bytes.                                         *)
LEMMA HtonlType ==
  ASSUME NEW n \in Int
  PROVE  htonl(n) \in [1 .. IntSize -> Bytes] /\ htonl(n) \in Seq(Bytes) /\ Len(htonl(n)) = IntSize
<1>1. \A i \in 1 .. IntSize : ((n % Modulus) \div Power[IntSize - i]) % Base \in Bytes
  <2> TAKE i \in 1 .. IntSize
  <2> DEFINE p == Power[IntSize - i]
             m == n % Modulus
  <2>1. p \in Nat \ {0} /\ m \in Nat
    BY BaseFacts, ModulusFacts
  <2> HIDE DEF p, m
  <2>2. m \div p \in Nat
    BY <2>1
  <2>3. (m \div p) % Base \in 0 .. Base - 1
    BY <2>2, BaseFacts
  <2> QED
    BY <2>3 DEF p, m, Bytes
<1>2. htonl(n) \in [1 .. IntSize -> Bytes]
  BY <1>1 DEF htonl
<1> QED
  BY <1>2, BaseFacts

(* An int32 is what its two's complement stands for.                       *)
LEMMA IntBack ==
  ASSUME NEW n \in Int32
  PROVE  LET m == ntohl(htonl(n)) IN (IF 2 * m >= Modulus THEN m - Modulus ELSE m) = n
<1>1. PICK h \in Nat : Modulus = 2 * h /\ h > 0
  BY ModulusFacts
<1>2. Modulus \div 2 = h
  BY <1>1
<1>3. n \in Int /\ -h <= n /\ n < h
  BY <1>1, <1>2 DEF Int32
<1> DEFINE m == n % Modulus
<1>4. m = IF n < 0 THEN n + Modulus ELSE n
  BY <1>1, <1>3
<1>5. m \in 0 .. Modulus - 1
  BY <1>1, <1>3, <1>4
<1>6. ntohl(htonl(n)) = m
  <2> HIDE DEF m
  <2> QED
    BY <1>5, NtohlDigits DEF htonl, m
<1> QED
  BY <1>1, <1>3, <1>4, <1>6

(* The cells that hold an int32's bytes are read as that int32.            *)
LEMMA ReadsInt ==
  ASSUME NEW n \in Int32, NEW b, NEW index, NEW beyond,
         Cells(b, index, IntSize, beyond) = htonl(n)
  PROVE  getInt32FromNetByte(b, index, beyond) = n
BY IntBack DEF getInt32FromNetByte

(* A length whose first byte is below a half of Base is its bytes' value.  *)
LEMMA ReadsNat ==
  ASSUME NEW b, NEW index, NEW beyond, NEW bytes \in [1 .. IntSize -> Bytes],
         bytes = Cells(b, index, IntSize, beyond), 2 * bytes[1] < Base
  PROVE  getInt32FromNetByte(b, index, beyond) = ntohl(bytes) /\ ntohl(bytes) \in Nat
<1>1. 1 \in 1 .. IntSize /\ bytes[1] \in Nat /\ bytes \in [1 .. IntSize -> Nat]
  BY BaseFacts DEF Bytes
<1> DEFINE p == Power[IntSize - 1]
           m == ntohl(bytes)
           c == bytes[1]
<1>2. m \in Nat /\ m < (c + 1) * p /\ p \in Nat /\ Modulus = Base * p
  <2>1. m \in Nat /\ m < (c + 1) * p
    BY <1>1, NtohlFloor, NtohlCeiling
  <2>2. IntSize - 1 \in 0 .. IntSize
    BY BaseFacts
  <2> QED
    BY <2>1, <2>2, ModulusFacts
<1>3. 2 * (c + 1) <= Base
  <2>1. PICK q \in Nat : Base = 2 * q
    BY BaseFacts
  <2> QED
    BY <1>1, <2>1
<1> HIDE DEF p, m, c
<1>4. c \in Nat
  BY <1>1 DEF c
<1>5. 2 * m < Modulus
  <2>1. (2 * (c + 1)) * p <= Base * p
    BY <1>2, <1>3, <1>4, BaseFacts
  <2>2. (2 * (c + 1)) * p = 2 * ((c + 1) * p)
    BY <1>2, <1>4
  <2> DEFINE u == (c + 1) * p
             v == Base * p
  <2>3. u \in Nat /\ v \in Nat /\ m < u /\ 2 * u <= v
    BY <1>2, <1>4, <2>1, <2>2, BaseFacts
  <2> HIDE DEF u, v
  <2>4. 2 * m < v
    BY <1>2, <2>3
  <2> QED
    BY <1>2, <2>4 DEF v
<1>6. getInt32FromNetByte(b, index, beyond) = m
  <2>1. ~ (2 * m >= Modulus)
    BY <1>2, <1>5, ModulusFacts
  <2> QED
    BY <2>1 DEF getInt32FromNetByte, m
<1> QED
  BY <1>2, <1>6 DEF m

-----------------------------------------------------------------------------
(* What stands where in a sequence.                                        *)

(* x stands in s behind the first p elements.                              *)
Holds(s, p, x) ==
  p \in Nat /\ p + Len(x) <= Len(s) /\ \A i \in 1 .. Len(x) : s[p + i] = x[i]

(* What a sequence holds, it holds with another behind it.                 *)
LEMMA HoldsLeft ==
  ASSUME NEW S, NEW s \in Seq(S), NEW t \in Seq(S), NEW x \in Seq(S), NEW p, Holds(s, p, x)
  PROVE  Holds(s \o t, p, x)
<1>1. /\ Len(s \o t) = Len(s) + Len(t) /\ Len(s) \in Nat /\ Len(t) \in Nat /\ Len(x) \in Nat
      /\ \A i \in 1 .. Len(s) : (s \o t)[i] = s[i]
  BY ConcatProperties
<1>2. \A i \in 1 .. Len(x) : p + i \in 1 .. Len(s)
  BY <1>1 DEF Holds
<1> QED
  BY <1>1, <1>2 DEF Holds

(* The second of two sequences stands behind the first.                    *)
LEMMA HoldsRight ==
  ASSUME NEW S, NEW s \in Seq(S), NEW t \in Seq(S)
  PROVE  Holds(s \o t, Len(s), t)
<1>1. /\ Len(s \o t) = Len(s) + Len(t) /\ Len(s) \in Nat /\ Len(t) \in Nat
      /\ \A i \in 1 .. Len(s) + Len(t) : (s \o t)[i] = IF i <= Len(s) THEN s[i] ELSE t[i - Len(s)]
  BY ConcatProperties
<1> QED
  BY <1>1 DEF Holds

(* What stands in a part of a sequence stands in the sequence.             *)
LEMMA HoldsPart ==
  ASSUME NEW S, NEW s \in Seq(S), NEW x \in Seq(S), NEW y \in Seq(S), NEW p, NEW q,
         Holds(s, p, x), Holds(x, q, y)
  PROVE  Holds(s, p + q, y)
<1>1. Len(s) \in Nat /\ Len(x) \in Nat /\ Len(y) \in Nat /\ p \in Nat /\ q \in Nat
  BY DEF Holds
<1>2. \A i \in 1 .. Len(y) : q + i \in 1 .. Len(x) /\ p + (q + i) = (p + q) + i
  BY <1>1 DEF Holds
<1> QED
  BY <1>1, <1>2 DEF Holds

(* What is in a sequence stays when another is put behind it.              *)
Extends(S, t, s) == \A x \in Seq(S), p \in Nat : Holds(s, p, x) => Holds(t, p, x)

LEMMA OneMore ==
  ASSUME NEW S, NEW s \in Seq(S), NEW t \in Seq(S)
  PROVE  /\ s \o t \in Seq(S) /\ Len(s \o t) = Len(s) + Len(t) /\ Extends(S, s \o t, s)
         /\ Holds(s \o t, Len(s), t)
BY ConcatProperties, HoldsLeft, HoldsRight DEF Extends

(* The same with two sequences put behind it.                              *)
LEMMA TwoMore ==
  ASSUME NEW S, NEW s \in Seq(S), NEW u \in Seq(S), NEW v \in Seq(S)
  PROVE  LET t == s \o (u \o v)
         IN  /\ t \in Seq(S) /\ Len(t) = Len(s) + Len(u) + Len(v) /\ Extends(S, t, s)
             /\ Holds(t, Len(s), u) /\ Holds(t, Len(s) + Len(u), v)
<1> DEFINE w == u \o v
           t == s \o w
<1>1. /\ w \in Seq(S) /\ Len(w) = Len(u) + Len(v) /\ Holds(w, Len(u), v)
      /\ Len(s) \in Nat /\ Len(u) \in Nat /\ Len(v) \in Nat
  BY OneMore
<1>2. Holds(w, 0, u)
  <2>1. Holds(u, 0, u)
    BY <1>1 DEF Holds
  <2> QED
    BY <2>1, HoldsLeft
<1> HIDE DEF w
<1>3. /\ t \in Seq(S) /\ Len(t) = Len(s) + Len(w) /\ Extends(S, t, s) /\ Holds(t, Len(s), w)
  BY <1>1, OneMore
<1> HIDE DEF t
<1>4. Holds(t, Len(s) + 0, u) /\ Holds(t, Len(s) + Len(u), v)
  BY <1>1, <1>2, <1>3, HoldsPart
<1>5. Len(s) + 0 = Len(s)
  BY <1>1
<1> QED
  BY <1>1, <1>3, <1>4, <1>5 DEF t, w

(* The types of the fields of a request or reply.                          *)
LEMMA DataTypes ==
  ASSUME NEW d \in PbData
  PROVE  /\ d.msg_req \in Seq(Bytes) /\ d.service_full_name \in Seq(Bytes)
         /\ d.err_info \in Seq(Bytes) /\ d.pb_data \in Seq(Bytes)
         /\ d.err_code \in Int /\ d.err_code \in Int32
<1>1. Int32 \subseteq Int
  BY ModulusFacts DEF Int32
<1>2. /\ d.msg_req \in Seq(Bytes) /\ d.service_full_name \in Seq(Bytes)
      /\ d.err_info \in Seq(Bytes) /\ d.pb_data \in Seq(Bytes) /\ d.err_code \in Int32
  BY DEF PbData
<1> QED
  BY <1>1, <1>2

(* The length of a frame, as a sum of natural numbers.                     *)
LEMMA PkLenIs ==
  ASSUME NEW d \in PbData
  PROVE  /\ PkLen(d) \in Nat /\ Len(d.msg_req) \in Nat /\ Len(d.service_full_name) \in Nat
         /\ Len(d.err_info) \in Nat /\ Len(d.pb_data) \in Nat
         /\ PkLen(d) = 2 + 6 * IntSize + Len(d.msg_req) + Len(d.service_full_name)
                         + Len(d.err_info) + Len(d.pb_data)
<1> DEFINE a == Len(d.pb_data)
           b == Len(d.service_full_name)
           c == Len(d.msg_req)
           e == Len(d.err_info)
<1>1. a \in Nat /\ b \in Nat /\ c \in Nat /\ e \in Nat /\ IntSize \in Nat
  <2>1. \A s \in Seq(Bytes) : Len(s) \in Nat
    BY LenProperties
  <2> QED
    BY <2>1, DataTypes, BaseFacts
<1>2. PkLen(d) = 2 + 6 * IntSize + a + b + c + e
  BY DEF PkLen
<1>3. PkLen(d) \in Nat /\ PkLen(d) = 2 + 6 * IntSize + c + b + e + a
  <2> HIDE DEF a, b, c, e
  <2> QED
    BY <1>1, <1>2
<1> QED
  BY <1>1, <1>3

(* What a frame consists of, and where each part begins.                   *)
LEMMA FrameLayout ==
  ASSUME NEW d \in PbData
  PROVE  LET frame == encodePbData(d)
             I == IntSize
             lm == Len(d.msg_req)
             ls == Len(d.service_full_name)
             le == Len(d.err_info)
         IN  /\ frame \in Seq(Bytes) /\ Len(frame) = PkLen(d)
             /\ frame[1] = PB_START /\ frame[PkLen(d)] = PB_END
             /\ Holds(frame, 1, htonl(PkLen(d)))
             /\ Holds(frame, 1 + I, htonl(lm)) /\ Holds(frame, 1 + 2 * I, d.msg_req)
             /\ Holds(frame, 1 + 2 * I + lm, htonl(ls))
             /\ Holds(frame, 1 + 3 * I + lm, d.service_full_name)
             /\ Holds(frame, 1 + 3 * I + lm + ls, htonl(d.err_code))
             /\ Holds(frame, 1 + 4 * I + lm + ls, htonl(le))
             /\ Holds(frame, 1 + 5 * I + lm + ls, d.err_info)
             /\ Holds(frame, 1 + 5 * I + lm + ls + le, d.pb_data)
<1> DEFINE I == IntSize
           lm == Len(d.msg_req)
           ls == Len(d.service_full_name)
           le == Len(d.err_info)
           lp == Len(d.pb_data)
           n == PkLen(d)
           f == <<PB_START>> \o htonl(n) \o (htonl(lm) \o d.msg_req)
                  \o (htonl(ls) \o d.service_full_name) \o htonl(d.err_code)
                  \o (htonl(le) \o d.err_info) \o d.pb_data \o htonl(1) \o <<PB_END>>
<1>1. /\ n \in Nat /\ lm \in Nat /\ ls \in Nat /\ le \in Nat /\ lp \in Nat /\ I \in Nat
      /\ n = 2 + 6 * I + lm + ls + le + lp
  BY PkLenIs, BaseFacts
<1>2. encodePbData(d) = f
  BY DEF encodePbData, WithLength
<1>3. /\ d.msg_req \in Seq(Bytes) /\ d.service_full_name \in Seq(Bytes)
      /\ d.err_info \in Seq(Bytes) /\ d.pb_data \in Seq(Bytes) /\ d.err_code \in Int
  BY DataTypes
<1>4. <<PB_START>> \in Seq(Bytes) /\ <<PB_END>> \in Seq(Bytes)
      /\ Len(<<PB_START>>) = 1 /\ Len(<<PB_END>>) = 1
  BY BaseFacts DEF Bytes, PB_START, PB_END
<1>5. \A i \in Int : htonl(i) \in Seq(Bytes) /\ Len(htonl(i)) = I
  BY HtonlType
<1>9. /\ Len(d.msg_req) = lm /\ Len(d.service_full_name) = ls /\ Len(d.err_info) = le
      /\ Len(d.pb_data) = lp
  OBVIOUS
<1> HIDE DEF I, n, f, lm, ls, le, lp
<1>6. /\ htonl(n) \in Seq(Bytes) /\ htonl(lm) \in Seq(Bytes) /\ htonl(ls) \in Seq(Bytes)
      /\ htonl(le) \in Seq(Bytes) /\ htonl(1) \in Seq(Bytes) /\ htonl(d.err_code) \in Seq(Bytes)
      /\ Len(htonl(n)) = I /\ Len(htonl(lm)) = I /\ Len(htonl(ls)) = I /\ Len(htonl(le)) = I
      /\ Len(htonl(1)) = I /\ Len(htonl(d.err_code)) = I
  BY <1>1, <1>3, <1>5
<1>7. /\ f \in Seq(Bytes) /\ Len(f) = 2 + 6 * I + lm + ls + le + lp
      /\ Holds(f, 0, <<PB_START>>) /\ Holds(f, 1, htonl(n)) /\ Holds(f, 1 + I, htonl(lm))
      /\ Holds(f, 1 + 2 * I, d.msg_req) /\ Holds(f, 1 + 2 * I + lm, htonl(ls))
      /\ Holds(f, 1 + 3 * I + lm, d.service_full_name)
      /\ Holds(f, 1 + 3 * I + lm + ls, htonl(d.err_code))
      /\ Holds(f, 1 + 4 * I + lm + ls, htonl(le)) /\ Holds(f, 1 + 5 * I + lm + ls, d.err_info)
      /\ Holds(f, 1 + 5 * I + lm + ls + le, d.pb_data)
      /\ Holds(f, 1 + 6 * I + lm + ls + le + lp, <<PB_END>>)
  <2> DEFINE a1 == htonl(n)
             a2 == htonl(lm)
             a3 == htonl(ls)
             a4 == htonl(d.err_code)
             a5 == htonl(le)
             a6 == htonl(1)
             s0 == <<PB_START>>
             e0 == <<PB_END>>
             mr == d.msg_req
             sn == d.service_full_name
             ei == d.err_info
             pd == d.pb_data
             g == s0 \o a1 \o (a2 \o mr) \o (a3 \o sn) \o a4 \o (a5 \o ei) \o pd \o a6 \o e0
  <2>1. /\ a1 \in Seq(Bytes) /\ a2 \in Seq(Bytes) /\ a3 \in Seq(Bytes) /\ a4 \in Seq(Bytes)
        /\ a5 \in Seq(Bytes) /\ a6 \in Seq(Bytes) /\ s0 \in Seq(Bytes) /\ e0 \in Seq(Bytes)
        /\ mr \in Seq(Bytes) /\ sn \in Seq(Bytes) /\ ei \in Seq(Bytes) /\ pd \in Seq(Bytes)
        /\ Len(s0) = 1 /\ Len(e0) = 1
        /\ Len(a1) = I /\ Len(a2) = I /\ Len(a3) = I /\ Len(a4) = I /\ Len(a5) = I /\ Len(a6) = I
        /\ Len(mr) = lm /\ Len(sn) = ls /\ Len(ei) = le /\ Len(pd) = lp
    BY <1>3, <1>4, <1>6, <1>9
  <2>2. f = g
    BY DEF f
  <2> HIDE DEF a1, a2, a3, a4, a5, a6, s0, e0, mr, sn, ei, pd, g
  <2>3. /\ g \in Seq(Bytes) /\ Len(g) = 2 + 6 * I + lm + ls + le + lp
        /\ Holds(g, 0, s0) /\ Holds(g, 1, a1) /\ Holds(g, 1 + I, a2)
        /\ Holds(g, 1 + 2 * I, mr) /\ Holds(g, 1 + 2 * I + lm, a3)
        /\ Holds(g, 1 + 3 * I + lm, sn) /\ Holds(g, 1 + 3 * I + lm + ls, a4)
        /\ Holds(g, 1 + 4 * I + lm + ls, a5) /\ Holds(g, 1 + 5 * I + lm + ls, ei)
        /\ Holds(g, 1 + 5 * I + lm + ls + le, pd)
        /\ Holds(g, 1 + 6 * I + lm + ls + le + lp, e0)
    <3> DEFINE f1 == s0 \o a1
               f2 == f1 \o (a2 \o mr)
               f3 == f2 \o (a3 \o sn)
               f4 == f3 \o a4
               f5 == f4 \o (a5 \o ei)
               f6 == f5 \o pd
               f7 == f6 \o a6
               f8 == f7 \o e0
    <3>1. /\ f1 \in Seq(Bytes) /\ Len(f1) = 1 + I /\ Holds(f1, 0, s0) /\ Holds(f1, 1, a1)
      <4>1. Holds(s0, 0, s0)
        BY DEF Holds
      <4>2. Holds(f1, 0, s0)
        BY <1>1, <2>1, <4>1, HoldsLeft
      <4>3. f1 \in Seq(Bytes) /\ Len(f1) = Len(s0) + Len(a1) /\ Holds(f1, Len(s0), a1)
        BY <1>1, <2>1, OneMore
      <4> QED
        BY <1>1, <2>1, <4>2, <4>3
    <3> HIDE DEF f1
    <3>2. /\ f2 \in Seq(Bytes) /\ Len(f2) = 1 + 2 * I + lm /\ Extends(Bytes, f2, f1)
          /\ Holds(f2, 1 + I, a2) /\ Holds(f2, 1 + 2 * I, mr)
      <4>1. /\ f2 \in Seq(Bytes) /\ Len(f2) = Len(f1) + Len(a2) + Len(mr) /\ Extends(Bytes, f2, f1)
            /\ Holds(f2, Len(f1), a2) /\ Holds(f2, Len(f1) + Len(a2), mr)
        BY <1>1, <2>1, <3>1, TwoMore
      <4>2. Len(f1) = 1 + I /\ Len(f1) + Len(a2) = 1 + 2 * I
        BY <1>1, <2>1, <3>1
      <4> QED
        BY <1>1, <2>1, <4>1, <4>2
    <3> HIDE DEF f2
    <3>3. /\ f3 \in Seq(Bytes) /\ Len(f3) = 1 + 3 * I + lm + ls /\ Extends(Bytes, f3, f2)
          /\ Holds(f3, 1 + 2 * I + lm, a3) /\ Holds(f3, 1 + 3 * I + lm, sn)
      <4>1. /\ f3 \in Seq(Bytes) /\ Len(f3) = Len(f2) + Len(a3) + Len(sn) /\ Extends(Bytes, f3, f2)
            /\ Holds(f3, Len(f2), a3) /\ Holds(f3, Len(f2) + Len(a3), sn)
        BY <1>1, <2>1, <3>2, TwoMore
      <4>2. Len(f2) + Len(a3) = 1 + 3 * I + lm
        BY <1>1, <2>1, <3>2
      <4> QED
        BY <1>1, <2>1, <3>2, <4>1, <4>2
    <3> HIDE DEF f3
    <3>4. /\ f4 \in Seq(Bytes) /\ Len(f4) = 1 + 4 * I + lm + ls /\ Extends(Bytes, f4, f3)
          /\ Holds(f4, 1 + 3 * I + lm + ls, a4)
      <4>1. /\ f4 \in Seq(Bytes) /\ Len(f4) = Len(f3) + Len(a4) /\ Extends(Bytes, f4, f3)
            /\ Holds(f4, Len(f3), a4)
        BY <1>1, <2>1, <3>3, OneMore
      <4> QED
        BY <1>1, <2>1, <3>3, <4>1
    <3> HIDE DEF f4
    <3>5. /\ f5 \in Seq(Bytes) /\ Len(f5) = 1 + 5 * I + lm + ls + le /\ Extends(Bytes, f5, f4)
          /\ Holds(f5, 1 + 4 * I + lm + ls, a5) /\ Holds(f5, 1 + 5 * I + lm + ls, ei)
      <4>1. /\ f5 \in Seq(Bytes) /\ Len(f5) = Len(f4) + Len(a5) + Len(ei) /\ Extends(Bytes, f5, f4)
            /\ Holds(f5, Len(f4), a5) /\ Holds(f5, Len(f4) + Len(a5), ei)
        BY <1>1, <2>1, <3>4, TwoMore
      <4>2. Len(f4) + Len(a5) = 1 + 5 * I + lm + ls
        BY <1>1, <2>1, <3>4
      <4> QED
        BY <1>1, <2>1, <3>4, <4>1, <4>2
    <3> HIDE DEF f5
    <3>6. /\ f6 \in Seq(Bytes) /\ Len(f6) = 1 + 5 * I + lm + ls + le + lp /\ Extends(Bytes, f6, f5)
          /\ Holds(f6, 1 + 5 * I + lm + ls + le, pd)
      <4>1. /\ f6 \in Seq(Bytes) /\ Len(f6) = Len(f5) + Len(pd) /\ Extends(Bytes, f6, f5)
            /\ Holds(f6, Len(f5), pd)
        BY <1>1, <2>1, <3>5, OneMore
      <4> QED
        BY <1>1, <2>1, <3>5, <4>1
    <3> HIDE DEF f6
    <3>7. f7 \in Seq(Bytes) /\ Len(f7) = 1 + 6 * I + lm + ls + le + lp /\ Extends(Bytes, f7, f6)
      <4>1. f7 \in Seq(Bytes) /\ Len(f7) = Len(f6) + Len(a6) /\ Extends(Bytes, f7, f6)
        BY <1>1, <2>1, <3>6, OneMore
      <4> QED
        BY <1>1, <2>1, <3>6, <4>1
    <3> HIDE DEF f7
    <3>8. /\ f8 \in Seq(Bytes) /\ Len(f8) = 2 + 6 * I + lm + ls + le + lp /\ Extends(Bytes, f8, f7)
          /\ Holds(f8, 1 + 6 * I + lm + ls + le + lp, e0)
      <4>1. /\ f8 \in Seq(Bytes) /\ Len(f8) = Len(f7) + Len(e0) /\ Extends(Bytes, f8, f7)
            /\ Holds(f8, Len(f7), e0)
        BY <1>1, <2>1, <3>7, OneMore
      <4> QED
        BY <1>1, <2>1, <3>7, <4>1
    <3>9. \A x \in Seq(Bytes), p \in Nat :
            /\ Holds(f1, p, x) \/ Holds(f2, p, x) \/ Holds(f3, p, x) \/ Holds(f4, p, x)
                 \/ Holds(f5, p, x) \/ Holds(f6, p, x) => Holds(f8, p, x)
      <4> HIDE DEF f8
      <4> QED
        BY <1>1, <2>1, <3>2, <3>3, <3>4, <3>5, <3>6, <3>7, <3>8, Zenon DEF Extends
    <3>10. \A p, x : Holds(f8, p, x) => p \in Nat
      BY DEF Holds
    <3>11. /\ Holds(f8, 0, s0) /\ Holds(f8, 1, a1) /\ Holds(f8, 1 + I, a2)
           /\ Holds(f8, 1 + 2 * I, mr) /\ Holds(f8, 1 + 2 * I + lm, a3)
           /\ Holds(f8, 1 + 3 * I + lm, sn)
      <4> HIDE DEF f8
      <4>1. /\ 0 \in Nat /\ 1 \in Nat /\ 1 + I \in Nat /\ 1 + 2 * I \in Nat
            /\ 1 + 2 * I + lm \in Nat /\ 1 + 3 * I + lm \in Nat
        BY <1>1, <2>1
      <4> QED
        BY <1>1, <2>1, <3>1, <3>2, <3>3, <3>9, <4>1, Zenon
    <3>12. /\ Holds(f8, 1 + 3 * I + lm + ls, a4)
           /\ Holds(f8, 1 + 4 * I + lm + ls, a5) /\ Holds(f8, 1 + 5 * I + lm + ls, ei)
           /\ Holds(f8, 1 + 5 * I + lm + ls + le, pd)
      <4> HIDE DEF f8
      <4>1. /\ 1 + 3 * I + lm + ls \in Nat /\ 1 + 4 * I + lm + ls \in Nat
            /\ 1 + 5 * I + lm + ls \in Nat /\ 1 + 5 * I + lm + ls + le \in Nat
        BY <1>1, <2>1
      <4> QED
        BY <1>1, <2>1, <3>4, <3>5, <3>6, <3>9, <4>1, Zenon
    <3> QED
      BY <1>1, <2>1, <3>8, <3>11, <3>12 DEF f1, f2, f3, f4, f5, f6, f7, g
  <2> QED
    BY <2>2, <2>3 DEF a1, a2, a3, a4, a5, a6, s0, e0, mr, sn, ei, pd
<1>8. f[1] = PB_START /\ f[n] = PB_END
  <2>1. \A p, c : Holds(f, p, <<c>>) => f[p + 1] = c
    BY DEF Holds
  <2>2. f[0 + 1] = PB_START /\ f[(1 + 6 * I + lm + ls + le + lp) + 1] = PB_END
    BY <1>7, <2>1
  <2>3. (1 + 6 * I + lm + ls + le + lp) + 1 = n /\ 0 + 1 = 1
    BY <1>1
  <2> QED
    BY <2>2, <2>3
<1> QED
  BY <1>1, <1>2, <1>7, <1>8 DEF I, n, lm, ls, le

-----------------------------------------------------------------------------
(* The buffer.                                                             *)

BufferOf(S) == [m_buffer : Seq(S), m_read_index : Nat, m_write_index : Nat,
                size_follows : BOOLEAN]
Sound(S, b) == b \in BufferOf(S) /\ InBounds(b) /\ (b.size_follows => getSize(b) > 0)
Tidy(b) == b.m_read_index <= getSize(b) \div 3

(* What a sound buffer's fields are.                                       *)
LEMMA SoundFields ==
  ASSUME NEW S, NEW b, Sound(S, b)
  PROVE  /\ b.m_buffer \in Seq(S) /\ b.m_read_index \in Nat /\ b.m_write_index \in Nat
         /\ b.size_follows \in BOOLEAN /\ getSize(b) \in Nat /\ getSize(b) = Len(b.m_buffer)
         /\ b.m_read_index <= b.m_write_index /\ b.m_write_index <= getSize(b)
         /\ readAble(b) \in Nat /\ readAble(b) = b.m_write_index - b.m_read_index
         /\ (b.size_follows => getSize(b) > 0)
<1>1. /\ b.m_buffer \in Seq(S) /\ b.m_read_index \in Nat /\ b.m_write_index \in Nat
      /\ b.size_follows \in BOOLEAN
  BY DEF Sound, BufferOf
<1>2. getSize(b) \in Nat /\ getSize(b) = Len(b.m_buffer)
  BY <1>1 DEF getSize
<1> QED
  BY <1>1, <1>2 DEF Sound, InBounds, readAble

(* The unread bytes are those between the two indices.                     *)
LEMMA UnreadIs ==
  ASSUME NEW S, NEW b, Sound(S, b)
  PROVE  /\ getBufferString(b) \in Seq(S) /\ Len(getBufferString(b)) = readAble(b)
         /\ \A i \in 1 .. readAble(b) : getBufferString(b)[i] = b.m_buffer[b.m_read_index + i]
<1> DEFINE s == b.m_buffer
           r == b.m_read_index
           w == b.m_write_index
           n == readAble(b)
<1>1. s \in Seq(S) /\ r \in Nat /\ w \in Nat /\ n \in Nat /\ n = w - r /\ w <= Len(s) /\ r <= w
      /\ Len(s) \in Nat
  BY SoundFields
<1>2. getBufferString(b) = SubSeq(s, r + 1, r + n)
  BY DEF getBufferString, BytesFrom
<1> HIDE DEF s, r, w, n
<1>3. /\ SubSeq(s, r + 1, r + n) \in Seq(S) /\ Len(SubSeq(s, r + 1, r + n)) = n
      /\ \A i \in 1 .. n : SubSeq(s, r + 1, r + n)[i] = s[r + i]
  BY <1>1
<1> QED
  BY <1>2, <1>3 DEF s, r, n

(* Cells nobody has written.                                               *)
LEMMA ZerosType ==
  ASSUME NEW S, 0 \in S, NEW n \in Nat
  PROVE  Zeros(n) \in Seq(S) /\ Len(Zeros(n)) = n
BY DEF Zeros

(* The same bytes unread in both.                                          *)
LEMMA SameUnread ==
  ASSUME NEW S, NEW b, NEW c, Sound(S, b), Sound(S, c), readAble(c) = readAble(b),
         \A i \in 1 .. readAble(b) : c.m_buffer[c.m_read_index + i] = b.m_buffer[b.m_read_index + i]
  PROVE  getBufferString(c) = getBufferString(b)
<1>1. \A s, t \in Seq(S) : Len(s) = Len(t) /\ (\A i \in 1 .. Len(s) : s[i] = t[i]) => s = t
  BY SeqEqual
<1> QED
  BY <1>1, UnreadIs

(* resizeBuffer keeps the unread bytes and moves them to the front.        *)
LEMMA Resized ==
  ASSUME NEW S, 0 \in S, NEW b, Sound(S, b), NEW size \in Nat, size >= readAble(b),
         b.size_follows => size > 0
  PROVE  LET c == resizeBuffer(b, size)
         IN  /\ Sound(S, c) /\ Tidy(c) /\ getSize(c) = size /\ c.m_read_index = 0
             /\ c.m_write_index = readAble(b) /\ c.size_follows = b.size_follows
             /\ getBufferString(c) = getBufferString(b)
<1> DEFINE n == readAble(b)
           t == getBufferString(b)
           p == Padded(t, size)
           c == resizeBuffer(b, size)
<1>1. n \in Nat /\ size \in Nat /\ n <= size /\ t \in Seq(S) /\ Len(t) = n
  BY SoundFields, UnreadIs
<1>2. /\ p \in Seq(S) /\ Len(p) = size /\ \A i \in 1 .. n : p[i] = t[i]
  <2> DEFINE z == Zeros(size - Len(t))
  <2>1. z \in Seq(S) /\ Len(z) = size - n
    BY <1>1, ZerosType
  <2> HIDE DEF z, n, t
  <2>2. /\ t \o z \in Seq(S) /\ Len(t \o z) = size
        /\ \A i \in 1 .. n : (t \o z)[i] = t[i]
    <3>1. /\ t \o z \in Seq(S) /\ Len(t \o z) = Len(t) + Len(z)
          /\ \A i \in 1 .. Len(t) + Len(z) :
               (t \o z)[i] = IF i <= Len(t) THEN t[i] ELSE z[i - Len(t)]
      BY <1>1, <2>1, ConcatProperties
    <3>2. Len(t) + Len(z) = size /\ \A i \in 1 .. n : i \in 1 .. size /\ i <= Len(t)
      BY <1>1, <2>1
    <3> QED
      BY <1>1, <3>1, <3>2
  <2> QED
    BY <2>2 DEF Padded, z
<1>3. c = [b EXCEPT !.m_buffer = p, !.m_read_index = 0, !.m_write_index = n]
  <2>1. (IF size <= n THEN size ELSE n) = n
    BY <1>1
  <2> HIDE DEF n
  <2> QED
    BY <2>1, Zenon DEF resizeBuffer, getBufferString, n
<1>4. /\ c \in BufferOf(S) /\ c.m_buffer = p /\ c.m_read_index = 0 /\ c.m_write_index = n
      /\ c.size_follows = b.size_follows
  <2>1. b \in BufferOf(S)
    BY DEF Sound
  <2> HIDE DEF c, p, n
  <2> QED
    BY <1>1, <1>2, <1>3, <2>1 DEF BufferOf
<1> HIDE DEF c, p
<1>5. getSize(c) = size /\ Sound(S, c) /\ Tidy(c) /\ readAble(c) = n
  <2> HIDE DEF n
  <2> QED
    BY <1>1, <1>2, <1>4 DEF getSize, Sound, InBounds, Tidy, readAble
<1>6. getBufferString(c) = t
  <2>1. \A i \in 1 .. n : t[i] = b.m_buffer[b.m_read_index + i]
    BY UnreadIs
  <2>2. \A i \in 1 .. n : c.m_buffer[c.m_read_index + i] = b.m_buffer[b.m_read_index + i]
    BY <1>1, <1>2, <1>4, <2>1
  <2> QED
    BY <1>5, <2>2, SameUnread
<1> QED
  BY <1>4, <1>5, <1>6 DEF c

(* adjustBuffer keeps the unread bytes, and leaves a tidy buffer.          *)
LEMMA Adjusted ==
  ASSUME NEW S, 0 \in S, NEW b, Sound(S, b)
  PROVE  LET c == adjustBuffer(b)
         IN  /\ Sound(S, c) /\ Tidy(c) /\ c.size_follows = b.size_follows
             /\ getBufferString(c) = getBufferString(b)
<1>1. /\ getSize(b) \in Nat /\ getSize(b) >= readAble(b) /\ (b.size_follows => getSize(b) > 0)
      /\ b.m_read_index \in Nat
  BY SoundFields
<1>2. CASE b.m_read_index > getSize(b) \div 3
  <2>1. adjustBuffer(b) = resizeBuffer(b, getSize(b))
    BY <1>2 DEF adjustBuffer
  <2> QED
    BY <1>1, <2>1, Resized
<1>3. CASE ~(b.m_read_index > getSize(b) \div 3)
  <2>1. adjustBuffer(b) = b
    BY <1>3 DEF adjustBuffer
  <2>2. Tidy(b)
    BY <1>1, <1>3 DEF Tidy
  <2> QED
    BY <2>1, <2>2
<1> QED
  BY <1>2, <1>3

(* recycleRead takes bytes off the front of the unread ones.               *)
LEMMA Recycled ==
  ASSUME NEW S, 0 \in S, NEW b, Sound(S, b), NEW n \in 0 .. readAble(b)
  PROVE  LET c == recycleRead(b, n)
             t == getBufferString(b)
         IN  /\ Sound(S, c) /\ Tidy(c) /\ c.size_follows = b.size_follows
             /\ getBufferString(c) = SubSeq(t, n + 1, Len(t))
<1> DEFINE t == getBufferString(b)
           r == b.m_read_index
           d == [b EXCEPT !.m_read_index = @ + n]
<1>1. /\ r \in Nat /\ readAble(b) \in Nat /\ readAble(b) = b.m_write_index - r
      /\ b.m_write_index \in Nat /\ b.m_write_index <= getSize(b) /\ getSize(b) \in Nat
      /\ getSize(b) = Len(b.m_buffer) /\ (b.size_follows => getSize(b) > 0)
  BY SoundFields
<1>2. recycleRead(b, n) = adjustBuffer(d)
  <2>1. ~(r + n > getSize(b))
    BY <1>1
  <2> QED
    BY <2>1, Zenon DEF recycleRead
<1>3. /\ d \in BufferOf(S) /\ d.m_buffer = b.m_buffer /\ d.m_read_index = r + n
      /\ d.m_write_index = b.m_write_index /\ d.size_follows = b.size_follows
  <2>1. b \in BufferOf(S) /\ b.m_read_index + n \in Nat
    BY <1>1 DEF Sound
  <2> QED
    BY <2>1 DEF BufferOf
<1> HIDE DEF d
<1>4. Sound(S, d) /\ readAble(d) = readAble(b) - n
  BY <1>1, <1>3 DEF Sound, InBounds, getSize, readAble
<1>5. getBufferString(d) = SubSeq(t, n + 1, Len(t))
  <2> DEFINE u == SubSeq(t, n + 1, Len(t))
             m == readAble(b)
  <2>1. t \in Seq(S) /\ Len(t) = m /\ m \in Nat /\ n \in 0 .. m
    BY <1>1, UnreadIs
  <2>2. \A i \in 1 .. m : t[i] = b.m_buffer[r + i]
    BY UnreadIs
  <2> HIDE DEF t, m
  <2>3. u \in Seq(S) /\ Len(u) = m - n /\ \A i \in 1 .. m - n : u[i] = t[n + i]
    BY <2>1
  <2>4. \A i \in 1 .. m - n : n + i \in 1 .. m /\ r + (n + i) = (r + n) + i
    BY <1>1, <2>1
  <2>5. /\ getBufferString(d) \in Seq(S) /\ Len(getBufferString(d)) = m - n
        /\ \A i \in 1 .. m - n : getBufferString(d)[i] = d.m_buffer[d.m_read_index + i]
    <3>1. m - n = readAble(d)
      BY <1>4 DEF m
    <3>2. /\ getBufferString(d) \in Seq(S) /\ Len(getBufferString(d)) = readAble(d)
          /\ \A i \in 1 .. readAble(d) : getBufferString(d)[i] = d.m_buffer[d.m_read_index + i]
      BY <1>4, UnreadIs
    <3> QED
      BY <3>1, <3>2, Zenon
  <2>6. \A i \in 1 .. m - n : getBufferString(d)[i] = u[i]
    <3> TAKE i \in 1 .. m - n
    <3>1. getBufferString(d)[i] = b.m_buffer[(r + n) + i]
      BY <1>3, <2>5
    <3>2. u[i] = b.m_buffer[r + (n + i)]
      BY <2>2, <2>3, <2>4
    <3> QED
      BY <2>4, <3>1, <3>2
  <2> HIDE DEF u
  <2> QED
    BY <2>3, <2>5, <2>6, SeqEqual DEF u
<1>6. /\ Sound(S, adjustBuffer(d)) /\ Tidy(adjustBuffer(d))
      /\ adjustBuffer(d).size_follows = d.size_follows
      /\ getBufferString(adjustBuffer(d)) = getBufferString(d)
  BY <1>4, Adjusted
<1> QED
  BY <1>2, <1>3, <1>5, <1>6

(* Bytes put at the write index, which moves on.                           *)
LEMMA PutThere ==
  ASSUME NEW S, NEW b, Sound(S, b), NEW x \in Seq(S), b.m_write_index + Len(x) <= getSize(b)
  PROVE  LET c == [PutBytes(b, x) EXCEPT !.m_write_index = @ + Len(x)]
         IN  /\ Sound(S, c) /\ c.m_read_index = b.m_read_index /\ getSize(c) = getSize(b)
             /\ c.m_write_index = b.m_write_index + Len(x)
             /\ c.size_follows = b.size_follows
             /\ getBufferString(c) = getBufferString(b) \o x
<1> DEFINE t == getBufferString(b)
           r == b.m_read_index
           w == b.m_write_index
           k == Len(x)
           s == b.m_buffer
           e == [i \in 1 .. Len(s) |-> IF i - 1 \in w .. w + k - 1 THEN x[i - w] ELSE s[i]]
           c == [PutBytes(b, x) EXCEPT !.m_write_index = @ + Len(x)]
<1>1. /\ r \in Nat /\ w \in Nat /\ r <= w /\ s \in Seq(S) /\ Len(s) = getSize(b)
      /\ getSize(b) \in Nat /\ w + k <= Len(s) /\ k \in Nat /\ readAble(b) = w - r
      /\ (b.size_follows => getSize(b) > 0) /\ b.size_follows \in BOOLEAN
  BY SoundFields
<1>2. e \in Seq(S) /\ Len(e) = Len(s)
  <2>1. ASSUME NEW i \in 1 .. Len(s) PROVE e[i] \in S
    <3>1. i - 1 \in w .. w + k - 1 => i - w \in 1 .. k
      BY <1>1
    <3>2. (\A j \in 1 .. k : x[j] \in S) /\ s[i] \in S
      BY <1>1
    <3> QED
      BY <3>1, <3>2
  <2>2. e \in [1 .. Len(s) -> S]
    BY <2>1
  <2>3. Len(s) \in Nat
    BY <1>1
  <2> HIDE DEF e, s
  <2> QED
    BY <2>2, <2>3, FunctionIsSeq
<1>3. b \in BufferOf(S)
  BY DEF Sound
<1>4. c = [[b EXCEPT !.m_buffer = e] EXCEPT !.m_write_index = @ + k]
  BY Zenon DEF PutBytes
<1>5. /\ c \in BufferOf(S) /\ c.m_buffer = e /\ c.m_read_index = r /\ c.m_write_index = w + k
      /\ c.size_follows = b.size_follows
  <2>1. w + k \in Nat
    BY <1>1
  <2> HIDE DEF e, c, k
  <2> QED
    BY <1>2, <1>3, <1>4, <2>1 DEF BufferOf
<1> HIDE DEF c
<1>6. getSize(c) = getSize(b) /\ Sound(S, c) /\ readAble(c) = (w - r) + k
  <2> HIDE DEF e, r, w, k, s
  <2> QED
    BY <1>1, <1>2, <1>5 DEF getSize, Sound, InBounds, readAble, s
<1>7. getBufferString(c) = t \o x
  <2> DEFINE n == w - r
             u == t \o x
             v == getBufferString(c)
  <2>1. t \in Seq(S) /\ Len(t) = n /\ n \in Nat /\ \A i \in 1 .. n : t[i] = s[r + i]
    BY <1>1, UnreadIs
  <2>2. v \in Seq(S) /\ Len(v) = n + k /\ \A i \in 1 .. n + k : v[i] = e[r + i]
    <3>1. v \in Seq(S) /\ Len(v) = readAble(c)
            /\ \A i \in 1 .. readAble(c) : v[i] = c.m_buffer[c.m_read_index + i]
      BY <1>6, UnreadIs
    <3> QED
      BY <1>5, <1>6, <3>1
  <2>3. \A i \in 1 .. n + k : e[r + i] = IF i <= n THEN s[r + i] ELSE x[i - n]
    <3> TAKE i \in 1 .. n + k
    <3>1. r + i \in 1 .. Len(s)
      BY <1>1
    <3>2. e[r + i] = IF (r + i) - 1 \in w .. w + k - 1 THEN x[(r + i) - w] ELSE s[r + i]
      BY <3>1
    <3>3. (r + i) - w = i - n /\ ((r + i) - 1 \in w .. w + k - 1 <=> ~(i <= n))
      BY <1>1
    <3> QED
      BY <3>2, <3>3
  <2> HIDE DEF t, n, v, e, r, w, s
  <2>4. /\ u \in Seq(S) /\ Len(u) = n + k
        /\ \A i \in 1 .. n + k : u[i] = IF i <= n THEN t[i] ELSE x[i - n]
    BY <2>1, ConcatProperties
  <2>5. \A i \in 1 .. n + k : v[i] = u[i]
    <3> TAKE i \in 1 .. n + k
    <3>1. CASE i <= n
      <4>1. i \in 1 .. n
        BY <1>1, <2>1, <3>1
      <4> QED
        BY <2>1, <2>2, <2>3, <2>4, <3>1, <4>1
    <3>2. CASE ~(i <= n)
      BY <2>2, <2>3, <2>4, <3>2
    <3> QED
      BY <3>1, <3>2
  <2> HIDE DEF u
  <2>6. v = u
    BY <2>2, <2>4, <2>5, SeqEqual
  <2> QED
    BY <2>6 DEF u, v
<1> QED
  BY <1>5, <1>6, <1>7 DEF c

(* writeToBuffer puts bytes behind the unread ones, in a larger vector if  *)
(* there is no room.                                                       *)
LEMMA Written ==
  ASSUME NEW S, 0 \in S, NEW b, Sound(S, b), Tidy(b), NEW x \in Seq(S), x # <<>>
  PROVE  LET c == writeToBuffer(b, x)
         IN  /\ Sound(S, c) /\ Tidy(c) /\ c.size_follows = b.size_follows
             /\ getBufferString(c) = getBufferString(b) \o x
<1> DEFINE k == Len(x)
           w == b.m_write_index
           size == (3 * (w + k)) \div 2
           roomy == IF k > writeAble(b) THEN resizeBuffer(b, size) ELSE b
<1>1. /\ w \in Nat /\ k \in Nat /\ k > 0 /\ getSize(b) \in Nat /\ b.size_follows \in BOOLEAN
      /\ readAble(b) \in Nat /\ readAble(b) <= w
  BY SoundFields
<1>2. /\ Sound(S, roomy) /\ Tidy(roomy) /\ roomy.size_follows = b.size_follows
      /\ getBufferString(roomy) = getBufferString(b)
      /\ roomy.m_write_index + k <= getSize(roomy)
  <2>1. CASE k > writeAble(b)
    <3>1. size \in Nat /\ w + k <= size /\ size > 0 /\ size >= readAble(b)
      BY <1>1
    <3> HIDE DEF size
    <3>2. /\ Sound(S, resizeBuffer(b, size)) /\ Tidy(resizeBuffer(b, size))
          /\ getSize(resizeBuffer(b, size)) = size
          /\ resizeBuffer(b, size).m_write_index = readAble(b)
          /\ resizeBuffer(b, size).size_follows = b.size_follows
          /\ getBufferString(resizeBuffer(b, size)) = getBufferString(b)
      BY <3>1, Resized
    <3> HIDE DEF k
    <3>3. roomy = resizeBuffer(b, size)
      BY <2>1
    <3> QED
      BY <1>1, <3>1, <3>2, <3>3
  <2>2. CASE ~(k > writeAble(b))
    <3>1. roomy = b
      BY <2>2
    <3>2. w + k <= getSize(b)
      BY <1>1, <2>2 DEF writeAble
    <3> QED
      BY <3>1, <3>2
  <2> QED
    BY <2>1, <2>2
<1> DEFINE c == [PutBytes(roomy, x) EXCEPT !.m_write_index = @ + k]
<1>3. writeToBuffer(b, x) = c
  BY Zenon DEF writeToBuffer
<1> HIDE DEF roomy
<1>4. /\ Sound(S, c) /\ c.m_read_index = roomy.m_read_index /\ getSize(c) = getSize(roomy)
      /\ c.size_follows = roomy.size_follows
      /\ getBufferString(c) = getBufferString(roomy) \o x
  <2>1. roomy.m_write_index + Len(x) <= getSize(roomy)
    BY <1>2
  <2>2. Sound(S, roomy)
    BY <1>2
  <2> QED
    BY <2>1, <2>2, PutThere, ZenonT(40)
<1> HIDE DEF c
<1>5. Tidy(c)
  BY <1>2, <1>4 DEF Tidy
<1> QED
  BY <1>2, <1>3, <1>4, <1>5

(* What a read leaves: the bytes behind those that were there, and a full  *)
(* buffer when it filled it.                                               *)
LEMMA ReceivedThere ==
  ASSUME NEW S, 0 \in S, NEW b, Sound(S, b), Tidy(b), NEW x \in Seq(S),
         b.m_write_index + Len(x) <= getSize(b)
  PROVE  LET c == Received(b, x)
         IN  /\ Sound(S, c) /\ Tidy(c) /\ c.size_follows = b.size_follows
             /\ getSize(c) = getSize(b) /\ c.m_write_index = b.m_write_index + Len(x)
             /\ getBufferString(c) = getBufferString(b) \o x
<1> DEFINE p == PutBytes(b, x)
           c == [p EXCEPT !.m_write_index = @ + Len(x)]
<1>1. /\ Sound(S, c) /\ c.m_read_index = b.m_read_index /\ getSize(c) = getSize(b)
      /\ c.m_write_index = b.m_write_index + Len(x)
      /\ c.size_follows = b.size_follows
      /\ getBufferString(c) = getBufferString(b) \o x
  BY PutThere
<1>2. /\ b.m_read_index \in Nat /\ getSize(b) \in Nat /\ b.m_buffer \in Seq(S)
  BY SoundFields
<1>3. p.m_write_index = b.m_write_index /\ getSize(p) = getSize(b)
  <2>1. b \in BufferOf(S)
    BY DEF Sound
  <2> QED
    BY <1>2, <2>1 DEF PutBytes, BufferOf, getSize
<1>4. Received(b, x) = adjustBuffer(c)
  <2>1. ~(p.m_write_index + Len(x) > getSize(p))
    BY <1>3, SoundFields
  <2> HIDE DEF p
  <2> QED
    BY <2>1, Zenon DEF Received, recycleWrite, p
<1> HIDE DEF c
<1>5. ~(c.m_read_index > getSize(c) \div 3)
  BY <1>1, <1>2 DEF Tidy
<1>6. adjustBuffer(c) = c
  BY <1>5 DEF adjustBuffer
<1>7. Tidy(c)
  BY <1>1 DEF Tidy
<1> QED
  BY <1>1, <1>4, <1>6, <1>7

(* The doubling of input(): there is room if m_size follows the vector.    *)
LEMMA RoomyIs ==
  ASSUME NEW S, 0 \in S, NEW b, Sound(S, b), Tidy(b)
  PROVE  LET c == Roomy(b)
         IN  /\ Sound(S, c) /\ Tidy(c) /\ c.size_follows = b.size_follows
             /\ getBufferString(c) = getBufferString(b)
             /\ IF c.size_follows THEN writeAble(c) > 0 ELSE writeAble(c) <= 0
<1>1. /\ b.m_write_index \in Nat /\ getSize(b) \in Nat /\ b.size_follows \in BOOLEAN
      /\ readAble(b) \in Nat /\ readAble(b) <= b.m_write_index /\ b.m_write_index <= getSize(b)
      /\ (b.size_follows => getSize(b) > 0)
  BY SoundFields
<1>2. CASE writeAble(b) = 0
  <2> DEFINE size == 2 * getSize(b)
             c == resizeBuffer(b, size)
  <2>1. size \in Nat /\ size >= readAble(b) /\ (b.size_follows => size > 0)
    BY <1>1
  <2> HIDE DEF size
  <2>2. /\ Sound(S, c) /\ Tidy(c) /\ getSize(c) = size /\ c.m_write_index = readAble(b)
        /\ c.size_follows = b.size_follows /\ getBufferString(c) = getBufferString(b)
    BY <2>1, Resized
  <2>3. Roomy(b) = c
    BY <1>2 DEF Roomy, size
  <2> HIDE DEF c
  <2>4. IF c.size_follows THEN writeAble(c) > 0 ELSE writeAble(c) <= 0
    BY <1>1, <2>2 DEF writeAble, size
  <2> QED
    BY <2>2, <2>3, <2>4
<1>3. CASE writeAble(b) # 0
  <2>1. Roomy(b) = b
    BY <1>3 DEF Roomy
  <2>2. IF b.size_follows THEN writeAble(b) > 0 ELSE writeAble(b) <= 0
    BY <1>1, <1>3 DEF writeAble
  <2> QED
    BY <2>1, <2>2
<1> QED
  BY <1>2, <1>3

-----------------------------------------------------------------------------
(* What decode finds.                                                      *)

(* A cell between the indices is an unread byte.                           *)
LEMMA CellUnread ==
  ASSUME NEW S, NEW b, Sound(S, b), NEW q \in 0 .. readAble(b) - 1, NEW beyond
  PROVE  Cell(b, b.m_read_index + q, beyond) = getBufferString(b)[q + 1]
<1> DEFINE r == b.m_read_index
           m == getBufferString(b)
<1>1. /\ r \in Nat /\ readAble(b) \in Nat /\ readAble(b) = b.m_write_index - r
      /\ b.m_write_index <= getSize(b) /\ getSize(b) \in Nat /\ b.m_write_index \in Nat
  BY SoundFields
<1>2. r + q \in 0 .. getSize(b) - 1
  BY <1>1
<1>3. Cell(b, r + q, beyond) = b.m_buffer[(r + q) + 1]
  BY <1>2, Zenon DEF Cell
<1>4. m[q + 1] = b.m_buffer[r + (q + 1)]
  <2>1. q + 1 \in 1 .. readAble(b)
    BY <1>1
  <2> QED
    BY <2>1, UnreadIs
<1>5. (r + q) + 1 = r + (q + 1)
  BY <1>1
<1> QED
  BY <1>3, <1>4, <1>5

(* The cells where x stands hold x.                                        *)
LEMMA CellsHeld ==
  ASSUME NEW S, NEW b, Sound(S, b), NEW x \in Seq(S), NEW p, Holds(getBufferString(b), p, x),
         NEW beyond
  PROVE  Cells(b, b.m_read_index + p, Len(x), beyond) = x
<1> DEFINE r == b.m_read_index
           m == getBufferString(b)
           k == Len(x)
           c == Cells(b, r + p, k, beyond)
<1>1. r \in Nat /\ p \in Nat /\ k \in Nat /\ p + k <= readAble(b) /\ readAble(b) \in Nat
  BY SoundFields, UnreadIs DEF Holds
<1>2. ASSUME NEW i \in 1 .. k PROVE Cell(b, (r + p) + i - 1, beyond) = x[i]
  <2> DEFINE q == p + i - 1
  <2>1. q \in 0 .. readAble(b) - 1 /\ (r + p) + i - 1 = r + q /\ q + 1 = p + i
    BY <1>1
  <2>2. m[p + i] = x[i]
    BY DEF Holds
  <2> HIDE DEF q, m
  <2>3. Cell(b, r + q, beyond) = m[q + 1]
    BY <2>1, CellUnread DEF m
  <2> QED
    BY <2>1, <2>2, <2>3
<1>3. c = [i \in 1 .. k |-> Cell(b, (r + p) + i - 1, beyond)]
  BY DEF Cells
<1>4. x = [i \in 1 .. k |-> x[i]]
  OBVIOUS
<1> HIDE DEF c, r, k
<1>5. c = [i \in 1 .. k |-> x[i]]
  BY <1>2, <1>3
<1> QED
  BY <1>4, <1>5 DEF c, r, k

(* Numbers up to one that fits an int32 fit too.                           *)
LEMMA SmallInts ==
  ASSUME NEW n \in Nat, 2 * n < Modulus, NEW i \in Nat, i <= n
  PROVE  i \in Int32
<1>1. PICK h \in Nat : Modulus = 2 * h /\ h > 0
  BY ModulusFacts
<1>2. Modulus \div 2 = h
  BY <1>1
<1>3. -h <= i /\ i <= h - 1
  BY <1>1
<1> QED
  BY <1>2, <1>3, <1>1 DEF Int32

(* A number that stands in the unread bytes is the number that is read.    *)
LEMMA ReadsHeld ==
  ASSUME NEW b, Sound(Bytes, b), NEW n \in Int32, NEW p, Holds(getBufferString(b), p, htonl(n)),
         NEW beyond
  PROVE  getInt32FromNetByte(b, b.m_read_index + p, beyond) = n
<1>1. n \in Int
  BY ModulusFacts DEF Int32
<1>2. htonl(n) \in Seq(Bytes) /\ Len(htonl(n)) = IntSize
  BY <1>1, HtonlType
<1>3. Cells(b, b.m_read_index + p, Len(htonl(n)), beyond) = htonl(n)
  BY <1>2, CellsHeld
<1> QED
  BY <1>2, <1>3, ReadsInt

(* The least element of a set of integers.                                 *)
LEMMA LeastIs ==
  ASSUME NEW S, NEW m \in S, S \subseteq Int, \A i \in S : m <= i
  PROVE  Min(S) = m
<1>1. Min(S) \in S /\ \A i \in S : Min(S) <= i
  BY DEF Min
<1>2. Min(S) <= m /\ m <= Min(S) /\ m \in Int /\ Min(S) \in Int
  BY <1>1
<1> QED
  BY <1>2

(* x and behind it V are the unread bytes of b.                            *)
Unread(b, x, V) == getBufferString(b) = x \o V

(* The fields of a frame that is all there are those of the data.          *)
LEMMA FieldsWhole ==
  ASSUME NEW d, Decodable(d), NEW b, Sound(Bytes, b), NEW V \in Seq(Bytes),
         Unread(b, encodePbData(d), V), NEW beyond
  PROVE  /\ Fields(b, b.m_read_index, b.m_read_index + PkLen(d) - 1, beyond)
              = [decode_success |-> TRUE, data |-> d]
         /\ getInt32FromNetByte(b, b.m_read_index + 1, beyond) = PkLen(d)
<1> DEFINE frame == encodePbData(d)
           I == IntSize
           r == b.m_read_index
           n == PkLen(d)
           lm == Len(d.msg_req)
           ls == Len(d.service_full_name)
           le == Len(d.err_info)
           lp == Len(d.pb_data)
           t == getBufferString(b)
           int(index) == getInt32FromNetByte(b, index, beyond)
<1>1. d \in PbData /\ d.msg_req # <<>> /\ 2 * n < Modulus
  BY DEF Decodable
<1>2. /\ n \in Nat /\ lm \in Nat /\ ls \in Nat /\ le \in Nat /\ lp \in Nat
      /\ n = 2 + 6 * I + lm + ls + le + lp
      /\ I \in Nat /\ I > 0 /\ r \in Nat
  BY <1>1, PkLenIs, BaseFacts, SoundFields
<1>3. /\ d.msg_req \in Seq(Bytes) /\ d.service_full_name \in Seq(Bytes)
      /\ d.err_info \in Seq(Bytes) /\ d.pb_data \in Seq(Bytes) /\ d.err_code \in Int32
  BY <1>1, DataTypes
<1>4. lm # 0
  BY <1>1, <1>3
<1>5. n \in Int32 /\ lm \in Int32 /\ ls \in Int32 /\ le \in Int32
  <2> HIDE DEF n, lm, ls, le, lp, I, r, t, frame
  <2>1. lm <= n /\ ls <= n /\ le <= n
    BY <1>2
  <2>2. \A i \in Nat : i <= n => i \in Int32
    BY <1>1, <1>2, SmallInts
  <2> QED
    BY <1>2, <2>1, <2>2
<1>6. frame \in Seq(Bytes) /\ \A i \in Int32 : htonl(i) \in Seq(Bytes)
  <2>1. Int32 \subseteq Int
    BY ModulusFacts DEF Int32
  <2> QED
    BY <1>1, <2>1, FrameLayout, HtonlType
<1>7. /\ Holds(frame, 1, htonl(n))
      /\ Holds(frame, 1 + I, htonl(lm)) /\ Holds(frame, 1 + 2 * I, d.msg_req)
      /\ Holds(frame, 1 + 2 * I + lm, htonl(ls))
      /\ Holds(frame, 1 + 3 * I + lm, d.service_full_name)
      /\ Holds(frame, 1 + 3 * I + lm + ls, htonl(d.err_code))
      /\ Holds(frame, 1 + 4 * I + lm + ls, htonl(le))
      /\ Holds(frame, 1 + 5 * I + lm + ls, d.err_info)
      /\ Holds(frame, 1 + 5 * I + lm + ls + le, d.pb_data)
  BY <1>1, FrameLayout
<1>8. ASSUME NEW p, NEW x \in Seq(Bytes), Holds(frame, p, x) PROVE Holds(t, p, x)
  <2> HIDE DEF frame
  <2>1. Holds(frame \o V, p, x)
    BY <1>6, <1>8, HoldsLeft
  <2> QED
    BY <2>1 DEF frame, Unread
<1>9. ASSUME NEW p, NEW i \in Int32, Holds(frame, p, htonl(i)) PROVE int(r + p) = i
  <2>1. Holds(t, p, htonl(i))
    BY <1>6, <1>8, <1>9
  <2> QED
    BY <2>1, ReadsHeld
<1>10. ASSUME NEW p, NEW x \in Seq(Bytes), Holds(frame, p, x)
       PROVE  Cells(b, r + p, Len(x), beyond) = x
  <2>1. Holds(t, p, x)
    BY <1>8, <1>10
  <2> QED
    BY <2>1, CellsHeld
<1>20. Len(d.msg_req) = lm /\ Len(d.service_full_name) = ls /\ Len(d.err_info) = le
       /\ Len(d.pb_data) = lp
  OBVIOUS
<1>21. d = [msg_req |-> d.msg_req, service_full_name |-> d.service_full_name,
            err_code |-> d.err_code, err_info |-> d.err_info, pb_data |-> d.pb_data]
  BY <1>1 DEF PbData
<1> HIDE DEF frame, I, r, n, lm, ls, le, lp, t, int
<1>11. /\ int(r + 1) = n /\ int(r + (1 + I)) = lm /\ int(r + (1 + 2 * I + lm)) = ls
       /\ int(r + (1 + 3 * I + lm + ls)) = d.err_code
       /\ int(r + (1 + 4 * I + lm + ls)) = le
  BY <1>3, <1>5, <1>7, <1>9, Zenon
<1>12. /\ Cells(b, r + (1 + 2 * I), lm, beyond) = d.msg_req
       /\ Cells(b, r + (1 + 3 * I + lm), ls, beyond) = d.service_full_name
       /\ Cells(b, r + (1 + 5 * I + lm + ls), le, beyond) = d.err_info
       /\ Cells(b, r + (1 + 5 * I + lm + ls + le), lp, beyond) = d.pb_data
  BY <1>3, <1>7, <1>10, <1>20, Zenon
<1> DEFINE start_index == r
           end_index == r + n - 1
           pk_len         == int(start_index + 1)
           msg_req_at     == start_index + 1 + I
           msg_req_len    == int(msg_req_at)
           service_at     == msg_req_at + I + msg_req_len
           service_len    == int(service_at)
           err_code_at    == service_at + I + service_len
           err_info_at    == err_code_at + I
           err_info_len   == int(err_info_at)
           pb_data_at     == err_info_at + I + err_info_len
           pb_data_len    == pk_len - service_len - msg_req_len - err_info_len - 2 - 6 * I
           ok == /\ msg_req_at < end_index /\ msg_req_len # 0
                 /\ service_at + I < end_index /\ service_len <= pk_len
                 /\ err_info_at < end_index /\ pb_data_at < end_index
           data == [msg_req           |-> Cells(b, msg_req_at + I, msg_req_len, beyond),
                    service_full_name |-> Cells(b, service_at + I, service_len, beyond),
                    err_code          |-> int(err_code_at),
                    err_info          |-> Cells(b, err_info_at + I, err_info_len, beyond),
                    pb_data           |-> Cells(b, pb_data_at, pb_data_len, beyond)]
<1>13. Fields(b, r, r + n - 1, beyond) = [decode_success |-> ok, data |-> data]
  BY Zenon DEF Fields, int, I
<1>14. msg_req_at = r + (1 + I) /\ msg_req_len = lm
  <2>1. msg_req_at = r + (1 + I)
    BY <1>2
  <2> QED
    BY <1>11, <2>1
<1> HIDE DEF msg_req_len
<1>15. service_at = r + (1 + 2 * I + lm) /\ service_len = ls
  <2>1. service_at = r + (1 + 2 * I + lm)
    BY <1>2, <1>14
  <2> QED
    BY <1>11, <2>1
<1> HIDE DEF service_len
<1>16. /\ err_code_at = r + (1 + 3 * I + lm + ls) /\ int(err_code_at) = d.err_code
       /\ err_info_at = r + (1 + 4 * I + lm + ls) /\ err_info_len = le
  <2>1. err_code_at = r + (1 + 3 * I + lm + ls)
    BY <1>2, <1>14, <1>15
  <2>2. err_info_at = r + (1 + 4 * I + lm + ls)
    BY <1>2, <1>14, <1>15
  <2> QED
    BY <1>11, <2>1, <2>2
<1> HIDE DEF err_info_len
<1>17. /\ pb_data_at = r + (1 + 5 * I + lm + ls + le) /\ pb_data_len = lp
       /\ pk_len = n
  BY <1>2, <1>11, <1>14, <1>15, <1>16
<1>18. ok = TRUE
  BY <1>2, <1>4, <1>14, <1>15, <1>16, <1>17
<1>19. /\ msg_req_at + I = r + (1 + 2 * I) /\ service_at + I = r + (1 + 3 * I + lm)
       /\ err_info_at + I = r + (1 + 5 * I + lm + ls)
  BY <1>2, <1>14, <1>15, <1>16
<1> HIDE DEF pk_len, msg_req_at, service_at, err_code_at, err_info_at, pb_data_at, pb_data_len, ok
<1>22. data = d
  BY <1>12, <1>14, <1>15, <1>16, <1>17, <1>19, <1>21, Zenon
<1>23. Fields(b, r, r + n - 1, beyond) = [decode_success |-> TRUE, data |-> d]
  BY <1>13, <1>18, <1>22, Zenon
<1> QED
  BY <1>11, <1>23 DEF r, n, int

(* decode finds a frame that is all there, and takes it off.               *)
LEMMA DecodeWhole ==
  ASSUME NEW d, Decodable(d), NEW b, Sound(Bytes, b), NEW V \in Seq(Bytes),
         Unread(b, encodePbData(d), V), NEW beyond
  PROVE  decode(b, beyond)
           = [decode_success |-> TRUE, data |-> d, buffer |-> recycleRead(b, PkLen(d))]
<1> DEFINE frame == encodePbData(d)
           r == b.m_read_index
           w == b.m_write_index
           n == PkLen(d)
           t == getBufferString(b)
           F == FrameStarts(b, beyond)
<1>1. d \in PbData
  BY DEF Decodable
<1>2. n \in Nat /\ n >= 2 /\ r \in Nat /\ w \in Nat /\ readAble(b) = w - r
  <2>1. n >= 2
    <3> DEFINE lm == Len(d.msg_req)
               ls == Len(d.service_full_name)
               le == Len(d.err_info)
               lp == Len(d.pb_data)
    <3>1. /\ lm \in Nat /\ ls \in Nat /\ le \in Nat /\ lp \in Nat /\ IntSize \in Nat
          /\ n = 2 + 6 * IntSize + lm + ls + le + lp
      BY <1>1, PkLenIs, BaseFacts
    <3> HIDE DEF n, lm, ls, le, lp
    <3> QED
      BY <3>1
  <2> QED
    BY <1>1, <2>1, PkLenIs, SoundFields
<1>3. /\ frame \in Seq(Bytes) /\ Len(frame) = n /\ frame[1] = PB_START /\ frame[n] = PB_END
  BY <1>1, FrameLayout
<1>4. /\ Len(t) = n + Len(V) /\ Len(V) \in Nat /\ Len(t) = w - r
      /\ t[1] = PB_START /\ t[n] = PB_END
  <2>2. Len(t) = w - r
    BY <1>2, UnreadIs
  <2>4. t = frame \o V
    BY DEF Unread
  <2> HIDE DEF frame, n, t
  <2>1. /\ Len(frame \o V) = Len(frame) + Len(V) /\ Len(V) \in Nat
        /\ \A i \in 1 .. Len(frame) + Len(V) :
             (frame \o V)[i] = IF i <= Len(frame) THEN frame[i] ELSE V[i - Len(frame)]
    <3>1. frame \in Seq(Bytes)
      BY <1>3
    <3>2. Len(V) \in Nat
      OBVIOUS
    <3> QED
      BY <3>1, <3>2, ConcatProperties
  <2>3. 1 \in 1 .. n + Len(V) /\ n \in 1 .. n + Len(V) /\ 1 <= n /\ n <= n
    BY <1>2, <2>1
  <2> QED
    BY <1>3, <2>1, <2>2, <2>3, <2>4
<1>5. EndOf(b, r, beyond) = r + n - 1
  BY <1>2, FieldsWhole DEF EndOf
<1>10. Fields(b, r, r + n - 1, beyond) = [decode_success |-> TRUE, data |-> d]
  BY FieldsWhole
<1> HIDE DEF frame, n, t
<1>6. Cell(b, r, beyond) = PB_START /\ Cell(b, r + n - 1, beyond) = PB_END
  <2>1. \A q \in 0 .. readAble(b) - 1 : Cell(b, r + q, beyond) = t[q + 1]
    BY CellUnread DEF t
  <2>2. /\ 0 \in 0 .. readAble(b) - 1 /\ n - 1 \in 0 .. readAble(b) - 1
        /\ r + 0 = r /\ r + (n - 1) = r + n - 1 /\ 0 + 1 = 1 /\ (n - 1) + 1 = n
    BY <1>2, <1>4
  <2> QED
    BY <1>4, <2>1, <2>2
<1>7. r \in F
  <2>1. r \in b.m_read_index .. b.m_write_index - 2 /\ r + n - 1 < b.m_write_index
    BY <1>2, <1>4
  <2> HIDE DEF r
  <2> QED
    BY <1>5, <1>6, <2>1 DEF FrameStarts
<1>8. \A i \in F : i \in Int /\ r <= i
  BY <1>2 DEF FrameStarts
<1> HIDE DEF F
<1>9. Min(F) = r /\ F # {}
  BY <1>7, <1>8, LeastIs
<1> HIDE DEF r
<1>11. (r + n - 1) + 1 - r = n
  BY <1>2
<1>12. decode(b, beyond) = [decode_success |-> Fields(b, r, EndOf(b, r, beyond), beyond).decode_success,
                           data |-> Fields(b, r, EndOf(b, r, beyond), beyond).data,
                           buffer |-> recycleRead(b, EndOf(b, r, beyond) + 1 - r)]
  BY <1>9, Zenon DEF decode, F
<1> HIDE DEF n
<1> DEFINE fields == [decode_success |-> TRUE, data |-> d]
<1>13. decode(b, beyond) = [decode_success |-> fields.decode_success, data |-> fields.data,
                           buffer |-> recycleRead(b, n)]
  BY <1>5, <1>10, <1>11, <1>12, Zenon
<1> QED
  BY <1>13 DEF n

(* A nonempty set of natural numbers has a least element.                  *)
LEMMA MinIn ==
  ASSUME NEW S \in SUBSET Nat, S # {}
  PROVE  Min(S) \in S /\ \A i \in S : Min(S) <= i
BY LeastNatural DEF Min

(* The first byte of a length that fits is below a half of Base.           *)
LEMMA FirstDigit ==
  ASSUME NEW n \in Nat, 2 * n < Modulus
  PROVE  2 * htonl(n)[1] < Base
<1> DEFINE bytes == htonl(n)
           p == Power[IntSize - 1]
           c == bytes[1]
<1>1. bytes \in [1 .. IntSize -> Bytes] /\ 1 \in 1 .. IntSize
  BY HtonlType, BaseFacts
<1>2. c \in Nat /\ bytes \in [1 .. IntSize -> Nat]
  BY <1>1 DEF Bytes
<1>3. Modulus \in Nat \ {0} /\ n % Modulus = n /\ n \in 0 .. Modulus - 1
  BY ModulusFacts
<1>4. ntohl(bytes) = n
  BY <1>3, NtohlDigits DEF htonl
<1>5. c * p <= n
  <2> HIDE DEF bytes
  <2> QED
    BY <1>1, <1>2, <1>4, NtohlFloor
<1>6. p \in Nat \ {0} /\ Modulus = Base * p /\ Base \in Nat
  <2>1. IntSize - 1 \in 0 .. IntSize
    BY BaseFacts
  <2> QED
    BY <2>1, ModulusFacts, BaseFacts
<1> HIDE DEF bytes, p, c
<1>7. ASSUME Base <= 2 * c PROVE FALSE
  <2>1. Base * p <= (2 * c) * p
    BY <1>2, <1>6, <1>7
  <2>2. (2 * c) * p = 2 * (c * p)
    BY <1>2, <1>6
  <2> DEFINE u == c * p
             v == Base * p
  <2>3. u \in Nat /\ v \in Nat /\ u <= n /\ v <= 2 * u /\ 2 * n < v
    BY <1>2, <1>5, <1>6, <2>1, <2>2
  <2> HIDE DEF u, v
  <2> QED
    BY <2>3
<1> QED
  BY <1>2, <1>6, <1>7 DEF c, bytes

(* No power of Base but the first is below Base.                           *)
LEMMA PowerGrows ==
  ASSUME NEW k \in 1 .. IntSize
  PROVE  Power[k] \in Nat /\ Power[k] >= Base
<1> DEFINE q == Power[k - 1]
<1>1. q \in Nat \ {0} /\ Power[k] = Base * q /\ Base \in Nat
  <2>1. k - 1 \in 0 .. IntSize
    BY BaseFacts
  <2> QED
    BY <2>1, PowerSteps, BaseFacts
<1> HIDE DEF q
<1> QED
  BY <1>1

(* Cells are bytes, those outside the vector too.                          *)
LEMMA CellsType ==
  ASSUME NEW b, Sound(Bytes, b), NEW index \in Nat, NEW k \in Nat, NEW beyond \in Bytes
  PROVE  /\ Cells(b, index, k, beyond) \in [1 .. k -> Bytes]
         /\ \A i \in 1 .. k : Cells(b, index, k, beyond)[i] = Cell(b, index + i - 1, beyond)
<1>1. \A j : Cell(b, j, beyond) \in Bytes
  <2>1. b.m_buffer \in Seq(Bytes) /\ getSize(b) = Len(b.m_buffer) /\ getSize(b) \in Nat
    BY SoundFields
  <2>2. \A j \in 0 .. getSize(b) - 1 : b.m_buffer[j + 1] \in Bytes
    BY <2>1
  <2> QED
    BY <2>2 DEF Cell
<1> QED
  BY <1>1 DEF Cells

(* The unread bytes are the beginning of a frame.                          *)
PartOf(b, x, V) == x = getBufferString(b) \o V

(* decode finds nothing in a part of a frame, and takes nothing off.       *)
LEMMA DecodePart ==
  ASSUME NEW d, Decodable(d), NEW b, Sound(Bytes, b), NEW V \in Seq(Bytes), V # <<>>,
         PartOf(b, encodePbData(d), V), NEW beyond \in Bytes
  PROVE  /\ ~decode(b, beyond).decode_success
         /\ decode(b, beyond).buffer \in {b, recycleRead(b, 0)}
<1> DEFINE frame == encodePbData(d)
           I == IntSize
           r == b.m_read_index
           w == b.m_write_index
           n == PkLen(d)
           u == getBufferString(b)
           m == Len(u)
           F == FrameStarts(b, beyond)
           Failed(i) == ~Fields(b, i, EndOf(b, i, beyond), beyond).decode_success
<1>1. d \in PbData /\ 2 * n < Modulus /\ n \in Nat
  BY PkLenIs DEF Decodable
<1>2. /\ r \in Nat /\ w \in Nat /\ m \in Nat /\ w = r + m
      /\ I \in Nat /\ I > 0 /\ I < Base /\ Base \in Nat /\ Base > 3
  BY UnreadIs, SoundFields, BaseFacts
<1>3. m < n /\ \A i \in 1 .. m : frame[i] = u[i]
  <2>1. u \in Seq(Bytes) /\ Len(frame) = n /\ frame = u \o V
    BY <1>1, UnreadIs, FrameLayout DEF PartOf
  <2> HIDE DEF u, frame, n
  <2>2. /\ Len(u \o V) = Len(u) + Len(V) /\ Len(V) \in Nat /\ Len(V) > 0
        /\ \A i \in 1 .. Len(u) + Len(V) : (u \o V)[i] = IF i <= Len(u) THEN u[i] ELSE V[i - Len(u)]
    <3>1. u \in Seq(Bytes) /\ Len(V) \in Nat /\ Len(V) > 0
      BY <2>1
    <3> QED
      BY <3>1, ConcatProperties
  <2>3. \A i \in 1 .. m : i \in 1 .. Len(u) + Len(V) /\ i <= Len(u)
    BY <1>2, <2>2
  <2> QED
    BY <1>2, <2>1, <2>2, <2>3
<1>4. \A q \in 0 .. m - 1 : Cell(b, r + q, beyond) = frame[q + 1]
  <2> TAKE q \in 0 .. m - 1
  <2>1. q \in 0 .. readAble(b) - 1 /\ q + 1 \in 1 .. m
    BY <1>2, UnreadIs
  <2>2. Cell(b, r + q, beyond) = u[q + 1]
    BY <2>1, CellUnread
  <2> HIDE DEF u, frame
  <2> QED
    BY <1>3, <2>1, <2>2
<1>5. \A i \in 2 .. n - 1 : frame[i] = PB_START =>
        2 * frame[i + 1] < Base /\ frame[i + 1] * Power[I - 1] >= n
  BY DEF Decodable
<1>6. \A j \in 1 .. I : htonl(n)[j] = frame[1 + j]
  <2>1. Holds(frame, 1, htonl(n)) /\ Len(htonl(n)) = I
    BY <1>1, FrameLayout, HtonlType
  <2> QED
    BY <2>1 DEF Holds
<1>7. \A i \in Nat : /\ Cells(b, i + 1, I, beyond) \in [1 .. I -> Bytes]
                     /\ \A j \in 1 .. I : Cells(b, i + 1, I, beyond)[j] = Cell(b, i + j, beyond)
  <2> TAKE i \in Nat
  <2>1. i + 1 \in Nat
    OBVIOUS
  <2>2. \A j \in 1 .. I : (i + 1) + j - 1 = i + j
    BY <1>2
  <2>3. /\ Cells(b, i + 1, I, beyond) \in [1 .. I -> Bytes]
        /\ \A j \in 1 .. I : Cells(b, i + 1, I, beyond)[j] = Cell(b, (i + 1) + j - 1, beyond)
    <3> DEFINE k == i + 1
    <3>1. k \in Nat
      BY <2>1
    <3> HIDE DEF k
    <3>2. /\ Cells(b, k, I, beyond) \in [1 .. I -> Bytes]
          /\ \A j \in 1 .. I : Cells(b, k, I, beyond)[j] = Cell(b, k + j - 1, beyond)
      <4>1. I \in Nat
        BY <1>2
      <4> HIDE DEF I
      <4> QED
        BY <3>1, <4>1, CellsType, Zenon
    <3> QED
      BY <3>2 DEF k
  <2> QED
    BY <2>2, <2>3
<1>8. F \subseteq Nat /\ \A i \in F : /\ i \in r .. w - 2 /\ Cell(b, i, beyond) = PB_START
                                      /\ EndOf(b, i, beyond) < w
                                      /\ Cell(b, EndOf(b, i, beyond), beyond) = PB_END
  <2>1. r .. w - 2 \subseteq Nat
    BY <1>2
  <2> QED
    BY <2>1 DEF FrameStarts
<1> HIDE DEF frame, I, r, w, n, u, m, F
<1>9. ASSUME NEW i \in F
      PROVE  Failed(i) /\ EndOf(b, i, beyond) + 1 - i = 0
  <2> DEFINE q == i - r
             bytes == Cells(b, i + 1, I, beyond)
             L == getInt32FromNetByte(b, i + 1, beyond)
  <2>1. q \in 0 .. m - 2 /\ i = r + q /\ i + 1 = r + (q + 1) /\ i \in Nat /\ q + 1 \in 0 .. m - 1
    BY <1>2, <1>8
  <2>2. frame[q + 1] = PB_START
    <3>1. q \in 0 .. m - 1
      BY <1>2, <2>1
    <3> QED
      BY <1>4, <1>8, <2>1, <3>1
  <2>3. /\ bytes \in [1 .. I -> Bytes] /\ bytes \in [1 .. I -> Nat]
        /\ bytes[1] = frame[q + 2] /\ 1 \in 1 .. I
    <3>1. bytes \in [1 .. I -> Bytes] /\ \A j \in 1 .. I : bytes[j] = Cell(b, i + j, beyond)
      BY <1>7, <2>1
    <3>2. 1 \in 1 .. I /\ (q + 1) + 1 = q + 2 /\ Bytes \subseteq Nat
      BY <1>2, <2>1 DEF Bytes
    <3> HIDE DEF q, bytes
    <3> QED
      BY <1>4, <2>1, <3>1, <3>2
  <2>4. EndOf(b, i, beyond) = i + L - 1
    BY DEF EndOf
  <2>5. 2 * bytes[1] < Base => L = ntohl(bytes) /\ L \in Nat
    <3> HIDE DEF bytes
    <3>1. bytes = Cells(b, i + 1, IntSize, beyond) /\ bytes \in [1 .. IntSize -> Bytes]
      BY <2>3 DEF bytes, I
    <3> QED
      BY <3>1, ReadsNat
  <2>6. \A j \in 1 .. I : bytes[j] * Power[I - j] <= ntohl(bytes)
    <3> HIDE DEF bytes
    <3> QED
      BY <2>3, NtohlFloor DEF I
  <2> HIDE DEF q, bytes, L
  <2>7. CASE q > 0
    <3>1. q + 1 \in 2 .. n - 1 /\ (q + 1) + 1 = q + 2
      BY <1>1, <1>2, <1>3, <2>1, <2>7
    <3>2. 2 * bytes[1] < Base /\ bytes[1] * Power[I - 1] >= n
      BY <1>5, <2>2, <2>3, <3>1
    <3>3. L \in Nat /\ L >= bytes[1] * Power[I - 1]
      BY <2>3, <2>5, <2>6, <3>2
    <3> DEFINE z == bytes[1] * Power[I - 1]
    <3>4. z \in Int
      <4>1. I - 1 \in 0 .. IntSize
        BY <1>2 DEF I
      <4> QED
        BY <2>3, <4>1, ModulusFacts
    <3>5. z >= n /\ L >= z
      BY <3>2, <3>3
    <3> HIDE DEF z
    <3>6. L >= n
      BY <1>1, <3>3, <3>4, <3>5
    <3> QED
      BY <1>1, <1>2, <1>3, <1>8, <2>1, <2>4, <2>7, <3>3, <3>6
  <2>8. CASE q = 0
    <3>1. i = r /\ frame[q + 2] = htonl(n)[1]
      <4>1. q + 2 = 1 + 1
        BY <2>8
      <4> QED
        BY <1>2, <1>6, <2>1, <2>3, <2>8, <4>1
    <3>2. 2 * bytes[1] < Base
      BY <1>1, <2>3, <3>1, FirstDigit
    <3>3. L = ntohl(bytes) /\ L \in Nat /\ L <= m
      BY <1>2, <1>8, <2>4, <2>5, <3>1, <3>2
    <3>4. L # 1
      <4>1. SUFFICES ASSUME L = 1 PROVE FALSE
        OBVIOUS
      <4>2. EndOf(b, i, beyond) = i
        BY <2>1, <2>4, <4>1
      <4> QED
        BY <1>8, <4>2 DEF PB_START, PB_END
    <3>5. \A j \in 1 .. I : j <= m - 1 => bytes[j] = htonl(n)[j]
      <4> TAKE j \in 1 .. I
      <4>1. HAVE j <= m - 1
      <4>2. bytes[j] = Cell(b, r + j, beyond)
        BY <1>7, <2>1, <3>1 DEF bytes
      <4>3. j \in 0 .. m - 1 /\ j + 1 = 1 + j
        BY <1>2, <4>1
      <4> QED
        BY <1>4, <1>6, <4>2, <4>3
    <3>6. ~(L >= 2)
      <4>1. SUFFICES ASSUME L >= 2 PROVE FALSE
        OBVIOUS
      <4>2. CASE m - 1 >= I
        <5>1. \A j \in 1 .. I : bytes[j] = htonl(n)[j]
          BY <1>2, <3>5, <4>2
        <5>2. htonl(n) \in [1 .. I -> Bytes]
          BY <1>1, HtonlType DEF I
        <5>3. bytes = htonl(n)
          <6>1. /\ bytes = [j \in 1 .. I |-> bytes[j]]
                /\ htonl(n) = [j \in 1 .. I |-> htonl(n)[j]]
            BY <2>3, <5>2
          <6>2. [j \in 1 .. I |-> bytes[j]] = [j \in 1 .. I |-> htonl(n)[j]]
            BY <5>1
          <6> QED
            BY <6>1, <6>2, Zenon
        <5>4. n \in Int32
          BY <1>1, SmallInts
        <5>5. Cells(b, i + 1, IntSize, beyond) = htonl(n)
          BY <5>3 DEF bytes, I
        <5>6. L = n
          BY <5>4, <5>5, ReadsInt DEF L
        <5> QED
          BY <1>1, <1>2, <1>3, <3>3, <5>6
      <4>3. CASE ~(m - 1 >= I)
        <5> DEFINE j == L - 1
        <5>1. /\ j \in 1 .. I /\ j <= m - 1 /\ j \in 0 .. m - 1 /\ I - j \in 1 .. I
              /\ EndOf(b, i, beyond) = r + j /\ L <= I /\ j + 1 = 1 + j
          BY <1>2, <2>1, <2>4, <3>1, <3>3, <4>1, <4>3
        <5> HIDE DEF j
        <5>2. bytes[j] = 3
          <6>1. Cell(b, r + j, beyond) = PB_END
            BY <1>8, <5>1
          <6>2. frame[1 + j] = PB_END
            BY <1>4, <5>1, <6>1
          <6> QED
            BY <1>6, <3>5, <5>1, <6>2 DEF PB_END
        <5> DEFINE p == Power[I - j]
        <5>3. p \in Nat /\ p >= Base
          BY <5>1, PowerGrows DEF I
        <5>4. 3 * p <= L
          BY <2>6, <3>3, <5>1, <5>2
        <5> HIDE DEF p
        <5> QED
          BY <1>2, <3>3, <5>1, <5>3, <5>4
      <4> QED
        BY <4>2, <4>3
    <3>7. L = 0
      BY <3>3, <3>4, <3>6
    <3>8. EndOf(b, i, beyond) = i - 1
      BY <2>1, <2>4, <3>7
    <3>9. Failed(i)
      <4>1. ~(i + 1 + I < i - 1)
        BY <1>2, <2>1
      <4>2. ~(i + 1 + IntSize < i - 1)
        BY <4>1 DEF I
      <4> QED
        BY <3>8, <4>2 DEF Fields
    <3> QED
      BY <2>1, <3>8, <3>9
  <2> QED
    BY <2>1, <2>7, <2>8
<1> HIDE DEF Failed
<1>10. CASE F = {}
  <2>1. decode(b, beyond) = [decode_success |-> FALSE, data |-> <<>>, buffer |-> b]
    BY <1>10 DEF decode, F
  <2> QED
    BY <2>1
<1>11. CASE F # {}
  <2> DEFINE i == Min(F)
             e == EndOf(b, i, beyond)
  <2>1. i \in F
    BY <1>8, <1>11, MinIn
  <2> HIDE DEF i
  <2>2. ~Fields(b, i, e, beyond).decode_success /\ e + 1 - i = 0
    BY <1>9, <2>1 DEF Failed
  <2> HIDE DEF e
  <2>3. decode(b, beyond) = [decode_success |-> Fields(b, i, e, beyond).decode_success,
                             data |-> Fields(b, i, e, beyond).data,
                             buffer |-> recycleRead(b, e + 1 - i)]
    BY <1>11, Zenon DEF decode, F, i, e
  <2> QED
    BY <2>2, <2>3
<1> QED
  BY <1>10, <1>11

-----------------------------------------------------------------------------
(* What is found in a text.                                                *)

(* A part of a sequence.                                                   *)
LEMMA PartIs ==
  ASSUME NEW S, NEW U \in Seq(S), NEW i \in Nat, NEW n \in Nat, i + n <= Len(U)
  PROVE  /\ SubSeq(U, i + 1, i + n) \in Seq(S) /\ Len(SubSeq(U, i + 1, i + n)) = n
         /\ \A j \in 1 .. n : SubSeq(U, i + 1, i + n)[j] = U[i + j]
OBVIOUS

(* A part of one element.                                                  *)
LEMMA OneIs ==
  ASSUME NEW S, NEW U \in Seq(S), NEW i \in 1 .. Len(U)
  PROVE  SubSeq(U, i, i) = <<U[i]>>
<1>1. i - 1 \in Nat /\ (i - 1) + 1 = i /\ (i - 1) + 1 <= Len(U) /\ U[i] \in S
  OBVIOUS
<1>2. SubSeq(U, i, i) \in Seq(S) /\ Len(SubSeq(U, i, i)) = 1 /\ SubSeq(U, i, i)[1] = U[i]
  OBVIOUS
<1>3. <<U[i]>> \in Seq(S) /\ Len(<<U[i]>>) = 1 /\ <<U[i]>>[1] = U[i]
  BY <1>1
<1> DEFINE s == SubSeq(U, i, i)
           t == <<U[i]>>
<1>4. s \in Seq(S) /\ t \in Seq(S) /\ Len(s) = Len(t) /\ \A j \in 1 .. Len(s) : s[j] = t[j]
  <2>1. s \in Seq(S) /\ t \in Seq(S) /\ Len(s) = 1 /\ Len(t) = 1 /\ s[1] = t[1]
    BY <1>2, <1>3
  <2> HIDE DEF s, t
  <2> QED
    BY <2>1
<1> HIDE DEF s, t
<1>5. s = t
  BY <1>4, SeqEqual
<1> QED
  BY <1>5 DEF s, t

(* A pattern is at a place when its elements are.                          *)
LEMMA PlaceIs ==
  ASSUME NEW S, NEW U \in Seq(S), NEW pat \in Seq(S), NEW i \in 0 .. Len(U) - Len(pat)
  PROVE  SubSeq(U, i + 1, i + Len(pat)) = pat <=> \A j \in 1 .. Len(pat) : U[i + j] = pat[j]
<1> DEFINE n == Len(pat)
           s == SubSeq(U, i + 1, i + n)
<1>1. n \in Nat /\ Len(U) \in Nat /\ i \in Nat /\ i + n <= Len(U)
  OBVIOUS
<1> HIDE DEF n
<1>2. s \in Seq(S) /\ Len(s) = n /\ \A j \in 1 .. n : s[j] = U[i + j]
  BY <1>1, PartIs
<1> HIDE DEF s
<1>3. s = pat <=> \A j \in 1 .. n : s[j] = pat[j]
  BY <1>2, SeqEqual DEF n
<1> QED
  BY <1>2, <1>3 DEF s, n

(* find returns the first place where its pattern can be.                  *)
LEMMA FindIs ==
  ASSUME NEW S, NEW U \in Seq(S), NEW pat \in Seq(S), pat # <<>>, NEW a \in Nat,
         \A i \in 1 .. a : i <= Len(U) => U[i] # pat[1],
         a + Len(pat) <= Len(U) => \A j \in 1 .. Len(pat) : U[a + j] = pat[j]
  PROVE  /\ find(U, pat) = IF a + Len(pat) <= Len(U) THEN a ELSE npos
         /\ \A i \in Places(U, pat) : a <= i
<1> DEFINE n == Len(pat)
           P == Places(U, pat)
<1>1. n \in Nat /\ n > 0 /\ Len(U) \in Nat
  OBVIOUS
<1>2. \A i : i \in P <=> i \in 0 .. Len(U) - n /\ \A j \in 1 .. n : U[i + j] = pat[j]
  <2> TAKE i
  <2>1. i \in P <=> i \in 0 .. Len(U) - n /\ SubSeq(U, i + 1, i + n) = pat
    BY DEF Places
  <2>2. i \in 0 .. Len(U) - n =>
          (SubSeq(U, i + 1, i + n) = pat <=> \A j \in 1 .. n : U[i + j] = pat[j])
    BY PlaceIs
  <2> HIDE DEF P, n
  <2> QED
    BY <2>1, <2>2
<1> HIDE DEF P, n
<1>3. \A i \in P : i \in Nat /\ a <= i /\ i + n <= Len(U)
  <2> TAKE i \in P
  <2>1. i \in 0 .. Len(U) - n /\ U[i + 1] = pat[1]
    BY <1>1, <1>2
  <2>2. i + 1 \in 1 .. Len(U)
    BY <1>1, <2>1
  <2>3. ~(i + 1 <= a)
    BY <2>1, <2>2
  <2> QED
    BY <1>1, <2>1, <2>3
<1>4. CASE a + n <= Len(U)
  <2>1. a \in P
    BY <1>1, <1>2, <1>4 DEF n
  <2>2. P \subseteq Int /\ \A i \in P : a <= i
    BY <1>3
  <2>3. Min(P) = a /\ P # {}
    BY <2>1, <2>2, LeastIs
  <2>4. find(U, pat) = a
    BY <2>3 DEF find, P
  <2> QED
    BY <1>4, <2>2, <2>4 DEF n, P
<1>5. CASE ~(a + n <= Len(U))
  <2>1. P = {}
    BY <1>1, <1>3, <1>5
  <2>2. find(U, pat) = npos
    BY <2>1 DEF find, P
  <2> QED
    BY <1>5, <2>1, <2>2 DEF n, P
<1> QED
  BY <1>4, <1>5

-----------------------------------------------------------------------------
(* The header of a request.                                                *)

HeaderText(k) == <<CONTENT_LENGTH, COLON, DIGIT0 + k>>

(* The header of a request: one key, one digit.                            *)
LEMMA HeaderIs ==
  ASSUME NEW k \in 0 .. 9
  PROVE  /\ HeaderText(k) \in Seq(Nat) /\ Len(HeaderText(k)) = 3
         /\ HeaderText(k)[1] = CONTENT_LENGTH /\ HeaderText(k)[2] = COLON
         /\ HeaderText(k)[3] = DIGIT0 + k
BY DEF HeaderText, CONTENT_LENGTH, COLON, DIGIT0

(* The header is one line.                                                 *)
LEMMA HeaderPieces ==
  ASSUME NEW k \in 0 .. 9
  PROVE  SplitStrToVector(HeaderText(k), g_CRLF) = <<HeaderText(k)>>
<1> DEFINE str == HeaderText(k)
           split_str == g_CRLF
           found(from) == {i \in from .. Len(str) - 1 : str[i + 1] \in Range(split_str)}
           Is(f) == f = [from \in 0 .. Len(str) + Len(split_str) |->
                      IF from >= Len(str) THEN <<>>
                      ELSE IF found(from) = {} THEN <<SubSeq(str, from + 1, Len(str))>>
                      ELSE LET i == Min(found(from))
                           IN  (IF i = from THEN <<>> ELSE <<substr(str, from, i - from)>>)
                                 \o f[i + Len(split_str)]]
           e == [from \in 0 .. Len(str) + Len(split_str) |->
                   IF from >= Len(str) THEN <<>> ELSE <<SubSeq(str, from + 1, Len(str))>>]
<1>1. /\ str \in Seq(Nat) /\ Len(str) = 3 /\ Len(split_str) = 2
      /\ \A i \in 0 .. 2 : str[i + 1] \notin Range(split_str)
  <2>1. Range(split_str) = {CR, LF} /\ Len(split_str) = 2
    <3>1. /\ DOMAIN split_str = {1, 2} /\ split_str[1] = CR /\ split_str[2] = LF
          /\ Len(split_str) = 2
      BY DEF g_CRLF
    <3> HIDE DEF split_str
    <3> QED
      BY <3>1 DEF Range
  <2>2. \A i \in 1 .. 3 : str[i] \notin {CR, LF}
    <3>1. str[1] = 36 /\ str[2] = 58 /\ str[3] = 48 + k
      BY HeaderIs DEF CONTENT_LENGTH, COLON, DIGIT0
    <3> HIDE DEF str
    <3>2. \A i \in 1 .. 3 : i = 1 \/ i = 2 \/ i = 3
      OBVIOUS
    <3> QED
      BY <3>1, <3>2 DEF CR, LF
  <2> HIDE DEF str, split_str
  <2>3. \A i \in 0 .. 2 : i + 1 \in 1 .. 3
    OBVIOUS
  <2> QED
    BY <2>1, <2>2, <2>3, HeaderIs DEF str
<1> HIDE DEF str, split_str
<1>2. \A from \in 0 .. Len(str) + Len(split_str) : found(from) = {}
  BY <1>1
<1>3. Is(e)
  <2> HIDE DEF found
  <2> QED
    BY <1>2
<1> DEFINE g == CHOOSE f : Is(f)
<1>4. Is(g)
  <2> HIDE DEF Is
  <2> QED
    BY <1>3
<1>5. SplitStrToVector(str, split_str) = g[0]
  BY DEF SplitStrToVector
<1> HIDE DEF g
<1>6. g[0] = <<SubSeq(str, 1, 3)>>
  <2>1. 0 \in 0 .. Len(str) + Len(split_str) /\ ~(0 >= Len(str)) /\ found(0) = {}
    BY <1>1, <1>2
  <2> HIDE DEF found
  <2>2. g[0] = <<SubSeq(str, 0 + 1, Len(str))>>
    BY <1>4, <2>1
  <2> QED
    BY <1>1, <2>2
<1>7. SubSeq(str, 1, 3) = str
  BY <1>1
<1> QED
  BY <1>5, <1>6, <1>7 DEF str, split_str

(* Its key is mapped to its digit.                                         *)
LEMMA HeaderMap ==
  ASSUME NEW k \in 0 .. 9
  PROVE  LET map == SplitStrToMap(HeaderText(k), g_CRLF, <<COLON>>)
         IN  /\ <<CONTENT_LENGTH>> \in DOMAIN map
             /\ map[<<CONTENT_LENGTH>>] = <<DIGIT0 + k>>
<1> DEFINE str == HeaderText(k)
           joiner == <<COLON>>
           pieces == SplitStrToVector(str, g_CRLF)
           key(n) == substr(pieces[n], 0, find(pieces[n], joiner))
           value(n) == SubSeq(pieces[n], find(pieces[n], joiner) + Len(joiner) + 1, Len(pieces[n]))
           Is(map) == map = [n \in 0 .. Len(pieces) |->
                        IF n = 0 THEN <<>>
                        ELSE IF find(pieces[n], joiner) <= 0 THEN map[n - 1]
                        ELSE [c \in DOMAIN map[n - 1] \cup {key(n)} |->
                                IF c = key(n) THEN value(n) ELSE map[n - 1][c]]]
<1>1. pieces = <<str>>
  BY HeaderPieces
<1>2. /\ find(str, joiner) = 1 /\ substr(str, 0, 1) = <<CONTENT_LENGTH>>
      /\ SubSeq(str, 3, 3) = <<DIGIT0 + k>> /\ Len(str) = 3 /\ Len(joiner) = 1
  <2>1. /\ str \in Seq(Nat) /\ Len(str) = 3 /\ str[1] = 36 /\ str[2] = 58 /\ str[3] = 48 + k
    BY HeaderIs DEF CONTENT_LENGTH, COLON, DIGIT0
  <2>2. joiner \in Seq(Nat) /\ joiner # <<>> /\ Len(joiner) = 1 /\ joiner[1] = 58
    BY DEF COLON
  <2> HIDE DEF str, joiner
  <2>3. find(str, joiner) = IF 1 + Len(joiner) <= Len(str) THEN 1 ELSE npos
    <3>1. \A i \in 1 .. 1 : i <= Len(str) => str[i] # joiner[1]
      BY <2>1, <2>2
    <3>2. \A j \in 1 .. Len(joiner) : str[1 + j] = joiner[j]
      BY <2>1, <2>2
    <3> QED
      BY <2>1, <2>2, <3>1, <3>2, FindIs, ZenonT(40)
  <2>4. SubSeq(str, 1, 1) = <<36>> /\ SubSeq(str, 3, 3) = <<48 + k>>
    <3>1. 1 \in 1 .. Len(str) /\ 3 \in 1 .. Len(str)
      BY <2>1
    <3>2. SubSeq(str, 1, 1) = <<str[1]>> /\ SubSeq(str, 3, 3) = <<str[3]>>
      BY <2>1, <3>1, OneIs
    <3> QED
      BY <2>1, <3>2
  <2> QED
    BY <2>1, <2>2, <2>3, <2>4 DEF substr, CONTENT_LENGTH, DIGIT0
<1> HIDE DEF str, joiner, pieces
<1> DEFINE K == <<CONTENT_LENGTH>>
           v == <<DIGIT0 + k>>
           m == [c \in DOMAIN <<>> \cup {K} |-> IF c = K THEN v ELSE <<>>[c]]
           e == [n \in 0 .. 1 |-> IF n = 0 THEN <<>> ELSE m]
<1>3. /\ Len(pieces) = 1 /\ find(pieces[1], joiner) = 1 /\ key(1) = K /\ value(1) = v
      /\ ~(find(pieces[1], joiner) <= 0)
  <2>1. Len(pieces) = 1 /\ pieces[1] = str
    BY <1>1
  <2>2. find(pieces[1], joiner) = 1
    BY <1>2, <2>1
  <2>3. key(1) = K
    BY <1>2, <2>1, <2>2
  <2>4. value(1) = SubSeq(str, 1 + 1 + 1, 3)
    BY <1>2, <2>1, <2>2, Zenon
  <2>5. 1 + 1 + 1 = 3
    OBVIOUS
  <2> QED
    BY <1>2, <2>1, <2>2, <2>3, <2>4, <2>5
<1> HIDE DEF key, value, K, v
<1>4. Is(e)
  <2> DEFINE B(n) == IF n = 0 THEN <<>>
                     ELSE IF find(pieces[n], joiner) <= 0 THEN e[n - 1]
                     ELSE [c \in DOMAIN e[n - 1] \cup {key(n)} |->
                             IF c = key(n) THEN value(n) ELSE e[n - 1][c]]
  <2>1. e[0] = <<>> /\ e[1] = m /\ e = [n \in 0 .. 1 |-> e[n]]
    OBVIOUS
  <2>2. 1 # 0 /\ 1 - 1 = 0 /\ \A n \in 0 .. 1 : n = 0 \/ n = 1
    OBVIOUS
  <2> HIDE DEF e
  <2>3. B(0) = e[0]
    BY <2>1
  <2>4. B(1) = e[1]
    <3> DEFINE x == e[1 - 1]
    <3>1. x = <<>>
      BY <2>1, <2>2
    <3>2. B(1) = [c \in DOMAIN x \cup {key(1)} |-> IF c = key(1) THEN value(1) ELSE x[c]]
      BY <1>3, <2>2, Zenon
    <3> HIDE DEF B, x
    <3>3. B(1) = m
      BY <1>3, <3>1, <3>2, Zenon
    <3> QED
      BY <2>1, <3>3
  <2>5. \A n \in 0 .. 1 : B(n) = e[n]
    <3> HIDE DEF B
    <3> QED
      BY <2>2, <2>3, <2>4
  <2> HIDE DEF B
  <2>6. e = [n \in 0 .. 1 |-> B(n)]
    BY <2>1, <2>5
  <2> QED
    BY <1>3, <2>6, Zenon DEF B
<1> DEFINE g == CHOOSE f : Is(f)
<1>5. Is(g)
  <2> HIDE DEF Is
  <2> QED
    BY <1>4
<1>6. SplitStrToMap(str, g_CRLF, joiner) = g[Len(pieces)]
  BY Zenon DEF SplitStrToMap, pieces, key, value
<1> HIDE DEF g
<1>7. g[1] = m
  <2>1. /\ 0 \in 0 .. Len(pieces) /\ 1 \in 0 .. Len(pieces) /\ 1 # 0 /\ 1 - 1 = 0
    BY <1>3
  <2>2. g[0] = <<>>
    BY <1>5, <2>1, Zenon
  <2>3. g[1] = [c \in DOMAIN g[1 - 1] \cup {key(1)} |-> IF c = key(1) THEN value(1) ELSE g[1 - 1][c]]
    BY <1>3, <1>5, <2>1, Zenon
  <2> QED
    BY <1>3, <2>1, <2>2, <2>3, Zenon
<1>8. K \in DOMAIN m /\ m[K] = v
  OBVIOUS
<1> HIDE DEF m
<1> QED
  BY <1>3, <1>6, <1>7, <1>8, Zenon DEF str, joiner, K, v

(* parseHttpRequestHeader returns the digit.                               *)
LEMMA HeaderNumber ==
  ASSUME NEW k \in 0 .. 9
  PROVE  parseHttpRequestHeader(HeaderText(k)) = k
<1> DEFINE text == <<DIGIT0 + k>>
           Is(f) == f = [n \in 0 .. Len(text) |-> IF n = 0 THEN 0 ELSE 10 * f[n - 1] + text[n] - DIGIT0]
           e == [n \in 0 .. 1 |-> IF n = 0 THEN 0 ELSE k]
<1>1. Len(text) = 1 /\ text[1] = DIGIT0 + k
  OBVIOUS
<1> HIDE DEF text
<1>2. Is(e)
  <2>1. e[0] = 0 /\ e[1] = k /\ \A n \in 0 .. 1 : n = 0 \/ n = 1
    OBVIOUS
  <2>2. e = [n \in 0 .. 1 |-> e[n]]
    OBVIOUS
  <2> HIDE DEF e
  <2>3. \A n \in 0 .. 1 : e[n] = IF n = 0 THEN 0 ELSE 10 * e[n - 1] + text[n] - DIGIT0
    BY <1>1, <2>1 DEF DIGIT0
  <2> QED
    BY <1>1, <2>2, <2>3
<1> DEFINE g == CHOOSE f : Is(f)
<1>3. Is(g)
  <2> HIDE DEF Is
  <2> QED
    BY <1>2
<1>4. atoi(text) = g[1]
  BY <1>1 DEF atoi
<1> HIDE DEF g
<1>5. g[1] = k
  <2>1. g[0] = 0
    BY <1>1, <1>3
  <2>2. g[1] = 10 * g[0] + text[1] - DIGIT0
    BY <1>1, <1>3
  <2> QED
    BY <1>1, <2>1, <2>2 DEF DIGIT0
<1>6. atoi(<<DIGIT0 + k>>) = k
  BY <1>4, <1>5 DEF text
<1> QED
  BY <1>6, HeaderMap DEF parseHttpRequestHeader

(* The parts of a request's text, and where each of them begins.           *)
LEMMA RequestLayout ==
  ASSUME NEW r, WellFormed(r)
  PROVE  LET X == RequestText(r)
             p == Len(r.path)
             k == r.content_length
         IN  /\ X \in Seq(Nat) /\ Len(X) = 13 + p + k
             /\ Holds(X, 0, <<r.method, SP>>) /\ Holds(X, 2, r.path)
             /\ Holds(X, 2 + p, <<SP, HTTP_1_1>>) /\ Holds(X, 4 + p, g_CRLF)
             /\ Holds(X, 6 + p, HeaderText(k)) /\ Holds(X, 9 + p, g_CRLF_DOUBLE)
             /\ Holds(X, 13 + p, r.body)
             /\ p \in Nat /\ p > 0 /\ k \in 0 .. 9 /\ r.path \in Seq(Nat)
             /\ r.method \in {GET, POST} /\ r.body \in Seq(Nat) /\ Len(r.body) = k
<1> DEFINE p == Len(r.path)
           k == r.content_length
           s0 == <<r.method, SP>>
           pa == r.path
           s2 == <<SP, HTTP_1_1>>
           s3 == g_CRLF
           s4 == HeaderText(k)
           s5 == g_CRLF_DOUBLE
           bo == r.body
           f1 == s0 \o pa
           f2 == f1 \o s2
           f3 == f2 \o s3
           f4 == f3 \o s4
           f5 == f4 \o s5
           f6 == f5 \o bo
           S == Nat
<1>1. /\ r.method \in {GET, POST} /\ pa \in Seq(Nat) /\ pa # <<>> /\ k \in 0 .. 9
      /\ bo \in Seq(Nat) /\ Len(bo) = k
  <2>1. /\ r.method \in {GET, POST} /\ r.path \in Seq(Nat \ {SP, CR}) /\ r.path # <<>>
        /\ r.content_length \in 0 .. 9 /\ r.body \in Seq(Nat) /\ Len(r.body) = r.content_length
    BY DEF WellFormed, HttpData
  <2>2. \A s \in Seq(Nat \ {SP, CR}) : s \in Seq(Nat)
    OBVIOUS
  <2> QED
    BY <2>1, <2>2
<1>2. p \in Nat /\ p > 0 /\ Len(pa) = p
  BY <1>1
<1>3. /\ s0 \in Seq(S) /\ Len(s0) = 2 /\ s2 \in Seq(S) /\ Len(s2) = 2
      /\ s3 \in Seq(S) /\ Len(s3) = 2 /\ pa \in Seq(S) /\ bo \in Seq(S)
  BY <1>1 DEF GET, POST, SP, HTTP_1_1, g_CRLF, CR, LF
<1>4. s4 \in Seq(S) /\ Len(s4) = 3
  BY <1>1, HeaderIs
<1>5. s5 \in Seq(S) /\ Len(s5) = 4
  <2>1. g_CRLF \o g_CRLF \in Seq(S) /\ Len(g_CRLF \o g_CRLF) = Len(g_CRLF) + Len(g_CRLF)
    BY <1>3, OneMore
  <2> QED
    BY <1>3, <2>1 DEF g_CRLF_DOUBLE
<1>6. RequestText(r) = f6
  BY DEF RequestText, HeaderText
<1> HIDE DEF p, k, s0, pa, s2, s3, s4, s5, bo, S
<1>11. /\ f1 \in Seq(S) /\ Len(f1) = 2 + p /\ Holds(f1, 0, s0) /\ Holds(f1, 2, pa)
  <2>1. Holds(s0, 0, s0)
    BY <1>3 DEF Holds
  <2>2. Holds(f1, 0, s0)
    BY <1>3, <2>1, HoldsLeft
  <2>3. f1 \in Seq(S) /\ Len(f1) = Len(s0) + Len(pa) /\ Holds(f1, Len(s0), pa)
    BY <1>3, OneMore
  <2> QED
    BY <1>2, <1>3, <2>2, <2>3
<1> HIDE DEF f1
<1>12. f2 \in Seq(S) /\ Len(f2) = 4 + p /\ Extends(S, f2, f1) /\ Holds(f2, 2 + p, s2)
  <2>1. f2 \in Seq(S) /\ Len(f2) = Len(f1) + Len(s2) /\ Extends(S, f2, f1) /\ Holds(f2, Len(f1), s2)
    BY <1>3, <1>11, OneMore
  <2> QED
    BY <1>2, <1>3, <1>11, <2>1
<1> HIDE DEF f2
<1>13. f3 \in Seq(S) /\ Len(f3) = 6 + p /\ Extends(S, f3, f2) /\ Holds(f3, 4 + p, s3)
  <2>1. f3 \in Seq(S) /\ Len(f3) = Len(f2) + Len(s3) /\ Extends(S, f3, f2) /\ Holds(f3, Len(f2), s3)
    BY <1>3, <1>12, OneMore
  <2> QED
    BY <1>2, <1>3, <1>12, <2>1
<1> HIDE DEF f3
<1>14. f4 \in Seq(S) /\ Len(f4) = 9 + p /\ Extends(S, f4, f3) /\ Holds(f4, 6 + p, s4)
  <2>1. f4 \in Seq(S) /\ Len(f4) = Len(f3) + Len(s4) /\ Extends(S, f4, f3) /\ Holds(f4, Len(f3), s4)
    BY <1>4, <1>13, OneMore
  <2> QED
    BY <1>2, <1>4, <1>13, <2>1
<1> HIDE DEF f4
<1>15. f5 \in Seq(S) /\ Len(f5) = 13 + p /\ Extends(S, f5, f4) /\ Holds(f5, 9 + p, s5)
  <2>1. f5 \in Seq(S) /\ Len(f5) = Len(f4) + Len(s5) /\ Extends(S, f5, f4) /\ Holds(f5, Len(f4), s5)
    BY <1>5, <1>14, OneMore
  <2> QED
    BY <1>2, <1>5, <1>14, <2>1
<1> HIDE DEF f5
<1>16. f6 \in Seq(S) /\ Len(f6) = 13 + p + Len(bo) /\ Extends(S, f6, f5) /\ Holds(f6, 13 + p, bo)
  <2>1. f6 \in Seq(S) /\ Len(f6) = Len(f5) + Len(bo) /\ Extends(S, f6, f5) /\ Holds(f6, Len(f5), bo)
    BY <1>3, <1>15, OneMore
  <2> QED
    BY <1>2, <1>15, <2>1
<1> HIDE DEF f6
<1>17. \A x \in Seq(S), q \in Nat :
         Holds(f1, q, x) \/ Holds(f2, q, x) \/ Holds(f3, q, x) \/ Holds(f4, q, x) \/ Holds(f5, q, x)
           => Holds(f6, q, x)
  BY <1>12, <1>13, <1>14, <1>15, <1>16, Zenon DEF Extends
<1>18. /\ Holds(f6, 0, s0) /\ Holds(f6, 2, pa) /\ Holds(f6, 2 + p, s2) /\ Holds(f6, 4 + p, s3)
       /\ Holds(f6, 6 + p, s4) /\ Holds(f6, 9 + p, s5)
  <2>1. /\ 0 \in Nat /\ 2 \in Nat /\ 2 + p \in Nat /\ 4 + p \in Nat /\ 6 + p \in Nat /\ 9 + p \in Nat
    BY <1>2
  <2> QED
    BY <1>3, <1>4, <1>5, <1>11, <1>12, <1>13, <1>14, <1>15, <1>17, <2>1, Zenon
<1>19. Len(bo) = k /\ k \in 0 .. 9
  BY <1>1
<1> QED
  BY <1>1, <1>2, <1>6, <1>16, <1>18, <1>19 DEF p, k, s0, pa, s2, s3, s4, s5, bo, S

(* The same, character by character.                                       *)
LEMMA RequestChars ==
  ASSUME NEW r, WellFormed(r)
  PROVE  LET X == RequestText(r)
             p == Len(r.path)
             k == r.content_length
         IN  /\ X[1] \in {GET, POST} /\ X[1] = r.method /\ X[2] = SP
             /\ \A i \in 1 .. p : X[2 + i] = r.path[i] /\ r.path[i] \notin {SP, CR}
             /\ X[3 + p] = SP /\ X[4 + p] = HTTP_1_1 /\ X[5 + p] = CR /\ X[6 + p] = LF
             /\ X[7 + p] = CONTENT_LENGTH /\ X[8 + p] = COLON /\ X[9 + p] = DIGIT0 + k
             /\ X[10 + p] = CR /\ X[11 + p] = LF /\ X[12 + p] = CR /\ X[13 + p] = LF
             /\ \A i \in 1 .. k : X[13 + p + i] = r.body[i]
<1> DEFINE X == RequestText(r)
           p == Len(r.path)
           k == r.content_length
<1>1. /\ Holds(X, 0, <<r.method, SP>>) /\ Holds(X, 2, r.path)
      /\ Holds(X, 2 + p, <<SP, HTTP_1_1>>) /\ Holds(X, 4 + p, g_CRLF)
      /\ Holds(X, 6 + p, HeaderText(k)) /\ Holds(X, 9 + p, g_CRLF_DOUBLE)
      /\ Holds(X, 13 + p, r.body) /\ p \in Nat /\ k \in 0 .. 9 /\ Len(r.body) = k
      /\ r.method \in {GET, POST}
  BY RequestLayout
<1>2. \A i \in 1 .. p : r.path[i] \notin {SP, CR}
  <2>1. r.path \in Seq(Nat \ {SP, CR})
    BY DEF WellFormed, HttpData
  <2> QED
    BY <2>1
<1>3. Len(r.path) = p
  OBVIOUS
<1> HIDE DEF X, p, k
<1>4. \A q, a, c : Holds(X, q, <<a, c>>) => q \in Nat /\ X[q + 1] = a /\ X[q + 2] = c
  <2> TAKE q, a, c
  <2>1. Len(<<a, c>>) = 2 /\ <<a, c>>[1] = a /\ <<a, c>>[2] = c /\ 1 \in 1 .. 2 /\ 2 \in 1 .. 2
    OBVIOUS
  <2> QED
    BY <2>1 DEF Holds
<1>5. X[0 + 1] = r.method /\ X[0 + 2] = SP
  BY <1>1, <1>4
<1>6. X[(2 + p) + 1] = SP /\ X[(2 + p) + 2] = HTTP_1_1
  BY <1>1, <1>4
<1>7. X[(4 + p) + 1] = CR /\ X[(4 + p) + 2] = LF
  <2>1. Holds(X, 4 + p, <<CR, LF>>)
    BY <1>1 DEF g_CRLF
  <2> QED
    BY <2>1, <1>4
<1>8. /\ X[(6 + p) + 1] = CONTENT_LENGTH /\ X[(6 + p) + 2] = COLON /\ X[(6 + p) + 3] = DIGIT0 + k
  <2>1. /\ Len(HeaderText(k)) = 3 /\ HeaderText(k)[1] = CONTENT_LENGTH /\ HeaderText(k)[2] = COLON
        /\ HeaderText(k)[3] = DIGIT0 + k
    BY <1>1, HeaderIs
  <2>2. 1 \in 1 .. 3 /\ 2 \in 1 .. 3 /\ 3 \in 1 .. 3
    OBVIOUS
  <2> QED
    BY <1>1, <2>1, <2>2 DEF Holds
<1>9. /\ X[(9 + p) + 1] = CR /\ X[(9 + p) + 2] = LF /\ X[(9 + p) + 3] = CR /\ X[(9 + p) + 4] = LF
  <2> DEFINE s == g_CRLF_DOUBLE
  <2>1. Len(s) = 4 /\ s[1] = CR /\ s[2] = LF /\ s[3] = CR /\ s[4] = LF
    BY DEF g_CRLF_DOUBLE, g_CRLF
  <2>2. 1 \in 1 .. 4 /\ 2 \in 1 .. 4 /\ 3 \in 1 .. 4 /\ 4 \in 1 .. 4
    OBVIOUS
  <2>3. Holds(X, 9 + p, s)
    BY <1>1
  <2> HIDE DEF s
  <2> QED
    BY <2>1, <2>2, <2>3 DEF Holds
<1>10. \A i \in 1 .. p : X[2 + i] = r.path[i]
  BY <1>1, <1>3 DEF Holds
<1>11. \A i \in 1 .. k : X[(13 + p) + i] = r.body[i]
  BY <1>1 DEF Holds
<1>12. /\ 0 + 1 = 1 /\ 0 + 2 = 2 /\ (2 + p) + 1 = 3 + p /\ (2 + p) + 2 = 4 + p
       /\ (4 + p) + 1 = 5 + p /\ (4 + p) + 2 = 6 + p /\ (6 + p) + 1 = 7 + p
       /\ (6 + p) + 2 = 8 + p /\ (6 + p) + 3 = 9 + p /\ (9 + p) + 1 = 10 + p
       /\ (9 + p) + 2 = 11 + p /\ (9 + p) + 3 = 12 + p /\ (9 + p) + 4 = 13 + p
  BY <1>1
<1>13. /\ X[1] = r.method /\ X[2] = SP /\ X[3 + p] = SP /\ X[4 + p] = HTTP_1_1
       /\ X[5 + p] = CR /\ X[6 + p] = LF /\ X[7 + p] = CONTENT_LENGTH /\ X[8 + p] = COLON
       /\ X[9 + p] = DIGIT0 + k /\ X[10 + p] = CR /\ X[11 + p] = LF /\ X[12 + p] = CR
       /\ X[13 + p] = LF
  BY <1>5, <1>6, <1>7, <1>8, <1>9, <1>12
<1> QED
  BY <1>1, <1>2, <1>10, <1>11, <1>13 DEF X, p, k

(* As far as both go, U is X.                                              *)
Matches(U, X) == \A i \in 1 .. Len(X) : i <= Len(U) => U[i] = X[i]

(* The end of the request line is found as soon as it is there.            *)
LEMMA LineFound ==
  ASSUME NEW r, WellFormed(r), NEW U \in Seq(Nat), Matches(U, RequestText(r))
  PROVE  LET p == Len(r.path)
         IN  find(U, g_CRLF) = IF 6 + p <= Len(U) THEN 4 + p ELSE npos
<1> DEFINE X == RequestText(r)
           p == Len(r.path)
           k == r.content_length
<1>1. p \in Nat /\ Len(X) = 13 + p + k /\ k \in 0 .. 9 /\ Len(U) \in Nat
  <2>1. Len(U) \in Nat
    OBVIOUS
  <2> QED
    BY <2>1, RequestLayout
<1>2. /\ X[1] \in {GET, POST} /\ X[2] = SP /\ X[3 + p] = SP /\ X[4 + p] = HTTP_1_1
      /\ X[5 + p] = CR /\ X[6 + p] = LF
      /\ \A i \in 1 .. p : X[2 + i] \notin {SP, CR}
  BY RequestChars
<1>3. g_CRLF \in Seq(Nat) /\ g_CRLF # <<>> /\ Len(g_CRLF) = 2 /\ g_CRLF[1] = CR /\ g_CRLF[2] = LF
  BY DEF g_CRLF, CR, LF
<1>4. \A i \in 1 .. 13 + p : i <= Len(U) => U[i] = X[i]
  <2>1. \A i \in 1 .. Len(X) : i <= Len(U) => U[i] = X[i]
    BY DEF Matches
  <2> HIDE DEF X, p, k
  <2> QED
    BY <1>1, <2>1
<1> HIDE DEF X, p, k
<1>5. ASSUME NEW i \in 1 .. 4 + p PROVE X[i] # CR
  <2>1. CASE i = 1 \/ i = 2 \/ i = 3 + p \/ i = 4 + p
    BY <1>2, <2>1 DEF GET, POST, SP, HTTP_1_1, CR
  <2>2. CASE i \in 3 .. 2 + p
    <3>1. i - 2 \in 1 .. p /\ 2 + (i - 2) = i
      BY <1>1, <2>2
    <3> QED
      BY <1>2, <3>1
  <2> QED
    BY <1>1, <2>1, <2>2
<1>6. \A i \in 1 .. 4 + p : i <= Len(U) => U[i] # g_CRLF[1]
  BY <1>1, <1>3, <1>4, <1>5
<1>7. (4 + p) + Len(g_CRLF) <= Len(U) => \A j \in 1 .. Len(g_CRLF) : U[(4 + p) + j] = g_CRLF[j]
  <2> HAVE (4 + p) + Len(g_CRLF) <= Len(U)
  <2>1. /\ 5 + p \in 1 .. 13 + p /\ 6 + p \in 1 .. 13 + p /\ 5 + p <= Len(U) /\ 6 + p <= Len(U)
        /\ (4 + p) + 1 = 5 + p /\ (4 + p) + 2 = 6 + p
    BY <1>1, <1>3
  <2>2. U[(4 + p) + 1] = CR /\ U[(4 + p) + 2] = LF
    BY <1>2, <1>4, <2>1
  <2>3. \A j \in 1 .. 2 : j = 1 \/ j = 2
    OBVIOUS
  <2> QED
    BY <1>3, <2>2, <2>3
<1>8. find(U, g_CRLF) = IF (4 + p) + Len(g_CRLF) <= Len(U) THEN 4 + p ELSE npos
  <2> DEFINE a == 4 + p
  <2>1. a \in Nat
    BY <1>1
  <2> HIDE DEF a
  <2>2. /\ \A i \in 1 .. a : i <= Len(U) => U[i] # g_CRLF[1]
        /\ a + Len(g_CRLF) <= Len(U) => \A j \in 1 .. Len(g_CRLF) : U[a + j] = g_CRLF[j]
    BY <1>6, <1>7 DEF a
  <2>3. find(U, g_CRLF) = IF a + Len(g_CRLF) <= Len(U) THEN a ELSE npos
    BY <1>3, <2>1, <2>2, FindIs
  <2> QED
    BY <2>3 DEF a
<1>9. (4 + p) + Len(g_CRLF) = 6 + p
  BY <1>1, <1>3
<1> QED
  BY <1>8, <1>9 DEF p

(* The least and the greatest of two numbers.                              *)
LEMMA TwoPlaces ==
  ASSUME NEW a \in Nat, NEW c \in Nat, a < c
  PROVE  Min({a, c}) = a /\ Max({a, c}) = c /\ ~(Cardinality({a, c}) < 2)
<1>1. Min({a, c}) = a
  <2> DEFINE S == {a, c}
  <2>1. a \in S /\ S \subseteq Int /\ \A i \in S : a <= i
    OBVIOUS
  <2> HIDE DEF S
  <2>2. Min(S) = a
    BY <2>1, LeastIs
  <2> QED
    BY <2>2 DEF S
<1>2. Max({a, c}) = c
  <2>1. Max({a, c}) \in {a, c} /\ \A y \in {a, c} : Max({a, c}) >= y
    BY DEF Max
  <2> QED
    BY <2>1
<1>3. Cardinality({a, c}) = 2
  <2>1. IsFiniteSet({a}) /\ Cardinality({a}) = 1
    BY FS_Singleton
  <2>2. Cardinality({a} \cup {c}) = 2
    BY <2>1, FS_AddElement
  <2>3. {a} \cup {c} = {a, c}
    OBVIOUS
  <2> QED
    BY <2>2, <2>3
<1> QED
  BY <1>1, <1>2, <1>3

(* The fields of the request line.                                         *)
LEMMA LineParsed ==
  ASSUME NEW r, WellFormed(r), NEW U \in Seq(Nat), Matches(U, RequestText(r)),
         6 + Len(r.path) <= Len(U)
  PROVE  LET line == parseHttpRequestLine(substr(U, 0, 4 + Len(r.path)))
         IN  line.ok /\ line.method = r.method /\ line.path = r.path
<1> DEFINE X == RequestText(r)
           p == Len(r.path)
           k == r.content_length
           T == substr(U, 0, 4 + p)
<1>1. /\ p \in Nat /\ p > 0 /\ Len(X) = 13 + p + k /\ k \in 0 .. 9 /\ Len(U) \in Nat
      /\ r.method \in {GET, POST} /\ r.path \in Seq(Nat)
  <2>1. Len(U) \in Nat
    OBVIOUS
  <2> QED
    BY <2>1, RequestLayout
<1>2. /\ X[1] = r.method /\ X[2] = SP /\ X[3 + p] = SP /\ X[4 + p] = HTTP_1_1
      /\ \A i \in 1 .. p : X[2 + i] = r.path[i] /\ r.path[i] \notin {SP, CR}
  BY RequestChars
<1>9. 6 + p <= Len(U) /\ Len(r.path) = p
  OBVIOUS
<1>3. \A i \in 1 .. 4 + p : U[i] = X[i]
  <2>1. \A i \in 1 .. Len(X) : i <= Len(U) => U[i] = X[i]
    BY DEF Matches
  <2> HIDE DEF X, p, k
  <2>2. \A i \in 1 .. 4 + p : i \in 1 .. Len(X) /\ i <= Len(U)
    BY <1>1, <1>9
  <2> QED
    BY <2>1, <2>2
<1> HIDE DEF X, p, k
<1>4. T \in Seq(Nat) /\ Len(T) = 4 + p /\ \A i \in 1 .. 4 + p : T[i] = X[i]
  <2> DEFINE a == 4 + p
  <2>1. a \in Nat /\ 0 + a <= Len(U)
    BY <1>1, <1>9
  <2>2. T = SubSeq(U, 0 + 1, 0 + a)
    BY DEF substr
  <2> HIDE DEF a, T
  <2>3. T \in Seq(Nat) /\ Len(T) = a /\ \A j \in 1 .. a : T[j] = U[0 + j]
    BY <2>1, <2>2, PartIs
  <2>4. \A j \in 1 .. a : 0 + j = j
    BY <2>1
  <2> QED
    BY <1>3, <2>3, <2>4 DEF a
<1> HIDE DEF T
<1>5. /\ T[1] = r.method /\ T[2] = SP /\ T[3 + p] = SP /\ T[4 + p] = HTTP_1_1
      /\ \A i \in 1 .. p : T[2 + i] = r.path[i] /\ r.path[i] \notin {SP, CR}
  <2>1. /\ 1 \in 1 .. 4 + p /\ 2 \in 1 .. 4 + p /\ 3 + p \in 1 .. 4 + p /\ 4 + p \in 1 .. 4 + p
        /\ \A i \in 1 .. p : 2 + i \in 1 .. 4 + p
    BY <1>1
  <2> QED
    BY <1>2, <1>4, <2>1
<1>6. Places(T, <<SP>>) = {1, 2 + p}
  <2> DEFINE P == Places(T, <<SP>>)
  <2>1. Len(<<SP>>) = 1 /\ <<SP>>[1] = SP /\ <<SP>> \in Seq(Nat)
    BY DEF SP
  <2>2. \A i : i \in P <=> i \in 0 .. 3 + p /\ T[i + 1] = SP
    <3> TAKE i
    <3>1. i \in P <=> i \in 0 .. Len(T) - Len(<<SP>>)
                      /\ SubSeq(T, i + 1, i + Len(<<SP>>)) = <<SP>>
      BY DEF Places
    <3>2. 0 .. Len(T) - Len(<<SP>>) = 0 .. 3 + p
      BY <1>1, <1>4, <2>1
    <3>3. i \in 0 .. 3 + p =>
            (SubSeq(T, i + 1, i + Len(<<SP>>)) = <<SP>>
               <=> \A j \in 1 .. Len(<<SP>>) : T[i + j] = <<SP>>[j])
      <4> DEFINE pat == <<SP>>
      <4>1. pat \in Seq(Nat)
        BY <2>1
      <4> HIDE DEF pat
      <4>2. i \in 0 .. Len(T) - Len(pat) =>
              (SubSeq(T, i + 1, i + Len(pat)) = pat
                 <=> \A j \in 1 .. Len(pat) : T[i + j] = pat[j])
        BY <1>4, <4>1, PlaceIs, ZenonT(40)
      <4> QED
        BY <3>2, <4>2 DEF pat
    <3>4. (\A j \in 1 .. Len(<<SP>>) : T[i + j] = <<SP>>[j]) <=> T[i + 1] = SP
      <4>1. \A j \in 1 .. Len(<<SP>>) : j = 1
        BY <2>1
      <4>2. 1 \in 1 .. Len(<<SP>>)
        BY <2>1
      <4> QED
        BY <2>1, <4>1, <4>2
    <3> QED
      BY <3>1, <3>2, <3>3, <3>4
  <2> HIDE DEF P
  <2>3. 1 \in P /\ 2 + p \in P
    <3>1. 1 \in 0 .. 3 + p /\ 2 + p \in 0 .. 3 + p /\ 1 + 1 = 2 /\ (2 + p) + 1 = 3 + p
      BY <1>1
    <3> QED
      BY <1>5, <2>2, <3>1
  <2>4. ASSUME NEW i \in P PROVE i = 1 \/ i = 2 + p
    <3>1. i \in 0 .. 3 + p /\ T[i + 1] = SP
      BY <2>2
    <3>2. i # 0
      <4> SUFFICES ASSUME i = 0 PROVE FALSE
        OBVIOUS
      <4>1. T[1] = SP
        BY <3>1
      <4> QED
        BY <1>1, <1>5, <4>1 DEF GET, POST, SP
    <3>3. i # 3 + p
      <4>1. (3 + p) + 1 = 4 + p
        BY <1>1
      <4> QED
        BY <1>5, <3>1, <4>1 DEF HTTP_1_1, SP
    <3>4. ~(i \in 2 .. 1 + p)
      <4> SUFFICES ASSUME i \in 2 .. 1 + p PROVE FALSE
        OBVIOUS
      <4>1. i - 1 \in 1 .. p /\ 2 + (i - 1) = i + 1
        BY <1>1
      <4> QED
        BY <1>5, <3>1, <4>1
    <3> QED
      BY <1>1, <3>1, <3>2, <3>3, <3>4
  <2> QED
    BY <2>3, <2>4 DEF P
<1>7. /\ Min(Places(T, <<SP>>)) = 1 /\ Max(Places(T, <<SP>>)) = 2 + p
      /\ ~(Cardinality(Places(T, <<SP>>)) < 2)
  <2>1. 1 \in Nat /\ 2 + p \in Nat /\ 1 < 2 + p
    BY <1>1
  <2> QED
    BY <1>6, <2>1, TwoPlaces
<1>8. parseHttpRequestLine(T) =
        [ok     |-> /\ substr(T, 0, 1) \in {<<GET>>, <<POST>>}
                    /\ SubSeq(T, (2 + p) + 2, Len(T)) = <<HTTP_1_1>>,
         method |-> T[1],
         path   |-> substr(T, 1 + 1, (2 + p) - 1 - 1)]
  BY <1>7, Zenon DEF parseHttpRequestLine
<1>10. substr(T, 0, 1) = <<r.method>>
  <2>1. 1 \in 1 .. Len(T) /\ 0 + 1 = 1
    BY <1>1, <1>4
  <2>2. SubSeq(T, 1, 1) = <<T[1]>>
    BY <1>4, <2>1, OneIs
  <2> QED
    BY <1>5, <2>1, <2>2 DEF substr
<1>11. SubSeq(T, (2 + p) + 2, Len(T)) = <<HTTP_1_1>>
  <2>1. (2 + p) + 2 = 4 + p /\ Len(T) = 4 + p /\ 4 + p \in 1 .. Len(T)
    BY <1>1, <1>4, SMTT(30)
  <2>2. SubSeq(T, 4 + p, 4 + p) = <<T[4 + p]>>
    BY <1>4, <2>1, OneIs
  <2> QED
    BY <1>5, <2>1, <2>2
<1>12. substr(T, 1 + 1, (2 + p) - 1 - 1) = r.path
  <2> DEFINE s == SubSeq(T, 2 + 1, 2 + p)
  <2>1. 1 + 1 = 2 /\ (2 + p) - 1 - 1 = p /\ 2 + p <= Len(T) /\ 2 \in Nat
    BY <1>1, <1>4
  <2>2. substr(T, 1 + 1, (2 + p) - 1 - 1) = s
    BY <2>1 DEF substr
  <2>3. s \in Seq(Nat) /\ Len(s) = p /\ \A j \in 1 .. p : s[j] = T[2 + j]
    BY <1>1, <1>4, <2>1, PartIs
  <2> HIDE DEF s
  <2>4. \A j \in 1 .. p : s[j] = r.path[j]
    BY <1>5, <2>3
  <2>5. s = r.path
    BY <1>1, <1>9, <2>3, <2>4, SeqEqual
  <2> QED
    BY <2>2, <2>5
<1>13. substr(T, 0, 1) \in {<<GET>>, <<POST>>}
  BY <1>1, <1>10
<1>14. parseHttpRequestLine(T).ok /\ parseHttpRequestLine(T).method = r.method
         /\ parseHttpRequestLine(T).path = r.path
  <2> DEFINE c == /\ substr(T, 0, 1) \in {<<GET>>, <<POST>>}
                  /\ SubSeq(T, (2 + p) + 2, Len(T)) = <<HTTP_1_1>>
             q == substr(T, 1 + 1, (2 + p) - 1 - 1)
  <2>1. c /\ q = r.path
    BY <1>11, <1>12, <1>13
  <2>2. parseHttpRequestLine(T) = [ok |-> c, method |-> T[1], path |-> q]
    BY <1>8
  <2> HIDE DEF c, q
  <2> QED
    BY <1>5, <2>1, <2>2
<1> QED
  BY <1>14 DEF T, p

(* What follows the request line.                                          *)
LEMMA RestFound ==
  ASSUME NEW r, WellFormed(r), NEW U \in Seq(Nat), Matches(U, RequestText(r)),
         6 + Len(r.path) <= Len(U)
  PROVE  LET p == Len(r.path)
             rest == SubSeq(U, (4 + p) + 3, Len(U))
         IN  /\ rest \in Seq(Nat) /\ Len(rest) = Len(U) - (6 + p)
             /\ \A j \in 1 .. Len(rest) : rest[j] = U[6 + p + j]
             /\ find(rest, g_CRLF_DOUBLE) = IF 13 + p <= Len(U) THEN 3 ELSE npos
             /\ 13 + p <= Len(U) =>
                  /\ substr(rest, 0, 3) = HeaderText(r.content_length)
                  /\ SubSeq(rest, 3 + 5, Len(rest)) \in Seq(Nat)
                  /\ Len(SubSeq(rest, 3 + 5, Len(rest))) = Len(U) - (13 + p)
                  /\ \A j \in 1 .. Len(U) - (13 + p) :
                       SubSeq(rest, 3 + 5, Len(rest))[j] = U[13 + p + j]
<1> DEFINE X == RequestText(r)
           p == Len(r.path)
           k == r.content_length
           rest == SubSeq(U, (4 + p) + 3, Len(U))
           m == Len(U) - (6 + p)
           pat == g_CRLF_DOUBLE
<1>1. /\ p \in Nat /\ Len(X) = 13 + p + k /\ k \in 0 .. 9 /\ Len(U) \in Nat /\ m \in Nat
      /\ 6 + p <= Len(U)
  <2>1. Len(U) \in Nat /\ 6 + Len(r.path) <= Len(U)
    OBVIOUS
  <2>2. p \in Nat /\ Len(X) = 13 + p + k /\ k \in 0 .. 9
    BY RequestLayout
  <2> HIDE DEF X, p, k
  <2> QED
    BY <2>1, <2>2 DEF p
<1>2. /\ X[7 + p] = CONTENT_LENGTH /\ X[8 + p] = COLON /\ X[9 + p] = DIGIT0 + k
      /\ X[10 + p] = CR /\ X[11 + p] = LF /\ X[12 + p] = CR /\ X[13 + p] = LF
  BY RequestChars
<1>3. \A i \in 1 .. Len(X) : i <= Len(U) => U[i] = X[i]
  BY DEF Matches
<1>4. pat \in Seq(Nat) /\ pat # <<>> /\ Len(pat) = 4
        /\ pat[1] = CR /\ pat[2] = LF /\ pat[3] = CR /\ pat[4] = LF
  BY DEF g_CRLF_DOUBLE, g_CRLF, CR, LF
<1> HIDE DEF X, p, k
<1>5. rest \in Seq(Nat) /\ Len(rest) = m /\ \A j \in 1 .. m : rest[j] = U[6 + p + j]
  <2> DEFINE a == 6 + p
  <2>1. (4 + p) + 3 = a + 1 /\ Len(U) = a + m /\ a \in Nat /\ a + m <= Len(U)
    BY <1>1
  <2>2. rest = SubSeq(U, a + 1, a + m)
    BY <2>1
  <2> HIDE DEF a, rest, m
  <2>3. rest \in Seq(Nat) /\ Len(rest) = m /\ \A j \in 1 .. m : rest[j] = U[a + j]
    BY <1>1, <2>1, <2>2, PartIs
  <2> QED
    BY <2>3 DEF a
<1> HIDE DEF rest, pat
<1>6. \A j \in 1 .. 7 : j <= m => rest[j] = X[6 + p + j]
  <2> TAKE j \in 1 .. 7
  <2> HAVE j <= m
  <2>1. 6 + p + j \in 1 .. Len(X) /\ 6 + p + j <= Len(U) /\ j \in 1 .. m
    BY <1>1
  <2> QED
    BY <1>3, <1>5, <2>1
<1>7. /\ 1 <= m => rest[1] = CONTENT_LENGTH
      /\ 2 <= m => rest[2] = COLON
      /\ 3 <= m => rest[3] = DIGIT0 + k
      /\ 4 <= m => rest[4] = CR
      /\ 5 <= m => rest[5] = LF
      /\ 6 <= m => rest[6] = CR
      /\ 7 <= m => rest[7] = LF
  <2>1. /\ 6 + p + 1 = 7 + p /\ 6 + p + 2 = 8 + p /\ 6 + p + 3 = 9 + p /\ 6 + p + 4 = 10 + p
        /\ 6 + p + 5 = 11 + p /\ 6 + p + 6 = 12 + p /\ 6 + p + 7 = 13 + p
    BY <1>1
  <2>2. /\ 1 \in 1 .. 7 /\ 2 \in 1 .. 7 /\ 3 \in 1 .. 7 /\ 4 \in 1 .. 7 /\ 5 \in 1 .. 7
        /\ 6 \in 1 .. 7 /\ 7 \in 1 .. 7
    OBVIOUS
  <2> HIDE DEF m
  <2> QED
    BY <1>2, <1>6, <2>1, <2>2
<1>8. find(rest, pat) = IF 13 + p <= Len(U) THEN 3 ELSE npos
  <2>1. \A i \in 1 .. 3 : i <= Len(rest) => rest[i] # pat[1]
    <3>1. \A i \in 1 .. 3 : i = 1 \/ i = 2 \/ i = 3
      OBVIOUS
    <3> HIDE DEF m
    <3>2. ASSUME NEW i \in 1 .. 3, i <= m PROVE rest[i] \in {36, 58} \cup (48 .. 57)
      <4>1. CASE i = 1
        BY <1>7, <3>2, <4>1 DEF CONTENT_LENGTH
      <4>2. CASE i = 2
        BY <1>7, <3>2, <4>2 DEF COLON
      <4>3. CASE i = 3
        <5>1. k \in 0 .. 9 /\ rest[3] = 48 + k
          BY <1>1, <1>7, <3>2, <4>3 DEF DIGIT0
        <5>2. 48 + k \in 48 .. 57
          BY <5>1
        <5> QED
          BY <4>3, <5>1, <5>2
      <4> QED
        BY <3>1, <4>1, <4>2, <4>3
    <3> TAKE i \in 1 .. 3
    <3> HAVE i <= Len(rest)
    <3>3. rest[i] \in {36, 58} \cup (48 .. 57)
      BY <1>5, <3>2
    <3>4. \A c \in {36, 58} \cup (48 .. 57) : c # 13
      OBVIOUS
    <3>5. pat[1] = 13
      BY <1>4 DEF CR
    <3> QED
      BY <3>3, <3>4, <3>5
  <2>2. 3 + Len(pat) <= Len(rest) => \A j \in 1 .. Len(pat) : rest[3 + j] = pat[j]
    <3> HAVE 3 + Len(pat) <= Len(rest)
    <3>1. 7 <= m
      BY <1>4, <1>5
    <3> HIDE DEF m
    <3>2. rest[3 + 1] = CR /\ rest[3 + 2] = LF /\ rest[3 + 3] = CR /\ rest[3 + 4] = LF
      BY <1>1, <1>7, <3>1
    <3>3. \A j \in 1 .. 4 : j = 1 \/ j = 2 \/ j = 3 \/ j = 4
      OBVIOUS
    <3> QED
      BY <1>4, <3>2, <3>3
  <2>3. find(rest, pat) = IF 3 + Len(pat) <= Len(rest) THEN 3 ELSE npos
    BY <1>4, <1>5, <2>1, <2>2, FindIs
  <2>4. 3 + Len(pat) <= Len(rest) <=> 13 + p <= Len(U)
    BY <1>1, <1>4, <1>5
  <2> QED
    BY <2>3, <2>4
<1>9. ASSUME 13 + p <= Len(U)
      PROVE  /\ substr(rest, 0, 3) = HeaderText(k)
             /\ SubSeq(rest, 3 + 5, Len(rest)) \in Seq(Nat)
             /\ Len(SubSeq(rest, 3 + 5, Len(rest))) = Len(U) - (13 + p)
             /\ \A j \in 1 .. Len(U) - (13 + p) :
                  SubSeq(rest, 3 + 5, Len(rest))[j] = U[13 + p + j]
  <2>1. m >= 7
    BY <1>1, <1>9
  <2>2. substr(rest, 0, 3) = HeaderText(k)
    <3> DEFINE s == SubSeq(rest, 0 + 1, 0 + 3)
               h == HeaderText(k)
    <3>1. substr(rest, 0, 3) = s
      BY DEF substr
    <3>2. 0 + 3 <= Len(rest)
      BY <1>1, <1>5, <2>1
    <3>3. s \in Seq(Nat) /\ Len(s) = 3 /\ \A j \in 1 .. 3 : s[j] = rest[0 + j]
      <4>1. 0 \in Nat /\ 3 \in Nat
        OBVIOUS
      <4> QED
        BY <1>5, <3>2, <4>1, PartIs, ZenonT(40)
    <3>4. h \in Seq(Nat) /\ Len(h) = 3 /\ h[1] = CONTENT_LENGTH /\ h[2] = COLON /\ h[3] = DIGIT0 + k
      BY <1>1, HeaderIs
    <3> HIDE DEF s, h, m
    <3>5. \A j \in 1 .. 3 : j = 1 \/ j = 2 \/ j = 3
      OBVIOUS
    <3>6. s[1] = rest[1] /\ s[2] = rest[2] /\ s[3] = rest[3]
      BY <3>3
    <3>9. 1 <= m /\ 2 <= m /\ 3 <= m
      BY <1>1, <2>1
    <3>10. s[1] = h[1] /\ s[2] = h[2] /\ s[3] = h[3]
      BY <1>7, <3>4, <3>6, <3>9
    <3>7. \A j \in 1 .. 3 : s[j] = h[j]
      BY <3>5, <3>10
    <3>8. s = h
      BY <3>3, <3>4, <3>7, SeqEqual
    <3> QED
      BY <3>1, <3>8 DEF h
  <2> DEFINE n == Len(U) - (13 + p)
             after == SubSeq(rest, 3 + 5, Len(rest))
  <2>3. n \in Nat /\ 7 + n = Len(rest) /\ 7 \in Nat /\ 7 + n <= Len(rest) /\ 3 + 5 = 7 + 1
    BY <1>1, <1>5, <1>9
  <2>4. after = SubSeq(rest, 7 + 1, 7 + n)
    BY <2>3
  <2> HIDE DEF n, after
  <2>5. after \in Seq(Nat) /\ Len(after) = n /\ \A j \in 1 .. n : after[j] = rest[7 + j]
    <3>1. /\ SubSeq(rest, 7 + 1, 7 + n) \in Seq(Nat) /\ Len(SubSeq(rest, 7 + 1, 7 + n)) = n
          /\ \A j \in 1 .. n : SubSeq(rest, 7 + 1, 7 + n)[j] = rest[7 + j]
      <4> DEFINE c == 7
      <4>1. c \in Nat /\ c + n <= Len(rest)
        BY <2>3
      <4>2. rest \in Seq(Nat) /\ n \in Nat
        BY <1>5, <2>3
      <4> HIDE DEF c
      <4>3. /\ SubSeq(rest, c + 1, c + n) \in Seq(Nat) /\ Len(SubSeq(rest, c + 1, c + n)) = n
            /\ \A j \in 1 .. n : SubSeq(rest, c + 1, c + n)[j] = rest[c + j]
        BY <4>1, <4>2, PartIs
      <4> QED
        BY <4>3 DEF c
    <3> QED
      BY <2>4, <3>1
  <2>6. \A j \in 1 .. n : rest[7 + j] = U[13 + p + j]
    <3> TAKE j \in 1 .. n
    <3>1. 7 + j \in 1 .. m /\ 6 + p + (7 + j) = 13 + p + j
      BY <1>1, <1>5, <2>3
    <3> HIDE DEF m
    <3> QED
      BY <1>5, <3>1
  <2> QED
    BY <2>2, <2>5, <2>6 DEF n, after
<1> QED
  BY <1>5, <1>8, <1>9 DEF p, k, rest, pat

(* httpDecode finds a request that is all there, and nothing before.       *)
LEMMA HttpDecodes ==
  ASSUME NEW r, WellFormed(r), NEW b, Sound(Nat, b), Matches(getBufferString(b), RequestText(r))
  PROVE  IF Len(getBufferString(b)) >= Len(RequestText(r))
         THEN httpDecode(b) = [decode_success |-> TRUE, data |-> r,
                               buffer |-> recycleRead(b, Len(RequestText(r)))]
         ELSE httpDecode(b).data = NoRequest /\ httpDecode(b).buffer = b
<1> DEFINE X == RequestText(r)
           p == Len(r.path)
           k == r.content_length
           strs == getBufferString(b)
           i == find(strs, g_CRLF)
           line == parseHttpRequestLine(substr(strs, 0, i))
           rest == SubSeq(strs, i + 3, Len(strs))
           j == find(rest, g_CRLF_DOUBLE)
           content_len == parseHttpRequestHeader(substr(rest, 0, j))
           after == SubSeq(rest, j + 5, Len(rest))
           request == [method |-> line.method, path |-> line.path, content_length |-> content_len,
                       body |-> IF line.method = POST THEN substr(after, 0, content_len) ELSE <<>>]
           nothing == [decode_success |-> FALSE, data |-> NoRequest, buffer |-> b]
<1>1. /\ p \in Nat /\ Len(X) = 13 + p + k /\ k \in 0 .. 9 /\ X \in Seq(Nat)
      /\ r.method \in {GET, POST} /\ r.body \in Seq(Nat) /\ Len(r.body) = k
      /\ \A q \in 1 .. k : X[13 + p + q] = r.body[q]
  BY RequestLayout, RequestChars
<1>2. strs \in Seq(Nat) /\ Len(strs) \in Nat
  BY UnreadIs
<1>3. i = IF 6 + p <= Len(strs) THEN 4 + p ELSE npos
  <2> HIDE DEF strs
  <2> QED
    BY <1>2, LineFound DEF strs
<1>4. 6 + p <= Len(strs) => line.ok /\ line.method = r.method /\ line.path = r.path
  <2> HAVE 6 + p <= Len(strs)
  <2>1. i = 4 + p
    BY <1>3
  <2> HIDE DEF i
  <2> QED
    BY <1>2, <2>1, LineParsed
<1>5. 6 + p <= Len(strs) =>
        /\ j = IF 13 + p <= Len(strs) THEN 3 ELSE npos
        /\ 13 + p <= Len(strs) =>
             /\ substr(rest, 0, 3) = HeaderText(k)
             /\ SubSeq(rest, 3 + 5, Len(rest)) \in Seq(Nat)
             /\ Len(SubSeq(rest, 3 + 5, Len(rest))) = Len(strs) - (13 + p)
             /\ \A q \in 1 .. Len(strs) - (13 + p) :
                  SubSeq(rest, 3 + 5, Len(rest))[q] = strs[13 + p + q]
  <2> HAVE 6 + p <= Len(strs)
  <2>1. i = 4 + p
    BY <1>3
  <2> HIDE DEF i
  <2>2. rest = SubSeq(strs, (4 + p) + 3, Len(strs))
    BY <2>1
  <2> HIDE DEF rest
  <2> QED
    BY <1>2, <2>2, RestFound
<1>6. \A q \in 1 .. Len(X) : q <= Len(strs) => strs[q] = X[q]
  BY DEF Matches
<1>7. httpDecode(b) =
        IF i = npos THEN nothing
        ELSE IF i = Len(strs) - 2 THEN [nothing EXCEPT !.decode_success = TRUE]
        ELSE IF ~line.ok \/ j = npos THEN nothing
        ELSE IF Len(after) < content_len THEN nothing
        ELSE [decode_success |-> TRUE, data |-> request,
              buffer |-> recycleRead(b, ReadSize(i, j, request))]
  BY Zenon DEF httpDecode
<1>20. r = [method |-> r.method, path |-> r.path, content_length |-> k, body |-> r.body]
  BY DEF WellFormed, HttpData
<1>21. r.method = GET => r.body = <<>>
  BY DEF WellFormed, HttpData
<1> HIDE DEF X, p, k, strs, i, line, rest, j
<1>8. CASE Len(strs) >= Len(X)
  <2>0. p \in Nat /\ Len(X) = 13 + p + k /\ k \in Nat
    BY <1>1
  <2>1. 6 + p <= Len(strs) /\ 13 + p <= Len(strs) /\ i = 4 + p /\ j = 3
    <3>1. 6 + p <= Len(strs) /\ 13 + p <= Len(strs)
      BY <1>2, <1>8, <2>0
    <3> QED
      BY <1>3, <1>5, <3>1
  <2>2. i # npos /\ i # Len(strs) - 2 /\ j # npos /\ line.ok
    <3>1. i # npos /\ i # Len(strs) - 2 /\ j # npos
      BY <1>2, <1>8, <2>0, <2>1 DEF npos
    <3> QED
      BY <1>4, <2>1, <3>1
  <2>3. content_len = k
    <3>1. substr(rest, 0, j) = HeaderText(k)
      BY <1>5, <2>1
    <3> QED
      BY <1>1, <3>1, HeaderNumber
  <2>4. /\ after \in Seq(Nat) /\ Len(after) = Len(strs) - (13 + p)
        /\ \A q \in 1 .. Len(strs) - (13 + p) : after[q] = strs[13 + p + q]
    BY <1>5, <2>1
  <2> HIDE DEF content_len, after
  <2>5. ~(Len(after) < content_len)
    BY <1>1, <1>2, <1>8, <2>3, <2>4
  <2>6. substr(after, 0, content_len) = r.body
    <3> DEFINE s == SubSeq(after, 0 + 1, 0 + k)
    <3>1. substr(after, 0, content_len) = s
      BY <2>3 DEF substr
    <3>2. 0 + k <= Len(after) /\ k \in Nat /\ \A q \in 1 .. k : 0 + q = q
      BY <1>1, <1>2, <1>8, <2>4
    <3>3. s \in Seq(Nat) /\ Len(s) = k /\ \A q \in 1 .. k : s[q] = after[0 + q]
      BY <2>4, <3>2, PartIs
    <3> HIDE DEF s
    <3>4. ASSUME NEW q \in 1 .. k PROVE s[q] = r.body[q]
      <4>1. /\ q \in 1 .. Len(strs) - (13 + p) /\ 13 + p + q \in 1 .. Len(X)
            /\ 13 + p + q <= Len(strs)
        BY <1>1, <1>2, <1>8
      <4>2. s[q] = after[q]
        BY <3>2, <3>3
      <4>3. after[q] = strs[13 + p + q]
        BY <2>4, <4>1
      <4>4. strs[13 + p + q] = X[13 + p + q]
        BY <1>6, <4>1
      <4> QED
        BY <1>1, <4>2, <4>3, <4>4
    <3>5. s = r.body
      BY <1>1, <3>3, <3>4, SeqEqual
    <3> QED
      BY <3>1, <3>5
  <2>7. request = r
    <3>1. line.method = r.method /\ line.path = r.path
      BY <1>4, <2>1
    <3>2. (IF line.method = POST THEN substr(after, 0, content_len) ELSE <<>>) = r.body
      BY <1>1, <1>21, <2>6, <3>1
    <3> QED
      BY <1>20, <2>3, <3>1, <3>2, Zenon
  <2> HIDE DEF request
  <2>8. ReadSize(i, j, request) = Len(X)
    <3>1. ReadSize(i, j, request) = (4 + p) + 2 + 3 + 4 + Len(r.body)
      BY <2>1, <2>7 DEF ReadSize
    <3>2. Len(r.body) = k
      BY <1>1
    <3> QED
      BY <2>0, <3>1, <3>2
  <2>9. httpDecode(b) = [decode_success |-> TRUE, data |-> request,
                         buffer |-> recycleRead(b, ReadSize(i, j, request))]
    BY <1>7, <2>2, <2>5, Zenon
  <2>10. httpDecode(b) = [decode_success |-> TRUE, data |-> r, buffer |-> recycleRead(b, Len(X))]
    BY <2>7, <2>8, <2>9, Zenon
  <2> QED
    BY <1>8, <2>10 DEF X, strs
<1>9. CASE ~(Len(strs) >= Len(X))
  <2>1. /\ nothing.data = NoRequest /\ nothing.buffer = b
        /\ [nothing EXCEPT !.decode_success = TRUE].data = NoRequest
        /\ [nothing EXCEPT !.decode_success = TRUE].buffer = b
    OBVIOUS
  <2> DEFINE something == [nothing EXCEPT !.decode_success = TRUE]
  <2> HIDE DEF nothing, something
  <2>2. httpDecode(b) \in {nothing, something}
    <3>1. ASSUME i # npos, i # Len(strs) - 2, j # npos PROVE Len(after) < content_len
      <4>1. 6 + p <= Len(strs) /\ i = 4 + p
        BY <1>1, <1>2, <1>3, <3>1
      <4>2. 13 + p <= Len(strs) /\ j = 3
        BY <1>1, <1>2, <1>5, <3>1, <4>1
      <4>3. substr(rest, 0, j) = HeaderText(k)
        BY <1>5, <4>1, <4>2
      <4>4. content_len = k
        BY <1>1, <4>3, HeaderNumber
      <4>5. Len(after) = Len(strs) - (13 + p)
        BY <1>5, <4>1, <4>2
      <4> HIDE DEF content_len, after
      <4> QED
        BY <1>1, <1>2, <1>9, <4>2, <4>4, <4>5
    <3> HIDE DEF content_len, after, request
    <3> QED
      BY <1>7, <3>1, Zenon DEF something
  <2>3. httpDecode(b).data = NoRequest /\ httpDecode(b).buffer = b
    BY <2>1, <2>2 DEF something
  <2> QED
    BY <1>9, <2>3 DEF X, strs
<1> QED
  BY <1>8, <1>9

Cancels(S) == \A s, t, v \in Seq(S) : s \o t = s \o v => t = v

(* What follows the same sequence is the same.                             *)
LEMMA Cancelling == ASSUME NEW S PROVE Cancels(S)
BY ConcatSimplifications DEF Cancels

-----------------------------------------------------------------------------
(* Two ways to cut the same bytes in two.                                  *)
Cuts(a, b, x, t) == a \o b = x \o t

(* Two cuts of the same bytes begin with the same bytes.                   *)
LEMMA CutStart ==
  ASSUME NEW S, NEW a \in Seq(S), NEW b \in Seq(S), NEW x \in Seq(S), NEW t \in Seq(S),
         Cuts(a, b, x, t)
  PROVE  \A i \in 1 .. Len(x) : i <= Len(a) => a[i] = x[i]
<1>1. \A i \in 1 .. Len(a) + Len(b) : (a \o b)[i] = IF i <= Len(a) THEN a[i] ELSE b[i - Len(a)]
  BY ConcatProperties
<1>2. \A i \in 1 .. Len(x) + Len(t) : (x \o t)[i] = IF i <= Len(x) THEN x[i] ELSE t[i - Len(x)]
  BY ConcatProperties
<1>3. Len(a) \in Nat /\ Len(b) \in Nat /\ Len(t) \in Nat /\ Len(x) \in Nat
  OBVIOUS
<1>4. a \o b = x \o t
  BY DEF Cuts
<1> QED
  BY <1>1, <1>2, <1>3, <1>4

(* A sequence is its beginning and the rest.                               *)
LEMMA PrefixIs ==
  ASSUME NEW S, NEW a \in Seq(S), NEW x \in Seq(S), Len(a) >= Len(x),
         \A i \in 1 .. Len(x) : a[i] = x[i]
  PROVE  LET V == SubSeq(a, Len(x) + 1, Len(a))
         IN  V \in Seq(S) /\ Len(V) = Len(a) - Len(x) /\ a = x \o V
<1> DEFINE k == Len(x)
           n == Len(a)
           V == SubSeq(a, k + 1, n)
           L == x \o V
<1>1. /\ k \in Nat /\ n \in Nat /\ k <= n
      /\ V \in Seq(S) /\ Len(V) = n - k /\ \A i \in 1 .. n - k : V[i] = a[k + i]
  OBVIOUS
<1> HIDE DEF V
<1>3. a = L
  <2>1. L \in Seq(S) /\ Len(L) = k + Len(V) /\ \A i \in 1 .. k + Len(V) : L[i] = IF i <= k THEN x[i] ELSE V[i - k]
    BY <1>1, ConcatProperties
  <2> HIDE DEF L
  <2>2. \A i \in 1 .. n : a[i] = L[i]
    <3>1. \A i \in 1 .. n : ~(i <= k) => i - k \in 1 .. n - k /\ k + (i - k) = i
      BY <1>1
    <3>2. \A i \in 1 .. n : ~(i <= k) => V[i - k] = a[i]
      BY <1>1, <3>1
    <3>3. \A i \in 1 .. n : i \in 1 .. k + Len(V) /\ (i <= k => i \in 1 .. k)
      BY <1>1
    <3>4. \A i \in 1 .. k : a[i] = x[i]
      OBVIOUS
    <3> HIDE DEF k, n
    <3> QED
      BY <2>1, <3>2, <3>3, <3>4
  <2> QED
    BY <1>1, <2>1, <2>2, SeqEqual
<1> QED
  BY <1>1, <1>3 DEF V

(* The first cut is not before the second.                                 *)
LEMMA SplitLong ==
  ASSUME NEW S, NEW a \in Seq(S), NEW b \in Seq(S), NEW x \in Seq(S), NEW t \in Seq(S),
         Cuts(a, b, x, t), Len(a) >= Len(x)
  PROVE  LET V == SubSeq(a, Len(x) + 1, Len(a))
         IN  V \in Seq(S) /\ a = x \o V /\ V \o b = t
<1> DEFINE V == SubSeq(a, Len(x) + 1, Len(a))
<1>1. V \in Seq(S) /\ a = x \o V
  <2>1. \A i \in 1 .. Len(x) : a[i] = x[i]
    <3>1. \A i \in 1 .. Len(x) : i <= Len(a) => a[i] = x[i]
      BY CutStart
    <3> QED
      BY <3>1
  <2> QED
    BY <2>1, PrefixIs
<1> HIDE DEF V
<1>4. V \o b = t
  <2>1. x \o (V \o b) = (x \o V) \o b
    <3>1. Assoc(S)
      BY Associative, Zenon
    <3> QED
      BY <1>1, <3>1 DEF Assoc
  <2>2. V \o b \in Seq(S)
    BY <1>1, ConcatProperties
  <2>3. x \o (V \o b) = x \o t
    BY <1>1, <2>1 DEF Cuts
  <2>4. Cancels(S)
    BY Cancelling, Zenon
  <2> QED
    BY <2>2, <2>3, <2>4, Zenon DEF Cancels
<1> QED
  BY <1>1, <1>4 DEF V

(* The first cut is before the second.                                     *)
LEMMA SplitShort ==
  ASSUME NEW S, NEW a \in Seq(S), NEW b \in Seq(S), NEW x \in Seq(S), NEW t \in Seq(S),
         Cuts(a, b, x, t), ~(Len(a) >= Len(x))
  PROVE  LET V == SubSeq(x, Len(a) + 1, Len(x))
         IN  V \in Seq(S) /\ x = a \o V /\ V # <<>>
<1> DEFINE V == SubSeq(x, Len(a) + 1, Len(x))
<1>1. Len(x) \in Nat /\ Len(a) \in Nat /\ Len(a) < Len(x)
  OBVIOUS
<1>2. \A i \in 1 .. Len(a) : x[i] = a[i]
  <2>1. \A i \in 1 .. Len(x) : i <= Len(a) => a[i] = x[i]
    BY CutStart
  <2> QED
    BY <1>1, <2>1
<1>3. V \in Seq(S) /\ Len(V) = Len(x) - Len(a) /\ x = a \o V
  BY <1>1, <1>2, PrefixIs
<1> HIDE DEF V
<1>4. V # <<>>
  BY <1>1, <1>3
<1> QED
  BY <1>3, <1>4 DEF V

Appends(S) == \A a, b \in Seq(S), x \in S : Append(a \o b, x) = a \o Append(b, x)

(* Append of a concatenation.                                              *)
LEMMA Appending == ASSUME NEW S PROVE Appends(S)
<1> SUFFICES ASSUME NEW a \in Seq(S), NEW b \in Seq(S), NEW x \in S
             PROVE  Append(a \o b, x) = a \o Append(b, x)
  BY DEF Appends
<1>1. a \o b \in Seq(S) /\ <<x>> \in Seq(S)
  BY ConcatProperties
<1>2. Append(a \o b, x) = (a \o b) \o <<x>>
  BY <1>1, AppendIsConcat
<1>3. Append(b, x) = b \o <<x>>
  BY AppendIsConcat
<1>4. (a \o b) \o <<x>> = a \o (b \o <<x>>)
  BY <1>1, ConcatAssociative
<1> QED
  BY <1>2, <1>3, <1>4

(* The head of what follows goes to the end of what precedes.              *)
LEMMA MoveHead ==
  ASSUME NEW S, NEW a \in Seq(S), NEW b \in Seq(S), b # <<>>
  PROVE  /\ b[1] \in S /\ Tail(b) \in Seq(S)
         /\ a \o b = Append(a, b[1]) \o Tail(b)
<1>1. Head(b) = b[1] /\ Head(b) \in S /\ Tail(b) \in Seq(S)
  BY HeadTailProperties
<1> DEFINE h == b[1]
           t == Tail(b)
<1>2. b = <<h>> \o t
  <2>1. Len(b) = Len(t) + 1 /\ \A i \in 1 .. Len(t) : t[i] = b[i + 1]
    BY HeadTailProperties
  <2>2. h \in S /\ t \in Seq(S)
    BY <1>1
  <2> HIDE DEF t
  <2>3. b[1] = h /\ Len(b) \in Nat /\ Len(t) \in Nat
    BY <2>2
  <2> HIDE DEF h
  <2> DEFINE L == <<h>> \o t
  <2>4. L \in Seq(S) /\ Len(L) = 1 + Len(t) /\ \A i \in 1 .. 1 + Len(t) : L[i] = IF i = 1 THEN h ELSE t[i - 1]
    BY <2>2
  <2> HIDE DEF L
  <2>5. \A i \in 1 .. Len(b) : b[i] = L[i]
    <3>1. \A i \in 1 .. Len(b) : i # 1 => i - 1 \in 1 .. Len(t) /\ (i - 1) + 1 = i
      BY <2>1, <2>3
    <3>2. \A i \in 1 .. Len(b) : i # 1 => b[i] = t[i - 1]
      BY <2>1, <3>1
    <3>3. \A i \in 1 .. Len(b) : i \in 1 .. 1 + Len(t)
      BY <2>1, <2>3
    <3> QED
      BY <2>3, <2>4, <3>2, <3>3
  <2>6. b = L
    BY <2>1, <2>3, <2>4, <2>5, SeqEqual
  <2> QED
    BY <2>6 DEF L
<1> HIDE DEF t, h
<1>3. <<h>> \in Seq(S) /\ h \in S /\ t \in Seq(S)
  BY <1>1 DEF h, t
<1>4. Append(a, h) = a \o <<h>>
  BY <1>3, AppendIsConcat
<1>5. (a \o <<h>>) \o t = a \o (<<h>> \o t)
  BY <1>3, ConcatAssociative
<1> QED
  BY <1>1, <1>2, <1>4, <1>5 DEF h, t

-----------------------------------------------------------------------------
(* What flows through a connection of the protocol p.                      *)

OctetsOf(p) == IF p = "Http" THEN Nat ELSE Bytes
GoodOf(p) == IF p = "Http" THEN {r \in HttpData : WellFormed(r)}
             ELSE {d \in PbData : Decodable(d) /\ encode_success(d)}
TextOf(p, d) == IF p = "Http" THEN RequestText(d) ELSE encodePbData(d)
StreamOf(p, s) == FlattenSeq([i \in DOMAIN s |-> TextOf(p, s[i])])

(* Octets are natural numbers.                                             *)
LEMMA OctetsNat == ASSUME NEW p PROVE 0 \in OctetsOf(p) /\ OctetsOf(p) \subseteq Nat
BY BaseFacts DEF OctetsOf, Bytes

(* Data take some octets.                                                  *)
LEMMA TextType ==
  ASSUME NEW p, NEW d \in GoodOf(p)
  PROVE  TextOf(p, d) \in Seq(OctetsOf(p)) /\ TextOf(p, d) # <<>>
<1>1. CASE p = "Http"
  <2> DEFINE X == RequestText(d)
             lp == Len(d.path)
             k == d.content_length
  <2>1. WellFormed(d)
    BY <1>1 DEF GoodOf
  <2>2. X \in Seq(Nat) /\ Len(X) = 13 + lp + k /\ lp \in Nat /\ k \in 0 .. 9
    BY <2>1, RequestLayout
  <2> HIDE DEF X, lp, k
  <2>3. X \in Seq(Nat) /\ X # <<>>
    BY <2>2
  <2> QED
    BY <1>1, <2>3, Zenon DEF TextOf, OctetsOf, X
<1>2. CASE p # "Http"
  <2>1. d \in PbData
    BY <1>2 DEF GoodOf
  <2> DEFINE X == encodePbData(d)
  <2>2. X \in Seq(Bytes) /\ X[1] = PB_START /\ X[PkLen(d)] = PB_END /\ Len(X) = PkLen(d)
    BY <2>1, FrameLayout
  <2>3. PkLen(d) \in Nat /\ PkLen(d) # 0
    <3> DEFINE lm == Len(d.msg_req)
               ls == Len(d.service_full_name)
               le == Len(d.err_info)
               lp == Len(d.pb_data)
               n == PkLen(d)
    <3>1. /\ lm \in Nat /\ ls \in Nat /\ le \in Nat /\ lp \in Nat /\ IntSize \in Nat
          /\ n = 2 + 6 * IntSize + lm + ls + le + lp /\ n \in Nat
      BY <2>1, PkLenIs, BaseFacts
    <3> HIDE DEF n, lm, ls, le, lp
    <3>2. n \in Nat /\ n # 0
      BY <3>1
    <3> QED
      BY <3>2 DEF n
  <2> HIDE DEF X
  <2>4. X \in Seq(Bytes) /\ X # <<>>
    BY <2>2, <2>3
  <2> QED
    BY <1>2, <2>4, Zenon DEF TextOf, OctetsOf, X
<1> QED
  BY <1>1, <1>2

(* The texts of the data, each of them a sequence of octets.               *)
LEMMA Texts ==
  ASSUME NEW p, NEW s \in Seq(GoodOf(p))
  PROVE  LET f == [i \in DOMAIN s |-> TextOf(p, s[i])]
         IN  /\ f \in Seq(Seq(OctetsOf(p))) /\ Len(f) = Len(s)
             /\ \A i \in 1 .. Len(s) : f[i] = TextOf(p, s[i])
<1> DEFINE n == Len(s)
           f == [i \in DOMAIN s |-> TextOf(p, s[i])]
<1>1. n \in Nat /\ DOMAIN s = 1 .. n /\ \A i \in 1 .. n : s[i] \in GoodOf(p)
  OBVIOUS
<1>2. \A i \in 1 .. n : TextOf(p, s[i]) \in Seq(OctetsOf(p))
  BY <1>1, TextType
<1> HIDE DEF n
<1>3. f = [i \in 1 .. n |-> TextOf(p, s[i])]
  BY <1>1
<1> HIDE DEF f
<1>4. f \in [1 .. n -> Seq(OctetsOf(p))]
  BY <1>2, <1>3
<1>5. f \in Seq(Seq(OctetsOf(p))) /\ Len(f) = n
  BY <1>1, <1>4
<1>6. \A i \in 1 .. n : f[i] = TextOf(p, s[i])
  BY <1>3
<1> QED
  BY <1>5, <1>6 DEF f, n

(* A stream consists of octets.                                            *)
LEMMA StreamType ==
  ASSUME NEW p, NEW s \in Seq(GoodOf(p))
  PROVE  StreamOf(p, s) \in Seq(OctetsOf(p))
BY Texts, FlattenType DEF StreamOf

(* No data make no stream.                                                 *)
LEMMA StreamEmpty == ASSUME NEW p PROVE StreamOf(p, <<>>) = <<>>
<1>1. [i \in DOMAIN <<>> |-> TextOf(p, <<>>[i])] = <<>>
  OBVIOUS
<1> QED
  BY <1>1, FlattenEmpty, Zenon DEF StreamOf

(* What is sent goes to the end of the stream.                             *)
LEMMA StreamAppend ==
  ASSUME NEW p, NEW s \in Seq(GoodOf(p)), NEW d \in GoodOf(p)
  PROVE  StreamOf(p, Append(s, d)) = StreamOf(p, s) \o TextOf(p, d)
<1> DEFINE G == GoodOf(p)
           f == [i \in DOMAIN s |-> TextOf(p, s[i])]
           t == Append(s, d)
           g == [i \in DOMAIN t |-> TextOf(p, t[i])]
           B == Seq(OctetsOf(p))
           x == TextOf(p, d)
           n == Len(s)
           h == Append(f, x)
<1>1. t \in Seq(G) /\ n \in Nat /\ Len(t) = n + 1 /\ t[n + 1] = d /\ \A i \in 1 .. n : t[i] = s[i]
  <2> HIDE DEF G
  <2> QED
    BY AppendProperties DEF G
<1>2. f \in Seq(B) /\ Len(f) = n /\ \A i \in 1 .. n : f[i] = TextOf(p, s[i])
  BY Texts
<1>3. g \in Seq(B) /\ Len(g) = Len(t) /\ \A i \in 1 .. Len(t) : g[i] = TextOf(p, t[i])
  <2> HIDE DEF t
  <2> QED
    BY <1>1, Texts
<1>4. x \in B
  BY TextType
<1> HIDE DEF f, g, t, x, B
<1>5. h \in Seq(B) /\ Len(h) = n + 1 /\ h[n + 1] = x /\ \A i \in 1 .. n : h[i] = f[i]
  BY <1>2, <1>4, AppendProperties
<1> HIDE DEF h, n
<1>6. g = h
  <2>1. \A i \in 1 .. Len(g) : g[i] = h[i]
    <3> TAKE i \in 1 .. Len(g)
    <3>1. CASE i = n + 1
      BY <3>1, <1>1, <1>3, <1>5 DEF x
    <3>2. CASE i # n + 1
      <4>1. i \in 1 .. n /\ i \in 1 .. Len(t)
        BY <3>2, <1>1, <1>3
      <4> QED
        BY <4>1, <1>1, <1>2, <1>3, <1>5
    <3> QED
      BY <3>1, <3>2
  <2> QED
    BY <2>1, <1>1, <1>3, <1>5, SeqEqual
<1>7. FlattenSeq(h) = FlattenSeq(f) \o x
  <2>1. f \in Seq(Seq(OctetsOf(p))) /\ x \in Seq(OctetsOf(p))
    BY <1>2, <1>4 DEF B
  <2> QED
    BY <2>1, FlattenAppend, Zenon DEF h
<1> QED
  BY <1>6, <1>7 DEF StreamOf, f, g, t, x

(* The first data are at the front of the stream.                          *)
LEMMA StreamHead ==
  ASSUME NEW p, NEW s \in Seq(GoodOf(p)), s # <<>>
  PROVE  StreamOf(p, s) = TextOf(p, s[1]) \o StreamOf(p, Tail(s))
<1> DEFINE G == GoodOf(p)
           f == [i \in DOMAIN s |-> TextOf(p, s[i])]
           t == Tail(s)
           g == [i \in DOMAIN t |-> TextOf(p, t[i])]
           B == Seq(OctetsOf(p))
           n == Len(s)
           h == Tail(f)
<1>1. t \in Seq(G) /\ n \in Nat /\ n > 0 /\ Len(t) = n - 1 /\ \A i \in 1 .. Len(t) : t[i] = s[i + 1]
  <2> HIDE DEF G
  <2> QED
    BY HeadTailProperties DEF G
<1>2. f \in Seq(B) /\ Len(f) = n /\ \A i \in 1 .. n : f[i] = TextOf(p, s[i])
  BY Texts
<1>3. g \in Seq(B) /\ Len(g) = Len(t) /\ \A i \in 1 .. Len(t) : g[i] = TextOf(p, t[i])
  <2> HIDE DEF t
  <2> QED
    BY <1>1, Texts
<1> HIDE DEF f, g, t, B, n
<1>0. f # <<>>
  BY <1>1, <1>2
<1>5. h \in Seq(B) /\ Len(h) = Len(f) - 1 /\ \A i \in 1 .. Len(h) : h[i] = f[i + 1]
  BY <1>0, <1>2, HeadTailProperties
<1>8. Head(f) = TextOf(p, s[1])
  BY <1>0, <1>1, <1>2
<1> HIDE DEF h
<1>6. g = h
  <2>1. \A i \in 1 .. Len(g) : g[i] = h[i]
    <3> TAKE i \in 1 .. Len(g)
    <3>1. i \in 1 .. Len(t) /\ i + 1 \in 1 .. n /\ i \in 1 .. Len(h)
      BY <1>1, <1>2, <1>3, <1>5
    <3> QED
      BY <3>1, <1>1, <1>2, <1>3, <1>5
  <2> QED
    BY <2>1, <1>1, <1>2, <1>3, <1>5, SeqEqual
<1>7. FlattenSeq(f) = Head(f) \o FlattenSeq(h)
  <2>1. f \in Seq(Seq(OctetsOf(p)))
    BY <1>2 DEF B
  <2> QED
    BY <2>1, <1>0, FlattenHead, Zenon DEF h
<1> QED
  BY <1>6, <1>7, <1>8 DEF StreamOf, f, g, t

(* The stream of data that follow others is theirs, then its own.          *)
LEMMA StreamConcat ==
  ASSUME NEW p, NEW a \in Seq(GoodOf(p)), NEW b \in Seq(GoodOf(p))
  PROVE  StreamOf(p, a \o b) = StreamOf(p, a) \o StreamOf(p, b)
<1> DEFINE G == GoodOf(p)
           O == OctetsOf(p)
           Fails(n) == \E c, e \in Seq(G) : /\ Len(e) = n
                         /\ StreamOf(p, c \o e) # StreamOf(p, c) \o StreamOf(p, e)
           Bad == {n \in Nat : Fails(n)}
<1>1. Bad = {}
  <2>1. Bad \in SUBSET Nat
    OBVIOUS
  <2>2. ASSUME NEW n \in Bad, \A k \in Bad : n <= k PROVE FALSE
    <3>1. PICK c \in Seq(G), e \in Seq(G) :
            Len(e) = n /\ StreamOf(p, c \o e) # StreamOf(p, c) \o StreamOf(p, e)
      BY <2>2
    <3>2. n \in Nat
      BY <2>2
    <3>3. StreamOf(p, c) \in Seq(O) /\ StreamOf(p, e) \in Seq(O)
      BY StreamType
    <3>4. CASE e = <<>>
      <4>1. c \o e = c
        <5> HIDE DEF G
        <5> QED
          BY <3>4, ConcatEmptySeq
      <4>2. StreamOf(p, c) \o <<>> = StreamOf(p, c)
        BY <3>3, ConcatEmptySeq
      <4> QED
        BY <3>1, <3>4, <4>1, <4>2, StreamEmpty
    <3>5. CASE e # <<>>
      <4> DEFINE d == e[1]
                 t == Tail(e)
                 u == Append(c, d)
                 x == TextOf(p, d)
      <4>1. d \in G /\ t \in Seq(G) /\ c \o e = u \o t
        <5> HIDE DEF G
        <5> QED
          BY <3>5, MoveHead
      <4>2. u \in Seq(G) /\ Len(t) = n - 1 /\ n - 1 \in Nat
        <5> HIDE DEF G
        <5> QED
          BY <3>1, <3>5, <4>1, AppendProperties, HeadTailProperties
      <4>3. StreamOf(p, e) = x \o StreamOf(p, t)
        BY <3>5, StreamHead
      <4>4. StreamOf(p, u) = StreamOf(p, c) \o x
        BY <4>1, StreamAppend
      <4> HIDE DEF d, t, u
      <4>5. StreamOf(p, u \o t) = StreamOf(p, u) \o StreamOf(p, t)
        <5>1. ~Fails(n - 1)
          <6>1. n - 1 \in Bad => n <= n - 1
            BY <2>2
          <6> HIDE DEF Fails
          <6> QED
            BY <6>1, <3>2, <4>2
        <5> QED
          BY <5>1, <4>1, <4>2
      <4>6. x \in Seq(O) /\ StreamOf(p, t) \in Seq(O)
        BY <4>1, TextType, StreamType
      <4> HIDE DEF x, G, O
      <4>7. (StreamOf(p, c) \o x) \o StreamOf(p, t) = StreamOf(p, c) \o (x \o StreamOf(p, t))
        <5>1. Assoc(O)
          BY Associative, Zenon
        <5> QED
          BY <5>1, <3>3, <4>6 DEF Assoc
      <4> QED
        BY <3>1, <4>1, <4>3, <4>4, <4>5, <4>7
    <3> QED
      BY <3>4, <3>5
  <2> HIDE DEF Bad
  <2> QED
    BY <2>1, <2>2, LeastNatural
<1>2. Len(b) \in Nat
  OBVIOUS
<1>3. ~Fails(Len(b))
  <2> HIDE DEF Fails
  <2> QED
    BY <1>1, <1>2
<1> QED
  BY <1>3

-----------------------------------------------------------------------------
(* What one call of decode makes of the bytes that were read.              *)
DecodeOf(p, b, beyond) == IF p = "Http" THEN httpDecode(b) ELSE decode(b, beyond)

(* A buffer whose indices are right and that has been tidied up.           *)
Kept(p, b) == Sound(OctetsOf(p), b) /\ Tidy(b)

(* recycleRead takes off exactly x.                                        *)
LEMMA TakenOff ==
  ASSUME NEW S, 0 \in S, NEW b, Sound(S, b), NEW x \in Seq(S), NEW V \in Seq(S), Unread(b, x, V)
  PROVE  LET c == recycleRead(b, Len(x))
         IN  /\ Sound(S, c) /\ Tidy(c) /\ c.size_follows = b.size_follows
             /\ getBufferString(c) = V
<1> DEFINE t == getBufferString(b)
           k == Len(x)
           c == recycleRead(b, k)
           W == SubSeq(t, k + 1, Len(t))
<1>1. t = x \o V
  BY DEF Unread
<1>2. t \in Seq(S) /\ Len(t) = readAble(b) /\ Len(t) \in Nat /\ k \in Nat
  BY UnreadIs
<1> HIDE DEF t
<1>3. /\ Len(t) = k + Len(V) /\ Len(V) \in Nat
      /\ \A i \in 1 .. k + Len(V) : t[i] = IF i <= k THEN x[i] ELSE V[i - k]
  BY <1>1, ConcatProperties
<1>4. k \in 0 .. readAble(b)
  BY <1>2, <1>3
<1>5. Sound(S, c) /\ Tidy(c) /\ c.size_follows = b.size_follows /\ getBufferString(c) = W
  <2> HIDE DEF k
  <2> QED
    BY <1>4, Recycled DEF t
<1> HIDE DEF c, k
<1>6. W = V
  <2>1. W \in Seq(S) /\ Len(W) = Len(V) /\ \A i \in 1 .. Len(V) : W[i] = t[k + i]
    BY <1>2, <1>3
  <2>2. \A i \in 1 .. Len(V) : k + i \in 1 .. k + Len(V) /\ ~(k + i <= k) /\ (k + i) - k = i
    BY <1>2, <1>3
  <2> HIDE DEF W
  <2>3. \A i \in 1 .. Len(W) : W[i] = V[i]
    BY <1>3, <2>1, <2>2
  <2> QED
    BY <2>1, <2>3, SeqEqual
<1> QED
  BY <1>5, <1>6 DEF c, k

(* The text is all there.                                                  *)
LEMMA MatchesWhole ==
  ASSUME NEW S, NEW b, Sound(S, b), NEW x \in Seq(S), NEW V \in Seq(S), Unread(b, x, V)
  PROVE  Matches(getBufferString(b), x) /\ Len(getBufferString(b)) >= Len(x)
<1> DEFINE t == getBufferString(b)
<1>1. t = x \o V
  BY DEF Unread
<1> HIDE DEF t
<1>2. /\ Len(t) = Len(x) + Len(V) /\ Len(V) \in Nat /\ Len(x) \in Nat
      /\ \A i \in 1 .. Len(x) + Len(V) : t[i] = IF i <= Len(x) THEN x[i] ELSE V[i - Len(x)]
  BY <1>1, ConcatProperties
<1> QED
  BY <1>2 DEF Matches, t

(* The text is there in part.                                              *)
LEMMA MatchesPart ==
  ASSUME NEW S, NEW b, Sound(S, b), NEW x \in Seq(S), NEW V \in Seq(S), V # <<>>, PartOf(b, x, V)
  PROVE  Matches(getBufferString(b), x) /\ ~(Len(getBufferString(b)) >= Len(x))
<1> DEFINE t == getBufferString(b)
<1>1. x = t \o V
  BY DEF PartOf
<1>3. t \in Seq(S)
  BY UnreadIs
<1> HIDE DEF t
<1>2. /\ Len(x) = Len(t) + Len(V) /\ Len(V) \in Nat /\ Len(V) # 0 /\ Len(t) \in Nat
      /\ \A i \in 1 .. Len(t) + Len(V) : x[i] = IF i <= Len(t) THEN t[i] ELSE V[i - Len(t)]
  BY <1>1, <1>3, ConcatProperties
<1> QED
  BY <1>2 DEF Matches, t

(* Data that have arrived are found, and their bytes taken off.            *)
LEMMA StepWhole ==
  ASSUME NEW p, NEW d \in GoodOf(p), NEW b, Kept(p, b), NEW V \in Seq(OctetsOf(p)),
         Unread(b, TextOf(p, d), V), NEW beyond \in Bytes
  PROVE  LET result == DecodeOf(p, b, beyond)
         IN  /\ result.decode_success /\ result.data = d /\ d # NoRequest
             /\ Kept(p, result.buffer) /\ getBufferString(result.buffer) = V
<1> DEFINE x == TextOf(p, d)
           c == recycleRead(b, Len(x))
           result == DecodeOf(p, b, beyond)
           O == OctetsOf(p)
<1>1. x \in Seq(O) /\ 0 \in O /\ Sound(O, b)
  BY TextType, OctetsNat DEF Kept
<1>2. Sound(O, c) /\ Tidy(c) /\ getBufferString(c) = V
  <2>1. Unread(b, x, V) /\ V \in Seq(O)
    OBVIOUS
  <2> HIDE DEF x, O
  <2> QED
    BY <1>1, <2>1, TakenOff
<1>3. d # NoRequest /\ result = [decode_success |-> TRUE, data |-> d, buffer |-> c]
  <2>1. CASE p = "Http"
    <3> DEFINE X == RequestText(d)
               U == getBufferString(b)
    <3>1. WellFormed(d) /\ x = X /\ O = Nat
      BY <2>1 DEF GoodOf, TextOf, OctetsOf
    <3>2. Matches(U, X) /\ Len(U) >= Len(X)
      <4>1. Unread(b, X, V) /\ V \in Seq(Nat) /\ X \in Seq(Nat) /\ Sound(Nat, b)
        BY <1>1, <3>1
      <4> HIDE DEF X, U
      <4> QED
        BY <4>1, MatchesWhole DEF U
    <3>3. httpDecode(b) = [decode_success |-> TRUE, data |-> d, buffer |-> recycleRead(b, Len(X))]
      <4>1. Sound(Nat, b)
        BY <1>1, <3>1
      <4> QED
        BY <4>1, <3>1, <3>2, HttpDecodes
    <3>4. d # NoRequest
      <4>1. d.path # <<>>
        BY <3>1 DEF WellFormed
      <4>2. NoRequest.path = <<>>
        BY DEF NoRequest
      <4> QED
        BY <4>1, <4>2
    <3> HIDE DEF X
    <3> QED
      BY <2>1, <3>1, <3>3, <3>4 DEF DecodeOf
  <2>2. CASE p # "Http"
    <3> DEFINE X == encodePbData(d)
    <3>1. Decodable(d) /\ d \in PbData /\ x = X /\ O = Bytes
      BY <2>2 DEF GoodOf, TextOf, OctetsOf
    <3>2. decode(b, beyond) = [decode_success |-> TRUE, data |-> d, buffer |-> recycleRead(b, PkLen(d))]
      <4>1. Unread(b, X, V) /\ V \in Seq(Bytes) /\ Sound(Bytes, b)
        BY <1>1, <3>1
      <4> QED
        BY <4>1, <3>1, DecodeWhole
    <3>3. Len(X) = PkLen(d)
      BY <3>1, FrameLayout
    <3>4. d # NoRequest
      <4>1. "msg_req" \in DOMAIN d
        BY <3>1 DEF PbData
      <4>2. DOMAIN NoRequest = {"method", "path", "content_length", "body"}
        BY DEF NoRequest
      <4>3. "msg_req" \notin DOMAIN NoRequest
        BY <4>2
      <4> QED
        BY <4>1, <4>3, Zenon
    <3> HIDE DEF X
    <3> QED
      BY <2>2, <3>1, <3>2, <3>3, <3>4 DEF DecodeOf
  <2> QED
    BY <2>1, <2>2
<1> HIDE DEF c
<1> QED
  BY <1>2, <1>3 DEF Kept

(* Data that have arrived in part are not found: nothing is taken off.     *)
LEMMA StepPart ==
  ASSUME NEW p, NEW d \in GoodOf(p), NEW b, Kept(p, b), NEW V \in Seq(OctetsOf(p)), V # <<>>,
         PartOf(b, TextOf(p, d), V), NEW beyond \in Bytes
  PROVE  LET result == DecodeOf(p, b, beyond)
         IN  /\ result.decode_success => p = "Http" /\ result.data = NoRequest
             /\ Kept(p, result.buffer) /\ getBufferString(result.buffer) = getBufferString(b)
<1> DEFINE x == TextOf(p, d)
           result == DecodeOf(p, b, beyond)
           O == OctetsOf(p)
<1>1. x \in Seq(O) /\ 0 \in O /\ Sound(O, b) /\ V \in Seq(O)
  BY TextType, OctetsNat DEF Kept
<1>2. CASE p = "Http"
  <2> DEFINE X == RequestText(d)
             U == getBufferString(b)
  <2>1. WellFormed(d) /\ x = X /\ O = Nat
    BY <1>2 DEF GoodOf, TextOf, OctetsOf
  <2>2. Matches(U, X) /\ ~(Len(U) >= Len(X))
    <3>1. PartOf(b, X, V) /\ V \in Seq(Nat) /\ X \in Seq(Nat) /\ Sound(Nat, b)
      BY <1>1, <2>1
    <3> HIDE DEF X, U
    <3> QED
      BY <3>1, MatchesPart DEF U
  <2>3. httpDecode(b).data = NoRequest /\ httpDecode(b).buffer = b
    <3>1. Sound(Nat, b)
      BY <1>1, <2>1
    <3> QED
      BY <3>1, <2>1, <2>2, HttpDecodes
  <2>4. result = httpDecode(b)
    BY <1>2 DEF DecodeOf
  <2> QED
    BY <1>2, <2>3, <2>4
<1>3. CASE p # "Http"
  <2> DEFINE X == encodePbData(d)
             c == recycleRead(b, 0)
  <2>1. Decodable(d) /\ x = X /\ O = Bytes
    BY <1>3 DEF GoodOf, TextOf, OctetsOf
  <2>2. ~decode(b, beyond).decode_success /\ decode(b, beyond).buffer \in {b, c}
    <3>1. PartOf(b, X, V) /\ V \in Seq(Bytes) /\ Sound(Bytes, b)
      BY <1>1, <2>1
    <3> QED
      BY <3>1, <2>1, DecodePart
  <2>3. Kept(p, c) /\ getBufferString(c) = getBufferString(b)
    <3> DEFINE e == <<>>
               U == getBufferString(b)
    <3>1. U \in Seq(O) /\ e \in Seq(O) /\ Len(e) = 0
      BY <1>1, UnreadIs
    <3>2. Unread(b, e, U)
      BY <3>1, ConcatEmptySeq DEF Unread
    <3> HIDE DEF e, U
    <3>3. /\ Sound(O, recycleRead(b, Len(e))) /\ Tidy(recycleRead(b, Len(e)))
          /\ getBufferString(recycleRead(b, Len(e))) = U
      BY <1>1, <3>1, <3>2, TakenOff
    <3> QED
      BY <3>1, <3>3 DEF Kept, U
  <2> HIDE DEF c
  <2>4. result = decode(b, beyond)
    BY <1>3 DEF DecodeOf
  <2> QED
    BY <2>2, <2>3, <2>4
<1> QED
  BY <1>2, <1>3

-----------------------------------------------------------------------------
(* Bytes are natural numbers.                                              *)
LEMMA BytesNat == \A t \in Seq(Bytes) : t \in Seq(Nat)
<1>1. Bytes \subseteq Nat
  BY BaseFacts DEF Bytes
<1>2. Seq(Bytes) \subseteq Seq(Nat)
  BY <1>1, SeqMonotonic, Zenon
<1> QED
  BY <1>2, Zenon

(* A service's name is found when the name is its name, a dot and more,    *)
(* and it has no dot itself.                                               *)

Named(full_name, s, m) == full_name = s \o <<DOT>> \o m

(* The name, character by character.                                       *)
LEMMA NamedLayout ==
  ASSUME NEW T \in Seq(Nat), NEW s \in Seq(Nat), NEW m \in Seq(Nat)
  PROVE  Named(T, s, m) <=>
           /\ Len(T) = Len(s) + 1 + Len(m) /\ T[Len(s) + 1] = DOT
           /\ \A i \in 1 .. Len(s) : T[i] = s[i]
           /\ \A i \in 1 .. Len(m) : T[Len(s) + 1 + i] = m[i]
<1> DEFINE dot == <<DOT>>
           h == s \o dot
           L == h \o m
           a == Len(s)
           n == Len(m)
<1>1. dot \in Seq(Nat) /\ Len(dot) = 1 /\ dot[1] = DOT /\ a \in Nat /\ n \in Nat /\ Len(T) \in Nat
  BY DEF DOT
<1> HIDE DEF dot, a, n
<1>2. /\ h \in Seq(Nat) /\ Len(h) = a + 1
      /\ \A i \in 1 .. a + 1 : h[i] = IF i <= a THEN s[i] ELSE dot[i - a]
  <2>1. /\ h \in Seq(Nat) /\ Len(h) = Len(s) + Len(dot)
        /\ \A i \in 1 .. Len(s) + Len(dot) : h[i] = IF i <= Len(s) THEN s[i] ELSE dot[i - Len(s)]
    BY <1>1, ConcatProperties
  <2> QED
    BY <1>1, <2>1 DEF a
<1> HIDE DEF h
<1>3. /\ L \in Seq(Nat) /\ Len(L) = (a + 1) + n
      /\ \A i \in 1 .. (a + 1) + n : L[i] = IF i <= a + 1 THEN h[i] ELSE m[i - (a + 1)]
  BY <1>2, ConcatProperties DEF n
<1> HIDE DEF L
<1>4. /\ Len(L) = a + 1 + n /\ L[a + 1] = DOT /\ \A i \in 1 .. a : L[i] = s[i]
      /\ \A i \in 1 .. n : L[a + 1 + i] = m[i]
  <2>1. L[a + 1] = DOT
    <3>1. a + 1 \in 1 .. a + 1 /\ a + 1 \in 1 .. (a + 1) + n /\ ~(a + 1 <= a) /\ (a + 1) - a = 1
      BY <1>1
    <3> QED
      BY <3>1, <1>1, <1>2, <1>3
  <2>2. \A i \in 1 .. a : L[i] = s[i]
    <3>1. \A i \in 1 .. a : i \in 1 .. a + 1 /\ i \in 1 .. (a + 1) + n /\ i <= a /\ i <= a + 1
      BY <1>1
    <3> QED
      BY <3>1, <1>2, <1>3
  <2>3. \A i \in 1 .. n : L[a + 1 + i] = m[i]
    <3>1. \A i \in 1 .. n : /\ a + 1 + i \in 1 .. (a + 1) + n /\ ~(a + 1 + i <= a + 1)
                            /\ (a + 1 + i) - (a + 1) = i
      BY <1>1
    <3> QED
      BY <3>1, <1>3
  <2> QED
    BY <1>1, <1>3, <2>1, <2>2, <2>3
<1>5. ASSUME /\ Len(T) = a + 1 + n /\ T[a + 1] = DOT /\ \A i \in 1 .. a : T[i] = s[i]
             /\ \A i \in 1 .. n : T[a + 1 + i] = m[i]
      PROVE  T = L
  <2>1. \A i \in 1 .. Len(T) : T[i] = L[i]
    <3> TAKE i \in 1 .. Len(T)
    <3>1. CASE i <= a
      <4>1. i \in 1 .. a
        BY <3>1
      <4> QED
        BY <4>1, <1>4, <1>5
    <3>2. CASE i = a + 1
      BY <3>2, <1>4, <1>5
    <3>3. CASE i > a + 1
      <4> DEFINE j == i - (a + 1)
      <4>1. j \in 1 .. n /\ a + 1 + j = i
        BY <1>1, <1>5, <3>3
      <4> HIDE DEF j
      <4>2. T[a + 1 + j] = m[j] /\ L[a + 1 + j] = m[j]
        BY <4>1, <1>4, <1>5
      <4> QED
        BY <4>1, <4>2
    <3> QED
      BY <1>1, <3>1, <3>2, <3>3
  <2> QED
    BY <1>3, <1>4, <1>5, <2>1, SeqEqual
<1>6. Named(T, s, m) <=> T = L
  BY DEF Named, L, h, dot
<1> QED
  BY <1>4, <1>5, <1>6 DEF a, n

(* find looks for the first dot.                                           *)
LEMMA DotFound ==
  ASSUME NEW T \in Seq(Nat)
  PROVE  LET i == find(T, <<DOT>>)
         IN  /\ i # npos => /\ i \in 0 .. Len(T) - 1 /\ T[i + 1] = DOT
                            /\ \A j \in 1 .. i : T[j] # DOT
             /\ \A a \in 0 .. Len(T) - 1 :
                  T[a + 1] = DOT /\ (\A j \in 1 .. a : T[j] # DOT) => i = a /\ i # npos
<1> DEFINE i == find(T, <<DOT>>)
           P == Places(T, <<DOT>>)
<1>1. \A k : k \in P <=> k \in 0 .. Len(T) - 1 /\ T[k + 1] = DOT
  <2>1. Len(<<DOT>>) = 1 /\ Len(T) \in Nat /\ DOT \in Nat
    BY DEF DOT
  <2>2. \A k \in 0 .. Len(T) - 1 : SubSeq(T, k + 1, k + 1) = <<T[k + 1]>>
    <3> TAKE k \in 0 .. Len(T) - 1
    <3>1. k + 1 \in 1 .. Len(T)
      BY <2>1
    <3> QED
      BY <3>1, OneIs
  <2>3. \A k \in 0 .. Len(T) - 1 : SubSeq(T, k + 1, k + 1) = <<DOT>> <=> T[k + 1] = DOT
    <3>1. \A u, v : <<u>> = <<v>> <=> u = v
      OBVIOUS
    <3> QED
      BY <2>2, <3>1
  <2> QED
    BY <2>1, <2>3 DEF Places
<1>2. P \in SUBSET Nat
  BY <1>1
<1>3. i = IF P = {} THEN npos ELSE Min(P)
  BY DEF find
<1> HIDE DEF P, i
<1>4. P # {} => Min(P) \in P /\ \A k \in P : Min(P) <= k
  BY <1>2, MinIn
<1>5. npos \notin Nat
  BY DEF npos
<1>6. ASSUME i # npos
      PROVE  i \in 0 .. Len(T) - 1 /\ T[i + 1] = DOT /\ \A j \in 1 .. i : T[j] # DOT
  <2>1. i \in P /\ \A k \in P : i <= k
    BY <1>3, <1>4, <1>6
  <2>2. ASSUME NEW j \in 1 .. i, T[j] = DOT PROVE FALSE
    <3>1. i \in 0 .. Len(T) - 1 /\ Len(T) \in Nat
      BY <1>1, <2>1
    <3>2. j - 1 \in 0 .. Len(T) - 1 /\ (j - 1) + 1 = j /\ ~(i <= j - 1)
      BY <3>1
    <3>3. j - 1 \in P
      BY <3>2, <2>2, <1>1
    <3> QED
      BY <2>1, <3>2, <3>3
  <2> QED
    BY <1>1, <2>1, <2>2
<1>7. ASSUME NEW a \in 0 .. Len(T) - 1, T[a + 1] = DOT, \A j \in 1 .. a : T[j] # DOT
      PROVE  i = a /\ i # npos
  <2>1. a \in P
    BY <1>1, <1>7
  <2>2. i \in P /\ i <= a
    BY <2>1, <1>3, <1>4
  <2>3. ~(i < a)
    <3>1. i \in 0 .. Len(T) - 1 /\ T[i + 1] = DOT
      BY <1>1, <2>2
    <3>2. i < a => i + 1 \in 1 .. a
      BY <3>1
    <3> QED
      BY <3>1, <3>2, <1>7
  <2> QED
    BY <2>2, <2>3, <1>1, <1>5
<1> QED
  BY <1>6, <1>7 DEF i

(* parseServiceFullName cuts at the first dot.                             *)
LEMMA NameParsed ==
  ASSUME NEW T \in Seq(Nat), NEW s \in Seq(Nat), NEW m \in Seq(Nat)
  PROVE  LET name == parseServiceFullName(T)
         IN  (DOT \notin Range(s) /\ Named(T, s, m))
               <=> (name.ok /\ name.service_name = s /\ name.method_name = m)
<1> DEFINE i == find(T, <<DOT>>)
           S1 == SubSeq(T, 1, i)
           M1 == SubSeq(T, i + 2, Len(T))
           a == Len(s)
           n == Len(m)
<1>1. /\ parseServiceFullName(T).ok = (i # npos)
      /\ parseServiceFullName(T).service_name = SubSeq(T, 0 + 1, 0 + i)
      /\ parseServiceFullName(T).method_name = M1
  BY DEF parseServiceFullName, substr
<1>2. a \in Nat /\ n \in Nat /\ Len(T) \in Nat
  OBVIOUS
<1>3. DOT \notin Range(s) <=> \A j \in 1 .. a : s[j] # DOT
  BY DEF Range
<1>4. /\ i # npos => /\ i \in 0 .. Len(T) - 1 /\ T[i + 1] = DOT
                     /\ \A j \in 1 .. i : T[j] # DOT
      /\ \A k \in 0 .. Len(T) - 1 :
           T[k + 1] = DOT /\ (\A j \in 1 .. k : T[j] # DOT) => i = k /\ i # npos
  BY DotFound
<1> HIDE DEF i
<1>5. ASSUME i # npos
      PROVE  /\ S1 \in Seq(Nat) /\ Len(S1) = i /\ \A j \in 1 .. i : S1[j] = T[j]
             /\ M1 \in Seq(Nat) /\ Len(M1) = Len(T) - (i + 1)
             /\ \A j \in 1 .. Len(T) - (i + 1) : M1[j] = T[i + 1 + j]
             /\ SubSeq(T, 0 + 1, 0 + i) = S1
  <2>1. i \in Nat /\ i + 1 <= Len(T)
    BY <1>2, <1>4, <1>5
  <2>2. 0 + i <= Len(T) /\ 0 + i = i /\ 0 + 1 = 1
    BY <1>2, <2>1
  <2>3. /\ S1 \in Seq(Nat) /\ Len(S1) = i /\ \A j \in 1 .. i : S1[j] = T[j]
    BY <1>2, <2>1
  <2> DEFINE k == i + 1
             q == Len(T) - k
  <2>4. k \in Nat /\ q \in Nat /\ k + q <= Len(T) /\ k + q = Len(T) /\ k + 1 = i + 2
    BY <1>2, <2>1
  <2>5. M1 = SubSeq(T, k + 1, k + q)
    <3>1. k + 1 = i + 2 /\ k + q = Len(T)
      BY <2>4
    <3> HIDE DEF k, q
    <3> QED
      BY <3>1
  <2> HIDE DEF k, q
  <2>6. M1 \in Seq(Nat) /\ Len(M1) = q /\ \A j \in 1 .. q : M1[j] = T[k + j]
    <3> DEFINE W == SubSeq(T, k + 1, k + q)
    <3>1. W \in Seq(Nat) /\ Len(W) = q /\ \A j \in 1 .. q : W[j] = T[k + j]
      BY <2>4
    <3> QED
      BY <2>5, <3>1
  <2> QED
    BY <2>2, <2>3, <2>6 DEF k, q
<1> HIDE DEF S1, M1, a, n
<1>6. Named(T, s, m) <=>
           /\ Len(T) = a + 1 + n /\ T[a + 1] = DOT
           /\ \A j \in 1 .. a : T[j] = s[j]
           /\ \A j \in 1 .. n : T[a + 1 + j] = m[j]
  BY NamedLayout DEF a, n
<1>7. ASSUME DOT \notin Range(s), Named(T, s, m)
      PROVE  i # npos /\ S1 = s /\ M1 = m
  <2>1. i = a /\ i # npos
    <3>2. \A j \in 1 .. a : T[j] = s[j]
      BY <1>6, <1>7
    <3>3. \A j \in 1 .. a : s[j] # DOT
      BY <1>3, <1>7
    <3>4. Len(T) = a + 1 + n /\ T[a + 1] = DOT
      BY <1>6, <1>7
    <3>5. a \in 0 .. Len(T) - 1
      BY <1>2, <3>4
    <3>1. a \in 0 .. Len(T) - 1 /\ T[a + 1] = DOT /\ \A j \in 1 .. a : T[j] # DOT
      BY <3>2, <3>3, <3>4, <3>5
    <3> QED
      BY <3>1, <1>4
  <2>2. Len(T) - (i + 1) = n /\ Len(T) = a + 1 + n
    BY <1>2, <1>6, <1>7, <2>1
  <2>3. /\ \A j \in 1 .. a : S1[j] = s[j]
        /\ \A j \in 1 .. n : M1[j] = m[j]
    BY <1>5, <1>6, <1>7, <2>1, <2>2
  <2>4. S1 \in Seq(Nat) /\ M1 \in Seq(Nat) /\ Len(S1) = Len(s) /\ Len(M1) = Len(m)
    BY <1>5, <2>1, <2>2 DEF a, n
  <2>5. S1 = s
    BY <2>3, <2>4, SeqEqual DEF a
  <2>6. M1 = m
    BY <2>3, <2>4, SeqEqual DEF n
  <2> QED
    BY <2>1, <2>5, <2>6
<1>8. ASSUME i # npos, S1 = s, M1 = m
      PROVE  DOT \notin Range(s) /\ Named(T, s, m)
  <2>1. i = a /\ n = Len(T) - (i + 1) /\ i \in 0 .. Len(T) - 1
    BY <1>4, <1>5, <1>8 DEF a, n
  <2>2. DOT \notin Range(s)
    BY <1>3, <1>4, <1>5, <1>8, <2>1
  <2>3. Named(T, s, m)
    <3>1. Len(T) = a + 1 + n
      BY <1>2, <2>1
    <3> QED
      BY <1>4, <1>5, <1>6, <1>8, <2>1, <3>1
  <2> QED
    BY <2>2, <2>3
<1>9. parseServiceFullName(T).ok => parseServiceFullName(T).service_name = S1
  BY <1>1, <1>5
<1> QED
  BY <1>1, <1>7, <1>8, <1>9

(* The code of a reply says whether the request named a method.            *)
LEMMA ErrorIs ==
  ASSUME NEW d \in PbData
  PROVE  (ErrorOf(d) = 0) <=> NamesAMethod(d) /\ d.pb_data \notin Unparsable
<1> DEFINE T == d.service_full_name
           name == parseServiceFullName(T)
           R == Registered(name.service_name)
           Has == \E s \in R : name.method_name \in s.methods
<1>1. T \in Seq(Nat)
  <2>1. T \in Seq(Bytes)
    BY DataTypes
  <2> HIDE DEF T
  <2> QED
    BY <2>1, BytesNat
<1>2. \A s \in Services : s.full_name \in Seq(Nat) /\ \A m \in s.methods : m \in Seq(Nat)
  <2>1. \A s \in Services : s.full_name \in Seq(Bytes) /\ s.methods \in SUBSET Seq(Bytes)
    BY ServicesAssumption
  <2> QED
    BY <2>1, BytesNat
<1> HIDE DEF T
<1>3. ASSUME NEW s \in Services, NEW m \in s.methods
      PROVE  (DOT \notin Range(s.full_name) /\ Named(T, s.full_name, m))
               <=> (name.ok /\ name.service_name = s.full_name /\ name.method_name = m)
  BY <1>1, <1>2, NameParsed
<1> HIDE DEF name
<1>4. NamesAMethod(d) <=> name.ok /\ Has
  <2>1. NamesAMethod(d) <=> \E s \in Services : \E m \in s.methods :
                               DOT \notin Range(s.full_name) /\ Named(T, s.full_name, m)
    BY DEF NamesAMethod, Named, T
  <2>2. R = {s \in Services : s.full_name = name.service_name}
    BY DEF Registered
  <2> HIDE DEF R
  <2>3. Has <=> \E s \in Services : s.full_name = name.service_name /\ name.method_name \in s.methods
    BY <2>2
  <2> QED
    BY <2>1, <2>3, <1>3
<1>5. ErrorOf(d) =
        IF ~name.ok THEN ERROR_PARSE_SERVICE_NAME
        ELSE IF R = {} THEN ERROR_SERVICE_NOT_FOUND
        ELSE IF \A s \in R : name.method_name \notin s.methods THEN ERROR_METHOD_NOT_FOUND
        ELSE IF d.pb_data \in Unparsable THEN ERROR_FAILED_SERIALIZE ELSE 0
  BY DEF ErrorOf, name, T
<1>6. /\ ERROR_PARSE_SERVICE_NAME # 0 /\ ERROR_SERVICE_NOT_FOUND # 0 /\ ERROR_METHOD_NOT_FOUND # 0
      /\ ERROR_FAILED_SERIALIZE # 0
  BY DEF ERROR_PARSE_SERVICE_NAME, ERROR_SERVICE_NOT_FOUND, ERROR_METHOD_NOT_FOUND,
         ERROR_FAILED_SERIALIZE
<1> HIDE DEF R
<1>7. name.ok \in BOOLEAN
  BY DEF name, parseServiceFullName
<1> QED
  BY <1>4, <1>5, <1>6, <1>7

-----------------------------------------------------------------------------
(* The bytes on their way are those of the data that were sent and not yet *)
(* parsed; and a receiver that waits has not all of the first of them.     *)

InRead  == getBufferString(m_read_buffer)
InWrite == getBufferString(m_write_buffer)

Owed(due) ==
  /\ due \in Seq(GoodOf(m_protocal_type)) /\ sent = parsed \o due
  /\ (InRead \o wire) \o InWrite = StreamOf(m_protocal_type, due)
  /\ pc = "input" /\ writeAble(m_read_buffer) # 0 /\ due # <<>> =>
       Len(InRead) < Len(TextOf(m_protocal_type, due[1]))

FlowInv ==
  /\ m_protocal_type \in Protocals /\ offered \in Nat
  /\ Kept(m_protocal_type, m_write_buffer) /\ Kept(m_protocal_type, m_read_buffer)
  /\ wire \in Seq(OctetsOf(m_protocal_type))
  /\ m_protocal_type = "Http" => InWrite = <<>>
  /\ parsed \in Seq(GoodOf(m_protocal_type))
  /\ \E due : Owed(due)

(* The types of what is on its way.                                        *)
LEMMA FlowTypes ==
  ASSUME FlowInv
  PROVE  LET O == OctetsOf(m_protocal_type)
         IN  /\ InRead \in Seq(O) /\ InWrite \in Seq(O) /\ wire \in Seq(O) /\ 0 \in O
             /\ Sound(O, m_read_buffer) /\ Sound(O, m_write_buffer)
             /\ Tidy(m_read_buffer) /\ Tidy(m_write_buffer)
             /\ Len(InRead) = readAble(m_read_buffer) /\ Len(InWrite) = readAble(m_write_buffer)
             /\ readAble(m_read_buffer) \in Nat /\ readAble(m_write_buffer) \in Nat
<1> DEFINE O == OctetsOf(m_protocal_type)
<1>1. /\ Sound(O, m_read_buffer) /\ Sound(O, m_write_buffer)
      /\ Tidy(m_read_buffer) /\ Tidy(m_write_buffer) /\ wire \in Seq(O) /\ 0 \in O
  BY OctetsNat DEF FlowInv, Kept
<1> HIDE DEF O
<1>2. /\ InRead \in Seq(O) /\ Len(InRead) = readAble(m_read_buffer)
      /\ InWrite \in Seq(O) /\ Len(InWrite) = readAble(m_write_buffer)
  BY <1>1, UnreadIs DEF InRead, InWrite
<1>3. readAble(m_read_buffer) \in Nat /\ readAble(m_write_buffer) \in Nat
  BY <1>1, SoundFields
<1> QED
  BY <1>1, <1>2, <1>3 DEF O

(* The invariant holds of a new connection.                                *)
LEMMA FlowInit == StreamInit => FlowInv
<1> SUFFICES ASSUME StreamInit PROVE FlowInv
  OBVIOUS
<1> DEFINE p == m_protocal_type
           O == OctetsOf(p)
           b == m_read_buffer
<1>0. m_write_buffer = b
  BY DEF StreamInit
<1>1. PICK size_follows \in BOOLEAN : b = TcpBufferOf(BufferSize, size_follows)
  BY DEF StreamInit
<1>2. 0 \in O /\ BufferSize \in Nat /\ BufferSize > 0
  BY OctetsNat, StreamAssumption
<1> HIDE DEF b, O
<1>3. /\ b \in BufferOf(O) /\ b.m_read_index = 0 /\ b.m_write_index = 0
      /\ b.size_follows = size_follows
      /\ b.m_buffer = IF size_follows THEN Zeros(BufferSize) ELSE <<>>
  <2>1. (IF size_follows THEN Zeros(BufferSize) ELSE <<>>) \in Seq(O)
    BY <1>2, ZerosType
  <2> QED
    BY <1>1, <2>1 DEF TcpBufferOf, BufferOf
<1>4. getSize(b) \in Nat /\ (b.size_follows => getSize(b) > 0)
  <2>1. b.size_follows => getSize(b) = BufferSize
    BY <1>2, <1>3, ZerosType DEF getSize
  <2> QED
    BY <1>2, <1>3, <2>1 DEF getSize, BufferOf
<1>5. Kept(p, b)
  BY <1>3, <1>4 DEF Kept, Sound, InBounds, Tidy, O
<1>6. getBufferString(b) = <<>>
  <2>1. Len(getBufferString(b)) = 0 /\ getBufferString(b) \in Seq(O)
    BY <1>3, <1>5, UnreadIs DEF Kept, readAble, O
  <2> QED
    BY <2>1
<1>7. Owed(<<>>)
  <2>1. StreamOf(p, <<>>) = <<>>
    BY StreamEmpty
  <2>2. (<<>> \o <<>>) \o <<>> = <<>> /\ <<>> \o <<>> = <<>>
    OBVIOUS
  <2>3. InRead = <<>> /\ InWrite = <<>> /\ wire = <<>> /\ sent = <<>> /\ parsed = <<>>
    BY <1>0, <1>6 DEF InRead, InWrite, StreamInit, b
  <2>4. <<>> \in Seq(GoodOf(p))
    OBVIOUS
  <2> QED
    BY <2>1, <2>2, <2>3, <2>4 DEF Owed
<1>8. /\ m_protocal_type \in Protocals /\ offered \in Nat /\ wire \in Seq(OctetsOf(p))
      /\ parsed \in Seq(GoodOf(p))
  BY DEF StreamInit
<1> QED
  BY <1>0, <1>5, <1>6, <1>7, <1>8 DEF FlowInv, InWrite, b

(* Data that are sent go behind what is on its way.                        *)
LEMMA Sends ==
  ASSUME FlowInv, NEW d \in GoodOf(m_protocal_type), sent' = Append(sent, d),
         UNCHANGED <<m_read_buffer, pc, m_protocal_type, parsed>>,
         Kept(m_protocal_type, m_write_buffer'), wire' \in Seq(OctetsOf(m_protocal_type)),
         offered' \in Nat, m_protocal_type = "Http" => InWrite' = <<>>,
         (InRead \o wire') \o InWrite' = ((InRead \o wire) \o InWrite) \o TextOf(m_protocal_type, d)
  PROVE  FlowInv'
<1> DEFINE p == m_protocal_type
           x == TextOf(p, d)
           G == GoodOf(p)
<1>1. PICK due : Owed(due)
  BY DEF FlowInv
<1> DEFINE more == Append(due, d)
<1>2. due \in Seq(G) /\ sent = parsed \o due /\ parsed \in Seq(G)
  BY <1>1 DEF Owed, FlowInv
<1>3. more \in Seq(G) /\ sent' = parsed \o more
  <2> HIDE DEF G
  <2>1. d \in G
    BY DEF G
  <2>2. due \in Seq(G) /\ parsed \in Seq(G)
    BY <1>2
  <2>3. more \in Seq(G)
    BY <2>1, <2>2, AppendProperties
  <2>4. Append(parsed \o due, d) = parsed \o Append(due, d)
    <3>1. Appends(G)
      BY Appending, Zenon
    <3> QED
      BY <2>1, <2>2, <3>1 DEF Appends
  <2> QED
    BY <1>2, <2>3, <2>4
<1>4. StreamOf(p, more) = StreamOf(p, due) \o x
  BY <1>2, StreamAppend
<1>5. (InRead \o wire') \o InWrite' = StreamOf(p, more)
  BY <1>1, <1>4 DEF Owed
<1>6. pc = "input" /\ writeAble(m_read_buffer) # 0 => Len(InRead) < Len(TextOf(p, more[1]))
  <2>1. CASE due = <<>>
    <3>1. StreamOf(p, due) = <<>>
      BY <2>1, StreamEmpty
    <3>2. (InRead \o wire) \o InWrite = <<>>
      BY <1>1, <3>1 DEF Owed
    <3>3. InRead = <<>>
      <4> DEFINE O == OctetsOf(p)
      <4>1. InRead \in Seq(O) /\ wire \in Seq(O) /\ InWrite \in Seq(O)
        BY FlowTypes
      <4> HIDE DEF O
      <4>2. InRead \o wire \in Seq(O)
        BY <4>1, ConcatProperties
      <4>3. InRead \o wire = <<>>
        BY <3>2, <4>1, <4>2, ConcatEqualIffEmpty
      <4> QED
        BY <4>1, <4>3, ConcatEqualIffEmpty
    <3>4. more[1] = d
      BY <2>1
    <3>5. x \in Seq(OctetsOf(p)) /\ x # <<>>
      BY TextType
    <3> HIDE DEF x
    <3>6. Len(InRead) < Len(x)
      BY <3>3, <3>5
    <3> QED
      BY <3>4, <3>6 DEF x
  <2>2. CASE due # <<>>
    <3>1. more[1] = due[1]
      <4> HIDE DEF G
      <4>1. d \in G
        BY DEF G
      <4>2. 1 \in 1 .. Len(due)
        BY <1>2, <2>2
      <4> QED
        BY <1>2, <4>1, <4>2, AppendProperties
    <3> QED
      BY <1>1, <2>2, <3>1 DEF Owed
  <2> QED
    BY <2>1, <2>2
<1> HIDE DEF more
<1>7. Owed(more)'
  <2>1. InRead' = InRead
    BY DEF InRead
  <2> QED
    BY <1>3, <1>5, <1>6, <2>1 DEF Owed
<1>8. \E due2 : Owed(due2)'
  BY <1>7
<1> QED
  BY <1>8 DEF FlowInv

(* The invariant, by the steps of the sender.                              *)
LEMMA FlowEncode ==
  ASSUME DataAreFound, FlowInv, Encode
  PROVE  FlowInv'
<1> DEFINE p == m_protocal_type
           d == Structs[offered + 1]
           O == OctetsOf(p)
           b == m_write_buffer
           x == TextOf(p, d)
           c == writeToBuffer(b, encodePbData(d))
<1>1. /\ p = "zRpcPb" /\ p # "Http" /\ offered' = offered + 1 /\ offered < Len(Structs)
      /\ m_write_buffer' = encode(m_write_buffer, d)
      /\ sent' = IF encode_success(d) THEN Append(sent, d) ELSE sent
      /\ UNCHANGED <<m_read_buffer, wire, peer_open, pc, m_protocal_type, got, parsed, replied>>
  BY DEF Encode
<1>2. offered' \in Nat /\ offered + 1 \in 1 .. Len(Structs) /\ Structs \in Seq(PbData)
  BY <1>1 DEF FlowInv, DataAreFound
<1>3. CASE encode_success(d)
  <2>1. d \in GoodOf(p)
    <3>1. d \in PbData /\ offered + 1 \in DOMAIN Structs
      BY <1>2
    <3>2. Decodable(d)
      BY <1>3, <3>1 DEF DataAreFound
    <3> QED
      BY <1>1, <1>3, <3>1, <3>2 DEF GoodOf
  <2>2. m_write_buffer' = c /\ x = encodePbData(d) /\ sent' = Append(sent, d)
    BY <1>1, <1>3 DEF encode, TextOf
  <2>3. x \in Seq(O) /\ x # <<>> /\ 0 \in O /\ Sound(O, b) /\ Tidy(b)
    BY <2>1, TextType, FlowTypes
  <2> HIDE DEF x, c, O, d
  <2>4. Sound(O, m_write_buffer') /\ Tidy(m_write_buffer') /\ InWrite' = InWrite \o x
    <3>1. LET e == writeToBuffer(b, x)
          IN  Sound(O, e) /\ Tidy(e) /\ getBufferString(e) = getBufferString(b) \o x
      <4> HIDE DEF b
      <4> QED
        BY <2>3, Written
    <3>2. m_write_buffer' = writeToBuffer(b, x)
      BY <2>2 DEF c
    <3> QED
      BY <3>1, <3>2 DEF InWrite
  <2>5. (InRead \o wire') \o InWrite' = ((InRead \o wire) \o InWrite) \o x
    <3>1. InRead \in Seq(O) /\ wire \in Seq(O) /\ InWrite \in Seq(O)
      BY FlowTypes DEF O
    <3>2. InRead \o wire \in Seq(O)
      BY <3>1, ConcatProperties
    <3> DEFINE a == InRead \o wire
    <3> HIDE DEF a
    <3>3. (a \o InWrite) \o x = a \o (InWrite \o x)
      <4>1. Assoc(O)
        BY Associative, Zenon
      <4> QED
        BY <4>1, <2>3, <3>1, <3>2 DEF Assoc, a
    <3>4. wire' = wire
      BY <1>1
    <3> QED
      BY <2>4, <3>3, <3>4 DEF a
  <2>6. Kept(m_protocal_type, m_write_buffer') /\ wire' \in Seq(OctetsOf(m_protocal_type))
    BY <1>1, <2>4 DEF Kept, O, FlowInv
  <2>7. UNCHANGED <<m_read_buffer, pc, m_protocal_type, parsed>>
    BY <1>1
  <2>8. m_protocal_type = "Http" => InWrite' = <<>>
    BY <1>1
  <2> QED
    BY <1>2, <2>1, <2>2, <2>5, <2>6, <2>7, <2>8, Sends DEF x
<1>4. CASE ~encode_success(d)
  <2>1. UNCHANGED <<m_write_buffer, sent, m_read_buffer, wire, pc, m_protocal_type, parsed>>
    BY <1>1, <1>4 DEF encode
  <2>2. \A due : Owed(due)' <=> Owed(due)
    BY <2>1 DEF Owed, InRead, InWrite
  <2>3. \E due : Owed(due)'
    BY <2>2 DEF FlowInv
  <2>4. UNCHANGED InWrite
    BY <2>1 DEF InWrite
  <2> QED
    BY <1>2, <2>1, <2>3, <2>4 DEF FlowInv
<1> QED
  BY <1>3, <1>4

(* The invariant, by the requests of an HTTP client.                       *)
LEMMA FlowHttpClientSends ==
  ASSUME DataAreFound, FlowInv, HttpClientSends
  PROVE  FlowInv'
<1> DEFINE p == m_protocal_type
           d == HttpRequests[offered + 1]
           O == OctetsOf(p)
           x == TextOf(p, d)
<1>1. /\ p = "Http" /\ offered' = offered + 1 /\ offered < Len(HttpRequests)
      /\ sent' = Append(sent, d) /\ wire' = wire \o RequestText(d)
      /\ UNCHANGED <<m_write_buffer, m_read_buffer, peer_open, pc, m_protocal_type, got, parsed, replied>>
  BY DEF HttpClientSends
<1>2. offered' \in Nat /\ offered + 1 \in 1 .. Len(HttpRequests) /\ HttpRequests \in Seq(HttpData)
  BY <1>1 DEF FlowInv, DataAreFound
<1>3. d \in GoodOf(p)
  <2>1. d \in HttpData /\ offered + 1 \in DOMAIN HttpRequests
    BY <1>2
  <2>2. WellFormed(d)
    BY <2>1 DEF DataAreFound
  <2> QED
    BY <1>1, <2>1, <2>2 DEF GoodOf
<1>4. wire' = wire \o x /\ InWrite' = <<>> /\ InWrite = <<>>
  BY <1>1 DEF TextOf, InWrite, FlowInv
<1>5. x \in Seq(O) /\ InRead \in Seq(O) /\ wire \in Seq(O)
  BY <1>3, TextType, FlowTypes
<1> HIDE DEF x, O, d
<1>6. wire' \in Seq(O)
  BY <1>4, <1>5, ConcatProperties
<1>7. (InRead \o wire') \o InWrite' = ((InRead \o wire) \o InWrite) \o x
  <2>1. InRead \o wire \in Seq(O) /\ InRead \o wire' \in Seq(O)
    BY <1>5, <1>6, ConcatProperties
  <2>2. (InRead \o wire) \o InWrite = InRead \o wire /\ (InRead \o wire') \o InWrite' = InRead \o wire'
    BY <1>4, <2>1, ConcatEmptySeq
  <2>3. (InRead \o wire) \o x = InRead \o (wire \o x)
    <3>1. Assoc(O)
      BY Associative, Zenon
    <3> QED
      BY <3>1, <1>5 DEF Assoc
  <2> QED
    BY <1>4, <2>2, <2>3
<1>8. Kept(m_protocal_type, m_write_buffer')
  BY <1>1 DEF FlowInv
<1> QED
  BY <1>1, <1>2, <1>3, <1>4, <1>6, <1>7, <1>8, Sends DEF x, O

(* The bytes on their way change places.                                   *)
LEMMA Moves ==
  ASSUME FlowInv, NEW due, Owed(due), UNCHANGED <<offered, sent, m_protocal_type, parsed>>,
         Kept(m_protocal_type, m_write_buffer'), Kept(m_protocal_type, m_read_buffer'),
         wire' \in Seq(OctetsOf(m_protocal_type)),
         m_protocal_type = "Http" => InWrite' = <<>>,
         (InRead' \o wire') \o InWrite' = (InRead \o wire) \o InWrite,
         pc' = "input" /\ writeAble(m_read_buffer') # 0 /\ due # <<>> =>
           Len(InRead') < Len(TextOf(m_protocal_type, due[1]))
  PROVE  FlowInv'
<1>1. Owed(due)'
  BY DEF Owed
<1>2. \E due2 : Owed(due2)'
  BY <1>1
<1> QED
  BY <1>2 DEF FlowInv

(* The kernel takes bytes off the write buffer and onto the wire.          *)
LEMMA FlowOutput ==
  ASSUME "write" \notin Faults, FlowInv, output
  PROVE  FlowInv'
<1> DEFINE p == m_protocal_type
           O == OctetsOf(p)
           b == m_write_buffer
           n == readAble(b)
<1>1. PICK rt \in WriteReturns :
        /\ rt <= n
        /\ wire' = wire \o BytesFrom(b, b.m_read_index, rt)
        /\ m_write_buffer' = recycleRead(b, rt)
  BY DEF output
<1>2. n > 0 /\ UNCHANGED <<m_read_buffer, peer_open, pc, m_protocal_type, offered, sent, parsed>>
  BY DEF output, history
<1>3. rt \in 0 .. n /\ n \in Nat
  <2>1. rt \in Pieces \/ rt = n
    BY DEF WriteReturns
  <2>2. rt \in Nat
    BY <2>1, FlowTypes, StreamAssumption
  <2> QED
    BY <1>1, <2>2, FlowTypes
<1> DEFINE x == BytesFrom(b, b.m_read_index, rt)
           t == InWrite
           c == recycleRead(b, rt)
           W == SubSeq(t, rt + 1, Len(t))
<1>4. /\ InRead \in Seq(O) /\ t \in Seq(O) /\ wire \in Seq(O) /\ 0 \in O /\ Len(t) = n
      /\ Sound(O, b) /\ Tidy(b)
  BY FlowTypes
<1> HIDE DEF O, n
<1>5. /\ b.m_buffer \in Seq(O) /\ b.m_read_index \in Nat /\ b.m_read_index + n <= Len(b.m_buffer)
      /\ Len(b.m_buffer) \in Nat
  BY <1>4, SoundFields DEF n
<1>6. \A i \in 1 .. n : t[i] = b.m_buffer[b.m_read_index + i]
  BY <1>4, UnreadIs DEF InWrite, n
<1>7. x \in Seq(O) /\ Len(x) = rt /\ \A i \in 1 .. rt : x[i] = b.m_buffer[b.m_read_index + i]
  <2> DEFINE s == b.m_buffer
             r == b.m_read_index
  <2>1. s \in Seq(O) /\ r \in Nat /\ rt \in Nat /\ r + rt <= Len(s)
    BY <1>3, <1>5
  <2> HIDE DEF s, r
  <2>2. LET y == SubSeq(s, r + 1, r + rt)
        IN  y \in Seq(O) /\ Len(y) = rt /\ \A i \in 1 .. rt : y[i] = s[r + i]
    BY <2>1, PartIs
  <2> QED
    BY <2>2 DEF BytesFrom, s, r
<1> HIDE DEF x, t, c
<1>8. W \in Seq(O) /\ t = x \o W
  <2>1. \A i \in 1 .. rt : i \in 1 .. n
    BY <1>3
  <2>2. \A i \in 1 .. Len(x) : t[i] = x[i]
    BY <1>6, <1>7, <2>1
  <2>3. Len(t) >= Len(x)
    BY <1>3, <1>4, <1>7
  <2>4. LET V == SubSeq(t, Len(x) + 1, Len(t)) IN V \in Seq(O) /\ t = x \o V
    BY <1>4, <1>7, <2>2, <2>3, PrefixIs
  <2> QED
    BY <1>7, <2>4
<1>9. Sound(O, c) /\ Tidy(c) /\ getBufferString(c) = W
  BY <1>3, <1>4, Recycled DEF c, t, InWrite, n
<1>10. InWrite' = W /\ InRead' = InRead
  BY <1>1, <1>2, <1>9 DEF InWrite, InRead, c
<1> HIDE DEF W
<1>11. wire' = wire \o x /\ wire' \in Seq(O)
  <2>1. wire' = wire \o x
    BY <1>1 DEF x
  <2> QED
    BY <2>1, <1>4, <1>7, ConcatProperties
<1>12. (InRead' \o wire') \o InWrite' = (InRead \o wire) \o InWrite
  <2> DEFINE a == InRead
             w == wire
  <2>1. a \in Seq(O) /\ w \in Seq(O) /\ x \in Seq(O) /\ W \in Seq(O)
    BY <1>4, <1>7, <1>8
  <2> HIDE DEF a, w
  <2>2. Assoc(O)
    BY Associative, Zenon
  <2>3. a \o w \in Seq(O)
    BY <2>1, ConcatProperties
  <2>4. a \o (w \o x) = (a \o w) \o x
    BY <2>1, <2>2 DEF Assoc
  <2>5. ((a \o w) \o x) \o W = (a \o w) \o (x \o W)
    BY <2>1, <2>2, <2>3 DEF Assoc
  <2>6. (a \o (w \o x)) \o W = (a \o w) \o t
    BY <2>4, <2>5, <1>8
  <2> QED
    BY <2>6, <1>10, <1>11 DEF a, w, t
<1>13. PICK due : Owed(due)
  BY DEF FlowInv
<1>14. p # "Http"
  <2>1. p = "Http" => t = <<>>
    BY DEF FlowInv, t
  <2>2. t # <<>>
    BY <1>2, <1>4
  <2> QED
    BY <2>1, <2>2
<1>15. Kept(m_protocal_type, m_write_buffer') /\ Kept(m_protocal_type, m_read_buffer')
  BY <1>1, <1>2, <1>9 DEF Kept, O, c, FlowInv
<1>16. pc' = "input" /\ writeAble(m_read_buffer') # 0 /\ due # <<>> =>
         Len(InRead') < Len(TextOf(m_protocal_type, due[1]))
  BY <1>2, <1>10, <1>13 DEF Owed
<1> QED
  BY <1>2, <1>11, <1>12, <1>13, <1>14, <1>15, <1>16, Moves DEF O

(* A peer that closes takes nothing away.                                  *)
LEMMA FlowPeerCloses ==
  ASSUME FlowInv, PeerCloses \/ UNCHANGED streamVars
  PROVE  FlowInv'
<1>1. UNCHANGED <<m_write_buffer, m_read_buffer, wire, pc, m_protocal_type, offered, sent, parsed>>
  BY DEF PeerCloses, streamVars, history
<1>2. InRead' = InRead /\ InWrite' = InWrite
  BY <1>1 DEF InRead, InWrite
<1>3. \A due : Owed(due) => Owed(due)'
  BY <1>1, <1>2 DEF Owed
<1>4. \E due : Owed(due)'
  BY <1>3 DEF FlowInv
<1> QED
  BY <1>1, <1>2, <1>4 DEF FlowInv

(* A read of no bytes closes the connection, and loses none.               *)
LEMMA FlowInputEmpty ==
  ASSUME FlowInv, inputEmpty
  PROVE  FlowInv'
<1> DEFINE O == OctetsOf(m_protocal_type)
<1>1. /\ m_read_buffer' = Roomy(m_read_buffer) /\ pc' = "closed"
      /\ UNCHANGED <<m_write_buffer, wire, peer_open, m_protocal_type, offered, sent, parsed>>
  BY DEF inputEmpty, history
<1>2. 0 \in O /\ Sound(O, m_read_buffer) /\ Tidy(m_read_buffer)
  BY FlowTypes
<1> HIDE DEF O
<1>3. Sound(O, m_read_buffer') /\ Tidy(m_read_buffer') /\ InRead' = InRead
  BY <1>1, <1>2, RoomyIs DEF InRead
<1>4. InWrite' = InWrite
  BY <1>1 DEF InWrite
<1>5. Kept(m_protocal_type, m_write_buffer') /\ Kept(m_protocal_type, m_read_buffer')
  BY <1>1, <1>3 DEF Kept, O, FlowInv
<1>6. PICK due : Owed(due)
  BY DEF FlowInv
<1>7. wire' \in Seq(OctetsOf(m_protocal_type)) /\ (m_protocal_type = "Http" => InWrite' = <<>>)
  BY <1>1, <1>4 DEF FlowInv
<1> QED
  BY <1>1, <1>3, <1>4, <1>5, <1>6, <1>7, Moves

(* A read moves bytes from the wire to the read buffer.                    *)
LEMMA FlowInput ==
  ASSUME FlowInv, input
  PROVE  FlowInv'
<1> DEFINE p == m_protocal_type
           O == OctetsOf(p)
           b == Roomy(m_read_buffer)
<1>1. PICK rt \in 1 .. writeAble(b) : rt <= Len(wire) /\ ReadReturns(rt)
  BY DEF input
<1> DEFINE x == SubSeq(wire, 1, rt)
           rest == SubSeq(wire, rt + 1, Len(wire))
<1>2. /\ m_read_buffer' = Received(b, x) /\ wire' = rest
      /\ pc' = (IF rt = writeAble(b) THEN "input" ELSE "execute")
      /\ UNCHANGED <<m_write_buffer, peer_open, m_protocal_type, offered, sent, parsed>>
  BY <1>1 DEF input, ReadReturns, history
<1>3. /\ 0 \in O /\ Sound(O, m_read_buffer) /\ Tidy(m_read_buffer) /\ wire \in Seq(O)
      /\ InRead \in Seq(O) /\ InWrite \in Seq(O)
  BY FlowTypes
<1> HIDE DEF O
<1>4. /\ Sound(O, b) /\ Tidy(b) /\ getBufferString(b) = InRead
      /\ (IF b.size_follows THEN writeAble(b) > 0 ELSE writeAble(b) <= 0)
  BY <1>3, RoomyIs DEF InRead
<1> HIDE DEF b
<1>5. /\ b.m_write_index \in Nat /\ getSize(b) \in Nat /\ b.size_follows \in BOOLEAN
      /\ writeAble(b) = (IF b.size_follows THEN getSize(b) ELSE 0) - b.m_write_index
  BY <1>4, SoundFields DEF writeAble
<1>6. b.size_follows /\ b.m_write_index + rt <= getSize(b) /\ rt \in Nat /\ rt <= Len(wire)
  BY <1>1, <1>4, <1>5
<1>7. /\ x \in Seq(O) /\ Len(x) = rt /\ rest \in Seq(O) /\ wire = x \o rest
  <2>1. x \in Seq(O) /\ Len(x) = rt /\ \A i \in 1 .. rt : wire[i] = x[i]
    BY <1>3, <1>6
  <2> HIDE DEF x
  <2>2. Len(wire) >= Len(x) /\ \A i \in 1 .. Len(x) : wire[i] = x[i]
    BY <1>6, <2>1
  <2>3. LET V == SubSeq(wire, Len(x) + 1, Len(wire)) IN V \in Seq(O) /\ wire = x \o V
    BY <1>3, <2>1, <2>2, PrefixIs
  <2> QED
    BY <2>1, <2>3
<1> HIDE DEF x, rest
<1>8. /\ Sound(O, m_read_buffer') /\ Tidy(m_read_buffer') /\ InRead' = InRead \o x
      /\ m_read_buffer'.size_follows = b.size_follows /\ getSize(m_read_buffer') = getSize(b)
      /\ m_read_buffer'.m_write_index = b.m_write_index + rt
  <2>1. b.m_write_index + Len(x) <= getSize(b)
    BY <1>6, <1>7
  <2>2. LET c == Received(b, x)
        IN  /\ Sound(O, c) /\ Tidy(c) /\ c.size_follows = b.size_follows
            /\ getSize(c) = getSize(b) /\ c.m_write_index = b.m_write_index + Len(x)
            /\ getBufferString(c) = getBufferString(b) \o x
    BY <1>3, <1>4, <1>7, <2>1, ReceivedThere
  <2> QED
    BY <1>2, <1>4, <1>7, <2>2 DEF InRead
<1>9. pc' = "input" => writeAble(m_read_buffer') = 0
  <2>1. pc' = "input" => rt = writeAble(b)
    BY <1>2
  <2>2. writeAble(m_read_buffer') = getSize(b) - (b.m_write_index + rt)
    BY <1>6, <1>8 DEF writeAble
  <2> QED
    BY <1>5, <1>6, <2>1, <2>2
<1>10. (InRead' \o wire') \o InWrite' = (InRead \o wire) \o InWrite
  <2> DEFINE a == InRead
  <2>1. a \in Seq(O)
    BY <1>3
  <2> HIDE DEF a
  <2>2. Assoc(O)
    BY Associative, Zenon
  <2>3. (a \o x) \o rest = a \o (x \o rest)
    BY <2>1, <2>2, <1>7 DEF Assoc
  <2>4. InWrite' = InWrite
    BY <1>2 DEF InWrite
  <2> QED
    BY <2>3, <2>4, <1>2, <1>7, <1>8 DEF a
<1>11. Kept(m_protocal_type, m_write_buffer') /\ Kept(m_protocal_type, m_read_buffer')
  BY <1>2, <1>8 DEF Kept, O, FlowInv
<1>12. PICK due : Owed(due)
  BY DEF FlowInv
<1>13. wire' \in Seq(OctetsOf(m_protocal_type)) /\ (m_protocal_type = "Http" => InWrite' = <<>>)
  BY <1>2, <1>7 DEF FlowInv, O, InWrite
<1> QED
  BY <1>2, <1>9, <1>10, <1>11, <1>12, <1>13, Moves

(* What decode makes of the first of the data on their way: either they    *)
(* are there, and it takes off their bytes, or they are not all there, and *)
(* it leaves what it has.                                                  *)
FindsFirst(due, result) ==
  /\ result.decode_success /\ result.data = due[1] /\ result.data # NoRequest
  /\ Kept(m_protocal_type, result.buffer)
  /\ (getBufferString(result.buffer) \o wire) \o InWrite = StreamOf(m_protocal_type, Tail(due))

FindsNothing(due, result) ==
  /\ result.decode_success => m_protocal_type = "Http" /\ result.data = NoRequest
  /\ Kept(m_protocal_type, result.buffer) /\ getBufferString(result.buffer) = InRead
  /\ Len(InRead) < Len(TextOf(m_protocal_type, due[1]))

(* One of the two always.                                                  *)
LEMMA Decodes ==
  ASSUME FlowInv, NEW due, Owed(due), readAble(m_read_buffer) > 0, NEW beyond \in Beyond
  PROVE  LET result == Decode(m_read_buffer, beyond)
         IN  due # <<>> /\ (FindsFirst(due, result) \/ FindsNothing(due, result))
<1> DEFINE p == m_protocal_type
           O == OctetsOf(p)
           G == GoodOf(p)
           b == m_read_buffer
           result == Decode(b, beyond)
           a == InRead
           r == wire \o InWrite
           d == due[1]
           x == TextOf(p, d)
           t == StreamOf(p, Tail(due))
<1>1. /\ a \in Seq(O) /\ wire \in Seq(O) /\ InWrite \in Seq(O) /\ Sound(O, b) /\ Tidy(b)
      /\ Len(a) = readAble(b) /\ a # <<>>
  <2>1. InRead \in Seq(O) /\ Len(InRead) = readAble(b) /\ Len(InRead) > 0
    BY FlowTypes
  <2>2. InRead # <<>>
    BY <2>1
  <2> QED
    BY <2>1, <2>2, FlowTypes
<1>2. due \in Seq(G) /\ (a \o wire) \o InWrite = StreamOf(p, due)
  BY DEF Owed
<1>3. result = DecodeOf(p, b, beyond) /\ beyond \in Bytes
  BY StreamAssumption DEF Decode, DecodeOf
<1>4. Assoc(O)
  BY Associative, Zenon
<1> HIDE DEF O, a
<1>5. r \in Seq(O) /\ (a \o wire) \o InWrite = a \o r
  BY <1>1, <1>4, ConcatProperties DEF Assoc
<1> HIDE DEF r
<1>6. due # <<>>
  <2>1. a \o r # <<>>
    BY <1>1, <1>5, ConcatEqualIffEmpty
  <2> QED
    BY <1>2, <1>5, <2>1, StreamEmpty
<1>7. d \in G /\ Tail(due) \in Seq(G)
  <2> HIDE DEF G
  <2>1. due \in Seq(G) /\ due # <<>>
    BY <1>2, <1>6
  <2>2. 1 \in 1 .. Len(due)
    BY <2>1
  <2> QED
    BY <2>1, <2>2, HeadTailProperties
<1>8. x \in Seq(O) /\ x # <<>> /\ t \in Seq(O)
  BY <1>7, TextType, StreamType DEF O
<1>9. Cuts(a, r, x, t)
  <2>1. StreamOf(p, due) = x \o t
    BY <1>2, <1>6, StreamHead
  <2> QED
    BY <1>2, <1>5, <2>1 DEF Cuts
<1> HIDE DEF d, x, t, G
<1>10. Kept(p, b) /\ a = getBufferString(b)
  BY <1>1 DEF Kept, O, a, InRead
<1> HIDE DEF b, result
<1>11. CASE Len(a) >= Len(x)
  <2> DEFINE V == SubSeq(a, Len(x) + 1, Len(a))
  <2>1. V \in Seq(O) /\ a = x \o V /\ V \o r = t
    <3>1. a \in Seq(O) /\ r \in Seq(O) /\ x \in Seq(O) /\ t \in Seq(O)
      BY <1>1, <1>5, <1>8
    <3> QED
      BY <3>1, <1>9, <1>11, SplitLong
  <2> HIDE DEF V
  <2>2. Unread(b, TextOf(p, d), V) /\ V \in Seq(OctetsOf(p)) /\ d \in GoodOf(p)
    BY <1>7, <1>10, <2>1 DEF Unread, x, O, G
  <2>3. LET e == DecodeOf(p, b, beyond)
        IN  /\ e.decode_success /\ e.data = d /\ d # NoRequest
            /\ Kept(p, e.buffer) /\ getBufferString(e.buffer) = V
    BY <1>3, <1>10, <2>2, StepWhole
  <2>4. (V \o wire) \o InWrite = V \o r
    BY <1>1, <1>4, <2>1 DEF Assoc, r
  <2>5. FindsFirst(due, result)
    BY <1>3, <2>1, <2>3, <2>4 DEF FindsFirst, t, d
  <2> QED
    BY <1>6, <2>5 DEF result, b
<1>12. CASE ~(Len(a) >= Len(x))
  <2> DEFINE V == SubSeq(x, Len(a) + 1, Len(x))
  <2>1. V \in Seq(O) /\ x = a \o V /\ V # <<>>
    <3>1. a \in Seq(O) /\ r \in Seq(O) /\ x \in Seq(O) /\ t \in Seq(O)
      BY <1>1, <1>5, <1>8
    <3> QED
      BY <3>1, <1>9, <1>12, SplitShort, Zenon
  <2> HIDE DEF V
  <2>2. PartOf(b, TextOf(p, d), V) /\ V \in Seq(OctetsOf(p)) /\ d \in GoodOf(p)
    BY <1>7, <1>10, <2>1 DEF PartOf, x, O, G
  <2>3. LET e == DecodeOf(p, b, beyond)
        IN  /\ e.decode_success => p = "Http" /\ e.data = NoRequest
            /\ Kept(p, e.buffer) /\ getBufferString(e.buffer) = getBufferString(b)
    BY <1>3, <1>10, <2>1, <2>2, StepPart
  <2>4. Len(a) < Len(x)
    BY <1>1, <1>8, <1>12
  <2>5. FindsNothing(due, result)
    BY <1>3, <1>10, <2>3, <2>4 DEF FindsNothing, a, x, d
  <2> QED
    BY <1>6, <2>5 DEF result, b
<1> QED
  BY <1>11, <1>12

(* One turn of execute(): the first data are parsed, or wait.              *)
LEMMA FlowExecute ==
  ASSUME FlowInv, execute
  PROVE  FlowInv'
<1> DEFINE p == m_protocal_type
           b == m_read_buffer
<1>1. PICK due : Owed(due)
  BY DEF FlowInv
<1>2. UNCHANGED <<m_write_buffer, wire, peer_open, m_protocal_type, offered, sent>>
  BY DEF execute
<1>3. /\ InWrite' = InWrite /\ wire' \in Seq(OctetsOf(p)) /\ (p = "Http" => InWrite' = <<>>)
      /\ Kept(p, m_write_buffer') /\ Kept(p, b) /\ wire' = wire
  BY <1>2 DEF InWrite, FlowInv
<1>4. CASE readAble(b) <= 0
  <2>1. UNCHANGED <<m_read_buffer, parsed>> /\ InRead' = InRead /\ Kept(p, m_read_buffer')
    BY <1>3, <1>4 DEF execute, InRead
  <2>2. due # <<>> => Len(InRead) < Len(TextOf(p, due[1]))
    <3> SUFFICES ASSUME due # <<>> PROVE Len(InRead) < Len(TextOf(p, due[1]))
      OBVIOUS
    <3>1. due[1] \in GoodOf(p)
      <4> DEFINE G == GoodOf(p)
      <4>1. due \in Seq(G)
        BY <1>1 DEF Owed
      <4> HIDE DEF G
      <4>2. due[1] \in G
        BY <4>1
      <4> QED
        BY <4>2 DEF G
    <3> DEFINE x == TextOf(p, due[1])
    <3>2. x \in Seq(OctetsOf(p)) /\ x # <<>>
      BY <3>1, TextType
    <3>3. Len(InRead) = readAble(b) /\ readAble(b) \in Nat
      BY FlowTypes
    <3> HIDE DEF x
    <3>4. Len(x) > 0
      BY <3>2
    <3>5. Len(InRead) < Len(x)
      BY <3>2, <3>3, <3>4, <1>4
    <3> QED
      BY <3>5 DEF x
  <2> QED
    BY <1>1, <1>2, <1>3, <2>1, <2>2, Moves
<1>5. CASE ~(readAble(b) <= 0)
  <2>1. PICK beyond \in Beyond :
          LET result == Decode(b, beyond)
          IN  /\ m_read_buffer' = result.buffer
              /\ IF result.decode_success
                 THEN /\ pc' = "execute"
                      /\ parsed' = IF result.data = NoRequest THEN parsed
                                   ELSE Append(parsed, result.data)
                 ELSE pc' = "input" /\ parsed' = parsed
    BY <1>5 DEF execute
  <2> DEFINE result == Decode(b, beyond)
  <2>2. readAble(b) > 0
    BY <1>5, FlowTypes
  <2>3. due # <<>> /\ (FindsFirst(due, result) \/ FindsNothing(due, result))
    BY <1>1, <2>2, Decodes
  <2> HIDE DEF result
  <2>4. InRead' = getBufferString(result.buffer)
    BY <2>1 DEF InRead, result
  <2>5. CASE FindsFirst(due, result)
    <3> DEFINE G == GoodOf(p)
               rest == Tail(due)
    <3>1. parsed' = Append(parsed, due[1]) /\ pc' = "execute" /\ Kept(p, m_read_buffer')
      BY <2>1, <2>5 DEF FindsFirst, result
    <3>2. due \in Seq(G) /\ parsed \in Seq(G) /\ sent = parsed \o due
      BY <1>1 DEF Owed, FlowInv
    <3> HIDE DEF G
    <3>3. due[1] \in G /\ rest \in Seq(G) /\ parsed \o due = Append(parsed, due[1]) \o rest
      BY <2>3, <3>2, MoveHead
    <3>4. parsed' \in Seq(G) /\ sent' = parsed' \o rest
      <4>1. Append(parsed, due[1]) \in Seq(G)
        BY <3>2, <3>3, AppendProperties
      <4> QED
        BY <1>2, <3>1, <3>2, <3>3, <4>1
    <3>5. (InRead' \o wire') \o InWrite' = StreamOf(p, rest)
      BY <1>3, <2>4, <2>5 DEF FindsFirst
    <3>6. Owed(rest)'
      BY <1>2, <3>1, <3>3, <3>4, <3>5 DEF Owed, G
    <3>7. \E due2 : Owed(due2)'
      BY <3>6
    <3> QED
      BY <1>2, <1>3, <3>1, <3>4, <3>7 DEF FlowInv, G
  <2>6. CASE FindsNothing(due, result)
    <3>1. parsed' = parsed /\ Kept(p, m_read_buffer') /\ InRead' = InRead
      BY <2>1, <2>4, <2>6 DEF FindsNothing, result
    <3>2. Len(InRead') < Len(TextOf(p, due[1]))
      BY <2>6, <3>1 DEF FindsNothing
    <3> QED
      BY <1>1, <1>2, <1>3, <3>1, <3>2, Moves
  <2> QED
    BY <2>3, <2>5, <2>6
<1> QED
  BY <1>4, <1>5

-----------------------------------------------------------------------------
(* What was decoded, and the replies, one to each in its place.            *)

FoundOf(p) == GoodOf(p) \cup (IF p = "Http" THEN {NoRequest} ELSE {})
AnswerTo(p, d) == IF p = "Http" THEN httpDispatch(d) ELSE dispatch(d)

AnswerInv ==
  /\ got \in Seq(FoundOf(m_protocal_type))
  /\ replied \in Seq({AnswerTo(m_protocal_type, d) : d \in FoundOf(m_protocal_type)})
  /\ Len(replied) = Len(got)
  /\ \A i \in 1 .. Len(got) : replied[i] = AnswerTo(m_protocal_type, got[i])

StreamInv == FlowInv /\ AnswerInv /\ ClosedByPeer

(* The whole invariant holds initially.                                    *)
LEMMA InvInit == StreamInit => StreamInv
<1> SUFFICES ASSUME StreamInit PROVE StreamInv
  OBVIOUS
<1>1. got = <<>> /\ replied = <<>> /\ pc = "input"
  BY DEF StreamInit
<1>2. AnswerInv
  <2>1. \A S : <<>> \in Seq(S) /\ Len(<<>>) = 0
    OBVIOUS
  <2> QED
    BY <1>1, <2>1 DEF AnswerInv
<1>3. ClosedByPeer
  BY <1>1 DEF ClosedByPeer
<1> QED
  BY <1>2, <1>3, FlowInit DEF StreamInv

(* A reply is written for each request that decode returns.                *)
LEMMA AnswerExecute ==
  ASSUME FlowInv, AnswerInv, execute
  PROVE  AnswerInv'
<1> DEFINE p == m_protocal_type
           b == m_read_buffer
           F == FoundOf(p)
           R == {AnswerTo(p, d) : d \in F}
<1>1. PICK due : Owed(due)
  BY DEF FlowInv
<1>2. p' = p
  BY DEF execute
<1>3. CASE UNCHANGED <<got, replied>>
  BY <1>2, <1>3 DEF AnswerInv
<1>4. CASE ~UNCHANGED <<got, replied>>
  <2>1. readAble(b) > 0
    <3>1. ~(readAble(b) <= 0)
      BY <1>4 DEF execute
    <3> QED
      BY <3>1, FlowTypes
  <2>2. PICK beyond \in Beyond :
          LET result == Decode(b, beyond)
          IN  /\ result.decode_success
              /\ got' = Append(got, result.data)
              /\ replied' = replied \o Dispatch(result.data)
    BY <1>4, <2>1 DEF execute
  <2> DEFINE result == Decode(b, beyond)
             d == result.data
             a == AnswerTo(p, d)
             n == Len(got)
  <2>3. due # <<>> /\ (FindsFirst(due, result) \/ FindsNothing(due, result))
    BY <1>1, <2>1, Decodes
  <2>4. got' = Append(got, d) /\ replied' = replied \o Dispatch(d) /\ result.decode_success
    BY <2>2
  <2> HIDE DEF result
  <2>5. d \in F /\ (p # "Http" => d \in GoodOf(p))
    <3>1. CASE FindsFirst(due, result)
      <4> DEFINE G == GoodOf(p)
      <4>1. due \in Seq(G)
        BY <1>1 DEF Owed
      <4> HIDE DEF G
      <4>2. due[1] \in G
        BY <2>3, <4>1
      <4> QED
        BY <3>1, <4>2 DEF FindsFirst, FoundOf, G
    <3>2. CASE FindsNothing(due, result)
      <4>1. p = "Http" /\ d = NoRequest
        BY <2>4, <3>2 DEF FindsNothing
      <4> QED
        BY <4>1 DEF FoundOf
    <3> QED
      BY <2>3, <3>1, <3>2
  <2> HIDE DEF d
  <2>6. Dispatch(d) = <<a>>
    <3>1. CASE p = "Http"
      BY <3>1 DEF Dispatch, AnswerTo
    <3>2. CASE p # "Http"
      <4>1. d.service_full_name # <<>>
        BY <2>5, <3>2 DEF GoodOf, encode_success
      <4>2. dispatch(d).service_full_name = d.service_full_name
        BY DEF dispatch
      <4>3. encode_success(dispatch(d))
        BY <4>1, <4>2 DEF encode_success
      <4> QED
        BY <3>2, <4>3 DEF Dispatch, AnswerTo
    <3> QED
      BY <3>1, <3>2
  <2>7. a \in R
    BY <2>5
  <2>8. /\ got \in Seq(F) /\ replied \in Seq(R) /\ Len(replied) = n
        /\ \A i \in 1 .. n : replied[i] = AnswerTo(p, got[i])
    BY DEF AnswerInv
  <2> HIDE DEF F, R, a
  <2>9. replied' = Append(replied, a)
    <3>1. Append(replied, a) = replied \o <<a>>
      BY <2>7, <2>8, AppendIsConcat
    <3> QED
      BY <2>4, <2>6, <3>1
  <2>10. /\ got' \in Seq(F) /\ Len(got') = n + 1 /\ got'[n + 1] = d
         /\ \A i \in 1 .. n : got'[i] = got[i]
    BY <2>4, <2>5, <2>8, AppendProperties
  <2>11. /\ replied' \in Seq(R) /\ Len(replied') = n + 1 /\ replied'[n + 1] = a
         /\ \A i \in 1 .. n : replied'[i] = replied[i]
    BY <2>7, <2>8, <2>9, AppendProperties
  <2>12. \A i \in 1 .. n + 1 : replied'[i] = AnswerTo(p, got'[i])
    <3> TAKE i \in 1 .. n + 1
    <3>1. CASE i = n + 1
      BY <3>1, <2>10, <2>11 DEF a
    <3>2. CASE i # n + 1
      <4>1. i \in 1 .. n
        BY <3>2, <2>8
      <4> QED
        BY <4>1, <2>8, <2>10, <2>11
    <3> QED
      BY <3>1, <3>2
  <2> QED
    BY <1>2, <2>10, <2>11, <2>12 DEF AnswerInv, F, R
<1> QED
  BY <1>3, <1>4

(* Every step keeps the whole invariant.                                   *)
LEMMA InvNext ==
  ASSUME DataAreFound, "write" \notin Faults, StreamInv, [StreamNext]_streamVars
  PROVE  StreamInv'
<1>1. FlowInv /\ AnswerInv /\ ClosedByPeer
  BY DEF StreamInv
<1>2. FlowInv'
  <2>1. CASE Encode
    BY <1>1, <2>1, FlowEncode
  <2>2. CASE HttpClientSends
    BY <1>1, <2>2, FlowHttpClientSends
  <2>3. CASE output
    BY <1>1, <2>3, FlowOutput
  <2>4. CASE PeerCloses \/ UNCHANGED streamVars
    BY <1>1, <2>4, FlowPeerCloses
  <2>5. CASE input
    BY <1>1, <2>5, FlowInput
  <2>6. CASE inputEmpty
    BY <1>1, <2>6, FlowInputEmpty
  <2>7. CASE execute
    BY <1>1, <2>7, FlowExecute
  <2> QED
    BY <2>1, <2>2, <2>3, <2>4, <2>5, <2>6, <2>7 DEF StreamNext
<1>3. AnswerInv'
  <2>1. CASE execute
    BY <1>1, <2>1, AnswerExecute
  <2>2. CASE ~execute
    <3>1. UNCHANGED <<got, replied, m_protocal_type>>
      BY <2>2 DEF StreamNext, Encode, HttpClientSends, output, PeerCloses, input, inputEmpty,
                  streamVars, history
    <3> QED
      BY <1>1, <3>1 DEF AnswerInv
  <2> QED
    BY <2>1, <2>2
<1>4. ClosedByPeer'
  <2>1. CASE inputEmpty
    <3>1. m_read_buffer' = Roomy(m_read_buffer) /\ wire' = wire /\ peer_open' = peer_open
      BY <2>1 DEF inputEmpty
    <3>2. peer_open => writeAble(Roomy(m_read_buffer)) <= 0
      BY <2>1 DEF inputEmpty
    <3> DEFINE O == OctetsOf(m_protocal_type)
               b == Roomy(m_read_buffer)
    <3>3. 0 \in O /\ Sound(O, m_read_buffer) /\ Tidy(m_read_buffer)
      BY <1>1, FlowTypes
    <3> HIDE DEF O
    <3>4. Sound(O, b) /\ (IF b.size_follows THEN writeAble(b) > 0 ELSE writeAble(b) <= 0)
      BY <3>3, RoomyIs
    <3> HIDE DEF b
    <3>5. writeAble(b) \in Int
      BY <3>4, SoundFields DEF writeAble
    <3>6. peer_open => ~b.size_follows
      BY <3>2, <3>4, <3>5 DEF b
    <3> QED
      BY <3>1, <3>6 DEF ClosedByPeer, b
  <2>2. CASE ~inputEmpty
    <3>1. pc' = "closed" => UNCHANGED <<pc, m_read_buffer>> /\ (peer_open' => peer_open)
      BY <2>2 DEF StreamNext, Encode, HttpClientSends, output, PeerCloses, input, ReadReturns,
                  execute, streamVars, history
    <3> QED
      BY <1>1, <3>1 DEF ClosedByPeer
  <2> QED
    BY <2>1, <2>2
<1> QED
  BY <1>2, <1>3, <1>4 DEF StreamInv

(* The invariant holds in every state, when the data can be found again    *)
(* and no write fails.                                                     *)
LEMMA StreamInvariant ==
  ASSUME DataAreFound, "write" \notin Faults
  PROVE  StreamSpec => []StreamInv
<1>1. StreamInv /\ [StreamNext]_streamVars => StreamInv'
  BY InvNext
<1> QED
  BY InvInit, <1>1, PTL DEF StreamSpec

(* The stream of the model and that of the lemmas.                         *)
LEMMA StreamOfIs == ASSUME NEW s PROVE Stream(s) = StreamOf(m_protocal_type, s)
BY DEF Stream, StreamOf, BytesOf, TextOf

(* No byte is lost, doubled or reordered between encode() and decode(), in
   the buffers of both ends or on the wire, and the indices of both buffers
   stay in bounds (tcp_buffer.cpp, tcp_connection.cpp:154-300). *)
THEOREM BytesAreConserved ==
  ASSUME DataAreFound, "write" \notin Faults
  PROVE  StreamSpec => []BytesConserved
<1>1. StreamInv => BytesConserved
  <2> SUFFICES ASSUME StreamInv PROVE BytesConserved
    OBVIOUS
  <2>0. FlowInv
    BY DEF StreamInv
  <2> DEFINE p == m_protocal_type
             O == OctetsOf(p)
             G == GoodOf(p)
             a == InRead
             w == wire
             v == InWrite
  <2>1. /\ a \in Seq(O) /\ w \in Seq(O) /\ v \in Seq(O)
        /\ Sound(O, m_read_buffer) /\ Sound(O, m_write_buffer)
    BY <2>0, FlowTypes
  <2>2. InBounds(m_read_buffer) /\ InBounds(m_write_buffer)
    BY <2>1 DEF Sound
  <2>3. PICK due : Owed(due)
    BY <2>0 DEF FlowInv
  <2>4. due \in Seq(G) /\ parsed \in Seq(G) /\ sent = parsed \o due
        /\ (a \o w) \o v = StreamOf(p, due)
    BY <2>0, <2>3 DEF Owed, FlowInv
  <2> DEFINE t == StreamOf(p, parsed)
  <2>5. StreamOf(p, sent) = t \o StreamOf(p, due) /\ t \in Seq(O)
    BY <2>4, StreamConcat, StreamType
  <2>6. t \o ((a \o w) \o v) = ((t \o a) \o w) \o v
    <3> HIDE DEF t, a, w, v, O
    <3>1. Assoc(O)
      BY Associative, Zenon
    <3>2. a \o w \in Seq(O) /\ t \o a \in Seq(O)
      BY <2>1, <2>5, ConcatProperties
    <3>3. t \o ((a \o w) \o v) = (t \o (a \o w)) \o v
      BY <2>1, <2>5, <3>1, <3>2 DEF Assoc
    <3>4. t \o (a \o w) = (t \o a) \o w
      BY <2>1, <2>5, <3>1 DEF Assoc
    <3> QED
      BY <3>3, <3>4
  <2>7. StreamOf(p, sent) = ((t \o a) \o w) \o v
    BY <2>4, <2>5, <2>6
  <2> HIDE DEF t, a, w, v
  <2>8. Stream(sent) = ((t \o a) \o w) \o v /\ Stream(parsed) = t
    BY <2>7, StreamOfIs DEF t
  <2> QED
    BY <2>2, <2>8 DEF BytesConserved, a, w, v, InRead, InWrite
<1> QED
  BY <1>1, StreamInvariant, PTL

(* When all bytes have arrived and the receiver waits for more, execute()
   has parsed everything that was sent, unless the last read filled the
   buffer (tcp_connection.cpp:192-200). *)
THEOREM AllIsDecoded ==
  ASSUME DataAreFound, "write" \notin Faults
  PROVE  StreamSpec => []DecodedUnlessFull
<1>1. StreamInv => DecodedUnlessFull
  <2> SUFFICES ASSUME StreamInv, Arrived, writeAble(m_read_buffer) # 0 PROVE parsed = sent
    BY DEF DecodedUnlessFull
  <2>0. FlowInv
    BY DEF StreamInv
  <2> DEFINE p == m_protocal_type
             O == OctetsOf(p)
             G == GoodOf(p)
             x(d) == TextOf(p, d)
  <2>1. PICK due : Owed(due)
    BY <2>0 DEF FlowInv
  <2>2. due \in Seq(G) /\ parsed \in Seq(G) /\ sent = parsed \o due
    BY <2>0, <2>1 DEF Owed, FlowInv
  <2>3. InRead \in Seq(O) /\ InWrite = <<>> /\ wire = <<>> /\ pc = "input"
    <3>1. InWrite \in Seq(O) /\ Len(InWrite) = 0 /\ InRead \in Seq(O)
      BY <2>0, FlowTypes DEF Arrived
    <3>2. InWrite = <<>>
      BY <3>1
    <3> QED
      BY <3>1, <3>2 DEF Arrived
  <2>4. InRead = StreamOf(p, due)
    <3>1. (InRead \o <<>>) \o <<>> = InRead
      BY <2>3, ConcatEmptySeq
    <3> QED
      BY <2>1, <2>3, <3>1 DEF Owed
  <2>5. due = <<>>
    <3> SUFFICES ASSUME due # <<>> PROVE FALSE
      OBVIOUS
    <3>1. InRead = x(due[1]) \o StreamOf(p, Tail(due))
      BY <2>2, <2>4, StreamHead
    <3>2. due[1] \in G /\ Tail(due) \in Seq(G)
      <4> HIDE DEF G
      <4>1. 1 \in 1 .. Len(due)
        BY <2>2
      <4> QED
        BY <2>2, <4>1, HeadTailProperties
    <3> DEFINE y == x(due[1])
               t == StreamOf(p, Tail(due))
    <3>3. y \in Seq(O) /\ t \in Seq(O)
      BY <3>2, TextType, StreamType
    <3>4. Len(InRead) < Len(y)
      BY <2>1, <2>3 DEF Owed
    <3> HIDE DEF y, t
    <3>5. Len(y \o t) = Len(y) + Len(t) /\ Len(t) \in Nat /\ Len(y) \in Nat
      BY <3>3, ConcatProperties
    <3>6. InRead = y \o t
      BY <3>1 DEF y, t
    <3> QED
      BY <3>4, <3>5, <3>6
  <2> HIDE DEF G
  <2> QED
    BY <2>2, <2>5, ConcatEmptySeq
<1> QED
  BY <1>1, StreamInvariant, PTL

(* Every request that decode returns is answered once and in its place,
   under its number, and with data exactly if it names a method and can be
   parsed (zrpc_pb_rpc_dispatcher.cpp). *)
THEOREM RequestsAreAnswered ==
  ASSUME DataAreFound, "write" \notin Faults
  PROVE  StreamSpec => []EachIsAnswered
<1>1. StreamInv => EachIsAnswered
  <2> SUFFICES ASSUME StreamInv PROVE EachIsAnswered
    OBVIOUS
  <2>1. AnswerInv
    BY DEF StreamInv
  <2> DEFINE p == m_protocal_type
             F == FoundOf(p)
             R == {AnswerTo(p, d) : d \in F}
  <2>2. /\ got \in Seq(F) /\ replied \in Seq(R) /\ Len(replied) = Len(got)
        /\ \A i \in 1 .. Len(got) : replied[i] = AnswerTo(p, got[i])
    BY <2>1 DEF AnswerInv
  <2> HIDE DEF F, R
  <2>3. DOMAIN replied = 1 .. Len(got) /\ \A i \in 1 .. Len(got) : got[i] \in F
    BY <2>2
  <2>4. ASSUME p = "zRpcPb", NEW i \in DOMAIN replied
        PROVE  Answers(replied[i], got[i])
    <3> DEFINE d == got[i]
    <3>1. d \in PbData
      BY <2>3, <2>4 DEF F, FoundOf, GoodOf
    <3>2. replied[i] = dispatch(d)
      BY <2>2, <2>3, <2>4 DEF AnswerTo
    <3> HIDE DEF d
    <3>3. dispatch(d).msg_req = d.msg_req /\ dispatch(d).err_code = ErrorOf(d)
      BY DEF dispatch
    <3>4. Answers(dispatch(d), d)
      BY <3>1, <3>3, ErrorIs DEF Answers
    <3> QED
      BY <3>2, <3>4 DEF d
  <2> QED
    BY <2>2, <2>4 DEF EachIsAnswered
<1> QED
  BY <1>1, StreamInvariant, PTL

(* input() closes a connection only when its peer has, as long as m_size
   follows the vector (tcp_connection.cpp:184). *)
THEOREM ClosedWhenPeerIs ==
  ASSUME DataAreFound, "write" \notin Faults
  PROVE  StreamSpec => []ClosedByPeer
<1>1. StreamInv => ClosedByPeer
  BY DEF StreamInv
<1> QED
  BY <1>1, StreamInvariant, PTL
=============================================================================
