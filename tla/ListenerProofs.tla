--------------------------- MODULE ListenerProofs ----------------------------
(***************************************************************************)
(* Theorems about the listeners: TmccFraming, for any commands that can   *)
(* be told apart, sent in any number and order; PdiFraming, for any        *)
(* payloads and three special bytes; and CommandDispatch, for any          *)
(* commands, routes, threads and callbacks and any size of queue.          *)
(***************************************************************************)
EXTENDS CommandDispatch, TmccFraming, PdiFraming, FiniteSetTheorems, WellFoundedInduction, TLAPS

-----------------------------------------------------------------------------
(* A stream of items that arrive and are taken off                         *)

LEMMA JoinedBytes ==
  ASSUME NEW S, NEW a \in Seq(S), NEW b \in Seq(S)
  PROVE  /\ a \o b \in Seq(S) /\ Len(a \o b) = Len(a) + Len(b)
         /\ \A i \in 1 .. Len(a) : (a \o b)[i] = a[i]
         /\ \A i \in 1 .. Len(b) : (a \o b)[Len(a) + i] = b[i]
OBVIOUS

\* The stream s is what is left of something that was there before, and the items behind
\* the first k, whole and in order: p tells where each of them ends.
IsLine(s, items, k, p) ==
  /\ p \in [Nat -> Int] /\ 0 <= p[k] /\ p[Len(items)] = Len(s)
  /\ \A i, j \in k .. Len(items) : i <= j => p[i] <= p[j]
  /\ \A i \in k + 1 .. Len(items) :
       /\ p[i] = p[i - 1] + Len(items[i])
       /\ \A b \in 1 .. Len(items[i]) : s[p[i - 1] + b] = items[i][b]

LineTypes(S, s, items, k) ==
  s \in Seq(S) /\ items \in Seq(Seq(S)) /\ k \in 0 .. Len(items)

LEMMA LineGrows ==
  ASSUME NEW S, NEW s, NEW items, NEW k, LineTypes(S, s, items, k),
         NEW p, IsLine(s, items, k, p), NEW c \in Seq(S)
  PROVE  \E q : IsLine(s \o c, Append(items, c), k, q) /\ q[k] = p[k]
<1>0. s \in Seq(S) /\ items \in Seq(Seq(S)) /\ k \in 0 .. Len(items)
  BY DEF LineTypes
<1> DEFINE N == Len(items)
           s2 == s \o c
           items2 == Append(items, c)
           q == [p EXCEPT ![N + 1] = p[N] + Len(c)]
<1>1. Len(c) \in Nat /\ N \in Nat /\ Len(s) \in Nat /\ k \in Nat /\ k <= N
  BY <1>0
<1>2. p \in [Nat -> Int] /\ 0 <= p[k] /\ p[N] = Len(s)
      /\ \A i, j \in k .. N : i <= j => p[i] <= p[j]
  BY DEF IsLine
<1>3. \A i \in k + 1 .. N :
        /\ p[i] = p[i - 1] + Len(items[i])
        /\ \A b \in 1 .. Len(items[i]) : s[p[i - 1] + b] = items[i][b]
  BY DEF IsLine
<1>4. Len(s2) = Len(s) + Len(c)
      /\ (\A i \in 1 .. Len(s) : s2[i] = s[i])
      /\ (\A i \in 1 .. Len(c) : s2[Len(s) + i] = c[i])
  BY <1>0, JoinedBytes
<1>5. Len(items2) = N + 1 /\ items2[N + 1] = c /\ \A i \in 1 .. N : items2[i] = items[i]
  BY <1>0
<1>a. \A i \in 1 .. N : items[i] \in Seq(S)
  BY <1>0
<1> HIDE DEF s2, items2, N
<1>6. q \in [Nat -> Int] /\ q[N + 1] = p[N] + Len(c) /\ \A i \in k .. N : q[i] = p[i]
  BY <1>1, <1>2
<1> HIDE DEF q
<1>7. \A i, j \in k .. N + 1 : i <= j => q[i] <= q[j]
  <2> SUFFICES ASSUME NEW i \in k .. N + 1, NEW j \in k .. N + 1, i <= j
               PROVE  q[i] <= q[j]
    OBVIOUS
  <2>1. CASE j \in k .. N
    <3>1. i \in k .. N
      BY <1>1, <2>1
    <3> QED
      BY <1>2, <1>6, <2>1, <3>1
  <2>2. CASE j = N + 1 /\ i \in k .. N
    <3>1. p[i] <= p[N] /\ p[i] \in Int /\ p[N] \in Int
      BY <1>1, <1>2, <2>2
    <3> QED
      BY <1>1, <1>6, <2>2, <3>1
  <2>3. CASE j = N + 1 /\ i = N + 1
    <3>1. q[N + 1] \in Int
      BY <1>1, <1>6
    <3> QED
      BY <2>3, <3>1
  <2>4. j \in k .. N \/ j = N + 1
    BY <1>1
  <2>5. i \in k .. N \/ i = N + 1
    BY <1>1
  <2> QED
    BY <2>1, <2>2, <2>3, <2>4, <2>5
<1>8. ASSUME NEW i \in k + 1 .. N + 1
      PROVE  /\ q[i] = q[i - 1] + Len(items2[i])
             /\ \A b \in 1 .. Len(items2[i]) : s2[q[i - 1] + b] = items2[i][b]
  <2>1. CASE i \in k + 1 .. N
    <3>1. i - 1 \in k .. N /\ i \in k .. N /\ i \in 1 .. N
      BY <1>1, <2>1
    <3>2. q[i] = p[i] /\ q[i - 1] = p[i - 1] /\ items2[i] = items[i]
      BY <1>5, <1>6, <3>1
    <3> DEFINE d == items[i]
    <3>3. p[i] = p[i - 1] + Len(d) /\ \A b \in 1 .. Len(d) : s[p[i - 1] + b] = d[b]
      BY <1>3, <2>1
    <3>5. d \in Seq(S)
      BY <1>a, <3>1
    <3> HIDE DEF d
    <3>6. Len(d) \in Nat /\ p[i - 1] \in Int /\ p[i] \in Int
      BY <1>1, <1>2, <3>1, <3>5
    <3>7. p[i] <= Len(s) /\ 0 <= p[i - 1]
      <4>1. p[i] <= p[N] /\ p[k] <= p[i - 1]
        BY <1>1, <1>2, <3>1
      <4>2. p[k] \in Int /\ 0 <= p[k] /\ p[N] = Len(s)
        BY <1>1, <1>2
      <4> QED
        BY <1>1, <3>6, <4>1, <4>2
    <3>8. \A b \in 1 .. Len(d) : s2[p[i - 1] + b] = d[b]
      <4> TAKE b \in 1 .. Len(d)
      <4>1. p[i - 1] + b \in 1 .. Len(s)
        BY <1>1, <3>3, <3>6, <3>7
      <4> QED
        BY <1>4, <3>3, <4>1
    <3> QED
      BY <3>2, <3>3, <3>8 DEF d
  <2>2. CASE i = N + 1
    <3>1. i - 1 = N /\ N \in k .. N
      BY <1>1, <2>2
    <3>2. q[i] = p[N] + Len(c) /\ q[i - 1] = p[N] /\ items2[i] = c
      BY <1>5, <1>6, <2>2, <3>1
    <3>3. \A b \in 1 .. Len(c) : s2[p[N] + b] = c[b]
      BY <1>2, <1>4
    <3> QED
      BY <3>2, <3>3
  <2>3. i \in k + 1 .. N \/ i = N + 1
    BY <1>1
  <2> QED
    BY <2>1, <2>2, <2>3
<1>9. q[k] = p[k] /\ q[N + 1] = Len(s2)
  BY <1>1, <1>2, <1>4, <1>6
<1>11. IsLine(s2, items2, k, q)
  BY <1>2, <1>5, <1>6, <1>7, <1>8, <1>9 DEF IsLine
<1> QED
  BY <1>9, <1>11 DEF s2, items2

\* The stream t is the stream s without its first n bytes: what was left over, or the
\* items up to the m-th.
ShiftedLine(S, s, items, k, p, m, n, t) ==
  /\ LineTypes(S, s, items, k) /\ IsLine(s, items, k, p)
  /\ m \in k .. Len(items) /\ n \in Nat /\ n <= p[m]
  /\ t \in Seq(S) /\ Len(t) = Len(s) - n /\ \A i \in 1 .. Len(t) : t[i] = s[i + n]

LEMMA LineShifts ==
  ASSUME NEW S, NEW s, NEW items, NEW k, NEW p, NEW m, NEW n, NEW t,
         ShiftedLine(S, s, items, k, p, m, n, t)
  PROVE  \E q : IsLine(t, items, m, q) /\ q[m] = p[m] - n
<1>00. /\ s \in Seq(S) /\ items \in Seq(Seq(S)) /\ k \in 0 .. Len(items) /\ IsLine(s, items, k, p)
       /\ m \in k .. Len(items) /\ n \in Nat /\ n <= p[m]
       /\ t \in Seq(S) /\ Len(t) = Len(s) - n /\ \A i \in 1 .. Len(t) : t[i] = s[i + n]
  BY DEF ShiftedLine, LineTypes
<1> DEFINE N == Len(items)
           q == [i \in Nat |-> p[i] - n]
<1>1. /\ N \in Nat /\ k \in Nat /\ m \in Nat /\ k <= m /\ m <= N /\ Len(s) \in Nat /\ Len(t) \in Nat
      /\ n \in Nat /\ n <= p[m] /\ Len(t) = Len(s) - n /\ \A i \in 1 .. Len(t) : t[i] = s[i + n]
  BY <1>00
<1>2. p \in [Nat -> Int] /\ 0 <= p[k] /\ p[N] = Len(s)
      /\ \A i, j \in k .. N : i <= j => p[i] <= p[j]
  BY <1>00 DEF IsLine
<1>3. \A i \in k + 1 .. N :
        /\ p[i] = p[i - 1] + Len(items[i])
        /\ \A b \in 1 .. Len(items[i]) : s[p[i - 1] + b] = items[i][b]
  BY <1>00 DEF IsLine
<1>a. \A i \in 1 .. N : items[i] \in Seq(S)
  BY <1>00
<1> HIDE DEF N
<1>b. \A i \in Nat : p[i] \in Int /\ p[i] - n \in Int
  <2> TAKE i \in Nat
  <2>1. p[i] \in Int
    BY <1>2
  <2> QED
    BY <1>1, <2>1
<1>4. q \in [Nat -> Int] /\ \A i \in Nat : q[i] = p[i] - n /\ p[i] \in Int
  <2>1. q \in [Nat -> Int]
    BY <1>b
  <2>2. \A i \in Nat : q[i] = p[i] - n
    OBVIOUS
  <2> QED
    BY <1>b, <2>1, <2>2
<1> HIDE DEF q
<1>5. q[m] \in Int /\ 0 <= q[m] /\ q[m] = p[m] - n /\ q[N] = Len(t)
  <2>1. p[N] = Len(s) /\ p[m] \in Int /\ p[N] \in Int /\ q[m] = p[m] - n /\ q[N] = p[N] - n
    BY <1>1, <1>2, <1>4
  <2> QED
    BY <1>1, <2>1
<1>6. \A i, j \in m .. N : i <= j => q[i] <= q[j]
  <2> SUFFICES ASSUME NEW i \in m .. N, NEW j \in m .. N, i <= j PROVE q[i] <= q[j]
    OBVIOUS
  <2>1. i \in k .. N /\ j \in k .. N /\ i \in Nat /\ j \in Nat
    BY <1>1
  <2>2. p[i] <= p[j]
    BY <1>2, <2>1
  <2>3. q[i] = p[i] - n /\ q[j] = p[j] - n /\ p[i] \in Int /\ p[j] \in Int
    BY <1>4, <2>1
  <2> QED
    BY <1>1, <2>2, <2>3
<1>8. ASSUME NEW i \in m + 1 .. N
      PROVE  /\ q[i] = q[i - 1] + Len(items[i])
             /\ \A b \in 1 .. Len(items[i]) : t[q[i - 1] + b] = items[i][b]
  <2> DEFINE d == items[i]
  <2>1. i \in k + 1 .. N /\ i \in 1 .. N /\ i - 1 \in m .. N /\ i \in m .. N /\ N \in m .. N
        /\ m \in m .. N /\ i \in Nat /\ i - 1 \in Nat /\ m <= i - 1 /\ i <= N
    BY <1>1
  <2>2. p[i] = p[i - 1] + Len(d) /\ \A b \in 1 .. Len(d) : s[p[i - 1] + b] = d[b]
    BY <1>3, <2>1
  <2>3. d \in Seq(S)
    BY <1>a, <2>1
  <2> HIDE DEF d
  <2>4. Len(d) \in Nat /\ q[i] = p[i] - n /\ q[i - 1] = p[i - 1] - n /\ p[i] \in Int /\ p[i - 1] \in Int
    <3>1. Len(d) \in Nat
      BY <2>3
    <3>2. q[i] = p[i] - n /\ p[i] \in Int
      BY <1>4, <2>1
    <3>3. q[i - 1] = p[i - 1] - n /\ p[i - 1] \in Int
      BY <1>4, <2>1
    <3> QED
      BY <3>1, <3>2, <3>3
  <2>5. q[m] <= q[i - 1] /\ q[i] <= q[N]
    BY <1>6, <2>1
  <2>6. q[i] = q[i - 1] + Len(d)
    BY <1>1, <2>2, <2>4
  <2>7. \A b \in 1 .. Len(d) : t[q[i - 1] + b] = d[b]
    <3> TAKE b \in 1 .. Len(d)
    <3> DEFINE x == q[i - 1]
               y == Len(d)
               z == Len(t)
    <3>1. x \in Int /\ 0 <= x /\ x + y <= z /\ y \in Nat /\ z \in Nat /\ x + n = p[i - 1]
      <4>1. q[i - 1] \in Int /\ q[i] \in Int
        BY SMTT(60), <1>1, <2>4
      <4>2. 0 <= q[i - 1] /\ q[i] <= Len(t)
        BY <1>1, <1>5, <2>5, <4>1
      <4> QED
        BY <1>1, <2>4, <2>6, <4>1, <4>2
    <3>2. b \in Nat /\ 1 <= b /\ b <= y
      BY <2>4
    <3>3. x + b \in 1 .. z => t[x + b] = s[x + b + n]
      BY <1>1
    <3> HIDE DEF x, y, z
    <3>4. x + b \in 1 .. z /\ x + b + n = p[i - 1] + b
      BY <1>1, <3>1, <3>2
    <3>5. t[x + b] = s[p[i - 1] + b]
      BY <3>3, <3>4
    <3> QED
      BY <2>2, <3>5 DEF x
  <2> QED
    BY <2>6, <2>7 DEF d
<1>9. IsLine(t, items, m, q)
  BY <1>4, <1>5, <1>6, <1>8 DEF IsLine, N
<1> QED
  BY <1>5, <1>9

-----------------------------------------------------------------------------
(* TMCC commands                                                           *)

\* TmccFraming: what a command looks like, byte by byte.
TmccBytes == {"F", "T", "M", "V", "0", "1", "."}
Short == {"legacy", "tmcc1"}

LEMMA DotsAre ==
  ASSUME NEW n \in Nat
  PROVE  Dots(n) \in Seq(TmccBytes) /\ Len(Dots(n)) = n /\ \A i \in 1 .. n : Dots(n)[i] = "."
BY DEF Dots, TmccBytes

LEMMA WordIs == Word \in Seq(TmccBytes) /\ Len(Word) = 3 /\ Word[1] = "M" /\ Word[2] = "."
BY DEF Word, TmccBytes

LEMMA Joined ==
  ASSUME NEW a \in Seq(TmccBytes), NEW b \in Seq(TmccBytes)
  PROVE  /\ a \o b \in Seq(TmccBytes) /\ Len(a \o b) = Len(a) + Len(b)
         /\ \A i \in 1 .. Len(a) : (a \o b)[i] = a[i]
         /\ \A i \in 1 .. Len(b) : (a \o b)[Len(a) + i] = b[i]
OBVIOUS

LEMMA WordJoined ==
  ASSUME NEW a \in Seq(TmccBytes)
  PROVE  /\ a \o Word \in Seq(TmccBytes) /\ Len(a \o Word) = Len(a) + 3
         /\ \A i \in 1 .. Len(a) : (a \o Word)[i] = a[i]
         /\ (a \o Word)[Len(a) + 1] = "M" /\ (a \o Word)[Len(a) + 2] = "."
<1> DEFINE w == Word
<1>1. w \in Seq(TmccBytes) /\ Len(w) = 3 /\ w[1] = "M" /\ w[2] = "."
  BY WordIs
<1> HIDE DEF w
<1>2. /\ a \o w \in Seq(TmccBytes) /\ Len(a \o w) = Len(a) + Len(w)
      /\ \A i \in 1 .. Len(a) : (a \o w)[i] = a[i]
      /\ \A i \in 1 .. Len(w) : (a \o w)[Len(a) + i] = w[i]
  BY <1>1, Joined
<1>3. (a \o w)[Len(a) + 1] = w[1] /\ (a \o w)[Len(a) + 2] = w[2]
  BY <1>1, <1>2
<1>4. /\ a \o w \in Seq(TmccBytes) /\ Len(a \o w) = Len(a) + 3
      /\ \A i \in 1 .. Len(a) : (a \o w)[i] = a[i]
      /\ (a \o w)[Len(a) + 1] = "M" /\ (a \o w)[Len(a) + 2] = "."
  BY <1>1, <1>2, <1>3
<1> QED
  BY <1>4 DEF w

LEMMA DotsJoined ==
  ASSUME NEW a \in Seq(TmccBytes)
  PROVE  /\ a \o Dots(4) \in Seq(TmccBytes) /\ Len(a \o Dots(4)) = Len(a) + 4
         /\ \A i \in 1 .. Len(a) : (a \o Dots(4))[i] = a[i]
         /\ (a \o Dots(4))[Len(a) + 1] = "." /\ (a \o Dots(4))[Len(a) + 2] = "."
<1> DEFINE w == Dots(4)
<1>0. w \in Seq(TmccBytes) /\ Len(w) = 4 /\ \A i \in 1 .. 4 : w[i] = "."
  BY DotsAre
<1>1. w \in Seq(TmccBytes) /\ Len(w) = 4 /\ w[1] = "." /\ w[2] = "."
  BY <1>0
<1> HIDE DEF w
<1>2. /\ a \o w \in Seq(TmccBytes) /\ Len(a \o w) = Len(a) + Len(w)
      /\ \A i \in 1 .. Len(a) : (a \o w)[i] = a[i]
      /\ \A i \in 1 .. Len(w) : (a \o w)[Len(a) + i] = w[i]
  BY <1>1, Joined
<1>3. (a \o w)[Len(a) + 1] = w[1] /\ (a \o w)[Len(a) + 2] = w[2]
  BY <1>1, <1>2
<1>4. /\ a \o w \in Seq(TmccBytes) /\ Len(a \o w) = Len(a) + 4
      /\ \A i \in 1 .. Len(a) : (a \o w)[i] = a[i]
      /\ (a \o w)[Len(a) + 1] = "." /\ (a \o w)[Len(a) + 2] = "."
  BY <1>1, <1>2, <1>3
<1> QED
  BY <1>4 DEF w

LEMMA ShortBytes ==
  ASSUME NEW kind \in Short
  PROVE  /\ BytesOf(kind) \in Seq(TmccBytes) /\ Len(BytesOf(kind)) = 3
         /\ BytesOf(kind)[1] \in {"F", "T"} /\ BytesOf(kind)[2] = "."
<1>1. CASE kind = "legacy"
  <2>1. BytesOf(kind) = << "F", ".", "." >>
    BY <1>1 DEF BytesOf
  <2> QED
    BY <2>1 DEF TmccBytes
<1>2. CASE kind = "tmcc1"
  <2>1. BytesOf(kind) = << "T", ".", "." >>
    BY <1>2 DEF BytesOf
  <2> QED
    BY <2>1 DEF TmccBytes
<1> QED
  BY <1>1, <1>2 DEF Short

LEMMA Legacy4Bytes ==
  LET b == BytesOf("legacy4") IN
  /\ b \in Seq(TmccBytes) /\ Len(b) = 7 /\ b[1] = "F" /\ b[2] = "0" /\ b[4] = "." /\ b[5] = "."
<1> DEFINE a == << "F", "0", "." >>
           a1 == a \o Dots(4)
<1>1. a \in Seq(TmccBytes) /\ Len(a) = 3 /\ a[1] = "F" /\ a[2] = "0"
  BY DEF TmccBytes
<1> HIDE DEF a
<1>2. /\ a1 \in Seq(TmccBytes) /\ Len(a1) = 3 + 4 /\ (\A i \in 1 .. 3 : a1[i] = a[i])
      /\ a1[3 + 1] = "." /\ a1[3 + 2] = "."
  <2>1. /\ a1 \in Seq(TmccBytes) /\ Len(a1) = Len(a) + 4
        /\ \A i \in 1 .. Len(a) : a1[i] = a[i]
        /\ a1[Len(a) + 1] = "." /\ a1[Len(a) + 2] = "."
    BY <1>1, DotsJoined
  <2> HIDE DEF a1
  <2> QED
    BY <1>1, <2>1
<1> HIDE DEF a1
<1>3. BytesOf("legacy4") = a1
  BY DEF BytesOf, a, a1
<1> QED
  BY <1>1, <1>2, <1>3

LEMMA MultiBytes ==
  LET b == BytesOf("multi") IN
  /\ b \in Seq(TmccBytes) /\ Len(b) = 9 /\ b[1] = "F" /\ b[2] = "." /\ b[3] = "."
  /\ b[4] = "M" /\ b[5] = "." /\ b[7] = "M"
<1> DEFINE a == << "F", ".", "." >>
           a1 == a \o Word
           a2 == a1 \o Word
<1>1. a \in Seq(TmccBytes) /\ Len(a) = 3 /\ a[1] = "F" /\ a[2] = "." /\ a[3] = "."
  BY DEF TmccBytes
<1> HIDE DEF a
<1>2. /\ a1 \in Seq(TmccBytes) /\ Len(a1) = 3 + 3 /\ (\A i \in 1 .. 3 : a1[i] = a[i])
      /\ a1[3 + 1] = "M" /\ a1[3 + 2] = "."
  <2>1. /\ a1 \in Seq(TmccBytes) /\ Len(a1) = Len(a) + 3
        /\ \A i \in 1 .. Len(a) : a1[i] = a[i]
        /\ a1[Len(a) + 1] = "M" /\ a1[Len(a) + 2] = "."
    BY <1>1, WordJoined
  <2> HIDE DEF a1
  <2> QED
    BY <1>1, <2>1
<1> HIDE DEF a1
<1>3. /\ a2 \in Seq(TmccBytes) /\ Len(a2) = 6 + 3 /\ (\A i \in 1 .. 6 : a2[i] = a1[i])
      /\ a2[6 + 1] = "M"
  <2>1. /\ a2 \in Seq(TmccBytes) /\ Len(a2) = Len(a1) + 3
        /\ \A i \in 1 .. Len(a1) : a2[i] = a1[i]
        /\ a2[Len(a1) + 1] = "M" /\ a2[Len(a1) + 2] = "."
    BY <1>2, WordJoined
  <2> HIDE DEF a2
  <2> QED
    BY <1>2, <2>1
<1> HIDE DEF a2
<1>4. BytesOf("multi") = a2
  BY DEF BytesOf, a, a1, a2
<1> QED
  BY <1>1, <1>2, <1>3, <1>4

LEMMA VariableBytes ==
  LET b == BytesOf("variable") IN
  /\ b \in Seq(TmccBytes) /\ Len(b) = 18 /\ b[1] = "F" /\ b[2] = "." /\ b[3] = "V"
  /\ b[4] = "M" /\ b[5] = "." /\ b[6] = "1" /\ b[7] = "M"
<1> DEFINE a == << "F", ".", "V", "M", ".", "1" >>
           a1 == a \o Word
           a2 == a1 \o Word
           a3 == a2 \o Word
           a4 == a3 \o Word
<1>1. /\ a \in Seq(TmccBytes) /\ Len(a) = 6 /\ a[1] = "F" /\ a[2] = "." /\ a[3] = "V"
      /\ a[4] = "M" /\ a[5] = "." /\ a[6] = "1"
  BY DEF TmccBytes
<1> HIDE DEF a
<1>2. /\ a1 \in Seq(TmccBytes) /\ Len(a1) = 6 + 3 /\ (\A i \in 1 .. 6 : a1[i] = a[i])
      /\ a1[6 + 1] = "M"
  <2>1. /\ a1 \in Seq(TmccBytes) /\ Len(a1) = Len(a) + 3
        /\ \A i \in 1 .. Len(a) : a1[i] = a[i]
        /\ a1[Len(a) + 1] = "M" /\ a1[Len(a) + 2] = "."
    BY <1>1, WordJoined
  <2> HIDE DEF a1
  <2> QED
    BY <1>1, <2>1
<1> HIDE DEF a1
<1>3. a2 \in Seq(TmccBytes) /\ Len(a2) = 9 + 3 /\ \A i \in 1 .. 9 : a2[i] = a1[i]
  <2>1. /\ a2 \in Seq(TmccBytes) /\ Len(a2) = Len(a1) + 3
        /\ \A i \in 1 .. Len(a1) : a2[i] = a1[i]
        /\ a2[Len(a1) + 1] = "M" /\ a2[Len(a1) + 2] = "."
    BY <1>2, WordJoined
  <2> HIDE DEF a2
  <2> QED
    BY <1>2, <2>1
<1> HIDE DEF a2
<1>4. a3 \in Seq(TmccBytes) /\ Len(a3) = 12 + 3 /\ \A i \in 1 .. 12 : a3[i] = a2[i]
  <2>1. /\ a3 \in Seq(TmccBytes) /\ Len(a3) = Len(a2) + 3
        /\ \A i \in 1 .. Len(a2) : a3[i] = a2[i]
        /\ a3[Len(a2) + 1] = "M" /\ a3[Len(a2) + 2] = "."
    BY <1>3, WordJoined
  <2> HIDE DEF a3
  <2> QED
    BY <1>3, <2>1
<1> HIDE DEF a3
<1>5. a4 \in Seq(TmccBytes) /\ Len(a4) = 15 + 3 /\ \A i \in 1 .. 15 : a4[i] = a3[i]
  <2>1. /\ a4 \in Seq(TmccBytes) /\ Len(a4) = Len(a3) + 3
        /\ \A i \in 1 .. Len(a3) : a4[i] = a3[i]
        /\ a4[Len(a3) + 1] = "M" /\ a4[Len(a3) + 2] = "."
    BY <1>4, WordJoined
  <2> HIDE DEF a4
  <2> QED
    BY <1>4, <2>1
<1> HIDE DEF a4
<1>6. \A i \in 1 .. 9 : a4[i] = a1[i]
  BY <1>3, <1>4, <1>5
<1>7. BytesOf("variable") = a4
  BY DEF BytesOf, a, a1, a2, a3, a4
<1>8. a4[1] = "F" /\ a4[2] = "." /\ a4[3] = "V" /\ a4[4] = "M" /\ a4[5] = "." /\ a4[6] = "1"
  BY <1>1, <1>2, <1>6
<1>9. a4[7] = "M"
  BY <1>2, <1>6
<1> QED
  BY <1>5, <1>7, <1>8, <1>9

LEMMA Multi4Bytes ==
  LET b == BytesOf("multi4") IN
  /\ b \in Seq(TmccBytes) /\ Len(b) = 21 /\ b[1] = "F" /\ b[2] = "0" /\ b[3] = "."
  /\ b[4] = "." /\ b[5] = "." /\ b[8] = "M" /\ b[15] = "M"
<1> DEFINE a == << "F", "0", "." >>
           a1 == a \o Dots(4)
           a2 == a1 \o Word
           a3 == a2 \o Dots(4)
           a4 == a3 \o Word
           a5 == a4 \o Dots(4)
<1>1. /\ a \in Seq(TmccBytes) /\ Len(a) = 3 /\ a[1] = "F" /\ a[2] = "0" /\ a[3] = "."
  BY DEF TmccBytes
<1> HIDE DEF a
<1>3. /\ a1 \in Seq(TmccBytes) /\ Len(a1) = 3 + 4 /\ (\A i \in 1 .. 3 : a1[i] = a[i])
      /\ a1[3 + 1] = "." /\ a1[3 + 2] = "."
  <2>1. /\ a1 \in Seq(TmccBytes) /\ Len(a1) = Len(a) + 4
        /\ \A i \in 1 .. Len(a) : a1[i] = a[i]
        /\ a1[Len(a) + 1] = "." /\ a1[Len(a) + 2] = "."
    BY <1>1, DotsJoined
  <2> HIDE DEF a1
  <2> QED
    BY <1>1, <2>1
<1> HIDE DEF a1
<1>4. a2 \in Seq(TmccBytes) /\ Len(a2) = 7 + 3 /\ (\A i \in 1 .. 7 : a2[i] = a1[i])
      /\ a2[7 + 1] = "M"
  <2>1. /\ a2 \in Seq(TmccBytes) /\ Len(a2) = Len(a1) + 3
        /\ \A i \in 1 .. Len(a1) : a2[i] = a1[i]
        /\ a2[Len(a1) + 1] = "M" /\ a2[Len(a1) + 2] = "."
    BY <1>3, WordJoined
  <2> HIDE DEF a2
  <2> QED
    BY <1>3, <2>1
<1> HIDE DEF a2
<1>5. a3 \in Seq(TmccBytes) /\ Len(a3) = 10 + 4 /\ \A i \in 1 .. 10 : a3[i] = a2[i]
  <2>1. /\ a3 \in Seq(TmccBytes) /\ Len(a3) = Len(a2) + 4
        /\ \A i \in 1 .. Len(a2) : a3[i] = a2[i]
        /\ a3[Len(a2) + 1] = "." /\ a3[Len(a2) + 2] = "."
    BY <1>4, DotsJoined
  <2> HIDE DEF a3
  <2> QED
    BY <1>4, <2>1
<1> HIDE DEF a3
<1>6. a4 \in Seq(TmccBytes) /\ Len(a4) = 14 + 3 /\ (\A i \in 1 .. 14 : a4[i] = a3[i])
      /\ a4[14 + 1] = "M"
  <2>1. /\ a4 \in Seq(TmccBytes) /\ Len(a4) = Len(a3) + 3
        /\ \A i \in 1 .. Len(a3) : a4[i] = a3[i]
        /\ a4[Len(a3) + 1] = "M" /\ a4[Len(a3) + 2] = "."
    BY <1>5, WordJoined
  <2> HIDE DEF a4
  <2> QED
    BY <1>5, <2>1
<1> HIDE DEF a4
<1>7. a5 \in Seq(TmccBytes) /\ Len(a5) = 17 + 4 /\ \A i \in 1 .. 17 : a5[i] = a4[i]
  <2>1. /\ a5 \in Seq(TmccBytes) /\ Len(a5) = Len(a4) + 4
        /\ \A i \in 1 .. Len(a4) : a5[i] = a4[i]
        /\ a5[Len(a4) + 1] = "." /\ a5[Len(a4) + 2] = "."
    BY <1>6, DotsJoined
  <2> HIDE DEF a5
  <2> QED
    BY <1>6, <2>1
<1> HIDE DEF a5
<1>8. \A i \in 1 .. 10 : a5[i] = a2[i]
  BY SMTT(60), <1>5, <1>6, <1>7
<1>9. BytesOf("multi4") = a5
  BY DEF BytesOf, a, a1, a2, a3, a4, a5
<1>10. a5[1] = "F" /\ a5[2] = "0" /\ a5[3] = "." /\ a5[4] = "." /\ a5[5] = "."
  BY <1>1, <1>3, <1>4, <1>8
<1>11. a5[8] = "M" /\ a5[15] = "M"
  BY <1>4, <1>6, <1>7, <1>8
<1> QED
  BY <1>7, <1>9, <1>10, <1>11

\* The commands that can be told apart: without the TMCC1 commands whose second byte
\* passes for a four-digit address; only commands of three bytes arrive in two chunks.
Distinct == TmccKinds \subseteq Short \cup {"legacy4", "multi", "multi4", "variable"}
            /\ SplitKinds \subseteq Short

LEMMA KindBytes ==
  ASSUME Distinct, NEW kind \in TmccKinds
  PROVE  LET b == BytesOf(kind) IN
         /\ b \in Seq(TmccBytes) /\ Len(b) \in {3, 7, 9, 18, 21}
         /\ b[1] \in {"F", "T"} /\ b[2] # "M"
         /\ Len(b) # 3 => b[1] = "F" /\ b[5] = "."
         /\ Len(b) = 3 => b[2] = "." /\ kind \in Short
         /\ Len(b) = 7 => b[2] = "0" /\ b[4] = "."
         /\ Len(b) = 9 => b[3] = "." /\ b[4] = "M" /\ b[7] = "M"
         /\ Len(b) = 18 => b[3] = "V" /\ b[4] = "M" /\ b[6] = "1" /\ b[7] = "M"
         /\ Len(b) = 21 => b[3] = "." /\ b[4] = "." /\ b[8] = "M" /\ b[15] = "M"
<1> DEFINE b == BytesOf(kind)
<1> HIDE DEF b
<1> SUFFICES /\ b \in Seq(TmccBytes) /\ Len(b) \in {3, 7, 9, 18, 21}
             /\ b[1] \in {"F", "T"} /\ b[2] # "M"
             /\ Len(b) # 3 => b[1] = "F" /\ b[5] = "."
             /\ Len(b) = 3 => b[2] = "." /\ kind \in Short
             /\ Len(b) = 7 => b[2] = "0" /\ b[4] = "."
             /\ Len(b) = 9 => b[3] = "." /\ b[4] = "M" /\ b[7] = "M"
             /\ Len(b) = 18 => b[3] = "V" /\ b[4] = "M" /\ b[6] = "1" /\ b[7] = "M"
             /\ Len(b) = 21 => b[3] = "." /\ b[4] = "." /\ b[8] = "M" /\ b[15] = "M"
  BY DEF b
<1>1. kind \in Short \cup {"legacy4", "multi", "multi4", "variable"}
  BY DEF Distinct
<1>2. CASE kind \in Short
  <2>1. b \in Seq(TmccBytes) /\ Len(b) = 3 /\ b[1] \in {"F", "T"} /\ b[2] = "."
    BY <1>2, ShortBytes DEF b
  <2> QED
    BY <1>2, <2>1
<1>3. CASE kind = "legacy4"
  <2>1. b \in Seq(TmccBytes) /\ Len(b) = 7 /\ b[1] = "F" /\ b[2] = "0" /\ b[4] = "." /\ b[5] = "."
    BY <1>3, Legacy4Bytes DEF b
  <2> QED
    BY <2>1
<1>4. CASE kind = "multi"
  <2>1. /\ b \in Seq(TmccBytes) /\ Len(b) = 9 /\ b[1] = "F" /\ b[2] = "." /\ b[3] = "."
        /\ b[4] = "M" /\ b[5] = "." /\ b[7] = "M"
    BY <1>4, MultiBytes DEF b
  <2> QED
    BY <2>1
<1>5. CASE kind = "multi4"
  <2>1. /\ b \in Seq(TmccBytes) /\ Len(b) = 21 /\ b[1] = "F" /\ b[2] = "0" /\ b[3] = "."
        /\ b[4] = "." /\ b[5] = "." /\ b[8] = "M" /\ b[15] = "M"
    BY <1>5, Multi4Bytes DEF b
  <2> QED
    BY <2>1
<1>6. CASE kind = "variable"
  <2>1. /\ b \in Seq(TmccBytes) /\ Len(b) = 18 /\ b[1] = "F" /\ b[2] = "." /\ b[3] = "V"
        /\ b[4] = "M" /\ b[5] = "." /\ b[6] = "1" /\ b[7] = "M"
    BY <1>6, VariableBytes DEF b
  <2> QED
    BY <2>1
<1> QED
  BY <1>1, <1>2, <1>3, <1>4, <1>5, <1>6

-----------------------------------------------------------------------------
Stream == tDeque \o tRest

\* The stream s is what is left of something that was there before, and the bytes of the
\* commands behind the first k, whole and in order: p tells where each of them ends.
Aligned(s, kinds, k, p) ==
  /\ p \in [Nat -> Int]
  /\ 0 <= p[k] /\ p[k] <= 2 /\ p[Len(kinds)] = Len(s)
  /\ \A i \in 1 .. p[k] : s[i] = "."
  /\ \A i, j \in k .. Len(kinds) : i <= j => p[i] <= p[j]
  /\ \A i \in k + 1 .. Len(kinds) :
       /\ p[i] = p[i - 1] + Len(BytesOf(kinds[i]))
       /\ \A b \in 1 .. Len(BytesOf(kinds[i])) : s[p[i - 1] + b] = BytesOf(kinds[i])[b]

\* What has not arrived is part of a short command, the last one.
LastArrives ==
  tRest # << >> =>
    /\ Len(tOffered) < Len(tSent) /\ tSent[Len(tSent)] \in Short /\ Len(tRest) < 3

\* What has been offered is what was kinds first.
OfferedFirst ==
  /\ Len(tOffered) <= Len(tSent)
  /\ \A i \in 1 .. Len(tOffered) : tOffered[i] = BytesOf(tSent[i])

CutTypes ==
  /\ tSent \in Seq(TmccKinds) /\ tDeque \in Seq(TmccBytes) /\ tRest \in Seq(TmccBytes)
  /\ tOffered \in Seq(Seq(TmccBytes)) /\ tIs4 = FALSE

CutInv ==
  /\ CutTypes /\ LastArrives /\ OfferedFirst
  /\ \E p : Aligned(Stream, tSent, Len(tOffered), p)

-----------------------------------------------------------------------------
LEMMA StreamIs ==
  ASSUME CutTypes
  PROVE  /\ Stream \in Seq(TmccBytes) /\ Len(Stream) = Len(tDeque) + Len(tRest)
         /\ Len(tDeque) \in Nat /\ Len(tRest) \in Nat /\ Len(tSent) \in Nat /\ Len(tOffered) \in Nat
         /\ \A i \in 1 .. Len(tDeque) : Stream[i] = tDeque[i]
BY DEF CutTypes, Stream

LEMMA InvMeans == CutInv => CommandsComeOutWhole
<1> SUFFICES ASSUME CutInv PROVE CommandsComeOutWhole
  OBVIOUS
<1>1. tSent \in Seq(TmccKinds) /\ tOffered \in Seq(Seq(TmccBytes))
  BY DEF CutInv, CutTypes
<1>2. Len(tOffered) <= Len(tSent) /\ \A i \in 1 .. Len(tOffered) : tOffered[i] = BytesOf(tSent[i])
  BY DEF CutInv, OfferedFirst
<1>3. SentBytes = [i \in 1 .. Len(tSent) |-> BytesOf(tSent[i])] /\ Len(SentBytes) = Len(tSent)
      /\ DOMAIN SentBytes = 1 .. Len(tSent)
  BY <1>1 DEF SentBytes
<1>4. \A i \in 1 .. Len(tOffered) : tOffered[i] = SentBytes[i]
  BY <1>1, <1>2, <1>3
<1>5. SubSeq(SentBytes, 1, Len(tOffered)) = tOffered
  BY <1>1, <1>2, <1>3, <1>4
<1> QED
  BY <1>1, <1>2, <1>3, <1>5 DEF CommandsComeOutWhole, IsPrefix, IsStrictPrefix

ItemsOf(kinds) == [i \in 1 .. Len(kinds) |-> BytesOf(kinds[i])]

LEMMA AlignedLine ==
  ASSUME Distinct, NEW s, NEW kinds \in Seq(TmccKinds), NEW k \in 0 .. Len(kinds), NEW p
  PROVE  /\ ItemsOf(kinds) \in Seq(Seq(TmccBytes)) /\ Len(ItemsOf(kinds)) = Len(kinds)
         /\ Aligned(s, kinds, k, p) <=>
              /\ IsLine(s, ItemsOf(kinds), k, p)
              /\ p[k] <= 2 /\ \A i \in 1 .. p[k] : s[i] = "."
<1> DEFINE items == ItemsOf(kinds)
           N == Len(kinds)
<1>1. N \in Nat /\ \A i \in 1 .. N : kinds[i] \in TmccKinds
  OBVIOUS
<1>2. \A i \in 1 .. N : BytesOf(kinds[i]) \in Seq(TmccBytes)
  BY <1>1, KindBytes
<1>3. items = [i \in 1 .. N |-> BytesOf(kinds[i])]
  BY DEF ItemsOf
<1> HIDE DEF items, N
<1>4. items \in Seq(Seq(TmccBytes)) /\ Len(items) = N /\ \A i \in 1 .. N : items[i] = BytesOf(kinds[i])
  BY <1>1, <1>2, <1>3
<1>5. \A i \in k + 1 .. N : i \in 1 .. N
  BY <1>1 DEF N
<1>6. (\A i \in k + 1 .. N :
         /\ p[i] = p[i - 1] + Len(items[i])
         /\ \A b \in 1 .. Len(items[i]) : s[p[i - 1] + b] = items[i][b])
      <=> \A i \in k + 1 .. N :
            /\ p[i] = p[i - 1] + Len(BytesOf(kinds[i]))
            /\ \A b \in 1 .. Len(BytesOf(kinds[i])) : s[p[i - 1] + b] = BytesOf(kinds[i])[b]
  BY <1>4, <1>5
<1>7. IsLine(s, items, k, p) <=>
        /\ p \in [Nat -> Int] /\ 0 <= p[k] /\ p[N] = Len(s)
        /\ \A i, j \in k .. N : i <= j => p[i] <= p[j]
        /\ \A i \in k + 1 .. N :
             /\ p[i] = p[i - 1] + Len(items[i])
             /\ \A b \in 1 .. Len(items[i]) : s[p[i - 1] + b] = items[i][b]
  BY <1>4 DEF IsLine
<1>8. Aligned(s, kinds, k, p) <=> IsLine(s, items, k, p) /\ p[k] <= 2 /\ \A i \in 1 .. p[k] : s[i] = "."
  BY <1>6, <1>7 DEF Aligned, N
<1> QED
  BY <1>4, <1>8 DEF items, N

LEMMA AlignedGrows ==
  ASSUME Distinct, NEW s \in Seq(TmccBytes), NEW kinds \in Seq(TmccKinds), NEW k \in 0 .. Len(kinds),
         NEW p, Aligned(s, kinds, k, p), NEW kind \in TmccKinds
  PROVE  \E q : Aligned(s \o BytesOf(kind), Append(kinds, kind), k, q)
<1> DEFINE c == BytesOf(kind)
           N == Len(kinds)
           sent2 == Append(kinds, kind)
           items == ItemsOf(kinds)
           t == s \o c
<1>1. /\ c \in Seq(TmccBytes) /\ N \in Nat /\ sent2 \in Seq(TmccKinds) /\ Len(sent2) = N + 1
      /\ k \in 0 .. N + 1 /\ sent2[N + 1] = kind /\ \A i \in 1 .. N : sent2[i] = kinds[i]
  BY KindBytes
<1>2. /\ items \in Seq(Seq(TmccBytes)) /\ Len(items) = N /\ IsLine(s, items, k, p)
      /\ p[k] <= 2 /\ \A i \in 1 .. p[k] : s[i] = "."
  BY AlignedLine
<1>3. ItemsOf(sent2) = Append(items, c)
  <2>1. /\ Append(items, c) \in Seq(Seq(TmccBytes)) /\ Len(Append(items, c)) = N + 1
        /\ Append(items, c)[N + 1] = c /\ \A i \in 1 .. N : Append(items, c)[i] = items[i]
    BY <1>1, <1>2
  <2>2. \A i \in 1 .. N : items[i] = BytesOf(kinds[i])
    BY DEF ItemsOf
  <2>3. ItemsOf(sent2) = [i \in 1 .. N + 1 |-> BytesOf(sent2[i])]
    BY <1>1 DEF ItemsOf
  <2>4. \A i \in 1 .. N + 1 : BytesOf(sent2[i]) = Append(items, c)[i]
    <3> TAKE i \in 1 .. N + 1
    <3>1. i \in 1 .. N \/ i = N + 1
      BY <1>1
    <3> HIDE DEF items, N, sent2
    <3> QED
      BY <1>1, <2>1, <2>2, <3>1 DEF c
  <2>5. Append(items, c) = [i \in 1 .. N + 1 |-> Append(items, c)[i]]
    <3> DEFINE z == Append(items, c)
               S == Seq(TmccBytes)
    <3>1. z \in Seq(S) /\ Len(z) = N + 1
      BY <2>1
    <3> HIDE DEF z, S, N
    <3>2. z = [i \in 1 .. N + 1 |-> z[i]]
      BY <3>1
    <3> QED
      BY <3>2 DEF z
  <2> HIDE DEF items, N, sent2, c
  <2> QED
    BY <2>3, <2>4, <2>5
<1>4. k \in 0 .. Len(items)
  BY <1>2
<1> HIDE DEF items, c, sent2
<1>5. LineTypes(TmccBytes, s, items, k)
  BY <1>2, <1>4 DEF LineTypes
<1>6. PICK q : IsLine(t, Append(items, c), k, q) /\ q[k] = p[k]
  BY <1>1, <1>2, <1>5, LineGrows
<1>7. \A i \in 1 .. q[k] : t[i] = "."
  <2>0. /\ p \in [Nat -> Int] /\ p[N] = Len(s)
        /\ \A i, j \in k .. N : i <= j => p[i] <= p[j]
    BY <1>2 DEF IsLine
  <2>1. p \in [Nat -> Int] /\ p[N] = Len(s) /\ p[k] <= p[N]
    <3>1. k \in k .. N /\ N \in k .. N /\ k <= N
      BY <1>1
    <3> HIDE DEF N
    <3> QED
      BY <2>0, <3>1
  <2>2. \A i \in 1 .. Len(s) : t[i] = s[i]
    BY <1>1, Joined
  <2>3. p[k] \in Int /\ Len(s) \in Nat
    BY <1>1, <2>1
  <2> TAKE i \in 1 .. q[k]
  <2>4. i \in 1 .. p[k] /\ i \in 1 .. Len(s)
    BY <1>6, <2>1, <2>3
  <2> QED
    BY <1>2, <2>2, <2>4
<1>8. IsLine(t, ItemsOf(sent2), k, q) /\ q[k] <= 2
  BY <1>2, <1>3, <1>6
<1>9. k \in 0 .. Len(sent2)
  BY <1>1
<1>10. Aligned(t, sent2, k, q)
  BY <1>1, <1>7, <1>8, <1>9, AlignedLine
<1> QED
  BY <1>10 DEF sent2, c

\* The stream t is the stream s without its first n bytes: what was left over, or the
\* commands up to the m-th.
Shifted(s, kinds, k, p, m, n, t) ==
  /\ s \in Seq(TmccBytes) /\ kinds \in Seq(TmccKinds) /\ k \in 0 .. Len(kinds)
  /\ Aligned(s, kinds, k, p) /\ m \in k .. Len(kinds) /\ n \in Nat
  /\ n <= p[m] /\ p[m] - n <= 2 /\ \A i \in 1 .. p[m] - n : s[i + n] = "."
  /\ t \in Seq(TmccBytes) /\ Len(t) = Len(s) - n /\ \A i \in 1 .. Len(t) : t[i] = s[i + n]

LEMMA ShiftedAligned ==
  ASSUME Distinct, NEW s, NEW kinds, NEW k, NEW p, NEW m, NEW n, NEW t,
         Shifted(s, kinds, k, p, m, n, t)
  PROVE  \E q : Aligned(t, kinds, m, q)
<1> DEFINE N == Len(kinds)
           items == ItemsOf(kinds)
<1>0. /\ s \in Seq(TmccBytes) /\ kinds \in Seq(TmccKinds) /\ k \in 0 .. N
      /\ Aligned(s, kinds, k, p) /\ m \in k .. N /\ n \in Nat
      /\ n <= p[m] /\ p[m] - n <= 2 /\ \A i \in 1 .. p[m] - n : s[i + n] = "."
      /\ t \in Seq(TmccBytes) /\ Len(t) = Len(s) - n /\ \A i \in 1 .. Len(t) : t[i] = s[i + n]
  BY DEF Shifted
<1>1. items \in Seq(Seq(TmccBytes)) /\ Len(items) = N /\ IsLine(s, items, k, p) /\ N \in Nat
  BY <1>0, AlignedLine
<1> HIDE DEF items, N
<1>2. p \in [Nat -> Int] /\ p[N] = Len(s) /\ p[m] <= p[N] /\ m \in Nat /\ m \in 0 .. N
  <2>1. /\ p \in [Nat -> Int] /\ p[N] = Len(s)
        /\ \A i, j \in k .. N : i <= j => p[i] <= p[j]
    BY <1>1 DEF IsLine
  <2>2. m \in k .. N /\ N \in k .. N /\ m <= N /\ m \in Nat /\ m \in 0 .. N
    BY <1>0, <1>1
  <2> QED
    BY <2>1, <2>2
<1>3. ShiftedLine(TmccBytes, s, items, k, p, m, n, t)
  BY <1>0, <1>1 DEF ShiftedLine, LineTypes
<1>4. PICK q : IsLine(t, items, m, q) /\ q[m] = p[m] - n
  BY <1>3, LineShifts
<1>5. q[m] <= 2 /\ \A i \in 1 .. q[m] : t[i] = "."
  <2>1. p[m] \in Int /\ Len(t) = Len(s) - n /\ Len(s) \in Nat /\ n \in Nat
    BY <1>0, <1>2
  <2>2. p[m] - n <= Len(t)
    BY <1>2, <2>1
  <2> SUFFICES ASSUME NEW i \in 1 .. q[m] PROVE t[i] = "."
    BY <1>0, <1>4
  <2>3. i \in 1 .. p[m] - n /\ i \in 1 .. Len(t)
    BY <1>4, <2>1, <2>2
  <2> QED
    BY <1>0, <2>3
<1>6. Aligned(t, kinds, m, q)
  BY <1>0, <1>2, <1>4, <1>5, AlignedLine DEF items, N
<1> QED
  BY <1>6

\* What stands in front of the stream.
LEMMA FrontIs ==
  ASSUME Distinct, NEW s \in Seq(TmccBytes), NEW kinds \in Seq(TmccKinds), NEW k \in 0 .. Len(kinds),
         NEW p, Aligned(s, kinds, k, p), s # << >>
  PROVE  /\ s[1] \in {"F", "T"} => p[k] = 0 /\ k < Len(kinds)
         /\ s[1] \notin {"F", "T"} => 1 <= p[k]
<1> DEFINE N == Len(kinds)
<1>1. N \in Nat /\ k \in Nat /\ k <= N /\ Len(s) \in Nat /\ 1 <= Len(s)
  OBVIOUS
<1>2. p \in [Nat -> Int] /\ 0 <= p[k] /\ p[N] = Len(s) /\ (\A i \in 1 .. p[k] : s[i] = ".")
  BY DEF Aligned
<1>a. \A i \in k + 1 .. N :
        /\ p[i] = p[i - 1] + Len(BytesOf(kinds[i]))
        /\ \A b \in 1 .. Len(BytesOf(kinds[i])) : s[p[i - 1] + b] = BytesOf(kinds[i])[b]
  BY DEF Aligned
<1>3. p[k] \in Int
  BY <1>1, <1>2
<1>4. k = N => 1 <= p[k]
  BY <1>1, <1>2
<1>5. 1 <= p[k] => s[1] = "."
  BY <1>2, <1>3
<1>6. ASSUME p[k] = 0, k < N PROVE s[1] \in {"F", "T"}
  <2> DEFINE d == BytesOf(kinds[k + 1])
  <2>1. k + 1 \in k + 1 .. N /\ kinds[k + 1] \in TmccKinds /\ k + 1 - 1 = k
    BY <1>1, <1>6
  <2>2. \A b \in 1 .. Len(d) : s[p[k + 1 - 1] + b] = d[b]
    BY <1>a, <2>1
  <2>3. d[1] \in {"F", "T"} /\ d \in Seq(TmccBytes) /\ Len(d) \in {3, 7, 9, 18, 21}
    BY <2>1, KindBytes
  <2> HIDE DEF d
  <2>4. 1 \in 1 .. Len(d)
    BY <2>3
  <2>5. s[p[k + 1 - 1] + 1] = d[1]
    BY <2>2, <2>4
  <2>6. p[k + 1 - 1] + 1 = 1
    BY <1>1, <1>6, <2>1
  <2> QED
    BY <2>3, <2>5, <2>6
<1> QED
  BY <1>1, <1>2, <1>3, <1>4, <1>5, <1>6

LEMMA FrontCommand ==
  ASSUME Distinct, NEW s \in Seq(TmccBytes), NEW kinds \in Seq(TmccKinds), NEW k \in 0 .. Len(kinds),
         NEW p, Aligned(s, kinds, k, p), p[k] = 0, k < Len(kinds),
         NEW d, d = BytesOf(kinds[k + 1])
  PROVE  /\ kinds[k + 1] \in TmccKinds /\ p[k + 1] = Len(d) /\ Len(d) <= Len(s)
         /\ \A j \in 1 .. Len(d) : s[j] = d[j]
         /\ Len(s) >= Len(d) + 1 => k + 1 < Len(kinds) /\ s[Len(d) + 1] \in {"F", "T"}
         /\ Len(d) = 3 /\ Len(s) >= 8 => s[8] # "M"
<1> DEFINE N == Len(kinds)
<1>1. N \in Nat /\ k \in Nat /\ k < N /\ Len(s) \in Nat
  OBVIOUS
<1>2. p \in [Nat -> Int] /\ p[N] = Len(s) /\ \A i, j \in k .. N : i <= j => p[i] <= p[j]
  BY DEF Aligned
<1>3. \A i \in k + 1 .. N :
        /\ p[i] = p[i - 1] + Len(BytesOf(kinds[i]))
        /\ \A b \in 1 .. Len(BytesOf(kinds[i])) : s[p[i - 1] + b] = BytesOf(kinds[i])[b]
  BY DEF Aligned
<1>a. \A i \in 1 .. N : kinds[i] \in TmccKinds
  OBVIOUS
<1> HIDE DEF N
\* the command behind position i
<1>4. ASSUME NEW i \in k .. N - 1
      PROVE  LET b == BytesOf(kinds[i + 1]) IN
             /\ kinds[i + 1] \in TmccKinds /\ p[i] \in Int /\ p[i + 1] \in Int
             /\ p[i + 1] = p[i] + Len(b)
             /\ \A j \in 1 .. Len(b) : s[p[i] + j] = b[j]
  <2> DEFINE b == BytesOf(kinds[i + 1])
  <2>1. i + 1 \in k + 1 .. N /\ i + 1 - 1 = i /\ i + 1 \in 1 .. N /\ i \in Nat /\ i + 1 \in Nat
    BY <1>1
  <2>2. /\ p[i + 1] = p[i + 1 - 1] + Len(b)
        /\ \A j \in 1 .. Len(b) : s[p[i + 1 - 1] + j] = b[j]
    BY <1>3, <2>1
  <2>3. p[i] \in Int /\ p[i + 1] \in Int
    BY <1>2, <2>1
  <2> HIDE DEF b
  <2>4. /\ kinds[i + 1] \in TmccKinds /\ p[i] \in Int /\ p[i + 1] \in Int
        /\ p[i + 1] = p[i] + Len(b)
        /\ \A j \in 1 .. Len(b) : s[p[i] + j] = b[j]
    BY <1>a, <2>1, <2>2, <2>3
  <2> QED
    BY <2>4 DEF b
<1>5. k \in k .. N - 1
  BY <1>1
<1>6. /\ kinds[k + 1] \in TmccKinds /\ p[k + 1] = 0 + Len(d)
      /\ \A j \in 1 .. Len(d) : s[0 + j] = d[j]
  BY <1>4, <1>5
<1>7. d \in Seq(TmccBytes) /\ Len(d) \in {3, 7, 9, 18, 21} /\ Len(d) \in Nat
  BY <1>6, KindBytes
<1>8. \A j \in 1 .. Len(d) : s[j] = d[j]
  BY <1>6, <1>7
<1>9. p[k + 1] = Len(d) /\ Len(d) <= Len(s)
  <2>1. k + 1 \in k .. N /\ N \in k .. N /\ k + 1 <= N
    BY <1>1
  <2>2. p[k + 1] <= p[N]
    BY <1>2, <2>1
  <2> QED
    BY <1>2, <1>6, <1>7, <2>2
<1>10. ASSUME Len(s) >= Len(d) + 1 PROVE k + 1 < N
  <2>1. k + 1 # N
    BY <1>1, <1>2, <1>7, <1>9, <1>10
  <2> QED
    BY <1>1, <2>1
<1>11. ASSUME k + 1 < N
       PROVE  LET b == BytesOf(kinds[k + 2]) IN
              /\ kinds[k + 2] \in TmccKinds /\ p[k + 2] = Len(d) + Len(b) /\ Len(b) \in {3, 7, 9, 18, 21}
              /\ b[1] \in {"F", "T"} /\ (Len(b) # 3 => b[5] = ".")
              /\ \A j \in 1 .. Len(b) : s[Len(d) + j] = b[j]
  <2> DEFINE b == BytesOf(kinds[k + 1 + 1])
  <2>1. k + 1 \in k .. N - 1 /\ k + 1 + 1 = k + 2
    BY <1>1, <1>11
  <2>2. /\ kinds[k + 1 + 1] \in TmccKinds
        /\ p[k + 1 + 1] = p[k + 1] + Len(b)
        /\ \A j \in 1 .. Len(b) : s[p[k + 1] + j] = b[j]
    BY <1>4, <2>1
  <2>3. Len(b) \in {3, 7, 9, 18, 21} /\ b[1] \in {"F", "T"} /\ (Len(b) # 3 => b[5] = ".")
    BY <2>2, KindBytes
  <2>4. b = BytesOf(kinds[k + 2])
    BY <2>1
  <2> HIDE DEF b
  <2>5. /\ kinds[k + 2] \in TmccKinds /\ p[k + 2] = Len(d) + Len(b)
        /\ \A j \in 1 .. Len(b) : s[Len(d) + j] = b[j]
    BY <1>9, <2>1, <2>2
  <2> QED
    BY <2>3, <2>4, <2>5
<1>12. ASSUME Len(s) >= Len(d) + 1 PROVE s[Len(d) + 1] \in {"F", "T"}
  <2> DEFINE b == BytesOf(kinds[k + 2])
  <2>1. Len(b) \in {3, 7, 9, 18, 21} /\ b[1] \in {"F", "T"} /\ \A j \in 1 .. Len(b) : s[Len(d) + j] = b[j]
    BY <1>10, <1>11, <1>12
  <2> HIDE DEF b
  <2>2. 1 \in 1 .. Len(b)
    BY <2>1
  <2> QED
    BY <2>1, <2>2
<1>13. ASSUME Len(d) = 3, Len(s) >= 8 PROVE s[8] # "M"
  <2> DEFINE b == BytesOf(kinds[k + 2])
             c == BytesOf(kinds[k + 2 + 1])
  <2>1. k + 1 < N
    BY <1>10, <1>13
  <2>2. /\ p[k + 2] = 3 + Len(b) /\ Len(b) \in {3, 7, 9, 18, 21} /\ (Len(b) # 3 => b[5] = ".")
        /\ \A j \in 1 .. Len(b) : s[3 + j] = b[j]
    BY <1>11, <1>13, <2>1
  <2>3. CASE Len(b) # 3
    <3> HIDE DEF b
    <3>1. 5 \in 1 .. Len(b)
      BY <2>2, <2>3
    <3>2. s[3 + 5] = b[5]
      BY <2>2, <3>1
    <3> QED
      BY <2>2, <2>3, <3>2
  <2>4. CASE Len(b) = 3
    <3>1. p[k + 2] = 6
      BY <2>2, <2>4
    <3>2. k + 2 # N
      BY <1>2, <1>13, <3>1
    <3>3. k + 2 \in k .. N - 1
      BY <1>1, <2>1, <3>2
    <3>4. /\ kinds[k + 2 + 1] \in TmccKinds
          /\ \A j \in 1 .. Len(c) : s[p[k + 2] + j] = c[j]
      BY <1>4, <3>3
    <3>5. Len(c) \in {3, 7, 9, 18, 21} /\ c[2] # "M"
      BY <3>4, KindBytes
    <3> HIDE DEF c
    <3>6. 2 \in 1 .. Len(c)
      BY <3>5
    <3>7. s[p[k + 2] + 2] = c[2]
      BY <3>4, <3>6
    <3>8. p[k + 2] + 2 = 8
      BY <3>1
    <3> QED
      BY <3>5, <3>7, <3>8
  <2> QED
    BY <2>3, <2>4
<1> QED
  BY <1>6, <1>8, <1>9, <1>10, <1>12, <1>13 DEF N

-----------------------------------------------------------------------------
\* A whole command in front is taken off as it is, whatever stands behind it.
LEMMA CutsRight ==
  ASSUME Distinct, NEW kind \in TmccKinds, NEW d, d = BytesOf(kind),
         tDeque \in Seq(TmccBytes), Len(d) <= Len(tDeque),
         \A j \in 1 .. Len(d) : tDeque[j] = d[j],
         Len(tDeque) >= Len(d) + 1 => tDeque[Len(d) + 1] \in {"F", "T"},
         Len(d) = 3 /\ Len(tDeque) >= 8 => tDeque[8] # "M"
  PROVE  CommandLength = Len(d) /\ Understood(Sets4)
<1>1. /\ d \in Seq(TmccBytes) /\ Len(d) \in {3, 7, 9, 18, 21}
      /\ d[1] \in {"F", "T"} /\ d[2] # "M"
      /\ Len(d) # 3 => d[1] = "F" /\ d[5] = "."
      /\ Len(d) = 3 => d[2] = "."
      /\ Len(d) = 7 => d[2] = "0" /\ d[4] = "."
      /\ Len(d) = 9 => d[3] = "." /\ d[4] = "M" /\ d[7] = "M"
      /\ Len(d) = 18 => d[3] = "V" /\ d[4] = "M" /\ d[6] = "1" /\ d[7] = "M"
      /\ Len(d) = 21 => d[3] = "." /\ d[4] = "." /\ d[8] = "M" /\ d[15] = "M"
  BY KindBytes
<1> DEFINE L == Len(tDeque)
           n == Len(d)
<1>2. L \in Nat /\ n <= L
  OBVIOUS
<1>3. CASE n = 3
  <2>1. tDeque[2] = "." /\ (L >= 4 => tDeque[4] \in {"F", "T"})
        /\ (L >= 8 => tDeque[8] # "M") /\ 3 <= L
    <3>1. 2 \in 1 .. n /\ n + 1 = 4
      BY <1>3
    <3> QED
      BY <1>1, <1>3, <3>1
  <2>2. ~Multi /\ ~Multi4 /\ ~MaybeMulti /\ ~FourDigits
    BY <1>2, <2>1 DEF Multi, Multi4, MaybeMulti, FourDigits, Has
  <2> QED
    BY <1>3, <2>2 DEF CommandLength, Sets4, Understood
<1>4. CASE n = 7
  <2>0. 1 \in 1 .. n /\ 2 \in 1 .. n /\ 4 \in 1 .. n /\ n + 1 = 8
    BY <1>4
  <2>1. tDeque[1] = "F" /\ tDeque[2] = "0" /\ tDeque[4] = "." /\ (L >= 8 => tDeque[8] \in {"F", "T"})
        /\ 7 <= L
    BY <1>1, <1>2, <1>4, <2>0
  <2>2. ~Multi /\ ~Multi4 /\ ~MaybeMulti /\ FourDigits
    BY <1>2, <2>1 DEF Multi, Multi4, MaybeMulti, FourDigits, Has
  <2> QED
    BY <1>4, <2>1, <2>2 DEF CommandLength, Understood
<1>5. CASE n = 9
  <2>0. 1 \in 1 .. n /\ 3 \in 1 .. n /\ 4 \in 1 .. n /\ 7 \in 1 .. n
    BY <1>5
  <2>1. tDeque[1] = "F" /\ tDeque[3] = "." /\ tDeque[4] = "M" /\ tDeque[7] = "M" /\ 9 <= L
    BY <1>1, <1>2, <1>5, <2>0
  <2>2. Multi /\ ~Variable
    BY <1>2, <2>1 DEF Multi, Variable, Has
  <2> QED
    BY <1>5, <2>1, <2>2 DEF CommandLength, Understood
<1>6. CASE n = 18
  <2>0. 1 \in 1 .. n /\ 3 \in 1 .. n /\ 4 \in 1 .. n /\ 6 \in 1 .. n /\ 7 \in 1 .. n
    BY <1>6
  <2>1. tDeque[1] = "F" /\ tDeque[3] = "V" /\ tDeque[4] = "M" /\ tDeque[6] = "1" /\ tDeque[7] = "M"
        /\ 18 <= L
    BY <1>1, <1>2, <1>6, <2>0
  <2>2. Multi /\ Variable /\ DataWords = 1
    BY <1>2, <2>1 DEF Multi, Variable, DataWords, Has
  <2>3. (5 + DataWords) * 3 = 18 /\ Has(18)
    BY <1>2, <2>1, <2>2 DEF Has
  <2> QED
    BY <1>6, <2>1, <2>2, <2>3 DEF CommandLength, Understood
<1>7. CASE n = 21
  <2>0. 1 \in 1 .. n /\ 3 \in 1 .. n /\ 4 \in 1 .. n /\ 8 \in 1 .. n /\ 15 \in 1 .. n
    BY <1>7
  <2>1. tDeque[1] = "F" /\ tDeque[3] = "." /\ tDeque[4] = "." /\ tDeque[8] = "M" /\ tDeque[15] = "M"
        /\ 21 <= L
    BY <1>1, <1>2, <1>7, <2>0
  <2>2. ~Multi /\ Multi4 /\ ~Variable
    BY <1>2, <2>1 DEF Multi, Multi4, Variable, Has
  <2> QED
    BY <1>7, <2>1, <2>2 DEF CommandLength, Understood
<1> QED
  BY <1>1, <1>3, <1>4, <1>5, <1>6, <1>7

\* The command in front has arrived as a whole once three bytes have.
LEMMA FrontHere ==
  ASSUME Distinct, CutInv, NEW k, k = Len(tOffered), NEW p, Aligned(Stream, tSent, k, p),
         p[k] = 0, k < Len(tSent), Len(tDeque) >= 3,
         NEW d, d = BytesOf(tSent[k + 1])
  PROVE  Len(d) <= Len(tDeque)
<1> DEFINE N == Len(tSent)
<1>1. CutTypes /\ LastArrives
  BY DEF CutInv
<1>2. /\ Stream \in Seq(TmccBytes) /\ Len(Stream) = Len(tDeque) + Len(tRest)
      /\ Len(tDeque) \in Nat /\ Len(tRest) \in Nat /\ N \in Nat /\ k \in Nat
      /\ tSent \in Seq(TmccKinds) /\ tRest \in Seq(TmccBytes)
  BY <1>1, StreamIs DEF CutTypes
<1>3. k \in 0 .. N
  BY <1>2
<1>4. /\ tSent[k + 1] \in TmccKinds /\ p[k + 1] = Len(d) /\ Len(d) <= Len(Stream)
  BY <1>2, <1>3, FrontCommand
<1>5. d \in Seq(TmccBytes) /\ Len(d) \in Nat
  BY <1>4, KindBytes
<1>6. CASE tRest = << >>
  BY <1>2, <1>4, <1>6
<1>7. CASE tRest # << >>
  <2>1. tSent[N] \in Short /\ Len(tRest) < 3
    BY <1>1, <1>7 DEF LastArrives
  <2>2. CASE k + 1 = N
    <3>1. Len(d) = 3
      BY <2>1, <2>2, ShortBytes
    <3> QED
      BY <3>1
  <2>3. CASE k + 1 < N
    <3>1. p \in [Nat -> Int] /\ p[N] = Len(Stream) /\ \A i, j \in k .. N : i <= j => p[i] <= p[j]
      BY DEF Aligned
    <3>2. \A i \in k + 1 .. N : p[i] = p[i - 1] + Len(BytesOf(tSent[i]))
      BY DEF Aligned
    <3>3. N \in k + 1 .. N /\ k + 1 \in k .. N /\ N - 1 \in k .. N /\ k + 1 <= N - 1 /\ N - 1 \in Nat
      BY <1>2, <2>3
    <3>4. Len(BytesOf(tSent[N])) = 3
      BY <2>1, ShortBytes
    <3>5. p[N] = p[N - 1] + 3
      BY <3>2, <3>3, <3>4
    <3>6. p[k + 1] <= p[N - 1] /\ p[N - 1] \in Int
      BY <3>1, <3>3
    <3>7. p[N] = Len(tDeque) + Len(tRest)
      BY <1>2, <3>1
    <3>8. Len(d) <= p[N - 1]
      BY <1>4, <3>6
    <3> QED
      BY <1>2, <1>5, <2>1, <3>5, <3>6, <3>7, <3>8
  <2> QED
    BY <1>2, <2>2, <2>3
<1> QED
  BY <1>6, <1>7

LEMMA ThreeOrMore ==
  ASSUME NEW x \in {3, 7, 9, 18, 21}
  PROVE  x \in Nat /\ 1 <= x /\ 3 <= x
OBVIOUS

LEMMA SplitAt ==
  ASSUME NEW c \in Seq(TmccBytes), NEW n \in 1 .. Len(c)
  PROVE  /\ SubSeq(c, 1, n) \in Seq(TmccBytes) /\ SubSeq(c, n + 1, Len(c)) \in Seq(TmccBytes)
         /\ Len(SubSeq(c, n + 1, Len(c))) = Len(c) - n
         /\ SubSeq(c, 1, n) \o SubSeq(c, n + 1, Len(c)) = c
<1> DEFINE u == SubSeq(c, 1, n)
           v == SubSeq(c, n + 1, Len(c))
<1>1. Len(c) \in Nat /\ n \in Nat /\ n <= Len(c)
  OBVIOUS
<1>2. u \in Seq(TmccBytes) /\ Len(u) = n /\ \A i \in 1 .. n : u[i] = c[i]
  BY <1>1
<1>3. v \in Seq(TmccBytes) /\ Len(v) = Len(c) - n /\ \A i \in 1 .. Len(c) - n : v[i] = c[n + i]
  BY <1>1
<1> HIDE DEF u, v
<1>4. u \o v \in Seq(TmccBytes) /\ Len(u \o v) = Len(c)
      /\ (\A i \in 1 .. Len(u) : (u \o v)[i] = u[i])
      /\ (\A i \in 1 .. Len(v) : (u \o v)[Len(u) + i] = v[i])
  <2>1. u \in Seq(TmccBytes) /\ v \in Seq(TmccBytes) /\ Len(u) + Len(v) = Len(c)
    BY <1>1, <1>2, <1>3
  <2> QED
    BY <2>1, Joined
<1>5. \A i \in 1 .. Len(c) : (u \o v)[i] = c[i]
  <2> TAKE i \in 1 .. Len(c)
  <2>1. CASE i <= n
    BY <1>1, <1>2, <1>4, <2>1
  <2>2. CASE ~(i <= n)
    <3>1. i - n \in 1 .. Len(c) - n /\ n + (i - n) = i
      BY <1>1, <2>2
    <3>2. (u \o v)[n + (i - n)] = c[n + (i - n)]
      BY <1>2, <1>3, <1>4, <3>1
    <3> QED
      BY <3>1, <3>2
  <2> QED
    BY <2>1, <2>2
<1>6. u \o v = c
  <2> DEFINE w == u \o v
  <2>1. w \in Seq(TmccBytes) /\ Len(w) = Len(c) /\ \A i \in 1 .. Len(c) : w[i] = c[i]
    BY <1>4, <1>5
  <2> HIDE DEF w
  <2>2. w = c
    BY <2>1
  <2> QED
    BY <2>2 DEF w
<1> QED
  BY <1>2, <1>3, <1>6 DEF u, v

LEMMA InARow ==
  ASSUME NEW a \in Seq(TmccBytes), NEW b \in Seq(TmccBytes), NEW c \in Seq(TmccBytes)
  PROVE  (a \o b) \o c = a \o (b \o c)
OBVIOUS

\* b is a without its first n bytes.
Dropped(a, b, n) ==
  /\ a \in Seq(TmccBytes) /\ b \in Seq(TmccBytes) /\ n \in Nat
  /\ n <= Len(a) /\ Len(b) = Len(a) - n /\ \A i \in 1 .. Len(b) : b[i] = a[i + n]

LEMMA TakenOff ==
  ASSUME NEW a, NEW b, NEW n, Dropped(a, b, n), NEW r \in Seq(TmccBytes)
  PROVE  Dropped(a \o r, b \o r, n)
<1>0. /\ a \in Seq(TmccBytes) /\ b \in Seq(TmccBytes) /\ n \in Nat
      /\ n <= Len(a) /\ Len(b) = Len(a) - n /\ \A i \in 1 .. Len(b) : b[i] = a[i + n]
  BY DEF Dropped
<1> USE <1>0
<1>1. Len(a) \in Nat /\ Len(b) \in Nat /\ Len(r) \in Nat
  OBVIOUS
<1>2. /\ a \o r \in Seq(TmccBytes) /\ Len(a \o r) = Len(a) + Len(r)
      /\ \A i \in 1 .. Len(a) : (a \o r)[i] = a[i]
      /\ \A i \in 1 .. Len(r) : (a \o r)[Len(a) + i] = r[i]
  BY Joined
<1>3. /\ b \o r \in Seq(TmccBytes) /\ Len(b \o r) = Len(b) + Len(r)
      /\ \A i \in 1 .. Len(b) : (b \o r)[i] = b[i]
      /\ \A i \in 1 .. Len(r) : (b \o r)[Len(b) + i] = r[i]
  BY Joined
<1>4. \A i \in 1 .. Len(b \o r) : (b \o r)[i] = (a \o r)[i + n]
  <2> TAKE i \in 1 .. Len(b \o r)
  <2>1. CASE i <= Len(b)
    BY <1>1, <1>2, <1>3, <2>1
  <2>2. CASE ~(i <= Len(b))
    <3>1. i - Len(b) \in 1 .. Len(r) /\ Len(b) + (i - Len(b)) = i /\ Len(a) + (i - Len(b)) = i + n
      BY <1>1, <1>3, <2>2
    <3>2. (b \o r)[Len(b) + (i - Len(b))] = r[i - Len(b)]
          /\ (a \o r)[Len(a) + (i - Len(b))] = r[i - Len(b)]
      BY <1>2, <1>3, <3>1
    <3> QED
      BY <3>1, <3>2
  <2> QED
    BY <2>1, <2>2
<1> QED
  BY <1>1, <1>2, <1>3, <1>4 DEF Dropped

LEMMA CutStart == TmccInit => CutInv
<1> SUFFICES ASSUME TmccInit PROVE CutInv
  OBVIOUS
<1>1. PICK n \in 0 .. 2 : tDeque = Dots(n)
  BY DEF TmccInit
<1>2. /\ tSent = << >> /\ tRest = << >> /\ tIs4 = FALSE /\ tOffered = << >>
  BY DEF TmccInit
<1>3. n \in Nat /\ tDeque \in Seq(TmccBytes) /\ Len(tDeque) = n /\ \A i \in 1 .. n : tDeque[i] = "."
  BY <1>1, DotsAre
<1>4. CutTypes /\ LastArrives /\ OfferedFirst
  BY <1>2, <1>3 DEF CutTypes, LastArrives, OfferedFirst
<1>5. Stream = tDeque
  BY <1>2, <1>3 DEF Stream
<1>6. Aligned(tDeque, << >>, 0, [i \in Nat |-> n])
  BY <1>3 DEF Aligned
<1>7. Len(tOffered) = 0
  BY <1>2
<1> QED
  BY <1>2, <1>4, <1>5, <1>6, <1>7 DEF CutInv

LEMMA CutArrive ==
  ASSUME Distinct, CutInv, NEW kind \in TmccKinds, Arrive(kind)
  PROVE  CutInv'
<1> DEFINE c == BytesOf(kind)
<1>1. CutTypes /\ OfferedFirst /\ tRest = << >> /\ tSent' = Append(tSent, kind)
      /\ tIs4' = tIs4 /\ tOffered' = tOffered
  BY DEF CutInv, Arrive
<1>2. c \in Seq(TmccBytes) /\ Len(c) \in Nat /\ Len(c) \in {3, 7, 9, 18, 21}
  BY KindBytes
<1>3. PICK n \in IF kind \in SplitKinds THEN DOMAIN c ELSE {Len(c)} :
        tDeque' = tDeque \o SubSeq(c, 1, n) /\ tRest' = SubSeq(c, n + 1, Len(c))
  BY DEF Arrive
<1>4. kind \in SplitKinds => kind \in Short /\ Len(c) = 3
  BY ShortBytes DEF Distinct
<1> HIDE DEF c
<1>a. DOMAIN c = 1 .. Len(c) /\ Len(c) \in 1 .. Len(c)
  <2>1. DOMAIN c = 1 .. Len(c)
    BY <1>2
  <2>2. 1 <= Len(c)
    BY <1>2, ThreeOrMore
  <2> QED
    BY <1>2, <2>1, <2>2
<1>5. n \in 1 .. Len(c)
  BY <1>3, <1>a
<1>6. tDeque \in Seq(TmccBytes) /\ tSent \in Seq(TmccKinds) /\ tOffered \in Seq(Seq(TmccBytes))
      /\ Len(tSent) \in Nat /\ Len(tOffered) \in Nat /\ Len(tOffered) <= Len(tSent) /\ tIs4 = FALSE
  BY <1>1 DEF CutTypes, OfferedFirst
<1>7. /\ SubSeq(c, 1, n) \in Seq(TmccBytes) /\ tRest' \in Seq(TmccBytes) /\ Len(tRest') = Len(c) - n
      /\ SubSeq(c, 1, n) \o tRest' = c
  <2>1. tRest' = SubSeq(c, n + 1, Len(c))
    BY <1>3
  <2> QED
    BY <1>2, <1>5, <2>1, SplitAt
<1>8. tSent' \in Seq(TmccKinds) /\ Len(tSent') = Len(tSent) + 1 /\ tSent'[Len(tSent) + 1] = kind
      /\ \A i \in 1 .. Len(tSent) : tSent'[i] = tSent[i]
  BY <1>1, <1>6
<1>9. CutTypes'
  <2>1. tDeque' \in Seq(TmccBytes)
    BY <1>3, <1>6, <1>7
  <2> QED
    BY <1>1, <1>6, <1>7, <1>8, <2>1 DEF CutTypes
<1>10. LastArrives'
  <2> SUFFICES ASSUME tRest' # << >>
               PROVE  /\ Len(tOffered') < Len(tSent') /\ tSent'[Len(tSent')] \in Short /\ Len(tRest') < 3
    BY DEF LastArrives
  <2>1. Len(tRest') # 0
    BY <1>7
  <2>2. kind \in SplitKinds
    BY <1>2, <1>3, <1>7, <2>1
  <2>3. kind \in Short /\ Len(c) = 3
    BY <1>4, <2>2
  <2>4. Len(tRest') < 3
    BY <1>5, <1>7, <2>3
  <2> QED
    BY <1>1, <1>6, <1>8, <2>3, <2>4
<1>11. OfferedFirst'
  <2>1. \A i \in 1 .. Len(tOffered) : tOffered[i] = BytesOf(tSent[i])
    BY <1>1 DEF OfferedFirst
  <2>2. \A i \in 1 .. Len(tOffered) : tSent'[i] = tSent[i]
    BY <1>6, <1>8
  <2> QED
    BY <1>1, <1>6, <1>8, <2>1, <2>2 DEF OfferedFirst
<1>12. Stream' = Stream \o c
  <2>1. Stream = tDeque
    BY <1>1, <1>6 DEF Stream
  <2> DEFINE u == SubSeq(c, 1, n)
             v == tRest'
  <2>2. Stream' = (tDeque \o u) \o v
    BY <1>3 DEF Stream
  <2>3. u \in Seq(TmccBytes) /\ v \in Seq(TmccBytes) /\ u \o v = c
    BY <1>7
  <2> HIDE DEF u, v
  <2>4. (tDeque \o u) \o v = tDeque \o (u \o v)
    BY <1>6, <2>3, InARow
  <2> QED
    BY <2>1, <2>2, <2>3, <2>4
<1>13. \E q : Aligned(Stream', tSent', Len(tOffered'), q)
  <2>1. PICK p : Aligned(Stream, tSent, Len(tOffered), p)
    BY DEF CutInv
  <2>2. Stream \in Seq(TmccBytes) /\ Len(tOffered) \in 0 .. Len(tSent)
    BY <1>1, <1>6, StreamIs
  <2>3. \E q : Aligned(Stream \o BytesOf(kind), Append(tSent, kind), Len(tOffered), q)
    BY <1>6, <2>1, <2>2, AlignedGrows
  <2> QED
    BY <1>1, <1>12, <2>3 DEF c
<1> QED
  BY <1>9, <1>10, <1>11, <1>13 DEF CutInv

LEMMA CutArriveRest ==
  ASSUME CutInv, ArriveRest
  PROVE  CutInv'
<1>1. CutTypes /\ OfferedFirst /\ tDeque' = tDeque \o tRest /\ tRest' = << >>
      /\ tSent' = tSent /\ tIs4' = tIs4 /\ tOffered' = tOffered
  BY DEF CutInv, ArriveRest
<1>2. tDeque \in Seq(TmccBytes) /\ tRest \in Seq(TmccBytes) /\ tDeque' \in Seq(TmccBytes)
  BY <1>1 DEF CutTypes
<1>3. CutTypes' /\ LastArrives' /\ OfferedFirst'
  BY <1>1, <1>2 DEF CutTypes, LastArrives, OfferedFirst
<1>4. Stream' = Stream
  BY <1>1, <1>2 DEF Stream
<1>5. \E p : Aligned(Stream', tSent', Len(tOffered'), p)
  BY <1>1, <1>4 DEF CutInv
<1> QED
  BY <1>3, <1>5 DEF CutInv

\* When three bytes are there and the first starts a command, the next command is in front
\* of the deque, whole, and the pass takes just its bytes.
LEMMA WholeInFront ==
  ASSUME Distinct, CutInv, Len(tDeque) >= 3, tDeque[1] \in {"F", "T"},
         NEW k, k = Len(tOffered), NEW p, Aligned(Stream, tSent, k, p), NEW d, d = BytesOf(tSent[k + 1])
  PROVE  /\ p[k] = 0 /\ k < Len(tSent)
         /\ tSent[k + 1] \in TmccKinds /\ p[k + 1] = Len(d)
         /\ Len(Stream) >= Len(d) + 1 => k + 1 < Len(tSent)
         /\ d \in Seq(TmccBytes) /\ Len(d) \in Nat /\ Len(d) >= 3 /\ Len(d) <= Len(tDeque)
         /\ \A j \in 1 .. Len(d) : tDeque[j] = d[j]
         /\ CommandLength = Len(d) /\ Understood(Sets4)
<1>1. Aligned(Stream, tSent, k, p)
  OBVIOUS
<1>2. CutTypes /\ OfferedFirst /\ LastArrives
  BY DEF CutInv
<1>3. /\ Stream \in Seq(TmccBytes) /\ Len(Stream) = Len(tDeque) + Len(tRest)
      /\ Len(tDeque) \in Nat /\ Len(tRest) \in Nat /\ Len(tSent) \in Nat /\ k \in Nat
      /\ \A i \in 1 .. Len(tDeque) : Stream[i] = tDeque[i]
  BY <1>2, StreamIs
<1>4. tDeque \in Seq(TmccBytes) /\ tRest \in Seq(TmccBytes) /\ tSent \in Seq(TmccKinds)
      /\ tOffered \in Seq(Seq(TmccBytes)) /\ tIs4 = FALSE
  BY <1>2 DEF CutTypes
<1>5. Len(tDeque) >= 3 /\ tDeque[1] \in {"F", "T"}
  OBVIOUS
<1>6. k \in 0 .. Len(tSent)
  BY <1>2, <1>3 DEF OfferedFirst
<1>7. Stream # << >> /\ Stream[1] \in {"F", "T"}
  BY <1>3, <1>5
<1>8. p[k] = 0 /\ k < Len(tSent)
  BY <1>1, <1>3, <1>4, <1>6, <1>7, FrontIs
<1>d. d = BytesOf(tSent[k + 1])
  OBVIOUS
<1>9. /\ tSent[k + 1] \in TmccKinds /\ p[k + 1] = Len(d) /\ Len(d) <= Len(Stream)
      /\ \A j \in 1 .. Len(d) : Stream[j] = d[j]
      /\ Len(Stream) >= Len(d) + 1 => k + 1 < Len(tSent) /\ Stream[Len(d) + 1] \in {"F", "T"}
      /\ Len(d) = 3 /\ Len(Stream) >= 8 => Stream[8] # "M"
  <2> DEFINE s == Stream
  <2>1. s \in Seq(TmccBytes) /\ tSent \in Seq(TmccKinds) /\ k \in 0 .. Len(tSent)
        /\ Aligned(s, tSent, k, p) /\ p[k] = 0 /\ k < Len(tSent) /\ d = BytesOf(tSent[k + 1])
    BY <1>1, <1>3, <1>4, <1>6, <1>8, <1>d
  <2> HIDE DEF s
  <2>2. /\ tSent[k + 1] \in TmccKinds /\ p[k + 1] = Len(d) /\ Len(d) <= Len(s)
        /\ \A j \in 1 .. Len(d) : s[j] = d[j]
        /\ Len(s) >= Len(d) + 1 => k + 1 < Len(tSent) /\ s[Len(d) + 1] \in {"F", "T"}
        /\ Len(d) = 3 /\ Len(s) >= 8 => s[8] # "M"
    BY ONLY Distinct, <2>1, FrontCommand
  <2> QED
    BY <2>2 DEF s
<1>10. Len(d) <= Len(tDeque)
  BY <1>1, <1>5, <1>8, <1>d, FrontHere
<1>e. d \in Seq(TmccBytes) /\ Len(d) \in {3, 7, 9, 18, 21}
  BY <1>9, <1>d, KindBytes
<1>11. d \in Seq(TmccBytes) /\ Len(d) \in Nat /\ Len(d) >= 3
  BY <1>e, ThreeOrMore
<1>12. \A j \in 1 .. Len(d) : tDeque[j] = d[j]
  BY <1>3, <1>9, <1>10, <1>11
<1>13. Len(tDeque) >= Len(d) + 1 => tDeque[Len(d) + 1] \in {"F", "T"}
  BY <1>3, <1>9, <1>11
<1>14. Len(d) = 3 /\ Len(tDeque) >= 8 => tDeque[8] # "M"
  BY <1>3, <1>9
<1>15. CommandLength = Len(d) /\ Understood(Sets4)
  BY <1>4, <1>9, <1>10, <1>12, <1>13, <1>14, <1>d, CutsRight
<1> QED
  BY <1>8, <1>9, <1>10, <1>11, <1>12, <1>15

LEMMA CutCut ==
  ASSUME Distinct, CutInv, Cut
  PROVE  CutInv'
<1> DEFINE k == Len(tOffered)
           d == BytesOf(tSent[k + 1])
<1>1. PICK p : Aligned(Stream, tSent, k, p)
  BY DEF CutInv
<1>2. CutTypes /\ OfferedFirst /\ LastArrives
  BY DEF CutInv
<1>3. /\ Stream \in Seq(TmccBytes) /\ Len(Stream) = Len(tDeque) + Len(tRest)
      /\ Len(tDeque) \in Nat /\ Len(tRest) \in Nat /\ Len(tSent) \in Nat /\ k \in Nat
      /\ \A i \in 1 .. Len(tDeque) : Stream[i] = tDeque[i]
  BY <1>2, StreamIs
<1>4. tDeque \in Seq(TmccBytes) /\ tRest \in Seq(TmccBytes) /\ tSent \in Seq(TmccKinds)
      /\ tOffered \in Seq(Seq(TmccBytes)) /\ tIs4 = FALSE
  BY <1>2 DEF CutTypes
<1>5. Len(tDeque) >= 3 /\ tDeque[1] \in {"F", "T"}
  BY DEF Cut, Has, FirstByte
<1>6. k \in 0 .. Len(tSent)
  BY <1>2, <1>3 DEF OfferedFirst
<1> HIDE DEF k
<1>d. d = BytesOf(tSent[k + 1])
  OBVIOUS
<1> HIDE DEF d
<1>9. /\ p[k] = 0 /\ k < Len(tSent) /\ p[k + 1] = Len(d)
      /\ Len(Stream) >= Len(d) + 1 => k + 1 < Len(tSent)
      /\ d \in Seq(TmccBytes) /\ Len(d) \in Nat /\ Len(d) >= 3 /\ Len(d) <= Len(tDeque)
      /\ \A j \in 1 .. Len(d) : tDeque[j] = d[j]
      /\ CommandLength = Len(d) /\ Understood(Sets4)
  BY <1>1, <1>5, <1>d, WholeInFront DEF k
<1>16. /\ tOffered' = Append(tOffered, SubSeq(tDeque, 1, CommandLength)) /\ tIs4' = FALSE
       /\ tDeque' = SubSeq(tDeque, CommandLength + 1, Len(tDeque))
       /\ tSent' = tSent /\ tRest' = tRest
  <2>2. Understood(tIs4 \/ Sets4)
    BY <1>4, <1>9 DEF Understood
  <2> QED
    BY <2>2 DEF Cut, AfterOffer
<1>17. SubSeq(tDeque, 1, Len(d)) = d
  BY <1>4, <1>9
<1>18. tOffered' = Append(tOffered, d) /\ Len(tOffered') = k + 1
  BY <1>4, <1>9, <1>16, <1>17 DEF k
<1>19. tDeque' \in Seq(TmccBytes) /\ Len(tDeque') = Len(tDeque) - Len(d)
       /\ \A i \in 1 .. Len(tDeque') : tDeque'[i] = tDeque[i + Len(d)]
  <2>1. tDeque' = SubSeq(tDeque, Len(d) + 1, Len(tDeque))
    BY <1>9, <1>16
  <2>2. Len(d) \in Nat /\ Len(d) >= 3 /\ Len(d) <= Len(tDeque)
    BY <1>9
  <2> QED
    BY <1>4, <1>3, <2>1, <2>2
<1>20. CutTypes'
  <2>1. tOffered' \in Seq(Seq(TmccBytes))
    BY <1>4, <1>9, <1>18
  <2> QED
    BY <1>4, <1>16, <1>19, <2>1 DEF CutTypes
<1>21. LastArrives'
  <2> SUFFICES ASSUME tRest # << >>
               PROVE  k + 1 < Len(tSent) /\ tSent[Len(tSent)] \in Short /\ Len(tRest) < 3
    BY <1>16, <1>18 DEF LastArrives
  <2>1. tSent[Len(tSent)] \in Short /\ Len(tRest) < 3
    BY <1>2 DEF LastArrives
  <2>2. Len(tRest) # 0
    BY <1>4
  <2>3. Len(Stream) >= Len(d) + 1
    BY <1>3, <1>9, <2>2
  <2> QED
    BY <1>9, <2>1, <2>3
<1>22. OfferedFirst'
  <2>1. \A i \in 1 .. k : tOffered[i] = BytesOf(tSent[i])
    BY <1>2 DEF OfferedFirst, k
  <2>2. \A i \in 1 .. k : tOffered'[i] = tOffered[i]
    BY <1>4, <1>18 DEF k
  <2>3. tOffered'[k + 1] = d
    BY <1>4, <1>18 DEF k
  <2>4. \A i \in 1 .. k + 1 : tOffered'[i] = BytesOf(tSent[i])
    BY <1>3, <1>d, <2>1, <2>2, <2>3
  <2> QED
    BY SMTT(60), <1>3, <1>9, <1>16, <1>18, <2>4 DEF OfferedFirst
<1>23. Stream' \in Seq(TmccBytes) /\ Len(Stream') = Len(Stream) - Len(d)
       /\ \A i \in 1 .. Len(Stream') : Stream'[i] = Stream[i + Len(d)]
  <2>1. Stream = tDeque \o tRest /\ Stream' = tDeque' \o tRest
    BY <1>16 DEF Stream
  <2>2. tRest \in Seq(TmccBytes) /\ tDeque \in Seq(TmccBytes) /\ tDeque' \in Seq(TmccBytes)
    BY <1>4, <1>19
  <2>4. /\ Len(d) \in Nat /\ Len(d) <= Len(tDeque) /\ Len(tDeque') = Len(tDeque) - Len(d)
        /\ \A i \in 1 .. Len(tDeque') : tDeque'[i] = tDeque[i + Len(d)]
    BY <1>9, <1>19
  <2>3. /\ tDeque' \o tRest \in Seq(TmccBytes) /\ Len(tDeque' \o tRest) = Len(tDeque \o tRest) - Len(d)
        /\ \A i \in 1 .. Len(tDeque' \o tRest) : (tDeque' \o tRest)[i] = (tDeque \o tRest)[i + Len(d)]
    <3>1. Dropped(tDeque, tDeque', Len(d))
      BY <2>2, <2>4 DEF Dropped
    <3>2. Dropped(tDeque \o tRest, tDeque' \o tRest, Len(d))
      BY ONLY <2>2, <3>1, TakenOff
    <3> QED
      BY ONLY <3>2 DEF Dropped
  <2> QED
    BY <2>1, <2>3
<1>24. \E q : Aligned(Stream', tSent, k + 1, q)
  <2>1. k + 1 \in k .. Len(tSent) /\ p[k + 1] - Len(d) = 0 /\ Len(d) <= p[k + 1]
    BY <1>3, <1>9
  <2> DEFINE n == Len(d)
             m == k + 1
             s == Stream
             t == Stream'
  <2>2. /\ s \in Seq(TmccBytes) /\ tSent \in Seq(TmccKinds) /\ k \in 0 .. Len(tSent)
        /\ Aligned(s, tSent, k, p) /\ m \in k .. Len(tSent) /\ n \in Nat
        /\ n <= p[m] /\ p[m] - n = 0
        /\ t \in Seq(TmccBytes) /\ Len(t) = Len(s) - n /\ \A i \in 1 .. Len(t) : t[i] = s[i + n]
    BY <1>1, <1>3, <1>4, <1>6, <1>9, <1>23, <2>1
  <2> HIDE DEF n, m, s, t
  <2>3. p[m] - n <= 2 /\ \A i \in 1 .. p[m] - n : s[i + n] = "."
    BY <2>2
  <2>5. Shifted(s, tSent, k, p, m, n, t)
    BY <2>2, <2>3 DEF Shifted
  <2>4. \E q : Aligned(t, tSent, m, q)
    BY <2>5, ShiftedAligned
  <2> QED
    BY <2>4 DEF t, m
<1> QED
  BY <1>16, <1>18, <1>20, <1>21, <1>22, <1>24 DEF CutInv

LEMMA CutIgnore ==
  ASSUME Distinct, CutInv, IgnoreByte
  PROVE  CutInv'
<1> DEFINE k == Len(tOffered)
<1>1. PICK p : Aligned(Stream, tSent, k, p)
  BY DEF CutInv
<1>2. CutTypes /\ OfferedFirst /\ LastArrives
  BY DEF CutInv
<1>3. /\ Stream \in Seq(TmccBytes) /\ Len(Stream) = Len(tDeque) + Len(tRest)
      /\ Len(tDeque) \in Nat /\ Len(tRest) \in Nat /\ Len(tSent) \in Nat /\ k \in Nat
      /\ \A i \in 1 .. Len(tDeque) : Stream[i] = tDeque[i]
  BY <1>2, StreamIs
<1>4. tDeque \in Seq(TmccBytes) /\ tRest \in Seq(TmccBytes) /\ tSent \in Seq(TmccKinds)
  BY <1>2 DEF CutTypes
<1>5. Len(tDeque) >= 3 /\ tDeque[1] \notin {"F", "T"}
  BY DEF IgnoreByte, Has, FirstByte
<1>6. k \in 0 .. Len(tSent)
  BY <1>2, <1>3 DEF OfferedFirst
<1>7. Stream # << >> /\ Stream[1] \notin {"F", "T"}
  BY <1>3, <1>5
<1>8. 1 <= p[k]
  BY <1>1, <1>3, <1>4, <1>6, <1>7, FrontIs
<1>9. tDeque' = Tail(tDeque) /\ tSent' = tSent /\ tRest' = tRest /\ tIs4' = tIs4 /\ tOffered' = tOffered
  BY DEF IgnoreByte
<1>10. tDeque' \in Seq(TmccBytes) /\ Len(tDeque') = Len(tDeque) - 1
       /\ \A i \in 1 .. Len(tDeque') : tDeque'[i] = tDeque[i + 1]
  BY <1>3, <1>4, <1>5, <1>9
<1>11. CutTypes' /\ LastArrives' /\ OfferedFirst'
  BY <1>2, <1>9, <1>10 DEF CutTypes, LastArrives, OfferedFirst
<1>12. Stream' \in Seq(TmccBytes) /\ Len(Stream') = Len(Stream) - 1
       /\ \A i \in 1 .. Len(Stream') : Stream'[i] = Stream[i + 1]
  <2>1. Stream = tDeque \o tRest /\ Stream' = tDeque' \o tRest
    BY <1>9 DEF Stream
  <2>2. 1 \in Nat /\ 1 <= Len(tDeque)
    BY <1>5
  <2>3. /\ tDeque' \o tRest \in Seq(TmccBytes) /\ Len(tDeque' \o tRest) = Len(tDeque \o tRest) - 1
        /\ \A i \in 1 .. Len(tDeque' \o tRest) : (tDeque' \o tRest)[i] = (tDeque \o tRest)[i + 1]
    <3>1. Dropped(tDeque, tDeque', 1)
      BY <1>4, <1>10, <2>2 DEF Dropped
    <3>2. Dropped(tDeque \o tRest, tDeque' \o tRest, 1)
      BY ONLY <1>4, <3>1, TakenOff
    <3> QED
      BY ONLY <3>2 DEF Dropped
  <2> QED
    BY <2>1, <2>3
<1>13. p \in [Nat -> Int] /\ p[k] <= 2 /\ \A i \in 1 .. p[k] : Stream[i] = "."
  BY <1>1 DEF Aligned
<1>14. \E q : Aligned(Stream', tSent, k, q)
  <2> DEFINE s == Stream
             t == Stream'
  <2>1. p[k] \in Int /\ p[k] - 1 <= 2 /\ k \in k .. Len(tSent)
    BY <1>3, <1>6, <1>13
  <2>2. \A i \in 1 .. p[k] - 1 : s[i + 1] = "."
    <3> TAKE i \in 1 .. p[k] - 1
    <3>1. i + 1 \in 1 .. p[k]
      BY <2>1
    <3> QED
      BY <1>13, <3>1
  <2>3. /\ s \in Seq(TmccBytes) /\ Aligned(s, tSent, k, p)
        /\ t \in Seq(TmccBytes) /\ Len(t) = Len(s) - 1 /\ \A i \in 1 .. Len(t) : t[i] = s[i + 1]
    BY <1>1, <1>3, <1>12
  <2> HIDE DEF s, t, k
  <2>5. Shifted(s, tSent, k, p, k, 1, t)
    BY <1>4, <1>6, <1>8, <2>1, <2>2, <2>3 DEF Shifted
  <2>4. \E q : Aligned(t, tSent, k, q)
    BY <2>5, ShiftedAligned
  <2> QED
    BY <2>4 DEF t
<1> QED
  BY <1>9, <1>11, <1>14 DEF CutInv

LEMMA CutStep == ASSUME Distinct PROVE CutInv /\ [TmccNext]_tmccVars => CutInv'
<1> SUFFICES ASSUME CutInv, [TmccNext]_tmccVars PROVE CutInv'
  OBVIOUS
<1>1. ASSUME NEW kind \in TmccKinds, Arrive(kind) PROVE CutInv'
  BY <1>1, CutArrive
<1>2. CASE ArriveRest
  BY <1>2, CutArriveRest
<1>3. CASE Cut
  BY <1>3, CutCut
<1>4. CASE IgnoreByte
  BY <1>4, CutIgnore
<1>5. CASE AwaitBytes \/ UNCHANGED tmccVars
  <2>1. /\ tSent' = tSent /\ tRest' = tRest /\ tDeque' = tDeque
        /\ tIs4' = tIs4 /\ tOffered' = tOffered
    BY <1>5 DEF AwaitBytes, tmccVars
  <2> QED
    BY <2>1 DEF CutInv, CutTypes, LastArrives, OfferedFirst, Stream
<1> QED
  BY <1>1, <1>2, <1>3, <1>4, <1>5 DEF TmccNext, ListenerStep

\* For any commands that can be told apart, in any number and any order: what the
\* dispatcher is offered is what was kinds first, command by command.
THEOREM WholeCommands == ASSUME Distinct PROVE TmccSpec => []CommandsComeOutWhole
<1>1. TmccInit => CutInv
  BY CutStart
<1>2. CutInv /\ [TmccNext]_tmccVars => CutInv'
  BY CutStep
<1>3. CutInv => CommandsComeOutWhole
  BY InvMeans
<1> QED
  BY <1>1, <1>2, <1>3, PTL DEF TmccSpec

\* The deque holds bytes; the listener waits only when it is empty.
THEOREM ListenerTypeCorrect == ASSUME Distinct PROVE TmccSpec => []TmccTypeOK
<1>1. TmccInit => TmccTypeOK /\ CutInv
  <2> SUFFICES ASSUME TmccInit PROVE TmccTypeOK
    BY CutStart
  <2>1. CutInv
    BY CutStart
  <2>2. tSent \in Seq(TmccKinds) /\ tDeque \in Seq({"F", "T", "M", "V", "0", "1", "."})
        /\ tIs4 \in BOOLEAN
    BY <2>1 DEF CutInv, CutTypes, TmccBytes
  <2>3. Len(tSent) <= TmccSends
    BY TmccConstants DEF TmccInit
  <2>4. tPlace = "run"
    BY DEF TmccInit
  <2> QED
    BY <2>1, <2>2, <2>3, <2>4 DEF TmccTypeOK
<1>2. TmccTypeOK /\ CutInv /\ CutInv' /\ [TmccNext]_tmccVars => TmccTypeOK'
  <2> SUFFICES ASSUME TmccTypeOK, CutInv, CutInv', [TmccNext]_tmccVars PROVE TmccTypeOK'
    OBVIOUS
  <2>1. /\ tSent' \in Seq(TmccKinds) /\ tDeque' \in Seq({"F", "T", "M", "V", "0", "1", "."})
        /\ tIs4' \in BOOLEAN
    BY DEF CutInv, CutTypes, TmccBytes
  <2>2. tSent \in Seq(TmccKinds) /\ Len(tSent) <= TmccSends /\ TmccSends \in Nat
        /\ tPlace \in {"run", "wait"} /\ (tPlace = "wait" => tDeque = << >>)
    BY TmccConstants DEF TmccTypeOK
  <2>3. Len(tSent') <= TmccSends /\ tPlace' \in {"run", "wait"} /\ (tPlace' = "wait" => tDeque' = << >>)
    <3>1. ASSUME NEW kind \in TmccKinds, Arrive(kind)
          PROVE  Len(tSent') <= TmccSends /\ tPlace' = "run"
      <4>1. Len(tSent) < TmccSends /\ tSent' = Append(tSent, kind) /\ tPlace' = "run"
        BY <3>1 DEF Arrive
      <4> QED
        BY <2>2, <4>1
    <3>2. CASE ArriveRest \/ Cut \/ IgnoreByte \/ AwaitBytes \/ UNCHANGED tmccVars
      <4>1. tSent' = tSent
        BY <3>2 DEF ArriveRest, Cut, IgnoreByte, AwaitBytes, tmccVars
      <4>2. CASE ArriveRest
        BY <2>2, <4>1, <4>2 DEF ArriveRest
      <4>3. CASE Cut \/ IgnoreByte
        <5>1. tPlace' = "run"
          BY <4>3 DEF Cut, IgnoreByte
        <5> QED
          BY <2>2, <4>1, <5>1
      <4>4. CASE AwaitBytes
        BY <2>2, <4>1, <4>4 DEF AwaitBytes
      <4>5. CASE UNCHANGED tmccVars
        BY <2>2, <4>5 DEF tmccVars
      <4> QED
        BY <3>2, <4>2, <4>3, <4>4, <4>5
    <3> QED
      BY <3>1, <3>2 DEF TmccNext, ListenerStep
  <2> QED
    BY <2>1, <2>3 DEF TmccTypeOK
<1>3. CutInv /\ [TmccNext]_tmccVars => CutInv'
  BY CutStep
<1> QED
  BY <1>1, <1>2, <1>3, PTL DEF TmccSpec

LEMMA CanBeCut ==
  ASSUME Distinct, CutInv, TmccTypeOK
  PROVE  CommandsCanBeCut
<1> SUFFICES ASSUME tRest = << >>, Len(tOffered) < Len(tSent)
             PROVE  tPlace = "run" /\ Has(3) /\ (FirstByte => CommandLength > 0)
  BY DEF CommandsCanBeCut
<1> DEFINE k == Len(tOffered)
           N == Len(tSent)
           d == BytesOf(tSent[k + 1])
<1>1. PICK p : Aligned(Stream, tSent, k, p)
  BY DEF CutInv
<1>2. /\ Stream \in Seq(TmccBytes) /\ Len(Stream) = Len(tDeque) + Len(tRest) /\ Len(tRest) = 0
      /\ Len(tDeque) \in Nat /\ N \in Nat /\ k \in Nat /\ tSent \in Seq(TmccKinds)
  BY StreamIs DEF CutInv, CutTypes
<1>3. k + 1 \in k + 1 .. N /\ N \in k .. N /\ k + 1 \in k .. N /\ k + 1 - 1 = k /\ k + 1 \in Nat
  BY <1>2
<1>4. d \in Seq(TmccBytes) /\ Len(d) \in {3, 7, 9, 18, 21}
  BY <1>2, <1>3, KindBytes
<1>5. /\ p[k] \in Int /\ p[k + 1] \in Int /\ 0 <= p[k] /\ p[N] = Len(Stream)
      /\ p[k + 1] = p[k] + Len(d) /\ p[k + 1] <= p[N]
  <2>1. /\ p \in [Nat -> Int] /\ 0 <= p[k] /\ p[N] = Len(Stream)
        /\ \A i, j \in k .. N : i <= j => p[i] <= p[j]
        /\ \A i \in k + 1 .. N : p[i] = p[i - 1] + Len(BytesOf(tSent[i]))
    BY <1>1 DEF Aligned
  <2>2. k + 1 <= N
    BY <1>2
  <2>3. p[k] \in Int /\ p[k + 1] \in Int
    BY <1>2, <1>3, <2>1
  <2>4. p[k + 1] = p[k + 1 - 1] + Len(BytesOf(tSent[k + 1]))
    BY SMTT(60), <1>3, <2>1
  <2>5. p[k + 1 - 1] = p[k]
    BY <1>3
  <2>6. p[k + 1] <= p[N]
    BY <1>3, <2>1, <2>2
  <2> QED
    BY <2>1, <2>3, <2>4, <2>5, <2>6
<1>e. Len(d) \in Nat /\ Len(d) >= 3
  BY <1>4, ThreeOrMore
<1> HIDE DEF d, N, k
<1>6. Len(tDeque) >= 3
  BY <1>2, <1>5, <1>e
<1>7. tPlace = "run"
  BY <1>6 DEF TmccTypeOK
<1>8. ASSUME FirstByte PROVE CommandLength > 0
  <2>1. tDeque[1] \in {"F", "T"}
    BY <1>8 DEF FirstByte
  <2>2. CommandLength = Len(d)
    BY <1>1, <1>6, <2>1, WholeInFront DEF d, k
  <2> QED
    BY <1>4, <2>2
<1> QED
  BY <1>6, <1>7, <1>8 DEF Has

\* The listener neither sleeps nor spins on a command that has arrived, whatever stands behind
\* it in the deque: every pass takes bytes off until all are offered (CommandListener.run).
THEOREM ArrivedCommandsAreCut == ASSUME Distinct PROVE TmccSpec => []CommandsCanBeCut
<1>1. TmccInit => CutInv
  BY CutStart
<1>2. CutInv /\ [TmccNext]_tmccVars => CutInv'
  BY CutStep
<1>3. CutInv /\ TmccTypeOK => CommandsCanBeCut
  BY CanBeCut
<1> QED
  BY <1>1, <1>2, <1>3, ListenerTypeCorrect, PTL DEF TmccSpec

-----------------------------------------------------------------------------
(* PDI: functions computed byte by byte                                    *)

LEMMA NatMin ==
  ASSUME NEW T \in SUBSET Nat, T # {}
  PROVE \E x \in T : \A y \in T : x <= y
<1>1. \E R : IsWellFoundedOn(R, Nat) /\ \A x, y \in Nat : x < y => <<x, y>> \in R
  <2>1. IsWellFoundedOn(OpToRel(<,Nat), Nat)
    BY NatLessThanWellFounded
  <2>2. \A x, y \in Nat : x < y => <<x, y>> \in OpToRel(<,Nat)
    BY Zenon DEF OpToRel
  <2> WITNESS OpToRel(<,Nat)
  <2> QED
    BY <2>1, <2>2
<1>2. PICK R : IsWellFoundedOn(R, Nat) /\ \A x, y \in Nat : x < y => <<x, y>> \in R
  BY <1>1
<1>0. T \subseteq Nat
  OBVIOUS
<1>a. IsWellFoundedOn(R, Nat)
  BY <1>2
<1>3. PICK x \in T : \A y \in T : ~ (<<y, x>> \in R)
  BY <1>0, <1>a, WFMin
<1>4. \A y \in T : x <= y
  <2> TAKE y \in T
  <2>1. x \in Nat /\ y \in Nat
    BY <1>0
  <2>2. ~(y < x)
    BY <1>2, <1>3, <2>1
  <2> QED
    BY <2>1, <2>2
<1> QED BY <1>4

\* Induction: a set of numbers with 0 and with every successor up to N has all of them.
LEMMA UpTo ==
  ASSUME NEW N \in Nat, NEW P, 0 \in P, \A n \in 0 .. N : n # 0 /\ n - 1 \in P => n \in P
  PROVE  \A n \in 0 .. N : n \in P
<1> DEFINE T == {n \in 0 .. N : n \notin P}
<1> SUFFICES ASSUME T # {} PROVE FALSE
  OBVIOUS
<1>1. T \in SUBSET Nat
  OBVIOUS
<1>2. PICK x \in T : \A y \in T : x <= y
  BY <1>1, NatMin
<1>3. x \in 0 .. N /\ x # 0 /\ x \notin P
  OBVIOUS
<1>4. x - 1 \in 0 .. N /\ ~(x <= x - 1)
  BY <1>3
<1>5. x - 1 \notin T
  BY <1>2, <1>4
<1> QED
  BY <1>3, <1>4, <1>5

-----------------------------------------------------------------------------
\* A function can be built step by step: R holds the steps, from X to X.
Steppable(N, X, base, R) ==
  N \in Nat /\ base \in X /\ \A i \in 1 .. N : \A x \in X : \E y \in X : <<i, x, y>> \in R

LEMMA StepByStep ==
  ASSUME NEW N, NEW X, NEW base, NEW R, Steppable(N, X, base, R)
  PROVE  \E f \in [0 .. N -> X] : f[0] = base /\ \A i \in 1 .. N : <<i, f[i - 1], f[i]>> \in R
<1>0. N \in Nat /\ base \in X /\ \A i \in 1 .. N : \A x \in X : \E y \in X : <<i, x, y>> \in R
  BY DEF Steppable
<1> USE <1>0
<1> DEFINE F(f, n) == /\ f \in [0 .. n -> X] /\ f[0] = base
                      /\ \A i \in 1 .. n : <<i, f[i - 1], f[i]>> \in R
           P == {n \in 0 .. N : \E f : F(f, n)}
<1>1. 0 \in P
  <2>1. F([i \in 0 .. 0 |-> base], 0)
    OBVIOUS
  <2>2. \E f : F(f, 0)
    BY <2>1
  <2> HIDE DEF F
  <2> QED
    BY <2>2
<1>2. ASSUME NEW n \in 0 .. N, n # 0, n - 1 \in P PROVE n \in P
  <2>1. PICK f : F(f, n - 1)
    BY <1>2
  <2>2. n \in 1 .. N /\ n - 1 \in 0 .. n - 1 /\ 0 \in 0 .. n - 1
    BY <1>2
  <2>3. PICK y \in X : <<n, f[n - 1], y>> \in R
    BY <2>1, <2>2
  <2> DEFINE g == [i \in 0 .. n |-> IF i = n THEN y ELSE f[i]]
  <2>4. g \in [0 .. n -> X] /\ g[0] = base /\ g[n] = y /\ \A i \in 0 .. n - 1 : g[i] = f[i]
    BY <2>1, <2>2
  <2> HIDE DEF g
  <2>5. \A i \in 1 .. n : <<i, g[i - 1], g[i]>> \in R
    <3> TAKE i \in 1 .. n
    <3>1. CASE i = n
      BY <2>2, <2>3, <2>4, <3>1
    <3>2. CASE i # n
      <4>1. i \in 1 .. n - 1 /\ i \in 0 .. n - 1 /\ i - 1 \in 0 .. n - 1
        BY <2>2, <3>2
      <4> QED
        BY <2>1, <2>4, <4>1
    <3> QED
      BY <3>1, <3>2
  <2>6. \E h : F(h, n)
    BY <2>4, <2>5
  <2> HIDE DEF F
  <2> QED
    BY <2>6
<1>3. N \in P
  <2> HIDE DEF P
  <2>1. \A n \in 0 .. N : n # 0 /\ n - 1 \in P => n \in P
    BY <1>2
  <2>2. \A n \in 0 .. N : n \in P
    BY <1>1, <2>1, UpTo
  <2> QED
    BY <2>2
<1>4. PICK f : F(f, N)
  BY <1>3
<1> QED
  BY <1>4

-----------------------------------------------------------------------------
LEMMA SumsAre ==
  ASSUME NEW s \in Seq(Byte)
  PROVE  /\ Sums(s)[0] = 0
         /\ \A n \in 1 .. Len(s) : Sums(s)[n] = Sums(s)[n - 1] + s[n]
         /\ \A n \in 0 .. Len(s) : Sums(s)[n] \in Nat
<1> DEFINE N == Len(s)
           F(f) == f = [i \in 0 .. N |-> IF i = 0 THEN 0 ELSE f[i - 1] + s[i]]
           R == {t \in Nat \X Nat \X Nat : t[3] = t[2] + s[t[1]]}
<1>0. N \in Nat /\ \A i \in 1 .. N : s[i] \in Byte
  OBVIOUS
<1>1. N \in Nat /\ \A i \in 1 .. N : s[i] \in Nat
  <2>1. Byte \subseteq Nat
    BY DEF Byte
  <2> QED
    BY <1>0, <2>1
<1>2. \E f : F(f)
  <2>1. \A i \in 1 .. N : \A x \in Nat : \E y \in Nat : <<i, x, y>> \in R
    <3> TAKE i \in 1 .. N
    <3> TAKE x \in Nat
    <3>1. x + s[i] \in Nat /\ i \in Nat
      BY <1>1
    <3> QED
      BY <3>1
  <2>2. 0 \in Nat
    OBVIOUS
  <2> HIDE DEF R
  <2>3. \E f \in [0 .. N -> Nat] : f[0] = 0 /\ \A i \in 1 .. N : <<i, f[i - 1], f[i]>> \in R
    BY <1>1, <2>1, <2>2, StepByStep DEF Steppable
  <2>4. PICK f \in [0 .. N -> Nat] : f[0] = 0 /\ \A i \in 1 .. N : <<i, f[i - 1], f[i]>> \in R
    BY <2>3
  <2> HIDE DEF N
  <2>5. \A i \in 0 .. N : f[i] = IF i = 0 THEN 0 ELSE f[i - 1] + s[i]
    <3> TAKE i \in 0 .. N
    <3>1. CASE i = 0
      BY <2>4, <3>1
    <3>2. CASE i # 0
      <4>1. i \in 1 .. N
        BY <1>1, <3>2
      <4>2. <<i, f[i - 1], f[i]>> \in R
        BY <2>4, <4>1
      <4> QED
        BY <3>2, <4>2 DEF R
    <3> QED
      BY <3>1, <3>2
  <2>6. F(f)
    BY <2>4, <2>5
  <2> QED
    BY <2>6
<1>3. Sums(s) = CHOOSE f : F(f)
  BY Zenon DEF Sums
<1>4. F(Sums(s))
  BY Zenon, <1>2, <1>3
<1> HIDE DEF N
<1>5. \A i \in 0 .. N : Sums(s)[i] = IF i = 0 THEN 0 ELSE Sums(s)[i - 1] + s[i]
  BY <1>4
<1>6. Sums(s)[0] = 0 /\ \A n \in 1 .. N : Sums(s)[n] = Sums(s)[n - 1] + s[n]
  BY <1>1, <1>5
<1>7. \A n \in 0 .. N : Sums(s)[n] \in Nat
  <2> DEFINE P == {n \in 0 .. N : Sums(s)[n] \in Nat}
  <2>1. 0 \in P
    BY <1>1, <1>6
  <2>2. \A n \in 0 .. N : n # 0 /\ n - 1 \in P => n \in P
    BY SMTT(60), <1>1, <1>6
  <2> HIDE DEF P
  <2>3. \A n \in 0 .. N : n \in P
    BY <1>1, <2>1, <2>2, UpTo
  <2> QED
    BY <2>3 DEF P
<1> QED
  BY <1>6, <1>7 DEF N

LEMMA PackedIs ==
  ASSUME NEW b \in Byte
  PROVE  /\ Packed(b) \in Seq(Byte)
         /\ Len(Packed(b)) = IF b \in Special THEN 2 ELSE 1
         /\ b \in Special => Packed(b)[1] = STF /\ Packed(b)[2] = b
         /\ b \notin Special => Packed(b)[1] = b
<1>1. STF \in Byte
  BY FramingAssumption DEF Special
<1> QED
  BY <1>1 DEF Packed

LEMMA StuffingIs ==
  ASSUME NEW s \in Seq(Byte)
  PROVE  /\ Stuffing(s)[0] = <<>>
         /\ \A n \in 1 .. Len(s) : Stuffing(s)[n] = Stuffing(s)[n - 1] \o Packed(s[n])
         /\ \A n \in 0 .. Len(s) : Stuffing(s)[n] \in Seq(Byte)
<1> DEFINE N == Len(s)
           X == Seq(Byte)
           F(f) == f = [i \in 0 .. N |-> IF i = 0 THEN <<>> ELSE f[i - 1] \o Packed(s[i])]
           R == {t \in Nat \X X \X X : t[3] = t[2] \o Packed(s[t[1]])}
<1>0. N \in Nat /\ \A i \in 1 .. N : s[i] \in Byte
  OBVIOUS
<1>1. N \in Nat /\ \A i \in 1 .. N : Packed(s[i]) \in X
  BY <1>0, PackedIs
<1>a. <<>> \in X /\ \A x, y \in X : x \o y \in X
  OBVIOUS
<1>2. \E f : F(f)
  <2>1. \A i \in 1 .. N : \A x \in X : \E y \in X : <<i, x, y>> \in R
    <3> TAKE i \in 1 .. N
    <3> TAKE x \in X
    <3> HIDE DEF X
    <3>1. x \o Packed(s[i]) \in X /\ i \in Nat
      BY <1>1, <1>a
    <3> QED
      BY <3>1
  <2> HIDE DEF R, X
  <2>3. \E f \in [0 .. N -> X] : f[0] = <<>> /\ \A i \in 1 .. N : <<i, f[i - 1], f[i]>> \in R
    <3>1. Steppable(N, X, <<>>, R)
      BY <1>1, <1>a, <2>1 DEF Steppable
    <3> HIDE DEF N
    <3> QED
      BY <3>1, StepByStep
  <2>4. PICK f \in [0 .. N -> X] : f[0] = <<>> /\ \A i \in 1 .. N : <<i, f[i - 1], f[i]>> \in R
    BY <2>3
  <2> HIDE DEF N
  <2>5. \A i \in 0 .. N : f[i] = IF i = 0 THEN <<>> ELSE f[i - 1] \o Packed(s[i])
    <3> TAKE i \in 0 .. N
    <3>1. CASE i = 0
      BY <2>4, <3>1
    <3>2. CASE i # 0
      <4>1. i \in 1 .. N
        BY <1>1, <3>2
      <4>2. <<i, f[i - 1], f[i]>> \in R
        BY <2>4, <4>1
      <4> QED
        BY <3>2, <4>2 DEF R
    <3> QED
      BY <3>1, <3>2
  <2>6. F(f)
    BY <2>4, <2>5
  <2> QED
    BY <2>6
<1>3. Stuffing(s) = CHOOSE f : F(f)
  BY Zenon DEF Stuffing
<1>4. F(Stuffing(s))
  BY Zenon, <1>2, <1>3
<1> HIDE DEF N
<1>5. \A i \in 0 .. N : Stuffing(s)[i] = IF i = 0 THEN <<>> ELSE Stuffing(s)[i - 1] \o Packed(s[i])
  BY <1>4
<1>6. Stuffing(s)[0] = <<>> /\ \A n \in 1 .. N : Stuffing(s)[n] = Stuffing(s)[n - 1] \o Packed(s[n])
  <2>1. Stuffing(s)[0] = <<>>
    BY <1>1, <1>5
  <2>2. ASSUME NEW n \in 1 .. N PROVE Stuffing(s)[n] = Stuffing(s)[n - 1] \o Packed(s[n])
    <3>1. n \in 0 .. N /\ n # 0
      BY <1>1
    <3> QED
      BY <1>5, <3>1
  <2> QED
    BY <2>1, <2>2
<1>7. \A n \in 0 .. N : Stuffing(s)[n] \in X
  <2> HIDE DEF X
  <2> DEFINE P == {n \in 0 .. N : Stuffing(s)[n] \in X}
  <2>1. 0 \in P
    BY <1>1, <1>6, <1>a
  <2>2. \A n \in 0 .. N : n # 0 /\ n - 1 \in P => n \in P
    <3> SUFFICES ASSUME NEW n \in 0 .. N, n # 0, n - 1 \in P PROVE n \in P
      OBVIOUS
    <3>1. n \in 1 .. N
      BY <1>1
    <3>2. Stuffing(s)[n] = Stuffing(s)[n - 1] \o Packed(s[n])
      BY <1>6, <3>1
    <3> QED
      BY <1>1, <1>a, <3>1, <3>2
  <2> HIDE DEF P
  <2>3. \A n \in 0 .. N : n \in P
    BY <1>1, <2>1, <2>2, UpTo
  <2> QED
    BY <2>3 DEF P
<1> QED
  BY <1>6, <1>7 DEF N

UnpackStates == [out : Seq(Byte), last : Int]

LEMMA UnstuffingIs ==
  ASSUME NEW s \in Seq(Byte)
  PROVE  /\ Unstuffing(s)[0] = [out |-> <<>>, last |-> -1]
         /\ \A n \in 1 .. Len(s) : Unstuffing(s)[n] = Unpacked(Unstuffing(s)[n - 1], s[n])
<1> DEFINE N == Len(s)
           X == UnpackStates
           base == [out |-> <<>>, last |-> -1]
           F(f) == f = [i \in 0 .. N |-> IF i = 0 THEN base ELSE Unpacked(f[i - 1], s[i])]
           R == {t \in Nat \X X \X X : t[3] = Unpacked(t[2], s[t[1]])}
<1>0. N \in Nat /\ \A i \in 1 .. N : s[i] \in Byte
  OBVIOUS
<1>a. base \in X
  BY DEF UnpackStates
<1>b. \A x \in X, b \in Byte : Unpacked(x, b) \in X
  <2> TAKE x \in X, b \in Byte
  <2>1. b \in Int /\ x.out \in Seq(Byte) /\ Append(x.out, b) \in Seq(Byte)
    BY DEF UnpackStates, Byte
  <2> QED
    BY <2>1 DEF UnpackStates, Unpacked
<1> HIDE DEF X, base
<1>2. \E f : F(f)
  <2>1. \A i \in 1 .. N : \A x \in X : \E y \in X : <<i, x, y>> \in R
    <3> TAKE i \in 1 .. N
    <3> TAKE x \in X
    <3>1. Unpacked(x, s[i]) \in X /\ i \in Nat
      BY <1>0, <1>b
    <3> QED
      BY <3>1
  <2> HIDE DEF R
  <2>3. \E f \in [0 .. N -> X] : f[0] = base /\ \A i \in 1 .. N : <<i, f[i - 1], f[i]>> \in R
    <3>1. Steppable(N, X, base, R)
      BY <1>0, <1>a, <2>1 DEF Steppable
    <3> HIDE DEF N
    <3> QED
      BY <3>1, StepByStep
  <2>4. PICK f \in [0 .. N -> X] : f[0] = base /\ \A i \in 1 .. N : <<i, f[i - 1], f[i]>> \in R
    BY <2>3
  <2> HIDE DEF N
  <2>5. \A i \in 0 .. N : f[i] = IF i = 0 THEN base ELSE Unpacked(f[i - 1], s[i])
    <3> TAKE i \in 0 .. N
    <3>1. CASE i = 0
      BY <2>4, <3>1
    <3>2. CASE i # 0
      <4>1. i \in 1 .. N
        BY <1>0, <3>2
      <4>2. <<i, f[i - 1], f[i]>> \in R
        BY <2>4, <4>1
      <4> QED
        BY <3>2, <4>2 DEF R
    <3> QED
      BY <3>1, <3>2
  <2>6. F(f)
    BY <2>4, <2>5
  <2> QED
    BY <2>6
<1>3. Unstuffing(s) = CHOOSE f : F(f)
  BY Zenon DEF Unstuffing, base
<1>4. F(Unstuffing(s))
  BY Zenon, <1>2, <1>3
<1> HIDE DEF N
<1>5. \A i \in 0 .. N : Unstuffing(s)[i] = IF i = 0 THEN base ELSE Unpacked(Unstuffing(s)[i - 1], s[i])
  BY <1>4
<1>6. Unstuffing(s)[0] = base /\ \A n \in 1 .. N : Unstuffing(s)[n] = Unpacked(Unstuffing(s)[n - 1], s[n])
  BY <1>0, <1>5
<1> QED
  BY <1>6 DEF N, base

-----------------------------------------------------------------------------
(* PDI: packing and unpacking                                              *)

LEMMA SpecialAre == Special \subseteq Byte /\ SOP \in Byte /\ STF \in Byte /\ EOP \in Byte
                    /\ SOP # STF /\ STF # EOP /\ SOP # EOP /\ Byte \subseteq Nat
BY FramingAssumption DEF Special, Byte

\* One more byte at the end adds its value to the sum.
LEMMA SumGrows ==
  ASSUME NEW s \in Seq(Byte), NEW b \in Byte
  PROVE  Sum(s \o <<b>>) = Sum(s) + b /\ Sum(s) \in Nat
<1> DEFINE t == s \o <<b>>
           N == Len(s)
           A == Sums(s)
           B == Sums(t)
<1>1. t \in Seq(Byte) /\ Len(t) = N + 1 /\ t[N + 1] = b /\ N \in Nat /\ \A i \in 1 .. N : t[i] = s[i]
  OBVIOUS
<1> HIDE DEF t
<1>2. A[0] = 0 /\ (\A n \in 1 .. N : A[n] = A[n - 1] + s[n]) /\ \A n \in 0 .. N : A[n] \in Nat
  BY SumsAre
<1>3. B[0] = 0 /\ (\A n \in 1 .. Len(t) : B[n] = B[n - 1] + t[n])
  BY <1>1, SumsAre
<1>4. Sum(s) = A[N] /\ Sum(t) = B[N + 1]
  BY <1>1 DEF Sum
<1> HIDE DEF N, A, B
<1>5. \A n \in 0 .. N : B[n] = A[n]
  <2> DEFINE P == {n \in 0 .. N : B[n] = A[n]}
  <2>1. 0 \in P
    BY <1>1, <1>2, <1>3
  <2>2. \A n \in 0 .. N : n # 0 /\ n - 1 \in P => n \in P
    <3> SUFFICES ASSUME NEW n \in 0 .. N, n # 0, n - 1 \in P PROVE n \in P
      OBVIOUS
    <3>1. n \in 1 .. N /\ n \in 1 .. Len(t) /\ n - 1 \in 0 .. N
      BY <1>1
    <3>2. A[n] = A[n - 1] + s[n] /\ B[n] = B[n - 1] + t[n] /\ t[n] = s[n]
      BY <1>1, <1>2, <1>3, <3>1
    <3> QED
      BY <3>2
  <2> HIDE DEF P
  <2>3. \A n \in 0 .. N : n \in P
    BY <1>1, <2>1, <2>2, UpTo
  <2> QED
    BY <2>3 DEF P
<1>6. B[N + 1] = B[N] + b
  <2> DEFINE M == N + 1
  <2>1. M \in 1 .. Len(t) /\ M - 1 = N /\ t[M] = b
    BY <1>1
  <2> HIDE DEF M
  <2>2. B[M] = B[M - 1] + t[M]
    BY <1>3, <2>1
  <2>3. B[M] = B[N] + b
    BY <2>1, <2>2
  <2> QED
    BY <2>3 DEF M
<1>7. A[N] \in Nat /\ B[N] = A[N]
  BY <1>1, <1>2, <1>5
<1> QED
  BY <1>4, <1>6, <1>7 DEF t

LEMMA ComplementIs ==
  ASSUME NEW n \in Nat, NEW b \in Byte
  PROVE  Complement(n) \in Byte /\ Complement(n + b) = (Complement(n) - b) % 256
BY DEF Complement, Byte

\* What packing puts in front of the checksum, and the checksum.
LEMMA ChecksumIs ==
  ASSUME NEW s \in Seq(Byte), NEW body, body = s \o Filler(s)
  PROVE  /\ body \in Seq(Byte) /\ Complement(Sum(body)) \in Byte \ Special
         /\ Filler(body) = <<>>
<1> DEFINE c == Complement(Sum(s))
<1>1. Sum(s) \in Nat /\ Sum(s \o <<STF>>) = Sum(s) + STF
  BY SpecialAre, SumGrows
<1>2. c \in Byte /\ Complement(Sum(s) + STF) = (c - STF) % 256
  BY <1>1, SpecialAre, ComplementIs
<1>3. CASE c \in Special
  <2>1. body = s \o <<STF>>
    BY <1>3 DEF Filler
  <2>2. Complement(Sum(body)) = (c - STF) % 256
    BY <1>1, <1>2, <2>1
  <2>3. Complement(Sum(body)) \notin Special
    BY <1>3, <2>2, FillerAssumption
  <2>4. Complement(Sum(body)) \in Byte
    <3>1. Sum(body) \in Nat
      BY <1>1, <2>1, SpecialAre
    <3> QED
      BY <3>1, SpecialAre, ComplementIs
  <2>5. body \in Seq(Byte)
    BY <2>1, SpecialAre
  <2> QED
    BY <2>3, <2>4, <2>5 DEF Filler
<1>4. CASE c \notin Special
  <2>1. Filler(s) = <<>>
    BY <1>4 DEF Filler
  <2>2. body = s
    BY <2>1
  <2> QED
    BY <1>2, <1>4, <2>1, <2>2
<1> QED
  BY <1>3, <1>4

\* Every EOP of the data has a stuff byte in front.
EopsGuarded(s) == \A i \in 1 .. Len(s) : s[i] = EOP => i > 1 /\ s[i - 1] = STF

LEMMA GuardedGrows ==
  ASSUME NEW s \in Seq(Byte), EopsGuarded(s), NEW b \in Byte
  PROVE  EopsGuarded(s \o Packed(b)) /\ Len(s \o Packed(b)) \in {Len(s) + 1, Len(s) + 2}
<1> DEFINE c == Packed(b)
           t == s \o c
<1>1. c \in Seq(Byte) /\ Len(c) \in {1, 2} /\ (c[1] = EOP => Len(c) = 0) /\ (Len(c) = 2 => c[1] = STF)
  BY PackedIs, SpecialAre DEF Special
<1> HIDE DEF c
<1>2. t \in Seq(Byte) /\ Len(t) = Len(s) + Len(c) /\ Len(s) \in Nat
      /\ (\A i \in 1 .. Len(s) : t[i] = s[i]) /\ \A i \in 1 .. Len(c) : t[Len(s) + i] = c[i]
  BY <1>1, JoinedBytes
<1> HIDE DEF t
<1>3. ASSUME NEW i \in 1 .. Len(t), t[i] = EOP PROVE i > 1 /\ t[i - 1] = STF
  <2>1. CASE i <= Len(s)
    <3>1. s[i] = EOP /\ i \in 1 .. Len(s)
      BY <1>2, <1>3, <2>1
    <3>2. i > 1 /\ s[i - 1] = STF
      BY <3>1 DEF EopsGuarded
    <3> QED
      BY <1>2, <2>1, <3>2
  <2>2. CASE i = Len(s) + 1
    <3>1. t[i] = c[1]
      BY <1>1, <1>2, <2>2
    <3> QED
      BY <1>1, <1>3, <3>1
  <2>3. CASE i = Len(s) + 2
    <3>1. Len(c) = 2
      BY <1>1, <1>2, <2>3
    <3>2. t[Len(s) + 1] = c[1] /\ i - 1 = Len(s) + 1
      BY <1>2, <2>3, <3>1
    <3> QED
      BY <1>1, <1>2, <2>3, <3>1, <3>2
  <2>4. i <= Len(s) \/ i = Len(s) + 1 \/ i = Len(s) + 2
    <3> DEFINE m == Len(c)
               n == Len(s)
               l == Len(t)
    <3>1. l = n + m /\ m \in {1, 2} /\ n \in Nat /\ i \in 1 .. l
      BY <1>1, <1>2
    <3> HIDE DEF m, n, l
    <3>2. i <= n \/ i = n + 1 \/ i = n + 2
      BY ONLY <3>1
    <3> QED
      BY <3>2 DEF n
  <2> QED
    BY <2>1, <2>2, <2>3, <2>4
<1> QED
  BY <1>1, <1>2, <1>3 DEF EopsGuarded, t, c

LEMMA StuffIs ==
  ASSUME NEW s \in Seq(Byte)
  PROVE  Stuff(s) \in Seq(Byte) /\ EopsGuarded(Stuff(s)) /\ Len(Stuff(s)) >= Len(s)
<1> DEFINE N == Len(s)
           G == Stuffing(s)
           P == {n \in 0 .. N : EopsGuarded(G[n]) /\ Len(G[n]) >= n}
<1>1. N \in Nat /\ G[0] = <<>> /\ (\A n \in 1 .. N : G[n] = G[n - 1] \o Packed(s[n]))
      /\ (\A n \in 0 .. N : G[n] \in Seq(Byte)) /\ \A n \in 1 .. N : s[n] \in Byte
  <2>1. N \in Nat /\ \A n \in 1 .. N : s[n] \in Byte
    OBVIOUS
  <2> HIDE DEF G
  <2>2. /\ G[0] = <<>> /\ (\A n \in 1 .. N : G[n] = G[n - 1] \o Packed(s[n]))
        /\ \A n \in 0 .. N : G[n] \in Seq(Byte)
    BY StuffingIs DEF G
  <2> QED
    BY <2>1, <2>2
<1> HIDE DEF N, G
<1>2. 0 \in P
  <2>1. Len(<<>>) = 0 /\ EopsGuarded(<<>>)
    BY DEF EopsGuarded
  <2> QED
    BY <1>1, <2>1
<1>3. \A n \in 0 .. N : n # 0 /\ n - 1 \in P => n \in P
  <2> SUFFICES ASSUME NEW n \in 0 .. N, n # 0, n - 1 \in P PROVE n \in P
    OBVIOUS
  <2>1. n \in 1 .. N /\ n - 1 \in 0 .. N
    BY <1>1
  <2>2. G[n] = G[n - 1] \o Packed(s[n]) /\ s[n] \in Byte /\ G[n - 1] \in Seq(Byte)
    BY <1>1, <2>1
  <2>3. EopsGuarded(G[n - 1]) /\ Len(G[n - 1]) >= n - 1 /\ Len(G[n - 1]) \in Nat
    BY <2>2
  <2>4. EopsGuarded(G[n]) /\ Len(G[n]) \in {Len(G[n - 1]) + 1, Len(G[n - 1]) + 2}
    BY <2>2, <2>3, GuardedGrows
  <2>5. Len(G[n]) >= n
    BY <2>1, <2>3, <2>4
  <2> QED
    BY <2>4, <2>5
<1> HIDE DEF P
<1>4. \A n \in 0 .. N : n \in P
  BY <1>1, <1>2, <1>3, UpTo
<1>5. N \in P /\ G[N] \in Seq(Byte)
  BY <1>1, <1>4
<1>6. Stuff(s) = G[N]
  BY DEF Stuff, G, N
<1> QED
  BY <1>5, <1>6 DEF P, N

\* A frame on the wire.
IsFrame(f) ==
  /\ f \in Seq(Byte) /\ Len(f) >= 4 /\ f[1] = SOP /\ f[Len(f)] = EOP /\ f[Len(f) - 1] \notin Special
  /\ \A i \in 2 .. Len(f) - 1 : f[i] = EOP => i > 2 /\ f[i - 1] = STF

LEMMA FrameIs ==
  ASSUME NEW p \in Payloads, NEW body, body = Stuff(p) \o Filler(Stuff(p))
  PROVE  /\ IsFrame(Frame(p)) /\ ChecksumOk(Frame(p))
         /\ body \in Seq(Byte) /\ Body(Frame(p)) = body
<1> DEFINE s == Stuff(p)
           c == Complement(Sum(body))
           f == Frame(p)
           a == <<SOP>>
           z == <<c, EOP>>
<1>1. p \in Seq(Byte) /\ Len(p) \in Nat /\ Len(p) >= 1
  BY FramingAssumption
<1>2. s \in Seq(Byte) /\ EopsGuarded(s) /\ Len(s) >= 1 /\ Len(s) \in Nat
  BY <1>1, StuffIs
<1>b. body = s \o Filler(s)
  OBVIOUS
<1>3. body \in Seq(Byte) /\ c \in Byte /\ c \notin Special /\ Filler(body) = <<>>
  BY <1>2, ChecksumIs
<1>4. EopsGuarded(body) /\ Len(body) >= 1 /\ Len(body) \in Nat
  <2>1. CASE Filler(s) = <<>>
    BY <1>2, <2>1
  <2>2. CASE Filler(s) = <<STF>>
    <3>1. Len(body) = Len(s) + 1 /\ body[Len(s) + 1] = STF /\ \A i \in 1 .. Len(s) : body[i] = s[i]
      BY <1>2, <1>b, <2>2, SpecialAre
    <3> HIDE DEF s
    <3>2. ASSUME NEW i \in 1 .. Len(body), body[i] = EOP PROVE i > 1 /\ body[i - 1] = STF
      <4>1. i \in 1 .. Len(s)
        BY <1>2, <3>1, <3>2, SpecialAre
      <4>2. s[i] = EOP
        BY <3>1, <3>2, <4>1
      <4>3. i > 1 /\ s[i - 1] = STF
        BY <1>2, <4>1, <4>2 DEF EopsGuarded
      <4>4. i - 1 \in 1 .. Len(s)
        BY <1>2, <4>1, <4>3
      <4>5. body[i - 1] = s[i - 1]
        BY <3>1, <4>4
      <4> QED
        BY <4>3, <4>5
    <3> QED
      BY <1>2, <3>1, <3>2 DEF EopsGuarded
  <2> QED
    BY <2>1, <2>2 DEF Filler
<1>5. f = a \o body \o z
  BY DEF Frame
<1> HIDE DEF s, c, f
<1>6. a \in Seq(Byte) /\ Len(a) = 1 /\ a[1] = SOP /\ z \in Seq(Byte) /\ Len(z) = 2 /\ z[1] = c /\ z[2] = EOP
  BY <1>3, SpecialAre
<1> HIDE DEF a, z
<1> DEFINE ab == a \o body
           m == Len(body)
<1>7. ab \in Seq(Byte) /\ Len(ab) = 1 + m /\ ab[1] = SOP /\ \A i \in 1 .. m : ab[1 + i] = body[i]
  <2>1. ab \in Seq(Byte) /\ Len(ab) = Len(a) + Len(body) /\ (\A i \in 1 .. Len(a) : ab[i] = a[i])
        /\ \A i \in 1 .. Len(body) : ab[Len(a) + i] = body[i]
    <3>1. a \in Seq(Byte) /\ body \in Seq(Byte)
      BY <1>3, <1>6
    <3> QED
      BY ONLY <3>1, JoinedBytes
  <2> HIDE DEF ab
  <2> QED
    BY <1>6, <2>1
<1>f. f = ab \o z
  BY <1>5
<1> HIDE DEF ab
<1>8. f \in Seq(Byte) /\ Len(f) = 3 + m /\ (\A i \in 1 .. 1 + m : f[i] = ab[i]) /\ f[2 + m] = c /\ f[3 + m] = EOP
  <2>1. f \in Seq(Byte) /\ Len(f) = Len(ab) + Len(z) /\ (\A i \in 1 .. Len(ab) : f[i] = ab[i])
        /\ \A i \in 1 .. Len(z) : f[Len(ab) + i] = z[i]
    <3>1. ab \in Seq(Byte) /\ z \in Seq(Byte)
      BY <1>6, <1>7
    <3> QED
      BY ONLY <3>1, <1>f, JoinedBytes
  <2>2. f[Len(ab) + 1] = z[1] /\ f[Len(ab) + 2] = z[2]
    BY <1>6, <2>1
  <2>3. Len(ab) + 1 = 2 + m /\ Len(ab) + 2 = 3 + m
    BY <1>4, <1>7
  <2> QED
    BY <1>4, <1>6, <1>7, <2>1, <2>2, <2>3
<1>9. f[1] = SOP /\ \A i \in 1 .. m : f[1 + i] = body[i]
  <2>1. 1 \in 1 .. 1 + m /\ \A i \in 1 .. m : 1 + i \in 1 .. 1 + m
    BY <1>4
  <2> QED
    BY <1>7, <1>8, <2>1
<1>10. ASSUME NEW i \in 2 .. Len(f) - 1, f[i] = EOP PROVE i > 2 /\ f[i - 1] = STF
  <2>1. i # 2 + m
    BY <1>3, <1>8, <1>10 DEF Special
  <2>2. i - 1 \in 1 .. m /\ 1 + (i - 1) = i
    BY <1>4, <1>8, <2>1
  <2>3. body[i - 1] = EOP
    BY <1>9, <1>10, <2>2
  <2>4. i - 1 > 1 /\ body[i - 1 - 1] = STF
    BY <1>4, <2>2, <2>3 DEF EopsGuarded
  <2>5. i - 1 - 1 \in 1 .. m /\ 1 + (i - 1 - 1) = i - 1
    BY <1>4, <2>2, <2>4
  <2>6. f[i - 1] = body[i - 1 - 1]
    BY <1>9, <2>5
  <2> QED
    BY <2>4, <2>6
<1>11. IsFrame(f)
  <2>1. Len(f) - 1 = 2 + m /\ Len(f) >= 4
    BY <1>4, <1>8
  <2> QED
    BY <1>3, <1>4, <1>8, <1>9, <1>10, <2>1 DEF IsFrame
<1>12. Body(f) = body
  <2> DEFINE g == SubSeq(f, 2, Len(f) - 2)
  <2>1. g \in Seq(Byte) /\ Len(g) = m /\ \A i \in 1 .. m : g[i] = f[1 + i]
    BY <1>4, <1>8
  <2> HIDE DEF g
  <2>2. g = body
    <3>1. body \in Seq(Byte) /\ Len(body) = m
      BY <1>3
    <3>2. \A i \in 1 .. m : g[i] = body[i]
      BY <1>9, <2>1
    <3> HIDE DEF m
    <3> QED
      BY <2>1, <3>1, <3>2
  <2> QED
    BY <2>2 DEF g, Body
<1>13. ChecksumOk(f)
  <2>1. body \o Filler(body) = body
    BY <1>3
  <2>2. f[Len(f) - 1] = c
    BY <1>4, <1>8
  <2> QED
    BY <1>12, <2>1, <2>2 DEF ChecksumOk, c
<1> QED
  BY <1>3, <1>11, <1>12, <1>13 DEF f

\* Packing goes on from what has been packed.
LEMMA StuffingGrows ==
  ASSUME NEW p \in Seq(Byte)
  PROVE  \A n \in 1 .. Len(p) :
           LET g == Stuffing(p)[n - 1]
               b == Packed(p[n])
           IN  /\ g \in Seq(Byte) /\ p[n] \in Byte /\ Len(Stuffing(p)[n]) = Len(g) + Len(b)
               /\ Len(Stuffing(p)[n]) <= Len(Stuff(p))
               /\ (\A i \in 1 .. Len(b) : Stuff(p)[Len(g) + i] = b[i])
<1> DEFINE N == Len(p)
           G == Stuffing(p)
<1>1. N \in Nat /\ (\A n \in 1 .. N : p[n] \in Byte) /\ Stuff(p) = G[N]
  BY DEF Stuff
<1>2. /\ (\A n \in 1 .. N : G[n] = G[n - 1] \o Packed(p[n]))
      /\ \A n \in 0 .. N : G[n] \in Seq(Byte)
  BY StuffingIs
<1> HIDE DEF G, N
\* what stands in front stays there
<1> DEFINE Kept(m, n) == Len(G[m]) <= Len(G[n]) /\ \A i \in 1 .. Len(G[m]) : G[n][i] = G[m][i]
<1>3. ASSUME NEW n \in 1 .. N
      PROVE  LET g == G[n - 1]
                 b == Packed(p[n])
             IN  /\ g \in Seq(Byte) /\ b \in Seq(Byte) /\ Len(G[n]) = Len(g) + Len(b)
                 /\ (\A i \in 1 .. Len(g) : G[n][i] = g[i])
                 /\ (\A i \in 1 .. Len(b) : G[n][Len(g) + i] = b[i])
  <2> DEFINE g == G[n - 1]
             b == Packed(p[n])
  <2>1. g \in Seq(Byte) /\ b \in Seq(Byte) /\ G[n] = g \o b
    <3>1. n - 1 \in 0 .. N
      BY <1>1
    <3> QED
      BY <1>1, <1>2, <3>1, PackedIs
  <2> HIDE DEF g, b
  <2>2. /\ Len(g \o b) = Len(g) + Len(b)
        /\ (\A i \in 1 .. Len(g) : (g \o b)[i] = g[i])
        /\ (\A i \in 1 .. Len(b) : (g \o b)[Len(g) + i] = b[i])
    BY ONLY <2>1, JoinedBytes
  <2>3. /\ g \in Seq(Byte) /\ b \in Seq(Byte) /\ Len(G[n]) = Len(g) + Len(b)
        /\ (\A i \in 1 .. Len(g) : G[n][i] = g[i])
        /\ (\A i \in 1 .. Len(b) : G[n][Len(g) + i] = b[i])
    BY <2>1, <2>2
  <2> QED
    BY <2>3 DEF g, b
<1>4. \A n \in 0 .. N : \A m \in 0 .. n : Kept(m, n)
  <2> DEFINE P == {n \in 0 .. N : \A m \in 0 .. n : Kept(m, n)}
  <2>1. 0 \in P
    <3>1. Kept(0, 0)
      BY <1>1, <1>2
    <3> HIDE DEF Kept
    <3> QED
      BY <1>1, <3>1
  <2>2. \A n \in 0 .. N : n # 0 /\ n - 1 \in P => n \in P
    <3> SUFFICES ASSUME NEW n \in 0 .. N, n # 0, n - 1 \in P, NEW m \in 0 .. n
                 PROVE  Kept(m, n)
      OBVIOUS
    <3>1. n \in 1 .. N /\ n - 1 \in 0 .. N /\ G[n] \in Seq(Byte) /\ G[m] \in Seq(Byte)
      BY <1>1, <1>2
    <3>2. CASE m = n
      BY <3>1, <3>2
    <3>3. CASE m # n
      <4>1. m \in 0 .. n - 1
        BY <1>1, <3>3
      <4>2. Kept(m, n - 1)
        BY <4>1
      <4> DEFINE g == G[n - 1]
                 b == Packed(p[n])
      <4>3. g \in Seq(Byte) /\ b \in Seq(Byte) /\ Len(G[n]) = Len(g) + Len(b)
            /\ \A i \in 1 .. Len(g) : G[n][i] = g[i]
        BY <1>3, <3>1
      <4>4. Len(G[m]) <= Len(g) /\ \A i \in 1 .. Len(G[m]) : g[i] = G[m][i]
        BY <4>2
      <4> HIDE DEF g, b
      <4> QED
        BY <3>1, <4>3, <4>4
    <3> QED
      BY <3>2, <3>3
  <2> HIDE DEF P, Kept
  <2>3. \A n \in 0 .. N : n \in P
    BY <1>1, <2>1, <2>2, UpTo
  <2> QED
    BY <2>3 DEF P
<1>5. ASSUME NEW n \in 1 .. N
      PROVE  LET g == G[n - 1]
                 b == Packed(p[n])
             IN  /\ g \in Seq(Byte) /\ p[n] \in Byte /\ Len(G[n]) = Len(g) + Len(b)
                 /\ Len(G[n]) <= Len(G[N]) /\ \A i \in 1 .. Len(b) : G[N][Len(g) + i] = b[i]
  <2> DEFINE g == G[n - 1]
             b == Packed(p[n])
  <2>1. Kept(n, N)
    <3>1. N \in 0 .. N /\ n \in 0 .. N
      BY <1>1
    <3> HIDE DEF Kept
    <3> QED
      BY <1>4, <3>1
  <2>2. /\ g \in Seq(Byte) /\ b \in Seq(Byte) /\ Len(G[n]) = Len(g) + Len(b)
        /\ (\A i \in 1 .. Len(b) : G[n][Len(g) + i] = b[i])
    BY <1>3
  <2> HIDE DEF g, b
  <2>3. \A i \in 1 .. Len(b) : G[N][Len(g) + i] = b[i]
    <3> TAKE i \in 1 .. Len(b)
    <3>1. Len(g) + i \in 1 .. Len(G[n])
      BY <2>2
    <3> QED
      BY <2>1, <2>2, <3>1
  <2>4. /\ g \in Seq(Byte) /\ p[n] \in Byte /\ Len(G[n]) = Len(g) + Len(b)
        /\ Len(G[n]) <= Len(G[N]) /\ \A i \in 1 .. Len(b) : G[N][Len(g) + i] = b[i]
    BY <1>1, <2>1, <2>2, <2>3
  <2> QED
    BY <2>4 DEF g, b
<1> QED
  BY <1>1, <1>5 DEF G, N

LEMMA UpToNext ==
  ASSUME NEW p \in Seq(Byte), NEW n \in 1 .. Len(p)
  PROVE  Append(SubSeq(p, 1, n - 1), p[n]) = SubSeq(p, 1, n)
<1> DEFINE a == SubSeq(p, 1, n - 1)
           c == SubSeq(p, 1, n)
<1>1. n \in Nat /\ n >= 1 /\ Len(p) \in Nat /\ n <= Len(p) /\ p[n] \in Byte
  OBVIOUS
<1>2. a \in Seq(Byte) /\ Len(a) = n - 1 /\ \A i \in 1 .. n - 1 : a[i] = p[i]
  BY <1>1
<1>3. c \in Seq(Byte) /\ Len(c) = n /\ \A i \in 1 .. n : c[i] = p[i]
  BY <1>1
<1> HIDE DEF a, c
<1> DEFINE d == Append(a, p[n])
<1>4. d \in Seq(Byte) /\ Len(d) = n /\ d[n] = p[n] /\ \A i \in 1 .. n - 1 : d[i] = a[i]
  BY <1>1, <1>2
<1> HIDE DEF d
<1>5. \A i \in 1 .. n : d[i] = c[i]
  <2> TAKE i \in 1 .. n
  <2>1. i = n \/ i \in 1 .. n - 1
    BY <1>1
  <2> QED
    BY <1>2, <1>3, <1>4, <2>1
<1>6. d = c
  BY <1>3, <1>4, <1>5
<1> QED
  BY <1>6 DEF a, c, d

\* Taking the stuff bytes out: after the bytes of the first n of the payload, these n
\* are there.
LEMMA UnstuffIs ==
  ASSUME NEW p \in Seq(Byte), p # <<>>, ~Ambiguous(p), NEW body, body = Stuff(p) \o Filler(Stuff(p))
  PROVE  Unstuff(body) = p
<1> DEFINE N == Len(p)
           G == Stuffing(p)
           s == Stuff(p)
           U == Unstuffing(body)
           Done(n) == [out |-> SubSeq(p, 1, n), last |-> IF n = 0 THEN -1 ELSE p[n]]
<1>1. N \in Nat /\ N >= 1 /\ s \in Seq(Byte) /\ G[0] = <<>> /\ s = G[N] /\ Len(G[0]) = 0
  <2>1. N \in Nat /\ N >= 1
    OBVIOUS
  <2>2. s = G[N]
    BY DEF Stuff
  <2>3. s \in Seq(Byte) /\ G[0] = <<>>
    <3> HIDE DEF s, G
    <3> QED
      BY StuffIs, StuffingIs DEF s, G
  <2> QED
    BY <2>1, <2>2, <2>3
<1>2. \A n \in 1 .. N :
        LET g == G[n - 1]
            b == Packed(p[n])
        IN  /\ g \in Seq(Byte) /\ p[n] \in Byte /\ Len(G[n]) = Len(g) + Len(b)
            /\ Len(G[n]) <= Len(s)
            /\ (\A i \in 1 .. Len(b) : s[Len(g) + i] = b[i])
  BY StuffingGrows
<1>3. /\ \A n \in 1 .. N - 1 : p[n] = STF => p[n + 1] \notin Special
      /\ p[N] = STF => Filler(s) = <<>>
  BY <1>1 DEF Ambiguous
<1>4. Filler(s) \in Seq(Byte) /\ (Filler(s) = <<>> \/ Filler(s) = <<STF>>)
  BY SpecialAre DEF Filler
<1>p. p = SubSeq(p, 1, N) /\ SubSeq(p, 1, 0) = <<>>
  OBVIOUS
<1>b. body = s \o Filler(s)
  OBVIOUS
<1> HIDE DEF s, G, N
<1>5. /\ body \in Seq(Byte) /\ Len(body) = Len(s) + Len(Filler(s)) /\ Len(s) \in Nat
      /\ (\A i \in 1 .. Len(s) : body[i] = s[i])
      /\ \A i \in 1 .. Len(Filler(s)) : body[Len(s) + i] = Filler(s)[i]
  <2> DEFINE z == Filler(s)
  <2>1. s \in Seq(Byte) /\ z \in Seq(Byte) /\ body = s \o z
    BY <1>1, <1>4, <1>b
  <2> HIDE DEF z
  <2>2. /\ body \in Seq(Byte) /\ Len(body) = Len(s) + Len(z) /\ Len(s) \in Nat
        /\ (\A i \in 1 .. Len(s) : body[i] = s[i])
        /\ \A i \in 1 .. Len(z) : body[Len(s) + i] = z[i]
    BY ONLY <2>1, JoinedBytes
  <2> QED
    BY <2>2 DEF z
<1>6. /\ U[0] = [out |-> <<>>, last |-> -1]
      /\ \A n \in 1 .. Len(body) : U[n] = Unpacked(U[n - 1], body[n])
  BY <1>5, UnstuffingIs
<1>7. Unstuff(body) = U[Len(body)].out
  BY DEF Unstuff
<1> HIDE DEF U
<1>8. \A n \in 0 .. N : U[Len(G[n])] = Done(n)
  <2> DEFINE P == {n \in 0 .. N : U[Len(G[n])] = Done(n)}
  <2>1. 0 \in P
    BY <1>1, <1>6, <1>p
  <2>2. \A n \in 0 .. N : n # 0 /\ n - 1 \in P => n \in P
    <3> SUFFICES ASSUME NEW n \in 0 .. N, n # 0, n - 1 \in P PROVE U[Len(G[n])] = Done(n)
      OBVIOUS
    <3> DEFINE L == Len(G[n - 1])
               b == Packed(p[n])
    <3>1. n \in 1 .. N
      BY <1>1
    <3>2. /\ L \in Nat /\ p[n] \in Byte /\ Len(G[n]) = L + Len(b) /\ L + Len(b) <= Len(s)
          /\ \A i \in 1 .. Len(b) : s[L + i] = b[i]
      <4>1. /\ G[n - 1] \in Seq(Byte) /\ p[n] \in Byte /\ Len(G[n]) = L + Len(b)
            /\ Len(G[n]) <= Len(s) /\ \A i \in 1 .. Len(b) : s[L + i] = b[i]
        BY <1>2, <3>1
      <4>2. L \in Nat
        BY <4>1
      <4> HIDE DEF L, b
      <4> QED
        BY <4>1, <4>2
    <3>3. U[L] = Done(n - 1)
      OBVIOUS
    <3>4. Append(SubSeq(p, 1, n - 1), p[n]) = SubSeq(p, 1, n)
      BY <3>1, UpToNext DEF N
    <3> DEFINE a == SubSeq(p, 1, n - 1)
               e == SubSeq(p, 1, n)
               l == Done(n - 1).last
    <3>5. U[L] = [out |-> a, last |-> l] /\ Append(a, p[n]) = e
      BY <3>3, <3>4
    <3>6. Done(n) = [out |-> e, last |-> p[n]]
      BY <3>1
    <3>7. p[n] \in Special => l # STF
      <4>1. CASE n = 1
        <5>1. l = -1
          BY <4>1
        <5> QED
          BY <5>1, SpecialAre
      <4>2. CASE n # 1
        <5>1. n - 1 \in 1 .. N - 1 /\ n - 1 + 1 = n
          BY <1>1, <3>1, <4>2
        <5>2. l = p[n - 1]
          BY <5>1
        <5> QED
          BY <1>3, <5>1, <5>2
      <4> QED
        BY <4>1, <4>2
    <3>8. /\ b \in Seq(Byte) /\ Len(b) = IF p[n] \in Special THEN 2 ELSE 1
          /\ (p[n] \in Special => b[1] = STF /\ b[2] = p[n])
          /\ (p[n] \notin Special => b[1] = p[n])
      BY <3>2, PackedIs
    <3>9. STF \in Special /\ Len(s) <= Len(body)
      BY <1>4, <1>5 DEF Special
    <3> HIDE DEF L, b, a, e, l, Done, P
    <3>10. CASE p[n] \in Special
      <4>1. /\ L + 1 \in 1 .. Len(s) /\ L + 2 \in 1 .. Len(s) /\ Len(b) = 2
            /\ 1 \in 1 .. Len(b) /\ 2 \in 1 .. Len(b) /\ L + 1 - 1 = L /\ L + 2 - 1 = L + 1
        BY <1>5, <3>2, <3>8, <3>10
      <4>2. body[L + 1] = STF /\ body[L + 2] = p[n]
        BY <1>5, <3>2, <3>8, <3>10, <4>1
      <4>3. L + 1 \in 1 .. Len(body) /\ L + 2 \in 1 .. Len(body)
        BY <1>5, <3>9, <4>1
      <4> DEFINE x == L + 1
                 y == L + 2
      <4>a. /\ x \in 1 .. Len(body) /\ x - 1 = L /\ body[x] = STF
            /\ y \in 1 .. Len(body) /\ y - 1 = x /\ body[y] = p[n]
        <5>1. L \in Nat
          BY <3>2
        <5>2. x - 1 = L /\ y - 1 = x
          BY <5>1
        <5> QED
          BY <4>2, <4>3, <5>2
      <4> HIDE DEF x, y
      <4>b. U[x] = Unpacked(U[x - 1], body[x]) /\ U[y] = Unpacked(U[y - 1], body[y])
        BY <1>6, <4>a
      <4>c. U[x] = Unpacked(U[L], STF) /\ U[y] = Unpacked(U[x], p[n])
        BY <4>a, <4>b
      <4>4. U[L + 1] = Unpacked(U[L], STF) /\ U[L + 2] = Unpacked(U[L + 1], p[n])
        BY <4>c DEF x, y
      <4>5. U[L + 1] = [out |-> a, last |-> STF]
        BY <3>5, <3>7, <3>10, <4>4 DEF Unpacked
      <4>6. U[L + 2] = [out |-> e, last |-> p[n]]
        <5>1. U[L + 1].out = a /\ U[L + 1].last = STF
          BY <4>5
        <5>2. U[L + 2] = [out |-> Append(U[L + 1].out, p[n]), last |-> p[n]]
          BY <4>4, <5>1 DEF Unpacked
        <5> QED
          BY <3>5, <5>1, <5>2
      <4> QED
        BY <3>2, <3>6, <4>1, <4>6
    <3>11. CASE p[n] \notin Special
      <4>1. L + 1 \in 1 .. Len(s) /\ Len(b) = 1 /\ 1 \in 1 .. Len(b) /\ L + 1 - 1 = L
        BY <1>5, <3>2, <3>8, <3>11
      <4>2. body[L + 1] = p[n]
        BY <1>5, <3>2, <3>8, <3>11, <4>1
      <4>3. L + 1 \in 1 .. Len(body)
        BY <1>5, <3>9, <4>1
      <4> DEFINE x == L + 1
      <4>a. x \in 1 .. Len(body) /\ x - 1 = L /\ body[x] = p[n]
        BY <3>2, <4>1, <4>2, <4>3
      <4> HIDE DEF x
      <4>b. U[x] = Unpacked(U[x - 1], body[x])
        BY <1>6, <4>a
      <4>c. U[x] = Unpacked(U[L], p[n])
        BY <4>a, <4>b
      <4>4. U[L + 1] = Unpacked(U[L], p[n])
        BY <4>c DEF x
      <4>5. U[L + 1] = [out |-> e, last |-> p[n]]
        <5>1. U[L].out = a /\ p[n] # STF
          BY <3>5, <3>9, <3>11
        <5>2. U[L + 1] = [out |-> Append(U[L].out, p[n]), last |-> p[n]]
          BY <4>4, <5>1 DEF Unpacked
        <5> QED
          BY <3>5, <5>1, <5>2
      <4> QED
        BY <3>2, <3>6, <4>1, <4>5
    <3> QED
      BY <3>10, <3>11
  <2> HIDE DEF P
  <2>3. \A n \in 0 .. N : n \in P
    BY <1>1, <2>1, <2>2, UpTo
  <2> QED
    BY <2>3 DEF P
<1>9. U[Len(s)] = [out |-> p, last |-> p[N]]
  <2>1. U[Len(G[N])] = Done(N)
    BY <1>1, <1>8
  <2> QED
    BY <1>1, <1>p, <2>1
<1>10. CASE Filler(s) = <<>>
  <2>1. Len(body) = Len(s)
    BY <1>5, <1>10
  <2> QED
    BY <1>7, <1>9, <2>1
<1>11. CASE Filler(s) = <<STF>>
  <2>1. /\ Len(body) = Len(s) + 1 /\ Len(body) \in 1 .. Len(body) /\ Len(body) - 1 = Len(s)
        /\ p[N] # STF /\ 1 \in 1 .. Len(Filler(s)) /\ Filler(s)[1] = STF
    BY <1>3, <1>5, <1>11
  <2>2. body[Len(body)] = STF
    BY <1>5, <2>1
  <2>3. U[Len(body)] = Unpacked(U[Len(s)], STF)
    BY <1>6, <2>1, <2>2
  <2> QED
    BY <1>7, <1>9, <2>1, <2>3 DEF Unpacked
<1> QED
  BY <1>4, <1>10, <1>11

-----------------------------------------------------------------------------
(* PDI: the listener                                                       *)

\* The bytes sent and not yet taken off the stream.
Line == bytes \o wire

\* The first n bytes of the stream s are the end of a frame, or nothing.
FrameEnd(s, n) ==
  /\ n \in 0 .. Len(s)
  /\ n > 0 => s[n] = EOP
  /\ n > 1 => s[n - 1] \notin Special
  /\ \A i \in 2 .. n - 1 : s[i] = EOP => s[i - 1] = STF

\* What has been offered: the first k frames, behind a fragment or not.
OfferedAre(k) ==
  \/ framesOffered = SubSeq(Sent, 1, k)
  \/ framesOffered # <<>> /\ Tail(framesOffered) = SubSeq(Sent, 1, k)

\* A stuffed EOP has been passed, which is not the end of the first n bytes.
Passed(n) ==
  /\ AtSop /\ eopPos \in 3 .. Len(bytes) /\ eopPos < n
  /\ bytes[eopPos] = EOP /\ bytes[eopPos - 1] = STF

FrameTypes ==
  /\ sent \in Seq(Payloads)
  /\ wire \in Seq(Byte) /\ bytes \in Seq(Byte) /\ framesOffered \in Seq(Seq(Byte))
  /\ eopPos \in Nat

\* The length of the piece the stream begins with: what is left of the frame in which the
\* stream was joined, or the frame behind the first k.
PieceLen(k, p) == IF p[k] > 0 THEN p[k] ELSE Len(Sent[k + 1])

\* The stream is what is left of a frame it was joined in, and the frames behind the
\* first k.
Joint(k, p) ==
  /\ k \in 0 .. Len(sent) /\ IsLine(Line, Sent, k, p)
  /\ FrameEnd(Line, p[k])
  /\ p[k] > 0 => k = 0 /\ framesOffered = <<>>
  /\ OfferedAre(k)
  /\ eopPos = 0 \/ (Passed(PieceLen(k, p)) /\ (p[k] > 0 \/ k < Len(sent)))

FrameInv == FrameTypes /\ \E k, p : Joint(k, p)

-----------------------------------------------------------------------------
LEMMA SentAre ==
  ASSUME FrameTypes
  PROVE  /\ Sent \in Seq(Seq(Byte)) /\ Len(Sent) = Len(sent) /\ Len(sent) \in Nat
         /\ \A i \in 1 .. Len(sent) : sent[i] \in Payloads /\ Sent[i] = Frame(sent[i]) /\ IsFrame(Sent[i])
<1>1. sent \in Seq(Payloads) /\ Len(sent) \in Nat /\ \A i \in 1 .. Len(sent) : sent[i] \in Payloads
  BY DEF FrameTypes
<1>2. \A i \in 1 .. Len(sent) : Frames[sent[i]] = Frame(sent[i]) /\ IsFrame(Frame(sent[i]))
  <2> TAKE i \in 1 .. Len(sent)
  <2>1. sent[i] \in Payloads
    BY <1>1
  <2>2. IsFrame(Frame(sent[i]))
    BY <2>1, FrameIs
  <2> QED
    BY <2>1, <2>2 DEF Frames
<1>3. \A i \in 1 .. Len(sent) : Sent[i] = Frame(sent[i]) /\ Frame(sent[i]) \in Seq(Byte)
  BY <1>2 DEF Sent, IsFrame
<1>4. Sent \in Seq(Seq(Byte)) /\ Len(Sent) = Len(sent)
  <2>1. Sent = [i \in 1 .. Len(sent) |-> Sent[i]]
    BY DEF Sent
  <2>2. \A i \in 1 .. Len(sent) : Sent[i] \in Seq(Byte)
    BY <1>3
  <2>3. Sent \in [1 .. Len(sent) -> Seq(Byte)]
    BY <2>1, <2>2
  <2> QED
    BY <1>1, <2>3
<1> QED
  BY <1>1, <1>2, <1>3, <1>4

LEMMA LineIs ==
  ASSUME FrameTypes
  PROVE  /\ Line \in Seq(Byte) /\ Len(Line) = Len(bytes) + Len(wire)
         /\ Len(bytes) \in Nat /\ Len(wire) \in Nat /\ bytes \in Seq(Byte) /\ wire \in Seq(Byte)
         /\ \A i \in 1 .. Len(bytes) : Line[i] = bytes[i] /\ bytes[i] \in Byte
BY DEF FrameTypes, Line

\* The first EOP behind eop_pos.
LEMMA NextEopIs ==
  ASSUME FrameTypes
  PROVE  \/ NextEop = 0 /\ \A i \in eopPos + 1 .. Len(bytes) : bytes[i] # EOP
         \/ /\ NextEop \in eopPos + 1 .. Len(bytes) /\ bytes[NextEop] = EOP
            /\ \A i \in eopPos + 1 .. Len(bytes) : bytes[i] = EOP => NextEop <= i
<1> DEFINE I == {i \in eopPos + 1 .. Len(bytes) : bytes[i] = EOP}
<1>1. NextEop = IF I # {} THEN (CHOOSE x \in I : \A y \in I : x <= y) ELSE 0
  BY DEF NextEop, SelectInSubSeq, Min
<1>2. I \in SUBSET Nat
  BY LineIs DEF FrameTypes
<1>3. CASE I = {}
  BY <1>1, <1>3
<1>4. CASE I # {}
  <2>1. \E x \in I : \A y \in I : x <= y
    BY <1>2, <1>4, NatMin
  <2>2. NextEop \in I /\ \A y \in I : NextEop <= y
    BY <1>1, <1>4, <2>1
  <2> QED
    BY <2>2
<1> QED
  BY <1>3, <1>4

\* The piece the stream begins with.
LEMMA PieceIs ==
  ASSUME FrameTypes, NEW k, NEW p, Joint(k, p), Line # <<>>, NEW n, n = PieceLen(k, p)
  PROVE  /\ FrameEnd(Line, n) /\ n \in 1 .. Len(Line)
         /\ p[k] \in Nat /\ k \in 0 .. Len(sent)
         /\ p[k] > 0 => n = p[k]
         /\ p[k] = 0 => /\ k < Len(sent) /\ n = p[k + 1] /\ n = Len(Sent[k + 1]) /\ Line[1] = SOP
                        /\ \A i \in 1 .. n : Line[i] = Sent[k + 1][i]
<1> DEFINE N == Len(sent)
<1>1. /\ Line \in Seq(Byte) /\ Len(Line) \in Nat /\ Len(Line) > 0
  BY LineIs
<1>2. N \in Nat /\ Len(Sent) = N /\ \A i \in 1 .. N : IsFrame(Sent[i])
  BY SentAre
<1>3. k \in 0 .. N /\ FrameEnd(Line, p[k])
  BY DEF Joint
<1>4. p \in [Nat -> Int] /\ 0 <= p[k] /\ p[N] = Len(Line)
      /\ \A i, j \in k .. N : i <= j => p[i] <= p[j]
  BY <1>2 DEF Joint, IsLine
<1>5. \A i \in k + 1 .. N :
        /\ p[i] = p[i - 1] + Len(Sent[i])
        /\ \A b \in 1 .. Len(Sent[i]) : Line[p[i - 1] + b] = Sent[i][b]
  BY <1>2 DEF Joint, IsLine
<1> HIDE DEF N
<1>6. p[k] \in Nat
  BY <1>2, <1>3, <1>4
<1>7. CASE p[k] > 0
  <2>1. n = p[k]
    BY <1>7 DEF PieceLen
  <2>2. n \in 1 .. Len(Line)
    BY <1>1, <1>3, <1>6, <1>7, <2>1 DEF FrameEnd
  <2> QED
    BY <1>3, <1>6, <1>7, <2>1, <2>2 DEF N
<1>8. CASE p[k] = 0
  <2>1. k < N
    BY <1>1, <1>2, <1>3, <1>4, <1>8
  <2> DEFINE f == Sent[k + 1]
             m == k + 1
  <2>2. m \in k + 1 .. N /\ m \in k .. N /\ N \in k .. N /\ m \in 1 .. N /\ m - 1 = k /\ m <= N
    BY <1>2, <1>3, <2>1
  <2>3. IsFrame(f)
    BY <1>2, <2>2
  <2>4. n = Len(f)
    BY <1>8 DEF PieceLen
  <2>5. p[m] = p[m - 1] + Len(Sent[m]) /\ \A b \in 1 .. Len(Sent[m]) : Line[p[m - 1] + b] = Sent[m][b]
    BY <1>5, <2>2
  <2>6. p[m - 1] = 0
    BY <1>8, <2>2
  <2>7. p[m] <= p[N]
    BY <1>4, <2>2
  <2> HIDE DEF m
  <2>8. f \in Seq(Byte) /\ Len(f) \in Nat /\ Len(f) >= 4 /\ f[1] = SOP /\ f[Len(f)] = EOP
        /\ f[Len(f) - 1] \notin Special
        /\ \A i \in 2 .. Len(f) - 1 : f[i] = EOP => i > 2 /\ f[i - 1] = STF
    BY <2>3 DEF IsFrame
  <2>9. Sent[m] = f
    BY DEF m
  <2> HIDE DEF f
  <2>10. n = p[m] /\ n <= Len(Line) /\ n \in Nat /\ n >= 4
    BY <1>4, <2>4, <2>5, <2>6, <2>7, <2>8, <2>9
  <2>11. \A i \in 1 .. n : Line[i] = f[i]
    <3> TAKE i \in 1 .. n
    <3>1. Line[p[m - 1] + i] = f[i]
      BY <2>4, <2>5, <2>9
    <3> QED
      BY <2>6, <2>10, <3>1
  <2>12. Line[1] = SOP /\ Line[n] = EOP /\ Line[n - 1] \notin Special
    <3>1. 1 \in 1 .. n /\ n \in 1 .. n /\ n - 1 \in 1 .. n
      BY <2>10
    <3> QED
      BY <2>4, <2>8, <2>11, <3>1
  <2>13. ASSUME NEW i \in 2 .. n - 1, Line[i] = EOP
         PROVE  Line[i - 1] = STF
    <3>1. i \in 1 .. n /\ i - 1 \in 1 .. n /\ i \in 2 .. Len(f) - 1
      BY <2>4, <2>10
    <3>2. f[i] = EOP
      BY <2>11, <2>13, <3>1
    <3>3. f[i - 1] = STF
      BY <2>8, <3>1, <3>2
    <3> QED
      BY <2>11, <3>1, <3>3
  <2>14. FrameEnd(Line, n)
    <3>1. n \in 0 .. Len(Line)
      BY <1>1, <2>10
    <3> QED
      BY <2>12, <2>13, <3>1 DEF FrameEnd
  <2> QED
    BY <1>1, <1>3, <1>6, <1>8, <2>1, <2>4, <2>10, <2>11, <2>12, <2>14 DEF f, m, N
<1> QED
  BY <1>6, <1>7, <1>8

\* In the piece the stream begins with, an EOP is the end of the piece or stuffed.
LEMMA EopInPiece ==
  ASSUME FrameTypes, NEW n \in 1 .. Len(Line), FrameEnd(Line, n), AtSop, NextEop # 0,
         eopPos = 0 \/ Passed(n)
  PROVE  /\ NextEop \in 3 .. n /\ NextEop <= Len(bytes) /\ bytes[NextEop] = EOP
         /\ bytes[NextEop - 1] = STF <=> NextEop < n
<1> DEFINE e == NextEop
           L == Len(bytes)
<1>1. /\ Line \in Seq(Byte) /\ Len(Line) \in Nat /\ L \in Nat
      /\ \A i \in 1 .. L : Line[i] = bytes[i]
  BY LineIs
<1>2. /\ e \in eopPos + 1 .. L /\ bytes[e] = EOP
      /\ \A i \in eopPos + 1 .. L : bytes[i] = EOP => e <= i
  BY NextEopIs
<1>3. eopPos \in Nat /\ eopPos < n
  BY DEF FrameTypes, Passed
<1>4. L > 0 /\ bytes[1] = SOP
  BY LineIs DEF AtSop
<1>5. /\ Line[n] = EOP /\ (n > 1 => Line[n - 1] \notin Special)
      /\ \A i \in 2 .. n - 1 : Line[i] = EOP => Line[i - 1] = STF
  BY DEF FrameEnd
<1>6. n \in Nat /\ n >= 1
  BY <1>1
<1> HIDE DEF e, L
<1>7. e \in Nat /\ e <= n /\ e <= L
  <2>1. CASE n <= L
    <3>1. n \in eopPos + 1 .. L /\ n \in 1 .. L
      BY <1>1, <1>3, <1>6, <2>1
    <3>2. bytes[n] = EOP
      BY <1>1, <1>5, <3>1
    <3> QED
      BY <1>1, <1>2, <1>3, <3>1, <3>2
  <2>2. CASE n > L
    BY <1>1, <1>2, <1>3, <1>6, <2>2
  <2> QED
    BY <1>1, <1>6, <2>1, <2>2
<1>8. e # 1 /\ e >= 2
  BY <1>1, <1>2, <1>3, <1>4, <1>7, SpecialAre
<1>9. e \in 1 .. L /\ e - 1 \in 1 .. L /\ 1 \in 1 .. L
  BY <1>1, <1>7, <1>8
<1>10. Line[e] = EOP /\ Line[e - 1] = bytes[e - 1] /\ Line[1] = SOP
  BY <1>1, <1>2, <1>4, <1>9
<1>11. STF \in Special /\ SOP \in Special /\ SOP # STF
  BY SpecialAre DEF Special
<1>12. CASE e < n
  <2>1. e \in 2 .. n - 1
    BY <1>6, <1>7, <1>8, <1>12
  <2>2. Line[e - 1] = STF
    BY <1>5, <1>10, <2>1
  <2>3. e # 2
    BY <1>10, <1>11, <2>2
  <2> QED
    BY <1>2, <1>6, <1>7, <1>8, <1>10, <1>12, <2>2, <2>3 DEF e, L
<1>13. CASE e = n
  <2>1. Line[e - 1] \notin Special
    BY <1>5, <1>6, <1>8, <1>13
  <2>2. e # 2
    BY <1>10, <1>11, <2>1
  <2> QED
    BY <1>2, <1>6, <1>7, <1>8, <1>10, <1>11, <1>13, <2>1, <2>2 DEF e, L
<1> QED
  BY <1>6, <1>7, <1>12, <1>13

-----------------------------------------------------------------------------
\* What the invariant says of the frames offered.
LEMMA JointMeans ==
  FrameInv => FrameTypeOK /\ FramesIntact /\ AllFramesOffered
<1> SUFFICES ASSUME FrameTypes, NEW k, NEW p, Joint(k, p)
             PROVE  FrameTypeOK /\ FramesIntact /\ AllFramesOffered
  BY DEF FrameInv
<1>1. /\ Sent \in Seq(Seq(Byte)) /\ Len(Sent) = Len(sent) /\ Len(sent) \in Nat
      /\ \A i \in 1 .. Len(sent) : IsFrame(Sent[i])
  BY SentAre
<1>2. k \in 0 .. Len(sent) /\ OfferedAre(k)
  BY DEF Joint
<1>3. framesOffered \in Seq(Seq(Byte))
  BY DEF FrameTypes
<1>4. FrameTypeOK
  <2>1. eopPos = 0 \/ (eopPos \in 3 .. Len(bytes) /\ AtSop /\ bytes[eopPos] = EOP /\ bytes[eopPos - 1] = STF)
    BY DEF Joint, Passed
  <2>2. Len(bytes) \in Nat
    BY LineIs
  <2> QED
    BY <2>1, <2>2 DEF FrameTypeOK, FrameTypes
<1> DEFINE first == SubSeq(Sent, 1, k)
<1>5. first \in Seq(Seq(Byte)) /\ Len(first) = k
  BY <1>1, <1>2
<1>6. IsPrefix(first, Sent)
  <2>1. SubSeq(first, 1, k) = first
    BY <1>1, <1>2, <1>5
  <2> QED
    BY <1>1, <1>2, <1>5, <2>1 DEF IsPrefix
<1>7. framesOffered = first \/ (framesOffered # <<>> /\ Tail(framesOffered) = first)
  BY <1>2 DEF OfferedAre
<1> HIDE DEF first
<1>8. FramesIntact
  BY <1>6, <1>7 DEF FramesIntact
<1>9. AllFramesOffered
  <2> SUFFICES ASSUME wire = <<>>, ListenerWaits
               PROVE  bytes = <<>> /\ Len(framesOffered) \in {Len(sent), Len(sent) + 1}
    BY DEF AllFramesOffered
  <2>1. bytes = <<>>
    <3> SUFFICES ASSUME bytes # <<>> PROVE FALSE
      OBVIOUS
    <3>1. AtSop /\ NextEop = 0
      BY DEF ListenerWaits
    <3> DEFINE n == PieceLen(k, p)
    <3>2. Len(Line) = Len(bytes) /\ Len(bytes) \in Nat /\ Line # <<>>
      BY LineIs
    <3>3. FrameEnd(Line, n) /\ n \in 1 .. Len(Line)
      BY <3>2, PieceIs
    <3>4. eopPos \in Nat /\ eopPos < n
      BY <3>2, <3>3 DEF Joint, Passed, FrameTypes
    <3> HIDE DEF n
    <3>5. n \in 1 .. Len(bytes) /\ n \in eopPos + 1 .. Len(bytes)
      BY <3>2, <3>3, <3>4
    <3>6. bytes[n] = EOP
      BY <3>3, <3>5, LineIs DEF FrameEnd
    <3>7. NextEop \notin eopPos + 1 .. Len(bytes)
      BY <3>1, <3>4
    <3> QED
      BY <3>1, <3>5, <3>6, <3>7, NextEopIs
  <2>2. Len(Line) = 0
    BY <2>1, LineIs
  <2>3. k = Len(sent)
    <3> SUFFICES ASSUME k < Len(sent) PROVE FALSE
      BY <1>1, <1>2
    <3> DEFINE m == k + 1
    <3>1. m \in k + 1 .. Len(sent) /\ m \in k .. Len(sent) /\ Len(sent) \in k .. Len(sent)
          /\ m \in 1 .. Len(sent) /\ m - 1 = k /\ m <= Len(sent)
      BY <1>1, <1>2
    <3>2. p \in [Nat -> Int] /\ 0 <= p[k] /\ p[Len(sent)] = Len(Line)
          /\ \A i, j \in k .. Len(sent) : i <= j => p[i] <= p[j]
      BY <1>1 DEF Joint, IsLine
    <3>3. \A i \in k + 1 .. Len(sent) : p[i] = p[i - 1] + Len(Sent[i])
      BY <1>1 DEF Joint, IsLine
    <3>4. p[m] = p[m - 1] + Len(Sent[m]) /\ p[m] <= p[Len(sent)]
      BY <3>1, <3>2, <3>3
    <3>5. IsFrame(Sent[m])
      BY <1>1, <3>1
    <3>6. Len(Sent[m]) \in Nat /\ Len(Sent[m]) >= 4
      BY <3>5 DEF IsFrame
    <3>7. p[m - 1] = p[k] /\ p[k] \in Int
      BY <1>1, <1>2, <3>1, <3>2
    <3> HIDE DEF m
    <3> QED
      BY <2>2, <3>2, <3>4, <3>6, <3>7
  <2>4. Len(framesOffered) \in {k, k + 1}
    BY <1>2, <1>3, <1>5, <1>7
  <2> QED
    BY <2>1, <2>3, <2>4
<1> QED
  BY <1>4, <1>8, <1>9

\* What it says of the packing.
LEMMA PackingMeans == FrameTypes => ChecksumsMatch /\ LoneStuffBytesRoundTrip
<1> SUFFICES ASSUME FrameTypes, sent # <<>>
             PROVE  ChecksumsMatch /\ LoneStuffBytesRoundTrip
  BY DEF ChecksumsMatch, LoneStuffBytesRoundTrip
<1> DEFINE pay == Last(sent)
           f == Last(Sent)
           body == Stuff(pay) \o Filler(Stuff(pay))
<1>1. Len(sent) \in 1 .. Len(sent) /\ Len(Sent) = Len(sent)
  BY SentAre DEF FrameTypes
<1>2. pay \in Payloads /\ f = Frame(pay) /\ IsFrame(f)
  BY <1>1, SentAre DEF Last
<1>3. ChecksumOk(Frame(pay)) /\ Body(Frame(pay)) = body
  BY <1>2, FrameIs
<1>4. pay \in Seq(Byte) /\ pay # <<>>
  BY <1>2, FramingAssumption
<1> HIDE DEF pay, f
<1>5. ChecksumsMatch
  BY <1>2, <1>3 DEF ChecksumsMatch, IsFrame, f
<1>6. ~ Ambiguous(pay) => Unstuff(body) = pay
  BY <1>4, UnstuffIs
<1> QED
  BY <1>2, <1>3, <1>5, <1>6 DEF LoneStuffBytesRoundTrip, pay, f

LEMMA JointStart == FrameInit => FrameInv
<1> SUFFICES ASSUME FrameInit PROVE FrameInv
  OBVIOUS
<1>1. sent = <<>> /\ bytes = <<>> /\ eopPos = 0 /\ framesOffered = <<>>
  BY DEF FrameInit
<1>2. PICK pay \in Payloads : wire \in Suffixes(Frames[pay])
  BY DEF FrameInit
<1> DEFINE f == Frame(pay)
           n == Len(wire)
<1>3. IsFrame(f)
  BY FrameIs
<1>4. f \in Seq(Byte) /\ Len(f) \in Nat /\ Len(f) >= 4 /\ f[1] = SOP /\ f[Len(f)] = EOP
      /\ f[Len(f) - 1] \notin Special
      /\ \A i \in 2 .. Len(f) - 1 : f[i] = EOP => i > 2 /\ f[i - 1] = STF
  BY <1>3 DEF IsFrame
<1>5. wire = <<>> \/ \E l \in 1 .. Len(f) : wire = SubSeq(f, l, Len(f))
  <2>1. Frames[pay] = f
    BY DEF Frames
  <2> HIDE DEF f
  <2> QED
    BY <1>2, <2>1 DEF Suffixes
<1> HIDE DEF f
<1>6. wire \in Seq(Byte) /\ n \in Nat /\ FrameEnd(wire, n)
  <2>1. CASE wire = <<>>
    BY <2>1 DEF FrameEnd
  <2>2. ASSUME NEW l \in 1 .. Len(f), wire = SubSeq(f, l, Len(f))
        PROVE  wire \in Seq(Byte) /\ n \in Nat /\ FrameEnd(wire, n)
    <3> DEFINE L == Len(f)
    <3>1. L \in Nat /\ l \in Nat /\ 1 <= l /\ l <= L
      BY <1>4
    <3>2. wire \in Seq(Byte) /\ n = L - l + 1 /\ \A i \in 1 .. L - l + 1 : wire[i] = f[i + l - 1]
      BY <1>4, <2>2, <3>1
    <3>3. f[L] = EOP /\ f[L - 1] \notin Special
          /\ \A i \in 2 .. L - 1 : f[i] = EOP => i > 2 /\ f[i - 1] = STF
      BY <1>4
    <3> HIDE DEF n, L
    <3>4. n \in Nat /\ n >= 1 /\ \A i \in 1 .. n : wire[i] = f[i + l - 1]
      BY <3>1, <3>2
    <3>5. wire[n] = EOP
      <4>1. n \in 1 .. n /\ n + l - 1 = L
        BY <3>1, <3>2, <3>4
      <4>2. wire[n] = f[n + l - 1]
        BY <3>4, <4>1
      <4> QED
        BY <3>3, <4>1, <4>2
    <3>6. n > 1 => wire[n - 1] \notin Special
      <4> SUFFICES ASSUME n > 1 PROVE wire[n - 1] \notin Special
        OBVIOUS
      <4> DEFINE j == n - 1
      <4>1. j \in 1 .. n /\ j + l - 1 = L - 1
        BY <3>1, <3>2, <3>4
      <4> HIDE DEF j
      <4>2. wire[j] = f[j + l - 1]
        BY <3>4, <4>1
      <4> QED
        BY <3>3, <4>1, <4>2 DEF j
    <3>7. ASSUME NEW i \in 2 .. n - 1, wire[i] = EOP
          PROVE  wire[i - 1] = STF
      <4> DEFINE j == i - 1
                 x == i + l - 1
      <4>1. i \in 1 .. n /\ j \in 1 .. n /\ x \in 2 .. L - 1 /\ j + l - 1 = x - 1
        BY <3>1, <3>2, <3>4
      <4>2. wire[i] = f[x]
        BY <3>4, <4>1
      <4> HIDE DEF j, x
      <4>3. wire[j] = f[j + l - 1]
        BY <3>4, <4>1
      <4>4. f[x - 1] = STF
        BY <3>3, <3>7, <4>1, <4>2
      <4> QED
        BY <4>1, <4>3, <4>4 DEF j
    <3> QED
      BY <3>2, <3>4, <3>5, <3>6, <3>7 DEF FrameEnd, n
  <2> QED
    BY <1>5, <2>1, <2>2
<1>7. FrameTypes
  BY <1>1, <1>6 DEF FrameTypes
<1>8. Line = wire /\ Sent = <<>> /\ Len(sent) = 0 /\ Len(Sent) = 0
  BY <1>1, <1>6 DEF Line, Sent
<1> DEFINE p == [i \in Nat |-> n]
<1>9. p \in [Nat -> Int] /\ p[0] = n
  BY <1>6
<1> HIDE DEF p
<1>10. IsLine(wire, Sent, 0, p)
  BY <1>6, <1>8, <1>9 DEF IsLine
<1>11. OfferedAre(0)
  BY <1>1, <1>8 DEF OfferedAre
<1>12. Joint(0, p)
  BY <1>1, <1>6, <1>8, <1>9, <1>10, <1>11 DEF Joint
<1> QED
  BY <1>7, <1>12 DEF FrameInv

-----------------------------------------------------------------------------
LEMMA JointSend ==
  ASSUME FrameTypes, NEW k, NEW p, Joint(k, p), FrameSend
  PROVE  FrameInv'
<1>1. PICK pay \in Payloads : sent' = Append(sent, pay) /\ wire' = wire \o Frames[pay]
  BY DEF FrameSend
<1>2. bytes' = bytes /\ eopPos' = eopPos /\ framesOffered' = framesOffered
  BY DEF FrameSend
<1> DEFINE c == Frame(pay)
           N == Len(sent)
<1>3. c \in Seq(Byte) /\ Frames[pay] = c
  BY FrameIs DEF IsFrame, Frames
<1> HIDE DEF c
<1>4. FrameTypes'
  BY <1>1, <1>2, <1>3 DEF FrameTypes
<1>5. Line' = Line \o c
  <2>1. Line' = bytes \o (wire \o c)
    BY <1>1, <1>2, <1>3 DEF Line
  <2>2. bytes \in Seq(Byte) /\ wire \in Seq(Byte)
    BY DEF FrameTypes
  <2> QED
    BY <1>3, <2>1, <2>2 DEF Line
<1>6. /\ Sent \in Seq(Seq(Byte)) /\ Len(Sent) = N /\ N \in Nat /\ Len(sent') = N + 1
      /\ sent \in Seq(Payloads)
  BY <1>1, SentAre DEF FrameTypes
<1>7. Sent' = Append(Sent, c)
  <2>1. Len(Sent') = N + 1 /\ Sent' \in Seq(Seq(Byte)) /\ \A i \in 1 .. N + 1 : Sent'[i] = Frames[sent'[i]]
    <3>1. Sent' = [i \in 1 .. N + 1 |-> Frames[sent'[i]]]
      BY <1>6 DEF Sent
    <3>2. \A i \in 1 .. N + 1 : sent'[i] \in Payloads
      BY <1>4, <1>6 DEF FrameTypes
    <3>3. \A x \in Payloads : Frames[x] \in Seq(Byte)
      BY FrameIs DEF IsFrame, Frames
    <3> QED
      BY <1>6, <3>1, <3>2, <3>3
  <2>2. \A i \in 1 .. N : sent'[i] = sent[i] /\ Sent[i] = Frames[sent[i]]
    BY <1>1, <1>6 DEF Sent
  <2>3. sent'[N + 1] = pay
    BY <1>1, <1>6
  <2>4. \A i \in 1 .. N + 1 : Sent'[i] = Append(Sent, c)[i]
    <3> TAKE i \in 1 .. N + 1
    <3>1. Append(Sent, c)[N + 1] = c /\ \A j \in 1 .. N : Append(Sent, c)[j] = Sent[j]
      BY <1>3, <1>6
    <3>2. Sent'[i] = Frames[sent'[i]]
      BY <2>1
    <3>3. i \in 1 .. N \/ i = N + 1
      BY <1>6
    <3> HIDE DEF N
    <3> QED
      BY <1>3, <2>2, <2>3, <3>1, <3>2, <3>3
  <2>5. Append(Sent, c) \in Seq(Seq(Byte)) /\ Len(Append(Sent, c)) = N + 1
    BY <1>3, <1>6
  <2> HIDE DEF N
  <2> QED
    BY <1>6, <2>1, <2>4, <2>5
<1>8. k \in 0 .. N /\ IsLine(Line, Sent, k, p) /\ FrameEnd(Line, p[k])
  BY DEF Joint
<1>9. LineTypes(Byte, Line, Sent, k) /\ Line \in Seq(Byte)
  BY <1>6, <1>8, LineIs DEF LineTypes
<1>10. PICK q : IsLine(Line \o c, Append(Sent, c), k, q) /\ q[k] = p[k]
  BY <1>3, <1>8, <1>9, LineGrows
<1>11. FrameEnd(Line \o c, q[k])
  <2> DEFINE n == q[k]
             t == Line \o c
  <2>1. /\ n \in 0 .. Len(Line) /\ (n > 0 => Line[n] = EOP) /\ (n > 1 => Line[n - 1] \notin Special)
        /\ \A i \in 2 .. n - 1 : Line[i] = EOP => Line[i - 1] = STF
    BY <1>8, <1>10 DEF FrameEnd
  <2>2. Len(Line) \in Nat /\ Len(t) \in Nat /\ Len(t) >= Len(Line) /\ \A i \in 1 .. Len(Line) : t[i] = Line[i]
    BY <1>3, <1>9, JoinedBytes
  <2> HIDE DEF n, t
  <2>3. n \in Nat /\ \A i \in 1 .. n : t[i] = Line[i]
    BY <2>1, <2>2
  <2>4. n \in 0 .. Len(t) /\ (n > 0 => t[n] = EOP)
    BY <2>1, <2>2, <2>3
  <2>5. n > 1 => t[n - 1] \notin Special
    BY <2>1, <2>3
  <2>6. \A i \in 2 .. n - 1 : t[i] = EOP => t[i - 1] = STF
    <3> TAKE i \in 2 .. n - 1
    <3>1. i \in 1 .. n /\ i - 1 \in 1 .. n
      BY <2>3
    <3> QED
      BY <2>1, <2>3, <3>1
  <2> QED
    BY <2>4, <2>5, <2>6 DEF FrameEnd, n, t
<1>12. SubSeq(Sent', 1, k) = SubSeq(Sent, 1, k)
  <2>1. \A i \in 1 .. k : Append(Sent, c)[i] = Sent[i]
    BY <1>3, <1>6, <1>8
  <2> HIDE DEF N
  <2> QED
    BY <1>3, <1>6, <1>7, <1>8, <2>1
<1>13. OfferedAre(k)'
  BY <1>2, <1>12 DEF Joint, OfferedAre
<1>14. eopPos' = 0 \/ (Passed(PieceLen(k, q))' /\ (q[k] > 0 \/ k < Len(sent')))
  <2>1. CASE eopPos = 0
    BY <1>2, <2>1
  <2>2. CASE eopPos # 0
    <3>1. Passed(PieceLen(k, p)) /\ (p[k] > 0 \/ k < N)
      BY <2>2 DEF Joint
    <3>2. (PieceLen(k, q))' = PieceLen(k, p)
      <4>1. CASE p[k] > 0
        BY <1>10, <4>1 DEF PieceLen
      <4>2. CASE k < N /\ ~ (p[k] > 0)
        <5>1. k + 1 \in 1 .. N
          BY <1>6, <1>8, <4>2
        <5>2. Append(Sent, c)[k + 1] = Sent[k + 1]
          BY <1>3, <1>6, <5>1
        <5> QED
          BY <1>7, <1>10, <4>2, <5>2 DEF PieceLen
      <4> QED
        BY <3>1, <4>1, <4>2
    <3> DEFINE n == PieceLen(k, p)
    <3>3. Passed(n)
      BY <3>1
    <3>4. (PieceLen(k, q))' = n
      BY <3>2
    <3> HIDE DEF n
    <3>5. Passed(PieceLen(k, q))'
      BY <1>2, <3>3, <3>4 DEF Passed, AtSop
    <3> QED
      BY <1>6, <1>8, <1>10, <3>1, <3>5
  <2> QED
    BY <2>1, <2>2
<1>15. Joint(k, q)'
  <2>1. k \in 0 .. Len(sent')
    BY <1>6, <1>8
  <2>2. IsLine(Line', Sent', k, q) /\ FrameEnd(Line', q[k])
    BY <1>5, <1>7, <1>10, <1>11
  <2>3. q[k] > 0 => k = 0 /\ framesOffered' = <<>>
    BY <1>2, <1>10 DEF Joint
  <2> QED
    BY <1>13, <1>14, <2>1, <2>2, <2>3 DEF Joint
<1> QED
  BY <1>4, <1>15 DEF FrameInv

-----------------------------------------------------------------------------
LEMMA JointArrive ==
  ASSUME FrameTypes, NEW k, NEW p, Joint(k, p), FrameArrive
  PROVE  FrameInv'
<1>1. /\ wire # <<>> /\ bytes' = Append(bytes, Head(wire)) /\ wire' = Tail(wire)
      /\ sent' = sent /\ eopPos' = eopPos /\ framesOffered' = framesOffered
  BY DEF FrameArrive
<1>2. bytes \in Seq(Byte) /\ wire \in Seq(Byte)
  BY DEF FrameTypes
<1>3. bytes' \in Seq(Byte) /\ wire' \in Seq(Byte)
  BY <1>1, <1>2
<1>4. FrameTypes'
  BY <1>1, <1>3 DEF FrameTypes
<1>5. Line' = Line
  <2>1. Append(bytes, Head(wire)) \o Tail(wire) = bytes \o wire
    BY <1>1, <1>2
  <2> QED
    BY <1>1, <2>1 DEF Line
<1>6. Sent' = Sent
  BY <1>1 DEF Sent
<1>7. Len(bytes) \in Nat /\ Len(bytes') = Len(bytes) + 1 /\ \A i \in 1 .. Len(bytes) : bytes'[i] = bytes[i]
  BY <1>1, <1>2
<1>8. ASSUME NEW n, Passed(n)
      PROVE  Passed(n)'
  <2>1. AtSop /\ eopPos \in 3 .. Len(bytes) /\ eopPos < n /\ bytes[eopPos] = EOP /\ bytes[eopPos - 1] = STF
    BY <1>8 DEF Passed
  <2>2. 1 \in 1 .. Len(bytes) /\ eopPos \in 1 .. Len(bytes) /\ eopPos - 1 \in 1 .. Len(bytes)
    BY <1>7, <2>1
  <2>3. bytes[1] = SOP
    BY <1>2, <2>1 DEF AtSop
  <2>4. bytes'[1] = SOP /\ bytes'[eopPos] = EOP /\ bytes'[eopPos - 1] = STF
    BY <1>7, <2>1, <2>2, <2>3
  <2>5. AtSop'
    BY <1>3, <1>7, <2>4 DEF AtSop
  <2> QED
    BY <1>1, <1>7, <2>1, <2>4, <2>5 DEF Passed
<1>9. (PieceLen(k, p))' = PieceLen(k, p)
  BY <1>6 DEF PieceLen
<1> DEFINE n == PieceLen(k, p)
<1>10. eopPos' = 0 \/ (Passed(PieceLen(k, p))' /\ (p[k] > 0 \/ k < Len(sent')))
  <2>1. eopPos = 0 \/ (Passed(n) /\ (p[k] > 0 \/ k < Len(sent)))
    BY DEF Joint
  <2>2. (PieceLen(k, p))' = n
    BY <1>9
  <2> HIDE DEF n
  <2> QED
    BY <1>1, <1>8, <2>1, <2>2
<1>11. Joint(k, p)'
  BY <1>1, <1>5, <1>6, <1>10 DEF Joint, OfferedAre
<1> QED
  BY <1>4, <1>11 DEF FrameInv

LEMMA TailAppended ==
  ASSUME NEW S, NEW s \in Seq(S), s # <<>>, NEW e \in S
  PROVE  Append(s, e) # <<>> /\ Tail(Append(s, e)) = Append(Tail(s), e)
<1> DEFINE a == Tail(Append(s, e))
           b == Append(Tail(s), e)
           L == Len(s)
<1>1. L \in Nat /\ L > 0 /\ Append(s, e) \in Seq(S) /\ Len(Append(s, e)) = L + 1
  OBVIOUS
<1>2. Append(s, e) # <<>>
  BY <1>1
<1>3. a \in Seq(S) /\ Len(a) = L /\ \A i \in 1 .. L : a[i] = Append(s, e)[i + 1]
  BY <1>1, <1>2
<1>4. Tail(s) \in Seq(S) /\ Len(Tail(s)) = L - 1 /\ \A i \in 1 .. L - 1 : Tail(s)[i] = s[i + 1]
  BY <1>1
<1>5. b \in Seq(S) /\ Len(b) = L /\ b[L] = e /\ \A i \in 1 .. L - 1 : b[i] = Tail(s)[i]
  BY <1>1, <1>4
<1>6. ASSUME NEW i \in 1 .. L PROVE a[i] = b[i]
  <2>1. a[i] = Append(s, e)[i + 1]
    BY <1>3
  <2>2. CASE i = L
    BY <1>5, <2>1, <2>2
  <2>3. CASE i # L
    <3>1. i \in 1 .. L - 1 /\ i + 1 \in 1 .. L
      BY <1>1, <2>3
    <3>2. Append(s, e)[i + 1] = s[i + 1]
      BY <3>1
    <3> QED
      BY <1>4, <1>5, <2>1, <3>1, <3>2
  <2> QED
    BY <2>2, <2>3
<1> HIDE DEF a, b, L
<1>7. a = b
  BY <1>3, <1>5, <1>6
<1> QED
  BY <1>2, <1>7 DEF a, b

\* n bytes are taken off the front of the stream: of what the stream was joined in, or all
\* that is in front of the end of the m-th frame.
Taking(k, p, m, n) ==
  /\ FrameTypes /\ Joint(k, p) /\ m \in k .. Len(sent) /\ n \in 1 .. Len(bytes) /\ n <= p[m]
  /\ sent' = sent /\ wire' = wire /\ bytes' = SubSeq(bytes, n + 1, Len(bytes))

LEMMA JointTakes ==
  ASSUME NEW k, NEW p, NEW m, NEW n, Taking(k, p, m, n)
  PROVE  /\ Sent' = Sent /\ wire' \in Seq(Byte) /\ bytes' \in Seq(Byte)
         /\ \E q : IsLine(Line', Sent, m, q) /\ q[m] = p[m] - n
         /\ Line' \in Seq(Byte) /\ Len(Line') = Len(Line) - n
         /\ \A i \in 1 .. Len(Line') : Line'[i] = Line[i + n]
<1>0. /\ FrameTypes /\ Joint(k, p) /\ m \in k .. Len(sent) /\ n \in 1 .. Len(bytes) /\ n <= p[m]
      /\ sent' = sent /\ wire' = wire /\ bytes' = SubSeq(bytes, n + 1, Len(bytes))
  BY DEF Taking
<1>1. bytes \in Seq(Byte) /\ wire \in Seq(Byte) /\ Len(bytes) \in Nat /\ Len(wire) \in Nat
      /\ Line \in Seq(Byte) /\ Len(Line) = Len(bytes) + Len(wire)
  BY <1>0, LineIs
<1> DEFINE t == bytes'
<1>2. /\ t \in Seq(Byte) /\ Len(t) = Len(bytes) - n
      /\ \A i \in 1 .. Len(bytes) - n : t[i] = bytes[i + n]
  BY <1>0, <1>1
<1>3. Line' = t \o wire
  BY <1>0 DEF Line
<1> HIDE DEF t
<1>4. Line' \in Seq(Byte) /\ Len(Line') = Len(Line) - n
  <2>1. t \o wire \in Seq(Byte) /\ Len(t \o wire) = Len(t) + Len(wire)
    BY <1>1, <1>2, JoinedBytes
  <2>2. Len(bytes) - n + Len(wire) = Len(Line) - n
    BY <1>0, <1>1
  <2> QED
    BY <1>2, <1>3, <2>1, <2>2
<1>5. \A i \in 1 .. Len(Line') : Line'[i] = Line[i + n]
  <2> TAKE i \in 1 .. Len(Line')
  <2> DEFINE L == Len(bytes)
             W == Len(wire)
  <2>n. n \in Nat /\ 1 <= n /\ n <= L
    BY <1>0, <1>1
  <2>a. n \in Nat /\ i \in Nat /\ 1 <= i /\ 1 <= n /\ n <= L /\ L \in Nat /\ W \in Nat /\ i <= L + W - n
    BY <1>1, <1>4, <2>n
  <2>b. /\ \A j \in 1 .. L : (bytes \o wire)[j] = bytes[j]
        /\ \A j \in 1 .. W : (bytes \o wire)[L + j] = wire[j]
    BY <1>1, JoinedBytes
  <2>c. /\ \A j \in 1 .. Len(t) : (t \o wire)[j] = t[j]
        /\ \A j \in 1 .. W : (t \o wire)[Len(t) + j] = wire[j]
    BY <1>1, <1>2, JoinedBytes
  <2>d. Len(t) = L - n /\ \A j \in 1 .. L - n : t[j] = bytes[j + n]
    BY <1>2
  <2>1. CASE i <= L - n
    <3> DEFINE x == i + n
    <3>1. x \in 1 .. L /\ i \in 1 .. L - n
      BY <2>a, <2>1
    <3>2. t[i] = bytes[x]
      BY <2>d, <3>1
    <3> HIDE DEF L, W, x
    <3>3. (bytes \o wire)[x] = bytes[x] /\ (t \o wire)[i] = t[i]
      BY <2>b, <2>c, <2>d, <3>1
    <3> QED
      BY <1>3, <3>2, <3>3 DEF Line, x
  <2>2. CASE i > L - n
    <3> DEFINE j == i - (L - n)
    <3>1. j \in 1 .. W /\ L + j = i + n /\ (L - n) + j = i
      BY <2>a, <2>2
    <3> HIDE DEF L, W, j
    <3>2. (bytes \o wire)[L + j] = wire[j] /\ (t \o wire)[(L - n) + j] = wire[j]
      BY <2>b, <2>c, <2>d, <3>1
    <3> QED
      BY <1>3, <3>1, <3>2 DEF Line
  <2> QED
    BY <2>a, <2>1, <2>2
<1>6. Sent' = Sent
  BY <1>0 DEF Sent
<1>7. Sent \in Seq(Seq(Byte)) /\ Len(Sent) = Len(sent) /\ Len(sent) \in Nat
  BY <1>0, SentAre
<1>8. k \in 0 .. Len(Sent) /\ IsLine(Line, Sent, k, p)
  BY <1>0, <1>7 DEF Joint
<1>9. ShiftedLine(Byte, Line, Sent, k, p, m, n, Line')
  <2>1. n \in Nat /\ m \in k .. Len(Sent)
    BY <1>0, <1>1, <1>7
  <2> QED
    BY <1>0, <1>1, <1>4, <1>5, <1>7, <1>8, <2>1 DEF ShiftedLine, LineTypes
<1>10. \E q : IsLine(Line', Sent, m, q) /\ q[m] = p[m] - n
  BY <1>9, LineShifts
<1> QED
  BY <1>0, <1>1, <1>2, <1>4, <1>5, <1>6, <1>10 DEF t

-----------------------------------------------------------------------------
LEMMA JointPass ==
  ASSUME FrameTypes, NEW k, NEW p, Joint(k, p), PassStuffedEop
  PROVE  FrameInv'
<1> DEFINE n == PieceLen(k, p)
<1>1. /\ AtSop /\ NextEop # 0 /\ Stuffed(NextEop) /\ eopPos' = NextEop
      /\ sent' = sent /\ wire' = wire /\ bytes' = bytes /\ framesOffered' = framesOffered
  BY DEF PassStuffedEop
<1>2. Line # <<>>
  BY <1>1, LineIs DEF AtSop
<1>3. FrameEnd(Line, n) /\ n \in 1 .. Len(Line) /\ (p[k] > 0 \/ k < Len(sent))
  BY <1>2, PieceIs
<1>4. eopPos = 0 \/ Passed(n)
  BY DEF Joint
<1> HIDE DEF n
<1>5. /\ NextEop \in 3 .. n /\ NextEop <= Len(bytes) /\ bytes[NextEop] = EOP
      /\ bytes[NextEop - 1] = STF <=> NextEop < n
  BY <1>1, <1>3, <1>4, EopInPiece
<1>6. bytes[NextEop - 1] = STF /\ NextEop < n
  BY <1>1, <1>5 DEF Stuffed
<1>8. FrameTypes'
  BY <1>1, <1>3, <1>5, LineIs DEF FrameTypes
<1>9. Sent' = Sent /\ Line' = Line
  BY <1>1 DEF Sent, Line
<1>10. (PieceLen(k, p))' = PieceLen(k, p)
  BY <1>9 DEF PieceLen
<1>11. Passed(PieceLen(k, p))'
  <2>1. NextEop \in 3 .. Len(bytes)
    BY <1>5, LineIs
  <2>2. AtSop'
    BY <1>1 DEF AtSop
  <2>3. NextEop < PieceLen(k, p)
    BY <1>6 DEF n
  <2> QED
    BY <1>1, <1>5, <1>6, <1>10, <2>1, <2>2, <2>3 DEF Passed
<1>12. Joint(k, p)'
  BY <1>1, <1>3, <1>9, <1>11 DEF Joint, OfferedAre
<1> QED
  BY <1>8, <1>12 DEF FrameInv

-----------------------------------------------------------------------------
LEMMA JointOffer ==
  ASSUME FrameTypes, NEW k, NEW p, Joint(k, p), OfferFrame
  PROVE  FrameInv'
<1> DEFINE n == PieceLen(k, p)
           N == Len(sent)
           f == SubSeq(bytes, 1, NextEop)
<1>1. /\ AtSop /\ NextEop > 2 /\ ~ Stuffed(NextEop) /\ framesOffered' = Append(framesOffered, f)
      /\ bytes' = SubSeq(bytes, NextEop + 1, Len(bytes)) /\ eopPos' = 0
      /\ sent' = sent /\ wire' = wire
  BY DEF OfferFrame
<1>2. Line # <<>>
  BY <1>1, LineIs DEF AtSop
<1>3. /\ FrameEnd(Line, n) /\ n \in 1 .. Len(Line) /\ p[k] \in Nat /\ k \in 0 .. N
      /\ p[k] > 0 => n = p[k]
      /\ p[k] = 0 => /\ k < N /\ n = p[k + 1] /\ n = Len(Sent[k + 1])
                     /\ \A i \in 1 .. n : Line[i] = Sent[k + 1][i]
  BY <1>2, PieceIs
<1>4. eopPos = 0 \/ Passed(n)
  BY DEF Joint
<1> HIDE DEF n
<1>5. NextEop # 0
  BY <1>1
<1>6. /\ NextEop \in 3 .. n /\ NextEop <= Len(bytes) /\ bytes[NextEop] = EOP
      /\ bytes[NextEop - 1] = STF <=> NextEop < n
  BY <1>1, <1>3, <1>4, <1>5, EopInPiece
<1>7. NextEop = n
  <2>1. ~ (bytes[NextEop - 1] = STF)
    BY <1>1, <1>6 DEF Stuffed
  <2>2. n \in Nat
    BY <1>3, LineIs
  <2> QED
    BY <1>6, <2>1, <2>2
<1>8. n \in 1 .. Len(bytes) /\ bytes' = SubSeq(bytes, n + 1, Len(bytes)) /\ f = SubSeq(bytes, 1, n)
  BY <1>1, <1>3, <1>6, <1>7, LineIs
<1> HIDE DEF f
<1>9. f \in Seq(Byte) /\ Len(f) = n /\ \A i \in 1 .. n : f[i] = Line[i]
  <2>1. bytes \in Seq(Byte) /\ Len(bytes) \in Nat /\ \A i \in 1 .. Len(bytes) : Line[i] = bytes[i]
    BY LineIs
  <2>2. f \in Seq(Byte) /\ Len(f) = n /\ (\A i \in 1 .. n : f[i] = bytes[i]) /\ n \in Nat /\ n <= Len(bytes)
    BY <1>8, <2>1
  <2>3. \A i \in 1 .. n : f[i] = Line[i]
    <3> TAKE i \in 1 .. n
    <3>1. i \in 1 .. Len(bytes)
      BY <2>1, <2>2
    <3> QED
      BY <2>1, <2>2, <3>1
  <2> QED
    BY <2>2, <2>3
<1>10. framesOffered \in Seq(Seq(Byte)) /\ framesOffered' \in Seq(Seq(Byte))
       /\ framesOffered' = Append(framesOffered, f)
  BY <1>1, <1>9 DEF FrameTypes
<1>11. Sent \in Seq(Seq(Byte)) /\ Len(Sent) = N /\ N \in Nat
  BY SentAre
<1>12. OfferedAre(k)
  BY DEF Joint
<1>13. CASE p[k] > 0
  <2>1. k = 0 /\ framesOffered = <<>> /\ n = p[k]
    BY <1>3, <1>13 DEF Joint
  <2>2. k \in k .. N /\ n <= p[k]
    BY <1>3, <1>11, <2>1
  <2>a. Taking(k, p, k, n)
    BY <1>1, <1>8, <2>2 DEF Taking
  <2>3. /\ Sent' = Sent /\ wire' \in Seq(Byte) /\ bytes' \in Seq(Byte)
        /\ \E q : IsLine(Line', Sent, k, q) /\ q[k] = p[k] - n
    BY ONLY <2>a, JointTakes
  <2>4. PICK q : IsLine(Line', Sent, k, q) /\ q[k] = p[k] - n
    BY <2>3
  <2>5. q[k] = 0
    BY <1>3, <2>1, <2>4
  <2>6. OfferedAre(k)'
    <3>1. framesOffered' # <<>> /\ Tail(framesOffered') = <<>>
      BY <1>9, <1>10, <2>1
    <3>2. SubSeq(Sent', 1, k) = <<>>
      BY <1>11, <2>1, <2>3
    <3> QED
      BY <3>1, <3>2 DEF OfferedAre
  <2>7. FrameEnd(Line', 0)
    <3>1. Line' \in Seq(Byte)
      BY <2>3 DEF Line
    <3> QED
      BY <3>1 DEF FrameEnd
  <2>8. Joint(k, q)'
    BY <1>1, <1>3, <2>3, <2>4, <2>5, <2>6, <2>7 DEF Joint
  <2>9. FrameTypes'
    BY <1>1, <1>10, <2>3 DEF FrameTypes
  <2> QED
    BY <2>8, <2>9 DEF FrameInv
<1>14. CASE p[k] = 0
  <2> DEFINE m == k + 1
  <2>1. k < N /\ n = p[m] /\ n = Len(Sent[m]) /\ \A i \in 1 .. n : Line[i] = Sent[m][i]
    BY <1>3, <1>14
  <2>0. k \in Nat /\ k < N /\ N \in Nat
    BY <1>3, <1>11, <2>1
  <2>2. m \in k .. N /\ m \in 1 .. N /\ m - 1 = k /\ m \in 0 .. N
    <3> HIDE DEF N
    <3> QED
      BY <2>0
  <2> HIDE DEF m
  <2>a. n <= p[m] /\ p[m] - n = 0
    BY <1>3, <2>1
  <2>b. Taking(k, p, m, n)
    BY <1>1, <1>8, <2>2, <2>a DEF Taking
  <2>3. /\ Sent' = Sent /\ wire' \in Seq(Byte) /\ bytes' \in Seq(Byte)
        /\ \E q : IsLine(Line', Sent, m, q) /\ q[m] = p[m] - n
    BY ONLY <2>b, JointTakes
  <2>4. PICK q : IsLine(Line', Sent, m, q) /\ q[m] = p[m] - n
    BY <2>3
  <2>5. q[m] = 0
    BY <2>a, <2>4
  <2>6. f = Sent[m]
    <3>1. Sent[m] \in Seq(Byte)
      BY <1>11, <2>2
    <3>2. \A i \in 1 .. n : f[i] = Sent[m][i]
      BY <1>9, <2>1
    <3> QED
      BY <1>9, <2>1, <3>1, <3>2
  <2>7. SubSeq(Sent, 1, m) = Append(SubSeq(Sent, 1, k), f)
    <3> DEFINE a == SubSeq(Sent, 1, k)
               b == SubSeq(Sent, 1, m)
    <3>1. a \in Seq(Seq(Byte)) /\ Len(a) = k /\ \A i \in 1 .. k : a[i] = Sent[i]
      BY <1>3, <1>11
    <3>2. b \in Seq(Seq(Byte)) /\ Len(b) = m /\ \A i \in 1 .. m : b[i] = Sent[i]
      BY <1>11, <2>2
    <3> HIDE DEF a, b
    <3>3. \A i \in 1 .. m : Append(a, f)[i] = b[i]
      <4> TAKE i \in 1 .. m
      <4>1. i \in 1 .. k \/ i = k + 1
        BY <1>3, <2>2
      <4>2. Append(a, f)[k + 1] = f /\ \A j \in 1 .. k : Append(a, f)[j] = a[j]
        BY <1>9, <3>1
      <4>3. b[i] = Sent[i] /\ (i = k + 1 => i = m)
        BY <1>3, <2>2, <3>2
      <4> QED
        BY <2>6, <3>1, <4>1, <4>2, <4>3
    <3>4. Append(a, f) \in Seq(Seq(Byte)) /\ Len(Append(a, f)) = m
      BY <1>3, <1>9, <2>2, <3>1
    <3>5. Append(a, f) = b
      BY <3>2, <3>3, <3>4
    <3> QED
      BY <3>5 DEF a, b
  <2>8. OfferedAre(m)'
    <3> DEFINE a == SubSeq(Sent, 1, k)
    <3>1. SubSeq(Sent', 1, m) = Append(a, f)
      BY <2>3, <2>7
    <3>2. CASE framesOffered = a
      BY <1>10, <3>1, <3>2 DEF OfferedAre
    <3>3. CASE framesOffered # <<>> /\ Tail(framesOffered) = a
      <4>1. framesOffered' # <<>> /\ Tail(framesOffered') = Append(Tail(framesOffered), f)
        <5>1. f \in Seq(Byte) /\ framesOffered \in Seq(Seq(Byte)) /\ framesOffered # <<>>
          BY <1>9, <1>10, <3>3
        <5>2. Append(framesOffered, f) # <<>>
              /\ Tail(Append(framesOffered, f)) = Append(Tail(framesOffered), f)
          BY ONLY <5>1, TailAppended
        <5> QED
          BY <1>10, <5>2
      <4> QED
        BY <3>1, <3>3, <4>1 DEF OfferedAre
    <3> QED
      BY <1>12, <3>2, <3>3 DEF OfferedAre
  <2>9. FrameEnd(Line', 0)
    <3>1. Line' \in Seq(Byte)
      BY <2>3 DEF Line
    <3> QED
      BY <3>1 DEF FrameEnd
  <2>10. Joint(m, q)'
    BY <1>1, <2>2, <2>3, <2>4, <2>5, <2>8, <2>9 DEF Joint
  <2>11. FrameTypes'
    BY <1>1, <1>10, <2>3 DEF FrameTypes
  <2> QED
    BY <2>10, <2>11 DEF FrameInv
<1> QED
  BY <1>3, <1>13, <1>14

-----------------------------------------------------------------------------
LEMMA JointSkip ==
  ASSUME FrameTypes, NEW k, NEW p, Joint(k, p), SkipByte
  PROVE  FrameInv'
<1> DEFINE n == PieceLen(k, p)
           N == Len(sent)
<1>1. /\ bytes # <<>> /\ (AtSop => NextEop = 2) /\ bytes' = Tail(bytes) /\ eopPos' = 0
      /\ sent' = sent /\ wire' = wire /\ framesOffered' = framesOffered
  BY DEF SkipByte
<1>2. Line # <<>> /\ 1 \in 1 .. Len(bytes) /\ Len(bytes) \in Nat /\ Line[1] = bytes[1] /\ bytes \in Seq(Byte)
  BY <1>1, LineIs
<1>3. /\ FrameEnd(Line, n) /\ n \in 1 .. Len(Line) /\ p[k] \in Nat /\ k \in 0 .. N
      /\ p[k] > 0 => n = p[k]
      /\ p[k] = 0 => Line[1] = SOP
  BY <1>2, PieceIs
<1>4. eopPos = 0 \/ Passed(n)
  BY DEF Joint
<1>a. N \in Nat
  BY SentAre
<1> HIDE DEF n
<1>5. ~ AtSop
  <2> SUFFICES ASSUME AtSop PROVE FALSE
    OBVIOUS
  <2>1. NextEop = 2 /\ NextEop # 0
    BY <1>1
  <2>2. NextEop \in 3 .. n
    BY <1>3, <1>4, <2>1, EopInPiece
  <2> QED
    BY <1>3, <2>1, <2>2
<1>6. Line[1] # SOP
  BY <1>1, <1>2, <1>5 DEF AtSop
<1>7. p[k] > 0 /\ n = p[k] /\ 1 <= p[k]
  BY <1>3, <1>6
<1>8. k \in k .. N
  BY <1>3, <1>a
<1>9. bytes' = SubSeq(bytes, 1 + 1, Len(bytes))
  BY <1>1, <1>2
<1>10. /\ Sent' = Sent /\ wire' \in Seq(Byte) /\ bytes' \in Seq(Byte)
       /\ \E q : IsLine(Line', Sent, k, q) /\ q[k] = p[k] - 1
       /\ Line' \in Seq(Byte) /\ Len(Line') = Len(Line) - 1
       /\ \A i \in 1 .. Len(Line') : Line'[i] = Line[i + 1]
  <2>1. Taking(k, p, k, 1)
    BY <1>1, <1>2, <1>7, <1>8, <1>9 DEF Taking
  <2> QED
    BY ONLY <2>1, JointTakes
<1>11. PICK q : IsLine(Line', Sent, k, q) /\ q[k] = p[k] - 1
  BY <1>10
<1>12. FrameEnd(Line', n - 1)
  <2> DEFINE t == Line'
             L == Len(Line)
  <2>1. /\ n \in 0 .. L /\ Line[n] = EOP /\ (n > 1 => Line[n - 1] \notin Special)
        /\ \A i \in 2 .. n - 1 : Line[i] = EOP => Line[i - 1] = STF
    BY <1>3 DEF FrameEnd
  <2>2. L \in Nat /\ Len(t) = L - 1 /\ (\A i \in 1 .. L - 1 : t[i] = Line[i + 1]) /\ n \in 1 .. L
    BY <1>3, <1>10, LineIs
  <2> HIDE DEF t, L
  <2> DEFINE x == n - 1
  <2>3. x \in 0 .. Len(t) /\ x + 1 = n /\ x \in Nat
    BY <2>2
  <2>4. \A i \in 1 .. x : t[i] = Line[i + 1]
    BY <2>2
  <2> HIDE DEF x
  <2>5. x > 0 => t[x] = EOP
    BY <2>1, <2>3, <2>4
  <2>6. x > 1 => t[x - 1] \notin Special
    <3> SUFFICES ASSUME x > 1 PROVE t[x - 1] \notin Special
      OBVIOUS
    <3> DEFINE y == x - 1
    <3>1. y \in 1 .. x /\ y + 1 = n - 1 /\ n > 1
      BY <2>2, <2>3
    <3> HIDE DEF y
    <3>2. t[y] = Line[y + 1]
      BY <2>4, <3>1
    <3> QED
      BY <2>1, <3>1, <3>2 DEF y
  <2>7. ASSUME NEW i \in 2 .. x - 1, t[i] = EOP
        PROVE  t[i - 1] = STF
    <3> DEFINE y == i - 1
               z == i + 1
    <3>1. y \in 1 .. x /\ y + 1 = i /\ z - 1 = i /\ i \in 1 .. x /\ z \in 2 .. n - 1
      BY <2>2, <2>3
    <3>2. t[i] = Line[z]
      BY <2>4, <3>1
    <3> HIDE DEF y, z
    <3>3. Line[z - 1] = STF
      BY <2>1, <2>7, <3>1, <3>2
    <3>4. t[y] = Line[y + 1]
      BY <2>4, <3>1
    <3> QED
      BY <3>1, <3>3, <3>4 DEF y
  <2> QED
    BY <2>3, <2>5, <2>6, <2>7 DEF FrameEnd, x, t
<1>13. FrameEnd(Line', q[k])
  BY <1>7, <1>11, <1>12
<1>14. k = 0 /\ framesOffered = <<>>
  BY <1>7 DEF Joint
<1>15. OfferedAre(k)'
  BY <1>1, <1>10 DEF Joint, OfferedAre
<1>16. Joint(k, q)'
  BY <1>1, <1>3, <1>10, <1>11, <1>13, <1>14, <1>15 DEF Joint
<1>17. FrameTypes'
  BY <1>1, <1>10 DEF FrameTypes
<1> QED
  BY <1>16, <1>17 DEF FrameInv

-----------------------------------------------------------------------------
LEMMA JointStep == FrameInv /\ [FrameNext]_frameVars => FrameInv'
<1> SUFFICES ASSUME FrameTypes, NEW k, NEW p, Joint(k, p), [FrameNext]_frameVars
             PROVE  FrameInv'
  BY DEF FrameInv
<1>1. CASE FrameSend
  BY <1>1, JointSend
<1>2. CASE FrameArrive
  BY <1>2, JointArrive
<1>3. CASE PassStuffedEop
  BY <1>3, JointPass
<1>4. CASE OfferFrame
  BY <1>4, JointOffer
<1>5. CASE SkipByte
  BY <1>5, JointSkip
<1>6. CASE UNCHANGED frameVars
  <2>1. sent' = sent /\ wire' = wire /\ bytes' = bytes /\ eopPos' = eopPos /\ framesOffered' = framesOffered
    BY <1>6 DEF frameVars
  <2>2. Sent' = Sent /\ Line' = Line
    BY <2>1 DEF Sent, Line
  <2>3. (PieceLen(k, p))' = PieceLen(k, p)
    BY <2>2 DEF PieceLen
  <2>4. Joint(k, p)'
    BY <2>1, <2>2, <2>3 DEF Joint, OfferedAre, Passed, AtSop
  <2>5. FrameTypes'
    BY <2>1 DEF FrameTypes
  <2> QED
    BY <2>4, <2>5 DEF FrameInv
<1> QED
  BY <1>1, <1>2, <1>3, <1>4, <1>5, <1>6 DEF FrameNext, Scan

\* What PDI requests pack comes out of the listener whole and in order, behind one fragment
\* at most, and none stays behind; checksums match on both ends, and a payload whose stuff
\* bytes stand alone is unpacked as it was packed.
THEOREM FramesAreSafe == FrameSpec => []FrameSafety
<1>1. FrameSpec => []FrameInv
  BY JointStart, JointStep, PTL DEF FrameSpec
<1>2. FrameInv => FrameSafety
  BY JointMeans, PackingMeans DEF FrameInv, FrameSafety
<1> QED
  BY <1>1, <1>2, PTL

\* The listener's state has its type, and eop_pos stands on a stuffed EOP of a frame.
THEOREM FramesTypeCorrect == FrameSpec => []FrameTypeOK
<1>1. FrameSpec => []FrameInv
  BY JointStart, JointStep, PTL DEF FrameSpec
<1>2. FrameInv => FrameTypeOK
  BY JointMeans
<1> QED
  BY <1>1, <1>2, PTL

-----------------------------------------------------------------------------
(* The dispatcher                                                          *)

\* CommandDispatch
USE DEF queueVars, callVars, subVars

\* What a command is published to is a sequence of sets of topics.
LEMMA PlanType ==
  ASSUME NEW c \in Commands
  PROVE  Plan(c) \in Seq(SUBSET Topics)
<1>1. CASE c \in Halts
  <2>1. Reach[c] \in SUBSET Topics
    BY <1>1, DispatchAssumption
  <2>2. <<Reach[c]>> \in Seq(SUBSET Topics)
    BY <2>1
  <2>3. <<>> \in Seq(SUBSET Topics)
    OBVIOUS
  <2>4. Plan(c) = <<>> \/ Plan(c) = <<Reach[c]>>
    BY <1>1 DEF Plan
  <2> QED
    BY <2>2, <2>3, <2>4
<1>2. CASE c \notin Halts
  <2>1. Route[c] \in Seq(Topics)
    BY DispatchAssumption
  <2>2. \A i \in DOMAIN Route[c] : Route[c][i] \in Topics
    BY <2>1
  <2>3. DOMAIN Route[c] = 1 .. Len(Route[c]) /\ Len(Route[c]) \in Nat
    BY <2>1
  <2>4. [i \in DOMAIN Route[c] |-> {Route[c][i]}] \in [1 .. Len(Route[c]) -> SUBSET Topics]
    BY <2>2, <2>3
  <2> HIDE DEF Plan
  <2>5. Plan(c) \in [1 .. Len(Route[c]) -> SUBSET Topics]
    BY <1>2, <2>4 DEF Plan
  <2> QED
    BY <2>3, <2>5
<1> QED
  BY <1>1, <1>2

LEMMA TypeInit == Init => TypeOK
<1> SUFFICES ASSUME Init PROVE TypeOK
  OBVIOUS
<1>1. /\ queue \in Seq(Commands) /\ Len(queue) <= QueueSize
      /\ plan \in Seq(SUBSET Topics) /\ mirrored \in Seq(Commands)
  BY DispatchAssumption DEF Init
<1>2. /\ op \in [Offerers -> Commands \union {Nobody}]
      /\ \A o \in Offerers : cv = o <=> op[o] # Nobody
  BY DispatchAssumption DEF Init
<1>3. /\ subs \in [Topics -> SUBSET Subscribers]
      /\ got \in [Subscribers -> Seq(Commands)]
  BY DEF Init
<1>4. changes \in 0 .. MaxChanges
  BY DispatchAssumption DEF Init
<1> QED
  BY <1>1, <1>2, <1>3, <1>4 DEF Init, TypeOK

LEMMA TypeStep == TypeOK /\ [Next]_vars => TypeOK'
<1> USE DispatchAssumption
<1> SUFFICES ASSUME TypeOK, [Next]_vars
             PROVE  TypeOK'
  OBVIOUS
<1>1. ASSUME NEW o \in Offerers, OfferLock(o)
      PROVE  TypeOK'
  BY <1>1 DEF TypeOK, OfferLock
<1>2. ASSUME NEW o \in Offerers, OfferPut(o)
      PROVE  TypeOK'
  BY <1>2 DEF TypeOK, OfferPut, HasRoom, Waking
<1>3. CASE Shutdown
  BY <1>3 DEF TypeOK, Shutdown, Waking
<1>4. CASE Top
  BY <1>4 DEF TypeOK, Top
<1>5. CASE Enter
  BY <1>5 DEF TypeOK, Enter, MustWait
<1>6. CASE Wake
  BY <1>6 DEF TypeOK, Wake
<1>7. CASE Take
  <2>1. CASE queue = <<>>
    BY <1>7, <2>1 DEF TypeOK, Take
  <2>2. CASE queue # <<>>
    <3>1. Head(queue) \in Commands /\ Tail(queue) \in Seq(Commands)
      BY <2>2 DEF TypeOK
    <3>2. Len(Tail(queue)) <= QueueSize
      BY <2>2 DEF TypeOK
    <3>3. Plan(Head(queue)) \in Seq(SUBSET Topics)
      BY <3>1, PlanType
    <3> QED
      BY <1>7, <2>2, <3>1, <3>2, <3>3 DEF TypeOK, Take
  <2> QED
    BY <2>1, <2>2
<1>8. CASE Publish
  BY <1>8 DEF TypeOK, Publish
<1>9. CASE Call
  BY <1>9 DEF TypeOK, Call
<1>10. CASE Release
  BY <1>10 DEF TypeOK, Release
<1>11. CASE Air
  <2>1. <<{Broadcast}>> \in Seq(SUBSET Topics) /\ <<>> \in Seq(SUBSET Topics)
    OBVIOUS
  <2> QED
    BY <1>11, <2>1 DEF TypeOK, Air
<1>12. CASE Mirror
  BY <1>12 DEF TypeOK, Mirror
<1>13. CASE ImpactFails
  BY <1>13 DEF TypeOK, ImpactFails
<1>14. ASSUME NEW s \in Subscribers, NEW t \in Topics, Subscribe(s, t)
       PROVE  TypeOK'
  BY <1>14 DEF TypeOK, Subscribe
<1>15. ASSUME NEW s \in Subscribers, NEW t \in Topics, Unsubscribe(s, t)
       PROVE  TypeOK'
  <2>1. broadcasts' \in BOOLEAN
    BY <1>15 DEF TypeOK, Unsubscribe
  <2>2. subs' \in [Topics -> SUBSET Subscribers] /\ changes' \in 0 .. MaxChanges
    BY <1>15 DEF TypeOK, Unsubscribe
  <2> QED
    BY <1>15, <2>1, <2>2 DEF TypeOK, Unsubscribe
<1>16. CASE UNCHANGED vars
  BY <1>16 DEF TypeOK, vars
<1> QED
  BY <1>1, <1>2, <1>3, <1>4, <1>5, <1>6, <1>7, <1>8, <1>9, <1>10, <1>11,
     <1>12, <1>13, <1>14, <1>15, <1>16 DEF Next, DispatcherStep

\* The variables have their types in every reachable state: the queue stays
\* within its size and the locks are held exactly where the code holds them.
THEOREM TypeCorrect == Spec => []TypeOK
<1> QED
  BY TypeInit, TypeStep, PTL DEF Spec

-----------------------------------------------------------------------------
(* Waiting and notifying                                                    *)

LEMMA WakeupStep == TypeOK /\ NoLostWakeup /\ [Next]_vars => NoLostWakeup'
<1> SUFFICES ASSUME TypeOK, NoLostWakeup, [Next]_vars
             PROVE  NoLostWakeup'
  OBVIOUS
<1>1. ASSUME NEW o \in Offerers, OfferLock(o)
      PROVE  NoLostWakeup'
  BY <1>1 DEF NoLostWakeup, OfferLock
<1>2. ASSUME NEW o \in Offerers, OfferPut(o)
      PROVE  NoLostWakeup'
  BY <1>2 DEF NoLostWakeup, OfferPut, Waking
<1>3. CASE Shutdown
  BY <1>3 DEF NoLostWakeup, Shutdown
<1>4. CASE Top \/ Enter \/ Wake
  BY <1>4 DEF NoLostWakeup, Top, Enter, Wake, MustWait
<1>5. CASE Take
  BY <1>5 DEF NoLostWakeup, Take
<1>6. CASE Publish \/ Call \/ Release
  BY <1>6 DEF NoLostWakeup, Publish, Call, Release
<1>7. CASE Air \/ Mirror \/ ImpactFails
  BY <1>7 DEF NoLostWakeup, Air, Mirror, ImpactFails
<1>8. ASSUME NEW s \in Subscribers, NEW t \in Topics,
             Subscribe(s, t) \/ Unsubscribe(s, t)
      PROVE  NoLostWakeup'
  BY <1>8 DEF NoLostWakeup, Subscribe, Unsubscribe
<1>9. CASE UNCHANGED vars
  BY <1>9 DEF NoLostWakeup, vars
<1> QED
  BY <1>1, <1>2, <1>3, <1>4, <1>5, <1>6, <1>7, <1>8, <1>9
     DEF Next, DispatcherStep

\* The dispatcher never sleeps on a command that was offered: put and notify_all
\* happen in one hold of the lock that guards its test and its wait.
THEOREM OfferedCommandsWakeTheDispatcher == Spec => []NoLostWakeup
<1>1. Init => NoLostWakeup
  BY DEF Init, NoLostWakeup
<1> QED
  BY <1>1, TypeCorrect, WakeupStep, PTL DEF Spec

-----------------------------------------------------------------------------
(* Where an offered command is                                              *)

ItemsIn(s) == {s[i] : i \in 1 .. Len(s)}
Once(s) == \A i, j \in 1 .. Len(s) : s[i] = s[j] => i = j

LEMMA OneMoreItem ==
  ASSUME NEW S, NEW s \in Seq(S), NEW x \in S
  PROVE  /\ ItemsIn(Append(s, x)) = ItemsIn(s) \cup {x}
         /\ Once(s) /\ x \notin ItemsIn(s) => Once(Append(s, x))
<1> DEFINE t == Append(s, x)
<1>1. /\ Len(s) \in Nat /\ Len(t) = Len(s) + 1 /\ t[Len(s) + 1] = x
      /\ \A i \in 1 .. Len(s) : t[i] = s[i]
  OBVIOUS
<1>2. \A i : i \in 1 .. Len(t) <=> i \in 1 .. Len(s) \/ i = Len(s) + 1
  BY <1>1
<1>3. Len(s) + 1 \notin 1 .. Len(s)
  BY <1>1
<1> HIDE DEF t
<1>4. ItemsIn(t) = ItemsIn(s) \cup {x}
  <2>1. ItemsIn(t) \subseteq ItemsIn(s) \cup {x}
    BY <1>1, <1>2 DEF ItemsIn
  <2>2. ItemsIn(s) \subseteq ItemsIn(t)
    BY <1>1, <1>2 DEF ItemsIn
  <2>3. x \in ItemsIn(t)
    BY <1>1, <1>2 DEF ItemsIn
  <2> QED
    BY <2>1, <2>2, <2>3
<1>5. ASSUME Once(s), x \notin ItemsIn(s), NEW i \in 1 .. Len(t), NEW j \in 1 .. Len(t), t[i] = t[j]
      PROVE  i = j
  BY <1>1, <1>2, <1>3, <1>5 DEF Once, ItemsIn
<1> QED
  BY <1>4, <1>5 DEF Once, t

LEMMA OneItemLess ==
  ASSUME NEW S, NEW s \in Seq(S), s # <<>>
  PROVE  /\ ItemsIn(s) = ItemsIn(Tail(s)) \cup {Head(s)}
         /\ Once(s) => Once(Tail(s)) /\ Head(s) \notin ItemsIn(Tail(s))
<1> DEFINE t == Tail(s)
<1>1. /\ Len(s) \in Nat /\ Len(s) > 0 /\ Len(t) = Len(s) - 1 /\ s[1] = Head(s)
      /\ \A i \in 1 .. Len(t) : t[i] = s[i + 1]
  OBVIOUS
<1>2. \A i \in 1 .. Len(t) : i + 1 \in 1 .. Len(s) /\ i + 1 # 1
  BY <1>1
<1>3. \A i \in 1 .. Len(s) : i = 1 \/ (i - 1 \in 1 .. Len(t) /\ t[i - 1] = s[i])
  BY <1>1
<1>4. 1 \in 1 .. Len(s)
  BY <1>1
<1> HIDE DEF t
<1>5. ItemsIn(s) = ItemsIn(t) \cup {Head(s)}
  <2>1. ItemsIn(s) \subseteq ItemsIn(t) \cup {Head(s)}
    BY <1>1, <1>3 DEF ItemsIn
  <2>2. ItemsIn(t) \subseteq ItemsIn(s)
    BY <1>1, <1>2 DEF ItemsIn
  <2>3. Head(s) \in ItemsIn(s)
    BY <1>1, <1>4 DEF ItemsIn
  <2> QED
    BY <2>1, <2>2, <2>3
<1>6. ASSUME Once(s) PROVE Once(t) /\ Head(s) \notin ItemsIn(t)
  <2>1. ASSUME NEW i \in 1 .. Len(t), NEW j \in 1 .. Len(t), t[i] = t[j]
        PROVE  i = j
    <3>1. s[i + 1] = s[j + 1]
      BY <1>1, <2>1
    <3>2. i + 1 = j + 1
      BY <1>2, <1>6, <3>1 DEF Once
    <3> QED
      BY <3>2
  <2>2. ASSUME NEW i \in 1 .. Len(t), t[i] = Head(s)
        PROVE  FALSE
    BY <1>1, <1>2, <1>4, <1>6, <2>2 DEF Once
  <2> QED
    BY <2>1, <2>2 DEF Once, ItemsIn
<1> QED
  BY <1>5, <1>6 DEF t

\* Each command that was offered is in one place at most: with an offerer, in the queue, in
\* the dispatcher's hands or sent to the clients.
InOnePlace ==
  /\ \A o \in Offerers : op[o] # Nobody =>
       op[o] \in offered /\ op[o] # cmd /\ op[o] \notin ItemsIn(queue) \cup ItemsIn(mirrored)
  /\ ItemsIn(queue) \cup ItemsIn(mirrored) \subseteq offered
  /\ ItemsIn(queue) \cap ItemsIn(mirrored) = {}
  /\ cmd # Nobody => cmd \in offered \ (ItemsIn(queue) \cup ItemsIn(mirrored))
  /\ Once(queue) /\ Once(mirrored)
\* Nor is it lost.
InSomePlace ==
  \A c \in offered \ (Muted \cup Fragile) :
    cmd = c \/ (\E o \in Offerers : op[o] = c) \/ c \in ItemsIn(queue) \cup ItemsIn(mirrored)

PlaceInv == InOnePlace /\ InSomePlace

LEMMA PlaceStep == TypeOK /\ PlaceInv /\ [Next]_vars => PlaceInv'
<1> SUFFICES ASSUME TypeOK, PlaceInv, [Next]_vars PROVE PlaceInv'
  OBVIOUS
<1> USE DEF PlaceInv, InOnePlace, InSomePlace
<1>0. queue \in Seq(Commands) /\ mirrored \in Seq(Commands) /\ Nobody \notin Commands
  BY DispatchAssumption DEF TypeOK
<1>1. ASSUME NEW o \in Offerers, OfferLock(o)
      PROVE  PlaceInv'
  <2>1. PICK c \in Commands \ offered : op' = [op EXCEPT ![o] = c] /\ offered' = offered \union {c}
    BY <1>1 DEF OfferLock
  <2>2. op'[o] = c /\ \A u \in Offerers : u # o => op'[u] = op[u]
    BY <2>1 DEF TypeOK
  <2>3. op[o] = Nobody /\ UNCHANGED <<queue, cmd, mirrored>>
    BY <1>1 DEF OfferLock
  <2>4. c # cmd
    BY <1>0, <2>1
  <2> QED
    <3>1. /\ ItemsIn(queue') = ItemsIn(queue) /\ Once(queue')
          /\ ItemsIn(mirrored') = ItemsIn(mirrored) /\ Once(mirrored')
      BY <2>3
    <3>2. \A u \in Offerers : u # o => op[u] = Nobody
      BY <1>1, DispatchAssumption DEF OfferLock, TypeOK
    <3>3. InOnePlace'
      BY <1>0, <2>1, <2>2, <2>3, <2>4, <3>1, <3>2
    <3>4. \A u \in Offerers, d \in offered : op[u] = d => op'[u] = d
      BY <1>0, <2>2, <2>3 DEF TypeOK
    <3>5. InSomePlace'
      BY <2>1, <2>2, <2>3, <3>1, <3>4
    <3> QED
      BY <3>3, <3>5
<1>2. ASSUME NEW o \in Offerers, OfferPut(o)
      PROVE  PlaceInv'
  <2>1. op[o] \in Commands /\ op[o] # Nobody /\ queue' = Append(queue, op[o]) /\ op' = [op EXCEPT ![o] = Nobody]
        /\ UNCHANGED <<offered, cmd, mirrored>>
    BY <1>2 DEF OfferPut, TypeOK
  <2>2. op'[o] = Nobody /\ \A u \in Offerers : u # o => op'[u] = op[u]
    BY <2>1 DEF TypeOK
  <2>3. \A u \in Offerers : u # o => op[u] = Nobody
    BY <1>2 DEF OfferPut, TypeOK
  <2>4. ItemsIn(queue') = ItemsIn(queue) \cup {op[o]} /\ Once(queue')
    BY <1>0, <2>1, OneMoreItem
  <2>5. ItemsIn(mirrored') = ItemsIn(mirrored) /\ Once(mirrored')
    BY <2>1
  <2>6. InOnePlace'
    BY <2>1, <2>2, <2>3, <2>4, <2>5
  <2>7. InSomePlace'
    BY <2>1, <2>2, <2>3, <2>4, <2>5
  <2> QED
    BY <2>6, <2>7
<1>3. CASE Take /\ queue # <<>>
  <2>1. /\ queue' = Tail(queue) /\ cmd' = Head(queue) /\ cmd = Nobody
        /\ UNCHANGED <<op, offered, mirrored>>
    BY <1>3 DEF Take, TypeOK
  <2>2. /\ ItemsIn(queue) = ItemsIn(queue') \cup {cmd'}
        /\ Once(queue') /\ cmd' \notin ItemsIn(queue')
    BY <1>0, <1>3, <2>1, OneItemLess
  <2>3. cmd' \in Commands
    BY <1>0, <1>3, <2>1
  <2>4. ItemsIn(mirrored') = ItemsIn(mirrored) /\ Once(mirrored')
    BY <2>1
  <2>5. \A c \in Commands : cmd # c
    BY <1>0, <2>1
  <2>6. InOnePlace'
    BY <1>0, <2>1, <2>2, <2>3, <2>4
  <2>7. offered \subseteq Commands
    BY DEF TypeOK
  <2>8. InSomePlace'
    BY <2>1, <2>2, <2>4, <2>5, <2>7
  <2> QED
    BY <2>6, <2>8
<1>4. CASE Mirror
  <2>1. /\ cmd \in Commands /\ cmd' = Nobody
        /\ mirrored' = IF cmd \in Muted THEN mirrored ELSE Append(mirrored, cmd)
        /\ UNCHANGED <<queue, op, offered>>
    BY <1>4 DEF Mirror, TypeOK
  <2>2. cmd # Nobody /\ offered \subseteq Commands
    BY <1>0, <2>1 DEF TypeOK
  <2>3. ItemsIn(queue') = ItemsIn(queue) /\ Once(queue')
    BY <2>1
  <2>4. CASE cmd \in Muted
    <3>1. ItemsIn(mirrored') = ItemsIn(mirrored) /\ Once(mirrored')
      BY <2>1, <2>4
    <3> QED
      BY <1>0, <2>1, <2>2, <2>3, <2>4, <3>1
  <2>5. CASE cmd \notin Muted
    <3>1. ItemsIn(mirrored') = ItemsIn(mirrored) \cup {cmd} /\ Once(mirrored')
      BY <1>0, <2>1, <2>2, <2>5, OneMoreItem
    <3> QED
      BY <1>0, <2>1, <2>2, <2>3, <2>5, <3>1
  <2> QED
    BY <2>4, <2>5
<1>5. CASE ImpactFails
  <2>1. /\ cmd \in Fragile /\ cmd' = Nobody /\ UNCHANGED <<queue, op, offered, mirrored>>
    BY <1>5 DEF ImpactFails
  <2>2. /\ ItemsIn(queue') = ItemsIn(queue) /\ Once(queue')
        /\ ItemsIn(mirrored') = ItemsIn(mirrored) /\ Once(mirrored')
    BY <2>1
  <2> QED
    BY <2>1, <2>2
<1>6. ASSUME UNCHANGED <<queue, op, offered, cmd, mirrored>>
      PROVE  PlaceInv'
  <2>1. /\ ItemsIn(queue') = ItemsIn(queue) /\ Once(queue')
        /\ ItemsIn(mirrored') = ItemsIn(mirrored) /\ Once(mirrored')
    BY <1>6
  <2> QED
    BY <1>6, <2>1
<1>7. CASE Take /\ queue = <<>>
  BY <1>6, <1>7 DEF Take
<1>8. CASE Shutdown \/ Top \/ Enter \/ Wake \/ Publish \/ Call \/ Release \/ Air
  BY <1>6, <1>8 DEF Shutdown, Top, Enter, Wake, Publish, Call, Release, Air
<1>9. ASSUME NEW s \in Subscribers, NEW t \in Topics, Subscribe(s, t) \/ Unsubscribe(s, t)
      PROVE  PlaceInv'
  BY <1>6, <1>9 DEF Subscribe, Unsubscribe
<1>10. CASE UNCHANGED vars
  BY <1>6, <1>10 DEF vars
<1> QED
  BY <1>1, <1>2, <1>3, <1>4, <1>5, <1>7, <1>8, <1>9, <1>10 DEF Next, DispatcherStep

LEMMA PlaceInvariance == Spec => []PlaceInv
<1>1. Init => PlaceInv
  <2> SUFFICES ASSUME Init PROVE PlaceInv
    OBVIOUS
  <2>1. queue = <<>> /\ mirrored = <<>> /\ offered = {} /\ cmd = Nobody /\ op = [o \in Offerers |-> Nobody]
    BY DEF Init
  <2>2. ItemsIn(queue) = {} /\ ItemsIn(mirrored) = {} /\ Once(queue) /\ Once(mirrored)
    BY <2>1 DEF ItemsIn, Once
  <2> QED
    BY <2>1, <2>2 DEF PlaceInv, InOnePlace, InSomePlace
<1> QED
  BY <1>1, TypeCorrect, PlaceStep, PTL DEF Spec

\* No command is lost between a listener and the clients, nor sent to them twice, whoever
\* offers, subscribes or shuts the dispatcher down: CommandDispatcher drops what it filters,
\* and what the query of the Base fails for, and nothing else.
THEOREM OffersComeThroughOnce == Spec => [](OffersAreKept /\ ClientsHearOnce)
<1>1. TypeOK /\ PlaceInv => OffersAreKept /\ ClientsHearOnce
  <2> SUFFICES ASSUME TypeOK, PlaceInv PROVE OffersAreKept /\ ClientsHearOnce
    OBVIOUS
  <2>1. DOMAIN queue = 1 .. Len(queue) /\ DOMAIN mirrored = 1 .. Len(mirrored)
    BY DEF TypeOK
  <2> QED
    BY <2>1 DEF PlaceInv, InOnePlace, InSomePlace, ItemsIn, Once, OffersAreKept, ClientsHearOnce
<1> QED
  BY <1>1, TypeCorrect, PlaceInvariance, PTL

\* A queue in which all commands that can arrive find room never blocks an offerer, who would
\* hold the lock the dispatcher needs (offer's put under _cv): the run dispatch_full_queue
\* has a smaller one.
THEOREM RoomForAllIsEnough ==
  ASSUME IsFiniteSet(Commands), Cardinality(Commands) <= QueueSize
  PROVE  Spec => []OffersFindRoom
<1>1. TypeOK /\ PlaceInv => OffersFindRoom
  <2> SUFFICES ASSUME TypeOK, PlaceInv, NEW o \in Offerers, op[o] # Nobody
               PROVE  Len(queue) < QueueSize
    BY DEF OffersFindRoom, HasRoom
  <2> DEFINE others == Commands \ {op[o]}
             places == 1 .. Len(queue)
  <2>1. op[o] \in Commands /\ queue \in Seq(Commands) /\ Len(queue) \in Nat
    BY DEF TypeOK
  <2>2. IsFiniteSet(others) /\ Cardinality(others) = Cardinality(Commands) - 1
    BY <2>1, FS_RemoveElement
  <2>3. \A i \in places : queue[i] \in others
    BY <2>1 DEF PlaceInv, InOnePlace, ItemsIn
  <2>4. queue \in Injection(places, others)
    <3>1. queue \in [places -> others]
      BY <2>1, <2>3
    <3>2. \A i, j \in places : queue[i] = queue[j] => i = j
      BY DEF PlaceInv, InOnePlace, Once
    <3> HIDE DEF others, places
    <3> QED
      BY <3>1, <3>2 DEF Injection, IsInjective
  <2>5. Cardinality(places) <= Cardinality(others)
    <3> HIDE DEF others, places
    <3> QED
      BY <2>2, <2>4, FS_Injection
  <2>6. Cardinality(places) = Len(queue)
    <3>1. Cardinality(1 .. Len(queue)) = IF 1 > Len(queue) THEN 0 ELSE Len(queue) - 1 + 1
      BY <2>1, FS_Interval
    <3> QED
      BY <2>1, <3>1
  <2>7. Cardinality(Commands) \in Nat
    BY FS_CardinalityType
  <2>8. QueueSize \in Nat
    BY DispatchAssumption
  <2> HIDE DEF others, places
  <2> QED
    BY <2>1, <2>2, <2>5, <2>6, <2>7, <2>8
<1> QED
  BY <1>1, TypeCorrect, PlaceInvariance, PTL

-----------------------------------------------------------------------------
(* Publication and subscription.  A halt is published in one turn that     *)
(* covers Reach; during that turn, whoever is subscribed has been called or *)
(* is about to be.                                                          *)

\* Before its turn a halt is planned for all of Reach at once, and during it
\* every subscriber has been called or is still on the list.
HaltPlan ==
  cmd \in Halts /\ pc = "publish" /\ plan # <<>> /\ ~aired => plan = <<Reach[cmd]>>

HaltTurn ==
  cmd \in Halts /\ pc = "calling" /\ ~aired
    => /\ plan = <<>>
       /\ \A t \in Reach[cmd] : \A s \in subs[t] :
            \/ <<t, s>> \in calls
            \/ \E i \in DOMAIN got[s] : got[s][i] = cmd

PublishInv == TypeOK /\ NobodyCalledAfterUnsubscribe /\ HaltPlan /\ HaltTurn

LEMMA PublishStep == PublishInv /\ [Next]_vars => PublishInv'
<1> USE DispatchAssumption
<1> SUFFICES ASSUME PublishInv, [Next]_vars
             PROVE  PublishInv'
  OBVIOUS
<1>0. TypeOK /\ TypeOK'
  BY TypeStep DEF PublishInv
<1> USE DEF NobodyCalledAfterUnsubscribe, HaltPlan, HaltTurn
<1>1. ASSUME NEW o \in Offerers, OfferLock(o) \/ OfferPut(o)
      PROVE  PublishInv'
  BY <1>0, <1>1 DEF PublishInv, OfferLock, OfferPut
<1>2. CASE Shutdown \/ Top \/ Enter \/ Wake
  BY <1>0, <1>2 DEF PublishInv, Shutdown, Top, Enter, Wake
<1>3. CASE Take
  <2>1. CASE queue = <<>>
    BY <1>0, <1>3, <2>1 DEF PublishInv, Take
  <2>2. CASE queue # <<>>
    <3>1. HaltPlan'
      BY <1>3, <2>2 DEF Take, Plan
    <3> QED
      BY <1>0, <1>3, <2>2, <3>1 DEF PublishInv, Take
  <2> QED
    BY <2>1, <2>2
<1>4. CASE Publish
  <2>1. NobodyCalledAfterUnsubscribe'
    BY <1>4 DEF Publish
  <2>2. HaltTurn'
    <3> SUFFICES ASSUME cmd \in Halts, ~aired
                 PROVE  /\ plan' = <<>>
                        /\ \A t \in Reach[cmd] : \A s \in subs[t] :
                             <<t, s>> \in calls'
      BY <1>4 DEF Publish
    <3>1. plan = <<Reach[cmd]>>
      BY <1>4 DEF PublishInv, Publish
    <3>2. \A t \in Reach[cmd] : t \in Topics /\ subs[t] \subseteq Subscribers
      BY <1>0 DEF TypeOK
    <3>3. Head(plan) = Reach[cmd] /\ Tail(plan) = <<>>
      BY <3>1
    <3> QED
      BY <1>4, <3>2, <3>3 DEF Publish
  <2> QED
    BY <1>0, <1>4, <2>1, <2>2 DEF PublishInv, Publish
<1>5. CASE Call
  <2>1. PICK ts \in calls : /\ got' = [got EXCEPT ![ts[2]] = Append(@, cmd)]
                            /\ calls' = calls \ {ts}
    BY <1>5 DEF Call
  <2>2. NobodyCalledAfterUnsubscribe'
    BY <1>5, <2>1 DEF Call, PublishInv
  <2>3. ts \in Topics \X Subscribers /\ cmd \in Commands
    BY <1>0, <1>5 DEF TypeOK, Call
  <2>4. \A s \in Subscribers, c \in Commands :
          (\E i \in DOMAIN got[s] : got[s][i] = c)
            => \E i \in DOMAIN got'[s] : got'[s][i] = c
    <3> SUFFICES ASSUME NEW s \in Subscribers, NEW c \in Commands,
                        NEW i \in DOMAIN got[s], got[s][i] = c
                 PROVE  \E j \in DOMAIN got'[s] : got'[s][j] = c
      OBVIOUS
    <3>1. got[s] \in Seq(Commands)
      BY <1>0 DEF TypeOK
    <3>2. i \in 1 .. Len(got[s])
      BY <3>1
    <3>3. got'[s] = got[s] \/ got'[s] = Append(got[s], cmd)
      BY <1>0, <2>1 DEF TypeOK
    <3>4. i \in DOMAIN got'[s] /\ got'[s][i] = got[s][i]
      BY <2>3, <3>1, <3>2, <3>3
    <3> QED
      BY <3>4
  <2>5. \E i \in DOMAIN got'[ts[2]] : got'[ts[2]][i] = cmd
    <3>1. got[ts[2]] \in Seq(Commands)
      BY <1>0, <2>3 DEF TypeOK
    <3>2. got'[ts[2]] = Append(got[ts[2]], cmd)
      BY <1>0, <2>1, <2>3 DEF TypeOK
    <3>3. Len(got[ts[2]]) + 1 \in DOMAIN got'[ts[2]]
      BY <2>3, <3>1, <3>2
    <3>4. got'[ts[2]][Len(got[ts[2]]) + 1] = cmd
      BY <2>3, <3>1, <3>2
    <3> QED
      BY <3>3, <3>4
  <2>6. HaltTurn'
    <3> SUFFICES ASSUME cmd \in Halts, ~aired,
                        NEW t \in Reach[cmd], NEW s \in subs[t]
                 PROVE  \/ <<t, s>> \in calls'
                        \/ \E i \in DOMAIN got'[s] : got'[s][i] = cmd
      BY <1>5 DEF Call, PublishInv
    <3>1. s \in Subscribers /\ t \in Topics
      BY <1>0 DEF TypeOK
    <3>2. <<t, s>> \in calls \/ \E i \in DOMAIN got[s] : got[s][i] = cmd
      BY <1>5 DEF PublishInv, Call
    <3>3. CASE <<t, s>> = ts
      BY <2>5, <3>3
    <3>4. CASE <<t, s>> # ts
      BY <2>1, <2>3, <2>4, <3>1, <3>2, <3>4
    <3> QED
      BY <3>3, <3>4
  <2> QED
    BY <1>0, <1>5, <2>2, <2>6 DEF PublishInv, Call
<1>6. CASE Release
  <2>1. HaltPlan'
    BY <1>6 DEF PublishInv, Release
  <2> QED
    BY <1>0, <1>6, <2>1 DEF PublishInv, Release
<1>9. CASE Air
  BY <1>0, <1>9 DEF PublishInv, Air
<1>10. CASE Mirror \/ ImpactFails
  BY <1>0, <1>10 DEF PublishInv, Mirror, ImpactFails
<1>7. ASSUME NEW s \in Subscribers, NEW t \in Topics,
             Subscribe(s, t) \/ Unsubscribe(s, t)
      PROVE  PublishInv'
  <2>1. pc # "calling" /\ calls = {} /\ calls' = {} /\ pc' = pc
    BY <1>0, <1>7 DEF TypeOK, Subscribe, Unsubscribe, ChannelsFree
  <2> QED
    BY <1>0, <1>7, <2>1 DEF PublishInv, Subscribe, Unsubscribe
<1>8. CASE UNCHANGED vars
  BY <1>0, <1>8 DEF PublishInv, vars
<1> QED
  BY <1>1, <1>2, <1>3, <1>4, <1>5, <1>6, <1>7, <1>8, <1>9, <1>10
     DEF Next, DispatcherStep

LEMMA PublishInvariance == Spec => []PublishInv
<1>1. Init => PublishInv
  BY TypeInit, DispatchAssumption
     DEF Init, PublishInv, NobodyCalledAfterUnsubscribe, HaltPlan, HaltTurn
<1> QED
  BY <1>1, PublishStep, PTL DEF Spec

\* After unsubscribe has returned the callback is not called on that channel.
THEOREM UnsubscribedCallbacksStaySilent == Spec => []NobodyCalledAfterUnsubscribe
<1>1. PublishInv => NobodyCalledAfterUnsubscribe
  BY DEF PublishInv
<1> QED
  BY <1>1, PublishInvariance, PTL

\* A halt reaches every callback subscribed when its publication ends.
THEOREM HaltsReachEverySubscriber == Spec => HaltReachesEverySubscriber
<1>1. PublishInv /\ [Next]_vars =>
        [pc = "calling" /\ pc' = "publish" /\ cmd \in Halts /\ plan = <<>> /\ ~aired
           => \A t \in Reach[cmd] : \A s \in subs[t] :
                \E i \in DOMAIN got[s] : got[s][i] = cmd]_vars
  <2> SUFFICES ASSUME PublishInv, Next, pc = "calling", pc' = "publish",
                      cmd \in Halts, ~aired, NEW t \in Reach[cmd], NEW s \in subs[t]
               PROVE  \E i \in DOMAIN got[s] : got[s][i] = cmd
    BY DEF vars
  <2>1. Release
    BY DEF Next, DispatcherStep, OfferLock, OfferPut, Shutdown, Top, Enter,
           Wake, Take, Publish, Call, Release, Air, Mirror, ImpactFails,
           Subscribe, Unsubscribe
  <2> QED
    BY <2>1 DEF Release, PublishInv, HaltTurn
<1> QED
  BY <1>1, PublishInvariance, PTL DEF Spec, HaltReachesEverySubscriber
==============================================================================
