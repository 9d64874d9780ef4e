--------------------------- MODULE FramingProofs ---------------------------
(***************************************************************************)
(* Proofs about Framing, for all bytes, messages, data and limits.         *)
(***************************************************************************)
EXTENDS Framing, WellFoundedInduction, TLAPS

Bytes == Seq(Char)

----------------------------------------------------------------------------
(* Induction over the natural numbers, as a fact about sets.               *)

LEMMA LeastNumber ==
    ASSUME NEW T, T \subseteq Nat, T # {}
    PROVE  \E n \in T : \A m \in T : n <= m
<1> DEFINE R == OpToRel(<, Nat)
<1>1. IsWellFoundedOn(R, Nat)
  BY NatLessThanWellFounded
<1>2. \E n \in T : \A m \in T : <<m, n>> \notin R
  <2> HIDE DEF R
  <2> QED
    BY <1>1, WFMin
<1>3. \A m, n \in Nat : <<m, n>> \in R <=> m < n
  BY DEF OpToRel
<1> HIDE DEF R
<1>4. PICK n \in T : \A m \in T : <<m, n>> \notin R
  BY <1>2
<1>5. ASSUME NEW m \in T PROVE n <= m
  <2>1. m \in Nat /\ n \in Nat
    OBVIOUS
  <2>2. <<m, n>> \notin R
    BY <1>4
  <2>3. ~(m < n)
    BY <1>3, <2>1, <2>2
  <2> QED
    BY <2>1, <2>3
<1> QED
  BY <1>5

LEMMA Induction ==
    ASSUME NEW S, 0 \in S, \A n \in Nat : n \in S => n + 1 \in S
    PROVE  Nat \subseteq S
<1> SUFFICES ASSUME ~(Nat \subseteq S) PROVE FALSE
  OBVIOUS
<1>1. PICK n \in Nat \ S : \A m \in Nat \ S : n <= m
  BY LeastNumber
<1>2. n # 0
  OBVIOUS
<1>3. n - 1 \in Nat /\ n - 1 \in S
  BY <1>1, <1>2
<1> QED
  BY <1>1, <1>3

----------------------------------------------------------------------------
(* Encode.  The bytes up to the end of each line are told by a recursive   *)
(* function, of which there is one.                                        *)

(* A line as it is sent.                                                   *)
Full(line) == line \o <<CR, LF>>

LEMMA FullIs ==
    ASSUME NEW line \in Bytes
    PROVE  /\ Full(line) \in Bytes /\ Len(Full(line)) = Len(line) + 2 /\ Len(line) \in Nat
           /\ \A j \in 1..Len(line) : Full(line)[j] = line[j]
           /\ Full(line)[Len(line) + 1] = CR /\ Full(line)[Len(line) + 2] = LF
  BY BytesAssumption DEF Full, Bytes

LEMMA Concatenation ==
    ASSUME NEW s \in Bytes, NEW t \in Bytes
    PROVE  /\ s \o t \in Bytes /\ Len(s) \in Nat /\ Len(t) \in Nat
           /\ Len(s \o t) = Len(s) + Len(t)
           /\ \A i \in 1..Len(s) : (s \o t)[i] = s[i]
           /\ \A i \in 1..Len(t) : (s \o t)[Len(s) + i] = t[i]
           /\ <<>> \o t = t
  BY DEF Bytes

Sends(f, m) ==
    \A i \in 1..Len(m) : f[i] = IF i = 1 THEN Full(m[i]) ELSE f[i - 1] \o Full(m[i])

LEMMA SendsExists ==
    ASSUME NEW m \in Seq(Bytes)
    PROVE  \E f \in [1..Len(m) -> Bytes] : Sends(f, m)
<1> DEFINE P(n, f) ==
         /\ f \in [1..n -> Bytes]
         /\ \A i \in 1..n : f[i] = IF i = 1 THEN Full(m[i]) ELSE f[i - 1] \o Full(m[i])
       S == {n \in Nat : n <= Len(m) => \E f : P(n, f)}
<1>1. 0 \in S
  <2>1. P(0, [i \in 1..0 |-> <<>>])
    OBVIOUS
  <2> QED
    BY <2>1
<1>2. ASSUME NEW n \in Nat, n \in S PROVE n + 1 \in S
  <2> SUFFICES ASSUME n + 1 <= Len(m) PROVE \E f : P(n + 1, f)
    OBVIOUS
  <2>1. PICK f : P(n, f)
    <3>1. n <= Len(m)
      OBVIOUS
    <3>2. \E f : P(n, f)
      <4> HIDE DEF P
      <4> QED
        BY <1>2, <3>1
    <3> QED
      BY <3>2
  <2>2. PICK e : e = Full(m[n + 1])
    OBVIOUS
  <2>3. e \in Bytes
    BY <2>2, FullIs
  <2>4. PICK b : b = IF n = 0 THEN e ELSE f[n] \o e
    OBVIOUS
  <2>5. b \in Bytes
    BY <2>1, <2>3, <2>4, Concatenation
  <2>6. PICK g : g = [i \in 1..(n + 1) |-> IF i = n + 1 THEN b ELSE f[i]]
    OBVIOUS
  <2>7. /\ g \in [1..(n + 1) -> Bytes] /\ g[n + 1] = b
        /\ \A i \in 1..n : g[i] = f[i]
    BY <2>1, <2>5, <2>6
  <2>8. ASSUME NEW i \in 1..(n + 1)
        PROVE  g[i] = IF i = 1 THEN Full(m[i]) ELSE g[i - 1] \o Full(m[i])
    <3>1. CASE i = n + 1
      BY <2>2, <2>4, <2>7, <3>1
    <3>2. CASE i # n + 1
      <4>1. i \in 1..n /\ (i # 1 => i - 1 \in 1..n)
        BY <3>2
      <4> QED
        BY <2>1, <2>7, <4>1
    <3> QED
      BY <3>1, <3>2
  <2>9. P(n + 1, g)
    BY <2>7, <2>8
  <2> QED
    BY <2>9
<1>3. Len(m) \in S
  <2> HIDE DEF S
  <2> QED
    BY <1>1, <1>2, Induction
<1>4. PICK f : P(Len(m), f)
  BY <1>3
<1> QED
  BY <1>4 DEF Sends

(* Two of them agree as far as their lines do.                             *)
LEMMA SendsAgree ==
    ASSUME NEW m, NEW n, NEW f, NEW g, Sends(f, m), Sends(g, n), NEW k \in Nat,
           k <= Len(m), k <= Len(n), Len(m) \in Nat, Len(n) \in Nat, \A i \in 1..k : m[i] = n[i]
    PROVE  \A i \in 1..k : f[i] = g[i]
<1> DEFINE S == {i \in Nat : i \in 1..k => f[i] = g[i]}
<1>1. 0 \in S
  OBVIOUS
<1>2. ASSUME NEW i \in Nat, i \in S PROVE i + 1 \in S
  <2> SUFFICES ASSUME i + 1 \in 1..k PROVE f[i + 1] = g[i + 1]
    OBVIOUS
  <2>1. i + 1 \in 1..Len(m) /\ i + 1 \in 1..Len(n) /\ (i + 1) - 1 = i
    OBVIOUS
  <2>2. f[i + 1] = IF i + 1 = 1 THEN Full(m[i + 1]) ELSE f[i] \o Full(m[i + 1])
    BY <2>1 DEF Sends
  <2>3. g[i + 1] = IF i + 1 = 1 THEN Full(n[i + 1]) ELSE g[i] \o Full(n[i + 1])
    BY <2>1 DEF Sends
  <2>4. i + 1 # 1 => f[i] = g[i]
    BY <1>2
  <2>5. m[i + 1] = n[i + 1]
    OBVIOUS
  <2> QED
    BY <2>2, <2>3, <2>4, <2>5
<1>3. Nat \subseteq S
  <2> HIDE DEF S
  <2> QED
    BY <1>1, <1>2, Induction
<1> QED
  BY <1>3

LEMMA EncodeIs ==
    ASSUME NEW m \in Seq(Bytes), m # <<>>, NEW f \in [1..Len(m) -> Bytes], Sends(f, m)
    PROVE  Encode(m) = f[Len(m)]
<1> DEFINE s == [i \in 1..Len(m) |-> m[i] \o <<CR, LF>>]
           Is(h) == h = [i \in 1..Len(s) |-> IF i = 1 THEN s[i] ELSE h[i - 1] \o s[i]]
           g == CHOOSE g : Is(g)
<1>1. Len(m) \in Nat \ {0} /\ Len(s) = Len(m) /\ \A i \in 1..Len(m) : s[i] = Full(m[i])
  BY DEF Full
<1>2. Encode(m) = FlattenSeq(s)
  BY DEF Encode
<1>3. FlattenSeq(s) = g[Len(s)]
  BY <1>1 DEF FlattenSeq
<1> HIDE DEF s
<1>4. Is(f)
  <2>1. f \in [1..Len(s) -> Bytes]
    BY <1>1
  <2>2. \A i \in 1..Len(s) : f[i] = IF i = 1 THEN s[i] ELSE f[i - 1] \o s[i]
    BY <1>1 DEF Sends
  <2> HIDE DEF s
  <2> QED
    BY <2>1, <2>2
<1>5. Is(g)
  <2> HIDE DEF Is
  <2> QED
    BY <1>4
<1>6. Sends(g, m)
  <2> SUFFICES ASSUME NEW i \in 1..Len(m)
               PROVE  g[i] = IF i = 1 THEN Full(m[i]) ELSE g[i - 1] \o Full(m[i])
    BY DEF Sends
  <2>1. PICK h : h = g
    OBVIOUS
  <2>2. h = [j \in 1..Len(s) |-> IF j = 1 THEN s[j] ELSE h[j - 1] \o s[j]]
    BY <1>5, <2>1
  <2>3. h[i] = IF i = 1 THEN s[i] ELSE h[i - 1] \o s[i]
    BY <1>1, <2>2
  <2> HIDE DEF g
  <2> QED
    BY <1>1, <2>1, <2>3
<1> HIDE DEF g, Is
<1>7. g[Len(m)] = f[Len(m)]
  BY <1>1, <1>6, SendsAgree
<1> QED
  BY <1>1, <1>2, <1>3, <1>7

----------------------------------------------------------------------------
(* The bytes of the first lines, and where a line is among all of them.    *)

First(m, k) == IF k = 0 THEN <<>> ELSE Encode(SubSeq(m, 1, k))

LEMMA FirstIs ==
    ASSUME NEW m \in Seq(Bytes)
    PROVE  \E f \in [1..Len(m) -> Bytes] : Sends(f, m) /\ \A k \in 1..Len(m) : First(m, k) = f[k]
<1>1. PICK f \in [1..Len(m) -> Bytes] : Sends(f, m)
  BY SendsExists
<1>2. ASSUME NEW k \in 1..Len(m) PROVE First(m, k) = f[k]
  <2>1. PICK p : p = SubSeq(m, 1, k)
    OBVIOUS
  <2>2. p \in Seq(Bytes) /\ Len(p) = k /\ p # <<>> /\ k \in Nat \ {0} /\ \A i \in 1..k : p[i] = m[i]
    BY <2>1
  <2>3. PICK g \in [1..Len(p) -> Bytes] : Sends(g, p)
    BY <2>2, SendsExists
  <2>4. \A i \in 1..k : g[i] = f[i]
    BY <1>1, <2>2, <2>3, SendsAgree
  <2>5. Encode(p) = g[k]
    BY <2>2, <2>3, EncodeIs
  <2> QED
    BY <2>1, <2>2, <2>4, <2>5 DEF First
<1> QED
  BY <1>1, <1>2

LEMMA FirstIsBytes ==
    ASSUME NEW m \in Seq(Bytes), NEW k \in 0..Len(m)
    PROVE  First(m, k) \in Bytes
<1>1. CASE k = 0
  BY <1>1 DEF First, Bytes
<1>2. CASE k # 0
  BY <1>2, FirstIs
<1> QED
  BY <1>1, <1>2

LEMMA FirstOfAll ==
    ASSUME NEW m \in Seq(Bytes), m # <<>>
    PROVE  First(m, Len(m)) = Encode(m)
<1>1. PICK f \in [1..Len(m) -> Bytes] : Sends(f, m) /\ \A k \in 1..Len(m) : First(m, k) = f[k]
  BY FirstIs
<1>2. Len(m) \in 1..Len(m)
  OBVIOUS
<1> QED
  BY <1>1, <1>2, EncodeIs

LEMMA FirstGrows ==
    ASSUME NEW m \in Seq(Bytes), NEW k \in Nat, k < Len(m)
    PROVE  First(m, k + 1) = First(m, k) \o Full(m[k + 1])
<1>1. PICK f \in [1..Len(m) -> Bytes] : Sends(f, m) /\ \A i \in 1..Len(m) : First(m, i) = f[i]
  BY FirstIs
<1>2. k + 1 \in 1..Len(m) /\ (k + 1) - 1 = k /\ (k # 0 => k \in 1..Len(m))
  OBVIOUS
<1>3. First(m, k + 1) = IF k = 0 THEN Full(m[k + 1]) ELSE f[k] \o Full(m[k + 1])
  <2>1. f[k + 1] = IF k + 1 = 1 THEN Full(m[k + 1]) ELSE f[(k + 1) - 1] \o Full(m[k + 1])
    BY <1>1, <1>2 DEF Sends
  <2>2. First(m, k + 1) = f[k + 1]
    BY <1>1, <1>2
  <2> QED
    BY <1>2, <2>1, <2>2
<1>4. CASE k = 0
  <2>1. m[k + 1] \in Bytes
    BY <1>2
  <2>2. <<>> \o Full(m[k + 1]) = Full(m[k + 1])
    BY <2>1, FullIs, Concatenation
  <2>3. First(m, k) = <<>>
    BY <1>4 DEF First
  <2> QED
    BY <1>3, <1>4, <2>2, <2>3
<1>5. CASE k # 0
  BY <1>1, <1>2, <1>3, <1>5
<1> QED
  BY <1>4, <1>5

LEMMA FirstIsPrefix ==
    ASSUME NEW m \in Seq(Bytes), NEW k \in 0..Len(m), NEW n \in k..Len(m)
    PROVE  /\ Len(First(m, k)) <= Len(First(m, n))
           /\ \A j \in 1..Len(First(m, k)) : First(m, n)[j] = First(m, k)[j]
<1> DEFINE Q(i) == /\ Len(First(m, k)) <= Len(First(m, i))
                   /\ \A j \in 1..Len(First(m, k)) : First(m, i)[j] = First(m, k)[j]
           S == {i \in Nat : k + i <= Len(m) => Q(k + i)}
<1>0. First(m, k) \in Bytes /\ Len(First(m, k)) \in Nat
  BY FirstIsBytes, Concatenation
<1>1. 0 \in S
  <2>1. k + 0 = k
    OBVIOUS
  <2> QED
    BY <1>0, <2>1
<1>2. ASSUME NEW i \in Nat, i \in S PROVE i + 1 \in S
  <2> SUFFICES ASSUME k + (i + 1) <= Len(m) PROVE Q(k + (i + 1))
    OBVIOUS
  <2>1. k + i \in 0..Len(m) /\ k + i \in Nat /\ k + i < Len(m) /\ k + (i + 1) = (k + i) + 1 /\ (k + i) + 1 \in 1..Len(m)
    OBVIOUS
  <2>2. Q(k + i)
    BY <1>2, <2>1
  <2>3. PICK n0 : n0 = k + i
    OBVIOUS
  <2>4. PICK p, e, q : p = First(m, n0) /\ e = Full(m[n0 + 1]) /\ q = First(m, n0 + 1)
    OBVIOUS
  <2>5. p \in Bytes /\ q = p \o e
    BY <2>1, <2>3, <2>4, FirstIsBytes, FirstGrows
  <2>6. e \in Bytes
    BY <2>1, <2>3, <2>4, FullIs
  <2>7. Len(p) <= Len(q) /\ Len(p) \in Nat /\ Len(q) \in Nat /\ \A j \in 1..Len(p) : q[j] = p[j]
    <3>1. /\ Len(p) \in Nat /\ Len(e) \in Nat /\ Len(p \o e) = Len(p) + Len(e)
          /\ \A j \in 1..Len(p) : (p \o e)[j] = p[j]
      BY <2>5, <2>6, Concatenation
    <3> QED
      BY <2>5, <3>1
  <2>8. Len(First(m, k)) <= Len(p) /\ \A j \in 1..Len(First(m, k)) : p[j] = First(m, k)[j]
    BY <2>2, <2>3, <2>4
  <2>9. Len(First(m, k)) <= Len(q) /\ \A j \in 1..Len(First(m, k)) : q[j] = First(m, k)[j]
    BY <1>0, <2>7, <2>8
  <2> QED
    BY <2>1, <2>3, <2>4, <2>9
<1>3. n - k \in S
  <2> HIDE DEF S
  <2>1. n - k \in Nat
    OBVIOUS
  <2> QED
    BY <1>1, <1>2, <2>1, Induction
<1>4. k + (n - k) = n /\ n <= Len(m)
  OBVIOUS
<1> QED
  BY <1>3, <1>4

----------------------------------------------------------------------------
(* The invariant.                                                          *)

Types ==
    /\ mode \in Modes /\ sent \in Messages /\ (mode = "request" => sent \in Requests)
    /\ data \in Bytes /\ (mode # "chunk" => data = <<>>)
    /\ cut \in BOOLEAN /\ ending \in {"closed", "silent"}
    /\ wire \in Bytes /\ message \in Bytes /\ body \in Bytes
    /\ lines \in Seq(Bytes)
    /\ state \in {"line", "body", "all", "accepted", "refused"}
    /\ failed \in BOOLEAN

(* What holds of lines of any length.                                      *)
Sizes ==
    /\ IF mode = "nodes"
       THEN /\ state \in {"all", "accepted"} /\ lines = <<>>
            /\ Len(message) <= IF state = "all" THEN MaxSize ELSE 2 * MaxSize
       ELSE /\ state # "all" /\ (state = "body" => mode = "chunk")
            /\ Len(message) <= MaxSize - 1
            /\ prevChar = IF message = <<>> THEN None ELSE Last(message)
    /\ \A i \in 1..Len(lines) : Len(lines[i]) \in 1..MaxSize
    /\ Len(body) <= Len(data)

(* The lines that are sent, and the bytes.                                 *)
Shown == IF mode = "chunk" THEN <<Head(sent)>> ELSE sent
All   == Encode(Shown) \o data

Start(k) == Len(First(Shown, k))

(* After p bytes, the wire holds those that follow, as far as any do.      *)
Rest(p) ==
    /\ p + Len(wire) <= Len(All)
    /\ \A j \in 1..Len(wire) : wire[j] = All[p + j]
    /\ cut <=> p + Len(wire) < Len(All)

(* In the middle of a line, all of which may still come.                   *)
Line == Full(Shown[Len(lines) + 1])

InLine ==
    /\ Len(lines) < Len(Shown) /\ \A i \in 1..Len(lines) : lines[i] = Shown[i]
    /\ Len(message) < Len(Line) /\ \A j \in 1..Len(message) : message[j] = Line[j]
    /\ Rest(Start(Len(lines)) + Len(message))
    /\ body = <<>>

(* In the middle of the data.                                              *)
InBody ==
    /\ lines = Shown
    /\ Len(body) < Len(data) /\ \A j \in 1..Len(body) : body[j] = data[j]
    /\ Rest(Start(1) + Len(body))

LinesRead ==
    /\ Len(lines) <= Len(Shown)
    /\ \A i \in 1..Len(lines) :
          \/ lines[i] = Shown[i]
          \/ i = Len(lines) /\ cut /\ IsPrefix(lines[i], Append(Shown[i], CR))

(* The connection has ended in the middle of the last line read.           *)
Ended == wire = <<>> /\ message = <<>> /\ body = <<>> /\ cut /\ LinesRead

Outcome ==
    /\ mode = "request" /\ state = "accepted" => lines = Shown
    /\ mode = "chunk" /\ state = "accepted" => lines = Shown /\ body = data
    /\ state = "refused" => failed \/ cut \/ (mode = "request" /\ Len(sent) - 2 > MaxLines)

Reading ==
    /\ state = "line" => InLine \/ Ended
    /\ state = "body" => InBody \/ Ended
    /\ state \in {"accepted", "refused"} => LinesRead /\ Outcome

Inv ==
    /\ Types
    /\ Sizes
    /\ mode # "nodes" /\ Fits => Reading

----------------------------------------------------------------------------
(* Where the lines and the data are among the bytes.                       *)

LEMMA MessageIs ==
    ASSUME NEW m \in Messages
    PROVE  /\ m \in Seq(Bytes) /\ Len(m) \in Nat /\ Len(m) > 1 /\ m # <<>> /\ m[Len(m)] = End
           /\ Head(m) \in Bytes /\ Head(m) = m[1]
           /\ \A i \in 1..Len(m) :
                 /\ m[i] \in Bytes /\ m[i] # <<>> /\ Len(m[i]) \in Nat \ {0}
                 /\ \A j \in 1..Len(m[i]) : m[i][j] # CR /\ m[i][j] # LF
<1>1. m \in Seq(Bytes) /\ Len(m) > 1 /\ m[Len(m)] = End
  BY BytesAssumption, MessagesAssumption DEF Bytes
<1>2. Len(m) \in Nat /\ m # <<>> /\ Head(m) \in Bytes /\ Head(m) = m[1]
  BY <1>1
<1>3. ASSUME NEW i \in 1..Len(m)
      PROVE  /\ m[i] \in Bytes /\ m[i] # <<>> /\ Len(m[i]) \in Nat \ {0}
             /\ \A j \in 1..Len(m[i]) : m[i][j] # CR /\ m[i][j] # LF
  <2>1. m[i] \in Bytes
    BY <1>1
  <2>2. m[i] # <<>> /\ CR \notin Range(m[i]) /\ LF \notin Range(m[i])
    BY MessagesAssumption
  <2>3. Len(m[i]) \in Nat \ {0} /\ DOMAIN m[i] = 1..Len(m[i])
    BY <2>1, <2>2 DEF Bytes
  <2> QED
    BY <2>1, <2>2, <2>3 DEF Range
<1> QED
  BY <1>1, <1>2, <1>3, MessagesAssumption

LEMMA ShownIs ==
    ASSUME Types
    PROVE  /\ Shown \in Seq(Bytes) /\ Len(Shown) \in Nat \ {0} /\ Shown # <<>>
           /\ Shown[1] = sent[1] /\ Len(Shown) <= Len(sent) /\ Len(sent) \in Nat
           /\ \A i \in 1..Len(Shown) : Shown[i] = sent[i] /\ i \in 1..Len(sent)
           /\ mode # "chunk" => Shown = sent
           /\ mode = "chunk" => Len(Shown) = 1 /\ Shown = <<Head(sent)>> /\ Shown[1] = Head(sent)
<1>1. sent \in Messages
  BY DEF Types
<1>2. /\ sent \in Seq(Bytes) /\ Len(sent) \in Nat /\ Len(sent) > 1
      /\ Head(sent) \in Bytes /\ Head(sent) = sent[1]
  BY <1>1, MessageIs
<1>3. CASE mode = "chunk"
  <2>1. Shown = <<Head(sent)>>
    BY <1>3 DEF Shown
  <2>2. Shown \in Seq(Bytes) /\ Len(Shown) = 1 /\ Shown[1] = Head(sent) /\ Shown # <<>>
    BY <1>2, <2>1
  <2> QED
    BY <1>2, <1>3, <2>1, <2>2
<1>4. CASE mode # "chunk"
  <2>1. Shown = sent
    BY <1>4 DEF Shown
  <2> QED
    BY <1>2, <1>4, <2>1
<1> QED
  BY <1>3, <1>4

LEMMA LineIs ==
    ASSUME Types, NEW i \in 1..Len(Shown)
    PROVE  /\ Shown[i] \in Bytes /\ Len(Shown[i]) \in Nat \ {0} /\ Shown[i] # <<>>
           /\ \A j \in 1..Len(Shown[i]) : Shown[i][j] # CR /\ Shown[i][j] # LF
           /\ Full(Shown[i]) \in Bytes /\ Len(Full(Shown[i])) = Len(Shown[i]) + 2
           /\ \A j \in 1..Len(Shown[i]) : Full(Shown[i])[j] = Shown[i][j]
           /\ Full(Shown[i])[Len(Shown[i]) + 1] = CR
           /\ Full(Shown[i])[Len(Shown[i]) + 2] = LF
<1>1. sent \in Messages /\ Shown[i] = sent[i] /\ i \in 1..Len(sent)
  BY ShownIs DEF Types
<1> QED
  BY <1>1, MessageIs, FullIs

LEMMA StartIs ==
    ASSUME Types
    PROVE  /\ Start(0) = 0 /\ \A k \in 0..Len(Shown) : Start(k) \in Nat
           /\ All \in Bytes /\ Len(All) \in Nat
           /\ \A k \in 0..(Len(Shown) - 1) :
                 /\ Start(k + 1) = Start(k) + Len(Full(Shown[k + 1])) /\ Start(k + 1) <= Len(All)
                 /\ \A j \in 1..Len(Full(Shown[k + 1])) : All[Start(k) + j] = Full(Shown[k + 1])[j]
           /\ Len(All) = Start(Len(Shown)) + Len(data)
           /\ \A j \in 1..Len(data) : All[Start(Len(Shown)) + j] = data[j]
<1>1. PICK m, e, L : m = Shown /\ e = Encode(m) /\ L = Len(m)
  OBVIOUS
<1>2. m \in Seq(Bytes) /\ L \in Nat \ {0} /\ m # <<>>
  BY <1>1, ShownIs
<1>3. \A k \in 0..L : First(m, k) \in Bytes /\ Start(k) = Len(First(m, k)) /\ Start(k) \in Nat
  BY <1>1, <1>2, FirstIsBytes, Concatenation DEF Start
<1>4. e = First(m, L) /\ L \in 0..L
  BY <1>1, <1>2, FirstOfAll
<1>5. /\ e \in Bytes /\ data \in Bytes /\ Len(e) = Start(L)
  BY <1>3, <1>4 DEF Types
<1>6. /\ All = e \o data /\ All \in Bytes /\ Len(All) = Len(e) + Len(data) /\ Len(e) \in Nat /\ Len(data) \in Nat
      /\ \A i \in 1..Len(e) : All[i] = e[i]
      /\ \A i \in 1..Len(data) : All[Len(e) + i] = data[i]
  <2>1. All = e \o data
    BY <1>1 DEF All
  <2>2. /\ e \o data \in Bytes /\ Len(e \o data) = Len(e) + Len(data) /\ Len(e) \in Nat /\ Len(data) \in Nat
        /\ \A i \in 1..Len(e) : (e \o data)[i] = e[i]
        /\ \A i \in 1..Len(data) : (e \o data)[Len(e) + i] = data[i]
    BY <1>5, Concatenation
  <2> QED
    BY <2>1, <2>2
<1>7. Start(0) = 0
  BY <1>1 DEF Start, First
<1>8. ASSUME NEW k \in 0..(L - 1)
      PROVE  /\ Start(k + 1) = Start(k) + Len(Full(m[k + 1])) /\ Start(k + 1) <= Len(All)
             /\ \A j \in 1..Len(Full(m[k + 1])) : All[Start(k) + j] = Full(m[k + 1])[j]
  <2>1. k \in 0..L /\ k + 1 \in 0..L /\ L \in (k + 1)..L /\ k \in Nat /\ k < L /\ k + 1 \in 1..L
    BY <1>2
  <2>2. PICK p, f, q : p = First(m, k) /\ f = Full(m[k + 1]) /\ q = First(m, k + 1)
    OBVIOUS
  <2>3. q = p \o f /\ p \in Bytes /\ Start(k) = Len(p) /\ Start(k + 1) = Len(q)
    BY <1>1, <1>2, <1>3, <2>1, <2>2, FirstGrows
  <2>4. f \in Bytes
    BY <1>1, <1>2, <2>1, <2>2, FullIs
  <2>5. /\ Len(p) \in Nat /\ Len(f) \in Nat /\ Len(p \o f) = Len(p) + Len(f)
        /\ \A i \in 1..Len(f) : (p \o f)[Len(p) + i] = f[i]
    BY <2>3, <2>4, Concatenation
  <2>6. Len(q) <= Len(e) /\ \A j \in 1..Len(q) : e[j] = q[j]
    BY <1>1, <1>2, <1>4, <2>1, <2>2, FirstIsPrefix
  <2>7. Len(q) = Len(p) + Len(f) /\ \A i \in 1..Len(f) : q[Len(p) + i] = f[i]
    BY <2>3, <2>5
  <2>8. Start(k + 1) = Start(k) + Len(f) /\ Start(k + 1) <= Len(All)
    BY <1>6, <2>3, <2>5, <2>6, <2>7
  <2>9. ASSUME NEW j \in 1..Len(f) PROVE All[Start(k) + j] = f[j]
    <3>1. Len(p) + j \in 1..Len(q) /\ Len(p) + j \in 1..Len(e)
      BY <1>6, <2>5, <2>6, <2>7
    <3> QED
      BY <1>6, <2>3, <2>6, <2>7, <3>1
  <2> QED
    BY <2>2, <2>8, <2>9
<1>9. Len(All) \in Nat /\ Len(All) = Start(L) + Len(data)
  BY <1>5, <1>6
<1>10. \A j \in 1..Len(data) : All[Start(L) + j] = data[j]
  BY <1>5, <1>6
<1>11. \A k \in 0..L : Start(k) \in Nat
  BY <1>3
<1>12. All \in Bytes
  BY <1>6
<1>13. m = Shown /\ L = Len(Shown)
  BY <1>1
<1> HIDE DEF Shown, All, Start
<1> QED
  BY <1>7, <1>8, <1>9, <1>10, <1>11, <1>12, <1>13

LEMMA LineStart ==
    ASSUME Types, NEW k \in Nat, k < Len(Shown)
    PROVE  /\ k + 1 \in 1..Len(Shown) /\ Start(k) \in Nat
           /\ Start(k + 1) = Start(k) + (Len(Shown[k + 1]) + 2) /\ Start(k + 1) <= Len(All)
           /\ \A j \in 1..(Len(Shown[k + 1]) + 2) : All[Start(k) + j] = Full(Shown[k + 1])[j]
<1>1. Len(Shown) \in Nat
  BY ShownIs
<1>2. k + 1 \in 1..Len(Shown) /\ k \in 0..Len(Shown) /\ k \in 0..(Len(Shown) - 1)
  BY <1>1
<1>3. Len(Full(Shown[k + 1])) = Len(Shown[k + 1]) + 2
  BY <1>2, LineIs
<1>4. Start(k) \in Nat
  BY <1>2, StartIs
<1>5. Start(k + 1) = Start(k) + Len(Full(Shown[k + 1])) /\ Start(k + 1) <= Len(All)
  BY <1>2, StartIs
<1>6. \A j \in 1..Len(Full(Shown[k + 1])) : All[Start(k) + j] = Full(Shown[k + 1])[j]
  BY <1>2, StartIs
<1> QED
  BY <1>2, <1>3, <1>4, <1>5, <1>6

LEMMA Unmoved ==
    ASSUME UNCHANGED sender
    PROVE  /\ Shown' = Shown /\ All' = All /\ \A k : Start(k)' = Start(k)
           /\ Fits' = Fits
  BY DEF sender, Shown, All, Start, Fits

----------------------------------------------------------------------------
(* A line that is given to the loops.                                      *)

LEMMA PrefixIs ==
    ASSUME NEW s \in Bytes, NEW t \in Bytes
    PROVE  IsPrefix(s, t) <=> Len(s) <= Len(t) /\ \A j \in 1..Len(s) : s[j] = t[j]
  BY DEF Bytes, IsPrefix

LEMMA AppendByte ==
    ASSUME NEW s \in Bytes, NEW e \in Char
    PROVE  /\ Append(s, e) \in Bytes /\ Len(s) \in Nat /\ Len(Append(s, e)) = Len(s) + 1
           /\ \A i \in 1..Len(s) : Append(s, e)[i] = s[i]
           /\ Append(s, e)[Len(s) + 1] = e
           /\ Append(s, e) # <<>> /\ Last(Append(s, e)) = e
  BY DEF Bytes, Last

LEMMA AppendLine ==
    ASSUME NEW s \in Seq(Bytes), NEW e \in Bytes
    PROVE  /\ Append(s, e) \in Seq(Bytes) /\ Len(s) \in Nat /\ Len(Append(s, e)) = Len(s) + 1
           /\ \A i \in 1..Len(s) : Append(s, e)[i] = s[i]
           /\ Append(s, e)[Len(s) + 1] = e
           /\ Append(s, e) # <<>>
  OBVIOUS

(* The end line of a request is the last one only, and what is left of     *)
(* another line when the connection ends does not look like it.            *)
LEMMA EndIsLast ==
    ASSUME Types, NEW k \in 1..(Len(Shown) - 1), mode = "request",
           End = Shown[k + 1] \/ IsPrefix(End, Append(Shown[k + 1], CR))
    PROVE  k + 1 = Len(Shown) /\ End = Shown[k + 1]
<1>1. /\ sent \in Messages /\ sent \in Requests /\ Shown = sent
      /\ k + 1 \in 2..Len(sent) /\ k + 1 \in 1..Len(Shown)
      /\ Len(sent) \in Nat
  BY ShownIs DEF Types
<1>2. /\ End = sent[Len(sent)] /\ Len(sent) \in 1..Len(sent)
      /\ \A i \in 2..(Len(sent) - 1) : ~IsPrefix(End, sent[i])
  BY <1>1, MessageIs, RequestsAssumption
<1>3. End \in Bytes /\ Len(End) \in Nat \ {0} /\ \A j \in 1..Len(End) : End[j] # CR
  BY <1>1, <1>2, MessageIs
<1>4. PICK s : s = Shown[k + 1]
  OBVIOUS
<1>5. s \in Bytes /\ Len(s) \in Nat /\ s = sent[k + 1]
  BY <1>1, <1>4, LineIs
<1>6. IsPrefix(End, s)
  <2>1. CASE End = s
    BY <1>3, <2>1, PrefixIs
  <2>2. CASE IsPrefix(End, Append(s, CR))
    <3>1. /\ Append(s, CR) \in Bytes /\ Len(Append(s, CR)) = Len(s) + 1
          /\ \A i \in 1..Len(s) : Append(s, CR)[i] = s[i]
          /\ Append(s, CR)[Len(s) + 1] = CR
      BY <1>5, AppendByte, BytesAssumption
    <3>2. Len(End) <= Len(s) + 1 /\ \A j \in 1..Len(End) : End[j] = Append(s, CR)[j]
      BY <1>3, <2>2, <3>1, PrefixIs
    <3>3. Len(End) # Len(s) + 1
      <4> SUFFICES ASSUME Len(End) = Len(s) + 1 PROVE FALSE
        OBVIOUS
      <4>1. Len(s) + 1 \in 1..Len(End)
        BY <1>5
      <4> QED
        BY <1>3, <3>1, <3>2, <4>1
    <3>4. Len(End) <= Len(s) /\ \A j \in 1..Len(End) : End[j] = s[j]
      BY <1>3, <1>5, <3>1, <3>2, <3>3
    <3> QED
      BY <1>3, <1>5, <3>4, PrefixIs
  <2> QED
    BY <1>4, <2>1, <2>2
<1>7. k + 1 = Len(sent)
  BY <1>1, <1>2, <1>5, <1>6
<1> QED
  BY <1>1, <1>2, <1>7

LEMMA LineTaken ==
    ASSUME Types, mode # "nodes", UNCHANGED sender, UNCHANGED body, body = <<>>,
           Len(lines) < Len(Shown), \A i \in 1..Len(lines) : lines[i] = Shown[i],
           NEW line \in Bytes, line # <<>>, Return(line),
           \/ line = Shown[Len(lines) + 1]
           \/ cut /\ IsPrefix(line, Append(Shown[Len(lines) + 1], CR))
    PROVE  /\ LinesRead' /\ lines' = Append(lines, line)
           /\ state' \in {"accepted", "refused"} => Outcome'
           /\ state' = "line" /\ line = Shown[Len(lines) + 1] => Len(lines) + 1 < Len(Shown)
           /\ state' = "body" =>
                 mode = "chunk" /\ (line = Shown[Len(lines) + 1] => data # <<>> /\ lines' = Shown)
           /\ state' \in {"line", "body", "accepted", "refused"}
<1>1. PICK k, s : k = Len(lines) /\ s = Shown[k + 1]
  OBVIOUS
<1>2. /\ lines \in Seq(Bytes) /\ k \in Nat /\ k + 1 \in 1..Len(Shown) /\ Len(Shown) \in Nat
      /\ s \in Bytes
  BY <1>1, ShownIs, LineIs DEF Types
<1>3. /\ lines' = Append(lines, line) /\ state' = AfterLine(line)
      /\ mode' = mode /\ cut' = cut /\ sent' = sent /\ data' = data /\ body' = body
      /\ Shown' = Shown
  BY Unmoved DEF Return, sender
<1>4. /\ lines' \in Seq(Bytes) /\ Len(lines') = k + 1 /\ lines'[k + 1] = line
      /\ \A i \in 1..k : lines'[i] = Shown[i]
  BY <1>1, <1>2, <1>3, AppendLine
<1>5. \A i \in 1..(k + 1) : i \in 1..k \/ i = k + 1
  BY <1>2
<1>6. LinesRead'
  BY <1>1, <1>2, <1>3, <1>4, <1>5 DEF LinesRead
<1>7. ASSUME line = s, k + 1 = Len(Shown) PROVE lines' = Shown
  <2>1. Shown \in Seq(Bytes)
    BY ShownIs
  <2>2. \A i \in 1..(k + 1) : lines'[i] = Shown[i]
    BY <1>1, <1>4, <1>5, <1>7
  <2> QED
    BY <1>4, <1>7, <2>1, <2>2
<1>8. ASSUME mode = "request", lines # <<>>, line = End PROVE line = s /\ k + 1 = Len(Shown)
  <2>1. k # 0
    BY <1>1, <1>2, <1>8
  <2>2. k \in 1..(Len(Shown) - 1)
    BY <1>2, <2>1
  <2> QED
    BY <1>1, <1>8, <2>2, EndIsLast
<1>9. ASSUME mode # "chunk", line = s, k + 1 = Len(Shown) PROVE lines # <<>> /\ line = End
  <2>1. Shown = sent /\ sent \in Messages
    BY <1>9, ShownIs DEF Types
  <2>2. Len(sent) > 1 /\ sent[Len(sent)] = End /\ Len(sent) \in Nat
    BY <2>1, MessageIs
  <2> QED
    BY <1>1, <1>2, <1>9, <2>1, <2>2
<1>10. CASE mode = "request"
  <2>1. state' = AfterRequestLine(line)
    BY <1>3, <1>10 DEF AfterLine
  <2>2. CASE lines # <<>> /\ line = End
    <3>1. state' = "accepted"
      BY <2>1, <2>2 DEF AfterRequestLine
    <3>2. lines' = Shown
      BY <1>7, <1>8, <1>10, <2>2
    <3> QED
      BY <1>3, <1>6, <1>10, <3>1, <3>2 DEF Outcome
  <2>3. CASE ~(lines # <<>> /\ line = End)
    <3>1. state' = IF k > MaxLines THEN "refused" ELSE "line"
      BY <1>1, <2>1, <2>3 DEF AfterRequestLine
    <3>2. line = s => k + 1 < Len(Shown)
      BY <1>2, <1>9, <1>10, <2>3
    <3>3. Shown = sent
      BY <1>10, ShownIs
    <3>4. line = s /\ k > MaxLines => Len(sent) - 2 > MaxLines
      BY <1>2, <3>2, <3>3, LimitsAssumption
    <3>5. line # s => cut
      BY <1>1
    <3> QED
      BY <1>1, <1>3, <1>6, <1>10, <3>1, <3>2, <3>4, <3>5 DEF Outcome
  <2> QED
    BY <2>2, <2>3
<1>11. CASE mode = "reply"
  <2>1. state' = IF lines # <<>> /\ line = End THEN "accepted" ELSE "line"
    BY <1>3, <1>11 DEF AfterLine
  <2>2. ~(lines # <<>> /\ line = End) => (line = s => k + 1 < Len(Shown))
    BY <1>2, <1>9, <1>11
  <2> QED
    BY <1>1, <1>3, <1>6, <1>11, <2>1, <2>2 DEF Outcome
<1>12. CASE mode = "chunk"
  <2>1. state' = IF line = Head(sent) /\ data = <<>> THEN "accepted" ELSE "body"
    BY <1>3, <1>12 DEF AfterLine
  <2>2. k = 0 /\ Len(Shown) = 1 /\ s = Head(sent)
    BY <1>1, <1>2, <1>12, ShownIs
  <2>3. line = Head(sent) => lines' = Shown
    BY <1>7, <2>2
  <2> QED
    BY <1>1, <1>3, <1>6, <1>12, <2>1, <2>2, <2>3 DEF Outcome
<1> QED
  BY <1>10, <1>11, <1>12 DEF Types, Modes

----------------------------------------------------------------------------
(* Types and sizes.                                                        *)

LEMMA HeadTail ==
    ASSUME NEW s \in Bytes, s # <<>>
    PROVE  /\ Head(s) \in Char /\ Head(s) = s[1] /\ Tail(s) \in Bytes
           /\ Len(s) \in Nat \ {0} /\ Len(Tail(s)) = Len(s) - 1
           /\ \A j \in 1..Len(Tail(s)) : Tail(s)[j] = s[j + 1]
  BY DEF Bytes

LEMMA TakeIs ==
    ASSUME NEW s \in Bytes, NEW n \in Nat, n <= Len(s)
    PROVE  /\ SubSeq(s, 1, n) \in Bytes /\ Len(SubSeq(s, 1, n)) = n
           /\ \A j \in 1..n : SubSeq(s, 1, n)[j] = s[j]
           /\ SubSeq(s, n + 1, Len(s)) \in Bytes /\ Len(SubSeq(s, n + 1, Len(s))) = Len(s) - n
           /\ \A j \in 1..(Len(s) - n) : SubSeq(s, n + 1, Len(s))[j] = s[n + j]
  BY DEF Bytes

LEMMA FrontIs ==
    ASSUME NEW s \in Bytes, s # <<>>
    PROVE  /\ Front(s) \in Bytes /\ Len(s) \in Nat \ {0} /\ Len(Front(s)) = Len(s) - 1
           /\ \A j \in 1..Len(Front(s)) : Front(s)[j] = s[j]
           /\ Last(s) = s[Len(s)]
<1>1. Len(s) \in Nat \ {0} /\ Len(s) - 1 \in Nat /\ Len(s) - 1 <= Len(s)
  BY DEF Bytes
<1>2. Front(s) = SubSeq(s, 1, Len(s) - 1) /\ Last(s) = s[Len(s)]
  BY DEF Front, Last
<1>3. PICK n : n = Len(s) - 1
  OBVIOUS
<1>4. /\ SubSeq(s, 1, n) \in Bytes /\ Len(SubSeq(s, 1, n)) = n
      /\ \A j \in 1..n : SubSeq(s, 1, n)[j] = s[j]
  BY <1>1, <1>3, TakeIs
<1> QED
  BY <1>1, <1>2, <1>3, <1>4

LEMMA EmptyIsBytes == <<>> \in Bytes /\ Len(<<>>) = 0
  BY DEF Bytes

LEMMA ReturnKept ==
    ASSUME Types, Sizes, state = "line", NEW line \in Bytes, Len(line) <= MaxSize, Return(line),
           UNCHANGED sender, UNCHANGED body, wire' \in Bytes, failed' \in BOOLEAN
    PROVE  Types' /\ Sizes' /\ mode # "nodes"
<1>1. mode # "nodes"
  BY DEF Sizes
<1>2. /\ message' = <<>> /\ prevChar' = None /\ message' \in Bytes /\ Len(message') = 0
      /\ mode' = mode /\ sent' = sent /\ data' = data /\ cut' = cut /\ ending' = ending /\ body' = body
  BY EmptyIsBytes DEF Return, sender
<1>3. state' \in {"line", "body", "accepted", "refused"} /\ (state' = "body" => mode = "chunk")
  <2>1. CASE line = <<>>
    BY <2>1 DEF Return, AfterFailure
  <2>2. CASE line # <<>>
    <3>1. state' = AfterLine(line)
      BY <2>2 DEF Return
    <3>2. mode \in {"request", "reply", "chunk"}
      BY <1>1 DEF Types, Modes
    <3> QED
      BY <3>1, <3>2 DEF AfterLine, AfterRequestLine
  <2> QED
    BY <2>1, <2>2
<1>4. lines' \in Seq(Bytes) /\ \A i \in 1..Len(lines') : Len(lines'[i]) \in 1..MaxSize
  <2>1. lines \in Seq(Bytes)
    BY DEF Types
  <2>2. CASE line = <<>>
    BY <2>1, <2>2 DEF Return, Sizes
  <2>3. CASE line # <<>>
    <3>1. lines' = Append(lines, line)
      BY <2>3 DEF Return
    <3>2. /\ lines' \in Seq(Bytes) /\ Len(lines) \in Nat /\ Len(lines') = Len(lines) + 1
          /\ lines'[Len(lines) + 1] = line /\ \A i \in 1..Len(lines) : lines'[i] = lines[i]
      BY <2>1, <3>1, AppendLine
    <3>3. Len(line) \in 1..MaxSize
      BY <2>3, LimitsAssumption DEF Bytes
    <3>4. \A i \in 1..Len(lines) : Len(lines'[i]) \in 1..MaxSize
      BY <3>2 DEF Sizes
    <3>5. \A i \in 1..Len(lines') : i \in 1..Len(lines) \/ i = Len(lines) + 1
      BY <3>2
    <3> QED
      BY <3>2, <3>3, <3>4, <3>5
  <2> QED
    BY <2>2, <2>3
<1>5. Types'
  BY <1>2, <1>3, <1>4 DEF Types
<1>6. Sizes'
  BY <1>1, <1>2, <1>3, <1>4, LimitsAssumption DEF Sizes
<1> QED
  BY <1>1, <1>5, <1>6

(* What becomes of a byte.                                                 *)
LEMMA ByteCases ==
    ASSUME Types, Sizes, ReceiveByte
    PROVE  /\ state = "line" /\ mode # "nodes" /\ wire # <<>> /\ wire' = Tail(wire) /\ wire' \in Bytes
           /\ UNCHANGED sender /\ body' = body /\ failed' = failed
           /\ \/ /\ prevChar = CR /\ Head(wire) = LF /\ message # <<>> /\ Last(message) = CR
                 /\ Front(message) \in Bytes /\ Len(Front(message)) <= MaxSize
                 /\ Return(Front(message))
              \/ /\ ~(prevChar = CR /\ Head(wire) = LF) /\ Len(message) + 1 < MaxSize
                 /\ message' = Append(message, Head(wire)) /\ prevChar' = Head(wire)
                 /\ lines' = lines /\ state' = state
              \/ /\ ~(prevChar = CR /\ Head(wire) = LF) /\ Len(message) + 1 >= MaxSize
                 /\ Append(message, Head(wire)) \in Bytes /\ Len(Append(message, Head(wire))) <= MaxSize
                 /\ Return(Append(message, Head(wire)))
<1>1. /\ state = "line" /\ mode # "nodes" /\ wire # <<>> /\ wire' = Tail(wire)
      /\ UNCHANGED sender /\ body' = body /\ failed' = failed
  BY DEF ReceiveByte, Sizes
<1>2. /\ wire \in Bytes /\ message \in Bytes /\ Len(message) \in Nat /\ Len(message) <= MaxSize - 1
      /\ MaxSize \in Nat \ {0}
      /\ prevChar = IF message = <<>> THEN None ELSE Last(message)
  BY <1>1, LimitsAssumption DEF Types, Sizes, Bytes
<1>3. Tail(wire) \in Bytes /\ Head(wire) \in Char
  BY <1>1, <1>2, HeadTail
<1>4. CASE prevChar = CR /\ Head(wire) = LF
  <2>1. message # <<>> /\ Last(message) = CR
    BY <1>2, <1>4 DEF None, CR
  <2>2. Front(message) \in Bytes /\ Len(Front(message)) = Len(message) - 1
    BY <1>2, <2>1, FrontIs
  <2>3. Return(Front(message))
    BY <1>4 DEF ReceiveByte
  <2> QED
    BY <1>1, <1>2, <1>3, <1>4, <2>1, <2>2, <2>3
<1>5. CASE ~(prevChar = CR /\ Head(wire) = LF)
  <2>1. Append(message, Head(wire)) \in Bytes /\ Len(Append(message, Head(wire))) = Len(message) + 1
    BY <1>2, <1>3, AppendByte
  <2>2. CASE Len(message) + 1 < MaxSize
    <3>1. /\ message' = Append(message, Head(wire)) /\ prevChar' = Head(wire)
          /\ lines' = lines /\ state' = state
      BY <1>5, <2>2 DEF ReceiveByte
    <3> QED
      BY <1>1, <1>3, <1>5, <2>2, <3>1
  <2>3. CASE ~(Len(message) + 1 < MaxSize)
    <3>1. Return(Append(message, Head(wire)))
      BY <1>5, <2>3 DEF ReceiveByte
    <3>2. Len(message) + 1 >= MaxSize /\ Len(message) + 1 <= MaxSize
      BY <1>2, <2>3
    <3> QED
      BY <1>1, <1>3, <1>5, <2>1, <3>1, <3>2
  <2> QED
    BY <2>2, <2>3
<1> QED
  BY <1>4, <1>5

LEMMA ByteSizes ==
    ASSUME Types, Sizes, ReceiveByte
    PROVE  Types' /\ Sizes'
<1>1. /\ state = "line" /\ mode # "nodes" /\ wire # <<>> /\ wire' \in Bytes
      /\ UNCHANGED sender /\ body' = body /\ failed' = failed /\ failed' \in BOOLEAN
      /\ wire \in Bytes /\ message \in Bytes
  BY ByteCases DEF Types
<1>2. \/ \E line \in Bytes : Len(line) <= MaxSize /\ Return(line)
      \/ /\ Len(message) + 1 < MaxSize
         /\ message' = Append(message, Head(wire)) /\ prevChar' = Head(wire)
         /\ lines' = lines /\ state' = state
  BY ByteCases
<1>3. CASE \E line \in Bytes : Len(line) <= MaxSize /\ Return(line)
  BY <1>1, <1>3, ReturnKept
<1>4. CASE /\ Len(message) + 1 < MaxSize
           /\ message' = Append(message, Head(wire)) /\ prevChar' = Head(wire)
           /\ lines' = lines /\ state' = state
  <2>1. Head(wire) \in Char
    BY <1>1, HeadTail
  <2>2. /\ message' \in Bytes /\ Len(message) \in Nat /\ Len(message') = Len(message) + 1
        /\ message' # <<>> /\ Last(message') = Head(wire)
    BY <1>1, <1>4, <2>1, AppendByte
  <2>3. Types'
    BY <1>1, <1>4, <2>2 DEF Types, sender
  <2>4. Sizes'
    BY <1>1, <1>4, <2>2, LimitsAssumption DEF Sizes, sender
  <2> QED
    BY <2>3, <2>4
<1> QED
  BY <1>2, <1>3, <1>4

LEMMA ClosedSizes ==
    ASSUME Types, Sizes, ReceiveClosed
    PROVE  Types' /\ Sizes'
<1>1. /\ state = "line" /\ message \in Bytes /\ Return(message) /\ UNCHANGED sender /\ UNCHANGED body
      /\ wire' \in Bytes /\ failed' \in BOOLEAN
  BY DEF ReceiveClosed, Types
<1>2. Len(message) <= MaxSize
  BY <1>1, LimitsAssumption DEF Sizes, Bytes
<1> QED
  BY <1>1, <1>2, ReturnKept

LEMMA FailsSizes ==
    ASSUME Types, Sizes, ReceiveFails
    PROVE  Types' /\ Sizes'
<1>1. /\ state = "line" /\ Return(<<>>) /\ UNCHANGED sender /\ UNCHANGED body
      /\ wire' \in Bytes /\ failed' \in BOOLEAN
  BY DEF ReceiveFails, Types
<1>2. <<>> \in Bytes /\ Len(<<>>) <= MaxSize
  BY EmptyIsBytes, LimitsAssumption
<1> QED
  BY <1>1, <1>2, ReturnKept

LEMMA DataSizes ==
    ASSUME Types, Sizes, NEW n \in 1..Len(wire), ReceiveData(n)
    PROVE  Types' /\ Sizes'
<1>1. /\ wire \in Bytes /\ body \in Bytes /\ data \in Bytes /\ n \in Nat
      /\ n <= Len(wire) /\ Len(body) + n <= Len(data) /\ state = "body"
      /\ body' = body \o SubSeq(wire, 1, n) /\ wire' = SubSeq(wire, n + 1, Len(wire))
      /\ UNCHANGED <<sender, message, prevChar, lines, failed>> /\ state' \in {"accepted", "body"}
  BY DEF ReceiveData, Types
<1>2. /\ SubSeq(wire, 1, n) \in Bytes /\ Len(SubSeq(wire, 1, n)) = n /\ wire' \in Bytes
  BY <1>1, TakeIs
<1>3. body' \in Bytes /\ Len(body') = Len(body) + n
  BY <1>1, <1>2, Concatenation
<1>4. Types'
  BY <1>1, <1>2, <1>3 DEF Types, sender
<1>5. Sizes'
  BY <1>1, <1>3 DEF Sizes, sender
<1> QED
  BY <1>4, <1>5

LEMMA DataEndsSizes ==
    ASSUME Types, Sizes, DataEnds
    PROVE  Types' /\ Sizes'
<1>1. /\ state = "body" /\ state' = "refused" /\ failed' \in BOOLEAN
      /\ UNCHANGED <<sender, wire, message, prevChar, lines, body>>
  BY DEF DataEnds
<1> QED
  BY <1>1 DEF Types, Sizes, sender

LEMMA SomeSizes ==
    ASSUME Types, Sizes, NEW n \in 1..(MaxSize - 1), ReceiveSome(n)
    PROVE  Types' /\ Sizes' /\ mode = "nodes"
<1>1. /\ wire \in Bytes /\ message \in Bytes /\ n \in Nat /\ n <= Len(wire) /\ state = "all"
      /\ message' = message \o SubSeq(wire, 1, n) /\ wire' = SubSeq(wire, n + 1, Len(wire))
      /\ state' = IF Len(message') > MaxSize THEN "accepted" ELSE "all"
      /\ UNCHANGED <<sender, prevChar, lines, body, failed>>
  BY DEF ReceiveSome, Types
<1>2. mode = "nodes" /\ lines = <<>> /\ Len(message) <= MaxSize
  BY <1>1 DEF Sizes
<1>3. /\ SubSeq(wire, 1, n) \in Bytes /\ Len(SubSeq(wire, 1, n)) = n /\ wire' \in Bytes
  BY <1>1, TakeIs
<1>4. message' \in Bytes /\ Len(message') = Len(message) + n /\ Len(message) \in Nat
  BY <1>1, <1>3, Concatenation
<1>5. Types'
  BY <1>1, <1>3, <1>4 DEF Types, sender
<1>6. Sizes'
  BY <1>1, <1>2, <1>4, LimitsAssumption DEF Sizes, sender
<1> QED
  BY <1>2, <1>5, <1>6

LEMMA AllSizes ==
    ASSUME Types, Sizes, AllClosed \/ AllFails
    PROVE  Types' /\ Sizes' /\ mode = "nodes"
<1>1. /\ state = "all" /\ state' = "accepted" /\ failed' \in BOOLEAN
      /\ UNCHANGED <<sender, wire, message, prevChar, lines, body>>
  BY DEF AllClosed, AllFails, Types
<1>2. mode = "nodes" /\ Len(message) <= MaxSize /\ Len(message) \in Nat
  BY <1>1 DEF Sizes, Types, Bytes
<1> QED
  BY <1>1, <1>2, LimitsAssumption DEF Types, Sizes, sender

----------------------------------------------------------------------------
(* Reading, byte by byte.                                                  *)

LEMMA RestTail ==
    ASSUME Types, NEW p \in Nat, Rest(p), wire # <<>>, wire' = Tail(wire), UNCHANGED sender
    PROVE  Rest(p + 1)' /\ wire[1] = All[p + 1] /\ Head(wire) = wire[1] /\ p + 1 <= Len(All)
<1>1. /\ wire \in Bytes /\ Len(wire) \in Nat \ {0} /\ Len(wire') = Len(wire) - 1
      /\ Head(wire) = wire[1] /\ \A j \in 1..Len(wire') : wire'[j] = wire[j + 1]
  BY HeadTail DEF Types
<1>2. All' = All /\ cut' = cut /\ Len(All) \in Nat
  BY Unmoved, StartIs DEF sender
<1>3. p + Len(wire) <= Len(All) /\ \A j \in 1..Len(wire) : wire[j] = All[p + j]
  BY DEF Rest
<1>4. (p + 1) + Len(wire') = p + Len(wire)
  BY <1>1
<1>5. ASSUME NEW j \in 1..Len(wire') PROVE wire'[j] = All[(p + 1) + j]
  <2>1. j + 1 \in 1..Len(wire) /\ p + (j + 1) = (p + 1) + j
    BY <1>1
  <2>2. wire[j + 1] = All[p + (j + 1)]
    BY <1>3, <2>1
  <2> QED
    BY <1>1, <2>1, <2>2
<1>6. Rest(p + 1)'
  BY <1>2, <1>3, <1>4, <1>5 DEF Rest
<1> QED
  BY <1>1, <1>2, <1>3, <1>6

LEMMA ByteKept ==
    ASSUME Types, Sizes, Fits, Reading, ReceiveByte
    PROVE  Reading'
<1>1. /\ state = "line" /\ mode # "nodes" /\ wire # <<>> /\ wire' = Tail(wire)
      /\ UNCHANGED sender /\ UNCHANGED body
  BY ByteCases
<1>2. InLine
  BY <1>1 DEF Reading, Ended
<1>3. PICK k, s, q, p : k = Len(lines) /\ s = Shown[k + 1] /\ q = Len(message) /\ p = Start(k) + q
  OBVIOUS
<1>4. /\ lines \in Seq(Bytes) /\ message \in Bytes /\ k \in Nat /\ q \in Nat
      /\ k < Len(Shown) /\ Len(Shown) \in Nat /\ k + 1 \in 1..Len(Shown)
  <2>1. lines \in Seq(Bytes) /\ message \in Seq(Char) /\ Len(lines) < Len(Shown)
    BY <1>2 DEF Types, InLine, Bytes
  <2>2. Len(lines) \in Nat /\ Len(message) \in Nat
    BY <2>1
  <2>3. Len(Shown) \in Nat
    BY ShownIs
  <2>4. k \in Nat /\ q \in Nat /\ k < Len(Shown)
    BY <1>3, <2>1, <2>2
  <2>5. k + 1 \in 1..Len(Shown)
    BY <2>3, <2>4
  <2> QED
    BY <2>1, <2>3, <2>4, <2>5 DEF Bytes
<1>5. /\ s \in Bytes /\ s # <<>> /\ Len(s) \in Nat \ {0}
      /\ \A j \in 1..Len(s) : s[j] # CR /\ s[j] # LF
      /\ Len(Full(s)) = Len(s) + 2
      /\ \A j \in 1..Len(s) : Full(s)[j] = s[j]
      /\ Full(s)[Len(s) + 1] = CR /\ Full(s)[Len(s) + 2] = LF
  BY <1>3, <1>4, LineIs
<1>6. /\ Line = Full(s) /\ q < Len(s) + 2 /\ \A j \in 1..q : message[j] = Full(s)[j]
      /\ \A i \in 1..k : lines[i] = Shown[i]
      /\ Rest(p) /\ body = <<>>
  BY <1>2, <1>3, <1>5 DEF InLine, Line
<1>7. /\ Start(k) \in Nat /\ p \in Nat /\ Start(k + 1) = Start(k) + (Len(s) + 2)
      /\ \A j \in 1..Len(Full(s)) : All[Start(k) + j] = Full(s)[j]
  <2>1. /\ Start(k) \in Nat /\ Start(k + 1) = Start(k) + (Len(s) + 2)
        /\ \A j \in 1..(Len(s) + 2) : All[Start(k) + j] = Full(s)[j]
    BY <1>3, <1>4, LineStart
  <2>2. p \in Nat
    BY <1>3, <1>4, <2>1
  <2> QED
    BY <1>5, <2>1, <2>2
<1>8. Rest(p + 1)' /\ Head(wire) = All[p + 1]
  BY <1>1, <1>6, <1>7, RestTail
<1>9. Head(wire) = Full(s)[q + 1]
  <2>1. q + 1 \in 1..Len(Full(s)) /\ p + 1 = Start(k) + (q + 1)
    BY <1>3, <1>4, <1>5, <1>6, <1>7
  <2> QED
    BY <1>7, <1>8, <2>1
<1>10. Len(s) + 2 <= MaxSize
  BY <1>3, <1>4, ShownIs DEF Fits
<1>11. Shown' = Shown /\ All' = All /\ \A i : Start(i)' = Start(i)
  BY <1>1, Unmoved
<1>12. CASE q = Len(s) + 1
  <2>1. Last(message) = CR /\ Head(wire) = LF /\ message # <<>>
    <3>1. message # <<>>
      <4>1. Len(message) # 0
        BY <1>3, <1>5, <1>12
      <4> QED
        BY <4>1, EmptyIsBytes
    <3>2. Last(message) = message[q]
      BY <1>3, <1>4, <3>1, FrontIs
    <3>3. q \in 1..q
      BY <1>4, <1>5, <1>12
    <3>4. q + 1 = Len(s) + 2
      BY <1>5, <1>12
    <3> QED
      BY <1>5, <1>6, <1>9, <1>12, <3>1, <3>2, <3>3, <3>4
  <2>2. prevChar = CR
    BY <1>1, <2>1 DEF Sizes
  <2>3. Return(Front(message)) /\ Front(message) \in Bytes
    BY <2>1, <2>2, ByteCases
  <2>4. Front(message) = s
    <3>1. Len(Front(message)) = Len(s) /\ \A j \in 1..Len(s) : Front(message)[j] = message[j]
      <4>1. /\ Len(Front(message)) = Len(message) - 1
            /\ \A j \in 1..Len(Front(message)) : Front(message)[j] = message[j]
        BY <1>4, <2>1, FrontIs
      <4>2. Len(message) - 1 = Len(s)
        BY <1>3, <1>5, <1>12
      <4> QED
        BY <4>1, <4>2
    <3>2. \A j \in 1..Len(s) : Front(message)[j] = s[j]
      BY <1>5, <1>6, <1>12, <3>1
    <3> QED
      BY <1>5, <2>3, <3>1, <3>2 DEF Bytes
  <2>5. /\ LinesRead' /\ lines' = Append(lines, s)
        /\ state' \in {"accepted", "refused"} => Outcome'
        /\ state' = "line" => k + 1 < Len(Shown)
        /\ state' = "body" => mode = "chunk" /\ data # <<>> /\ lines' = Shown
    BY <1>1, <1>3, <1>4, <1>5, <1>6, <2>3, <2>4, LineTaken
  <2>6. message' = <<>> /\ Len(message') = 0 /\ body' = <<>> /\ Len(body') = 0 /\ data' = data
    BY <1>1, <1>6, <2>3, EmptyIsBytes DEF Return, sender
  <2>7. Start(k + 1) = p + 1 /\ p + 1 \in Nat
    BY <1>3, <1>5, <1>7, <1>12
  <2>8. /\ Len(lines') = k + 1 /\ lines'[k + 1] = s /\ \A i \in 1..k : lines'[i] = lines[i]
    BY <1>3, <1>4, <1>5, <2>5, AppendLine
  <2>9. ASSUME state' = "line" PROVE InLine'
    <3>1. Len(lines') < Len(Shown') /\ \A i \in 1..Len(lines') : lines'[i] = Shown'[i]
      <4>1. \A i \in 1..(k + 1) : i \in 1..k \/ i = k + 1
        BY <1>4
      <4> QED
        BY <1>3, <1>6, <1>11, <2>5, <2>8, <2>9, <4>1
    <3>2. Len(message') < Len(Line')
      <4>1. (k + 1) + 1 \in 1..Len(Shown)
        BY <1>4, <2>5, <2>9
      <4>2. Len(Full(Shown[(k + 1) + 1])) = Len(Shown[(k + 1) + 1]) + 2 /\ Len(Shown[(k + 1) + 1]) \in Nat
        BY <4>1, LineIs
      <4> QED
        BY <1>11, <2>6, <2>8, <4>2 DEF Line
    <3>3. Start(Len(lines))' + Len(message') = p + 1
      BY <1>11, <2>6, <2>7, <2>8
    <3>4. Rest(Start(Len(lines)) + Len(message))'
      BY <1>8, <3>3 DEF Rest
    <3> QED
      BY <2>6, <3>1, <3>2, <3>4 DEF InLine
  <2>10. ASSUME state' = "body" PROVE InBody'
    <3>1. k = 0 /\ Start(1) = p + 1
      <4>1. Len(Shown) = 1
        BY <2>5, <2>10, ShownIs
      <4> QED
        BY <1>4, <2>7, <4>1
    <3>2. Len(data) \in Nat \ {0}
      BY <2>5, <2>10 DEF Types, Bytes
    <3>3. Start(1)' + Len(body') = p + 1
      BY <1>11, <2>6, <2>7, <3>1
    <3>4. Rest(Start(1) + Len(body))'
      BY <1>8, <3>3 DEF Rest
    <3> QED
      BY <1>11, <2>5, <2>6, <2>10, <3>2, <3>4 DEF InBody
  <2> QED
    BY <2>5, <2>9, <2>10 DEF Reading
<1>13. CASE q <= Len(s)
  <2>1. Head(wire) # LF
    <3>1. CASE q + 1 \in 1..Len(s)
      BY <1>5, <1>9, <3>1
    <3>2. CASE q + 1 = Len(s) + 1
      BY <1>5, <1>9, <3>2 DEF CR, LF
    <3> QED
      BY <1>4, <1>5, <1>13, <3>1, <3>2
  <2>2. Len(message) + 1 < MaxSize
    BY <1>3, <1>4, <1>5, <1>10, <1>13, LimitsAssumption
  <2>3. ~(Len(message) + 1 >= MaxSize)
    BY <1>3, <1>4, <2>2, LimitsAssumption
  <2>4. message' = Append(message, Head(wire)) /\ lines' = lines /\ state' = state
    BY <2>1, <2>3, ByteCases
  <2>5. Head(wire) \in Char
    BY <1>1, HeadTail DEF Types
  <2>6. /\ Len(message') = q + 1 /\ message'[q + 1] = Full(s)[q + 1]
        /\ \A j \in 1..q : message'[j] = message[j]
    BY <1>3, <1>4, <1>9, <2>4, <2>5, AppendByte
  <2>7. \A j \in 1..(q + 1) : message'[j] = Full(s)[j]
    <3>1. \A j \in 1..(q + 1) : j \in 1..q \/ j = q + 1
      BY <1>4
    <3> QED
      BY <1>6, <2>6, <3>1
  <2>8. Line' = Full(s) /\ q + 1 < Len(Full(s))
    BY <1>3, <1>4, <1>5, <1>11, <1>13, <2>4 DEF Line
  <2>9. Start(Len(lines))' + Len(message') = p + 1
    <3>1. Start(Len(lines))' = Start(k)
      BY <1>3, <1>11, <2>4
    <3>2. Start(k) + (q + 1) = p + 1
      BY <1>3, <1>4, <1>7
    <3> QED
      BY <2>6, <3>1, <3>2
  <2>10. Rest(Start(Len(lines)) + Len(message))'
    BY <1>8, <2>9 DEF Rest
  <2>11. InLine'
    BY <1>1, <1>3, <1>4, <1>6, <1>11, <2>4, <2>6, <2>7, <2>8, <2>10 DEF InLine
  <2> QED
    BY <1>1, <2>4, <2>11 DEF Reading
<1> QED
  BY <1>4, <1>5, <1>6, <1>12, <1>13

(* A call of ReceiveMessage that returns false.                            *)
LEMMA NothingReturned ==
    ASSUME Types, Sizes, state = "line", Return(<<>>), UNCHANGED sender, LinesRead, cut \/ failed'
    PROVE  Reading'
<1>1. /\ state' = AfterFailure /\ lines' = lines /\ cut' = cut /\ mode' = mode /\ Shown' = Shown
  BY Unmoved DEF Return, sender
<1>2. /\ state' \in {"accepted", "refused"} /\ (state' = "accepted" => mode = "reply")
  BY <1>1 DEF AfterFailure
<1>3. LinesRead'
  BY <1>1 DEF LinesRead
<1>4. Outcome'
  BY <1>1, <1>2 DEF Outcome
<1> QED
  BY <1>2, <1>3, <1>4 DEF Reading

LEMMA InLineRead ==
    ASSUME Types, InLine
    PROVE  LinesRead /\ (wire = <<>> => cut)
<1>1. PICK k : k = Len(lines)
  OBVIOUS
<1>2. k \in Nat /\ k < Len(Shown) /\ Len(Shown) \in Nat /\ \A i \in 1..k : lines[i] = Shown[i]
  BY <1>1, ShownIs DEF InLine, Types
<1>3. LinesRead
  BY <1>1, <1>2 DEF LinesRead
<1>4. ASSUME wire = <<>> PROVE cut
  <2>1. Start(k) \in Nat /\ Start(k + 1) = Start(k) + (Len(Shown[k + 1]) + 2) /\ Start(k + 1) <= Len(All)
    BY <1>2, LineStart
  <2>2. Len(message) < Len(Full(Shown[k + 1])) /\ Rest(Start(k) + Len(message))
    BY <1>1 DEF InLine, Line
  <2>3. k + 1 \in 1..Len(Shown)
    BY <1>2
  <2>4. Len(Full(Shown[k + 1])) = Len(Shown[k + 1]) + 2 /\ Len(Shown[k + 1]) \in Nat
    BY <2>3, LineIs
  <2>5. Len(message) \in Nat /\ Len(All) \in Nat /\ Len(wire) = 0
    BY <1>4, StartIs DEF Types, Bytes
  <2>6. (Start(k) + Len(message)) + Len(wire) < Len(All)
    BY <2>1, <2>2, <2>4, <2>5
  <2> QED
    BY <2>2, <2>6 DEF Rest
<1> QED
  BY <1>3, <1>4

LEMMA FailsKept ==
    ASSUME Types, Sizes, Reading, ReceiveFails
    PROVE  Reading'
<1>1. state = "line" /\ Return(<<>>) /\ UNCHANGED sender /\ failed'
  BY DEF ReceiveFails
<1>2. LinesRead
  BY <1>1, InLineRead DEF Reading, Ended
<1> QED
  BY <1>1, <1>2, NothingReturned

LEMMA ClosedKept ==
    ASSUME Types, Sizes, Reading, ReceiveClosed
    PROVE  Reading'
<1>1. /\ state = "line" /\ wire = <<>> /\ Return(message) /\ UNCHANGED sender /\ UNCHANGED body
      /\ wire' = wire /\ mode # "nodes" /\ message \in Bytes
  BY DEF ReceiveClosed, Sizes, Types
<1>2. LinesRead /\ cut
  BY <1>1, InLineRead DEF Reading, Ended
<1>3. CASE message = <<>>
  BY <1>1, <1>2, <1>3, NothingReturned
<1>4. CASE message # <<>>
  <2>1. InLine
    BY <1>1, <1>4 DEF Reading, Ended
  <2>2. PICK k, s : k = Len(lines) /\ s = Shown[k + 1]
    OBVIOUS
  <2>3. k \in Nat /\ k < Len(Shown) /\ Len(Shown) \in Nat /\ k + 1 \in 1..Len(Shown)
    BY <2>1, <2>2, ShownIs DEF InLine, Types
  <2>4. /\ s \in Bytes /\ Len(s) \in Nat /\ Len(Full(s)) = Len(s) + 2
        /\ \A j \in 1..Len(s) : Full(s)[j] = s[j]
        /\ Full(s)[Len(s) + 1] = CR
    BY <2>2, <2>3, LineIs
  <2>5. /\ Append(s, CR) \in Bytes /\ Len(Append(s, CR)) = Len(s) + 1
        /\ \A j \in 1..Len(s) : Append(s, CR)[j] = s[j]
        /\ Append(s, CR)[Len(s) + 1] = CR
    BY <2>4, AppendByte, BytesAssumption
  <2>6. Len(message) < Len(s) + 2 /\ Len(message) \in Nat /\ \A j \in 1..Len(message) : message[j] = Full(s)[j]
    BY <1>1, <2>1, <2>2, <2>4 DEF InLine, Line, Bytes
  <2>7. \A j \in 1..Len(message) : message[j] = Append(s, CR)[j]
    <3>1. \A j \in 1..Len(message) : j \in 1..Len(s) \/ j = Len(s) + 1
      BY <2>4, <2>6
    <3> QED
      BY <2>4, <2>5, <2>6, <3>1
  <2>8. IsPrefix(message, Append(s, CR))
    <3>1. PICK t : t = Append(s, CR)
      OBVIOUS
    <3>2. t \in Bytes /\ Len(message) <= Len(t)
      BY <2>4, <2>5, <2>6, <3>1
    <3>3. \A j \in 1..Len(message) : message[j] = t[j]
      BY <2>7, <3>1
    <3>4. IsPrefix(message, t)
      BY <1>1, <3>2, <3>3, PrefixIs
    <3> QED
      BY <3>1, <3>4
  <2>9. body = <<>> /\ Len(lines) < Len(Shown) /\ \A i \in 1..Len(lines) : lines[i] = Shown[i]
    BY <2>1 DEF InLine
  <2>10. /\ LinesRead' /\ (state' \in {"accepted", "refused"} => Outcome')
         /\ state' \in {"line", "body", "accepted", "refused"}
    BY <1>1, <1>2, <1>4, <2>2, <2>8, <2>9, LineTaken
  <2>11. Ended'
    BY <1>1, <1>2, <2>9, <2>10 DEF Ended, Return, sender
  <2> QED
    BY <2>10, <2>11 DEF Reading
<1> QED
  BY <1>3, <1>4

LEMMA DataKept ==
    ASSUME Types, Sizes, Reading, NEW n \in 1..Len(wire), ReceiveData(n)
    PROVE  Reading'
<1>1. /\ wire \in Bytes /\ body \in Bytes /\ data \in Bytes /\ n \in Nat \ {0}
      /\ n <= Len(wire) /\ Len(body) + n <= Len(data) /\ state = "body"
      /\ body' = body \o SubSeq(wire, 1, n) /\ wire' = SubSeq(wire, n + 1, Len(wire))
      /\ UNCHANGED sender /\ lines' = lines
      /\ state' = IF Len(body') = Len(data) THEN "accepted" ELSE "body"
      /\ Len(wire) \in Nat /\ Len(body) \in Nat /\ Len(data) \in Nat
  BY DEF ReceiveData, Types, Bytes
<1>2. InBody /\ mode = "chunk"
  <2>1. wire # <<>>
    BY <1>1, EmptyIsBytes
  <2> QED
    BY <1>1, <2>1 DEF Reading, Ended, Sizes
<1>3. Len(Shown) = 1 /\ Shown' = Shown /\ All' = All /\ Start(1)' = Start(1) /\ data' = data /\ cut' = cut /\ mode' = mode
  BY <1>1, <1>2, ShownIs, Unmoved DEF sender
<1>4. PICK p, some : p = Start(1) + Len(body) /\ some = SubSeq(wire, 1, n)
  OBVIOUS
<1>5. /\ Start(1) \in Nat /\ Len(All) = Start(1) + Len(data) /\ Len(All) \in Nat
      /\ \A j \in 1..Len(data) : All[Start(1) + j] = data[j]
  <2>1. 1 \in 0..Len(Shown)
    BY <1>3
  <2> QED
    BY <1>3, <2>1, StartIs
<1>6. p \in Nat /\ p + Len(wire) <= Len(All) /\ (\A j \in 1..Len(wire) : wire[j] = All[p + j])
      /\ (cut <=> p + Len(wire) < Len(All))
  <2>1. p \in Nat
    BY <1>1, <1>4, <1>5
  <2>2. Rest(p)
    BY <1>2, <1>4 DEF InBody
  <2> QED
    BY <2>1, <2>2 DEF Rest
<1>7. /\ some \in Bytes /\ Len(some) = n /\ \A j \in 1..n : some[j] = wire[j]
      /\ wire' \in Bytes /\ Len(wire') = Len(wire) - n /\ \A j \in 1..(Len(wire) - n) : wire'[j] = wire[n + j]
  BY <1>1, <1>4, TakeIs
<1>8. /\ body' \in Bytes /\ Len(body') = Len(body) + n
      /\ \A j \in 1..Len(body) : body'[j] = body[j]
      /\ \A j \in 1..n : body'[Len(body) + j] = some[j]
  <2>1. body' = body \o some
    BY <1>1, <1>4
  <2>2. /\ body \o some \in Bytes /\ Len(body \o some) = Len(body) + Len(some)
        /\ \A j \in 1..Len(body) : (body \o some)[j] = body[j]
        /\ \A j \in 1..Len(some) : (body \o some)[Len(body) + j] = some[j]
    BY <1>1, <1>7, Concatenation
  <2> QED
    BY <1>7, <2>1, <2>2
<1>9. ASSUME NEW j \in 1..Len(body') PROVE body'[j] = data[j]
  <2>1. CASE j \in 1..Len(body)
    BY <1>2, <1>8, <2>1 DEF InBody
  <2>2. CASE j \notin 1..Len(body)
    <3>1. PICK i \in 1..n : j = Len(body) + i
      <4>1. j - Len(body) \in 1..n /\ j = Len(body) + (j - Len(body))
        BY <1>1, <1>8, <2>2
      <4> QED
        BY <4>1
    <3>2. body'[j] = wire[i]
      BY <1>7, <1>8, <3>1
    <3>3. wire[i] = All[p + i] /\ p + i = Start(1) + j
      <4>1. i \in 1..Len(wire)
        BY <1>1
      <4>2. (Start(1) + Len(body)) + i = Start(1) + (Len(body) + i)
        BY <1>1, <1>5
      <4> QED
        BY <1>4, <1>6, <3>1, <4>1, <4>2
    <3>4. j \in 1..Len(data)
      BY <1>1, <1>8
    <3> QED
      BY <1>5, <3>2, <3>3, <3>4
  <2> QED
    BY <2>1, <2>2
<1>10. Rest(Start(1) + Len(body))'
  <2>1. Start(1) + Len(body') = p + n
    BY <1>1, <1>4, <1>5, <1>8
  <2>2. (p + n) + Len(wire') = p + Len(wire)
    <3>1. n \in Nat /\ p \in Nat /\ Len(wire) \in Nat /\ Len(wire') = Len(wire) - n
      BY <1>1, <1>6, <1>7
    <3> QED
      BY <3>1
  <2>3. ASSUME NEW j \in 1..Len(wire') PROVE wire'[j] = All[(p + n) + j]
    <3>1. n + j \in 1..Len(wire) /\ j \in 1..(Len(wire) - n) /\ p + (n + j) = (p + n) + j
      BY <1>1, <1>6, <1>7
    <3>2. wire'[j] = wire[n + j] /\ wire[n + j] = All[p + (n + j)]
      BY <1>6, <1>7, <3>1
    <3> QED
      BY <3>1, <3>2
  <2> QED
    BY <1>3, <1>6, <2>1, <2>2, <2>3 DEF Rest
<1>11. lines' = Shown'
  BY <1>1, <1>2, <1>3 DEF InBody
<1>12. LinesRead'
  <2>1. Len(Shown) \in Nat
    BY <1>3
  <2> QED
    BY <1>11, <1>3, <2>1 DEF LinesRead
<1>13. CASE Len(body') = Len(data)
  <2>1. body' = data'
    <3>1. PICK b : b = body'
      OBVIOUS
    <3>2. b \in Seq(Char) /\ data \in Seq(Char) /\ Len(b) = Len(data)
      BY <1>1, <1>8, <1>13, <3>1 DEF Bytes
    <3>3. \A j \in 1..Len(b) : b[j] = data[j]
      BY <1>9, <3>1
    <3>4. b = data
      BY <3>2, <3>3
    <3> QED
      BY <1>3, <3>1, <3>4
  <2>2. Outcome'
    BY <1>1, <1>3, <1>11, <1>13, <2>1 DEF Outcome
  <2> QED
    BY <1>1, <1>12, <1>13, <2>2 DEF Reading
<1>14. CASE Len(body') # Len(data)
  <2>1. Len(body') < Len(data)
    BY <1>1, <1>8, <1>14
  <2>2. InBody'
    BY <1>3, <1>9, <1>10, <1>11, <2>1 DEF InBody
  <2> QED
    BY <1>1, <1>14, <2>2 DEF Reading
<1> QED
  BY <1>13, <1>14

LEMMA DataEndsKept ==
    ASSUME Types, Sizes, Reading, DataEnds
    PROVE  Reading'
<1>1. /\ state = "body" /\ state' = "refused" /\ (wire # <<>> => failed') /\ mode = "chunk"
      /\ UNCHANGED sender /\ lines' = lines
  BY DEF DataEnds, Sizes
<1>2. Shown' = Shown /\ cut' = cut /\ Len(Shown) = 1
  BY <1>1, ShownIs, Unmoved DEF sender
<1>3. CASE InBody
  <2>1. LinesRead
    <3>1. lines = Shown
      BY <1>3 DEF InBody
    <3>2. Len(lines) = 1
      BY <1>2, <3>1
    <3> QED
      BY <1>2, <3>1, <3>2 DEF LinesRead
  <2>2. ASSUME wire = <<>> PROVE cut
    <3>1. Len(All) = Start(1) + Len(data) /\ Start(1) \in Nat
      <4>1. 1 \in 0..Len(Shown)
        BY <1>2
      <4> QED
        BY <1>2, <4>1, StartIs
    <3>2. Len(wire) = 0 /\ Len(body) \in Nat /\ Len(data) \in Nat /\ Len(body) < Len(data)
      BY <1>3, <2>2 DEF InBody, Types, Bytes
    <3>3. (Start(1) + Len(body)) + Len(wire) < Len(All)
      BY <3>1, <3>2
    <3> QED
      BY <1>3, <3>3 DEF InBody, Rest
  <2>3. LinesRead'
    BY <1>1, <1>2, <2>1 DEF LinesRead
  <2>4. Outcome'
    BY <1>1, <1>2, <2>2 DEF Outcome
  <2> QED
    BY <1>1, <2>3, <2>4 DEF Reading
<1>4. CASE Ended
  <2>1. LinesRead'
    BY <1>1, <1>2, <1>4 DEF Ended, LinesRead
  <2>2. Outcome'
    BY <1>1, <1>2, <1>4 DEF Ended, Outcome
  <2> QED
    BY <1>1, <2>1, <2>2 DEF Reading
<1> QED
  BY <1>1, <1>3, <1>4 DEF Reading

----------------------------------------------------------------------------
(* The theorems.                                                           *)

LEMMA InitTypes ==
    ASSUME Init
    PROVE  /\ mode \in Modes /\ sent \in Messages /\ (mode = "request" => sent \in Requests)
           /\ data \in Bytes
           /\ (mode # "chunk" => data = <<>>) /\ ending \in {"closed", "silent"}
           /\ message = <<>> /\ prevChar = None /\ lines = <<>> /\ body = <<>>
           /\ state = (IF mode = "nodes" THEN "all" ELSE "line") /\ failed = FALSE
<1>1. data \in (IF mode = "chunk" THEN Data ELSE {<<>>})
  BY DEF Init
<1>2. data \in Bytes /\ (mode # "chunk" => data = <<>>)
  BY <1>1, BytesAssumption, EmptyIsBytes DEF Bytes
<1>3. sent \in Messages /\ (mode = "request" => sent \in Requests)
  BY RequestsAssumption DEF Init
<1> QED
  BY <1>2, <1>3 DEF Init

LEMMA InitWire ==
    ASSUME Init
    PROVE  wire \in Bytes /\ cut \in BOOLEAN /\ Rest(0)
<1> DEFINE all == Encode(IF mode = "chunk" THEN <<Head(sent)>> ELSE sent) \o data
<1>1. \E n \in 0..Len(all) : wire = SubSeq(all, 1, n) /\ cut = (n < Len(all))
  BY DEF Init
<1>2. all = All
  BY DEF All, Shown
<1> HIDE DEF all
<1>3. PICK n \in 0..Len(all) : wire = SubSeq(all, 1, n) /\ cut = (n < Len(all))
  BY <1>1
<1>4. All \in Bytes /\ Len(All) \in Nat
  <2>1. /\ sent \in Messages /\ data \in Bytes
    BY InitTypes
  <2>2. Shown \in Seq(Bytes) /\ Shown # <<>>
    BY <2>1, MessageIs DEF Shown
  <2>3. Encode(Shown) \in Bytes
    <3>1. Len(Shown) \in 0..Len(Shown)
      BY <2>2
    <3> QED
      BY <2>2, <3>1, FirstOfAll, FirstIsBytes
  <2> QED
    BY <2>1, <2>3, Concatenation DEF All, Bytes
<1>5. n \in Nat /\ n <= Len(All)
  BY <1>2, <1>4
<1>6. wire \in Bytes /\ Len(wire) = n /\ \A j \in 1..n : wire[j] = All[j]
  BY <1>2, <1>3, <1>4, <1>5, TakeIs
<1>7. cut \in BOOLEAN
  BY <1>3
<1>8. cut <=> n < Len(All)
  BY <1>2, <1>3
<1>9. 0 + Len(wire) = n /\ \A j \in 1..Len(wire) : wire[j] = All[0 + j]
  BY <1>5, <1>6
<1> QED
  BY <1>5, <1>6, <1>7, <1>8, <1>9 DEF Rest

LEMMA InitInv == Init => Inv
<1> SUFFICES ASSUME Init PROVE Inv
  OBVIOUS
<1>1. Types
  BY InitTypes, InitWire, EmptyIsBytes DEF Types
<1>2. Sizes
  <2>1. Len(body) = 0 /\ Len(message) = 0 /\ Len(data) \in Nat /\ lines = <<>> /\ Len(lines) = 0
    BY InitTypes, EmptyIsBytes DEF Bytes
  <2> QED
    BY <2>1, InitTypes, LimitsAssumption DEF Sizes
<1>3. ASSUME mode # "nodes" PROVE Reading
  <2>1. state = "line" /\ message = <<>> /\ lines = <<>> /\ body = <<>> /\ Len(message) = 0 /\ Len(lines) = 0
    BY <1>3, InitTypes
  <2>2. Len(Shown) \in Nat \ {0} /\ 0 + 1 \in 1..Len(Shown)
    BY <1>1, ShownIs
  <2>3. Len(Full(Shown[0 + 1])) = Len(Shown[0 + 1]) + 2 /\ Len(Shown[0 + 1]) \in Nat
    BY <1>1, <2>2, LineIs
  <2>4. Len(message) < Len(Line)
    BY <2>1, <2>3 DEF Line
  <2>5. Start(Len(lines)) + Len(message) = 0
    BY <1>1, <2>1, StartIs
  <2>6. Rest(Start(Len(lines)) + Len(message))
    BY <2>5, InitWire
  <2>7. InLine
    BY <2>1, <2>2, <2>4, <2>6 DEF InLine
  <2> QED
    BY <2>1, <2>7 DEF Reading
<1> QED
  BY <1>1, <1>2, <1>3 DEF Inv

LEMMA NextInv == Inv /\ [Next]_vars => Inv'
<1> SUFFICES ASSUME Inv, [Next]_vars PROVE Inv'
  OBVIOUS
<1>0. Types /\ Sizes
  BY DEF Inv
<1>1. CASE ReceiveByte
  <2>1. Types' /\ Sizes' /\ UNCHANGED sender
    BY <1>0, <1>1, ByteSizes, ByteCases
  <2>2. (mode # "nodes" /\ Fits)' => mode # "nodes" /\ Fits
    BY <2>1, Unmoved DEF sender
  <2> QED
    BY <1>0, <1>1, <2>1, <2>2, ByteKept DEF Inv
<1>2. CASE ReceiveClosed
  <2>1. Types' /\ Sizes' /\ UNCHANGED sender
    BY <1>0, <1>2, ClosedSizes DEF ReceiveClosed
  <2>2. (mode # "nodes" /\ Fits)' => mode # "nodes" /\ Fits
    BY <2>1, Unmoved DEF sender
  <2> QED
    BY <1>0, <1>2, <2>1, <2>2, ClosedKept DEF Inv
<1>3. CASE ReceiveFails
  <2>1. Types' /\ Sizes' /\ UNCHANGED sender
    BY <1>0, <1>3, FailsSizes DEF ReceiveFails
  <2>2. (mode # "nodes" /\ Fits)' => mode # "nodes" /\ Fits
    BY <2>1, Unmoved DEF sender
  <2> QED
    BY <1>0, <1>3, <2>1, <2>2, FailsKept DEF Inv
<1>4. CASE DataEnds
  <2>1. Types' /\ Sizes' /\ UNCHANGED sender
    BY <1>0, <1>4, DataEndsSizes DEF DataEnds
  <2>2. (mode # "nodes" /\ Fits)' => mode # "nodes" /\ Fits
    BY <2>1, Unmoved DEF sender
  <2> QED
    BY <1>0, <1>4, <2>1, <2>2, DataEndsKept DEF Inv
<1>5. CASE \E n \in 1..Len(wire) : ReceiveData(n)
  <2>0. PICK n \in 1..Len(wire) : ReceiveData(n)
    BY <1>5
  <2>1. Types' /\ Sizes' /\ UNCHANGED sender
    BY <1>0, <2>0, DataSizes DEF ReceiveData
  <2>2. (mode # "nodes" /\ Fits)' => mode # "nodes" /\ Fits
    BY <2>1, Unmoved DEF sender
  <2> QED
    BY <1>0, <2>0, <2>1, <2>2, DataKept DEF Inv
<1>6. CASE AllClosed \/ AllFails
  <2>1. Types' /\ Sizes' /\ mode = "nodes" /\ UNCHANGED sender
    BY <1>0, <1>6, AllSizes DEF AllClosed, AllFails
  <2> QED
    BY <2>1 DEF Inv, sender
<1>7. CASE \E n \in 1..(MaxSize - 1) : ReceiveSome(n)
  <2>1. PICK n \in 1..(MaxSize - 1) : ReceiveSome(n)
    BY <1>7
  <2>2. Types' /\ Sizes' /\ mode = "nodes" /\ UNCHANGED sender
    BY <1>0, <2>1, SomeSizes DEF ReceiveSome
  <2> QED
    BY <2>2 DEF Inv, sender
<1>8. CASE UNCHANGED vars
  <2>1. Types' /\ Sizes' /\ Shown' = Shown /\ All' = All /\ (Fits' <=> Fits)
    BY <1>0, <1>8, Unmoved DEF vars, Types, Sizes, sender
  <2>2. Reading => Reading'
    BY <1>8 DEF vars, sender, Reading, InLine, InBody, Ended, LinesRead, Outcome, Rest, Line, Start, All, Shown
  <2> QED
    BY <1>8, <2>1, <2>2 DEF Inv, vars, sender
<1> QED
  BY <1>1, <1>2, <1>3, <1>4, <1>5, <1>6, <1>7, <1>8 DEF Next, ReadLine, ReadData, ReadAll

(* The connection as the loops see it: every byte that arrives goes to the *)
(* line or to the data it was sent for.                                    *)
THEOREM Invariance == Spec => []Inv
<1>1. Init => Inv
  BY InitInv
<1>2. Inv /\ [Next]_vars => Inv'
  BY NextInv
<1> QED
  BY <1>1, <1>2, PTL DEF Spec

(* No buffer grows beyond its limit: a line to MaxSize, what               *)
(* RequestUploadNodes reads to less than twice as much, the data of a      *)
(* chunk to the size that was announced.                                   *)
THEOREM TypeCorrect == Spec => []TypeOK
<1>1. Inv => TypeOK
  <2> SUFFICES ASSUME Types, Sizes PROVE TypeOK
    BY DEF Inv
  <2>1. Len(message) \in Nat
    BY DEF Types, Bytes
  <2>2. Len(message) <= (IF mode = "nodes" THEN 2 * MaxSize ELSE MaxSize - 1)
    BY <2>1, LimitsAssumption DEF Sizes
  <2> QED
    BY <2>2 DEF TypeOK, Types, Sizes
<1> QED
  BY <1>1, Invariance, PTL

(* SendMessage and ReceiveMessage agree on where a line ends: calls that   *)
(* follow each other on one connection return the lines sent, in order,    *)
(* and only the last can have lost its end.                                *)
THEOREM LinesCorrect == Spec => []LinesAsSent
<1>1. Inv => LinesAsSent
  <2> SUFFICES ASSUME Types, Sizes, mode # "nodes", Fits, Reading PROVE LinesAsSent
    BY DEF Inv, LinesAsSent
  <2>1. LinesRead
    <3>1. CASE state = "line"
      BY <3>1, InLineRead DEF Reading, Ended
    <3>2. CASE state = "body"
      <4>1. CASE InBody
        <5>1. lines = Shown /\ Len(Shown) \in Nat
          BY <4>1, ShownIs DEF InBody
        <5>2. Len(lines) <= Len(Shown)
          BY <5>1
        <5> QED
          BY <5>1, <5>2 DEF LinesRead
      <4> QED
        BY <3>2, <4>1 DEF Reading, Ended
    <3>3. CASE state \in {"accepted", "refused"}
      BY <3>3 DEF Reading
    <3> QED
      BY <3>1, <3>2, <3>3 DEF Types, Sizes
  <2>2. \A i \in 1..Len(lines) : Shown[i] = sent[i]
    <3>1. Len(lines) \in Nat /\ Len(Shown) \in Nat /\ Len(lines) <= Len(Shown)
      BY <2>1, ShownIs DEF Types, LinesRead
    <3>2. \A i \in 1..Len(lines) : i \in 1..Len(Shown)
      BY <3>1
    <3> QED
      BY <3>2, ShownIs
  <2> QED
    BY <2>1, <2>2 DEF LinesRead, LinesAsSent
<1> QED
  BY <1>1, Invariance, PTL

(* A request is handled, and a chunk kept, only when every byte of it has  *)
(* come; neither is refused without a cause.                               *)
THEOREM AllOrNothingCorrect == Spec => []AllOrNothing
<1>1. Inv => AllOrNothing
  <2> SUFFICES ASSUME Types, mode \in {"request", "chunk"}, Reading PROVE AllOrNothing
    BY DEF Inv, AllOrNothing
  <2>1. state \in {"accepted", "refused"} => Outcome
    BY DEF Reading
  <2> QED
    BY <2>1, ShownIs DEF Outcome, AllOrNothing
<1> QED
  BY <1>1, Invariance, PTL

=============================================================================
