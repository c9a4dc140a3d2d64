-------------------------- MODULE UndoBufferProofs --------------------------
(***************************************************************************)
(* The undo buffer is well formed and implements the bounded stack, for    *)
(* commands of any sizes and a history of any depth. The argument keeps    *)
(* the stream cut into whole commands (Cut) by each of the three edits the *)
(* code makes to it: appending, erasing the front and dropping the end.    *)
(***************************************************************************)
EXTENDS UndoBuffer, TLAPS

End(d, offs, i) == IF i < Len(offs) THEN offs[i + 1] ELSE Len(d)

\* The offsets cut the stream into whole commands. Their order is stated
\* although it follows from the sizes, as that would take an induction.
Cut(d, offs) ==
  /\ d \in Seq(Byte)
  /\ offs \in Seq(Nat)
  /\ IF offs = <<>> THEN d = <<>> ELSE offs[1] = 0
  /\ \A i, j \in 1 .. Len(offs) : i < j => offs[i] < offs[j]
  /\ \A i \in 1 .. Len(offs) :
       \E c \in Command : End(d, offs, i) = offs[i] + Size[c] /\ Holds(d, offs[i], c)

\* The commands the stream holds, oldest first.
Hist(d, offs) == [i \in 1 .. Len(offs) |-> Dispatch(d, offs[i])]

UndoInv ==
  /\ Cut(data, commandOffsets)
  /\ Len(commandOffsets) <= MaxUndoSteps
  /\ dispatched \in Command \cup {NoCommand}

LEMMA FunctionIsSequence ==
  ASSUME NEW S, NEW n \in Nat, NEW r \in [1 .. n -> S]
  PROVE  r \in Seq(S) /\ Len(r) = n
OBVIOUS

LEMMA ConcatOK ==
  ASSUME NEW S, NEW s \in Seq(S), NEW t \in Seq(S)
  PROVE  /\ s \o t \in Seq(S)
         /\ Len(s \o t) = Len(s) + Len(t)
         /\ \A k \in 1 .. Len(s) : (s \o t)[k] = s[k]
         /\ \A k \in 1 .. Len(t) : (s \o t)[Len(s) + k] = t[k]
OBVIOUS

LEMMA PrefixOK ==
  ASSUME NEW S, NEW s \in Seq(S), NEW m \in 0 .. Len(s)
  PROVE  /\ SubSeq(s, 1, m) \in Seq(S)
         /\ Len(SubSeq(s, 1, m)) = m
         /\ \A k \in 1 .. m : SubSeq(s, 1, m)[k] = s[k]
OBVIOUS

\* The header at an offset determines the command.
LEMMA DispatchOK ==
  ASSUME NEW d, NEW o \in Nat, NEW c \in Command, Holds(d, o, c)
  PROVE  Dispatch(d, o) = c
<1>1. ASSUME NEW b \in Command, Holds(d, o, b) PROVE b = c
  <2>1. 1 \in 1 .. Size[b] /\ 1 \in 1 .. Size[c]
    BY UndoAssumption
  <2>2. d[o + 1] = <<b, 1>> /\ d[o + 1] = <<c, 1>>
    BY <1>1, <2>1 DEF Holds
  <2>3. QED BY <2>2
<1>2. QED BY <1>1 DEF Dispatch

\* A command is where its bytes are.
LEMMA HoldsMoved ==
  ASSUME NEW d, NEW o, NEW c \in Command, Holds(d, o, c),
         NEW e, NEW p, p + Size[c] <= Len(e),
         \A k \in 1 .. Size[c] : e[p + k] = d[o + k]
  PROVE  Holds(e, p, c)
BY DEF Holds

\* Appending a command at the end of the stream.
LEMMA AppendOK ==
  ASSUME NEW d, NEW offs, Cut(d, offs), NEW c \in Command
  PROVE  /\ Cut(d \o Encode(c), Append(offs, Len(d)))
         /\ Hist(d \o Encode(c), Append(offs, Len(d))) = Append(Hist(d, offs), c)
<1> DEFINE n == Len(offs)
           e == d \o Encode(c)
           q == Append(offs, Len(d))
<1>1. /\ n \in Nat /\ Len(d) \in Nat /\ Size[c] \in Nat \ {0}
      /\ d \in Seq(Byte) /\ offs \in Seq(Nat)
  BY UndoAssumption DEF Cut
<1>2. /\ Encode(c) \in Seq(Byte) /\ Len(Encode(c)) = Size[c]
      /\ \A k \in 1 .. Size[c] : Encode(c)[k] = <<c, k>>
  <2>1. Encode(c) = [k \in 1 .. Size[c] |-> <<c, k>>]
    BY DEF Encode
  <2>2. \A k \in 1 .. Size[c] : <<c, k>> \in Byte
    BY <1>1 DEF Byte
  <2>3. Encode(c) \in [1 .. Size[c] -> Byte]
    BY <2>1, <2>2
  <2>4. QED BY <1>1, <2>1, <2>3, FunctionIsSequence
<1>3. /\ e \in Seq(Byte) /\ Len(e) = Len(d) + Size[c]
      /\ \A k \in 1 .. Len(d) : e[k] = d[k]
      /\ \A k \in 1 .. Size[c] : e[Len(d) + k] = <<c, k>>
  <2> DEFINE t == Encode(c)
  <2>1. t \in Seq(Byte) /\ Len(t) = Size[c] /\ \A k \in 1 .. Size[c] : t[k] = <<c, k>>
    BY <1>2
  <2> HIDE DEF t
  <2>2. /\ d \o t \in Seq(Byte)
        /\ Len(d \o t) = Len(d) + Len(t)
        /\ \A k \in 1 .. Len(d) : (d \o t)[k] = d[k]
        /\ \A k \in 1 .. Len(t) : (d \o t)[Len(d) + k] = t[k]
    BY <1>1, <2>1, ConcatOK
  <2>3. QED BY <2>1, <2>2 DEF t
<1>4. /\ q \in Seq(Nat) /\ Len(q) = n + 1
      /\ \A i \in 1 .. n : q[i] = offs[i]
      /\ q[n + 1] = Len(d)
  BY <1>1
<1> HIDE DEF e, q
<1>5. ASSUME NEW i \in 1 .. n
      PROVE  \E b \in Command : /\ End(d, offs, i) = offs[i] + Size[b]
                                /\ Holds(d, offs[i], b)
                                /\ Holds(e, offs[i], b)
                                /\ offs[i] < Len(d)
  <2>1. PICK b \in Command : End(d, offs, i) = offs[i] + Size[b] /\ Holds(d, offs[i], b)
    BY DEF Cut
  <2>2. /\ offs[i] \in Nat /\ Size[b] \in Nat \ {0}
        /\ offs[i] + Size[b] <= Len(d)
    BY <1>1, <2>1, UndoAssumption DEF Holds
  <2>3. ASSUME NEW k \in 1 .. Size[b] PROVE e[offs[i] + k] = d[offs[i] + k]
    <3>1. offs[i] + k \in 1 .. Len(d)
      <4>1. Len(d) \in Nat
        BY <1>1
      <4>2. QED BY <2>2, <4>1
    <3>2. QED BY <1>3, <3>1
  <2>4. Holds(e, offs[i], b)
    <3>1. offs[i] + Size[b] <= Len(e)
      BY <1>1, <1>3, <2>2
    <3>2. QED BY <2>1, <2>3, <3>1, HoldsMoved
  <2>5. QED BY <1>1, <2>1, <2>2, <2>4
<1>6. Holds(e, Len(d), c)
  BY <1>1, <1>3 DEF Holds
<1>7. q # <<>> /\ q[1] = 0
  BY <1>1, <1>4 DEF Cut
<1>8. ASSUME NEW i \in 1 .. Len(q), NEW j \in 1 .. Len(q), i < j
      PROVE  q[i] < q[j]
  <2>1. CASE j = n + 1
    <3>1. i \in 1 .. n
      BY <1>1, <1>4, <1>8, <2>1
    <3>2. offs[i] < Len(d)
      BY <1>5, <3>1
    <3>3. QED BY <1>4, <2>1, <3>1, <3>2
  <2>2. CASE j # n + 1
    <3>1. i \in 1 .. n /\ j \in 1 .. n
      <4>1. n \in Nat /\ i \in 1 .. n + 1 /\ j \in 1 .. n + 1
        BY <1>1, <1>4
      <4>2. QED BY <1>8, <2>2, <4>1
    <3>2. offs[i] < offs[j]
      BY <1>8, <3>1 DEF Cut
    <3>3. QED BY <1>4, <3>1, <3>2
  <2>3. QED BY <2>1, <2>2
<1>9. ASSUME NEW i \in 1 .. Len(q)
      PROVE  \E b \in Command : End(e, q, i) = q[i] + Size[b] /\ Holds(e, q[i], b)
  <2>1. CASE i = n + 1
    BY <1>1, <1>3, <1>4, <1>6, <2>1 DEF End
  <2>2. CASE i # n + 1
    <3>1. i \in 1 .. n
      BY <1>1, <1>4, <2>2
    <3>2. End(e, q, i) = End(d, offs, i)
      <4>1. i < Len(q) /\ i + 1 \in 1 .. n + 1
        BY <1>1, <1>4, <3>1
      <4>2. CASE i = n
        BY <1>1, <1>4, <4>1, <4>2 DEF End
      <4>3. CASE i # n
        <5>1. i + 1 \in 1 .. n /\ i < n
          BY <1>1, <3>1, <4>3
        <5>2. QED BY <1>4, <4>1, <5>1 DEF End
      <4>4. QED BY <4>2, <4>3
    <3>3. QED BY <1>4, <1>5, <3>1, <3>2
  <2>3. QED BY <2>1, <2>2
<1>10. Cut(e, q)
  BY <1>3, <1>4, <1>7, <1>8, <1>9 DEF Cut
<1>11. Hist(e, q) = Append(Hist(d, offs), c)
  <2>1. \A i \in 1 .. n : Dispatch(e, offs[i]) = Dispatch(d, offs[i])
    <3>1. ASSUME NEW i \in 1 .. n PROVE Dispatch(e, offs[i]) = Dispatch(d, offs[i])
      <4>1. offs[i] \in Nat
        BY <1>1
      <4>2. QED BY <1>5, <4>1, DispatchOK
    <3>2. QED BY <3>1
  <2>2. Dispatch(e, Len(d)) = c
    BY <1>1, <1>6, DispatchOK
  <2>3. Hist(e, q) = [i \in 1 .. n + 1 |-> IF i = n + 1 THEN c ELSE Dispatch(d, offs[i])]
    <3>1. ASSUME NEW i \in 1 .. n + 1
          PROVE  Dispatch(e, q[i]) = IF i = n + 1 THEN c ELSE Dispatch(d, offs[i])
      <4>1. CASE i = n + 1
        BY <1>4, <2>2, <4>1
      <4>2. CASE i # n + 1
        <5>1. i \in 1 .. n
          BY <1>1, <4>2
        <5>2. QED BY <1>4, <2>1, <4>2, <5>1
      <4>3. QED BY <4>1, <4>2
    <3>2. QED BY <1>4, <3>1 DEF Hist
  <2>4. Append(Hist(d, offs), c) = [i \in 1 .. n + 1 |-> IF i = n + 1 THEN c ELSE Dispatch(d, offs[i])]
    BY <1>1 DEF Hist
  <2>5. QED BY <2>3, <2>4
<1>12. QED BY <1>10, <1>11 DEF e, q
\* Erasing the oldest command from the front of the stream.
LEMMA DeleteOK ==
  ASSUME NEW d, NEW offs, Cut(d, offs), offs # <<>>
  PROVE  LET kept == DeleteCommand(d, offs)
         IN  /\ Cut(kept.data, kept.offsets)
             /\ Len(kept.offsets) = Len(offs) - 1
             /\ Hist(kept.data, kept.offsets) = Tail(Hist(d, offs))
<1> DEFINE n == Len(offs)
           size == IF n > 1 THEN offs[2] ELSE Len(d)
           e == DeleteCommand(d, offs).data
           q == DeleteCommand(d, offs).offsets
<1>1. /\ n \in Nat \ {0} /\ Len(d) \in Nat
      /\ d \in Seq(Byte) /\ offs \in Seq(Nat)
      /\ \A i \in 1 .. n : offs[i] \in Nat
  BY DEF Cut
<1>2. \A i \in 1 .. n : \E c \in Command : /\ End(d, offs, i) = offs[i] + Size[c]
                                          /\ Holds(d, offs[i], c)
                                          /\ offs[i] + Size[c] <= Len(d)
                                          /\ Size[c] \in Nat \ {0}
  BY UndoAssumption DEF Cut, Holds
<1>3. /\ size \in 0 .. Len(d)
      /\ \A i \in 2 .. n : size <= offs[i]
  <2>1. CASE n > 1
    <3>1. 2 \in 1 .. n /\ size = offs[2]
      BY <1>1, <2>1
    <3>2. offs[2] \in 0 .. Len(d)
      <4>1. PICK c \in Command : offs[2] + Size[c] <= Len(d) /\ Size[c] \in Nat
        BY <1>2, <3>1
      <4>2. QED BY <1>1, <3>1, <4>1
    <3>3. ASSUME NEW i \in 2 .. n PROVE offs[2] <= offs[i]
      <4>1. i \in 1 .. n /\ offs[i] \in Nat /\ offs[2] \in Nat
        BY <1>1, <3>1
      <4>2. i = 2 \/ offs[2] < offs[i]
        BY <3>1, <4>1 DEF Cut
      <4>3. QED BY <4>1, <4>2
    <3>4. QED BY <3>1, <3>2, <3>3
  <2>2. CASE ~(n > 1)
    BY <1>1, <2>2
  <2>3. QED BY <2>1, <2>2
<1> HIDE DEF size
<1>4. /\ e = SubSeq(d, size + 1, Len(d))
      /\ q = [i \in 1 .. n - 1 |-> offs[i + 1] - size]
  BY DEF DeleteCommand, size
<1> HIDE DEF e, q
<1>5. /\ e \in Seq(Byte) /\ Len(e) = Len(d) - size
      /\ \A k \in 1 .. Len(d) - size : e[k] = d[size + k]
  BY <1>1, <1>3, <1>4
<1>6. /\ q \in Seq(Nat) /\ Len(q) = n - 1
      /\ \A i \in 1 .. n - 1 : /\ i + 1 \in 1 .. n
                               /\ q[i] = offs[i + 1] - size
                               /\ q[i] \in Nat
  <2>1. ASSUME NEW i \in 1 .. n - 1
        PROVE  i + 1 \in 1 .. n /\ offs[i + 1] - size \in Nat
    BY <1>1, <1>3
  <2>2. q \in [1 .. n - 1 -> Nat] /\ n - 1 \in Nat
    BY <1>1, <1>4, <2>1
  <2>3. q \in Seq(Nat) /\ Len(q) = n - 1
    BY <2>2, FunctionIsSequence
  <2>4. QED BY <1>4, <2>1, <2>3
<1>7. ASSUME NEW i \in 1 .. n - 1, NEW c \in Command, Holds(d, offs[i + 1], c),
             offs[i + 1] + Size[c] <= Len(d), Size[c] \in Nat \ {0}
      PROVE  Holds(e, q[i], c)
  <2>1. q[i] = offs[i + 1] - size /\ q[i] \in Nat /\ offs[i + 1] \in Nat
    BY <1>1, <1>6
  <2>2. q[i] + Size[c] <= Len(e)
    <3>1. Len(e) = Len(d) - size /\ size \in Nat /\ Len(d) \in Nat
      BY <1>1, <1>3, <1>5
    <3>2. QED BY <1>7, <2>1, <3>1
  <2>3. ASSUME NEW k \in 1 .. Size[c] PROVE e[q[i] + k] = d[offs[i + 1] + k]
    <3>1. q[i] + k \in 1 .. Len(d) - size /\ size + (q[i] + k) = offs[i + 1] + k
      <4>1. Len(d) \in Nat /\ size \in Nat /\ Size[c] \in Nat
        BY <1>1, <1>3, <1>7
      <4>2. q[i] + Size[c] <= Len(d) - size
        BY <1>5, <2>2
      <4>3. k \in Nat \ {0} /\ k <= Size[c]
        BY <4>1
      <4>4. q[i] + k >= 1 /\ q[i] + k <= Len(d) - size /\ q[i] + k \in Nat
        <5> DEFINE a == q[i]
                   b == Len(d)
        <5>1. a \in Nat /\ b \in Nat /\ a + Size[c] <= b - size
          BY <2>1, <4>1, <4>2
        <5> HIDE DEF a, b
        <5>2. a + k >= 1 /\ a + k <= b - size /\ a + k \in Nat
          BY <4>1, <4>3, <5>1
        <5>3. QED BY <5>2 DEF a, b
      <4>5. size + (q[i] + k) = offs[i + 1] + k
        BY <2>1, <4>1, <4>3
      <4>6. QED BY <4>1, <4>4, <4>5
    <3>2. QED BY <1>5, <3>1
  <2>4. QED BY <1>7, <2>2, <2>3, HoldsMoved
<1>8. IF q = <<>> THEN e = <<>> ELSE q[1] = 0
  <2>1. CASE n = 1
    <3>1. size = Len(d)
      BY <2>1 DEF size
    <3>2. q = <<>> /\ e = <<>>
      BY <1>1, <1>4, <2>1, <3>1
    <3>3. QED BY <3>2
  <2>2. CASE n # 1
    <3>1. size = offs[2] /\ 1 \in 1 .. n - 1
      <4>1. n \in Nat \ {0}
        BY <1>1
      <4> HIDE DEF n
      <4>2. QED BY <2>2, <4>1 DEF size
    <3>2. q # <<>> /\ q[1] = 0
      BY <1>1, <1>6, <3>1
    <3>3. QED BY <3>2
  <2>3. QED BY <2>1, <2>2
<1>9. ASSUME NEW i \in 1 .. Len(q), NEW j \in 1 .. Len(q), i < j
      PROVE  q[i] < q[j]
  <2>1. i \in 1 .. n - 1 /\ j \in 1 .. n - 1
    BY <1>6
  <2>2. i + 1 \in 1 .. n /\ j + 1 \in 1 .. n /\ i + 1 < j + 1
    BY <1>1, <1>9, <2>1
  <2>3. offs[i + 1] < offs[j + 1] /\ offs[i + 1] \in Nat /\ offs[j + 1] \in Nat /\ size \in Nat
    BY <1>1, <1>3, <2>2 DEF Cut
  <2>4. QED BY <1>6, <2>1, <2>3
<1>10. ASSUME NEW i \in 1 .. Len(q)
       PROVE  \E c \in Command : End(e, q, i) = q[i] + Size[c] /\ Holds(e, q[i], c)
  <2>1. i \in 1 .. n - 1 /\ i + 1 \in 1 .. n
    BY <1>6
  <2>2. PICK c \in Command : /\ End(d, offs, i + 1) = offs[i + 1] + Size[c]
                             /\ Holds(d, offs[i + 1], c)
                             /\ offs[i + 1] + Size[c] <= Len(d)
                             /\ Size[c] \in Nat \ {0}
    BY <1>2, <2>1
  <2>3. Holds(e, q[i], c)
    BY <1>7, <2>1, <2>2
  <2>4. End(e, q, i) = End(d, offs, i + 1) - size
    <3>1. CASE i = n - 1
      BY <1>1, <1>5, <1>6, <3>1 DEF End
    <3>2. CASE i # n - 1
      <4>1. i + 1 \in 1 .. n - 1 /\ i < n - 1 /\ i + 1 < n
        BY <1>1, <2>1, <3>2
      <4>2. q[i + 1] = offs[(i + 1) + 1] - size
        BY <1>6, <4>1
      <4>3. QED BY <1>6, <4>1, <4>2 DEF End
    <3>3. QED BY <3>1, <3>2
  <2>5. q[i] = offs[i + 1] - size /\ offs[i + 1] \in Nat /\ size \in Nat
    BY <1>1, <1>3, <1>6, <2>1
  <2>6. End(e, q, i) = q[i] + Size[c]
    BY <2>2, <2>4, <2>5
  <2>7. QED BY <2>3, <2>6
<1>11. Cut(e, q)
  BY <1>5, <1>6, <1>8, <1>9, <1>10 DEF Cut
<1>12. Hist(e, q) = Tail(Hist(d, offs))
  <2>1. ASSUME NEW i \in 1 .. n - 1 PROVE Dispatch(e, q[i]) = Dispatch(d, offs[i + 1])
    <3>1. i + 1 \in 1 .. n /\ offs[i + 1] \in Nat /\ q[i] \in Nat
      BY <1>1, <1>6
    <3>2. PICK c \in Command : /\ Holds(d, offs[i + 1], c)
                               /\ offs[i + 1] + Size[c] <= Len(d)
                               /\ Size[c] \in Nat \ {0}
      BY <1>2, <3>1
    <3>3. Holds(e, q[i], c)
      BY <1>7, <3>2
    <3>4. QED BY <3>1, <3>2, <3>3, DispatchOK
  <2>2. Hist(e, q) = [i \in 1 .. n - 1 |-> Dispatch(d, offs[i + 1])]
    BY <1>6, <2>1 DEF Hist
  <2>3. Tail(Hist(d, offs)) = [i \in 1 .. n - 1 |-> Dispatch(d, offs[i + 1])]
    <3>1. Hist(d, offs) = [i \in 1 .. n |-> Dispatch(d, offs[i])]
      BY DEF Hist
    <3>2. QED BY <1>1, <3>1
  <2>4. QED BY <2>2, <2>3
<1>13. QED BY <1>6, <1>11, <1>12 DEF e, q

\* Dropping the newest command from the end of the stream.
LEMMA PopOK ==
  ASSUME NEW d, NEW offs, Cut(d, offs), offs # <<>>
  PROVE  LET n == Len(offs)
         IN  /\ Cut(SubSeq(d, 1, offs[n]), SubSeq(offs, 1, n - 1))
             /\ Len(SubSeq(offs, 1, n - 1)) = n - 1
             /\ Hist(SubSeq(d, 1, offs[n]), SubSeq(offs, 1, n - 1)) = SubSeq(Hist(d, offs), 1, n - 1)
             /\ Dispatch(d, offs[n]) = Hist(d, offs)[n]
             /\ Dispatch(d, offs[n]) \in Command
<1> DEFINE n == Len(offs)
           last == offs[n]
           e == SubSeq(d, 1, last)
           q == SubSeq(offs, 1, n - 1)
<1>1. /\ n \in Nat \ {0} /\ Len(d) \in Nat
      /\ d \in Seq(Byte) /\ offs \in Seq(Nat)
      /\ \A i \in 1 .. n : offs[i] \in Nat
  BY DEF Cut
<1>2. \A i \in 1 .. n : \E c \in Command : /\ End(d, offs, i) = offs[i] + Size[c]
                                          /\ Holds(d, offs[i], c)
                                          /\ offs[i] + Size[c] <= Len(d)
                                          /\ Size[c] \in Nat \ {0}
  BY UndoAssumption DEF Cut, Holds
<1>3. last \in 0 .. Len(d)
  <2>1. n \in 1 .. n
    BY <1>1
  <2>2. PICK c \in Command : last + Size[c] <= Len(d) /\ Size[c] \in Nat
    BY <1>2, <2>1
  <2>3. QED BY <1>1, <2>1, <2>2
<1>4. \A i, j \in 1 .. n : i < j => offs[i] < offs[j]
  BY DEF Cut
<1> HIDE DEF last
<1>5. /\ e \in Seq(Byte) /\ Len(e) = last
      /\ \A k \in 1 .. last : e[k] = d[k]
  BY <1>1, <1>3
<1>6. /\ q \in Seq(Nat) /\ Len(q) = n - 1
      /\ \A i \in 1 .. n - 1 : i \in 1 .. n /\ q[i] = offs[i]
  <2>1. n - 1 \in Nat /\ n - 1 <= n /\ \A i \in 1 .. n - 1 : i \in 1 .. n
    BY <1>1
  <2>2. /\ SubSeq(offs, 1, n - 1) \in Seq(Nat)
        /\ Len(SubSeq(offs, 1, n - 1)) = n - 1
        /\ \A i \in 1 .. n - 1 : SubSeq(offs, 1, n - 1)[i] = offs[i]
    <3>1. offs \in Seq(Nat) /\ n - 1 \in 0 .. Len(offs)
      BY <1>1, <2>1
    <3>2. QED BY <3>1, PrefixOK
  <2>3. QED BY <2>1, <2>2
<1> HIDE DEF e, q
<1>7. ASSUME NEW i \in 1 .. n - 1
      PROVE  \E c \in Command : /\ End(e, q, i) = q[i] + Size[c]
                                /\ Holds(e, q[i], c)
                                /\ Holds(d, offs[i], c)
  <2>1. i \in 1 .. n /\ i + 1 \in 1 .. n /\ i < n /\ q[i] = offs[i] /\ offs[i] \in Nat
    BY <1>1, <1>6
  <2>2. PICK c \in Command : /\ End(d, offs, i) = offs[i] + Size[c]
                             /\ Holds(d, offs[i], c)
                             /\ Size[c] \in Nat \ {0}
    BY <1>2, <2>1
  <2>3. End(d, offs, i) = offs[i + 1]
    BY <2>1 DEF End
  <2>4. End(e, q, i) = offs[i + 1]
    <3>1. CASE i = n - 1
      <4>1. i + 1 = n /\ ~(i < Len(q))
        BY <1>1, <1>6, <3>1
      <4>2. QED BY <1>5, <4>1 DEF End, last
    <3>2. CASE i # n - 1
      <4>1. i + 1 \in 1 .. n - 1 /\ i < Len(q)
        BY <1>1, <1>6, <3>2
      <4>2. QED BY <1>6, <4>1 DEF End
    <3>3. QED BY <3>1, <3>2
  <2>5. offs[i + 1] <= last /\ offs[i + 1] \in Nat /\ last \in Nat
    <3>1. n \in 1 .. n /\ offs[i + 1] \in Nat /\ offs[n] \in Nat
      BY <1>1, <2>1
    <3>2. i + 1 = n \/ offs[i + 1] < offs[n]
      BY <1>1, <1>4, <2>1, <3>1
    <3>3. QED BY <3>1, <3>2 DEF last
  <2>6. q[i] + Size[c] <= Len(e)
    BY <1>5, <2>1, <2>2, <2>3, <2>5
  <2>7. ASSUME NEW k \in 1 .. Size[c] PROVE e[q[i] + k] = d[offs[i] + k]
    <3>1. offs[i] + k \in 1 .. last
      BY <2>1, <2>2, <2>3, <2>5
    <3>2. QED BY <1>5, <2>1, <3>1
  <2>8. Holds(e, q[i], c)
    BY <2>2, <2>6, <2>7, HoldsMoved
  <2>9. QED BY <2>1, <2>2, <2>3, <2>4, <2>8
<1>8. IF q = <<>> THEN e = <<>> ELSE q[1] = 0
  <2>1. offs[1] = 0
    BY DEF Cut
  <2>2. CASE n = 1
    <3>1. last = 0
      BY <2>1, <2>2 DEF last
    <3>2. QED BY <1>5, <1>6, <2>2, <3>1
  <2>3. CASE n # 1
    <3>1. 1 \in 1 .. n - 1
      <4>1. n \in Nat \ {0}
        BY <1>1
      <4> HIDE DEF n
      <4>2. QED BY <2>3, <4>1
    <3>2. QED BY <1>1, <1>6, <2>1, <2>3, <3>1
  <2>4. QED BY <2>2, <2>3
<1>9. ASSUME NEW i \in 1 .. Len(q), NEW j \in 1 .. Len(q), i < j
      PROVE  q[i] < q[j]
  BY <1>4, <1>6, <1>9
<1>10. Cut(e, q)
  BY <1>5, <1>6, <1>7, <1>8, <1>9 DEF Cut
<1>11. Hist(e, q) = SubSeq(Hist(d, offs), 1, n - 1)
  <2>1. ASSUME NEW i \in 1 .. n - 1 PROVE Dispatch(e, q[i]) = Dispatch(d, offs[i])
    <3>1. q[i] \in Nat /\ offs[i] \in Nat
      BY <1>1, <1>6
    <3>2. QED BY <1>7, <3>1, DispatchOK
  <2>2. Hist(e, q) = [i \in 1 .. n - 1 |-> Dispatch(d, offs[i])]
    BY <1>6, <2>1 DEF Hist
  <2>3. SubSeq(Hist(d, offs), 1, n - 1) = [i \in 1 .. n - 1 |-> Dispatch(d, offs[i])]
    <3>1. Hist(d, offs) = [i \in 1 .. n |-> Dispatch(d, offs[i])]
      BY DEF Hist
    <3>2. QED BY <1>1, <3>1
  <2>4. QED BY <2>2, <2>3
<1>12. Dispatch(d, last) = Hist(d, offs)[n] /\ Dispatch(d, last) \in Command
  <2>1. n \in 1 .. n /\ last \in Nat
    BY <1>1, <1>3
  <2>2. PICK c \in Command : Holds(d, last, c)
    BY <1>2, <2>1 DEF last
  <2>3. Dispatch(d, last) = c
    BY <2>1, <2>2, DispatchOK
  <2>4. QED BY <2>1, <2>3 DEF Hist, last
<1>13. QED BY <1>6, <1>10, <1>11, <1>12 DEF e, q, last
LEMMA InitOK == Init => UndoInv
BY UndoAssumption DEF Init, UndoInv, Cut

LEMMA PushOK ==
  ASSUME UndoInv, NEW c \in Command, PushCommand(c)
  PROVE  /\ UndoInv'
         /\ Hist(data', commandOffsets') = Stack!Pushed(Hist(data, commandOffsets), c)
<1> DEFINE h == Hist(data, commandOffsets)
           k == Kept
<1>1. /\ Cut(data, commandOffsets) /\ commandOffsets \in Seq(Nat)
      /\ Len(commandOffsets) \in Nat /\ Len(commandOffsets) <= MaxUndoSteps
      /\ MaxUndoSteps \in Nat \ {0}
  BY UndoAssumption DEF UndoInv, Cut
<1>2. Len(h) = Len(commandOffsets)
  BY <1>1 DEF Hist
<1>3. /\ Cut(k.data, k.offsets)
      /\ Len(k.offsets) + 1 <= MaxUndoSteps
      /\ Hist(k.data, k.offsets) = IF Len(h) >= MaxUndoSteps THEN Tail(h) ELSE h
  <2>1. CASE Len(commandOffsets) >= MaxUndoSteps
    <3>1. k = DeleteCommand(data, commandOffsets) /\ commandOffsets # <<>>
      BY <1>1, <2>1 DEF Kept
    <3> DEFINE r == DeleteCommand(data, commandOffsets)
    <3>2. /\ Cut(r.data, r.offsets)
          /\ Len(r.offsets) = Len(commandOffsets) - 1
          /\ Hist(r.data, r.offsets) = Tail(h)
      BY <1>1, <3>1, DeleteOK, Zenon
    <3>3. k = r
      BY <3>1
    <3> HIDE DEF r, k
    <3>4. QED BY <1>1, <1>2, <2>1, <3>2, <3>3
  <2>2. CASE ~(Len(commandOffsets) >= MaxUndoSteps)
    <3>1. k.data = data /\ k.offsets = commandOffsets
      BY <2>2 DEF Kept
    <3>2. Hist(k.data, k.offsets) = h
      BY <3>1
    <3>3. Len(commandOffsets) + 1 <= MaxUndoSteps
      BY <1>1, <2>2
    <3>4. QED BY <1>1, <1>2, <2>2, <3>1, <3>2, <3>3
  <2>3. QED BY <2>1, <2>2
<1> HIDE DEF k
<1>4. /\ data' = k.data \o Encode(c)
      /\ commandOffsets' = Append(k.offsets, Len(k.data))
      /\ dispatched' = NoCommand
  BY DEF PushCommand, k
<1>5. /\ Cut(data', commandOffsets')
      /\ Hist(data', commandOffsets') = Append(Hist(k.data, k.offsets), c)
  BY <1>3, <1>4, AppendOK
<1>6. Len(commandOffsets') <= MaxUndoSteps
  <2>1. k.offsets \in Seq(Nat)
    BY <1>3 DEF Cut
  <2>2. Len(commandOffsets') = Len(k.offsets) + 1
    BY <1>4, <2>1
  <2>3. QED BY <1>3, <2>2
<1>7. Hist(data', commandOffsets') = Stack!Pushed(h, c)
  BY <1>3, <1>5 DEF Stack!Pushed
<1>8. QED BY <1>4, <1>5, <1>6, <1>7 DEF UndoInv

LEMMA UndoOK ==
  ASSUME UndoInv, Undo
  PROVE  LET h == Hist(data, commandOffsets)
         IN  /\ UndoInv'
             /\ Hist(data', commandOffsets') = SubSeq(h, 1, Len(h) - 1)
             /\ dispatched' = h[Len(h)]
             /\ h # <<>>
<1> DEFINE h == Hist(data, commandOffsets)
           n == Len(commandOffsets)
<1>1. /\ Cut(data, commandOffsets) /\ commandOffsets # <<>>
      /\ n \in Nat \ {0} /\ n <= MaxUndoSteps /\ MaxUndoSteps \in Nat
      /\ data' = SubSeq(data, 1, commandOffsets[n])
      /\ commandOffsets' = SubSeq(commandOffsets, 1, n - 1)
      /\ dispatched' = Dispatch(data, commandOffsets[n])
  BY UndoAssumption DEF UndoInv, Cut, Undo
<1>2. Len(h) = n /\ h # <<>>
  <2>1. n \in Nat \ {0} /\ h = [i \in 1 .. n |-> Dispatch(data, commandOffsets[i])]
    BY <1>1 DEF Hist
  <2> HIDE DEF n
  <2>2. Len(h) = n
    BY <2>1
  <2>3. QED BY <2>1, <2>2
<1>3. /\ Cut(SubSeq(data, 1, commandOffsets[n]), SubSeq(commandOffsets, 1, n - 1))
      /\ Len(SubSeq(commandOffsets, 1, n - 1)) = n - 1
      /\ Hist(SubSeq(data, 1, commandOffsets[n]), SubSeq(commandOffsets, 1, n - 1)) = SubSeq(h, 1, n - 1)
      /\ Dispatch(data, commandOffsets[n]) = h[n]
      /\ Dispatch(data, commandOffsets[n]) \in Command
  BY <1>1, PopOK, Zenon
<1>4. UndoInv'
  <2>1. Cut(data', commandOffsets')
    BY <1>1, <1>3
  <2>2. Len(commandOffsets') <= MaxUndoSteps
    <3>1. Len(commandOffsets') = n - 1
      BY <1>1, <1>3
    <3>2. QED BY <1>1, <3>1
  <2>3. dispatched' \in Command
    BY <1>1, <1>3
  <2>4. QED BY <2>1, <2>2, <2>3 DEF UndoInv
<1>5. Hist(data', commandOffsets') = SubSeq(h, 1, Len(h) - 1) /\ dispatched' = h[Len(h)]
  BY <1>1, <1>2, <1>3
<1>6. QED BY <1>2, <1>4, <1>5

LEMMA StepOK == UndoInv /\ [Next]_vars => UndoInv'
<1> SUFFICES ASSUME UndoInv, [Next]_vars PROVE UndoInv'
  OBVIOUS
<1>1. CASE Undo
  BY <1>1, UndoOK
<1>2. ASSUME NEW c \in Command, PushCommand(c) PROVE UndoInv'
  BY <1>2, PushOK
<1>3. CASE UNCHANGED vars
  BY <1>3 DEF vars, UndoInv
<1>4. QED BY <1>1, <1>2, <1>3 DEF Next

LEMMA InvImplies == UndoInv => TypeOK /\ WellFormed
<1> SUFFICES ASSUME UndoInv PROVE TypeOK /\ WellFormed
  OBVIOUS
<1>1. TypeOK
  BY DEF UndoInv, Cut, TypeOK
<1>2. \A i \in 1 .. Len(commandOffsets) : EndOf(i) = End(data, commandOffsets, i)
  BY DEF EndOf, End
<1>3. WellFormed
  BY <1>2 DEF UndoInv, Cut, WellFormed
<1>4. QED BY <1>1, <1>3

\* The buffer's fields keep their types; no offset goes below zero when the
\* oldest command is erased.
THEOREM UndoTypesAlways == Spec => []TypeOK
BY InitOK, StepOK, InvImplies, PTL DEF Spec

\* However pushes, evictions and undos alternate, the offsets cut the stream
\* into whole commands.
THEOREM UndoAlwaysWellFormed == Spec => []WellFormed
BY InitOK, StepOK, InvImplies, PTL DEF Spec

\* The byte stream implements the bounded stack: every push and every undo of
\* the buffer is one of the stack, with the same command dispatched.
THEOREM UndoImplementsStack == Spec => ImplementsStack
<1> DEFINE h == Hist(data, commandOffsets)
<1>1. Init => Stack!Init
  BY DEF Init, Stack!Init
<1>2. ASSUME UndoInv, [Next]_vars
      PROVE  [Stack!Next]_(Stack!stackVars)
  <2>1. CASE Undo
    <3>1. /\ Hist(data', commandOffsets') = SubSeq(h, 1, Len(h) - 1)
          /\ dispatched' = h[Len(h)]
          /\ h # <<>>
      BY <1>2, <2>1, UndoOK, Zenon
    <3>2. Stack!Undo
      BY <3>1 DEF Stack!Undo, Hist
    <3>3. QED BY <3>2 DEF Stack!Next
  <2>2. ASSUME NEW c \in Command, PushCommand(c) PROVE Stack!Next
    <3>1. Hist(data', commandOffsets') = Stack!Pushed(h, c) /\ dispatched' = NoCommand
      BY <1>2, <2>2, PushOK DEF PushCommand
    <3>2. Stack!Push(c)
      BY <3>1 DEF Stack!Push, Hist
    <3>3. QED BY <3>2 DEF Stack!Next
  <2>3. CASE UNCHANGED vars
    BY <2>3 DEF vars, Stack!stackVars
  <2>4. QED BY <1>2, <2>1, <2>2, <2>3 DEF Next
<1>3. QED BY <1>1, <1>2, InitOK, StepOK, PTL DEF Spec, ImplementsStack, Stack!StackSpec
=============================================================================
