--------------------------- MODULE McpServerProofs ---------------------------
(***************************************************************************)
(* What the server promises of requests, for any messages in any number,   *)
(* any chunks, and any overlap of the runs of its data handler: that they  *)
(* are started in order and once, answered once, and that the services are *)
(* made once for all of them.                                              *)
(***************************************************************************)
EXTENDS McpServer, SequenceTheorems, FiniteSetTheorems, TLAPS

Messages == [method : STRING, tool : STRING, id : BOOLEAN, frame : STRING, wide : BOOLEAN]
Unit == [of : Nat \ {0}, part : {"header", "first", "second", "cut"}]

-----------------------------------------------------------------------------
(* Rests of sequences *)

LEMMA FromRest ==
    ASSUME NEW S, NEW s \in Seq(S), NEW m \in 1 .. Len(s) + 1
    PROVE  /\ From(s, m) \in Seq(S) /\ Len(From(s, m)) = Len(s) - m + 1
           /\ \A i \in 1 .. Len(From(s, m)) : From(s, m)[i] = s[i + m - 1]
<1>1. /\ \A i \in m .. Len(s) : s[i] \in S
      /\ Len(s) \in Nat
  OBVIOUS
<1> QED BY <1>1, SubSeqProperties DEF From

LEMMA Joined ==
    ASSUME NEW S, NEW b \in Seq(S), NEW p \in Seq(S)
    PROVE  /\ b \o p \in Seq(S) /\ Len(b \o p) = Len(b) + Len(p)
           /\ \A i \in 1 .. Len(b) : (b \o p)[i] = b[i]
           /\ \A i \in 1 .. Len(p) : (b \o p)[Len(b) + i] = p[i]
           /\ \A i \in Len(b) + 1 .. Len(b) + Len(p) : (b \o p)[i] = p[i - Len(b)]
BY ConcatProperties

\* Sequences are the same if their elements are.
LEMMA SameElements ==
    ASSUME NEW S, NEW s \in Seq(S), NEW t \in Seq(S), Len(s) = Len(t),
           \A i \in 1 .. Len(s) : s[i] = t[i]
    PROVE  s = t
BY SeqEqual

LEMMA FromFrom ==
    ASSUME NEW S, NEW s \in Seq(S), NEW m \in 1 .. Len(s) + 1, NEW k \in 1 .. Len(s) - m + 2
    PROVE  From(From(s, m), k) = From(s, m + k - 1) /\ m + k - 1 \in 1 .. Len(s) + 1
<1>1. m + k - 1 \in 1 .. Len(s) + 1 /\ Len(s) \in Nat
  OBVIOUS
<1>2. From(s, m) \in Seq(S) /\ Len(From(s, m)) = Len(s) - m + 1
      /\ \A i \in 1 .. Len(From(s, m)) : From(s, m)[i] = s[i + m - 1]
  BY FromRest
<1>3. From(From(s, m), k) \in Seq(S) /\ Len(From(From(s, m), k)) = Len(s) - m + 1 - k + 1
      /\ \A i \in 1 .. Len(From(From(s, m), k)) : From(From(s, m), k)[i] = From(s, m)[i + k - 1]
  <2>1. PICK r : r = From(s, m)
    OBVIOUS
  <2>2. r \in Seq(S) /\ k \in 1 .. Len(r) + 1
    BY <1>1, <1>2, <2>1
  <2>3. From(r, k) \in Seq(S) /\ Len(From(r, k)) = Len(r) - k + 1
        /\ \A i \in 1 .. Len(From(r, k)) : From(r, k)[i] = r[i + k - 1]
    BY <2>2, FromRest
  <2> QED BY <1>2, <2>1, <2>3
<1>4. From(s, m + k - 1) \in Seq(S) /\ Len(From(s, m + k - 1)) = Len(s) - (m + k - 1) + 1
      /\ \A i \in 1 .. Len(From(s, m + k - 1)) : From(s, m + k - 1)[i] = s[i + (m + k - 1) - 1]
  BY <1>1, FromRest
<1>5. Len(From(From(s, m), k)) = Len(From(s, m + k - 1))
  BY <1>1, <1>3, <1>4
<1>6. ASSUME NEW i \in 1 .. Len(From(From(s, m), k)) PROVE From(From(s, m), k)[i] = From(s, m + k - 1)[i]
  <2>1. i + k - 1 \in 1 .. Len(From(s, m)) /\ (i + k - 1) + m - 1 = i + (m + k - 1) - 1
    BY <1>1, <1>2, <1>3, <1>6
  <2> QED BY <1>2, <1>3, <1>4, <1>5, <1>6, <2>1
<1> QED BY <1>1, <1>3, <1>4, <1>5, <1>6, SameElements

LEMMA FromJoined ==
    ASSUME NEW S, NEW b \in Seq(S), NEW p \in Seq(S), NEW m \in 1 .. Len(b) + 1
    PROVE  From(b, m) \o p = From(b \o p, m) /\ m \in 1 .. Len(b \o p) + 1
<1>0. PICK n, k, s, r : n = Len(b) /\ k = Len(p) /\ s = b \o p /\ r = From(b, m)
  OBVIOUS
<1>1. n \in Nat /\ k \in Nat /\ m \in 1 .. n + 1
  BY <1>0
<1>2. /\ s \in Seq(S) /\ Len(s) = n + k
      /\ \A i \in 1 .. n : s[i] = b[i]
      /\ \A i \in 1 .. k : s[n + i] = p[i]
  BY <1>0, Joined
<1>3. m \in 1 .. Len(s) + 1
  BY <1>1, <1>2
<1>4. /\ From(s, m) \in Seq(S) /\ Len(From(s, m)) = n + k - m + 1
      /\ \A i \in 1 .. Len(From(s, m)) : From(s, m)[i] = s[i + m - 1]
  <2>1. /\ From(s, m) \in Seq(S) /\ Len(From(s, m)) = Len(s) - m + 1
        /\ \A i \in 1 .. Len(From(s, m)) : From(s, m)[i] = s[i + m - 1]
    BY <1>2, <1>3, FromRest
  <2> QED BY <1>1, <1>2, <2>1
<1>5. /\ r \in Seq(S) /\ Len(r) = n - m + 1
      /\ \A i \in 1 .. Len(r) : r[i] = b[i + m - 1]
  BY <1>0, FromRest
<1>6. /\ r \o p \in Seq(S) /\ Len(r \o p) = Len(r) + k
      /\ \A i \in 1 .. Len(r) : (r \o p)[i] = r[i]
      /\ \A i \in 1 .. k : (r \o p)[Len(r) + i] = p[i]
  <2>1. /\ r \o p \in Seq(S) /\ Len(r \o p) = Len(r) + Len(p)
        /\ \A i \in 1 .. Len(r) : (r \o p)[i] = r[i]
        /\ \A i \in 1 .. Len(p) : (r \o p)[Len(r) + i] = p[i]
    <3>1. r \in Seq(S) /\ p \in Seq(S)
      BY <1>5
    <3> QED BY <3>1, Joined
  <2> QED BY <1>0, <2>1
<1>7. ASSUME NEW i \in 1 .. n - m + 1 PROVE (r \o p)[i] = From(s, m)[i]
  <2>1. i + m - 1 \in 1 .. n /\ i \in 1 .. Len(From(s, m)) /\ i \in 1 .. Len(r)
    BY <1>1, <1>4, <1>5
  <2> QED BY <1>2, <1>4, <1>5, <1>6, <2>1
<1>8. ASSUME NEW i \in 1 .. k PROVE (r \o p)[n - m + 1 + i] = From(s, m)[n - m + 1 + i]
  <2>1. n - m + 1 + i \in 1 .. Len(From(s, m)) /\ (n - m + 1 + i) + m - 1 = n + i
    BY <1>1, <1>4
  <2>2. From(s, m)[n - m + 1 + i] = s[n + i]
    BY <1>4, <2>1
  <2> QED BY <1>2, <1>5, <1>6, <2>2
<1>9. ASSUME NEW i \in 1 .. n + k - m + 1 PROVE (r \o p)[i] = From(s, m)[i]
  <2>1. CASE i \in 1 .. n - m + 1
    BY <1>7, <2>1
  <2>2. CASE i - (n - m + 1) \in 1 .. k
    <3>1. i = n - m + 1 + (i - (n - m + 1))
      BY <1>1
    <3> QED BY <1>8, <2>2, <3>1
  <2>3. i \in 1 .. n - m + 1 \/ i - (n - m + 1) \in 1 .. k
    BY <1>1
  <2> QED BY <2>1, <2>2, <2>3
<1>10. Len(r \o p) = Len(From(s, m)) /\ Len(r \o p) = n + k - m + 1
  BY <1>1, <1>4, <1>5, <1>6
<1>11. r \o p = From(s, m)
  BY <1>4, <1>6, <1>9, <1>10, SameElements
<1> QED BY <1>0, <1>3, <1>11

-----------------------------------------------------------------------------
(* The framing *)

\* What is left of b is its end, and a length that was found is that of a header before it.
LEMMA HeaderTaken ==
    ASSUME NEW b \in Seq(Unit)
    PROVE  \E m \in 1 .. Len(b) + 1 :
              /\ TakeHeader(b).buffer = From(b, m)
              /\ \/ TakeHeader(b).length = 0
                 \/ /\ m > 1 /\ b[m - 1].part = "header"
                    /\ TakeHeader(b).length = b[m - 1].of
<1> DEFINE decisive == {k \in HeaderEnds(b) : HasLength(b, k) \/ BadLength(b, k)}
           first == {k \in decisive : \A j \in decisive : k <= j}
           last == {k \in HeaderEnds(b) : \A j \in HeaderEnds(b) : k >= j}
<1>1. Len(b) \in Nat /\ \A k \in HeaderEnds(b) : k \in 1 .. Len(b) /\ b[k].part = "header"
  BY DEF HeaderEnds
<1>2. From(b, Len(b) + 1) = <<>>
  BY <1>1, SubSeqEmpty DEF From
<1>3. CASE first # {}
  <2>1. PICK k \in first : k = CHOOSE j \in first : TRUE
    BY <1>3
  <2>2. k \in HeaderEnds(b) /\ k + 1 \in 1 .. Len(b) + 1 /\ k + 1 > 1 /\ k + 1 - 1 = k
    BY <1>1, <2>1
  <2>3. TakeHeader(b) = IF HasLength(b, k) THEN [buffer |-> From(b, k + 1), length |-> b[k].of]
                        ELSE [buffer |-> <<>>, length |-> 0]
    BY <1>3, <2>1 DEF TakeHeader
  <2>4. CASE HasLength(b, k)
    BY <1>1, <2>2, <2>3, <2>4
  <2>5. CASE ~HasLength(b, k)
    <3>1. Len(b) + 1 \in 1 .. Len(b) + 1
      BY <1>1
    <3> QED BY <1>2, <2>3, <2>5, <3>1
  <2> QED BY <2>4, <2>5
<1>4. CASE first = {}
  <2>1. PICK k : k = IF last = {} THEN 0 ELSE CHOOSE j \in last : TRUE
    OBVIOUS
  <2>2. TakeHeader(b) = [buffer |-> From(b, 1 + k), length |-> 0]
    BY <1>4, <2>1 DEF TakeHeader
  <2>3. k = 0 \/ k \in HeaderEnds(b)
    BY <2>1
  <2>4. 1 + k \in 1 .. Len(b) + 1
    BY <1>1, <2>3
  <2> QED BY <2>2, <2>4
<1> QED BY <1>3, <1>4

\* The lengths and requests that the loop comes to are 0, the one it starts with, or those of headers that it has passed.
Passed(b, m, l) == {0, l} \union {b[i].of : i \in {i \in 1 .. m - 1 : b[i].part = "header"}}

LEMMA LoopTakes ==
    ASSUME NEW b \in Seq(Unit), NEW l \in Nat
    PROVE  \E m \in 1 .. Len(b) + 1 :
              /\ Loop(b, l).buffer = From(b, m)
              /\ Loop(b, l).length \in Passed(b, m, l) /\ Loop(b, l).request \in Passed(b, m, l)
              /\ Loop(b, l).request = 0 \/ Loop(b, l).length = 0
              /\ Loop(b, l).errors \in {0, 1}
<1>1. Len(b) \in Nat
  OBVIOUS
<1>2. PICK h : h = IF l = 0 THEN TakeHeader(b) ELSE [buffer |-> b, length |-> l]
  OBVIOUS
<1>3. PICK m \in 1 .. Len(b) + 1 : h.buffer = From(b, m) /\ h.length \in Passed(b, m, l)
  <2>1. CASE l = 0
    <3>1. PICK m \in 1 .. Len(b) + 1 :
              /\ TakeHeader(b).buffer = From(b, m)
              /\ \/ TakeHeader(b).length = 0
                 \/ /\ m > 1 /\ b[m - 1].part = "header"
                    /\ TakeHeader(b).length = b[m - 1].of
      BY HeaderTaken
    <3>2. m > 1 => m - 1 \in 1 .. m - 1
      OBVIOUS
    <3>3. TakeHeader(b).length \in Passed(b, m, l)
      BY <3>1, <3>2 DEF Passed
    <3> QED BY <1>2, <2>1, <3>1, <3>3
  <2>2. CASE l # 0
    <3>1. From(b, 1) = b
      BY SubSeqFull DEF From
    <3> QED BY <1>1, <1>2, <2>2, <3>1 DEF Passed
  <2> QED BY <2>1, <2>2
<1>4. h.buffer \in Seq(Unit) /\ Len(h.buffer) = Len(b) - m + 1
      /\ \A i \in 1 .. Len(h.buffer) : h.buffer[i] = b[i + m - 1]
  BY <1>3, FromRest
<1> DEFINE rest == From(h.buffer, 3)
<1>5. CASE h.length = 0 \/ Len(h.buffer) < 2
  <2>1. Loop(b, l) = [buffer |-> h.buffer, length |-> h.length, request |-> 0, errors |-> 0]
    BY <1>2, <1>5 DEF Loop
  <2> QED BY <1>3, <2>1 DEF Passed
<1>6. CASE ~(h.length = 0 \/ Len(h.buffer) < 2)
  <2>1. 3 \in 1 .. Len(h.buffer) + 1 /\ 3 \in 1 .. Len(b) - m + 2
    BY <1>1, <1>4, <1>6
  <2>2. rest = From(b, m + 2) /\ m + 2 \in 1 .. Len(b) + 1
    <3>1. From(From(b, m), 3) = From(b, m + 3 - 1) /\ m + 3 - 1 \in 1 .. Len(b) + 1
      BY <2>1, FromFrom
    <3>2. m + 3 - 1 = m + 2
      OBVIOUS
    <3> QED BY <1>3, <3>1, <3>2
  <2>3. h.length \in Passed(b, m + 2, l)
    <3>1. \A i \in 1 .. m - 1 : i \in 1 .. m + 2 - 1
      OBVIOUS
    <3> QED BY <1>3, <3>1 DEF Passed
  <2>4. CASE SubSeq(h.buffer, 1, 2) = Body(h.length)
    <3>1. Loop(b, l) = [buffer |-> rest, length |-> 0, request |-> h.length, errors |-> 0]
      BY <1>2, <1>6, <2>4 DEF Loop
    <3> QED BY <2>2, <2>3, <3>1 DEF Passed
  <2>5. CASE SubSeq(h.buffer, 1, 2) # Body(h.length)
    <3>0. Loop(b, l) = [buffer |-> TakeHeader(rest).buffer, length |-> TakeHeader(rest).length, request |-> 0, errors |-> 1]
      BY <1>2, <1>6, <2>5 DEF Loop
    <3>1. rest \in Seq(Unit) /\ Len(rest) = Len(b) - (m + 2) + 1
          /\ \A i \in 1 .. Len(rest) : rest[i] = b[i + (m + 2) - 1]
      BY <2>2, FromRest
    <3>2. PICK k \in 1 .. Len(rest) + 1 :
              /\ TakeHeader(rest).buffer = From(rest, k)
              /\ \/ TakeHeader(rest).length = 0
                 \/ /\ k > 1 /\ rest[k - 1].part = "header"
                    /\ TakeHeader(rest).length = rest[k - 1].of
      BY <3>1, HeaderTaken
    <3>3. PICK n : n = (m + 2) + k - 1
      OBVIOUS
    <3>4. From(rest, k) = From(b, n) /\ n \in 1 .. Len(b) + 1
      <4>1. k \in 1 .. Len(b) - (m + 2) + 2
        BY <1>1, <3>1, <3>2
      <4> QED BY <2>2, <3>3, <4>1, FromFrom
    <3>5. TakeHeader(rest).length \in Passed(b, n, l)
      <4>1. CASE TakeHeader(rest).length = 0
        BY <4>1 DEF Passed
      <4>2. CASE k > 1 /\ rest[k - 1].part = "header" /\ TakeHeader(rest).length = rest[k - 1].of
        <5>1. k - 1 \in 1 .. Len(rest) /\ (k - 1) + (m + 2) - 1 = n - 1 /\ n - 1 \in 1 .. n - 1
          BY <1>1, <3>1, <3>2, <3>3, <4>2
        <5>2. rest[k - 1] = b[n - 1]
          BY <3>1, <5>1
        <5> QED BY <4>2, <5>1, <5>2 DEF Passed
      <4> QED BY <3>2, <4>1, <4>2
    <3> QED BY <3>0, <3>2, <3>4, <3>5 DEF Passed
  <2> QED BY <2>4, <2>5
<1> QED BY <1>5, <1>6

-----------------------------------------------------------------------------
(* The order of headers in the input s, whatever else there is in it, behind the length l and the requests in st *)

Ascends(s, l, st) ==
    \A k \in 1 .. Len(s) : s[k].part = "header" =>
        /\ s[k].of <= sent /\ l < s[k].of
        /\ \A i \in 1 .. Len(st) : st[i] < s[k].of
        /\ \A j \in 1 .. k - 1 : s[j].part = "header" => s[j].of < s[k].of

StartedUp(l, st) ==
    /\ l \in 0 .. sent
    /\ \A i \in 1 .. Len(st) :
          /\ st[i] \in 1 .. sent /\ (l # 0 => st[i] < l)
          /\ \A j \in 1 .. i - 1 : st[j] < st[i]

\* What a turn of the loop makes of buffer, length and requests.
Turn(b, l, st, buf, len, req, st2) ==
    /\ buf = Loop(b, l).buffer /\ len = Loop(b, l).length /\ req = Loop(b, l).request
    /\ st2 = IF req = 0 THEN st ELSE Append(st, req)

\* The order survives it.
LEMMA OrderKept ==
    ASSUME NEW b \in Seq(Unit), NEW p \in Seq(Unit), NEW l \in Nat, NEW st \in Seq(Nat \ {0}), sent \in Nat,
           Ascends(b \o p, l, st), StartedUp(l, st),
           NEW buf, NEW len, NEW req, NEW st2,
           Turn(b, l, st, buf, len, req, st2)
    PROVE  /\ buf \in Seq(Unit) /\ len \in Nat /\ st2 \in Seq(Nat \ {0})
           /\ Ascends(buf \o p, len, st2) /\ StartedUp(len, st2)
           /\ req \in 0 .. sent
           /\ req # 0 => \A i \in 1 .. Len(st) : st[i] < req
<1>1. PICK m \in 1 .. Len(b) + 1 :
          /\ buf = From(b, m)
          /\ len \in Passed(b, m, l) /\ req \in Passed(b, m, l)
          /\ req = 0 \/ len = 0
  BY LoopTakes DEF Turn
<1>2. PICK s, t : s = b \o p /\ t = buf \o p
  OBVIOUS
<1>3. /\ s \in Seq(Unit) /\ Len(s) = Len(b) + Len(p) /\ Len(b) \in Nat /\ Len(p) \in Nat
      /\ \A i \in 1 .. Len(b) : s[i] = b[i]
  BY <1>2, Joined
<1>4. t = From(s, m) /\ m \in 1 .. Len(s) + 1 /\ buf \in Seq(Unit)
  BY <1>1, <1>2, FromJoined, FromRest
<1>5. t \in Seq(Unit) /\ Len(t) = Len(s) - m + 1 /\ \A i \in 1 .. Len(t) : t[i] = s[i + m - 1]
  BY <1>3, <1>4, FromRest
<1>6. ASSUME NEW x \in Passed(b, m, l)
      PROVE  /\ x \in 0 .. sent
             /\ x # 0 => \A i \in 1 .. Len(st) : st[i] < x
             /\ \A k \in m .. Len(s) : s[k].part = "header" => x < s[k].of
  <2>1. CASE x = 0
    <3>1. \A k \in m .. Len(s) : s[k] \in Unit
      BY <1>3, <1>4
    <3> QED BY <2>1, <3>1 DEF Unit
  <2>2. CASE x = l
    <3>1. \A k \in m .. Len(s) : k \in 1 .. Len(s)
      BY <1>3, <1>4
    <3> QED BY <1>2, <2>2, <3>1 DEF Ascends, StartedUp
  <2>3. ASSUME NEW j \in 1 .. m - 1, b[j].part = "header", x = b[j].of
        PROVE  /\ x \in 0 .. sent
               /\ x # 0 => \A i \in 1 .. Len(st) : st[i] < x
               /\ \A k \in m .. Len(s) : s[k].part = "header" => x < s[k].of
    <3>1. j \in 1 .. Len(b) /\ j \in 1 .. Len(s) /\ s[j] = b[j] /\ s[j] \in Unit
      BY <1>3
    <3>2. x <= sent /\ x \in Nat /\ \A i \in 1 .. Len(st) : st[i] < x
      BY <1>2, <2>3, <3>1 DEF Ascends, Unit
    <3>3. \A k \in m .. Len(s) : k \in 1 .. Len(s) /\ j \in 1 .. k - 1
      BY <1>3, <1>4
    <3>4. \A k \in m .. Len(s) : s[k].part = "header" => x < s[k].of
      BY <1>2, <2>3, <3>1, <3>3 DEF Ascends
    <3> QED BY <3>2, <3>4
  <2> QED BY <2>1, <2>2, <2>3 DEF Passed
<1>7. /\ len \in 0 .. sent /\ req \in 0 .. sent
      /\ req # 0 => len = 0
      /\ req # 0 => \A i \in 1 .. Len(st) : st[i] < req
      /\ len # 0 => \A i \in 1 .. Len(st) : st[i] < len
      /\ \A k \in m .. Len(s) : s[k].part = "header" => req < s[k].of /\ len < s[k].of
  BY <1>1, <1>6
<1>8. /\ st2 \in Seq(Nat \ {0}) /\ Len(st) \in Nat
      /\ req = 0 => st2 = st
      /\ req # 0 => /\ Len(st2) = Len(st) + 1 /\ st2[Len(st) + 1] = req
                    /\ \A i \in 1 .. Len(st) : st2[i] = st[i]
  BY <1>7, AppendProperties DEF Turn
<1>9. Ascends(t, len, st2)
  <2> SUFFICES ASSUME NEW k \in 1 .. Len(t), t[k].part = "header"
               PROVE  /\ t[k].of <= sent /\ len < t[k].of
                      /\ \A i \in 1 .. Len(st2) : st2[i] < t[k].of
                      /\ \A j \in 1 .. k - 1 : t[j].part = "header" => t[j].of < t[k].of
    BY DEF Ascends
  <2>1. PICK n : n = k + m - 1
    OBVIOUS
  <2>2. n \in m .. Len(s) /\ n \in 1 .. Len(s) /\ t[k] = s[n]
    <3>1. Len(s) \in Nat /\ m \in 1 .. Len(s) + 1 /\ k \in 1 .. Len(s) - m + 1
      BY <1>3, <1>4, <1>5
    <3>2. t[k] = s[n]
      BY <1>5, <2>1
    <3> QED BY <2>1, <3>1, <3>2
  <2>3. t[k].of <= sent /\ len < t[k].of /\ req < t[k].of /\ \A i \in 1 .. Len(st) : st[i] < t[k].of
    BY <1>2, <1>7, <2>2 DEF Ascends
  <2>4. \A i \in 1 .. Len(st2) : st2[i] < t[k].of
    <3>1. CASE req = 0
      BY <1>8, <2>3, <3>1
    <3>2. CASE req # 0
      <4>1. Len(st2) = Len(st) + 1 /\ st2[Len(st) + 1] = req /\ \A i \in 1 .. Len(st) : st2[i] = st[i]
        BY <1>8, <3>2
      <4>2. \A i \in 1 .. Len(st2) : i \in 1 .. Len(st) \/ i = Len(st) + 1
        BY <1>8, <4>1
      <4> QED BY <2>3, <4>1, <4>2
    <3> QED BY <3>1, <3>2
  <2>5. ASSUME NEW j \in 1 .. k - 1, t[j].part = "header" PROVE t[j].of < t[k].of
    <3>1. j + m - 1 \in 1 .. n - 1 /\ t[j] = s[j + m - 1]
      BY <1>3, <1>4, <1>5, <2>1, <2>2
    <3> QED BY <1>2, <2>2, <2>5, <3>1 DEF Ascends
  <2> QED BY <2>3, <2>4, <2>5
<1>10. StartedUp(len, st2)
  <2>1. CASE req = 0
    BY <1>7, <1>8, <2>1 DEF StartedUp
  <2>2. CASE req # 0
    <3> SUFFICES ASSUME NEW i \in 1 .. Len(st) + 1
                 PROVE  /\ st2[i] \in 1 .. sent
                        /\ \A j \in 1 .. i - 1 : st2[j] < st2[i]
      BY <1>7, <1>8, <2>2 DEF StartedUp
    <3>1. CASE i \in 1 .. Len(st)
      <4>1. \A j \in 1 .. i - 1 : j \in 1 .. Len(st)
        BY <1>8
      <4> QED BY <1>8, <2>2, <3>1, <4>1 DEF StartedUp
    <3>2. CASE i = Len(st) + 1
      <4>1. \A j \in 1 .. i - 1 : j \in 1 .. Len(st)
        BY <1>8, <3>2
      <4>2. st2[i] = req /\ \A j \in 1 .. i - 1 : st2[j] = st[j]
        BY <1>8, <2>2, <3>2, <4>1
      <4> QED BY <1>7, <2>2, <4>1, <4>2
    <3> QED BY <1>8, <3>1, <3>2
  <2> QED BY <2>1, <2>2
<1> QED BY <1>2, <1>4, <1>7, <1>8, <1>9, <1>10

-----------------------------------------------------------------------------
(* Input that is framed right: the rest of message n + 1, then the messages up to the last one sent *)

First(i) == [of |-> i, part |-> "first"]
Second(i) == [of |-> i, part |-> "second"]

\* The unit that follows another.
After(u) == CASE u.part = "header" -> First(u.of)
              [] u.part = "first" -> Second(u.of)
              [] OTHER -> Header(u.of + 1)

Framed(s, l, n) ==
    /\ l \in {0, n + 1}
    /\ s = <<>> => n = sent /\ l = 0
    /\ s # <<>> => s[1] = (IF l = 0 THEN Header(n + 1) ELSE First(n + 1)) /\ s[Len(s)] = Second(sent)
    /\ \A k \in 1 .. Len(s) - 1 : s[k + 1] = After(s[k])

LEMMA UnitsFollow ==
    ASSUME NEW i \in Nat \ {0}
    PROVE  /\ Header(i) \in Unit /\ First(i) \in Unit /\ Second(i) \in Unit
           /\ Header(i) # Second(i) /\ First(i) # Second(i)
           /\ After(Header(i)) = First(i) /\ After(First(i)) = Second(i) /\ After(Second(i)) = Header(i + 1)
           /\ \A j \in Nat : Second(i) = Second(j) => i = j
BY DEF Header, First, Second, After, Unit

\* After a header, the body; after the body, the next header.
LEMMA FramedOn ==
    ASSUME sent \in Nat, NEW s \in Seq(Unit), s # <<>>, NEW n \in Nat, NEW l, Framed(s, l, n)
    PROVE  /\ l = 0 => Framed(From(s, 2), n + 1, n) /\ 2 \in 1 .. Len(s) + 1
           /\ l # 0 => /\ 2 \in 1 .. Len(s) /\ s[1] = First(n + 1) /\ s[2] = Second(n + 1)
                       /\ Framed(From(s, 3), 0, n + 1) /\ 3 \in 1 .. Len(s) + 1
<1>1. Len(s) \in Nat /\ Len(s) >= 1
  OBVIOUS
<1>2. /\ s[Len(s)] = Second(sent) /\ s[1] = IF l = 0 THEN Header(n + 1) ELSE First(n + 1)
      /\ \A k \in 1 .. Len(s) - 1 : s[k + 1] = After(s[k])
      /\ l \in {0, n + 1}
  BY DEF Framed
<1>3. /\ Header(n + 1) # Second(sent) /\ First(n + 1) # Second(sent)
      /\ After(Header(n + 1)) = First(n + 1) /\ After(First(n + 1)) = Second(n + 1)
      /\ After(Second(n + 1)) = Header(n + 2)
      /\ Second(n + 1) = Second(sent) => n + 1 = sent
  <2>1. Header(n + 1) # Second(sent) /\ First(n + 1) # Second(sent)
    BY DEF Header, First, Second
  <2>2. n + 1 \in Nat \ {0} /\ n + 1 + 1 = n + 2
    OBVIOUS
  <2>3. /\ After(Header(n + 1)) = First(n + 1) /\ After(First(n + 1)) = Second(n + 1)
        /\ After(Second(n + 1)) = Header(n + 1 + 1)
        /\ Second(n + 1) = Second(sent) => n + 1 = sent
    BY <2>2, UnitsFollow
  <2> QED BY <2>1, <2>2, <2>3
<1>4. Len(s) >= 2
  BY <1>1, <1>2, <1>3
<1>5. CASE l = 0
  <2>1. PICK t : t = From(s, 2)
    OBVIOUS
  <2>2. t \in Seq(Unit) /\ Len(t) = Len(s) - 2 + 1 /\ \A i \in 1 .. Len(t) : t[i] = s[i + 2 - 1]
    BY <1>4, <2>1, FromRest
  <2>3. Len(t) >= 1 /\ t # <<>> /\ t[1] = First(n + 1) /\ t[Len(t)] = Second(sent)
    <3>1. Len(t) >= 1 /\ t # <<>>
      BY <1>4, <2>2
    <3>2. t[1] = s[2] /\ t[Len(t)] = s[Len(s)]
      BY <1>1, <2>2, <3>1
    <3>3. s[2] = After(s[1])
      BY <1>1, <1>2, <1>4
    <3> QED BY <1>2, <1>3, <1>5, <3>1, <3>2, <3>3
  <2>4. ASSUME NEW k \in 1 .. Len(t) - 1 PROVE t[k + 1] = After(t[k])
    <3>1. t[k + 1] = s[k + 2] /\ t[k] = s[k + 1] /\ k + 1 \in 1 .. Len(s) - 1
      BY <1>1, <2>2, <2>4
    <3> QED BY <1>2, <3>1
  <2>5. n + 1 # 0
    OBVIOUS
  <2>6. Framed(t, n + 1, n)
    BY <2>3, <2>4, <2>5 DEF Framed
  <2> QED BY <1>1, <1>5, <2>1, <2>6
<1>6. CASE l # 0
  <2>1. PICK t : t = From(s, 3)
    OBVIOUS
  <2>2. t \in Seq(Unit) /\ Len(t) = Len(s) - 3 + 1 /\ \A i \in 1 .. Len(t) : t[i] = s[i + 3 - 1]
    BY <1>4, <2>1, FromRest
  <2>3. s[1] = First(n + 1) /\ s[2] = Second(n + 1)
    <3>1. s[2] = After(s[1])
      BY <1>1, <1>2, <1>4
    <3> QED BY <1>2, <1>3, <1>6, <3>1
  <2>4. t = <<>> => n + 1 = sent
    <3> SUFFICES ASSUME t = <<>> PROVE n + 1 = sent
      OBVIOUS
    <3>1. Len(s) = 2
      BY <1>1, <2>2
    <3> QED BY <1>2, <1>3, <2>3, <3>1
  <2>5. t # <<>> => t[1] = Header(n + 2) /\ t[Len(t)] = Second(sent)
    <3> SUFFICES ASSUME t # <<>> PROVE t[1] = Header(n + 2) /\ t[Len(t)] = Second(sent)
      OBVIOUS
    <3>1. Len(t) >= 1
      BY <2>2
    <3>2. t[1] = s[3] /\ t[Len(t)] = s[Len(s)] /\ 2 \in 1 .. Len(s) - 1
      BY <1>1, <2>2, <3>1
    <3>3. s[3] = After(s[2])
      BY <1>2, <3>2
    <3> QED BY <1>2, <1>3, <2>3, <3>2, <3>3
  <2>6. ASSUME NEW k \in 1 .. Len(t) - 1 PROVE t[k + 1] = After(t[k])
    <3>1. t[k + 1] = s[k + 3] /\ t[k] = s[k + 2] /\ k + 2 \in 1 .. Len(s) - 1
      BY <1>1, <2>2, <2>6
    <3> QED BY <1>2, <3>1
  <2>7. n + 1 + 1 = n + 2
    OBVIOUS
  <2>8. Framed(t, 0, n + 1)
    BY <2>4, <2>5, <2>6, <2>7 DEF Framed
  <2> QED BY <1>1, <1>4, <1>6, <2>1, <2>3, <2>8
<1> QED BY <1>5, <1>6

\* What is received of such input, with good headers, is taken message by message.
LEMMA LoopFramed ==
    ASSUME sent \in Nat, NEW b \in Seq(Unit), NEW p \in Seq(Unit), NEW n \in Nat, NEW l, Framed(b \o p, l, n),
           \A k \in 1 .. Len(b) : b[k].part = "header" => Message(b[k].of).frame = "good",
           NEW buf, NEW len, NEW req,
           buf = Loop(b, l).buffer, len = Loop(b, l).length, req = Loop(b, l).request
    PROVE  /\ req = 0 => Framed(buf \o p, len, n)
           /\ req # 0 => req = n + 1 /\ Framed(buf \o p, len, n + 1)
<1>1. PICK h : h = IF l = 0 THEN TakeHeader(b) ELSE [buffer |-> b, length |-> l]
  OBVIOUS
<1>2. Len(b) \in Nat /\ l \in {0, n + 1}
  BY DEF Framed
<1>3. CASE b = <<>> /\ l = 0
  <2>1. HeaderEnds(b) = {}
    BY <1>3 DEF HeaderEnds
  <2>2. TakeHeader(b) = [buffer |-> From(b, 1 + 0), length |-> 0]
    BY <2>1 DEF TakeHeader
  <2>3. From(b, 1) = b
    BY SubSeqFull DEF From
  <2>4. h.buffer = b /\ h.length = 0
    BY <1>1, <1>3, <2>2, <2>3
  <2>5. buf = b /\ len = 0 /\ req = 0
    BY <1>1, <2>4 DEF Loop
  <2> QED BY <1>3, <2>5
<1>4. CASE b # <<>> \/ l # 0
  <2>1. h.buffer \in Seq(Unit) /\ h.length = n + 1 /\ Framed(h.buffer \o p, n + 1, n)
    <3>1. CASE l # 0
      BY <1>1, <1>2, <3>1
    <3>2. CASE l = 0
      <4>1. Len(b) >= 1 /\ b[1] = (b \o p)[1] /\ b \o p # <<>> /\ b \o p \in Seq(Unit)
        <5>1. Len(b) >= 1
          BY <1>4, <3>2
        <5> QED BY <1>2, <5>1, Joined
      <4>2. b[1] = Header(n + 1)
        BY <3>2, <4>1 DEF Framed
      <4>3. HasLength(b, 1) /\ 1 \in HeaderEnds(b)
        BY <1>2, <4>1, <4>2 DEF HasLength, HeaderEnds, Plain, Header
      <4>4. TakeHeader(b) = [buffer |-> From(b, 2), length |-> n + 1]
        <5> DEFINE decisive == {k \in HeaderEnds(b) : HasLength(b, k) \/ BadLength(b, k)}
                   first == {k \in decisive : \A j \in decisive : k <= j}
        <5>1. \A k \in decisive : k \in 1 .. Len(b)
          BY DEF HeaderEnds
        <5>2. 1 \in decisive
          BY <4>3
        <5>3. first = {1}
          BY <1>2, <5>1, <5>2
        <5>4. first # {} /\ (CHOOSE k \in first : TRUE) = 1
          BY <5>3
        <5>5. TakeHeader(b) = [buffer |-> From(b, 1 + 1), length |-> b[1].of]
          BY <4>3, <5>4 DEF TakeHeader
        <5> QED BY <4>2, <5>5 DEF Header
      <4>5. From(b, 2) \in Seq(Unit) /\ From(b, 2) \o p = From(b \o p, 2)
        <5>1. 2 \in 1 .. Len(b) + 1
          BY <1>2, <4>1
        <5> QED BY <5>1, FromRest, FromJoined
      <4>6. Framed(From(b \o p, 2), n + 1, n)
        BY <3>2, <4>1, FramedOn
      <4>7. h = TakeHeader(b)
        BY <1>1, <3>2
      <4>8. h.buffer = From(b, 2) /\ h.length = n + 1
        BY <4>4, <4>7
      <4> QED BY <4>5, <4>6, <4>8
    <3> QED BY <3>1, <3>2
  <2>2. n + 1 # 0
    OBVIOUS
  <2>3. CASE Len(h.buffer) < 2
    <3>1. buf = h.buffer /\ len = n + 1 /\ req = 0
      BY <1>1, <2>1, <2>3 DEF Loop
    <3> QED BY <2>1, <3>1
  <2>4. CASE ~(Len(h.buffer) < 2)
    <3>1. PICK g : g = h.buffer
      OBVIOUS
    <3>2. g \in Seq(Unit) /\ Len(g) \in Nat /\ Len(g) >= 2
      BY <2>1, <2>4, <3>1
    <3>3. g \o p \in Seq(Unit) /\ g \o p # <<>> /\ (g \o p)[1] = g[1] /\ (g \o p)[2] = g[2]
      <4>1. 1 \in 1 .. Len(g) /\ 2 \in 1 .. Len(g)
        BY <3>2
      <4> QED BY <3>2, <4>1, Joined
    <3>4. g[1] = First(n + 1) /\ g[2] = Second(n + 1) /\ Framed(From(g \o p, 3), 0, n + 1)
      BY <2>1, <2>2, <3>1, <3>3, FramedOn
    <3>5. SubSeq(g, 1, 2) = Body(n + 1)
      <4>1. \A i \in 1 .. 2 : g[i] \in Unit
        BY <3>2
      <4>2. SubSeq(g, 1, 2) \in Seq(Unit) /\ Len(SubSeq(g, 1, 2)) = 2
            /\ \A i \in 1 .. 2 : SubSeq(g, 1, 2)[i] = g[i]
        BY <4>1, SubSeqProperties
      <4>3. Body(n + 1) = <<First(n + 1), Second(n + 1)>>
        BY DEF Body, First, Second
      <4> QED BY <3>4, <4>2, <4>3
    <3>6. buf = From(g, 3) /\ len = 0 /\ req = n + 1
      BY <1>1, <2>1, <2>2, <2>4, <3>1, <3>5 DEF Loop
    <3>7. From(g, 3) \o p = From(g \o p, 3)
      <4>1. 3 \in 1 .. Len(g) + 1
        BY <3>2
      <4> QED BY <3>2, <4>1, FromJoined
    <3> QED BY <2>2, <3>4, <3>6, <3>7
  <2> QED BY <2>3, <2>4
<1> QED BY <1>3, <1>4

-----------------------------------------------------------------------------
(* Input and order *)

Results == {"ok", "not initialized", "tool not found", "invalid params", "method not found", "internal error",
            "tool error", "parse error"}
Places == {"initialize", "tool", "answer"}
Response == [id : Nat, result : Results]
Job == [of : Nat \ {0}, at : Places, result : Results]

Typed ==
    /\ script \in Seq(Messages) /\ sent \in Nat /\ sent <= Len(script)
    /\ buffer \in Seq(Unit) /\ pipe \in Seq(Unit)
    /\ contentLength \in Nat /\ started \in Seq(Nat \ {0})
    /\ working \subseteq Job /\ responses \in Seq(Response)
    /\ unframed \in BOOLEAN

GoodHeaders(b) == \A k \in 1 .. Len(b) : b[k].part = "header" => Message(b[k].of).frame = "good"

\* The input that has been received and that is on the way; u: it has not been framed right.
InOrder(b, p) == Ascends(b \o p, contentLength, started) /\ StartedUp(contentLength, started)
InFrame(b, p, u) ==
    u \/ /\ Framed(b \o p, contentLength, Len(started)) /\ GoodHeaders(b)
         /\ \A k \in 1 .. Len(started) : started[k] = k

Input == Typed /\ InOrder(buffer, pipe) /\ InFrame(buffer, pipe, unframed)

\* What a run of the handler does to the input that it finds.
LEMMA InputTaken ==
    ASSUME Typed, NEW b \in Seq(Unit), NEW p \in Seq(Unit), NEW u \in BOOLEAN, InOrder(b, p), InFrame(b, p, u),
           NEW others, NEW written, Proceed(b, others, written),
           UNCHANGED client, pipe' = p, unframed' = u
    PROVE  /\ buffer' \in Seq(Unit) /\ contentLength' \in Nat /\ started' \in Seq(Nat \ {0})
           /\ InOrder(buffer, pipe)' /\ InFrame(buffer, pipe, unframed)'
           /\ LET i == Loop(b, contentLength).request
              IN /\ started' = IF i = 0 THEN started ELSE Append(started, i)
                 /\ i # 0 => i \in Nat \ {0} /\ \A k \in 1 .. Len(started) : started[k] < i
<1>1. PICK l, st, buf, len, req, st2 :
          /\ l = contentLength /\ st = started
          /\ buf = Loop(b, l).buffer /\ len = Loop(b, l).length /\ req = Loop(b, l).request
          /\ st2 = IF req = 0 THEN st ELSE Append(st, req)
  OBVIOUS
<1>2. buffer' = buf /\ contentLength' = len /\ started' = st2
  BY <1>1 DEF Proceed
<1>3. l \in Nat /\ st \in Seq(Nat \ {0}) /\ sent \in Nat
  BY <1>1 DEF Typed
<1>4. Ascends(b \o p, l, st) /\ StartedUp(l, st)
  BY <1>1 DEF InOrder
<1>5. /\ buf \in Seq(Unit) /\ len \in Nat /\ st2 \in Seq(Nat \ {0})
      /\ Ascends(buf \o p, len, st2) /\ StartedUp(len, st2)
      /\ req \in 0 .. sent
      /\ req # 0 => \A i \in 1 .. Len(st) : st[i] < req
  <2>1. Turn(b, l, st, buf, len, req, st2)
    BY <1>1 DEF Turn
  <2> QED BY <1>3, <1>4, <2>1, OrderKept
<1>6. sent' = sent /\ script' = script
  BY DEF client
<1>7. InOrder(buffer, pipe)'
  BY <1>2, <1>5, <1>6 DEF InOrder, Ascends, StartedUp
<1>8. InFrame(buffer, pipe, unframed)'
  <2> SUFFICES ASSUME ~u PROVE InFrame(buffer, pipe, unframed)'
    BY DEF InFrame
  <2>1. PICK n : n = Len(st)
    OBVIOUS
  <2>2. /\ Framed(b \o p, l, n) /\ GoodHeaders(b) /\ n \in Nat
        /\ \A k \in 1 .. n : st[k] = k
    BY <1>1, <1>3, <2>1 DEF InFrame
  <2>3. /\ req = 0 => Framed(buf \o p, len, n)
        /\ req # 0 => req = n + 1 /\ Framed(buf \o p, len, n + 1)
    BY <1>1, <1>3, <2>2, LoopFramed DEF GoodHeaders
  <2>4. Framed(buf \o p, len, Len(st2)) /\ \A k \in 1 .. Len(st2) : st2[k] = k
    <3>1. CASE req = 0
      BY <1>1, <2>1, <2>2, <2>3, <3>1
    <3>2. CASE req # 0
      <4>1. Len(st2) = n + 1 /\ st2[n + 1] = req /\ \A k \in 1 .. n : st2[k] = st[k]
        BY <1>1, <1>3, <1>5, <2>1, <3>2, AppendProperties
      <4> QED BY <2>2, <2>3, <3>2, <4>1
    <3> QED BY <3>1, <3>2
  <2>5. GoodHeaders(buf)
    <3>1. PICK m \in 1 .. Len(b) + 1 : buf = From(b, m)
      BY <1>1, <1>3, LoopTakes
    <3>2. Len(buf) = Len(b) - m + 1 /\ \A i \in 1 .. Len(buf) : buf[i] = b[i + m - 1]
      BY <3>1, FromRest
    <3>3. Len(b) \in Nat /\ \A i \in 1 .. Len(buf) : i + m - 1 \in 1 .. Len(b)
      BY <3>2
    <3> QED BY <2>2, <3>2, <3>3 DEF GoodHeaders
  <2> QED BY <1>2, <1>6, <2>4, <2>5 DEF InFrame, Framed, GoodHeaders, Message
<1> QED BY <1>1, <1>2, <1>5, <1>7, <1>8

-----------------------------------------------------------------------------
(* Jobs, responses and services *)

Begun(st) == {st[k] : k \in 1 .. Len(st)}

\* A job or a response is that of a request that has been started, and there is one for each that wants one.
RequestsOf(jobs, rs, st) ==
    /\ \A w \in jobs : w.of \in Begun(st)
    /\ \A v, w \in jobs : v.of = w.of => v = w
    /\ \A k \in 1 .. Len(rs) : rs[k].id # 0 => rs[k].id \in Begun(st)
    /\ \A j, k \in 1 .. Len(rs) : rs[j].id = rs[k].id /\ rs[j].id # 0 => j = k
    /\ \A i \in Begun(st) : (\E k \in 1 .. Len(rs) : rs[k].id = i) => Message(i).id /\ \A w \in jobs : w.of # i
    /\ \A i \in Begun(st) : Message(i).id /\ (\A w \in jobs : w.of # i) => \E k \in 1 .. Len(rs) : rs[k].id = i

\* Who has been told that the server is initialized can rely on it.
ServicesOf(jobs, rs, st, init, welcome) ==
    /\ \A w \in jobs : Message(w.of).method = "initialize" =>
          w.at = "initialize" \/ (w.at = "answer" /\ init = "done")
    /\ \A k \in 1 .. Len(rs) : rs[k].id # 0 /\ rs[k].result = "ok" /\ Message(rs[k].id).method = "initialize"
          => init = "done"
    /\ welcome \subseteq Begun(st) /\ (welcome # {} => init = "done")
    /\ \A w \in jobs : w.of \in welcome => w.result # "not initialized"
    /\ \A k \in 1 .. Len(rs) : rs[k].id \in welcome => rs[k].result # "not initialized"

Counted ==
    /\ initialization \in {"none", "running", "failed", "done"}
    /\ initializations = IF initialization = "none" THEN 0 ELSE 1

Requests == RequestsOf(working, responses, started)
Services == Counted /\ ServicesOf(working, responses, started, initialization, greeted)

LEMMA JobMade ==
    ASSUME NEW i \in Nat \ {0}, NEW at \in Places, NEW result \in Results
    PROVE  /\ Stage(i, at, result) \in Job /\ Stage(i, at, result).of = i
           /\ Stage(i, at, result).at = at /\ Stage(i, at, result).result = result
BY DEF Stage, Job

\* What handleRequest begins with.
LEMMA JobBegun ==
    ASSUME NEW i \in Nat \ {0}, NEW w, w = handleRequest(i)
    PROVE  /\ w \in Job /\ w.of = i
           /\ Message(i).method = "initialize" => w.at = "initialize" \/ (w.at = "answer" /\ initialization = "done")
           /\ initialization = "done" => w.result # "not initialized"
<1>1. CASE Message(i).method = "initialize"
  <2>1. w = Stage(i, "initialize", "ok") \/ (w = Stage(i, "answer", "ok") /\ initialization = "done")
    BY <1>1 DEF handleRequest, handleInitialize, toolsRegistered
  <2>2. "initialize" \in Places /\ "answer" \in Places /\ "ok" \in Results
    BY DEF Places, Results
  <2>3. ASSUME NEW at \in Places, w = Stage(i, at, "ok")
        PROVE  w \in Job /\ w.of = i /\ w.at = at /\ w.result = "ok"
    BY <2>2, <2>3, JobMade
  <2>4. "ok" # "not initialized"
    OBVIOUS
  <2> QED BY <2>1, <2>2, <2>3, <2>4
<1>2. CASE Message(i).method # "initialize"
  <2>1. PICK at \in Places, result \in Results :
            w = Stage(i, at, result) /\ (initialization = "done" => result # "not initialized")
    <3>1. CASE Message(i).method = "tools/list"
      BY <3>1 DEF handleRequest, handleToolsList, toolsRegistered, Refused, Places, Results
    <3>2. CASE Message(i).method = "tools/call"
      BY <3>2 DEF handleRequest, handleToolCall, toolsRegistered, Refused, Places, Results
    <3>3. CASE Message(i).method \notin {"initialize", "tools/list", "tools/call"}
      BY <3>3 DEF handleRequest, Places, Results
    <3> QED BY <1>2, <3>1, <3>2, <3>3
  <2>2. Stage(i, at, result) \in Job /\ Stage(i, at, result).of = i /\ Stage(i, at, result).result = result
    BY JobMade
  <2>3. w \in Job /\ w.of = i /\ w.result = result
    BY <2>1, <2>2
  <2> QED BY <1>2, <2>1, <2>3
<1> QED BY <1>1, <1>2

LEMMA LengthNat ==
    ASSUME NEW S, NEW s \in Seq(S)
    PROVE  Len(s) \in Nat
OBVIOUS

LEMMA OneMore ==
    ASSUME NEW n \in Nat
    PROVE  /\ n + 1 \in 1 .. n + 1 /\ n + 1 \notin 1 .. n
           /\ \A k \in 1 .. n + 1 : k \in 1 .. n \/ k = n + 1
           /\ \A k \in 1 .. n : k \in 1 .. n + 1
OBVIOUS

Written(rs, i, result, written, n) ==
    /\ written \in Seq(Response) /\ n \in Nat
    /\ \A k \in 1 .. n : written[k] = rs[k]
    /\ Message(i).id => Len(written) = n + 1 /\ written[n + 1].id = i /\ written[n + 1].result = result
    /\ ~Message(i).id => written = rs

\* A response is written at the end, if at all.
LEMMA Responded ==
    ASSUME NEW rs \in Seq(Response), rs = responses, NEW i \in Nat \ {0}, NEW result \in Results,
           NEW written, written = writeResponse(i, result), NEW n, n = Len(rs)
    PROVE  Written(rs, i, result, written, n)
<1>1. [id |-> i, result |-> result] \in Response
  BY DEF Response
<1>2. CASE Message(i).id
  BY <1>1, <1>2, AppendProperties DEF writeResponse, Written
<1>3. CASE ~Message(i).id
  BY <1>3 DEF writeResponse, Written
<1> QED BY <1>2, <1>3

\* A job is done: its request is answered if it wants to be.
LEMMA JobDone ==
    ASSUME Typed, Requests, Services, NEW w \in working, NEW result \in Results, NEW others, NEW written,
           others = working \ {w}, written = writeResponse(w.of, result),
           result = "ok" /\ Message(w.of).method = "initialize" => initialization = "done",
           w.of \in greeted => result # "not initialized"
    PROVE  /\ others \subseteq Job /\ written \in Seq(Response)
           /\ RequestsOf(others, written, started)
           /\ ServicesOf(others, written, started, initialization, greeted)
<1>1. PICK rs, i, n : rs = responses /\ i = w.of /\ n = Len(rs)
  OBVIOUS
<1>2. rs \in Seq(Response) /\ i \in Nat \ {0} /\ n \in Nat /\ others \subseteq Job
  <2>1. working \subseteq Job /\ w \in Job
    BY DEF Typed
  <2>2. w.of \in Nat \ {0}
    BY <2>1 DEF Job
  <2>3. rs \in Seq(Response)
    BY <1>1 DEF Typed
  <2>4. n \in Nat
    <3>1. Len(rs) \in Nat
      BY <2>3, LengthNat
    <3> QED BY <1>1, <3>1
  <2> QED BY <1>1, <2>1, <2>2, <2>3, <2>4
<1>3. /\ written \in Seq(Response)
      /\ \A k \in 1 .. n : written[k] = rs[k]
      /\ Message(i).id => Len(written) = n + 1 /\ written[n + 1].id = i /\ written[n + 1].result = result
      /\ ~Message(i).id => written = rs
  <2>1. rs = responses /\ written = writeResponse(i, result) /\ n = Len(rs)
    BY <1>1
  <2>2. rs \in Seq(Response) /\ i \in Nat \ {0}
    BY <1>2
  <2>3. Written(rs, i, result, written, n)
    BY <2>1, <2>2, Responded
  <2> QED BY <2>3 DEF Written
<1>4. /\ \A u, v \in working : u.of = v.of => u = v
      /\ \A v \in working : v.of \in Begun(started)
      /\ \A k \in 1 .. n : rs[k].id # 0 => rs[k].id \in Begun(started)
      /\ \A j, k \in 1 .. n : rs[j].id = rs[k].id /\ rs[j].id # 0 => j = k
      /\ \A r \in Begun(started) : (\E k \in 1 .. n : rs[k].id = r) => Message(r).id /\ \A v \in working : v.of # r
      /\ \A r \in Begun(started) : Message(r).id /\ (\A v \in working : v.of # r) => \E k \in 1 .. n : rs[k].id = r
  BY <1>1 DEF Requests, RequestsOf
<1>5. /\ \A k \in 1 .. n : rs[k].id # i
      /\ i \in Begun(started)
      /\ \A v \in others : v.of # i
      /\ \A r : r # i /\ (\A v \in others : v.of # r) => \A v \in working : v.of # r
  BY <1>1, <1>4
<1>6. /\ \A v \in others : v.of \in Begun(started)
      /\ \A u, v \in others : u.of = v.of => u = v
  BY <1>4
<1>7. /\ n + 1 \in 1 .. n + 1 /\ \A k \in 1 .. n + 1 : k \in 1 .. n \/ k = n + 1
      /\ \A k \in 1 .. n : k \in 1 .. n + 1
  BY <1>2, OneMore
<1>8. RequestsOf(others, written, started)
  <2>1. CASE Message(i).id
    <3>1. Len(written) = n + 1 /\ written[n + 1].id = i /\ n + 1 \in 1 .. n + 1
          /\ \A k \in 1 .. n : written[k].id = rs[k].id /\ k \in 1 .. n + 1
      BY <1>3, <1>7, <2>1
    <3>2. \A k \in 1 .. n + 1 : written[k].id # 0 => written[k].id \in Begun(started)
      BY <1>4, <1>5, <1>7, <3>1
    <3>3. ASSUME NEW j \in 1 .. n + 1, NEW k \in 1 .. n + 1, written[j].id = written[k].id, written[j].id # 0
          PROVE  j = k
      <4>1. CASE j \in 1 .. n /\ k \in 1 .. n
        BY <1>4, <3>1, <3>3, <4>1
      <4>2. ASSUME NEW a \in 1 .. n
            PROVE  written[a].id # written[n + 1].id
        BY <1>5, <3>1
      <4>3. CASE j = n + 1
        BY <1>7, <3>3, <4>2, <4>3
      <4>4. CASE k = n + 1
        BY <1>7, <3>3, <4>2, <4>4
      <4> QED BY <1>7, <4>1, <4>3, <4>4
    <3>4. ASSUME NEW r \in Begun(started), NEW k \in 1 .. n + 1, written[k].id = r
          PROVE  Message(r).id /\ \A v \in others : v.of # r
      <4>1. CASE k = n + 1
        <5>1. r = i
          BY <3>1, <3>4, <4>1
        <5> QED BY <1>5, <2>1, <5>1
      <4>2. CASE k \in 1 .. n
        <5>1. rs[k].id = r
          BY <3>1, <3>4, <4>2
        <5> QED BY <1>4, <4>2, <5>1
      <4> QED BY <1>7, <4>1, <4>2
    <3>5. ASSUME NEW r \in Begun(started), Message(r).id, \A v \in others : v.of # r
          PROVE  \E k \in 1 .. n + 1 : written[k].id = r
      <4>1. CASE r = i
        BY <3>1, <4>1
      <4>2. CASE r # i
        <5>1. PICK k \in 1 .. n : rs[k].id = r
          BY <1>4, <1>5, <3>5, <4>2
        <5> QED BY <3>1, <5>1
      <4> QED BY <4>1, <4>2
    <3> QED BY <1>6, <3>1, <3>2, <3>3, <3>4, <3>5 DEF RequestsOf
  <2>2. CASE ~Message(i).id
    <3>1. written = rs /\ Len(written) = n
      BY <1>1, <1>3, <2>2
    <3>2. ASSUME NEW r \in Begun(started), Message(r).id, \A v \in others : v.of # r
          PROVE  \E k \in 1 .. n : rs[k].id = r
      <4>1. r # i
        BY <2>2, <3>2
      <4> QED BY <1>4, <1>5, <3>2, <4>1
    <3>3. \A r \in Begun(started) : (\E k \in 1 .. n : rs[k].id = r) => Message(r).id /\ \A v \in others : v.of # r
      BY <1>4
    <3> QED BY <1>4, <1>6, <3>1, <3>2, <3>3, ZenonT(40) DEF RequestsOf
  <2> QED BY <2>1, <2>2
<1>9. ServicesOf(others, written, started, initialization, greeted)
  <2>1. \A k \in 1 .. Len(written) : k \in 1 .. n \/ (Message(i).id /\ k = n + 1)
    <3>1. CASE Message(i).id
      BY <1>3, <1>7, <3>1
    <3>2. CASE ~Message(i).id
      BY <1>1, <1>3, <3>2
    <3> QED BY <3>1, <3>2
  <2>2. ASSUME NEW k \in 1 .. Len(written)
        PROVE  /\ written[k].id # 0 /\ written[k].result = "ok" /\ Message(written[k].id).method = "initialize"
                  => initialization = "done"
               /\ written[k].id \in greeted => written[k].result # "not initialized"
    <3>1. CASE k \in 1 .. n
      <4>1. written[k] = responses[k] /\ k \in 1 .. Len(responses)
        BY <1>1, <1>3, <3>1
      <4> QED BY <4>1 DEF Services, ServicesOf
    <3>2. CASE Message(i).id /\ k = n + 1
      <4>1. written[k].id = w.of /\ written[k].result = result
        BY <1>1, <1>3, <3>2
      <4> QED BY <4>1
    <3> QED BY <2>1, <3>1, <3>2
  <2> QED BY <2>2 DEF Services, ServicesOf
<1> QED BY <1>2, <1>3, <1>8, <1>9

LEMMA BegunOn ==
    ASSUME NEW st \in Seq(Nat \ {0}), NEW i \in Nat \ {0}, \A k \in 1 .. Len(st) : st[k] < i
    PROVE  /\ Begun(Append(st, i)) = Begun(st) \union {i} /\ i \notin Begun(st)
           /\ 0 \notin Begun(Append(st, i))
<1>1. PICK t, n : t = Append(st, i) /\ n = Len(st)
  OBVIOUS
<1>2. n \in Nat /\ Len(t) = n + 1 /\ t[n + 1] = i /\ \A k \in 1 .. n : t[k] = st[k]
  BY <1>1, AppendProperties
<1>3. Begun(t) = Begun(st) \union {i}
  <2>1. ASSUME NEW x \in Begun(t) PROVE x \in Begun(st) \union {i}
    <3>1. PICK k \in 1 .. n + 1 : x = t[k]
      BY <1>2, <2>1 DEF Begun
    <3>2. k \in 1 .. n \/ k = n + 1
      BY <1>2, <3>1, OneMore
    <3> QED BY <1>1, <1>2, <3>1, <3>2 DEF Begun
  <2>2. ASSUME NEW x \in Begun(st) PROVE x \in Begun(t)
    <3>1. PICK k \in 1 .. n : x = st[k]
      BY <1>1 DEF Begun
    <3>2. k \in 1 .. n + 1
      BY <1>2, OneMore
    <3> QED BY <1>2, <3>1, <3>2 DEF Begun
  <2>3. i \in Begun(t)
    <3>1. n + 1 \in 1 .. n + 1
      BY <1>2, OneMore
    <3> QED BY <1>2, <3>1 DEF Begun
  <2> QED BY <2>1, <2>2, <2>3
<1>4. ASSUME NEW x \in Begun(st) PROVE x # i /\ x # 0
  <2>1. PICK k \in 1 .. Len(st) : x = st[k]
    BY DEF Begun
  <2>2. x < i /\ x \in Nat \ {0}
    BY <2>1
  <2> QED BY <2>2
<1> QED BY <1>1, <1>3, <1>4

LEMMA BegunPositive ==
    ASSUME NEW st \in Seq(Nat \ {0})
    PROVE  \A r \in Begun(st) : r \in Nat /\ r # 0
BY DEF Begun

Complaints(e) == [k \in 1 .. e |-> [id |-> 0, result |-> "parse error"]]
SameAnswers(rs, all) ==
    /\ all \in Seq(Response)
    /\ \A k \in 1 .. Len(all) : all[k].id # 0 => k \in 1 .. Len(rs) /\ all[k] = rs[k]
    /\ \A k \in 1 .. Len(rs) : k \in 1 .. Len(all) /\ all[k] = rs[k]
LEMMA ComplaintsAdded ==
    ASSUME NEW rs \in Seq(Response), NEW e \in Nat
    PROVE  SameAnswers(rs, rs \o Complaints(e))
<1>0. PICK all : all = rs \o Complaints(e)
  OBVIOUS
<1>1. PICK c, r : c = Complaints(e) /\ r = [id |-> 0, result |-> "parse error"]
  OBVIOUS
<1>2. r \in Response /\ r.id = 0
  BY <1>1 DEF Response, Results
<1>3. c = [k \in 1 .. e |-> r]
  BY <1>1 DEF Complaints
<1>4. c \in Seq(Response) /\ Len(c) = e /\ \A k \in 1 .. e : c[k] = r
  <2>1. c \in [1 .. e -> Response] /\ \A k \in 1 .. e : c[k] = r
    BY <1>2, <1>3
  <2> QED BY <2>1, LenProperties, SeqDef
<1>5. PICK n : n = Len(rs)
  OBVIOUS
<1>6. n \in Nat
  BY <1>5, LengthNat
<1>7. /\ all \in Seq(Response) /\ Len(all) = n + e
      /\ \A k \in 1 .. n : all[k] = rs[k]
      /\ \A k \in 1 .. e : all[n + k] = c[k]
  <2>1. /\ rs \o c \in Seq(Response) /\ Len(rs \o c) = Len(rs) + Len(c)
        /\ \A k \in 1 .. Len(rs) : (rs \o c)[k] = rs[k]
        /\ \A k \in 1 .. Len(c) : (rs \o c)[Len(rs) + k] = c[k]
    <3>1. c \in Seq(Response)
      BY <1>4
    <3> QED BY <3>1, Joined
  <2>2. all = rs \o c /\ Len(c) = e /\ Len(rs) = n
    BY <1>0, <1>1, <1>4, <1>5
  <2> QED BY <2>1, <2>2
<1>8. ASSUME NEW k \in 1 .. Len(all), all[k].id # 0 PROVE k \in 1 .. n /\ all[k] = rs[k]
  <2>1. CASE k \in 1 .. n
    BY <1>7, <2>1
  <2>2. CASE k \notin 1 .. n
    <3>1. PICK j : j = k - n
      OBVIOUS
    <3>2. k \in 1 .. n + e
      BY <1>7
    <3>3. j \in 1 .. e /\ k = n + j
      BY <1>6, <2>2, <3>1, <3>2
    <3> QED BY <1>2, <1>4, <1>7, <1>8, <3>3
  <2> QED BY <2>1, <2>2
<1>9. \A k \in 1 .. n : k \in 1 .. n + e
  BY <1>6
<1> QED BY <1>0, <1>5, <1>7, <1>8, <1>9 DEF SameAnswers

\* Complaints about input that is no JSON are answers to no request.
LEMMA Complained ==
    ASSUME NEW jobs, NEW rs \in Seq(Response), NEW st \in Seq(Nat \ {0}), NEW init, NEW welcome,
           RequestsOf(jobs, rs, st), ServicesOf(jobs, rs, st, init, welcome),
           NEW e \in Nat, NEW all, all = rs \o Complaints(e)
    PROVE  all \in Seq(Response) /\ RequestsOf(jobs, all, st) /\ ServicesOf(jobs, all, st, init, welcome)
<1>1. /\ all \in Seq(Response)
      /\ \A k \in 1 .. Len(all) : all[k].id # 0 => k \in 1 .. Len(rs) /\ all[k] = rs[k]
      /\ \A k \in 1 .. Len(rs) : k \in 1 .. Len(all) /\ all[k] = rs[k]
  <2>1. SameAnswers(rs, all)
    BY ComplaintsAdded
  <2> QED BY <2>1 DEF SameAnswers
<1>2. \A r \in Begun(st) : r # 0
  BY BegunPositive
<1>3. RequestsOf(jobs, all, st)
  <2>1. \A k \in 1 .. Len(all) : all[k].id # 0 => all[k].id \in Begun(st)
    BY <1>1 DEF RequestsOf
  <2>2. ASSUME NEW j \in 1 .. Len(all), NEW k \in 1 .. Len(all), all[j].id = all[k].id, all[j].id # 0
        PROVE  j = k
    BY <1>1, <2>2 DEF RequestsOf
  <2>3. ASSUME NEW r \in Begun(st), NEW k \in 1 .. Len(all), all[k].id = r
        PROVE  Message(r).id /\ \A w \in jobs : w.of # r
    <3>1. k \in 1 .. Len(rs) /\ rs[k].id = r
      BY <1>1, <1>2, <2>3
    <3> QED BY <3>1 DEF RequestsOf
  <2>4. ASSUME NEW r \in Begun(st), Message(r).id, \A w \in jobs : w.of # r
        PROVE  \E k \in 1 .. Len(all) : all[k].id = r
    <3>1. PICK k \in 1 .. Len(rs) : rs[k].id = r
      BY <2>4 DEF RequestsOf
    <3> QED BY <1>1, <3>1
  <2>5. (\A w \in jobs : w.of \in Begun(st)) /\ \A v, w \in jobs : v.of = w.of => v = w
    BY DEF RequestsOf
  <2> QED BY <2>1, <2>2, <2>3, <2>4, <2>5 DEF RequestsOf
<1>4. ServicesOf(jobs, all, st, init, welcome)
  <2>1. 0 \notin welcome
    BY <1>2 DEF ServicesOf
  <2>2. \A k \in 1 .. Len(all) : all[k].id # 0 /\ all[k].result = "ok" /\ Message(all[k].id).method = "initialize"
           => init = "done"
    BY <1>1 DEF ServicesOf
  <2>3. ASSUME NEW k \in 1 .. Len(all), all[k].id \in welcome PROVE all[k].result # "not initialized"
    <3>1. k \in 1 .. Len(rs) /\ all[k] = rs[k]
      BY <1>1, <2>1, <2>3
    <3> QED BY <2>3, <3>1 DEF ServicesOf
  <2> QED BY <2>2, <2>3 DEF ServicesOf
<1> QED BY <1>1, <1>3, <1>4

\* A request is started.
LEMMA JobAdded ==
    ASSUME NEW jobs, NEW rs, NEW st \in Seq(Nat \ {0}), NEW init, NEW welcome,
           RequestsOf(jobs, rs, st), ServicesOf(jobs, rs, st, init, welcome),
           NEW i \in Nat \ {0}, \A k \in 1 .. Len(st) : st[k] < i,
           NEW w, w.of = i,
           Message(i).method = "initialize" => w.at = "initialize" \/ (w.at = "answer" /\ init = "done"),
           init = "done" => w.result # "not initialized",
           NEW init2, init = "done" => init2 = "done",
           NEW welcome2, welcome \subseteq welcome2, welcome2 \subseteq welcome \union {i},
           i \in welcome2 => init = "done"
    PROVE  /\ RequestsOf(jobs \union {w}, rs, Append(st, i))
           /\ ServicesOf(jobs \union {w}, rs, Append(st, i), init2, welcome2)
<1>1. PICK t : t = Append(st, i)
  OBVIOUS
<1>2. Begun(t) = Begun(st) \union {i} /\ i \notin Begun(st) /\ i # 0
  BY <1>1, BegunOn
<1>3. /\ \A v \in jobs : v.of \in Begun(st)
      /\ \A k \in 1 .. Len(rs) : rs[k].id # 0 => rs[k].id \in Begun(st)
  BY DEF RequestsOf
<1>4. \A v \in jobs : v.of # i
  BY <1>2, <1>3
<1>5. \A k \in 1 .. Len(rs) : rs[k].id # i
  BY <1>2, <1>3
<1>6. RequestsOf(jobs \union {w}, rs, t)
  <2>1. \A v \in jobs \union {w} : v.of \in Begun(t)
    BY <1>2, <1>3
  <2>2. \A u, v \in jobs \union {w} : u.of = v.of => u = v
    BY <1>4 DEF RequestsOf
  <2>3. \A k \in 1 .. Len(rs) : rs[k].id # 0 => rs[k].id \in Begun(t)
    BY <1>2, <1>3
  <2>4. \A j, k \in 1 .. Len(rs) : rs[j].id = rs[k].id /\ rs[j].id # 0 => j = k
    BY DEF RequestsOf
  <2>5. ASSUME NEW r \in Begun(t), NEW k \in 1 .. Len(rs), rs[k].id = r
        PROVE  Message(r).id /\ \A v \in jobs \union {w} : v.of # r
    <3>1. r \in Begun(st) /\ r # i
      BY <1>2, <1>5, <2>5
    <3> QED BY <2>5, <3>1 DEF RequestsOf
  <2>6. ASSUME NEW r \in Begun(t), Message(r).id, \A v \in jobs \union {w} : v.of # r
        PROVE  \E k \in 1 .. Len(rs) : rs[k].id = r
    <3>1. r \in Begun(st)
      BY <1>2, <2>6
    <3> QED BY <2>6, <3>1 DEF RequestsOf
  <2> QED BY <2>1, <2>2, <2>3, <2>4, <2>5, <2>6 DEF RequestsOf
<1>7. ServicesOf(jobs \union {w}, rs, t, init2, welcome2)
  <2>1. \A v \in jobs \union {w} : Message(v.of).method = "initialize" =>
           v.at = "initialize" \/ (v.at = "answer" /\ init2 = "done")
    BY DEF ServicesOf
  <2>2. \A k \in 1 .. Len(rs) : rs[k].id # 0 /\ rs[k].result = "ok" /\ Message(rs[k].id).method = "initialize"
           => init2 = "done"
    BY DEF ServicesOf
  <2>3. welcome2 \subseteq Begun(t) /\ (welcome2 # {} => init2 = "done")
    BY <1>2 DEF ServicesOf
  <2>4. \A v \in jobs \union {w} : v.of \in welcome2 => v.result # "not initialized"
    BY <1>4 DEF ServicesOf
  <2>5. \A k \in 1 .. Len(rs) : rs[k].id \in welcome2 => rs[k].result # "not initialized"
    BY <1>5 DEF ServicesOf
  <2> QED BY <2>1, <2>2, <2>3, <2>4, <2>5 DEF ServicesOf
<1> QED BY <1>1, <1>6, <1>7

\* Requests and services do not depend on what the client sends next.
LEMMA SameScript ==
    ASSUME script' = script,
           RequestsOf(working', responses', started'),
           ServicesOf(working', responses', started', initialization', greeted')
    PROVE  Requests' /\ ServicesOf(working, responses, started, initialization, greeted)'
<1>1. script' = script
  OBVIOUS
<1>2. Requests'
  BY <1>1 DEF Requests, RequestsOf, Begun, Message
<1>3. ServicesOf(working, responses, started, initialization, greeted)'
  BY <1>1 DEF ServicesOf, Begun, Message
<1> QED BY <1>2, <1>3

\* What a run of the handler does to the jobs and responses that it finds.
LEMMA JobsTaken ==
    ASSUME Typed, Counted, NEW b \in Seq(Unit), NEW others, others \subseteq Job, NEW written \in Seq(Response),
           RequestsOf(others, written, started), ServicesOf(others, written, started, initialization, greeted),
           Proceed(b, others, written), UNCHANGED client,
           Loop(b, contentLength).request # 0 =>
               /\ Loop(b, contentLength).request \in Nat \ {0}
               /\ \A k \in 1 .. Len(started) : started[k] < Loop(b, contentLength).request
    PROVE  working' \subseteq Job /\ responses' \in Seq(Response) /\ Requests' /\ Services'
<1>1. PICK i, e, st : i = Loop(b, contentLength).request /\ e = Loop(b, contentLength).errors /\ st = started
  OBVIOUS
<1>0. script' = script
  BY DEF client
<1>2. st \in Seq(Nat \ {0})
  BY <1>1 DEF Typed
<1>3. e \in Nat
  BY <1>1 DEF Loop
<1>4. PICK all : all = written \o Complaints(e)
  OBVIOUS
<1>5. responses' = all
  BY <1>1, <1>4 DEF Proceed, Complaints
<1>6. all \in Seq(Response) /\ RequestsOf(others, all, st) /\ ServicesOf(others, all, st, initialization, greeted)
  <2>1. RequestsOf(others, written, st) /\ ServicesOf(others, written, st, initialization, greeted)
    BY <1>1
  <2> QED BY <1>2, <1>3, <1>4, <2>1, Complained
<1>7. CASE i = 0
  <2>1. working' = others /\ started' = started /\ greeted' = greeted /\ initialization' = initialization
        /\ initializations' = initializations
    BY <1>1, <1>7 DEF Proceed
  <2>2. RequestsOf(working', responses', started') /\ ServicesOf(working', responses', started', initialization', greeted')
    BY <1>1, <1>5, <1>6, <2>1
  <2>3. Counted'
    BY <2>1 DEF Counted
  <2> QED BY <1>0, <1>5, <1>6, <2>1, <2>2, <2>3, SameScript DEF Services
<1>8. CASE i # 0
  <2>1. PICK w : w = handleRequest(i)
    OBVIOUS
  <2>2. /\ working' = others \union {w} /\ started' = Append(st, i)
        /\ greeted' = greeted \/ (greeted' = greeted \union {i}
                                  /\ \E k \in DOMAIN written : written[k].id # 0 /\ written[k].result = "ok"
                                                               /\ Message(written[k].id).method = "initialize")
        /\ \/ initialization' = initialization /\ initializations' = initializations
           \/ initialization = "none" /\ initialization' = "running" /\ initializations' = initializations + 1
    BY <1>1, <1>8, <2>1 DEF Proceed
  <2>3. i \in Nat \ {0} /\ \A k \in 1 .. Len(st) : st[k] < i
    BY <1>1, <1>8
  <2>4. /\ w \in Job /\ w.of = i
        /\ Message(i).method = "initialize" => w.at = "initialize" \/ (w.at = "answer" /\ initialization = "done")
        /\ initialization = "done" => w.result # "not initialized"
    BY <2>1, <2>3, JobBegun
  <2>5. PICK init, init2, welcome, welcome2 :
            init = initialization /\ init2 = initialization' /\ welcome = greeted /\ welcome2 = greeted'
    OBVIOUS
  <2>6. init = "done" => init2 = "done"
    BY <2>2, <2>5
  <2>7. welcome \subseteq welcome2 /\ welcome2 \subseteq welcome \union {i}
    BY <2>2, <2>5
  <2>8. i \in welcome2 => init = "done"
    <3> SUFFICES ASSUME i \in welcome2 PROVE init = "done"
      OBVIOUS
    <3>1. CASE i \in welcome
      BY <2>5, <3>1 DEF ServicesOf
    <3>2. CASE i \notin welcome
      <4>1. PICK k \in DOMAIN written : written[k].id # 0 /\ written[k].result = "ok"
                                       /\ Message(written[k].id).method = "initialize"
        BY <2>2, <2>5, <3>2
      <4>2. k \in 1 .. Len(written)
        OBVIOUS
      <4> QED BY <2>5, <4>1, <4>2 DEF ServicesOf
    <3> QED BY <3>1, <3>2
  <2>9. RequestsOf(others, all, st) /\ ServicesOf(others, all, st, init, welcome)
    BY <1>6, <2>5
  <2>10. RequestsOf(others \union {w}, all, Append(st, i))
         /\ ServicesOf(others \union {w}, all, Append(st, i), init2, welcome2)
    <3>1. /\ Message(i).method = "initialize" => w.at = "initialize" \/ (w.at = "answer" /\ init = "done")
          /\ init = "done" => w.result # "not initialized"
      BY <2>4, <2>5
    <3> QED BY <1>2, <2>3, <2>4, <2>6, <2>7, <2>8, <2>9, <3>1, JobAdded, ZenonT(40)
  <2>11. RequestsOf(working', responses', started') /\ ServicesOf(working', responses', started', initialization', greeted')
    BY <1>5, <2>2, <2>5, <2>10
  <2>12. Counted'
    BY <2>2 DEF Counted
  <2>13. working' \subseteq Job
    BY <2>2, <2>4
  <2> QED BY <1>0, <1>5, <1>6, <2>11, <2>12, <2>13, SameScript DEF Services
<1> QED BY <1>7, <1>8

LEMMA TurnTaken ==
    ASSUME Typed, Counted, NEW b \in Seq(Unit), NEW p \in Seq(Unit), NEW u \in BOOLEAN, InOrder(b, p), InFrame(b, p, u),
           NEW others, others \subseteq Job, NEW written \in Seq(Response),
           RequestsOf(others, written, started), ServicesOf(others, written, started, initialization, greeted),
           Proceed(b, others, written), UNCHANGED client, pipe' = p, unframed' = u
    PROVE  Input' /\ Requests' /\ Services'
<1>1. PICK i : i = Loop(b, contentLength).request
  OBVIOUS
<1>2. /\ buffer' \in Seq(Unit) /\ contentLength' \in Nat /\ started' \in Seq(Nat \ {0})
      /\ InOrder(buffer, pipe)' /\ InFrame(buffer, pipe, unframed)'
      /\ i # 0 => i \in Nat \ {0} /\ \A k \in 1 .. Len(started) : started[k] < i
  BY <1>1, InputTaken
<1>3. working' \subseteq Job /\ responses' \in Seq(Response) /\ Requests' /\ Services'
  BY <1>1, <1>2, JobsTaken
<1>4. script' = script /\ sent' = sent
  BY DEF client
<1>5. Typed'
  BY <1>2, <1>3, <1>4 DEF Typed
<1> QED BY <1>2, <1>3, <1>5 DEF Input

-----------------------------------------------------------------------------
(* What is sent *)

\* t is s, of length n, with the units of message i.
Longer(s, n, t, i) ==
    /\ t \in Seq(Unit) /\ n \in Nat /\ n = Len(s) /\ Len(t) = n + 3
    /\ \A k \in 1 .. n : t[k] = s[k]
    /\ t[n + 1] = Header(i) /\ t[n + 2] = First(i) /\ t[n + 3] = Second(i)

LEMMA UnitsAdded ==
    ASSUME NEW s \in Seq(Unit), NEW i \in Nat \ {0}
    PROVE  Longer(s, Len(s), s \o Units(i), i)
<1>0. PICK n : n = Len(s)
  OBVIOUS
<1>1. PICK us : us = Units(i)
  OBVIOUS
<1>2. PICK hd, bd : hd = <<Header(i)>> /\ bd = <<First(i), Second(i)>>
  OBVIOUS
<1>3. us \in Seq(Unit) /\ Len(us) = 3 /\ us[1] = Header(i) /\ us[2] = First(i) /\ us[3] = Second(i)
  <2>1. bd = Body(i) /\ us = hd \o bd
    BY <1>1, <1>2 DEF Units, Body, First, Second
  <2>2. hd \in Seq(Unit) /\ bd \in Seq(Unit) /\ Len(hd) = 1 /\ Len(bd) = 2
        /\ hd[1] = Header(i) /\ bd[1] = First(i) /\ bd[2] = Second(i)
    BY <1>2, UnitsFollow
  <2>3. /\ hd \o bd \in Seq(Unit) /\ Len(hd \o bd) = Len(hd) + Len(bd)
        /\ \A k \in 1 .. Len(hd) : (hd \o bd)[k] = hd[k]
        /\ \A k \in 1 .. Len(bd) : (hd \o bd)[Len(hd) + k] = bd[k]
    BY <2>2, Joined
  <2>4. \A k \in 1 .. 1 : us[k] = hd[k]
    BY <2>1, <2>2, <2>3
  <2>5. \A k \in 1 .. 2 : us[1 + k] = bd[k]
    BY <2>1, <2>2, <2>3
  <2>6. us[1] = hd[1] /\ us[2] = bd[1] /\ us[3] = bd[2]
    BY <2>4, <2>5
  <2> QED BY <2>1, <2>2, <2>3, <2>6
<1>4. n \in Nat
  BY <1>0, LengthNat
<1>5. /\ s \o us \in Seq(Unit) /\ Len(s \o us) = n + 3
      /\ \A k \in 1 .. n : (s \o us)[k] = s[k]
      /\ \A k \in 1 .. 3 : (s \o us)[n + k] = us[k]
  <2>1. us \in Seq(Unit)
    BY <1>3
  <2>2. /\ s \o us \in Seq(Unit) /\ Len(s \o us) = Len(s) + Len(us)
        /\ \A k \in 1 .. Len(s) : (s \o us)[k] = s[k]
        /\ \A k \in 1 .. Len(us) : (s \o us)[Len(s) + k] = us[k]
    BY <2>1, Joined
  <2> QED BY <1>0, <1>3, <2>2
<1>6. 1 \in 1 .. 3 /\ 2 \in 1 .. 3 /\ 3 \in 1 .. 3
  OBVIOUS
<1>7. (s \o us)[n + 1] = Header(i) /\ (s \o us)[n + 2] = First(i) /\ (s \o us)[n + 3] = Second(i)
  BY <1>3, <1>5, <1>6
<1>8. PICK t : t = s \o us
  OBVIOUS
<1>9. Longer(s, n, t, i)
  <2>1. t \in Seq(Unit) /\ Len(t) = n + 3 /\ \A k \in 1 .. n : t[k] = s[k]
    BY <1>5, <1>8
  <2>2. t[n + 1] = Header(i) /\ t[n + 2] = First(i) /\ t[n + 3] = Second(i)
    BY <1>7, <1>8
  <2> QED BY <1>0, <1>4, <2>1, <2>2 DEF Longer
<1> QED BY <1>0, <1>1, <1>8, <1>9

LEMMA ThreeMore ==
    ASSUME NEW n \in Nat
    PROVE  \A k \in 1 .. n + 3 : k \in 1 .. n \/ k = n + 1 \/ k = n + 2 \/ k = n + 3
OBVIOUS

\* The next message is behind all that has been sent.
LEMMA OrderSent ==
    ASSUME sent \in Nat, NEW s, NEW n, NEW t, NEW i, i = sent + 1, Longer(s, n, t, i), sent' = i,
           NEW l \in Nat, NEW st \in Seq(Nat \ {0}), Ascends(s, l, st), StartedUp(l, st), \A k \in 1 .. n : s[k] \in Unit
    PROVE  Ascends(t, l, st)' /\ StartedUp(l, st)'
<1>1. n = Len(s)
  BY DEF Longer
<1>2. i \in Nat \ {0} /\ sent \in Nat /\ sent < i
  OBVIOUS
<1>3. /\ n \in Nat /\ Len(t) = n + 3 /\ \A k \in 1 .. n : t[k] = s[k]
      /\ t[n + 1] = Header(i) /\ t[n + 2] = First(i) /\ t[n + 3] = Second(i)
  BY DEF Longer
<1>4. \A k \in 1 .. n + 3 : k \in 1 .. n \/ k = n + 1 \/ k = n + 2 \/ k = n + 3
  <2>1. n \in Nat
    BY <1>3
  <2> QED BY <2>1, ThreeMore
<1>5. \A k \in 1 .. n + 3 : t[k].part = "header" => (k \in 1 .. n /\ t[k] = s[k]) \/ (k = n + 1 /\ t[k].of = i)
  <2>1. Header(i).of = i /\ First(i).part # "header" /\ Second(i).part # "header"
    BY DEF Header, First, Second
  <2>2. t[n + 1].of = i /\ t[n + 2].part # "header" /\ t[n + 3].part # "header"
    BY <1>3, <2>1
  <2> SUFFICES ASSUME NEW k \in 1 .. n + 3, t[k].part = "header"
               PROVE  (k \in 1 .. n /\ t[k] = s[k]) \/ (k = n + 1 /\ t[k].of = i)
    OBVIOUS
  <2>3. k \in 1 .. n \/ k = n + 1 \/ k = n + 2 \/ k = n + 3
    BY <1>4
  <2>4. k # n + 2 /\ k # n + 3
    BY <2>2
  <2>5. CASE k \in 1 .. n
    BY <1>3, <2>5
  <2>6. CASE k = n + 1
    BY <2>2, <2>6
  <2> QED BY <2>3, <2>4, <2>5, <2>6
<1>6. \A k \in 1 .. n : s[k].part = "header" => s[k].of <= sent /\ s[k].of \in Nat
  BY <1>1 DEF Ascends, Unit
<1>7. Ascends(t, l, st)'
  <2> SUFFICES ASSUME NEW k \in 1 .. n + 3, t[k].part = "header"
               PROVE  /\ t[k].of <= i /\ l < t[k].of
                      /\ \A j \in 1 .. Len(st) : st[j] < t[k].of
                      /\ \A j \in 1 .. k - 1 : t[j].part = "header" => t[j].of < t[k].of
    BY <1>1, <1>3 DEF Ascends
  <2>1. CASE k \in 1 .. n /\ t[k] = s[k]
    <3>1. \A j \in 1 .. k - 1 : j \in 1 .. n
      BY <1>3, <2>1
    <3>2. s[k].of <= i
      BY <1>2, <1>6, <2>1
    <3> QED BY <1>1, <1>3, <2>1, <3>1, <3>2 DEF Ascends
  <2>2. CASE k = n + 1 /\ t[k].of = i
    <3>1. \A j \in 1 .. k - 1 : j \in 1 .. n
      BY <1>3, <2>2
    <3>2. \A j \in 1 .. k - 1 : t[j].part = "header" => t[j].of < i
      <4> SUFFICES ASSUME NEW j \in 1 .. k - 1, t[j].part = "header" PROVE t[j].of < i
        OBVIOUS
      <4>1. j \in 1 .. n /\ t[j] = s[j]
        BY <1>3, <3>1
      <4>2. s[j].of <= sent /\ s[j].of \in Nat
        BY <1>6, <4>1
      <4> QED BY <1>2, <4>1, <4>2
    <3>3. l < i /\ \A j \in 1 .. Len(st) : st[j] < i
      BY <1>2 DEF StartedUp
    <3> QED BY <1>2, <2>2, <3>2, <3>3
  <2> QED BY <1>5, <2>1, <2>2
<1>8. StartedUp(l, st)'
  <2>1. l \in 0 .. sent' /\ \A k \in 1 .. Len(st) : st[k] \in 1 .. sent'
    BY <1>1, <1>2 DEF StartedUp
  <2> QED BY <2>1 DEF StartedUp
<1> QED BY <1>7, <1>8

LEMMA FramedSent ==
    ASSUME sent \in Nat, NEW s, NEW m, NEW t, NEW i, i = sent + 1, Longer(s, m, t, i), sent' = i,
           NEW l, NEW n \in Nat, Framed(s, l, n), m # 0 <=> s # <<>>
    PROVE  Framed(t, l, n)'
<1>1. m = Len(s)
  BY DEF Longer
<1>2. i \in Nat \ {0} /\ sent \in Nat
  OBVIOUS
<1>3. /\ m \in Nat /\ Len(t) = m + 3 /\ \A k \in 1 .. m : t[k] = s[k]
      /\ t[m + 1] = Header(i) /\ t[m + 2] = First(i) /\ t[m + 3] = Second(i)
  BY DEF Longer
<1>4. t # <<>>
  BY <1>3
<1>5. t[1] = IF l = 0 THEN Header(n + 1) ELSE First(n + 1)
  <2>1. CASE s = <<>>
    <3>1. m = 0 /\ n = sent /\ l = 0
      BY <1>1, <2>1 DEF Framed
    <3> QED BY <1>1, <1>3, <3>1
  <2>2. CASE s # <<>>
    <3>1. 1 \in 1 .. m
      BY <1>1, <1>3, <2>2
    <3> QED BY <1>3, <2>2, <3>1 DEF Framed
  <2> QED BY <2>1, <2>2
<1>6. ASSUME NEW k \in 1 .. m + 2 PROVE t[k + 1] = After(t[k])
  <2>1. CASE k \in 1 .. m - 1
    <3>1. k \in 1 .. m /\ k + 1 \in 1 .. m
      BY <1>3, <2>1
    <3>2. s[k + 1] = After(s[k])
      BY <1>1, <2>1 DEF Framed
    <3> QED BY <1>3, <3>1, <3>2
  <2>2. CASE k = m /\ m # 0
    <3>1. s # <<>> /\ k \in 1 .. m
      BY <1>1, <1>3, <2>2
    <3>2. t[k] = Second(sent)
      BY <1>1, <1>3, <2>2, <3>1 DEF Framed
    <3>3. Header(sent + 1) = After(Second(sent))
      BY DEF Header, Second, After
    <3> QED BY <1>1, <1>3, <2>2, <3>2, <3>3
  <2>3. CASE k = m + 1
    <3>1. k + 1 = m + 2 /\ First(i) = After(Header(i))
      BY <1>2, <1>3, <2>3, UnitsFollow
    <3> QED BY <1>3, <2>3, <3>1
  <2>4. CASE k = m + 2
    <3>1. k + 1 = m + 3 /\ Second(i) = After(First(i))
      BY <1>2, <1>3, <2>4, UnitsFollow
    <3> QED BY <1>3, <2>4, <3>1
  <2>5. k \in 1 .. m - 1 \/ (k = m /\ m # 0) \/ k = m + 1 \/ k = m + 2
    BY <1>3
  <2> QED BY <2>1, <2>2, <2>3, <2>4, <2>5
<1>7. \A k \in 1 .. Len(t) - 1 : k \in 1 .. m + 2
  BY <1>3
<1> QED BY <1>1, <1>3, <1>4, <1>5, <1>6, <1>7 DEF Framed

-----------------------------------------------------------------------------
(* A character that is cut *)

LEMMA OrderCut ==
    ASSUME NEW s \in Seq(Unit), NEW t \in Seq(Unit), NEW m \in 1 .. Len(s), Len(t) = Len(s) + 1,
           \A k \in 1 .. m - 1 : t[k] = s[k],
           t[m].part # "header", t[m + 1].part # "header",
           \A k \in m + 2 .. Len(t) : t[k] = s[k - 1],
           NEW l, NEW st, Ascends(s, l, st)
    PROVE  Ascends(t, l, st)
<1>1. Len(s) \in Nat /\ Len(t) \in Nat
  OBVIOUS
<1>2. ASSUME NEW k \in 1 .. Len(t), t[k].part = "header"
      PROVE  \E j \in 1 .. Len(s) : t[k] = s[j] /\ (IF k < m THEN j = k ELSE k > m + 1 /\ j = k - 1)
  <2>1. CASE k \in 1 .. m - 1
    <3>1. k \in 1 .. Len(s) /\ k < m
      BY <1>1, <2>1
    <3> QED BY <2>1, <3>1
  <2>2. CASE k \in m + 2 .. Len(t)
    <3>1. k - 1 \in 1 .. Len(s) /\ ~(k < m) /\ k > m + 1
      BY <1>1, <2>2
    <3> QED BY <2>2, <3>1
  <2>3. k \in 1 .. m - 1 \/ k \in m + 2 .. Len(t) \/ k = m \/ k = m + 1
    BY <1>1
  <2> QED BY <1>2, <2>1, <2>2, <2>3
<1> SUFFICES ASSUME NEW k \in 1 .. Len(t), t[k].part = "header"
             PROVE  /\ t[k].of <= sent /\ l < t[k].of
                    /\ \A i \in 1 .. Len(st) : st[i] < t[k].of
                    /\ \A j \in 1 .. k - 1 : t[j].part = "header" => t[j].of < t[k].of
  BY DEF Ascends
<1>3. PICK k2 \in 1 .. Len(s) : t[k] = s[k2] /\ (IF k < m THEN k2 = k ELSE k > m + 1 /\ k2 = k - 1)
  BY <1>2
<1>4. t[k].of <= sent /\ l < t[k].of /\ \A i \in 1 .. Len(st) : st[i] < t[k].of
  BY <1>3 DEF Ascends
<1>5. ASSUME NEW j \in 1 .. k - 1, t[j].part = "header" PROVE t[j].of < t[k].of
  <2>1. j \in 1 .. Len(t) /\ j < k
    BY <1>1
  <2>2. PICK j2 \in 1 .. Len(s) : t[j] = s[j2] /\ (IF j < m THEN j2 = j ELSE j > m + 1 /\ j2 = j - 1)
    BY <1>2, <1>5, <2>1
  <2>3. j2 \in 1 .. k2 - 1
    BY <1>1, <1>3, <2>1, <2>2
  <2> QED BY <1>3, <1>5, <2>2, <2>3 DEF Ascends
<1> QED BY <1>4, <1>5

-----------------------------------------------------------------------------
(* Chunks *)

LEMMA SplitAt ==
    ASSUME NEW S, NEW s \in Seq(S), NEW n \in 0 .. Len(s)
    PROVE  /\ SubSeq(s, 1, n) \in Seq(S) /\ Len(SubSeq(s, 1, n)) = n
           /\ \A k \in 1 .. n : SubSeq(s, 1, n)[k] = s[k]
           /\ From(s, n + 1) \in Seq(S) /\ Len(From(s, n + 1)) = Len(s) - n
           /\ \A k \in 1 .. Len(s) - n : From(s, n + 1)[k] = s[n + k]
           /\ SubSeq(s, 1, n) \o From(s, n + 1) = s
<1>1. PICK c, r, m : c = SubSeq(s, 1, n) /\ r = From(s, n + 1) /\ m = Len(s)
  OBVIOUS
<1>2. m \in Nat /\ n \in 0 .. m /\ n \in Nat
  BY <1>1
<1>3. c \in Seq(S) /\ Len(c) = n /\ \A k \in 1 .. n : c[k] = s[k]
  <2>1. \A k \in 1 .. n : s[k] \in S
    BY <1>1, <1>2
  <2> QED BY <1>1, <1>2, <2>1, SubSeqProperties
<1>4. r \in Seq(S) /\ Len(r) = m - n /\ \A k \in 1 .. m - n : r[k] = s[n + k]
  <2>1. n + 1 \in 1 .. Len(s) + 1
    BY <1>1, <1>2
  <2>2. r \in Seq(S) /\ Len(r) = m - (n + 1) + 1 /\ \A k \in 1 .. Len(r) : r[k] = s[k + (n + 1) - 1]
    BY <1>1, <2>1, FromRest
  <2>3. \A k \in 1 .. m - n : k + (n + 1) - 1 = n + k
    BY <1>2
  <2> QED BY <1>2, <2>2, <2>3
<1>5. c \o r = s
  <2>1. PICK t : t = c \o r
    OBVIOUS
  <2>2. /\ t \in Seq(S) /\ Len(t) = n + (m - n)
        /\ \A k \in 1 .. n : t[k] = c[k]
        /\ \A k \in 1 .. m - n : t[n + k] = r[k]
    <3>1. c \in Seq(S) /\ r \in Seq(S)
      BY <1>3, <1>4
    <3>2. /\ c \o r \in Seq(S) /\ Len(c \o r) = Len(c) + Len(r)
          /\ \A k \in 1 .. Len(c) : (c \o r)[k] = c[k]
          /\ \A k \in 1 .. Len(r) : (c \o r)[Len(c) + k] = r[k]
      BY <3>1, Joined
    <3> QED BY <1>3, <1>4, <2>1, <3>2
  <2>3. ASSUME NEW k \in 1 .. m PROVE t[k] = s[k]
    <3>1. CASE k \in 1 .. n
      BY <1>3, <2>2, <3>1
    <3>2. CASE k \notin 1 .. n
      <4>1. PICK j : j = k - n
        OBVIOUS
      <4>2. j \in 1 .. m - n /\ k = n + j
        BY <1>2, <3>2, <4>1
      <4> QED BY <1>4, <2>2, <4>2
    <3> QED BY <3>1, <3>2
  <2>4. Len(t) = Len(s)
    BY <1>1, <1>2, <2>2
  <2> QED BY <1>1, <2>1, <2>2, <2>3, <2>4, SameElements
<1> QED BY <1>1, <1>3, <1>4, <1>5

LEMMA ChunkTaken ==
    ASSUME NEW b \in Seq(Unit), NEW p \in Seq(Unit), NEW u \in BOOLEAN, InOrder(b, p), InFrame(b, p, u),
           NEW n \in 1 .. Len(p), NEW c, c = SubSeq(p, 1, n), NEW r, r = From(p, n + 1),
           NEW u2, u2 = (u \/ \E k \in 1 .. n : p[k].part = "header" /\ Message(p[k].of).frame # "good")
    PROVE  b \o c \in Seq(Unit) /\ r \in Seq(Unit) /\ InOrder(b \o c, r) /\ InFrame(b \o c, r, u2)
<1>1. c \in Seq(Unit) /\ Len(c) = n /\ (\A k \in 1 .. n : c[k] = p[k]) /\ r \in Seq(Unit) /\ c \o r = p
  <2>1. n \in 0 .. Len(p)
    OBVIOUS
  <2> QED BY <2>1, SplitAt
<1>2. (b \o c) \o r = b \o p /\ b \o c \in Seq(Unit)
  <2>1. c \in Seq(Unit) /\ r \in Seq(Unit) /\ c \o r = p
    BY <1>1
  <2>2. (b \o c) \o r = b \o (c \o r)
    <3>1. c \in Seq(Unit) /\ r \in Seq(Unit)
      BY <1>1
    <3> QED BY <3>1, ConcatAssociative
  <2>3. b \o c \in Seq(Unit)
    BY <2>1, Joined
  <2>4. b \o (c \o r) = b \o p
    BY <2>1
  <2> QED BY <2>2, <2>3, <2>4
<1>3. InOrder(b \o c, r)
  BY <1>2 DEF InOrder
<1>4. ASSUME ~u2 PROVE GoodHeaders(b \o c)
  <2>1. GoodHeaders(b) /\ \A k \in 1 .. n : p[k].part = "header" => Message(p[k].of).frame = "good"
    BY <1>4 DEF InFrame
  <2>2. PICK t, m : t = b \o c /\ m = Len(b)
    OBVIOUS
  <2>3. /\ m \in Nat /\ n \in Nat /\ Len(t) = m + n
        /\ \A k \in 1 .. m : t[k] = b[k]
        /\ \A k \in 1 .. n : t[m + k] = c[k]
    <3>1. /\ Len(b \o c) = Len(b) + Len(c)
          /\ \A k \in 1 .. Len(b) : (b \o c)[k] = b[k]
          /\ \A k \in 1 .. Len(c) : (b \o c)[Len(b) + k] = c[k]
      <4>1. c \in Seq(Unit)
        BY <1>1
      <4> QED BY <4>1, Joined
    <3>2. Len(b) \in Nat /\ n \in Nat
      BY LengthNat
    <3> QED BY <1>1, <2>2, <3>1, <3>2
  <2>4. ASSUME NEW k \in 1 .. m + n, t[k].part = "header" PROVE Message(t[k].of).frame = "good"
    <3>1. CASE k \in 1 .. m
      BY <2>1, <2>2, <2>3, <2>4, <3>1 DEF GoodHeaders
    <3>2. CASE k \notin 1 .. m
      <4>1. PICK j : j = k - m
        OBVIOUS
      <4>2. j \in 1 .. n /\ k = m + j
        BY <2>3, <3>2, <4>1
      <4>3. t[k] = p[j]
        BY <1>1, <2>3, <4>2
      <4> QED BY <2>1, <2>4, <4>2, <4>3
    <3> QED BY <3>1, <3>2
  <2> QED BY <2>2, <2>3, <2>4 DEF GoodHeaders
<1>5. InFrame(b \o c, r, u2)
  <2> SUFFICES ASSUME ~u2
               PROVE  /\ Framed((b \o c) \o r, contentLength, Len(started)) /\ GoodHeaders(b \o c)
                      /\ \A k \in 1 .. Len(started) : started[k] = k
    BY DEF InFrame
  <2>1. Framed(b \o p, contentLength, Len(started)) /\ \A k \in 1 .. Len(started) : started[k] = k
    BY DEF InFrame
  <2> QED BY <1>2, <1>4, <2>1
<1> QED BY <1>1, <1>2, <1>3, <1>5

LEMMA CutTaken ==
    ASSUME NEW b \in Seq(Unit), NEW p \in Seq(Unit), InOrder(b, p),
           NEW n \in 1 .. Len(p), NEW cut \in Unit, cut.part = "cut",
           NEW c, c = SubSeq(p, 1, n - 1), NEW r, r = From(p, n + 1)
    PROVE  /\ b \o c \o <<cut>> \in Seq(Unit) /\ <<cut>> \o r \in Seq(Unit)
           /\ InOrder(b \o c \o <<cut>>, <<cut>> \o r)
<1>1. PICK one, s, x, y, t, m :
          one = <<cut>> /\ s = b \o p /\ x = (b \o c) \o one /\ y = one \o r /\ t = x \o y /\ m = Len(b)
  OBVIOUS
<1>2. PICK q : q = Len(p)
  OBVIOUS
<1>3. m \in Nat /\ q \in Nat /\ n \in 1 .. q /\ n - 1 \in 0 .. q /\ n \in 0 .. q
  <2>1. m \in Nat /\ q \in Nat
    BY <1>1, <1>2, LengthNat
  <2> QED BY <1>2, <2>1
<1>4. /\ c \in Seq(Unit) /\ Len(c) = n - 1 /\ \A k \in 1 .. n - 1 : c[k] = p[k]
  BY <1>2, <1>3, SplitAt
<1>5. r \in Seq(Unit) /\ Len(r) = q - n /\ \A k \in 1 .. q - n : r[k] = p[n + k]
  BY <1>2, <1>3, SplitAt
<1>6. one \in Seq(Unit) /\ Len(one) = 1 /\ one[1] = cut
  BY <1>1
<1>7. PICK bc : bc = b \o c
  OBVIOUS
<1>8. /\ bc \in Seq(Unit) /\ Len(bc) = m + (n - 1)
      /\ \A k \in 1 .. m : bc[k] = b[k]
      /\ \A k \in 1 .. n - 1 : bc[m + k] = c[k]
  <2>1. c \in Seq(Unit)
    BY <1>4
  <2>2. /\ b \o c \in Seq(Unit) /\ Len(b \o c) = Len(b) + Len(c)
        /\ \A k \in 1 .. Len(b) : (b \o c)[k] = b[k]
        /\ \A k \in 1 .. Len(c) : (b \o c)[Len(b) + k] = c[k]
    BY <2>1, Joined
  <2> QED BY <1>1, <1>4, <1>7, <2>2
<1>9. /\ x \in Seq(Unit) /\ Len(x) = m + n
      /\ \A k \in 1 .. m + (n - 1) : x[k] = bc[k]
      /\ x[m + n] = cut
  <2>1. bc \in Seq(Unit) /\ one \in Seq(Unit)
    BY <1>6, <1>8
  <2>2. /\ bc \o one \in Seq(Unit) /\ Len(bc \o one) = Len(bc) + Len(one)
        /\ \A k \in 1 .. Len(bc) : (bc \o one)[k] = bc[k]
        /\ \A k \in 1 .. Len(one) : (bc \o one)[Len(bc) + k] = one[k]
    BY <2>1, Joined
  <2>3. x = bc \o one /\ Len(bc) + 1 = m + n /\ 1 \in 1 .. 1
    BY <1>1, <1>3, <1>7, <1>8
  <2> QED BY <1>6, <1>8, <2>2, <2>3
<1>10. /\ y \in Seq(Unit) /\ Len(y) = 1 + (q - n)
       /\ y[1] = cut /\ \A k \in 1 .. q - n : y[1 + k] = r[k]
  <2>1. one \in Seq(Unit) /\ r \in Seq(Unit)
    BY <1>5, <1>6
  <2>2. /\ one \o r \in Seq(Unit) /\ Len(one \o r) = Len(one) + Len(r)
        /\ \A k \in 1 .. Len(one) : (one \o r)[k] = one[k]
        /\ \A k \in 1 .. Len(r) : (one \o r)[Len(one) + k] = r[k]
    BY <2>1, Joined
  <2> QED BY <1>1, <1>5, <1>6, <2>2
<1>11. /\ t \in Seq(Unit) /\ Len(t) = m + n + (1 + (q - n))
       /\ \A k \in 1 .. m + n : t[k] = x[k]
       /\ \A k \in 1 .. 1 + (q - n) : t[m + n + k] = y[k]
  <2>1. x \in Seq(Unit) /\ y \in Seq(Unit)
    BY <1>9, <1>10
  <2>2. /\ x \o y \in Seq(Unit) /\ Len(x \o y) = Len(x) + Len(y)
        /\ \A k \in 1 .. Len(x) : (x \o y)[k] = x[k]
        /\ \A k \in 1 .. Len(y) : (x \o y)[Len(x) + k] = y[k]
    BY <2>1, Joined
  <2> QED BY <1>1, <1>9, <1>10, <2>2, ZenonT(40)
<1>12. /\ s \in Seq(Unit) /\ Len(s) = m + q
       /\ \A k \in 1 .. m : s[k] = b[k]
       /\ \A k \in 1 .. q : s[m + k] = p[k]
  BY <1>1, <1>2, Joined
<1>13. \A k \in 1 .. m + n - 1 : t[k] = s[k]
  <2> SUFFICES ASSUME NEW k \in 1 .. m + n - 1 PROVE t[k] = s[k]
    OBVIOUS
  <2>1. t[k] = bc[k]
    <3>1. k \in 1 .. m + n /\ k \in 1 .. m + (n - 1)
      BY <1>3
    <3> QED BY <1>9, <1>11, <3>1
  <2>2. CASE k \in 1 .. m
    BY <1>8, <1>12, <2>1, <2>2
  <2>3. CASE k \notin 1 .. m
    <3>1. PICK j : j = k - m
      OBVIOUS
    <3>2. j \in 1 .. n - 1 /\ j \in 1 .. q /\ k = m + j
      BY <1>3, <2>3, <3>1
    <3>3. bc[k] = p[j]
      BY <1>4, <1>8, <3>2
    <3> QED BY <1>12, <2>1, <3>2, <3>3
  <2> QED BY <2>2, <2>3
<1>14. t[m + n] = cut /\ t[m + n + 1] = cut
  <2>1. m + n \in 1 .. m + n /\ 1 \in 1 .. 1 + (q - n)
    BY <1>3
  <2> QED BY <1>9, <1>10, <1>11, <2>1
<1>15. \A k \in m + n + 2 .. Len(t) : t[k] = s[k - 1]
  <2> SUFFICES ASSUME NEW k \in m + n + 2 .. Len(t) PROVE t[k] = s[k - 1]
    OBVIOUS
  <2>1. PICK j : j = k - (m + n + 1)
    OBVIOUS
  <2>2. j \in 1 .. q - n /\ 1 + j \in 1 .. 1 + (q - n) /\ k = m + n + (1 + j) /\ n + j \in 1 .. q /\ k - 1 = m + (n + j)
    <3>1. k \in m + n + 2 .. m + n + (1 + (q - n))
      BY <1>11
    <3> QED BY <1>3, <2>1, <3>1
  <2>3. t[k] = r[j]
    BY <1>10, <1>11, <2>2
  <2>4. r[j] = p[n + j]
    BY <1>5, <2>2
  <2>5. s[k - 1] = p[n + j]
    BY <1>12, <2>2
  <2> QED BY <2>3, <2>4, <2>5
<1>16. m + n \in 1 .. Len(s) /\ Len(t) = Len(s) + 1
  BY <1>3, <1>11, <1>12
<1>17. Ascends(s, contentLength, started) /\ StartedUp(contentLength, started)
  BY <1>1 DEF InOrder
<1>18. Ascends(t, contentLength, started)
  <2>1. PICK w, l, st : w = m + n /\ l = contentLength /\ st = started
    OBVIOUS
  <2>2. /\ s \in Seq(Unit) /\ t \in Seq(Unit) /\ w \in 1 .. Len(s) /\ Len(t) = Len(s) + 1
        /\ \A k \in 1 .. w - 1 : t[k] = s[k]
        /\ t[w].part # "header" /\ t[w + 1].part # "header"
        /\ \A k \in w + 2 .. Len(t) : t[k] = s[k - 1]
    <3>1. s \in Seq(Unit) /\ t \in Seq(Unit) /\ w \in 1 .. Len(s) /\ Len(t) = Len(s) + 1
      <4>1. s \in Seq(Unit) /\ t \in Seq(Unit)
        BY <1>11, <1>12
      <4> QED BY <1>16, <2>1, <4>1
    <3>2. \A k \in 1 .. w - 1 : t[k] = s[k]
      <4>1. w - 1 = m + n - 1
        BY <1>3, <2>1
      <4> QED BY <1>13, <4>1
    <3>3. t[w].part # "header" /\ t[w + 1].part # "header"
      BY <1>14, <2>1
    <3>4. \A k \in w + 2 .. Len(t) : t[k] = s[k - 1]
      BY <1>15, <2>1
    <3> QED BY <3>1, <3>2, <3>3, <3>4
  <2>3. Ascends(s, l, st)
    BY <1>17, <2>1
  <2>4. Ascends(t, l, st)
    BY <2>2, <2>3, OrderCut
  <2> QED BY <2>1, <2>4
<1> QED BY <1>1, <1>9, <1>10, <1>17, <1>18 DEF InOrder

-----------------------------------------------------------------------------
(* The invariant *)

Kept == Input /\ Requests /\ Services

LEMMA KeptInit == Init => Kept
<1> SUFFICES ASSUME Init PROVE Kept
  OBVIOUS
<1>1. script \in Seq(Messages)
  BY ScriptsAssumption DEF Init, Messages
<1>2. /\ sent = 0 /\ pipe = <<>> /\ buffer = <<>> /\ contentLength = 0 /\ initialization = "none" /\ working = {}
      /\ responses = <<>> /\ started = <<>> /\ unframed = FALSE /\ initializations = 0 /\ greeted = {}
  BY DEF Init
<1>3. Typed
  <2>1. Len(script) \in Nat
    BY <1>1, LengthNat
  <2>2. \A S : <<>> \in Seq(S)
    BY EmptySeq
  <2>3. buffer \in Seq(Unit) /\ pipe \in Seq(Unit) /\ started \in Seq(Nat \ {0}) /\ responses \in Seq(Response)
    BY <1>2, <2>2
  <2>4. sent \in Nat /\ sent <= Len(script) /\ contentLength \in Nat /\ working \subseteq Job /\ unframed \in BOOLEAN
    <3>1. sent <= Len(script)
      BY <1>2, <2>1
    <3>2. sent \in Nat /\ contentLength \in Nat /\ unframed \in BOOLEAN
      BY <1>2
    <3>3. working \subseteq Job
      BY <1>2
    <3> QED BY <3>1, <3>2, <3>3
  <2> QED BY <1>1, <2>3, <2>4 DEF Typed
<1>4. buffer \o pipe = <<>> /\ Len(<<>>) = 0
  BY <1>2
<1>5. InOrder(buffer, pipe)
  BY <1>2, <1>4 DEF InOrder, Ascends, StartedUp
<1>6. InFrame(buffer, pipe, unframed)
  BY <1>2, <1>4 DEF InFrame, Framed, GoodHeaders
<1>7. Requests
  BY <1>2, <1>4 DEF Requests, RequestsOf, Begun
<1>8. Services
  BY <1>2, <1>4 DEF Services, ServicesOf, Counted, Begun
<1> QED BY <1>3, <1>5, <1>6, <1>7, <1>8 DEF Kept, Input

LEMMA SendKeeps == ASSUME Kept, Send PROVE Kept'
<1>1. Typed /\ InOrder(buffer, pipe) /\ InFrame(buffer, pipe, unframed)
  BY DEF Kept, Input
<1>2. PICK i, s, n, t : i = sent + 1 /\ s = buffer \o pipe /\ n = Len(s) /\ t = s \o Units(i)
  OBVIOUS
<1>3. sent \in Nat /\ i \in Nat \ {0} /\ sent' = i /\ i <= Len(script)
  BY <1>1, <1>2 DEF Send, Typed
<1>4. buffer \in Seq(Unit) /\ pipe \in Seq(Unit) /\ s \in Seq(Unit)
  <2>1. buffer \in Seq(Unit) /\ pipe \in Seq(Unit)
    BY <1>1 DEF Typed
  <2>2. buffer \o pipe \in Seq(Unit)
    BY <2>1, Joined
  <2> QED BY <1>2, <2>1, <2>2
<1>5. Longer(s, n, t, i)
  BY <1>2, <1>3, <1>4, UnitsAdded
<1>6. pipe' \in Seq(Unit) /\ buffer' \o pipe' = t
  <2>1. pipe' = pipe \o Units(i) /\ buffer' = buffer
    BY <1>2 DEF Send
  <2>2. Longer(pipe, Len(pipe), pipe \o Units(i), i)
    BY <1>3, <1>4, UnitsAdded
  <2>3. Units(i) \in Seq(Unit)
    <3>1. Header(i) \in Unit /\ First(i) \in Unit /\ Second(i) \in Unit
      BY <1>3, UnitsFollow
    <3>2. <<Header(i)>> \in Seq(Unit) /\ <<First(i), Second(i)>> \in Seq(Unit)
      BY <3>1
    <3>3. <<Header(i)>> \o <<First(i), Second(i)>> \in Seq(Unit)
      BY <3>2, ConcatProperties
    <3>4. Units(i) = <<Header(i)>> \o <<First(i), Second(i)>>
      BY DEF Units, Body, First, Second
    <3> QED BY <3>3, <3>4
  <2>4. (buffer \o pipe) \o Units(i) = buffer \o (pipe \o Units(i))
    BY <1>4, <2>3, ConcatAssociative
  <2>5. pipe' \in Seq(Unit)
    BY <2>1, <2>2 DEF Longer
  <2> QED BY <1>2, <2>1, <2>4, <2>5
<1>7. contentLength' = contentLength /\ started' = started /\ buffer' = buffer /\ script' = script /\ unframed' = unframed
      /\ working' = working /\ responses' = responses /\ initialization' = initialization
      /\ initializations' = initializations /\ greeted' = greeted
  BY DEF Send
<1>8. Typed'
  <2>1. sent' \in Nat /\ sent' <= Len(script')
    BY <1>3, <1>7
  <2> QED BY <1>1, <1>6, <1>7, <2>1 DEF Typed
<1>9. PICK l, st : l = contentLength /\ st = started
  OBVIOUS
<1>10. InOrder(buffer, pipe)'
  <2>1. l \in Nat /\ st \in Seq(Nat \ {0})
    BY <1>1, <1>9 DEF Typed
  <2>2. Ascends(s, l, st) /\ StartedUp(l, st)
    BY <1>1, <1>2, <1>9 DEF InOrder
  <2>3. \A k \in 1 .. n : s[k] \in Unit
    BY <1>2, <1>4, ElementOfSeq
  <2>4. Ascends(t, l, st)' /\ StartedUp(l, st)'
    BY <1>2, <1>3, <1>5, <2>1, <2>2, <2>3, OrderSent
  <2> QED BY <1>6, <1>7, <1>9, <2>4 DEF InOrder, Ascends, StartedUp
<1>11. InFrame(buffer, pipe, unframed)'
  <2> SUFFICES ASSUME ~unframed PROVE InFrame(buffer, pipe, unframed)'
    BY <1>7 DEF InFrame
  <2>1. PICK m : m = Len(st)
    OBVIOUS
  <2>2. Framed(s, l, m) /\ GoodHeaders(buffer) /\ \A k \in 1 .. m : st[k] = k
    BY <1>1, <1>2, <1>9, <2>1 DEF InFrame
  <2>3. m \in Nat
    <3>1. st \in Seq(Nat \ {0})
      BY <1>1, <1>9 DEF Typed
    <3> QED BY <2>1, <3>1, LengthNat
  <2>4. n # 0 <=> s # <<>>
    BY <1>2, <1>4
  <2>5. Framed(t, l, m)'
    BY <1>2, <1>3, <1>5, <2>2, <2>3, <2>4, FramedSent
  <2>6. GoodHeaders(buffer)'
    BY <1>7, <2>2 DEF GoodHeaders, Message
  <2>7. \A k \in 1 .. Len(started') : started'[k] = k
    BY <1>7, <1>9, <2>1, <2>2
  <2>8. Framed(buffer \o pipe, contentLength, Len(started))'
    BY <1>6, <1>7, <1>9, <2>1, <2>5 DEF Framed
  <2> QED BY <2>6, <2>7, <2>8 DEF InFrame
<1>12. Requests' /\ ServicesOf(working, responses, started, initialization, greeted)'
  <2>1. /\ RequestsOf(working', responses', started')
        /\ ServicesOf(working', responses', started', initialization', greeted')
    BY <1>7 DEF Kept, Requests, Services
  <2> QED BY <1>7, <2>1, SameScript
<1>13. Services'
  BY <1>7, <1>12 DEF Kept, Services, Counted
<1> QED BY <1>8, <1>10, <1>11, <1>12, <1>13 DEF Kept, Input

LEMMA DataKeeps == ASSUME Kept, NEW n \in 1 .. Len(pipe), Data(n) PROVE Kept'
<1>1. Typed /\ InOrder(buffer, pipe) /\ InFrame(buffer, pipe, unframed) /\ Counted
  BY DEF Kept, Input, Services
<1>2. PICK b, p, u, c, r, u2 :
          /\ b = buffer /\ p = pipe /\ u = unframed /\ c = SubSeq(p, 1, n) /\ r = From(p, n + 1)
          /\ u2 = (u \/ \E k \in 1 .. n : p[k].part = "header" /\ Message(p[k].of).frame # "good")
  OBVIOUS
<1>3. b \in Seq(Unit) /\ p \in Seq(Unit) /\ u \in BOOLEAN
  BY <1>1, <1>2 DEF Typed
<1>4. b \o c \in Seq(Unit) /\ r \in Seq(Unit) /\ InOrder(b \o c, r) /\ InFrame(b \o c, r, u2)
  <2>1. InOrder(b, p) /\ InFrame(b, p, u) /\ n \in 1 .. Len(p)
    BY <1>1, <1>2
  <2> QED BY <1>2, <1>3, <2>1, ChunkTaken, ZenonT(40)
<1>5. u2 \in BOOLEAN
  BY <1>2, <1>3
<1>6. pipe' = r /\ Proceed(b \o c, working, responses) /\ unframed' = u2 /\ UNCHANGED client
  BY <1>2 DEF Data
<1>7. /\ working \subseteq Job /\ responses \in Seq(Response)
      /\ RequestsOf(working, responses, started)
      /\ ServicesOf(working, responses, started, initialization, greeted)
  BY <1>1 DEF Kept, Requests, Services, Typed
<1> QED BY <1>1, <1>4, <1>5, <1>6, <1>7, TurnTaken DEF Kept

LEMMA DataCutKeeps == ASSUME Kept, NEW n \in 1 .. Len(pipe), DataCut(n) PROVE Kept'
<1>1. Typed /\ InOrder(buffer, pipe) /\ Counted
  BY DEF Kept, Input, Services
<1>2. PICK b, p, cut, c, r :
          /\ b = buffer /\ p = pipe /\ cut = [p[n] EXCEPT !.part = "cut"]
          /\ c = SubSeq(p, 1, n - 1) /\ r = From(p, n + 1)
  OBVIOUS
<1>3. b \in Seq(Unit) /\ p \in Seq(Unit)
  BY <1>1, <1>2 DEF Typed
<1>4. cut \in Unit /\ cut.part = "cut"
  <2>1. p[n] \in Unit
    BY <1>2, <1>3, ElementOfSeq
  <2> QED BY <1>2, <2>1 DEF Unit
<1>5. /\ b \o c \o <<cut>> \in Seq(Unit) /\ <<cut>> \o r \in Seq(Unit)
      /\ InOrder(b \o c \o <<cut>>, <<cut>> \o r)
  <2>1. InOrder(b, p) /\ n \in 1 .. Len(p)
    BY <1>1, <1>2
  <2> QED BY <1>2, <1>3, <1>4, <2>1, CutTaken
<1>6. pipe' = <<cut>> \o r /\ Proceed(b \o c \o <<cut>>, working, responses) /\ unframed' = TRUE /\ UNCHANGED client
  BY <1>2 DEF DataCut
<1>7. /\ working \subseteq Job /\ responses \in Seq(Response)
      /\ RequestsOf(working, responses, started)
      /\ ServicesOf(working, responses, started, initialization, greeted)
  BY <1>1 DEF Kept, Requests, Services, Typed
<1>8. InFrame(b \o c \o <<cut>>, <<cut>> \o r, TRUE) /\ TRUE \in BOOLEAN
  BY DEF InFrame
<1> QED BY <1>1, <1>5, <1>6, <1>7, <1>8, TurnTaken DEF Kept

\* A job that ends.
LEMMA EndKeeps ==
    ASSUME Kept, NEW w \in working, NEW result \in Results,
           Proceed(buffer, working \ {w}, writeResponse(w.of, result)), UNCHANGED <<client, pipe, unframed>>,
           result = "ok" /\ Message(w.of).method = "initialize" => initialization = "done",
           w.of \in greeted => result # "not initialized"
    PROVE  Kept'
<1>1. Typed /\ InOrder(buffer, pipe) /\ InFrame(buffer, pipe, unframed) /\ Counted /\ Requests /\ Services
  BY DEF Kept, Input, Services
<1>2. PICK others, written : others = working \ {w} /\ written = writeResponse(w.of, result)
  OBVIOUS
<1>3. /\ others \subseteq Job /\ written \in Seq(Response)
      /\ RequestsOf(others, written, started)
      /\ ServicesOf(others, written, started, initialization, greeted)
  BY <1>1, <1>2, JobDone
<1>4. PICK b, p, u : b = buffer /\ p = pipe /\ u = unframed
  OBVIOUS
<1>5. b \in Seq(Unit) /\ p \in Seq(Unit) /\ u \in BOOLEAN /\ InOrder(b, p) /\ InFrame(b, p, u)
  BY <1>1, <1>4 DEF Typed
<1>6. Proceed(b, others, written) /\ UNCHANGED client /\ pipe' = p /\ unframed' = u
  BY <1>2, <1>4
<1> QED BY <1>1, <1>3, <1>5, <1>6, TurnTaken DEF Kept

LEMMA WorkKeeps ==
    ASSUME Kept, NEW w \in working, Answer(w) \/ ToolReturns(w) \/ ToolFails(w)
    PROVE  Kept'
<1>1. w \in Job /\ w.result \in Results
  <2>1. w \in Job
    BY DEF Kept, Input, Typed
  <2> QED BY <2>1 DEF Job
<1>2. /\ Message(w.of).method = "initialize" => w.at = "initialize" \/ (w.at = "answer" /\ initialization = "done")
      /\ w.of \in greeted => w.result # "not initialized"
  BY DEF Kept, Services, ServicesOf
<1>3. CASE Answer(w)
  <2>1. PICK result : result = IF w.at = "initialize" /\ initialization = "failed" THEN "internal error" ELSE w.result
    OBVIOUS
  <2>2. result \in Results
    BY <1>1, <2>1 DEF Results
  <2>3. result = "ok" /\ Message(w.of).method = "initialize" => initialization = "done"
    BY <1>2, <1>3, <2>1 DEF Answer
  <2>4. w.of \in greeted => result # "not initialized"
    BY <1>2, <2>1
  <2>5. Proceed(buffer, working \ {w}, writeResponse(w.of, result)) /\ UNCHANGED <<client, pipe, unframed>>
    BY <1>3, <2>1 DEF Answer
  <2> QED BY <2>2, <2>3, <2>4, <2>5, EndKeeps
<1>4. CASE ToolReturns(w)
  <2>1. w.at = "tool" /\ Proceed(buffer, working \ {w}, writeResponse(w.of, w.result)) /\ UNCHANGED <<client, pipe, unframed>>
    BY <1>4 DEF ToolReturns
  <2>2. Message(w.of).method # "initialize"
    BY <1>2, <2>1
  <2> QED BY <1>1, <1>2, <2>1, <2>2, EndKeeps
<1>5. CASE ToolFails(w)
  <2>1. Proceed(buffer, working \ {w}, writeResponse(w.of, "tool error")) /\ UNCHANGED <<client, pipe, unframed>>
    BY <1>5 DEF ToolFails
  <2>2. "tool error" \in Results /\ "tool error" # "ok" /\ "tool error" # "not initialized"
    BY DEF Results
  <2> QED BY <2>1, <2>2, EndKeeps
<1> QED BY <1>3, <1>4, <1>5

LEMMA ServicesKeep == ASSUME Kept, NEW ok \in BOOLEAN, initializeServices(ok) PROVE Kept'
<1>1. /\ UNCHANGED <<client, pipe, buffer, contentLength, working, responses, started, unframed, initializations, greeted>>
      /\ initialization = "running" /\ initialization' \in {"done", "failed"}
  BY DEF initializeServices
<1>2. Input'
  BY <1>1 DEF Kept, Input, Typed, InOrder, InFrame, Ascends, StartedUp, Framed, GoodHeaders, Message, client
<1>3. Requests' /\ ServicesOf(working, responses, started, initialization, greeted)'
  <2>1. /\ RequestsOf(working', responses', started')
        /\ ServicesOf(working', responses', started', initialization, greeted')
    BY <1>1 DEF Kept, Requests, Services
  <2>2. ServicesOf(working', responses', started', initialization', greeted')
    BY <1>1, <2>1 DEF ServicesOf
  <2>3. script' = script
    BY <1>1 DEF client
  <2> QED BY <2>1, <2>2, <2>3, SameScript
<1>4. Counted'
  BY <1>1 DEF Kept, Services, Counted
<1> QED BY <1>2, <1>3, <1>4 DEF Kept, Services

LEMMA StillKept ==
    ASSUME Kept, UNCHANGED <<client, pipe, buffer, contentLength, initialization, working, responses, started, unframed,
                             initializations, greeted>>
    PROVE  Kept'
<1>1. Input'
  BY DEF Kept, Input, Typed, InOrder, InFrame, Ascends, StartedUp, Framed, GoodHeaders, Message, client
<1>2. Requests' /\ ServicesOf(working, responses, started, initialization, greeted)'
  <2>1. /\ RequestsOf(working', responses', started')
        /\ ServicesOf(working', responses', started', initialization', greeted')
    BY DEF Kept, Requests, Services
  <2>2. script' = script
    BY DEF client
  <2> QED BY <2>1, <2>2, SameScript
<1>3. Counted'
  BY DEF Kept, Services, Counted
<1> QED BY <1>1, <1>2, <1>3 DEF Kept, Services

LEMMA NextKeeps == Kept /\ [Next]_vars => Kept'
<1> SUFFICES ASSUME Kept, [Next]_vars PROVE Kept'
  OBVIOUS
<1>1. CASE Send
  BY <1>1, SendKeeps
<1>2. CASE Receive
  BY <1>2, DataKeeps, DataCutKeeps DEF Receive
<1>3. CASE Work
  BY <1>3, WorkKeeps DEF Work
<1>4. CASE \E ok \in BOOLEAN : initializeServices(ok)
  BY <1>4, ServicesKeep
<1>5. CASE Exit
  <2>1. UNCHANGED <<client, pipe, buffer, contentLength, initialization, working, responses, started, unframed,
                    initializations, greeted>>
    BY <1>5 DEF Exit
  <2> QED BY <2>1, StillKept
<1>6. CASE UNCHANGED vars
  <2>1. UNCHANGED <<client, pipe, buffer, contentLength, initialization, working, responses, started, unframed,
                    initializations, greeted>>
    BY <1>6 DEF vars, client
  <2> QED BY <2>1, StillKept
<1> QED BY <1>1, <1>2, <1>3, <1>4, <1>5, <1>6 DEF Next

LEMMA AlwaysKept == Spec => []Kept
<1>1. Init => Kept
  BY KeptInit
<1>2. Kept /\ [Next]_vars => Kept'
  BY NextKeeps
<1> QED BY <1>1, <1>2, PTL DEF Spec

-----------------------------------------------------------------------------
(* Theorems *)

\* Requests are started in the order in which they were sent and each of them once, for any messages, chunks and overlaps;
\* as long as the framing is right none is left out.
THEOREM InOrderAlways == Spec => []StartedInOrder
<1>1. Kept => StartedInOrder
  <2> SUFFICES ASSUME Kept PROVE StartedInOrder
    OBVIOUS
  <2>1. started \in Seq(Nat \ {0}) /\ StartedUp(contentLength, started) /\ InFrame(buffer, pipe, unframed)
    BY DEF Kept, Input, Typed, InOrder
  <2>2. DOMAIN started = 1 .. Len(started) /\ Len(started) \in Nat
    BY <2>1, LenProperties
  <2>3. ASSUME NEW j \in DOMAIN started, NEW k \in DOMAIN started, j < k PROVE started[j] < started[k]
    <3>1. j \in 1 .. k - 1 /\ k \in 1 .. Len(started)
      BY <2>2, <2>3
    <3> QED BY <2>1, <3>1 DEF StartedUp
  <2>4. ~unframed => \A k \in DOMAIN started : started[k] = k
    BY <2>1, <2>2 DEF InFrame
  <2> QED BY <2>3, <2>4 DEF StartedInOrder
<1> QED BY <1>1, AlwaysKept, PTL

\* The services are made once, and no request that is started after a successful answer to initialize is refused for want of
\* them, however many initialize requests overlap.
THEOREM ServicesOnce == Spec => []InitializedForAll
<1>1. Kept => InitializedForAll
  <2> SUFFICES ASSUME Kept PROVE InitializedForAll
    OBVIOUS
  <2>1. initializations <= 1
    BY DEF Kept, Services, Counted
  <2>2. \A k \in 1 .. Len(responses) : responses[k].id \in greeted => responses[k].result # "not initialized"
    BY DEF Kept, Services, ServicesOf
  <2>3. DOMAIN responses = 1 .. Len(responses)
    BY LenProperties DEF Kept, Input, Typed
  <2> QED BY <2>1, <2>2, <2>3 DEF InitializedForAll
<1> QED BY <1>1, AlwaysKept, PTL

\* A request that wants an answer gets it once, when its run of the handler is done with it, and others get none.
THEOREM AnsweredExactly == Spec => []AnsweredOnce
<1>1. Kept => AnsweredOnce
  <2> SUFFICES ASSUME Kept, NEW i \in 1 .. Len(script)
               PROVE  Cardinality({k \in DOMAIN responses : responses[k].id = i})
                      = IF Message(i).id /\ i \in {started[k] : k \in DOMAIN started} \ Waiting THEN 1 ELSE 0
    BY DEF AnsweredOnce
  <2>1. DOMAIN responses = 1 .. Len(responses) /\ DOMAIN started = 1 .. Len(started)
    <3>1. responses \in Seq(Response) /\ started \in Seq(Nat \ {0})
      BY DEF Kept, Input, Typed
    <3> QED BY <3>1, LenProperties
  <2>2. i # 0
    BY DEF Kept, Input, Typed
  <2>3. PICK As : As = {k \in DOMAIN responses : responses[k].id = i}
    OBVIOUS
  <2>4. i \in {started[k] : k \in DOMAIN started} \ Waiting <=> i \in Begun(started) /\ \A w \in working : w.of # i
    BY <2>1 DEF Begun, Waiting
  <2>5. CASE Message(i).id /\ i \in Begun(started) /\ \A w \in working : w.of # i
    <3>1. PICK k \in DOMAIN responses : responses[k].id = i
      BY <2>1, <2>5 DEF Kept, Requests, RequestsOf
    <3>2. \A j \in DOMAIN responses : responses[j].id = i => j = k
      BY <2>1, <2>2, <3>1 DEF Kept, Requests, RequestsOf
    <3>3. As = {k}
      BY <2>3, <3>1, <3>2
    <3> QED BY <2>3, <2>4, <2>5, <3>3, FS_Singleton
  <2>6. CASE ~(Message(i).id /\ i \in Begun(started) /\ \A w \in working : w.of # i)
    <3>1. \A k \in DOMAIN responses : responses[k].id # i
      BY <2>1, <2>2, <2>6 DEF Kept, Requests, RequestsOf
    <3>2. As = {}
      BY <2>3, <3>1
    <3> QED BY <2>3, <2>4, <2>6, <3>2, FS_EmptySet
  <2> QED BY <2>5, <2>6
<1> QED BY <1>1, AlwaysKept, PTL
=============================================================================
