--------------------------- MODULE WsFraming_proof ---------------------------
(* Facts about the framing both Envoy filters share, for any number of     *)
(* frames and however their bytes are cut: what a buffer of units holds,   *)
(* how far the frame loop gets on it, and that what it sends on is what    *)
(* the references over the client's frames ask for.                        *)
EXTENDS WsFraming, Selection_proof

(* The frames after the first m, h of them. *)
Following(m, h) == [k \in 1..h |-> m + k]

-----------------------------------------------------------------------------
(* Units. *)

(* A unit at an even position is the second one of its frame. *)
LEMMA SecondUnit ==
    ASSUME NEW u \in Unit, NEW q \in Int,
           UnitsPerItem * q = UnitsPerItem * u.item - (IF u.last THEN 0 ELSE 1)
    PROVE  u.item = q
<1>1. u.item \in Nat
  BY DEF Unit
<1>2. CASE u.last
  BY <1>1, <1>2 DEF UnitsPerItem
<1>3. CASE ~u.last
  BY <1>1, <1>3 DEF UnitsPerItem
<1> QED BY <1>2, <1>3

(* What follows in the stream keeps a buffer in line with it. *)
LEMMA AlignedConcat ==
    ASSUME NEW s \in Seq(Unit), NEW t \in Seq(Unit), NEW at \in Int,
           Aligned(s, at), Aligned(t, at + Len(s))
    PROVE  Aligned(s \o t, at) /\ s \o t \in Seq(Unit) /\ Len(s \o t) = Len(s) + Len(t)
<1> DEFINE place(u) == UnitsPerItem * u.item - (IF u.last THEN 0 ELSE 1)
<1>1. PICK u : u = s \o t /\ u \in Seq(Unit)
  <2>1. s \o t \in Seq(Unit)
    OBVIOUS
  <2> QED BY <2>1
<1>2. Len(u) = Len(s) + Len(t)
  BY <1>1
<1>3. /\ \A k \in 1..Len(s) : at + k = place(s[k])
      /\ \A k \in 1..Len(t) : at + Len(s) + k = place(t[k])
  BY DEF Aligned
<1> HIDE DEF place
<1>4. ASSUME NEW k \in 1..Len(u) PROVE at + k = place(u[k])
  <2>1. CASE k <= Len(s)
    <3>1. u[k] = s[k] /\ k \in 1..Len(s)
      BY <1>1, <1>2, <2>1
    <3> QED BY <1>3, <3>1
  <2>2. CASE k > Len(s)
    <3>1. u[k] = t[k - Len(s)] /\ k - Len(s) \in 1..Len(t)
      BY <1>1, <1>2, <2>2
    <3>2. (at + Len(s)) + (k - Len(s)) = at + k
      OBVIOUS
    <3> QED BY <1>3, <3>1, <3>2
  <2> QED BY <2>1, <2>2
<1>5. Aligned(u, at)
  BY <1>4 DEF Aligned, place
<1> QED BY <1>1, <1>2, <1>5

(* A part of a buffer is in line with the stream further on. *)
LEMMA AlignedSlice ==
    ASSUME NEW s \in Seq(Unit), NEW at \in Int, Aligned(s, at),
           NEW m \in 1..(Len(s) + 1), NEW n \in 0..Len(s), NEW p, p = SubSeq(s, m, n)
    PROVE  /\ Aligned(p, at + m - 1)
           /\ p \in Seq(Unit) /\ Len(p) = IF m <= n THEN n - m + 1 ELSE 0
<1> DEFINE place(u) == UnitsPerItem * u.item - (IF u.last THEN 0 ELSE 1)
<1>1. /\ p \in Seq(Unit) /\ Len(p) = (IF m <= n THEN n - m + 1 ELSE 0)
      /\ \A i \in 1..Len(p) : p[i] = s[m + i - 1]
  BY Slice
<1>2. \A k \in 1..Len(s) : at + k = place(s[k])
  BY DEF Aligned
<1> HIDE DEF place
<1>3. ASSUME NEW k \in 1..Len(p) PROVE (at + m - 1) + k = place(p[k])
  <2>1. p[k] = s[m + k - 1] /\ m + k - 1 \in 1..Len(s)
    BY <1>1
  <2>2. at + (m + k - 1) = (at + m - 1) + k
    OBVIOUS
  <2> QED BY <1>2, <2>1, <2>2
<1>4. Aligned(p, at + m - 1)
  BY <1>3 DEF Aligned, place
<1> QED BY <1>1, <1>4

(* The units of the next frame the client sends. *)
LEMMA UnitsAligned ==
    ASSUME NEW i \in Nat
    PROVE  /\ UnitsOf(i) \in Seq(Unit) /\ Len(UnitsOf(i)) = UnitsPerItem
           /\ Aligned(UnitsOf(i), UnitsPerItem * i - UnitsPerItem)
<1>1. PICK u : u = [item |-> i, last |-> FALSE] /\ u \in Unit
  <2>1. [item |-> i, last |-> FALSE] \in Unit
    BY DEF Unit
  <2> QED BY <2>1
<1>2. PICK v : v = [item |-> i, last |-> TRUE] /\ v \in Unit
  <2>1. [item |-> i, last |-> TRUE] \in Unit
    BY DEF Unit
  <2> QED BY <2>1
<1>3. u.item = i /\ v.item = i /\ ~u.last /\ v.last
  BY <1>1, <1>2
<1>4. PICK w : w = <<u, v>> /\ w \in Seq(Unit)
  <2>1. <<u, v>> \in Seq(Unit)
    BY <1>1, <1>2
  <2> QED BY <2>1
<1>5. Len(w) = 2 /\ w[1] = u /\ w[2] = v
  BY <1>4
<1>6. ASSUME NEW k \in 1..2
      PROVE  (2 * i - 2) + k = 2 * w[k].item - (IF w[k].last THEN 0 ELSE 1)
  <2>1. CASE k = 1
    BY <1>3, <1>5, <2>1
  <2>2. CASE k = 2
    BY <1>3, <1>5, <2>2
  <2> QED BY <2>1, <2>2
<1>7. Aligned(w, UnitsPerItem * i - UnitsPerItem)
  BY <1>5, <1>6 DEF Aligned, UnitsPerItem
<1>8. UnitsOf(i) = w
  BY <1>1, <1>2, <1>4 DEF UnitsOf
<1> QED BY <1>4, <1>5, <1>7, <1>8 DEF UnitsPerItem

(* What has arrived is given by what the buffer holds of a frame and what  *)
(* is on its way.                                                          *)
LEMMA ArrivedIs ==
    ASSUME NEW fs \in Seq(Frame), NEW units \in Seq(Unit), NEW m \in Nat, NEW b \in Nat,
           b < UnitsPerItem,
           UnitsPerItem * m + b + Len(units) = UnitsPerItem * Len(fs)
    PROVE  Arrived(fs, units) = m
BY DEF Arrived, UnitsPerItem

(* What has arrived is some of the frames. *)
LEMMA ArrivedType ==
    ASSUME NEW fs \in Seq(Frame), NEW units \in Seq(Unit)
    PROVE  Arrived(fs, units) \in 0..Len(fs)
BY DEF Arrived, UnitsPerItem

(* A frame the client may send goes to the end of what is on its way.      *)
LEMMA SendFollows ==
    ASSUME NEW fs \in Seq(Frame), NEW units \in Seq(Unit), NEW f \in Frame,
           CloseIsLast(fs), MaySend(fs, f),
           Ending(fs, units)
    PROVE  LET gs == Append(fs, f)
               more == units \o UnitsOf(Len(fs) + 1)
           IN
           /\ gs \in Seq(Frame) /\ CloseIsLast(gs)
           /\ more \in Seq(Unit) /\ Ending(gs, more)
           /\ Arrived(gs, more) = Arrived(fs, units)
           /\ \A n \in Nat, buf \in Seq(Unit) :
                Between(fs, n, buf, units) => Between(gs, n, buf, more)
<1> DEFINE gs == Append(fs, f)
           more == units \o UnitsOf(Len(fs) + 1)
<1>1. gs \in Seq(Frame) /\ Len(gs) = Len(fs) + 1 /\ \A i \in 1..Len(fs) : gs[i] = fs[i]
  OBVIOUS
<1>2. CloseIsLast(gs)
  <2>1. \A i \in 1..Len(fs) : fs[i].op # "close"
    BY DEF MaySend, HasClosed
  <2> QED BY <1>1, <2>1 DEF CloseIsLast
<1>3. PICK i \in Nat : i = Len(fs) + 1
  OBVIOUS
<1>4. PICK u \in Seq(Unit) : u = UnitsOf(i)
  BY UnitsAligned
<1>5. Len(u) = UnitsPerItem /\ Aligned(u, UnitsPerItem * i - UnitsPerItem)
  BY <1>4, UnitsAligned
<1>6. PICK at \in Int : at = UnitsPerItem * Len(fs) - Len(units)
  <2>1. UnitsPerItem * Len(fs) - Len(units) \in Int
    BY DEF UnitsPerItem
  <2> QED BY <2>1
<1>7. UnitsPerItem * i - UnitsPerItem = at + Len(units)
  BY <1>3, <1>6 DEF UnitsPerItem
<1>8. /\ Aligned(units \o u, at) /\ units \o u \in Seq(Unit)
      /\ Len(units \o u) = Len(units) + Len(u)
  <2>1. Aligned(units, at) /\ Aligned(u, at + Len(units))
    BY <1>5, <1>6, <1>7 DEF Ending
  <2> QED BY <2>1, AlignedConcat
<1>9. more = units \o u
  BY <1>3, <1>4
<1> HIDE DEF gs, more
<1>10. Len(more) = Len(units) + UnitsPerItem
  BY <1>5, <1>8, <1>9
<1>11. PICK a \in Nat, b \in Nat : a = Len(fs) /\ b = Len(units)
  OBVIOUS
<1>12. /\ Len(gs) = a + 1 /\ Len(more) = b + 2 /\ at = 2 * a - b /\ b <= 2 * a
       /\ 2 * (a + 1) - (b + 2) = 2 * a - b
  BY <1>1, <1>6, <1>10, <1>11 DEF UnitsPerItem, Ending
<1>13. UnitsPerItem * Len(gs) - Len(more) = at
  BY <1>12 DEF UnitsPerItem
<1>14. Arrived(gs, more) = Arrived(fs, units)
  <2>1. Arrived(gs, more) = (2 * (a + 1) - (b + 2)) \div 2
    <3>1. ~(2 * (a + 1) < b + 2)
      BY <1>12
    <3>2. Arrived(gs, more) = IF 2 * (a + 1) < b + 2 THEN 0 ELSE (2 * (a + 1) - (b + 2)) \div 2
      BY <1>12, Zenon DEF Arrived, UnitsPerItem
    <3> QED BY <3>1, <3>2
  <2>2. Arrived(fs, units) = (2 * a - b) \div 2
    BY <1>12, <1>11 DEF Arrived, UnitsPerItem
  <2> QED BY <1>12, <2>1, <2>2
<1>15. Len(more) <= UnitsPerItem * Len(gs)
  BY <1>12 DEF UnitsPerItem
<1>16. Ending(gs, more)
  BY <1>8, <1>9, <1>13, <1>15 DEF Ending
<1>17. ASSUME NEW n \in Nat, NEW buf \in Seq(Unit), Between(fs, n, buf, units)
       PROVE  Between(gs, n, buf, more)
  <2>1. PICK l \in Nat : l = Len(buf)
    OBVIOUS
  <2>2. 2 * n + l + b = 2 * a
    BY <1>11, <1>17, <2>1 DEF Between, UnitsPerItem
  <2>3. 2 * n + l + (b + 2) = 2 * (a + 1)
    BY <2>2
  <2> QED BY <1>12, <1>17, <2>1, <2>3 DEF Between, UnitsPerItem
<1>18. more \in Seq(Unit)
  BY <1>8, <1>9
<1> QED BY <1>1, <1>2, <1>14, <1>16, <1>17, <1>18, Zenon DEF gs, more

-----------------------------------------------------------------------------
(* The frame loop. *)

(* The frames that are whole in a buffer that starts where the frame m     *)
(* ended: those that follow it.                                            *)
LEMMA WholeFramesFollow ==
    ASSUME NEW buf \in Seq(Unit), NEW m \in Nat, Aligned(buf, UnitsPerItem * m),
           NEW h \in Nat, h = Len(buf) \div UnitsPerItem
    PROVE  WholeFrames(buf) = Following(m, h)
<1>1. ASSUME NEW k \in 1..h PROVE buf[UnitsPerItem * k].item = m + k
  <2>1. UnitsPerItem * k \in 1..Len(buf) /\ m + k \in Int
    BY DEF UnitsPerItem
  <2>2. UnitsPerItem * m + UnitsPerItem * k = UnitsPerItem * (m + k)
    BY DEF UnitsPerItem
  <2>3. PICK u \in Unit : u = buf[UnitsPerItem * k]
    BY <2>1
  <2>4. UnitsPerItem * (m + k) = UnitsPerItem * u.item - (IF u.last THEN 0 ELSE 1)
    BY <2>1, <2>2, <2>3 DEF Aligned
  <2> QED BY <2>1, <2>3, <2>4, SecondUnit
<1> QED BY <1>1 DEF WholeFrames, Following

(* The loop handles all of them, because only the last frame is a Close,   *)
(* and leaves at most the first unit of another frame.                     *)
LEMMA HandledIsNext ==
    ASSUME NEW fs \in Seq(Frame), CloseIsLast(fs),
           NEW buf \in Seq(Unit), NEW m \in Nat, Aligned(buf, UnitsPerItem * m),
           UnitsPerItem * m + Len(buf) <= UnitsPerItem * Len(fs)
    PROVE  \E h \in Nat :
             /\ h = Len(buf) \div UnitsPerItem /\ m + h <= Len(fs)
             /\ Handled(fs, buf) = Following(m, h)
             /\ Rest(buf, Handled(fs, buf)) \in Seq(Unit)
             /\ Len(Rest(buf, Handled(fs, buf))) = Len(buf) - UnitsPerItem * h
             /\ Aligned(Rest(buf, Handled(fs, buf)), UnitsPerItem * (m + h))
             /\ HasClose(fs, Handled(fs, buf)) <=>
                  \E i \in (m + 1)..(m + h) : fs[i].op = "close"
<1>1. PICK h \in Nat : h = Len(buf) \div UnitsPerItem
  BY DEF UnitsPerItem
<1>2. UnitsPerItem * h <= Len(buf) /\ m + h <= Len(fs)
  BY <1>1 DEF UnitsPerItem
<1>3. PICK whole : whole = WholeFrames(buf) /\ whole = Following(m, h)
  BY <1>1, WholeFramesFollow
<1>4. /\ whole \in Seq(1..Len(fs)) /\ Len(whole) = h
      /\ \A k \in 1..h : whole[k] = m + k
  BY <1>2, <1>3 DEF Following
<1>5. Handled(fs, buf) = whole
  <2> DEFINE closes(n) == fs[whole[n]].op = "close"
             P(n) == /\ \A k \in 1..(n - 1) : ~closes(k)
                     /\ n < Len(whole) => n > 0 /\ closes(n)
  <2>1. ASSUME NEW n \in 1..h, closes(n) PROVE n = h
    <3>1. fs[m + n].op = "close" /\ m + n \in 1..Len(fs)
      BY <1>2, <1>4, <2>1
    <3>2. m + n = Len(fs)
      BY <3>1 DEF CloseIsLast
    <3> QED BY <1>2, <3>2
  <2>2. P(h) /\ h \in 0..Len(whole)
    BY <1>4, <2>1
  <2>3. ASSUME NEW n \in 0..Len(whole), P(n) PROVE n = h
    BY <1>4, <2>1, <2>3
  <2>4. (CHOOSE n \in 0..Len(whole) : P(n)) = h
    <3> HIDE DEF P
    <3> QED BY <2>2, <2>3
  <2>5. Handled(fs, buf) = SubSeq(whole, 1, CHOOSE n \in 0..Len(whole) : P(n))
    BY <1>3, Zenon DEF Handled
  <2>6. SubSeq(whole, 1, h) = whole
    BY <1>4, SubSeqFull
  <2> QED BY <2>4, <2>5, <2>6
<1>6. PICK rest : rest = SubSeq(buf, UnitsPerItem * h + 1, Len(buf))
  OBVIOUS
<1>7. Rest(buf, Handled(fs, buf)) = rest
  BY <1>4, <1>5, <1>6 DEF Rest
<1>8. PICK at \in Int, j \in 1..(Len(buf) + 1), l \in 0..Len(buf) :
        at = UnitsPerItem * m /\ j = UnitsPerItem * h + 1 /\ l = Len(buf)
  <2>1. /\ UnitsPerItem * m \in Int /\ UnitsPerItem * h + 1 \in 1..(Len(buf) + 1)
        /\ Len(buf) \in 0..Len(buf)
    BY <1>2 DEF UnitsPerItem
  <2> QED BY <2>1
<1>9. /\ Aligned(rest, at + j - 1) /\ rest \in Seq(Unit)
      /\ Len(rest) = IF j <= l THEN l - j + 1 ELSE 0
  <2>1. Aligned(buf, at) /\ rest = SubSeq(buf, j, l)
    BY <1>6, <1>8
  <2> QED BY <2>1, AlignedSlice
<1>10. /\ at + j - 1 = UnitsPerItem * (m + h)
       /\ Len(rest) = Len(buf) - UnitsPerItem * h
  <2>1. j - 1 <= l /\ at + j - 1 = UnitsPerItem * (m + h) /\ l - j + 1 = l - UnitsPerItem * h
    BY <1>2, <1>8 DEF UnitsPerItem
  <2>2. Len(rest) = l - j + 1
    <3>1. CASE j <= l
      BY <1>9, <3>1
    <3>2. CASE ~(j <= l)
      BY <1>9, <2>1, <3>2
    <3> QED BY <3>1, <3>2
  <2> QED BY <1>8, <2>1, <2>2
<1>12. HasClose(fs, whole) <=> \E i \in (m + 1)..(m + h) : fs[i].op = "close"
  <2>1. ASSUME HasClose(fs, whole) PROVE \E i \in (m + 1)..(m + h) : fs[i].op = "close"
    <3>1. PICK k \in 1..h : fs[whole[k]].op = "close"
      BY <1>4, <2>1 DEF HasClose
    <3>2. m + k \in (m + 1)..(m + h) /\ fs[m + k].op = "close"
      BY <1>4, <3>1
    <3> QED BY <3>2
  <2>2. ASSUME NEW i \in (m + 1)..(m + h), fs[i].op = "close" PROVE HasClose(fs, whole)
    <3>1. i - m \in 1..h /\ whole[i - m] = i
      BY <1>4
    <3> QED BY <1>4, <2>2, <3>1 DEF HasClose
  <2> QED BY <2>1, <2>2
<1> QED BY <1>1, <1>2, <1>3, <1>5, <1>7, <1>8, <1>9, <1>10, <1>12

-----------------------------------------------------------------------------
(* What is sent on. *)

Data == {"text", "binary"}
ProtoOf(fs) == [i \in 1..Len(fs) |-> FrameProto(fs, i)]
PongFrame == {o \in ClientFrame : o.op = "pong"}
PongOf(fs) == [i \in 1..Len(fs) |-> Pong(i)]

(* The references in the terms the loop uses. *)
LEMMA References ==
    ASSUME NEW fs, NEW n
    PROVE  /\ DataAmong(fs, n) = Each(Keep(Upto(n), At(fs, Data)), ProtoOf(fs))
           /\ PongsFor(fs, n) = Each(Keep(Upto(n), At(fs, {"ping"})), PongOf(fs))
BY DEF DataAmong, PongsFor, FrameProto, Pong, ProtoOf, PongOf, Data

(* The same for the frames handled in one chunk. *)
LEMMA SentOn ==
    ASSUME NEW fs, NEW items
    PROVE  /\ Forwarded(fs, items) = Each(Keep(items, At(fs, Data)), ProtoOf(fs))
           /\ Pongs(fs, items) = Each(Keep(items, At(fs, {"ping"})), PongOf(fs))
BY DEF Forwarded, Pongs, ProtoOf, PongOf, Data

(* The frames up to m + h are those up to m and the h that follow. *)
LEMMA UptoConcat ==
    ASSUME NEW m \in Nat, NEW h \in Nat, NEW N \in Nat, m + h <= N
    PROVE  /\ Upto(m + h) = Upto(m) \o Following(m, h)
           /\ Upto(m) \in Seq(1..N) /\ Following(m, h) \in Seq(1..N)
<1>1. PICK u \in Seq(1..N) : u = Upto(m)
  <2>1. Upto(m) \in Seq(1..N)
    BY DEF Upto
  <2> QED BY <2>1
<1>2. PICK v \in Seq(1..N) : v = Following(m, h)
  <2>1. Following(m, h) \in Seq(1..N)
    BY DEF Following
  <2> QED BY <2>1
<1>3. PICK w \in Seq(1..N) : w = Upto(m + h)
  <2>1. Upto(m + h) \in Seq(1..N)
    BY DEF Upto
  <2> QED BY <2>1
<1>4. /\ Len(u) = m /\ Len(v) = h /\ Len(w) = m + h
      /\ \A i \in 1..m : u[i] = i
      /\ \A i \in 1..h : v[i] = m + i
      /\ \A i \in 1..(m + h) : w[i] = i
  BY <1>1, <1>2, <1>3 DEF Upto, Following
<1>5. PICK x \in Seq(1..N) : x = u \o v
  <2>1. u \o v \in Seq(1..N)
    OBVIOUS
  <2> QED BY <2>1
<1>6. Len(x) = m + h
  BY <1>4, <1>5
<1>7. ASSUME NEW i \in 1..(m + h) PROVE x[i] = w[i]
  <2>1. CASE i <= m
    <3>1. i \in 1..Len(u) /\ x[i] = u[i]
      BY <1>4, <1>5, <2>1
    <3> QED BY <1>4, <2>1, <3>1
  <2>2. CASE i > m
    <3>1. i - m \in 1..h /\ x[i] = v[i - m]
      BY <1>4, <1>5, <2>2
    <3> QED BY <1>4, <3>1
  <2> QED BY <2>1, <2>2
<1>8. x = w
  BY <1>4, <1>6, <1>7, SeqEqual
<1> QED BY <1>1, <1>2, <1>3, <1>5, <1>8

(* The types of what is sent on. *)
LEMMA SentOnType ==
    ASSUME NEW fs \in Seq(Frame), NEW items \in Seq(1..Len(fs))
    PROVE  /\ Forwarded(fs, items) \in Seq(ForwardedFrame)
           /\ Pongs(fs, items) \in Seq(PongFrame)
<1>1. ProtoOf(fs) \in [1..Len(fs) -> ForwardedFrame]
  BY DEF ProtoOf, FrameProto, ForwardedFrame
<1>2. PongOf(fs) \in [1..Len(fs) -> PongFrame]
  BY DEF PongOf, Pong, ClientFrame, PongFrame
<1>3. /\ Keep(items, At(fs, Data)) \in Seq(1..Len(fs))
      /\ Keep(items, At(fs, {"ping"})) \in Seq(1..Len(fs))
  BY KeepType
<1>4. Each(Keep(items, At(fs, Data)), ProtoOf(fs)) \in Seq(ForwardedFrame)
  BY <1>1, <1>3, EachType
<1>5. Each(Keep(items, At(fs, {"ping"})), PongOf(fs))
        \in Seq(PongFrame)
  BY <1>2, <1>3, EachType
<1> QED BY <1>4, <1>5, SentOn, Zenon

(* The images of the chosen positions up to m + h are those up to m, then *)
(* those of the h that follow.                                             *)
LEMMA ChosenFollows ==
    ASSUME NEW m \in Nat, NEW h \in Nat, NEW K, NEW f
    PROVE  Each(Keep(Upto(m + h), K), f)
             = Each(Keep(Upto(m), K), f) \o Each(Keep(Following(m, h), K), f)
<1>1. PICK n, S : n = m + h /\ n \in Nat /\ S = 1..n
  OBVIOUS
<1>2. /\ Upto(m + h) = Upto(m) \o Following(m, h)
      /\ Upto(m) \in Seq(S) /\ Following(m, h) \in Seq(S)
  <2>1. m + h <= n
    BY <1>1
  <2> QED BY <1>1, <2>1, UptoConcat
<1>3. PICK u, v : u = Upto(m) /\ v = Following(m, h)
  OBVIOUS
<1>4. u \in Seq(S) /\ v \in Seq(S) /\ Upto(m + h) = u \o v
  BY <1>2, <1>3
<1>5. Each(Keep(u \o v, K), f) = Each(Keep(u, K), f) \o Each(Keep(v, K), f)
  BY <1>4, ChosenConcat
<1> QED BY <1>3, <1>4, <1>5, Zenon

(* Handling the frames that follow the first m makes the references for m *)
(* those for m + h.                                                       *)
LEMMA SendingFollows ==
    ASSUME NEW fs, NEW m \in Nat, NEW h \in Nat
    PROVE  /\ DataAmong(fs, m + h) = DataAmong(fs, m) \o Forwarded(fs, Following(m, h))
           /\ PongsFor(fs, m + h) = PongsFor(fs, m) \o Pongs(fs, Following(m, h))
<1>1. \A K, f : Each(Keep(Upto(m + h), K), f)
                 = Each(Keep(Upto(m), K), f) \o Each(Keep(Following(m, h), K), f)
  BY ChosenFollows
<1>2. /\ \A n : DataAmong(fs, n) = Each(Keep(Upto(n), At(fs, Data)), ProtoOf(fs))
      /\ \A n : PongsFor(fs, n) = Each(Keep(Upto(n), At(fs, {"ping"})), PongOf(fs))
  BY References, Zenon
<1>3. /\ \A items : Forwarded(fs, items) = Each(Keep(items, At(fs, Data)), ProtoOf(fs))
      /\ \A items : Pongs(fs, items) = Each(Keep(items, At(fs, {"ping"})), PongOf(fs))
  BY SentOn, Zenon
<1>4. DataAmong(fs, m + h) = DataAmong(fs, m) \o Forwarded(fs, Following(m, h))
  <2>1. Each(Keep(Upto(m + h), At(fs, Data)), ProtoOf(fs))
          = Each(Keep(Upto(m), At(fs, Data)), ProtoOf(fs))
              \o Each(Keep(Following(m, h), At(fs, Data)), ProtoOf(fs))
    BY <1>1, Zenon
  <2> QED BY <1>2, <1>3, <2>1, Zenon
<1>5. PongsFor(fs, m + h) = PongsFor(fs, m) \o Pongs(fs, Following(m, h))
  <2>1. Each(Keep(Upto(m + h), At(fs, {"ping"})), PongOf(fs))
          = Each(Keep(Upto(m), At(fs, {"ping"})), PongOf(fs))
              \o Each(Keep(Following(m, h), At(fs, {"ping"})), PongOf(fs))
    BY <1>1, Zenon
  <2> QED BY <1>2, <1>3, <2>1, Zenon
<1> QED BY <1>4, <1>5

(* What the client sends later changes nothing for the frames before. *)
LEMMA ReferencesKept ==
    ASSUME NEW fs \in Seq(Frame), NEW f \in Frame, NEW n \in 0..Len(fs)
    PROVE  /\ DataAmong(Append(fs, f), n) = DataAmong(fs, n)
           /\ PongsFor(Append(fs, f), n) = PongsFor(fs, n)
<1>1. PICK gs : gs = Append(fs, f) /\ gs \in Seq(Frame)
  <2>1. Append(fs, f) \in Seq(Frame)
    OBVIOUS
  <2> QED BY <2>1
<1>2. Len(gs) = Len(fs) + 1 /\ \A i \in 1..Len(fs) : gs[i] = fs[i]
  BY <1>1
<1>3. PICK u \in Seq(1..Len(fs)) : u = Upto(n)
  <2>1. Upto(n) \in Seq(1..Len(fs))
    BY DEF Upto
  <2> QED BY <2>1
<1>4. ASSUME NEW ops PROVE Keep(u, At(gs, ops)) = Keep(u, At(fs, ops))
  <2>1. \A i \in 1..Len(fs) : i \in At(gs, ops) <=> i \in At(fs, ops)
    BY <1>2 DEF At
  <2> QED BY <2>1, KeepAgree
<1>5. ASSUME NEW ops
      PROVE  /\ Each(Keep(u, At(fs, ops)), ProtoOf(gs)) = Each(Keep(u, At(fs, ops)), ProtoOf(fs))
             /\ Each(Keep(u, At(fs, ops)), PongOf(gs)) = Each(Keep(u, At(fs, ops)), PongOf(fs))
  <2>1. PICK S : S = 1..Len(fs)
    OBVIOUS
  <2>2. PICK k \in Seq(S) : k = Keep(u, At(fs, ops))
    BY <2>1, KeepType
  <2>3. PICK p, q : p = ProtoOf(gs) /\ q = ProtoOf(fs)
    OBVIOUS
  <2>4. PICK v, w : v = PongOf(gs) /\ w = PongOf(fs)
    OBVIOUS
  <2>5. \A i \in S : p[i] = q[i]
    BY <1>2, <2>1, <2>3 DEF ProtoOf, FrameProto
  <2>6. \A i \in S : v[i] = w[i]
    BY <1>2, <2>1, <2>4 DEF PongOf
  <2>7. Each(k, p) = Each(k, q)
    BY <2>5, EachAgree
  <2>8. Each(k, v) = Each(k, w)
    BY <2>6, EachAgree
  <2> QED BY <2>2, <2>3, <2>4, <2>7, <2>8, Zenon
<1> QED BY <1>1, <1>3, <1>4, <1>5, References

-----------------------------------------------------------------------------
(* A chunk, from the network through the buffer and the loop. *)

(* Taking n units from what is on its way to the end of a buffer. *)
LEMMA ChunkTaken ==
    ASSUME NEW fs \in Seq(Frame), NEW units \in Seq(Unit), NEW kept \in Seq(Unit),
           NEW m \in Nat, NEW n \in 0..Len(units),
           Between(fs, m, kept, units), Ending(fs, units)
    PROVE  LET buf == kept \o SubSeq(units, 1, n)
               more == SubSeq(units, n + 1, Len(units))
           IN  /\ buf \in Seq(Unit) /\ more \in Seq(Unit)
               /\ Between(fs, m, buf, more) /\ Ending(fs, more)
<1> DEFINE buf == kept \o SubSeq(units, 1, n)
           more == SubSeq(units, n + 1, Len(units))
<1>0. PICK total \in Int, at \in Int :
        total = UnitsPerItem * Len(fs) /\ at = UnitsPerItem * m
  <2>1. UnitsPerItem * Len(fs) \in Int /\ UnitsPerItem * m \in Int
    BY DEF UnitsPerItem
  <2> QED BY <2>1
<1>1. PICK N \in Nat, K \in Nat : N = Len(units) /\ K = Len(kept)
  OBVIOUS
<1>2. PICK pos \in Int : pos = total - N /\ pos = at + K
  <2>1. at + K + N = total
    BY <1>0, <1>1 DEF Between
  <2> QED BY <2>1
<1>3. 1 \in 1..(Len(units) + 1) /\ n + 1 \in 1..(Len(units) + 1) /\ N \in 0..Len(units)
  BY <1>1
<1>4. PICK chunk : chunk = SubSeq(units, 1, n)
  OBVIOUS
<1>5. Aligned(units, pos) /\ Aligned(kept, at)
  BY <1>0, <1>1, <1>2 DEF Ending, Between
<1>6. /\ Aligned(chunk, pos + 1 - 1) /\ chunk \in Seq(Unit)
      /\ Len(chunk) = IF 1 <= n THEN n - 1 + 1 ELSE 0
  BY <1>3, <1>4, <1>5, AlignedSlice
<1>7. PICK j \in 1..(Len(units) + 1) : j = n + 1
  BY <1>3
<1>8. more = SubSeq(units, j, N)
  BY <1>1, <1>7
<1>9. /\ Aligned(more, pos + j - 1) /\ more \in Seq(Unit)
      /\ Len(more) = IF j <= N THEN N - j + 1 ELSE 0
  BY <1>3, <1>5, <1>8, AlignedSlice
<1>10. Len(chunk) = n /\ Len(more) = N - n
  BY <1>1, <1>6, <1>7, <1>9
<1>11. pos + 1 - 1 = at + Len(kept) /\ pos + j - 1 = total - Len(more)
  <2>1. pos + 1 - 1 = at + K
    BY <1>2
  <2>2. pos + j - 1 = total - (N - n)
    BY <1>2, <1>7
  <2> QED BY <1>1, <1>10, <2>1, <2>2
<1>12. Aligned(chunk, at + Len(kept))
  BY <1>6, <1>11
<1>13. /\ Aligned(kept \o chunk, at) /\ kept \o chunk \in Seq(Unit)
       /\ Len(kept \o chunk) = Len(kept) + Len(chunk)
  BY <1>5, <1>6, <1>12, AlignedConcat
<1>14. buf = kept \o chunk
  BY <1>4
<1> HIDE DEF buf, more
<1>15. at + Len(buf) + Len(more) = total
  <2>1. Len(buf) = K + n /\ Len(more) = N - n
    BY <1>1, <1>10, <1>13, <1>14
  <2>2. at + (K + n) + (N - n) = total
    BY <1>2
  <2> QED BY <2>1, <2>2
<1>16. Aligned(more, total - Len(more))
  BY <1>9, <1>11
<1>17. Len(more) <= UnitsPerItem * Len(fs)
  <2>1. N <= total
    BY <1>0, <1>1 DEF Ending
  <2>2. N - n <= total
    BY <2>1
  <2> QED BY <1>0, <1>10, <2>2
<1>18. Between(fs, m, buf, more) /\ Ending(fs, more)
  BY <1>0, <1>13, <1>14, <1>15, <1>16, <1>17 DEF Ending, Between
<1>19. buf \in Seq(Unit) /\ more \in Seq(Unit)
  BY <1>9, <1>13, <1>14
<1> QED BY <1>18, <1>19, Zenon DEF buf, more

(* A chunk that nobody keeps: what is still on its way ends the stream,    *)
(* and no frame that had arrived is lost.                                  *)
LEMMA MoreTaken ==
    ASSUME NEW fs \in Seq(Frame), NEW units \in Seq(Unit), NEW n \in 0..Len(units),
           Ending(fs, units)
    PROVE  LET more == SubSeq(units, n + 1, Len(units))
           IN  /\ more \in Seq(Unit) /\ Ending(fs, more)
               /\ Arrived(fs, units) <= Arrived(fs, more)
<1>1. PICK more : more = SubSeq(units, n + 1, Len(units))
  OBVIOUS
<1>2. PICK at \in Int, j \in 1..(Len(units) + 1), l \in 0..Len(units) :
        at = UnitsPerItem * Len(fs) - Len(units) /\ j = n + 1 /\ l = Len(units)
  <2>1. UnitsPerItem * Len(fs) - Len(units) \in Int
    BY DEF UnitsPerItem
  <2> QED BY <2>1
<1>3. Aligned(units, at) /\ more = SubSeq(units, j, l)
  BY <1>1, <1>2 DEF Ending
<1>4. /\ Aligned(more, at + j - 1) /\ more \in Seq(Unit)
      /\ Len(more) = IF j <= l THEN l - j + 1 ELSE 0
  BY <1>3, AlignedSlice
<1>5. PICK t \in Nat : t = Len(fs)
  OBVIOUS
<1>6. at = 2 * t - l /\ l <= 2 * t
  BY <1>2, <1>5 DEF Ending, UnitsPerItem
<1>7. Len(more) = l - j + 1
  BY <1>2, <1>4
<1>8. at + j - 1 = 2 * t - (l - j + 1) /\ l - j + 1 <= 2 * t
  BY <1>6
<1>9. Ending(fs, more)
  BY <1>4, <1>5, <1>7, <1>8 DEF Ending, UnitsPerItem
<1>10. Arrived(fs, units) <= Arrived(fs, more)
  <2>1. PICK r \in Nat : r = Len(more)
    <3>1. more \in Seq(Unit)
      BY <1>4
    <3>2. Len(more) \in Nat
      BY <3>1
    <3> QED BY <3>2
  <2>2. r <= l /\ r <= 2 * t
    BY <1>2, <1>7, <1>8, <2>1
  <2>3. (2 * t - l) \div 2 <= (2 * t - r) \div 2
    BY <2>2
  <2> QED BY <1>2, <1>5, <1>6, <2>1, <2>2, <2>3 DEF Arrived, UnitsPerItem
<1> QED BY <1>1, <1>4, <1>9, <1>10, Zenon

(* The loop on a buffer that starts after the first m frames, with more on *)
(* its way: less than a frame stays in the buffer, what it sends is what   *)
(* the frames that have now arrived add to the references, and nothing     *)
(* comes after a Close.                                                    *)
LEMMA BufferHandled ==
    ASSUME NEW fs \in Seq(Frame), CloseIsLast(fs), NEW more \in Seq(Unit),
           NEW m \in Nat, NEW buf \in Seq(Unit), Between(fs, m, buf, more)
    PROVE  LET handled == Handled(fs, buf)
               rest == Rest(buf, handled)
               now == Arrived(fs, more)
           IN
           /\ handled \in Seq(1..Len(fs))
           /\ rest \in Seq(Unit) /\ Len(rest) < UnitsPerItem
           /\ Between(fs, now, rest, more)
           /\ DataAmong(fs, now) = DataAmong(fs, m) \o Forwarded(fs, handled)
           /\ PongsFor(fs, now) = PongsFor(fs, m) \o Pongs(fs, handled)
           /\ HasClose(fs, handled) =>
                HasClosed(fs) /\ more = <<>> /\ rest = <<>> /\ now = Len(fs)
<1>a. PICK handled : handled = Handled(fs, buf)
  OBVIOUS
<1>b. PICK rest : rest = Rest(buf, handled)
  OBVIOUS
<1>c. PICK now : now = Arrived(fs, more)
  OBVIOUS
<1>0. /\ UnitsPerItem * m + Len(buf) + Len(more) = UnitsPerItem * Len(fs)
      /\ Aligned(buf, UnitsPerItem * m)
  BY DEF Between
<1>1. UnitsPerItem * m + Len(buf) <= UnitsPerItem * Len(fs)
  BY <1>0 DEF UnitsPerItem
<1>2. PICK h \in Nat :
        /\ h = Len(buf) \div UnitsPerItem /\ m + h <= Len(fs)
        /\ handled = Following(m, h)
        /\ rest \in Seq(Unit)
        /\ Len(rest) = Len(buf) - UnitsPerItem * h
        /\ Aligned(rest, UnitsPerItem * (m + h))
        /\ HasClose(fs, handled) <=> \E i \in (m + 1)..(m + h) : fs[i].op = "close"
  BY <1>0, <1>1, <1>a, <1>b, HandledIsNext
<1>3. Len(rest) < UnitsPerItem
  BY <1>2 DEF UnitsPerItem
<1>4. UnitsPerItem * (m + h) + Len(rest) + Len(more) = UnitsPerItem * Len(fs)
  <2>1. PICK b \in Nat, r \in Nat, o \in Nat, t \in Nat :
          b = Len(buf) /\ r = Len(rest) /\ o = Len(more) /\ t = Len(fs)
    BY <1>2
  <2>2. r = b - 2 * h /\ 2 * m + b + o = 2 * t
    BY <1>0, <1>2, <2>1 DEF UnitsPerItem
  <2>3. 2 * (m + h) + r + o = 2 * t
    BY <2>2
  <2> QED BY <2>1, <2>3 DEF UnitsPerItem
<1>5. now = m + h
  <2>1. PICK k \in Nat, b \in Nat : k = m + h /\ b = Len(rest)
    <3>1. rest \in Seq(Unit)
      BY <1>2
    <3>2. m + h \in Nat /\ Len(rest) \in Nat
      BY <3>1
    <3> QED BY <3>2, Zenon
  <2>2. Arrived(fs, more) = k
    BY <1>3, <1>4, <2>1, ArrivedIs
  <2> QED BY <1>c, <2>1, <2>2
<1>6. handled \in Seq(1..Len(fs))
  <2>1. PICK t \in Nat : t = Len(fs)
    OBVIOUS
  <2>2. m + h <= t /\ handled = [k \in 1..h |-> m + k]
    BY <1>2, <2>1 DEF Following
  <2>3. \A k \in 1..h : m + k \in 1..t
    BY <2>2
  <2>4. handled \in Seq(1..t)
    BY <2>2, <2>3
  <2> QED BY <2>1, <2>4, Zenon
<1>7. /\ DataAmong(fs, m + h) = DataAmong(fs, m) \o Forwarded(fs, handled)
      /\ PongsFor(fs, m + h) = PongsFor(fs, m) \o Pongs(fs, handled)
  <2>1. m + h <= Len(fs) /\ handled = Following(m, h)
    BY <1>2
  <2>2. /\ DataAmong(fs, m + h) = DataAmong(fs, m) \o Forwarded(fs, Following(m, h))
        /\ PongsFor(fs, m + h) = PongsFor(fs, m) \o Pongs(fs, Following(m, h))
    BY <2>1, SendingFollows
  <2> QED BY <2>1, <2>2, Zenon
<1>8. ASSUME HasClose(fs, handled)
      PROVE  HasClosed(fs) /\ more = <<>> /\ rest = <<>> /\ m + h = Len(fs)
  <2>1. PICK i \in (m + 1)..(m + h) : fs[i].op = "close"
    BY <1>2, <1>8
  <2>2. i \in 1..Len(fs)
    BY <1>2, <2>1
  <2>3. i = Len(fs) /\ m + h = Len(fs)
    BY <1>2, <2>1, <2>2 DEF CloseIsLast
  <2>4. PICK r \in Nat, o \in Nat, t \in Nat : r = Len(rest) /\ o = Len(more) /\ t = Len(fs)
    BY <1>2
  <2>5. r + o = 0
    <3>1. 2 * t + r + o = 2 * t
      BY <1>4, <2>3, <2>4 DEF UnitsPerItem
    <3> QED BY <3>1
  <2>6. rest = <<>> /\ more = <<>>
    BY <1>2, <2>4, <2>5
  <2> QED BY <2>1, <2>2, <2>3, <2>6 DEF HasClosed
<1>9. Between(fs, m + h, rest, more)
  BY <1>2, <1>4 DEF Between
<1>10. rest \in Seq(Unit)
  BY <1>2
<1>11. /\ handled \in Seq(1..Len(fs))
       /\ rest \in Seq(Unit) /\ Len(rest) < UnitsPerItem
       /\ Between(fs, now, rest, more)
       /\ DataAmong(fs, now) = DataAmong(fs, m) \o Forwarded(fs, handled)
       /\ PongsFor(fs, now) = PongsFor(fs, m) \o Pongs(fs, handled)
       /\ HasClose(fs, handled) =>
            HasClosed(fs) /\ more = <<>> /\ rest = <<>> /\ now = Len(fs)
  BY <1>3, <1>5, <1>6, <1>7, <1>8, <1>9, <1>10, Zenon
<1> QED BY <1>a, <1>b, <1>c, <1>11, Zenon

-----------------------------------------------------------------------------
(* What the client is sent. *)

FrameOf(ms) == [i \in 1..Len(ms) |-> WsFrame(ms[i].binary, i)]
Decodable(ms) == {i \in 1..Len(ms) : ms[i].ok}

(* One number more. *)
LEMMA UptoAppend ==
    ASSUME NEW N \in Nat
    PROVE  /\ Upto(N) \in Seq(1..N) /\ Upto(N) \in Seq(1..(N + 1))
           /\ Upto(N + 1) = Append(Upto(N), N + 1)
<1>1. PICK u : u = Upto(N) /\ u \in Seq(1..N) /\ u \in Seq(1..(N + 1))
  <2>1. Upto(N) \in Seq(1..N) /\ Upto(N) \in Seq(1..(N + 1))
    BY DEF Upto
  <2> QED BY <2>1
<1>2. u \in Seq(1..(N + 1)) /\ Len(u) = N /\ \A i \in 1..N : u[i] = i
  BY <1>1 DEF Upto
<1>3. PICK a : a = Append(u, N + 1) /\ a \in Seq(1..(N + 1))
  <2>1. Append(u, N + 1) \in Seq(1..(N + 1))
    BY <1>2
  <2> QED BY <2>1
<1>4. Len(a) = N + 1 /\ a[N + 1] = N + 1 /\ \A i \in 1..N : a[i] = u[i]
  BY <1>2, <1>3
<1>5. PICK w : w = Upto(N + 1) /\ w \in Seq(1..(N + 1))
  <2>1. Upto(N + 1) \in Seq(1..(N + 1))
    BY DEF Upto
  <2> QED BY <2>1
<1>6. Len(w) = N + 1 /\ \A i \in 1..(N + 1) : w[i] = i
  BY <1>5 DEF Upto
<1>7. \A i \in 1..(N + 1) : w[i] = a[i]
  BY <1>2, <1>4, <1>6
<1>8. w = a
  <2>1. Len(w) = Len(a) /\ \A i \in 1..Len(w) : w[i] = a[i]
    BY <1>4, <1>6, <1>7
  <2> QED BY <1>3, <1>5, <2>1, SeqEqual
<1> QED BY <1>1, <1>3, <1>5, <1>8

(* One more message asks for its frame, if it decodes. *)
LEMMA FramesForAppend ==
    ASSUME NEW ms \in Seq(Message), NEW x \in Message
    PROVE  /\ FramesFor(ms) \in Seq(ClientFrame)
           /\ FramesFor(Append(ms, x)) =
                IF x.ok THEN Append(FramesFor(ms), WsFrame(x.binary, Len(ms) + 1))
                        ELSE FramesFor(ms)
<1>1. PICK ns : ns = Append(ms, x) /\ ns \in Seq(Message)
  <2>1. Append(ms, x) \in Seq(Message)
    OBVIOUS
  <2> QED BY <2>1
<1>2. PICK N \in Nat : N = Len(ms)
  OBVIOUS
<1>3. Len(ns) = N + 1 /\ ns[N + 1] = x /\ \A i \in 1..N : ns[i] = ms[i]
  BY <1>1, <1>2
<1>4. /\ FramesFor(ms) = Each(Keep(Upto(N), Decodable(ms)), FrameOf(ms))
      /\ FramesFor(ns) = Each(Keep(Upto(N + 1), Decodable(ns)), FrameOf(ns))
  BY <1>2, <1>3 DEF FramesFor, Decodable, FrameOf, WsFrame
<1>5. /\ FrameOf(ms) \in [1..N -> ClientFrame]
      /\ FrameOf(ns) \in [1..(N + 1) -> ClientFrame]
      /\ \A i \in 1..N : FrameOf(ns)[i] = FrameOf(ms)[i]
      /\ FrameOf(ns)[N + 1] = WsFrame(x.binary, N + 1)
  BY <1>2, <1>3 DEF FrameOf, WsFrame, ClientFrame, Message
<1>6. PICK u \in Seq(1..N) : u = Upto(N)
  <2>1. Upto(N) \in Seq(1..N)
    BY DEF Upto
  <2> QED BY <2>1
<1>7. u \in Seq(1..(N + 1)) /\ Upto(N + 1) = Append(u, N + 1)
  BY <1>6, UptoAppend
<1>8. PICK k \in Seq(1..N) : k = Keep(u, Decodable(ms))
  BY KeepType
<1>9. Keep(u, Decodable(ns)) = k
  <2>1. \A i \in 1..N : i \in Decodable(ns) <=> i \in Decodable(ms)
    BY <1>2, <1>3 DEF Decodable
  <2> QED BY <1>8, <2>1, KeepAgree
<1>10. k \in Seq(1..(N + 1)) /\ N + 1 \in 1..(N + 1)
  OBVIOUS
<1>12. Each(k, FrameOf(ns)) = Each(k, FrameOf(ms)) /\ Each(k, FrameOf(ms)) \in Seq(ClientFrame)
  BY <1>5, EachAgree, EachType
<1>13. Keep(Upto(N + 1), Decodable(ns)) = IF x.ok THEN Append(k, N + 1) ELSE k
  <2>1. N + 1 \in Decodable(ns) <=> x.ok
    BY <1>3 DEF Decodable
  <2>2. PICK S, e, D : S = 1..(N + 1) /\ e = N + 1 /\ D = Decodable(ns)
    OBVIOUS
  <2>3. e \in S /\ u \in Seq(S)
    BY <1>7, <2>2
  <2>4. Keep(Append(u, e), D) = IF e \in D THEN Append(Keep(u, D), e) ELSE Keep(u, D)
    BY <2>3, KeepAppend
  <2> QED BY <1>7, <1>9, <2>1, <2>2, <2>4
<1>14. Each(Append(k, N + 1), FrameOf(ns)) =
         Append(Each(k, FrameOf(ns)), WsFrame(x.binary, N + 1))
  <2>1. PICK S, e, g : S = 1..(N + 1) /\ e = N + 1 /\ g = FrameOf(ns)
    OBVIOUS
  <2>2. e \in S /\ k \in Seq(S) /\ g \in [S -> ClientFrame] /\ g[e] = WsFrame(x.binary, N + 1)
    BY <1>5, <1>10, <2>1
  <2>3. Each(Append(k, e), g) = Append(Each(k, g), g[e])
    BY <2>2, EachAppend
  <2> QED BY <2>1, <2>2, <2>3
<1> QED BY <1>1, <1>2, <1>4, <1>6, <1>8, <1>12, <1>13, <1>14

(* One more frame shows up in the selections by its opcode. *)
LEMMA OnlyAppend ==
    ASSUME NEW out \in Seq(ClientFrame), NEW c \in ClientFrame, NEW ops
    PROVE  /\ Append(out, c) \in Seq(ClientFrame)
           /\ Only(out, ops) \in Seq(ClientFrame)
           /\ Only(Append(out, c), ops) =
                IF c.op \in ops THEN Append(Only(out, ops), c) ELSE Only(out, ops)
<1>1. PICK K : K = {o \in ClientFrame : o.op \in ops}
  OBVIOUS
<1>2. Keep(Append(out, c), K) = IF c \in K THEN Append(Keep(out, K), c) ELSE Keep(out, K)
  BY KeepAppend
<1>3. Keep(out, K) \in Seq(ClientFrame) /\ Append(out, c) \in Seq(ClientFrame)
  <2>1. Keep(out, K) \in Seq(ClientFrame)
    BY KeepType
  <2>2. Append(out, c) \in Seq(ClientFrame)
    OBVIOUS
  <2> QED BY <2>1, <2>2
<1>4. c \in K <=> c.op \in ops
  BY <1>1
<1>5. \A o : Only(o, ops) = Keep(o, K)
  BY <1>1 DEF Only
<1> QED BY <1>2, <1>3, <1>4, <1>5

(* Pongs at the end show up as pongs only. *)
LEMMA OnlyPongs ==
    ASSUME NEW out \in Seq(ClientFrame), NEW pongs \in Seq(PongFrame)
    PROVE  /\ out \o pongs \in Seq(ClientFrame)
           /\ Only(out \o pongs, {"pong"}) = Only(out, {"pong"}) \o pongs
           /\ \A ops : "pong" \notin ops => Only(out \o pongs, ops) = Only(out, ops)
           /\ Len(out \o pongs) = Len(out) + Len(pongs)
           /\ \A i \in 1..Len(out) : (out \o pongs)[i] = out[i]
           /\ \A i \in (Len(out) + 1)..Len(out \o pongs) : (out \o pongs)[i].op = "pong"
<1>1. PongFrame \subseteq ClientFrame
  BY DEF PongFrame
<1>2. pongs \in Seq(ClientFrame)
  BY <1>1
<1>3. /\ out \o pongs \in Seq(ClientFrame)
      /\ Len(out \o pongs) = Len(out) + Len(pongs)
      /\ \A i \in 1..Len(out) : (out \o pongs)[i] = out[i]
      /\ \A i \in (Len(out) + 1)..(Len(out) + Len(pongs)) :
           (out \o pongs)[i] = pongs[i - Len(out)]
  BY <1>2
<1>4. \A i \in (Len(out) + 1)..Len(out \o pongs) : (out \o pongs)[i].op = "pong"
  <2>1. SUFFICES ASSUME NEW i \in (Len(out) + 1)..Len(out \o pongs)
                 PROVE  (out \o pongs)[i].op = "pong"
    OBVIOUS
  <2>2. i - Len(out) \in 1..Len(pongs) /\ (out \o pongs)[i] = pongs[i - Len(out)]
    BY <1>3
  <2>3. pongs[i - Len(out)] \in PongFrame
    BY <2>2
  <2> QED BY <2>2, <2>3 DEF PongFrame
<1>5. Only(out \o pongs, {"pong"}) = Only(out, {"pong"}) \o pongs
  <2>1. \A o : Only(o, {"pong"}) = Keep(o, PongFrame)
    BY DEF Only, PongFrame
  <2>2. Keep(out \o pongs, PongFrame) = Keep(out, PongFrame) \o Keep(pongs, PongFrame)
    BY <1>2, KeepConcat
  <2>3. Keep(pongs, PongFrame) = pongs
    BY KeepAll
  <2> QED BY <2>1, <2>2, <2>3
<1>6. ASSUME NEW ops, "pong" \notin ops PROVE Only(out \o pongs, ops) = Only(out, ops)
  <2>1. PICK K : K = {o \in ClientFrame : o.op \in ops}
    OBVIOUS
  <2>2. \A o : Only(o, ops) = Keep(o, K)
    BY <2>1 DEF Only
  <2>3. Keep(out \o pongs, K) = Keep(out, K) \o Keep(pongs, K)
    BY <1>2, KeepConcat
  <2>4. \A o \in PongFrame : o \notin K
    BY <1>6, <2>1 DEF PongFrame
  <2>5. Keep(pongs, K) = <<>>
    BY <2>4, KeepNone
  <2>6. PICK k \in Seq(ClientFrame) : k = Keep(out, K)
    BY KeepType
  <2>7. k \o <<>> = k
    OBVIOUS
  <2> QED BY <2>2, <2>3, <2>5, <2>6, <2>7
<1> QED BY <1>3, <1>4, <1>5, <1>6

(* The types of the references. *)
LEMMA ReferenceTypes ==
    ASSUME NEW fs \in Seq(Frame), NEW n \in 0..Len(fs)
    PROVE  DataAmong(fs, n) \in Seq(ForwardedFrame) /\ PongsFor(fs, n) \in Seq(PongFrame)
<1>1. PICK S : S = 1..Len(fs)
  OBVIOUS
<1>2. Upto(n) \in Seq(S)
  BY <1>1 DEF Upto
<1>3. Keep(Upto(n), At(fs, Data)) \in Seq(S) /\ Keep(Upto(n), At(fs, {"ping"})) \in Seq(S)
  BY <1>2, KeepType
<1>4. ProtoOf(fs) \in [S -> ForwardedFrame] /\ PongOf(fs) \in [S -> PongFrame]
  BY <1>1 DEF ProtoOf, FrameProto, ForwardedFrame, PongOf, Pong, PongFrame, ClientFrame
<1>5. Each(Keep(Upto(n), At(fs, Data)), ProtoOf(fs)) \in Seq(ForwardedFrame)
  BY <1>3, <1>4, EachType
<1>6. Each(Keep(Upto(n), At(fs, {"ping"})), PongOf(fs)) \in Seq(PongFrame)
  BY <1>3, <1>4, EachType
<1> QED BY <1>5, <1>6, References, Zenon

(* Nothing has arrived, nothing is asked for. *)
LEMMA ReferencesEmpty ==
    /\ \A fs : DataAmong(fs, 0) = <<>> /\ PongsFor(fs, 0) = <<>>
    /\ FramesFor(<<>>) = <<>>
    /\ \A ops : Only(<<>>, ops) = <<>>
<1>1. Upto(0) = <<>> /\ Len(<<>>) = 0
  BY DEF Upto
<1>2. \A K, f : Each(Keep(<<>>, K), f) = <<>>
  BY KeepEmpty, EachEmpty
<1> QED BY <1>1, <1>2, KeepEmpty DEF DataAmong, PongsFor, FramesFor, Only

(* A prefix is one of what the whole grows to. *)
LEMMA PrefixGrows ==
    ASSUME NEW S, NEW s \in Seq(S), NEW t \in Seq(S), NEW u \in Seq(S), IsPrefixOf(s, t)
    PROVE  IsPrefixOf(s, t \o u)
<1>1. t \o u \in Seq(S) /\ Len(t \o u) = Len(t) + Len(u)
  OBVIOUS
<1>2. Len(s) \in 0..Len(t) /\ s = SubSeq(t, 1, Len(s))
  BY DEF IsPrefixOf
<1>3. SubSeq(t \o u, 1, Len(s)) = SubSeq(t, 1, Len(s))
  BY <1>2, PrefixOfFirst
<1>4. Len(s) <= Len(t \o u)
  BY <1>1, <1>2
<1> QED BY <1>2, <1>3, <1>4 DEF IsPrefixOf

(* A prefix has the elements of the whole.                                 *)
LEMMA PrefixElements ==
    ASSUME NEW S, NEW s \in Seq(S), NEW t \in Seq(S)
    PROVE  IsPrefixOf(s, t) <=> Len(s) <= Len(t) /\ \A i \in 1..Len(s) : s[i] = t[i]
<1> SUFFICES ASSUME Len(s) <= Len(t)
             PROVE  s = SubSeq(t, 1, Len(s)) <=> \A i \in 1..Len(s) : s[i] = t[i]
  BY DEF IsPrefixOf
<1>1. PICK n \in 0..Len(t) : n = Len(s)
  OBVIOUS
<1>2. PICK p : p = SubSeq(t, 1, n)
  OBVIOUS
<1>3. 1 \in 1..(Len(t) + 1)
  OBVIOUS
<1>4. p \in Seq(S) /\ Len(p) = n /\ \A i \in 1..n : p[i] = t[i]
  BY <1>2, <1>3, Slice
<1>5. (\A i \in 1..n : s[i] = p[i]) => s = p
  BY <1>1, <1>4, SeqEqual
<1> QED BY <1>1, <1>2, <1>4, <1>5

(* A sequence is a prefix of itself. *)
LEMMA PrefixSelf == ASSUME NEW S, NEW s \in Seq(S) PROVE IsPrefixOf(s, s)
<1>1. SubSeq(s, 1, Len(s)) = s
  BY SubSeqFull
<1> QED BY <1>1 DEF IsPrefixOf

(* The empty sequence is a prefix of every other. *)
LEMMA PrefixEmpty == ASSUME NEW S, NEW s \in Seq(S) PROVE IsPrefixOf(<<>>, s)
<1>1. SubSeq(s, 1, 0) = <<>>
  BY SubSeqEmpty
<1> QED BY <1>1 DEF IsPrefixOf

(* What was sent of fewer frames is a prefix of what more of them ask for. *)
LEMMA PrefixDelivered ==
    ASSUME NEW fs \in Seq(Frame), NEW m \in Nat, NEW n \in m..Len(fs),
           NEW sent \in Seq(ForwardedFrame), IsPrefixOf(sent, DataAmong(fs, m))
    PROVE  IsPrefixOf(sent, DataAmong(fs, n))
<1>1. PICK h \in Nat : n = m + h /\ m + h <= Len(fs) /\ m \in 0..Len(fs)
  <2>1. n - m \in Nat /\ n = m + (n - m)
    OBVIOUS
  <2> QED BY <2>1
<1>2. PICK more : more = Following(m, h)
  OBVIOUS
<1>3. more \in Seq(1..Len(fs))
  <2>1. PICK N \in Nat : N = Len(fs)
    OBVIOUS
  <2>2. m + h <= N
    BY <1>1, <2>1
  <2>3. Following(m, h) \in Seq(1..N)
    BY <2>2, UptoConcat
  <2> QED BY <1>2, <2>1, <2>3
<1>4. PICK s \in Seq(ForwardedFrame), t \in Seq(ForwardedFrame) :
        s = DataAmong(fs, m) /\ t = Forwarded(fs, more)
  BY <1>1, <1>3, ReferenceTypes, SentOnType
<1>5. DataAmong(fs, n) = s \o t
  BY <1>1, <1>2, <1>4, SendingFollows
<1>6. IsPrefixOf(sent, s \o t)
  BY <1>4, PrefixGrows
<1> QED BY <1>5, <1>6

(* A sequence is its first k elements and the others. *)
LEMMA CutAt ==
    ASSUME NEW S, NEW s \in Seq(S), NEW k \in 0..Len(s)
    PROVE  /\ SubSeq(s, 1, k) \in Seq(S) /\ SubSeq(s, k + 1, Len(s)) \in Seq(S)
           /\ SubSeq(s, 1, k) \o SubSeq(s, k + 1, Len(s)) = s
<1>1. PICK n \in Nat : n = Len(s) /\ k \in 0..n
  OBVIOUS
<1>2. PICK a, b : a = SubSeq(s, 1, k) /\ b = SubSeq(s, k + 1, n)
  OBVIOUS
<1>3. a \in Seq(S) /\ Len(a) = k /\ \A i \in 1..k : a[i] = s[i]
  <2>1. 1 \in 1..(Len(s) + 1)
    BY <1>1
  <2>2. a \in Seq(S) /\ Len(a) = k /\ \A i \in 1..Len(a) : a[i] = s[1 + i - 1]
    BY <1>1, <1>2, <2>1, Slice
  <2> QED BY <2>2
<1>4. b \in Seq(S) /\ Len(b) = n - k /\ \A i \in 1..(n - k) : b[i] = s[k + i]
  <2>1. k + 1 \in 1..(Len(s) + 1) /\ n \in 0..Len(s)
    BY <1>1
  <2>2. /\ b \in Seq(S) /\ Len(b) = (IF k + 1 <= n THEN n - (k + 1) + 1 ELSE 0)
        /\ \A i \in 1..Len(b) : b[i] = s[(k + 1) + i - 1]
    BY <1>2, <2>1, Slice
  <2> QED BY <1>1, <2>2
<1>5. PICK c \in Seq(S) : c = a \o b
  <2>1. a \o b \in Seq(S)
    BY <1>3, <1>4
  <2> QED BY <2>1
<1>6. /\ Len(c) = n
      /\ \A i \in 1..n : c[i] = IF i <= k THEN a[i] ELSE b[i - k]
  BY <1>1, <1>3, <1>4, <1>5
<1>7. ASSUME NEW i \in 1..n PROVE c[i] = s[i]
  <2>1. CASE i <= k
    BY <1>3, <1>6, <2>1
  <2>2. CASE i > k
    <3>1. PICK j \in 1..(n - k) : i = k + j /\ j = i - k
      BY <1>1, <2>2
    <3>2. c[i] = b[j]
      BY <1>1, <1>6, <2>2, <3>1
    <3>3. b[j] = s[i]
      BY <1>4, <3>1
    <3> QED BY <3>2, <3>3
  <2> QED BY <1>1, <2>1, <2>2
<1>8. c = s
  BY <1>1, <1>6, <1>7, SeqEqual
<1> QED BY <1>1, <1>2, <1>3, <1>4, <1>5, <1>8

(* Handling only the first k of some frames adds to what was sent, and     *)
(* sends a prefix of what handling all of them would have.                 *)
LEMMA PartForwarded ==
    ASSUME NEW fs \in Seq(Frame), NEW items \in Seq(1..Len(fs)), NEW k \in 0..Len(items),
           NEW sent \in Seq(ForwardedFrame), NEW done, done = SubSeq(items, 1, k)
    PROVE  /\ done \in Seq(1..Len(fs))
           /\ sent \o Forwarded(fs, done) \in Seq(ForwardedFrame)
           /\ IsPrefixOf(sent, sent \o Forwarded(fs, done))
           /\ IsPrefixOf(sent \o Forwarded(fs, done), sent \o Forwarded(fs, items))
<1>1. PICK rest : rest = SubSeq(items, k + 1, Len(items))
  OBVIOUS
<1>2. done \in Seq(1..Len(fs)) /\ rest \in Seq(1..Len(fs)) /\ done \o rest = items
  BY <1>1, CutAt
<1>3. PICK a \in Seq(ForwardedFrame), b \in Seq(ForwardedFrame) :
        a = Forwarded(fs, done) /\ b = Forwarded(fs, rest)
  BY <1>2, SentOnType
<1>4. Forwarded(fs, items) = a \o b
  <2>0. ASSUME NEW I, NEW u \in Seq(I), NEW v \in Seq(I)
        PROVE  Each(Keep(u \o v, At(fs, Data)), ProtoOf(fs))
                 = Each(Keep(u, At(fs, Data)), ProtoOf(fs)) \o Each(Keep(v, At(fs, Data)), ProtoOf(fs))
    BY ChosenConcat
  <2>1. Each(Keep(done \o rest, At(fs, Data)), ProtoOf(fs))
          = Each(Keep(done, At(fs, Data)), ProtoOf(fs)) \o Each(Keep(rest, At(fs, Data)), ProtoOf(fs))
    BY <1>2, <2>0, Zenon
  <2> QED BY <1>2, <1>3, <2>1, SentOn, Zenon
<1>5. PICK t \in Seq(ForwardedFrame) : t = sent \o a
  <2>1. sent \o a \in Seq(ForwardedFrame)
    OBVIOUS
  <2> QED BY <2>1
<1>6. sent \o (a \o b) = t \o b
  BY <1>5, ConcatAssociative
<1>7. IsPrefixOf(sent, t)
  BY <1>5, PrefixSelf, PrefixGrows
<1>8. IsPrefixOf(t, t \o b)
  BY PrefixSelf, PrefixGrows
<1> QED BY <1>2, <1>3, <1>4, <1>5, <1>6, <1>7, <1>8

(* What has been sent is right as long as nothing has been sent. *)
LEMMA SendingNothing ==
    ASSUME NEW fs \in Seq(Frame), NEW units \in Seq(Unit)
    PROVE  IsPrefixOf(<<>>, DataAmong(fs, Arrived(fs, units)))
<1>1. Arrived(fs, units) \in 0..Len(fs)
  BY ArrivedType
<1>2. DataAmong(fs, Arrived(fs, units)) \in Seq(ForwardedFrame)
  BY <1>1, ReferenceTypes
<1> QED BY <1>2, PrefixEmpty

-----------------------------------------------------------------------------
(* What the references hold. *)

(* With no message that fails to decode, the client gets a frame for each. *)
LEMMA FramesForAll ==
    ASSUME NEW ms \in Seq(Message), \A i \in 1..Len(ms) : ms[i].ok
    PROVE  /\ FramesFor(ms) \in Seq(ClientFrame) /\ Len(FramesFor(ms)) = Len(ms)
           /\ \A i \in 1..Len(ms) : FramesFor(ms)[i] = WsFrame(ms[i].binary, i)
<1>1. PICK N \in Nat : N = Len(ms)
  OBVIOUS
<1>2. FramesFor(ms) = Each(Keep(Upto(N), Decodable(ms)), FrameOf(ms))
  BY <1>1 DEF FramesFor, Decodable, FrameOf, WsFrame
<1>3. PICK f : f = FrameOf(ms) /\ f \in [1..N -> ClientFrame]
               /\ \A i \in 1..N : f[i] = WsFrame(ms[i].binary, i)
  <2>1. /\ FrameOf(ms) \in [1..N -> ClientFrame]
        /\ \A i \in 1..N : FrameOf(ms)[i] = WsFrame(ms[i].binary, i)
    BY <1>1 DEF FrameOf, WsFrame, ClientFrame, Message
  <2> QED BY <2>1
<1>4. PICK u \in Seq(1..N) : u = Upto(N)
  BY UptoAppend
<1>5. Len(u) = N /\ \A i \in 1..N : u[i] = i
  BY <1>4 DEF Upto
<1>6. Decodable(ms) = 1..N
  BY <1>1 DEF Decodable
<1>7. Keep(u, Decodable(ms)) = u
  BY <1>6, KeepAll
<1>8. /\ Each(u, f) \in Seq(ClientFrame) /\ Len(Each(u, f)) = N
      /\ \A i \in 1..N : Each(u, f)[i] = f[i]
  <2>1. PICK S : S = 1..N
    OBVIOUS
  <2>2. f \in [S -> ClientFrame] /\ u \in Seq(S)
    BY <1>3, <2>1
  <2>3. /\ Each(u, f) \in Seq(ClientFrame) /\ Len(Each(u, f)) = Len(u)
        /\ \A i \in 1..Len(u) : Each(u, f)[i] = f[u[i]]
    BY <2>2, EachType
  <2> QED BY <1>5, <2>3
<1> QED BY <1>1, <1>2, <1>3, <1>4, <1>7, <1>8

(* The Frames of the client's data say which frame each is for. *)
LEMMA DataIs ==
    ASSUME NEW fs \in Seq(Frame), NEW n \in 0..Len(fs)
    PROVE  /\ DataAmong(fs, n) \in Seq(ForwardedFrame)
           /\ \A k \in 1..Len(DataAmong(fs, n)) :
                LET d == DataAmong(fs, n)[k]
                IN  d.frame \in 1..Len(fs) /\ d.binary = (fs[d.frame].op = "binary")
<1>1. PICK N \in Nat : N = Len(fs)
  OBVIOUS
<1>2. PICK u \in Seq(1..N) : u = Upto(n)
  <2>1. n \in Nat /\ n <= N
    BY <1>1
  <2>2. Upto(n) \in Seq(1..N)
    BY <2>1 DEF Upto
  <2> QED BY <2>2
<1>3. PICK k \in Seq(1..N) : k = Keep(u, At(fs, Data))
  BY KeepType
<1>4. PICK R : R = {d \in ForwardedFrame : d.frame \in 1..N /\ d.binary = (fs[d.frame].op = "binary")}
  OBVIOUS
<1>5. PICK f : f = ProtoOf(fs) /\ f \in [1..N -> R]
  <2>1. ASSUME NEW i \in 1..N PROVE FrameProto(fs, i) \in R
    BY <1>4 DEF FrameProto, ForwardedFrame
  <2>2. ProtoOf(fs) \in [1..N -> R]
    BY <1>1, <2>1 DEF ProtoOf
  <2> QED BY <2>2
<1>6. PICK data \in Seq(R) : data = Each(k, f)
  <2>1. Each(k, f) \in Seq(R)
    BY <1>5, EachType
  <2> QED BY <2>1
<1>7. data = DataAmong(fs, n)
  BY <1>2, <1>3, <1>5, <1>6, References
<1>8. data \in Seq(ForwardedFrame) /\ \A i \in 1..Len(data) : data[i] \in R
  BY <1>4, <1>6
<1> QED BY <1>1, <1>4, <1>7, <1>8

(* One more frame of the client is one more Frame if it holds data. *)
LEMMA DataAppend ==
    ASSUME NEW fs \in Seq(Frame), NEW f \in Frame
    PROVE  LET gs == Append(fs, f)
               n == Len(fs) + 1
           IN  DataAmong(gs, n) = IF f.op \in Data THEN Append(DataAmong(fs, Len(fs)),
                                                               FrameProto(gs, n))
                                                  ELSE DataAmong(fs, Len(fs))
<1>1. PICK N \in Nat : N = Len(fs)
  OBVIOUS
<1>2. PICK gs : gs = Append(fs, f) /\ gs \in Seq(Frame)
  <2>1. Append(fs, f) \in Seq(Frame)
    OBVIOUS
  <2> QED BY <2>1
<1>3. Len(gs) = N + 1 /\ gs[N + 1] = f
  BY <1>1, <1>2
<1>4. PICK S, e, K, g : S = 1..(N + 1) /\ e = N + 1 /\ K = At(gs, Data) /\ g = ProtoOf(gs)
  OBVIOUS
<1>5. PICK u \in Seq(S) : u = Upto(N)
  BY <1>4, UptoAppend
<1>6. /\ e \in S /\ Upto(N + 1) = Append(u, e) /\ (e \in K <=> f.op \in Data)
      /\ g[e] = FrameProto(gs, N + 1)
  <2>1. e \in S /\ Upto(N + 1) = Append(u, e)
    <3>1. e \in S /\ e = N + 1
      BY <1>4
    <3>2. Upto(N + 1) = Append(Upto(N), N + 1)
      BY UptoAppend
    <3> QED BY <1>5, <3>1, <3>2, Zenon
  <2>2. e \in K <=> f.op \in Data
    BY <1>3, <1>4 DEF At
  <2>3. g[e] = FrameProto(gs, N + 1)
    BY <1>3, <1>4 DEF ProtoOf
  <2> QED BY <2>1, <2>2, <2>3
<1>7. PICK k \in Seq(S) : k = Keep(u, K)
  BY KeepType
<1>8. Keep(Append(u, e), K) = IF e \in K THEN Append(k, e) ELSE k
  <2>1. e \in S
    BY <1>6
  <2>2. Keep(Append(u, e), K) = IF e \in K THEN Append(Keep(u, K), e) ELSE Keep(u, K)
    BY <2>1, KeepAppend
  <2> QED BY <1>7, <2>2
<1>9. Each(Append(k, e), g) = Append(Each(k, g), g[e])
  <2>1. e \in S
    BY <1>6
  <2> QED BY <2>1, EachAppend
<1>10. Each(k, g) = DataAmong(fs, N)
  <2>1. Each(k, g) = DataAmong(gs, N)
    BY <1>4, <1>5, <1>7, References
  <2>2. N \in 0..Len(fs)
    BY <1>1
  <2>3. DataAmong(gs, N) = DataAmong(fs, N)
    BY <1>2, <2>2, ReferencesKept
  <2> QED BY <2>1, <2>3
<1>11. DataAmong(gs, N + 1) = Each(Keep(Append(u, e), K), g)
  BY <1>4, <1>6, References
<1> QED BY <1>1, <1>2, <1>6, <1>8, <1>9, <1>10, <1>11, Zenon

=============================================================================
