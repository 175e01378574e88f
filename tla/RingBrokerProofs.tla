-------------------------- MODULE RingBrokerProofs --------------------------
(***************************************************************************)
(* Theorems about RingBroker, for any number of UEs, any slot size and     *)
(* ring capacity, any replies, and any number of restarts and failures.    *)
(***************************************************************************)
EXTENDS RingBroker, WellFoundedInduction, TLAPS

(* The rings.                                                              *)

\* What is left of a sequence without its first d elements.
LEMMA SuffixFacts ==
  ASSUME NEW s \in Seq(Nat), NEW d \in Nat, d <= Len(s)
  PROVE  /\ SubSeq(s, d + 1, Len(s)) \in Seq(Nat)
         /\ Len(SubSeq(s, d + 1, Len(s))) = Len(s) - d
         /\ \A k \in 1 .. Len(s) - d : SubSeq(s, d + 1, Len(s))[k] = s[d + k]
<1>1. SubSeq(s, d + 1, Len(s)) \in Seq(Nat)
  OBVIOUS
<1>2. Len(SubSeq(s, d + 1, Len(s))) = Len(s) - d
  OBVIOUS
<1>3. \A k \in 1 .. Len(s) - d : SubSeq(s, d + 1, Len(s))[k] = s[d + k]
  OBVIOUS
<1> QED BY <1>1, <1>2, <1>3

\* A sequence with another one behind it.
LEMMA ConcatFacts ==
  ASSUME NEW s \in Seq(Nat), NEW t \in Seq(Nat)
  PROVE  /\ s \o t \in Seq(Nat)
         /\ Len(s \o t) = Len(s) + Len(t)
         /\ \A k \in 1 .. Len(s) : (s \o t)[k] = s[k]
         /\ \A k \in 1 .. Len(t) : (s \o t)[Len(s) + k] = t[k]
<1>1. s \o t \in Seq(Nat)
  OBVIOUS
<1>2. Len(s \o t) = Len(s) + Len(t)
  OBVIOUS
<1>3. \A k \in 1 .. Len(s) : (s \o t)[k] = s[k]
  OBVIOUS
<1>4. \A k \in 1 .. Len(t) : (s \o t)[Len(s) + k] = t[k]
  OBVIOUS
<1> QED BY <1>1, <1>2, <1>3, <1>4

\* ring_push keeps the newest samples of the stream.
LEMMA PushKeepsNewest ==
  ASSUME NEW ring \in Seq(Nat), NEW sofar \in Nat, NEW n \in Nat,
         HoldsNewest(ring, sofar)
  PROVE  LET new == RingPush(ring, Arriving(sofar, n)) IN
         /\ new \in Seq(Nat)
         /\ HoldsNewest(new, sofar + n)
         /\ Len(new) = Len(ring) + n - Dropped(Len(ring), n)
<1> DEFINE in == Arriving(sofar, n)
           drop == Dropped(Len(ring), n)
           whole == ring \o in
           new == RingPush(ring, in)
<1>1. in \in Seq(Nat) /\ Len(in) = n /\ \A k \in 1 .. n : in[k] = sofar + k
  BY DEF Arriving
<1>2. drop \in Nat /\ drop <= Len(ring) + n
  BY RingAssumption DEF Dropped
<1>3. new = SubSeq(whole, drop + 1, Len(ring) + n)
  BY <1>1 DEF RingPush
<1> HIDE DEF in, drop, new
<1>4. /\ whole \in Seq(Nat)
      /\ Len(whole) = Len(ring) + n
      /\ \A k \in 1 .. Len(ring) : whole[k] = ring[k]
      /\ \A k \in 1 .. n : whole[Len(ring) + k] = in[k]
  BY <1>1, ConcatFacts
<1> HIDE DEF whole
<1>5. \A k \in 1 .. Len(ring) + n : whole[k] = sofar - Len(ring) + k
  <2> TAKE k \in 1 .. Len(ring) + n
  <2>1. CASE k <= Len(ring)
    BY <1>4, <2>1 DEF HoldsNewest
  <2>2. CASE k > Len(ring)
    <3>1. k - Len(ring) \in 1 .. n /\ Len(ring) + (k - Len(ring)) = k
      BY <2>2
    <3>2. whole[k] = in[k - Len(ring)]
      BY <1>4, <3>1
    <3> QED BY <1>1, <3>1, <3>2
  <2> QED BY <2>1, <2>2
<1>6. /\ new \in Seq(Nat)
      /\ Len(new) = Len(ring) + n - drop
      /\ \A k \in 1 .. Len(ring) + n - drop : new[k] = whole[drop + k]
  <2>1. drop <= Len(whole) /\ new = SubSeq(whole, drop + 1, Len(whole))
    BY <1>2, <1>3, <1>4
  <2>2. /\ new \in Seq(Nat)
        /\ Len(new) = Len(whole) - drop
        /\ \A k \in 1 .. Len(whole) - drop : new[k] = whole[drop + k]
    BY <1>2, <1>4, <2>1, SuffixFacts
  <2>3. Len(whole) - drop = Len(ring) + n - drop
    BY <1>2, <1>4
  <2> QED BY <2>2, <2>3
<1>7. HoldsNewest(new, sofar + n)
  <2>1. Len(new) <= RING_CAPACITY
    BY <1>6, RingAssumption DEF Dropped, drop
  <2>2. Len(new) <= sofar + n
    BY <1>2, <1>6 DEF HoldsNewest
  <2>3. ASSUME NEW k \in 1 .. Len(new) PROVE new[k] = sofar + n - Len(new) + k
    <3>1. drop + k \in 1 .. Len(ring) + n /\ k \in 1 .. Len(ring) + n - drop
      BY <1>2, <1>6
    <3>2. new[k] = sofar - Len(ring) + (drop + k)
      BY <1>5, <1>6, <3>1
    <3> QED BY <1>2, <1>6, <3>2
  <2> QED BY <2>1, <2>2, <2>3 DEF HoldsNewest
<1> QED BY <1>6, <1>7 DEF new, in, drop

\* ring_pop_exact takes exactly n samples from the front.
LEMMA PopKeepsNewest ==
  ASSUME NEW ring \in Seq(Nat), NEW sofar \in Nat, NEW n \in Nat,
         HoldsNewest(ring, sofar), CanPop(ring, n)
  PROVE  LET new == RingPop(ring, n) IN
         /\ new \in Seq(Nat)
         /\ HoldsNewest(new, sofar)
         /\ Len(new) = Len(ring) - n
<1> DEFINE new == RingPop(ring, n)
<1>1. /\ new \in Seq(Nat)
      /\ Len(new) = Len(ring) - n
      /\ \A k \in 1 .. Len(new) : new[k] = ring[n + k]
  BY SuffixFacts DEF RingPop, CanPop
<1>2. HoldsNewest(new, sofar)
  <2> HIDE DEF new
  <2>1. /\ Len(new) \in Nat /\ Len(ring) \in Nat /\ Len(new) = Len(ring) - n
        /\ Len(ring) <= RING_CAPACITY /\ Len(ring) <= sofar
    BY <1>1 DEF HoldsNewest
  <2>2. Len(new) <= RING_CAPACITY /\ Len(new) <= sofar
    BY <2>1, RingAssumption
  <2>3. ASSUME NEW k \in 1 .. Len(new) PROVE new[k] = sofar - Len(new) + k
    <3>1. n + k \in 1 .. Len(ring) /\ new[k] = ring[n + k]
      BY <1>1, <2>1
    <3>2. ring[n + k] = sofar - Len(ring) + (n + k)
      BY <3>1 DEF HoldsNewest
    <3> QED BY <2>1, <3>1, <3>2
  <2> QED BY <2>2, <2>3 DEF HoldsNewest
<1> QED BY <1>1, <1>2

-----------------------------------------------------------------------------
(* The loop of ring_push.                                                  *)

Less == {ss \in Nat \X Nat : ss[1] < ss[2]}

\* A set of natural numbers has a least one: induction, as a fact about sets.
LEMMA LeastNumber ==
  ASSUME NEW T, T \subseteq Nat, T # {}
  PROVE  \E x \in T : \A y \in T : x <= y
<1>1. IsWellFoundedOn(Less, Nat)
  BY NatLessThanWellFounded, Zenon DEF OpToRel, Less
<1>2. PICK x \in T : \A y \in T : ~(<<y, x>> \in Less)
  BY <1>1, WFMin
<1>3. ASSUME NEW y \in T PROVE x <= y
  <2>1. x \in Nat /\ y \in Nat
    OBVIOUS
  <2>2. ~(<<y, x>> \in Less)
    BY <1>2
  <2>3. ~(y < x)
    BY <2>1, <2>2 DEF Less
  <2> QED BY <2>1, <2>3
<1> QED BY <1>3

\* Whatever starts like the loop and goes on like the loop is what the loop
\* computes.
LEMMA LoopComputes ==
  ASSUME NEW ring, NEW in \in Seq(Nat), NEW h,
         h = [i \in 0 .. Len(in) |-> h[i]],
         h[0] = ring,
         \A i \in 1 .. Len(in) : h[i] = PushOne(h[i - 1], in[i])
  PROVE  PushLoop(ring, in) = h[Len(in)]
<1> DEFINE D == 0 .. Len(in)
           Is(f) == f = [i \in D |-> IF i = 0 THEN ring ELSE PushOne(f[i - 1], in[i])]
           pushed == CHOOSE f : Is(f)
<1>1. Len(in) \in Nat
  OBVIOUS
<1>2. PushLoop(ring, in) = pushed[Len(in)]
  BY DEF PushLoop
<1>3. Is(h)
  <2>1. \A i \in D : i # 0 => i \in 1 .. Len(in)
    BY <1>1
  <2>2. \A i \in D : h[i] = IF i = 0 THEN ring ELSE PushOne(h[i - 1], in[i])
    BY <2>1
  <2> QED BY <2>2
<1>4. Is(pushed)
  <2> HIDE DEF Is
  <2> QED BY <1>3
<1>5. \A i \in D : pushed[i] = IF i = 0 THEN ring ELSE PushOne(pushed[i - 1], in[i])
  <2> HIDE DEF pushed
  <2> QED BY <1>4
<1> HIDE DEF Is, pushed
<1>6. \A i \in D : pushed[i] = h[i]
  <2> DEFINE T == {i \in D : pushed[i] # h[i]}
  <2> SUFFICES ASSUME T # {} PROVE FALSE
    OBVIOUS
  <2>1. T \subseteq Nat
    BY <1>1
  <2>2. PICK x \in T : \A y \in T : x <= y
    <3> HIDE DEF T
    <3> QED BY <2>1, LeastNumber
  <2>3. x # 0
    <3>1. pushed[0] = ring
      BY <1>1, <1>5
    <3> QED BY <3>1
  <2>4. x - 1 \in D /\ x - 1 \notin T /\ x \in 1 .. Len(in)
    BY <1>1, <2>2, <2>3
  <2>5. pushed[x] = PushOne(h[x - 1], in[x])
    BY <1>5, <2>3, <2>4
  <2> QED BY <2>4, <2>5
<1> QED BY <1>1, <1>2, <1>6

\* The length and the samples of a ring after a push.
LEMMA PushFacts ==
  ASSUME NEW ring \in Seq(Nat), NEW in \in Seq(Nat)
  PROVE  /\ RingPush(ring, in) \in Seq(Nat)
         /\ Len(RingPush(ring, in)) = Len(ring) + Len(in) - Dropped(Len(ring), Len(in))
         /\ \A k \in 1 .. Len(RingPush(ring, in)) :
              RingPush(ring, in)[k] = (ring \o in)[Dropped(Len(ring), Len(in)) + k]
<1> DEFINE drop == Dropped(Len(ring), Len(in))
           whole == ring \o in
<1>1. Len(ring) \in Nat /\ Len(in) \in Nat /\ RING_CAPACITY \in Nat
  BY RingAssumption
<1>2. drop \in Nat /\ drop <= Len(ring) + Len(in)
  BY <1>1 DEF Dropped
<1>3. whole \in Seq(Nat) /\ Len(whole) = Len(ring) + Len(in)
  BY ConcatFacts
<1>4. RingPush(ring, in) = SubSeq(whole, drop + 1, Len(whole))
  BY <1>3 DEF RingPush
<1> HIDE DEF drop, whole
<1> DEFINE new == SubSeq(whole, drop + 1, Len(whole))
<1>5. /\ new \in Seq(Nat)
      /\ Len(new) = Len(whole) - drop
      /\ \A k \in 1 .. Len(whole) - drop : new[k] = whole[drop + k]
  BY <1>2, <1>3, SuffixFacts
<1> HIDE DEF new
<1>6. /\ Len(new) = Len(ring) + Len(in) - drop
      /\ \A k \in 1 .. Len(new) : new[k] = whole[drop + k]
  BY <1>1, <1>2, <1>3, <1>5
<1> QED BY <1>4, <1>5, <1>6 DEF drop, whole, new

\* Sequences that are as long and have the same elements are the same.
LEMMA SameSeq ==
  ASSUME NEW s \in Seq(Nat), NEW t \in Seq(Nat), Len(s) = Len(t),
         \A k \in 1 .. Len(s) : s[k] = t[k]
  PROVE  s = t
OBVIOUS

\* To push one more sample is to push it after the others.
LEMMA PushNext ==
  ASSUME NEW ring \in Seq(Nat), Len(ring) <= RING_CAPACITY,
         NEW in \in Seq(Nat), NEW i \in 1 .. Len(in)
  PROVE  RingPush(ring, SubSeq(in, 1, i)) = PushOne(RingPush(ring, SubSeq(in, 1, i - 1)), in[i])
<1>1. PICK L \in Nat, a \in Seq(Nat), b \in Seq(Nat) :
        L = Len(ring) /\ a = SubSeq(in, 1, i - 1) /\ b = SubSeq(in, 1, i)
  <2>1. SubSeq(in, 1, i - 1) \in Seq(Nat)
    OBVIOUS
  <2>2. SubSeq(in, 1, i) \in Seq(Nat)
    OBVIOUS
  <2>3. Len(ring) \in Nat
    OBVIOUS
  <2> QED BY <2>1, <2>2, <2>3
<1>2. /\ Len(a) = i - 1 /\ \A k \in 1 .. i - 1 : a[k] = in[k]
      /\ Len(b) = i /\ \A k \in 1 .. i : b[k] = in[k]
  BY <1>1
<1>3. /\ i \in Nat \ {0} /\ i - 1 \in Nat /\ in[i] \in Nat
      /\ RING_CAPACITY \in Nat \ {0} /\ L <= RING_CAPACITY
  BY <1>1, RingAssumption
<1>4. PICK da \in Nat, db \in Nat :
        /\ da = Dropped(L, i - 1) /\ db = Dropped(L, i)
        /\ L + (i - 1) - da \in Nat /\ da <= db
        /\ L + (i - 1) - da >= RING_CAPACITY => db = da + 1 /\ L + (i - 1) - da > 0
        /\ ~(L + (i - 1) - da >= RING_CAPACITY) => db = da
  <2>1. CASE L + i <= RING_CAPACITY
    <3>1. Dropped(L, i - 1) = 0 /\ Dropped(L, i) = 0
      BY <1>3, <2>1 DEF Dropped
    <3> QED BY <1>3, <2>1, <3>1
  <2>2. CASE L + i > RING_CAPACITY
    <3>1. /\ Dropped(L, i - 1) = L + (i - 1) - RING_CAPACITY
          /\ Dropped(L, i) = L + i - RING_CAPACITY
      BY <1>3, <2>2 DEF Dropped
    <3>2. L + (i - 1) - RING_CAPACITY \in Nat /\ L + i - RING_CAPACITY \in Nat
      BY <1>3, <2>2
    <3> QED BY <1>3, <2>2, <3>1, <3>2
  <2> QED BY <1>3, <2>1, <2>2
\* The samples behind each other, before and after the last one.
<1>5. PICK wa, wb : wa = ring \o a /\ wb = ring \o b
  OBVIOUS
<1>6. /\ \A k \in 1 .. L : wa[k] = ring[k] /\ wb[k] = ring[k]
      /\ \A k \in 1 .. i - 1 : wa[L + k] = in[k]
      /\ \A k \in 1 .. i : wb[L + k] = in[k]
  <2>1. /\ \A k \in 1 .. Len(ring) : wa[k] = ring[k]
        /\ \A k \in 1 .. Len(a) : wa[Len(ring) + k] = a[k]
    BY <1>5, ConcatFacts
  <2>2. /\ \A k \in 1 .. Len(ring) : wb[k] = ring[k]
        /\ \A k \in 1 .. Len(b) : wb[Len(ring) + k] = b[k]
    BY <1>5, ConcatFacts
  <2> QED BY <1>1, <1>2, <2>1, <2>2
<1>7. \A k \in 1 .. L + i - 1 : wa[k] = wb[k]
  <2> SUFFICES ASSUME NEW k \in 1 .. L + i - 1 PROVE wa[k] = wb[k]
    OBVIOUS
  <2>1. CASE k \in 1 .. L
    BY <1>6, <2>1
  <2>2. CASE k \notin 1 .. L
    <3>1. k - L \in 1 .. i - 1 /\ k - L \in 1 .. i /\ L + (k - L) = k
      BY <1>3, <2>2
    <3>2. wa[L + (k - L)] = in[k - L] /\ wb[L + (k - L)] = in[k - L]
      BY <1>6, <3>1
    <3> QED BY <3>1, <3>2
  <2> QED BY <2>1, <2>2
<1>8. wb[L + i] = in[i]
  BY <1>3, <1>6
\* The rings before and after the last one.
<1>9. PICK before, after :
        before = RingPush(ring, a) /\ after = RingPush(ring, b)
  OBVIOUS
<1>10. /\ before \in Seq(Nat) /\ Len(before) = L + (i - 1) - da
       /\ \A k \in 1 .. Len(before) : before[k] = wa[da + k]
  <2>1. /\ before \in Seq(Nat)
        /\ Len(before) = Len(ring) + Len(a) - Dropped(Len(ring), Len(a))
        /\ \A k \in 1 .. Len(before) :
             before[k] = (ring \o a)[Dropped(Len(ring), Len(a)) + k]
    BY <1>9, PushFacts
  <2>2. Dropped(Len(ring), Len(a)) = da /\ ring \o a = wa
    BY <1>1, <1>2, <1>4, <1>5
  <2> QED BY <1>1, <1>2, <2>1, <2>2
<1>11. /\ after \in Seq(Nat) /\ Len(after) = L + i - db
       /\ \A k \in 1 .. Len(after) : after[k] = wb[db + k]
  <2>1. /\ after \in Seq(Nat)
        /\ Len(after) = Len(ring) + Len(b) - Dropped(Len(ring), Len(b))
        /\ \A k \in 1 .. Len(after) :
             after[k] = (ring \o b)[Dropped(Len(ring), Len(b)) + k]
    BY <1>9, PushFacts
  <2>2. Dropped(Len(ring), Len(b)) = db /\ ring \o b = wb
    BY <1>1, <1>2, <1>4, <1>5
  <2> QED BY <1>1, <1>2, <2>1, <2>2
<1>12. PICK cut : cut = IF Len(before) >= RING_CAPACITY THEN Tail(before) ELSE before
  OBVIOUS
<1>13. /\ cut \in Seq(Nat) /\ Len(cut) = L + (i - 1) - db
       /\ \A k \in 1 .. Len(cut) : cut[k] = before[k + (db - da)]
  <2>1. CASE Len(before) >= RING_CAPACITY
    <3>1. before # <<>> /\ db = da + 1
      BY <1>3, <1>4, <1>10, <2>1
    <3>2. /\ cut \in Seq(Nat) /\ Len(cut) = Len(before) - 1
          /\ \A k \in 1 .. Len(cut) : cut[k] = before[k + 1]
      BY <1>10, <1>12, <2>1, <3>1
    <3>3. db - da = 1 /\ Len(before) - 1 = L + (i - 1) - db
      BY <1>3, <1>10, <3>1
    <3> QED BY <3>2, <3>3
  <2>2. CASE ~(Len(before) >= RING_CAPACITY)
    <3>1. db = da /\ db - da = 0 /\ cut = before
      BY <1>4, <1>10, <1>12, <2>2
    <3>2. \A k \in 1 .. Len(cut) : k + (db - da) = k
      BY <3>1
    <3> QED BY <1>10, <3>1, <3>2
  <2> QED BY <2>1, <2>2
<1>14. PICK one : one = Append(cut, in[i])
  OBVIOUS
<1>15. /\ one \in Seq(Nat) /\ Len(one) = Len(cut) + 1 /\ one[Len(cut) + 1] = in[i]
       /\ \A k \in 1 .. Len(cut) : one[k] = cut[k]
  BY <1>3, <1>13, <1>14
<1>16. Len(one) = Len(after) /\ Len(cut) + 1 = Len(after) /\ Len(cut) \in Nat
  BY <1>3, <1>11, <1>13, <1>15
<1>17. ASSUME NEW k \in 1 .. Len(after) PROVE after[k] = one[k]
  <2>1. after[k] = wb[db + k]
    BY <1>11
  <2>2. CASE k = Len(after)
    <3>1. db + k = L + i
      BY <1>3, <1>11, <2>2
    <3> QED BY <1>8, <1>15, <1>16, <2>1, <2>2, <3>1
  <2>3. CASE k # Len(after)
    <3>1. k \in 1 .. Len(cut)
      BY <1>16, <2>3
    <3>2. /\ k + (db - da) \in 1 .. Len(before) /\ da + (k + (db - da)) = db + k
          /\ db + k \in 1 .. L + i - 1
      <4>1. k \in Nat /\ 1 <= k /\ k <= L + (i - 1) - db
        BY <1>13, <3>1
      <4>2. i \in Nat /\ da <= db
        BY <1>3, <1>4
      <4>3. /\ 1 <= k + (db - da) /\ k + (db - da) <= L + (i - 1) - da
            /\ 1 <= db + k /\ db + k <= L + i - 1
            /\ k + (db - da) \in Int /\ da + (k + (db - da)) = db + k
        BY <4>1, <4>2
      <4> QED BY <1>10, <4>1, <4>2, <4>3
    <3>3. one[k] = wa[da + (k + (db - da))]
      BY <1>10, <1>13, <1>15, <3>1, <3>2
    <3> QED BY <1>7, <2>1, <3>2, <3>3
  <2> QED BY <2>2, <2>3
<1>18. after = one
  BY <1>11, <1>15, <1>16, <1>17, SameSeq
<1>19. PushOne(before, in[i]) = one
  BY <1>12, <1>14 DEF PushOne
<1> QED BY <1>1, <1>9, <1>18, <1>19

\* ring_push, at once and sample by sample.
LEMMA PushIsLoop ==
  ASSUME NEW ring \in Seq(Nat), Len(ring) <= RING_CAPACITY, NEW in \in Seq(Nat)
  PROVE  RingPush(ring, in) = PushLoop(ring, in)
<1> DEFINE h == [i \in 0 .. Len(in) |-> RingPush(ring, SubSeq(in, 1, i))]
<1>1. Len(in) \in Nat /\ Len(ring) \in Nat /\ RING_CAPACITY \in Nat
  BY RingAssumption
<1>2. h[0] = ring
  <2>1. SubSeq(in, 1, 0) \in Seq(Nat) /\ Len(SubSeq(in, 1, 0)) = 0
    OBVIOUS
  <2>2. Dropped(Len(ring), 0) = 0
    BY <1>1 DEF Dropped
  <2>0. PICK none, new : none = SubSeq(in, 1, 0) /\ new = RingPush(ring, none)
    OBVIOUS
  <2>3. /\ new \in Seq(Nat) /\ Len(new) = Len(ring)
        /\ \A k \in 1 .. Len(new) : new[k] = (ring \o none)[k]
    <3>1. /\ new \in Seq(Nat) /\ Len(new) = Len(ring) + 0 - 0
          /\ \A k \in 1 .. Len(new) : new[k] = (ring \o none)[0 + k]
      <4>1. /\ new \in Seq(Nat) /\ Len(new) = Len(ring) + Len(none) - Dropped(Len(ring), Len(none))
            /\ \A k \in 1 .. Len(new) :
                 new[k] = (ring \o none)[Dropped(Len(ring), Len(none)) + k]
        BY <2>0, <2>1, PushFacts
      <4> QED BY <2>0, <2>1, <2>2, <4>1
    <3> QED BY <1>1, <3>1
  <2>4. \A k \in 1 .. Len(ring) : (ring \o none)[k] = ring[k]
    BY <2>0, <2>1, ConcatFacts
  <2>5. new = ring
    BY <2>3, <2>4, SameSeq
  <2> QED BY <1>1, <2>0, <2>5
<1>3. \A i \in 1 .. Len(in) : h[i] = PushOne(h[i - 1], in[i])
  <2> TAKE i \in 1 .. Len(in)
  <2>1. i \in 0 .. Len(in) /\ i - 1 \in 0 .. Len(in)
    BY <1>1
  <2> QED BY <2>1, PushNext
<1>4. h[Len(in)] = RingPush(ring, in)
  <2>1. SubSeq(in, 1, Len(in)) = in
    OBVIOUS
  <2>2. Len(in) \in 0 .. Len(in)
    BY <1>1
  <2> QED BY <2>1, <2>2
<1>5. h = [i \in 0 .. Len(in) |-> h[i]]
  OBVIOUS
<1> HIDE DEF h
<1>6. PushLoop(ring, in) = h[Len(in)]
  BY <1>2, <1>3, <1>5, LoopComputes
<1> QED BY <1>4, <1>6

-----------------------------------------------------------------------------
(* Types.                                                                  *)

\* What every socket call and every act of a peer does to the links is legal.
LEMMA LinksType ==
  ASSUME LinksTypeOK(Replies), NEW p \in Peers,
         \/ ReqSend(p) \/ ReqRecv(p) \/ RepRecv(p) \/ RepSend(p)
         \/ PeerAsk(p) \/ PeerRestart(p)
         \/ \E r \in Replies : PeerAnswer(p, r)
         \/ UNCHANGED linkVars
  PROVE  LinksTypeOK(Replies)'
<1> USE DEF LinksTypeOK, PullStates, AskStates
<1>1. CASE ReqSend(p)
  BY <1>1 DEF ReqSend, repVars
<1>2. CASE ReqRecv(p)
  BY <1>2 DEF ReqRecv, repVars
<1>3. CASE RepRecv(p)
  BY <1>3 DEF RepRecv, RequestQueued, reqVars
<1>4. CASE RepSend(p)
  BY <1>4 DEF RepSend, reqVars
<1>5. CASE PeerAsk(p)
  BY <1>5 DEF PeerAsk, reqVars
<1>6. CASE PeerRestart(p)
  BY <1>6, LinksAssumption DEF PeerRestart
<1>7. CASE \E r \in Replies : PeerAnswer(p, r)
  BY <1>7 DEF PeerAnswer, repVars
<1>8. CASE UNCHANGED linkVars
  BY <1>8 DEF linkVars
<1> QED BY <1>1, <1>2, <1>3, <1>4, <1>5, <1>6, <1>7, <1>8

LoopTypeOK ==
  /\ stage \in Stages
  /\ cur \in Peers
  /\ stage = "dl" => cur \in Ues
  /\ stage = "ul" => cur = Gnb

\* The order of the calls leads from a call of the loop to another.
LEMMA LoopType ==
  ASSUME LoopTypeOK, NEW p \in Peers,
         \/ Goto("recv", p) \/ AfterPull(p) \/ AfterListen(p) \/ AfterUl
         \/ p \in Ues /\ AfterDl(p)
         \/ UNCHANGED loopVars
  PROVE  LoopTypeOK'
  BY LinksAssumption
  DEF LoopTypeOK, Stages, Peers, Ues, Gnb, Goto, AfterPull, AfterListen,
      AfterDl, AfterUl, loopVars

DataTypeOK ==
  /\ waiting \in [Peers -> BOOLEAN]
  /\ request_pending \in [Peers -> BOOLEAN]
  /\ dl_ring \in [Ues -> Seq(Nat)]
  /\ ul_ring \in [Ues -> Seq(Nat)]
  /\ failures \in 0 .. MaxSendFailures
  /\ accepted \in [Peers -> Nat]
  /\ lastDl \in [Ues -> Nat]
  /\ lastUl \in [Ues -> Nat]
  /\ dlGap \subseteq Ues
  /\ ulGap \subseteq Ues

LEMMA TypeParts == TypeOK <=> LinksTypeOK(Replies) /\ LoopTypeOK /\ DataTypeOK
  BY DEF TypeOK, LoopTypeOK, DataTypeOK

LEMMA PeerFacts ==
  /\ Gnb \in Peers
  /\ Ues \subseteq Peers
  /\ Gnb \notin Ues
  /\ 1 \in Ues
  BY LinksAssumption DEF Gnb, Peers, Ues

\* A full ring stays full and a sound one sound: PushKeepsNewest and
\* PopKeepsNewest for all the rings at once.
LEMMA PushAll ==
  ASSUME DataTypeOK, RingHoldsNewest, NEW u \in Ues, NEW n \in Nat
  PROVE  /\ LET new == RingPush(dl_ring[u], Arriving(accepted[Gnb], n)) IN
              /\ new \in Seq(Nat)
              /\ HoldsNewest(new, accepted[Gnb] + n)
              /\ Len(new) = Len(dl_ring[u]) + n - Dropped(Len(dl_ring[u]), n)
         /\ LET new == RingPush(ul_ring[u], Arriving(accepted[u], n)) IN
              /\ new \in Seq(Nat)
              /\ HoldsNewest(new, accepted[u] + n)
              /\ Len(new) = Len(ul_ring[u]) + n - Dropped(Len(ul_ring[u]), n)
<1>1. /\ dl_ring[u] \in Seq(Nat)
      /\ ul_ring[u] \in Seq(Nat)
      /\ accepted[Gnb] \in Nat
      /\ accepted[u] \in Nat
      /\ HoldsNewest(dl_ring[u], accepted[Gnb])
      /\ HoldsNewest(ul_ring[u], accepted[u])
  BY PeerFacts DEF DataTypeOK, RingHoldsNewest
<1> QED BY <1>1, PushKeepsNewest

LEMMA PopOne ==
  ASSUME DataTypeOK, RingHoldsNewest, NEW u \in Ues
  PROVE  /\ CanPop(dl_ring[u], SAMPLES_PER_SLOT) =>
              LET new == RingPop(dl_ring[u], SAMPLES_PER_SLOT) IN
              /\ new \in Seq(Nat)
              /\ HoldsNewest(new, accepted[Gnb])
              /\ Len(new) = Len(dl_ring[u]) - SAMPLES_PER_SLOT
              /\ dl_ring[u][SAMPLES_PER_SLOT] = DlHead(u) + SAMPLES_PER_SLOT
         /\ CanPop(ul_ring[u], SAMPLES_PER_SLOT) =>
              LET new == RingPop(ul_ring[u], SAMPLES_PER_SLOT) IN
              /\ new \in Seq(Nat)
              /\ HoldsNewest(new, accepted[u])
              /\ Len(new) = Len(ul_ring[u]) - SAMPLES_PER_SLOT
              /\ ul_ring[u][SAMPLES_PER_SLOT] = UlHead(u) + SAMPLES_PER_SLOT
<1>1. /\ dl_ring[u] \in Seq(Nat)
      /\ ul_ring[u] \in Seq(Nat)
      /\ accepted[Gnb] \in Nat
      /\ accepted[u] \in Nat
      /\ HoldsNewest(dl_ring[u], accepted[Gnb])
      /\ HoldsNewest(ul_ring[u], accepted[u])
  BY PeerFacts DEF DataTypeOK, RingHoldsNewest
<1>2. CanPop(dl_ring[u], SAMPLES_PER_SLOT) =>
        dl_ring[u][SAMPLES_PER_SLOT] = DlHead(u) + SAMPLES_PER_SLOT
  BY <1>1, RingAssumption DEF HoldsNewest, CanPop, DlHead
<1>3. CanPop(ul_ring[u], SAMPLES_PER_SLOT) =>
        ul_ring[u][SAMPLES_PER_SLOT] = UlHead(u) + SAMPLES_PER_SLOT
  BY <1>1, RingAssumption DEF HoldsNewest, CanPop, UlHead
<1> QED BY <1>1, <1>2, <1>3, PopKeepsNewest, RingAssumption

-----------------------------------------------------------------------------
(* The inductive invariant.                                                *)

IInv ==
  /\ TypeOK
  /\ SocketAgreement
  /\ RingHoldsNewest
  /\ SentOnce
  /\ DlGapless
  /\ UlAligned

LEMMA InitIInv == Init => IInv
<1> SUFFICES ASSUME Init PROVE IInv
  OBVIOUS
<1>1. TypeOK
  BY LinksAssumption, RingAssumption
  DEF Init, LinksInit, TypeOK, LinksTypeOK, Stages, PullStates, AskStates,
      Gnb, Ues, Peers
<1>2. SocketAgreement
  BY DEF Init, LinksInit, SocketAgreement
<1>3. RingHoldsNewest
  BY RingAssumption, PeerFacts DEF Init, RingHoldsNewest, HoldsNewest
<1>4. SentOnce /\ DlGapless /\ UlAligned
  BY PeerFacts DEF Init, SentOnce, DlGapless, UlAligned, DlHead, UlHead
<1> QED BY <1>1, <1>2, <1>3, <1>4 DEF IInv

\* Every step keeps the types.
LEMMA TypeStep == IInv /\ [Next]_vars => TypeOK'
<1> SUFFICES ASSUME IInv, [Next]_vars PROVE TypeOK'
  OBVIOUS
<1>1. LinksTypeOK(Replies) /\ LoopTypeOK /\ DataTypeOK /\ RingHoldsNewest
  BY TypeParts DEF IInv
<1> DEFINE Parts == LinksTypeOK(Replies)' /\ LoopTypeOK' /\ DataTypeOK'
<1>2. ASSUME NEW p \in Peers, SendRequest(p) PROVE Parts
  <2>1. ReqSend(p) \/ UNCHANGED linkVars
    BY <1>2 DEF SendRequest
  <2>2. Goto("recv", p) \/ AfterPull(p)
    BY <1>2 DEF SendRequest
  <2>3. failures' \in 0 .. MaxSendFailures
    BY <1>1, <1>2, RingAssumption DEF SendRequest, SendRefused, DataTypeOK
  <2>4. waiting' \in [Peers -> BOOLEAN]
    BY <1>1, <1>2 DEF SendRequest, DataTypeOK
  <2>5. DataTypeOK'
    BY <1>1, <1>2, <2>3, <2>4 DEF SendRequest, DataTypeOK, ringVars, histVars
  <2> QED BY <1>1, <2>1, <2>2, <2>5, LinksType, LoopType
<1>3. ASSUME NEW p \in Peers, NothingToReceive(p) PROVE Parts
  <2>1. DataTypeOK'
    BY <1>1, <1>3 DEF NothingToReceive, DataTypeOK, flagVars, ringVars, histVars
  <2> QED BY <1>1, <1>3, <2>1, LinksType, LoopType DEF NothingToReceive
<1>4. ASSUME NEW p \in Peers, DiscardReply(p) PROVE Parts
  <2>1. DataTypeOK'
    BY <1>1, <1>4 DEF DiscardReply, DataTypeOK, ringVars, histVars
  <2> QED BY <1>1, <1>4, <2>1, LinksType, LoopType DEF DiscardReply
<1>5. ASSUME NEW p \in Peers, Listen(p) PROVE Parts
  <2>1. DataTypeOK'
    BY <1>1, <1>5 DEF Listen, DataTypeOK, ringVars, histVars
  <2> QED BY <1>1, <1>5, <2>1, LinksType, LoopType DEF Listen
<1>6. ASSUME PullFromGnb PROVE Parts
  <2>1. reply[Gnb] \in Nat
    BY <1>6, RingAssumption DEF PullFromGnb
  <2>2. dl_ring' \in [Ues -> Seq(Nat)]
    BY <1>1, <1>6, <2>1, PushAll DEF PullFromGnb
  <2>3. DataTypeOK'
    BY <1>1, <1>6, <2>1, <2>2, PeerFacts DEF PullFromGnb, DataTypeOK
  <2> QED BY <1>1, <1>6, <2>3, PeerFacts, LinksType, LoopType DEF PullFromGnb
<1>7. ASSUME NEW u \in Ues, PullFromUe(u) PROVE Parts
  <2>1. reply[u] \in Nat
    BY <1>7, RingAssumption DEF PullFromUe
  <2>2. ul_ring' \in [Ues -> Seq(Nat)]
    BY <1>1, <1>7, <2>1, PushAll DEF PullFromUe, DataTypeOK
  <2>3. DataTypeOK'
    BY <1>1, <1>7, <2>1, <2>2, PeerFacts DEF PullFromUe, DataTypeOK
  <2> QED BY <1>1, <1>7, <2>3, PeerFacts, LinksType, LoopType DEF PullFromUe
<1>8. ASSUME NEW u \in Ues, SkipUe(u) PROVE Parts
  <2>1. DataTypeOK'
    BY <1>1, <1>8 DEF SkipUe, DataTypeOK, flagVars, ringVars, histVars
  <2> QED BY <1>1, <1>8, <2>1, PeerFacts, LinksType, LoopType DEF SkipUe
<1>9. ASSUME NEW u \in Ues, ServeUe(u) PROVE Parts
  <2>1. /\ RingPop(dl_ring[u], SAMPLES_PER_SLOT) \in Seq(Nat)
        /\ dl_ring[u][SAMPLES_PER_SLOT] \in Nat
    BY <1>1, <1>9, PopOne, RingAssumption DEF ServeUe, CanPop, DataTypeOK
  <2>2. DataTypeOK'
    BY <1>1, <1>9, <2>1, PeerFacts DEF ServeUe, DataTypeOK
  <2> QED BY <1>1, <1>9, <2>2, PeerFacts, LinksType, LoopType DEF ServeUe
<1>10. ASSUME NEW u \in Ues, LoseUeSlot(u) PROVE Parts
  <2>1. RingPop(dl_ring[u], SAMPLES_PER_SLOT) \in Seq(Nat)
    BY <1>1, <1>10, PopOne DEF LoseUeSlot
  <2>2. DataTypeOK'
    BY <1>1, <1>10, <2>1, RingAssumption
    DEF LoseUeSlot, SendRefused, DataTypeOK, flagVars
  <2> QED BY <1>1, <1>10, <2>2, PeerFacts, LinksType, LoopType DEF LoseUeSlot
<1>11. ASSUME SkipGnb PROVE Parts
  <2>1. DataTypeOK'
    BY <1>1, <1>11 DEF SkipGnb, DataTypeOK, flagVars, ringVars, histVars
  <2> QED BY <1>1, <1>11, <2>1, PeerFacts, LinksType, LoopType DEF SkipGnb
<1>12. ASSUME ServeGnb PROVE Parts
  <2>1. \A u \in Ues : /\ RingPop(ul_ring[u], SAMPLES_PER_SLOT) \in Seq(Nat)
                       /\ ul_ring[u][SAMPLES_PER_SLOT] \in Nat
    BY <1>1, <1>12, PopOne, RingAssumption
    DEF ServeGnb, AllReady, CanPop, DataTypeOK
  <2>2. DataTypeOK'
    BY <1>1, <1>12, <2>1, PeerFacts DEF ServeGnb, PopAll, DataTypeOK
  <2> QED BY <1>1, <1>12, <2>2, PeerFacts, LinksType, LoopType DEF ServeGnb
<1>13. ASSUME LoseGnbSlot PROVE Parts
  <2>1. \A u \in Ues : RingPop(ul_ring[u], SAMPLES_PER_SLOT) \in Seq(Nat)
    BY <1>1, <1>13, PopOne DEF LoseGnbSlot, AllReady
  <2>2. DataTypeOK'
    BY <1>1, <1>13, <2>1, RingAssumption
    DEF LoseGnbSlot, PopAll, SendRefused, DataTypeOK, flagVars, histVars
  <2> QED BY <1>1, <1>13, <2>2, PeerFacts, LinksType, LoopType DEF LoseGnbSlot
<1>14. ASSUME UNCHANGED brokerVars PROVE LoopTypeOK' /\ DataTypeOK'
  BY <1>1, <1>14
  DEF brokerVars, LoopTypeOK, DataTypeOK, loopVars, flagVars, ringVars, histVars
<1>15. ASSUME NEW p \in Peers, Answer(p) \/ Ask(p) \/ Restart(p) PROVE Parts
  <2>1. LinksTypeOK(Replies)'
    BY <1>1, <1>15, LinksType DEF Answer, Ask, Restart
  <2> QED BY <1>14, <1>15, <2>1 DEF Answer, Ask, Restart
<1>16. ASSUME UNCHANGED vars PROVE Parts
  BY <1>1, <1>14, <1>16, PeerFacts, LinksType DEF vars, brokerVars
<1>17. Parts
  BY <1>2, <1>3, <1>4, <1>5, <1>6, <1>7, <1>8, <1>9, <1>10, <1>11, <1>12,
     <1>13, <1>15, <1>16
  DEF Next, BrokerNext, PeerNext, Pull
<1> QED BY <1>17 DEF TypeOK, LoopTypeOK, DataTypeOK

\* Every step keeps the flags in agreement with the sockets.
LEMMA AgreementStep == IInv /\ [Next]_vars => SocketAgreement'
<1> SUFFICES ASSUME IInv, [Next]_vars PROVE SocketAgreement'
  OBVIOUS
<1>1. SocketAgreement /\ LinksTypeOK(Replies) /\ DataTypeOK
  BY TypeParts DEF IInv
<1> USE DEF SocketAgreement, LinksTypeOK, DataTypeOK
<1>2. ASSUME NEW p \in Peers, SendRequest(p) PROVE SocketAgreement'
  BY <1>1, <1>2 DEF SendRequest, ReqSend, repVars, linkVars
<1>3. ASSUME NEW p \in Peers, NothingToReceive(p) PROVE SocketAgreement'
  BY <1>1, <1>3 DEF NothingToReceive, linkVars, flagVars
<1>4. ASSUME NEW p \in Peers, DiscardReply(p) PROVE SocketAgreement'
  BY <1>1, <1>4 DEF DiscardReply, ReqRecv, repVars
<1>5. ASSUME NEW p \in Peers, Listen(p) PROVE SocketAgreement'
  BY <1>1, <1>5 DEF Listen, RepRecv, reqVars, linkVars
<1>6. ASSUME PullFromGnb PROVE SocketAgreement'
  BY <1>1, <1>6, PeerFacts DEF PullFromGnb, ReqRecv, repVars
<1>7. ASSUME NEW u \in Ues, PullFromUe(u) PROVE SocketAgreement'
  BY <1>1, <1>7, PeerFacts DEF PullFromUe, ReqRecv, repVars
<1>8. ASSUME NEW u \in Ues, ServeUe(u) PROVE SocketAgreement'
  BY <1>1, <1>8, PeerFacts DEF ServeUe, RepSend, reqVars
<1>9. ASSUME ServeGnb PROVE SocketAgreement'
  BY <1>1, <1>9, PeerFacts DEF ServeGnb, RepSend, reqVars
<1>10. ASSUME UNCHANGED linkVars, UNCHANGED flagVars PROVE SocketAgreement'
  BY <1>1, <1>10 DEF linkVars, flagVars
<1>11. ASSUME NEW u \in Ues, SkipUe(u) \/ LoseUeSlot(u) PROVE SocketAgreement'
  BY <1>10, <1>11 DEF SkipUe, LoseUeSlot
<1>12. ASSUME SkipGnb \/ LoseGnbSlot PROVE SocketAgreement'
  BY <1>10, <1>12 DEF SkipGnb, LoseGnbSlot
<1>13. ASSUME NEW p \in Peers, Answer(p) PROVE SocketAgreement'
  BY <1>1, <1>13 DEF Answer, PeerAnswer, repVars, brokerVars, flagVars
<1>14. ASSUME NEW p \in Peers, Ask(p) \/ Restart(p) PROVE SocketAgreement'
  BY <1>1, <1>14
  DEF Ask, Restart, PeerAsk, PeerRestart, reqVars, brokerVars, flagVars
<1>15. CASE UNCHANGED vars
  BY <1>10, <1>15 DEF vars
<1> QED
  BY <1>2, <1>3, <1>4, <1>5, <1>6, <1>7, <1>8, <1>9, <1>11, <1>12, <1>13,
     <1>14, <1>15
  DEF Next, BrokerNext, PeerNext, Pull

-----------------------------------------------------------------------------
(* The steps that touch the rings.                                         *)

StreamInv == RingHoldsNewest /\ SentOnce /\ DlGapless /\ UlAligned

\* The gNB's samples go to the ring of every UE: no head moves but by what a
\* full ring drops.
LEMMA PullFromGnbStep == IInv /\ PullFromGnb => StreamInv'
<1> SUFFICES ASSUME IInv, PullFromGnb PROVE StreamInv'
  OBVIOUS
<1>1. DataTypeOK /\ RingHoldsNewest /\ SentOnce /\ DlGapless /\ UlAligned
  BY TypeParts DEF IInv
<1> DEFINE n == reply[Gnb]
<1>2. n \in Nat
  BY RingAssumption DEF PullFromGnb
<1>3. /\ accepted' = [accepted EXCEPT ![Gnb] = @ + n]
      /\ dl_ring' = [u \in Ues |->
                       RingPush(dl_ring[u], Arriving(accepted[Gnb], n))]
      /\ dlGap' = dlGap \cup {u \in Ues : Dropped(Len(dl_ring[u]), n) > 0}
      /\ UNCHANGED <<ul_ring, lastDl, lastUl, ulGap>>
  BY DEF PullFromGnb
<1> HIDE DEF n
<1>4. accepted'[Gnb] = accepted[Gnb] + n /\ \A u \in Ues : accepted'[u] = accepted[u]
  BY <1>1, <1>3, PeerFacts DEF DataTypeOK
<1>5. \A u \in Ues :
        /\ dl_ring'[u] \in Seq(Nat)
        /\ HoldsNewest(dl_ring'[u], accepted[Gnb] + n)
        /\ Len(dl_ring'[u]) = Len(dl_ring[u]) + n - Dropped(Len(dl_ring[u]), n)
  BY <1>1, <1>2, <1>3, PushAll
<1>6. RingHoldsNewest'
  BY <1>1, <1>3, <1>4, <1>5 DEF RingHoldsNewest, HoldsNewest
<1>7. \A u \in Ues :
        /\ UlHead(u)' = UlHead(u)
        /\ DlHead(u)' = DlHead(u) + Dropped(Len(dl_ring[u]), n)
        /\ Dropped(Len(dl_ring[u]), n) \in Nat
        /\ DlHead(u) \in Int /\ lastDl[u] \in Int
  <2> TAKE u \in Ues
  <2>1. Len(dl_ring[u]) \in Nat /\ accepted[Gnb] \in Nat /\ lastDl[u] \in Nat
    BY <1>1, PeerFacts DEF DataTypeOK
  <2>2. Dropped(Len(dl_ring[u]), n) \in Nat
    BY <1>2, <2>1, RingAssumption DEF Dropped
  <2>3. UlHead(u)' = UlHead(u)
    BY <1>3, <1>4 DEF UlHead
  <2>4. /\ accepted'[Gnb] = accepted[Gnb] + n
        /\ Len(dl_ring'[u]) = Len(dl_ring[u]) + n - Dropped(Len(dl_ring[u]), n)
    BY <1>4, <1>5
  <2>5. DlHead(u)' = DlHead(u) + Dropped(Len(dl_ring[u]), n)
    <3> HIDE DEF Dropped
    <3> QED BY <1>2, <2>1, <2>2, <2>4 DEF DlHead
  <2> QED BY <2>1, <2>2, <2>3, <2>5 DEF DlHead
<1>8. SentOnce'
  BY <1>1, <1>3, <1>7 DEF SentOnce
<1>9. DlGapless'
  <2> SUFFICES ASSUME NEW u \in Ues, u \notin dlGap' PROVE lastDl'[u] = DlHead(u)'
    BY DEF DlGapless
  <2>1. u \notin dlGap /\ ~(Dropped(Len(dl_ring[u]), n) > 0)
    BY <1>3
  <2> QED BY <1>1, <1>3, <1>7, <2>1 DEF DlGapless
<1>10. UlAligned'
  BY <1>1, <1>3, <1>7 DEF UlAligned
<1> QED BY <1>6, <1>8, <1>9, <1>10 DEF StreamInv

\* A UE's samples go to its own ring.  A drop moves the head of that ring
\* alone, and then the UE is no longer aligned with the others.
LEMMA PullFromUeStep ==
  ASSUME IInv, NEW u \in Ues, PullFromUe(u)
  PROVE  StreamInv'
<1>1. DataTypeOK /\ RingHoldsNewest /\ SentOnce /\ DlGapless /\ UlAligned
  BY TypeParts DEF IInv
<1> DEFINE n == reply[u]
           drop == Dropped(Len(ul_ring[u]), n)
<1>2. n \in Nat
  BY RingAssumption DEF PullFromUe
<1>3. /\ accepted' = [accepted EXCEPT ![u] = @ + n]
      /\ ul_ring' = [ul_ring EXCEPT
                       ![u] = RingPush(@, Arriving(accepted[u], n))]
      /\ ulGap' = IF drop > 0 THEN ulGap \cup {u} ELSE ulGap
      /\ UNCHANGED <<dl_ring, lastDl, lastUl, dlGap>>
  BY DEF PullFromUe
<1> HIDE DEF n
<1>4. /\ accepted'[u] = accepted[u] + n
      /\ accepted'[Gnb] = accepted[Gnb]
      /\ \A v \in Ues \ {u} : accepted'[v] = accepted[v]
  BY <1>1, <1>3, PeerFacts DEF DataTypeOK
<1>5. /\ ul_ring'[u] \in Seq(Nat)
      /\ HoldsNewest(ul_ring'[u], accepted[u] + n)
      /\ Len(ul_ring'[u]) = Len(ul_ring[u]) + n - drop
      /\ \A v \in Ues \ {u} : ul_ring'[v] = ul_ring[v]
  <2>1. ul_ring'[u] = RingPush(ul_ring[u], Arriving(accepted[u], n))
    BY <1>1, <1>3 DEF DataTypeOK
  <2>2. \A v \in Ues \ {u} : ul_ring'[v] = ul_ring[v]
    BY <1>1, <1>3 DEF DataTypeOK
  <2> QED BY <1>1, <1>2, <2>1, <2>2, PushAll
<1>6. RingHoldsNewest'
  BY <1>1, <1>3, <1>4, <1>5 DEF RingHoldsNewest, HoldsNewest
<1>7. Len(ul_ring[u]) \in Nat /\ accepted[u] \in Nat /\ lastUl[u] \in Nat
  BY <1>1, PeerFacts DEF DataTypeOK
<1>8. drop \in Nat
  BY <1>2, <1>7, RingAssumption DEF Dropped
<1> HIDE DEF drop
<1>9. UlHead(u)' = UlHead(u) + drop /\ UlHead(u) \in Int
  BY <1>2, <1>4, <1>5, <1>7, <1>8 DEF UlHead
<1>10. /\ \A v \in Ues \ {u} : UlHead(v)' = UlHead(v)
       /\ \A v \in Ues : DlHead(v)' = DlHead(v)
  BY <1>3, <1>4, <1>5 DEF UlHead, DlHead
<1>11. SentOnce'
  BY <1>1, <1>3, <1>7, <1>8, <1>9, <1>10 DEF SentOnce
<1>12. DlGapless'
  BY <1>1, <1>3, <1>10 DEF DlGapless
<1>13. UlAligned'
  <2>1. \A v \in Ues \ ulGap' : v \in Ues \ ulGap /\ UlHead(v)' = UlHead(v)
    BY <1>3, <1>8, <1>9, <1>10
  <2> QED BY <1>1, <1>3, <2>1 DEF UlAligned
<1> QED BY <1>6, <1>11, <1>12, <1>13 DEF StreamInv

\* A slot leaves the front of one downlink ring; sent, it is the next one of
\* the stream, and lost, it leaves a gap.
LEMMA ServeUeStep ==
  ASSUME IInv, NEW u \in Ues, ServeUe(u) \/ LoseUeSlot(u)
  PROVE  StreamInv'
<1>1. DataTypeOK /\ RingHoldsNewest /\ SentOnce /\ DlGapless /\ UlAligned
  BY TypeParts DEF IInv
<1> DEFINE last == dl_ring[u][SAMPLES_PER_SLOT]
<1>2. /\ dl_ring' = [dl_ring EXCEPT ![u] = RingPop(@, SAMPLES_PER_SLOT)]
      /\ UNCHANGED <<accepted, ul_ring, lastUl, ulGap>>
      /\ \/ lastDl' = [lastDl EXCEPT ![u] = last] /\ dlGap' = dlGap
         \/ lastDl' = lastDl /\ dlGap' = dlGap \cup {u}
      /\ CanPop(dl_ring[u], SAMPLES_PER_SLOT)
  BY DEF ServeUe, LoseUeSlot
<1>3. \A v \in Ues \ {u} : dl_ring'[v] = dl_ring[v]
  BY <1>1, <1>2 DEF DataTypeOK
<1>4. /\ dl_ring'[u] \in Seq(Nat)
      /\ HoldsNewest(dl_ring'[u], accepted[Gnb])
      /\ Len(dl_ring'[u]) = Len(dl_ring[u]) - SAMPLES_PER_SLOT
      /\ last = DlHead(u) + SAMPLES_PER_SLOT
  <2>1. dl_ring'[u] = RingPop(dl_ring[u], SAMPLES_PER_SLOT)
    BY <1>1, <1>2 DEF DataTypeOK
  <2> QED BY <1>1, <1>2, <2>1, PopOne
<1> HIDE DEF last
<1>5. RingHoldsNewest'
  BY <1>1, <1>2, <1>3, <1>4 DEF RingHoldsNewest, HoldsNewest
<1>6. /\ Len(dl_ring[u]) \in Nat /\ accepted[Gnb] \in Nat
      /\ \A v \in Ues : lastDl[v] \in Nat
  BY <1>1, PeerFacts DEF DataTypeOK
<1>7. DlHead(u)' = DlHead(u) + SAMPLES_PER_SLOT /\ DlHead(u) \in Int
  BY <1>2, <1>4, <1>6, RingAssumption DEF DlHead
<1>8. /\ \A v \in Ues \ {u} : DlHead(v)' = DlHead(v)
      /\ \A v \in Ues : UlHead(v)' = UlHead(v)
  BY <1>2, <1>3 DEF DlHead, UlHead
<1>9. \A v \in Ues \ {u} : lastDl'[v] = lastDl[v]
  BY <1>1, <1>2 DEF DataTypeOK
<1>10. \/ lastDl'[u] = last /\ dlGap' = dlGap
       \/ lastDl'[u] = lastDl[u] /\ dlGap' = dlGap \cup {u}
  BY <1>1, <1>2 DEF DataTypeOK
<1>11. SentOnce'
  <2>1. lastDl'[u] <= DlHead(u)'
    BY <1>1, <1>4, <1>6, <1>7, <1>10, RingAssumption DEF SentOnce
  <2> QED BY <1>1, <1>2, <1>8, <1>9, <2>1 DEF SentOnce
<1>12. DlGapless'
  <2> SUFFICES ASSUME NEW v \in Ues, v \notin dlGap' PROVE lastDl'[v] = DlHead(v)'
    BY DEF DlGapless
  <2>1. CASE v = u
    BY <1>4, <1>7, <1>10, <2>1
  <2>2. CASE v # u
    BY <1>1, <1>8, <1>9, <1>10, <2>2 DEF DlGapless
  <2> QED BY <2>1, <2>2
<1>13. UlAligned'
  BY <1>1, <1>2, <1>8 DEF UlAligned
<1> QED BY <1>5, <1>11, <1>12, <1>13 DEF StreamInv

\* A slot leaves the front of every uplink ring at once.
LEMMA ServeGnbStep ==
  ASSUME IInv, ServeGnb \/ LoseGnbSlot
  PROVE  StreamInv'
<1>1. DataTypeOK /\ RingHoldsNewest /\ SentOnce /\ DlGapless /\ UlAligned
  BY TypeParts DEF IInv
<1>2. /\ ul_ring' = [u \in Ues |-> RingPop(ul_ring[u], SAMPLES_PER_SLOT)]
      /\ UNCHANGED <<accepted, dl_ring, lastDl, dlGap, ulGap>>
      /\ \/ lastUl' = [u \in Ues |-> ul_ring[u][SAMPLES_PER_SLOT]]
         \/ lastUl' = lastUl
      /\ \A u \in Ues : CanPop(ul_ring[u], SAMPLES_PER_SLOT)
  BY DEF ServeGnb, LoseGnbSlot, PopAll, AllReady, histVars
<1>3. \A u \in Ues :
        /\ ul_ring'[u] \in Seq(Nat)
        /\ HoldsNewest(ul_ring'[u], accepted[u])
        /\ Len(ul_ring'[u]) = Len(ul_ring[u]) - SAMPLES_PER_SLOT
        /\ ul_ring[u][SAMPLES_PER_SLOT] = UlHead(u) + SAMPLES_PER_SLOT
  BY <1>1, <1>2, PopOne
<1>4. RingHoldsNewest'
  BY <1>1, <1>2, <1>3 DEF RingHoldsNewest, HoldsNewest
<1>5. \A u \in Ues : Len(ul_ring[u]) \in Nat /\ accepted[u] \in Nat /\ lastUl[u] \in Nat
  BY <1>1, PeerFacts DEF DataTypeOK
<1>6. \A u \in Ues : /\ UlHead(u)' = UlHead(u) + SAMPLES_PER_SLOT
                     /\ UlHead(u) \in Int
                     /\ DlHead(u)' = DlHead(u)
  BY <1>2, <1>3, <1>5, RingAssumption DEF UlHead, DlHead
<1>7. \/ \A u \in Ues : lastUl'[u] = UlHead(u) + SAMPLES_PER_SLOT
      \/ lastUl' = lastUl
  BY <1>2, <1>3
<1>8. SentOnce'
  BY <1>1, <1>2, <1>5, <1>6, <1>7, RingAssumption DEF SentOnce
<1>9. DlGapless'
  BY <1>1, <1>2, <1>6 DEF DlGapless
<1>10. UlAligned'
  <2> SUFFICES ASSUME NEW u \in Ues \ ulGap', NEW v \in Ues \ ulGap'
               PROVE  UlHead(u)' = UlHead(v)' /\ lastUl'[u] = lastUl'[v]
    BY DEF UlAligned
  <2>1. UlHead(u) = UlHead(v) /\ lastUl[u] = lastUl[v]
    BY <1>1, <1>2 DEF UlAligned
  <2> QED BY <1>6, <1>7, <2>1
<1> QED BY <1>4, <1>8, <1>9, <1>10 DEF StreamInv

\* The other steps leave the rings and the history alone.
LEMMA QuietStep == IInv /\ UNCHANGED <<ringVars, histVars>> => StreamInv'
  BY DEF IInv, StreamInv, ringVars, histVars, RingHoldsNewest, HoldsNewest,
         SentOnce, DlGapless, UlAligned, DlHead, UlHead

Quiet ==
  \/ UNCHANGED vars
  \/ \E p \in Peers : Pull(p) \/ Listen(p) \/ Answer(p) \/ Ask(p) \/ Restart(p)
  \/ \E u \in Ues : SkipUe(u)
  \/ SkipGnb

LEMMA QuietIsQuiet == Quiet => UNCHANGED <<ringVars, histVars>>
  BY DEF Quiet, vars, Pull, SendRequest, NothingToReceive, DiscardReply, Listen,
         Answer, Ask, Restart, SkipUe, SkipGnb, brokerVars

LEMMA StepCases ==
  [Next]_vars <=> \/ Quiet
                  \/ PullFromGnb
                  \/ \E u \in Ues : PullFromUe(u)
                  \/ \E u \in Ues : ServeUe(u) \/ LoseUeSlot(u)
                  \/ ServeGnb \/ LoseGnbSlot
  BY DEF Quiet, Next, BrokerNext, PeerNext

LEMMA StepIInv == IInv /\ [Next]_vars => IInv'
<1> SUFFICES ASSUME IInv, [Next]_vars PROVE IInv'
  OBVIOUS
<1>1. TypeOK' /\ SocketAgreement'
  BY TypeStep, AgreementStep
<1>2. StreamInv'
  BY StepCases, QuietStep, QuietIsQuiet, PullFromGnbStep, PullFromUeStep,
     ServeUeStep, ServeGnbStep
<1> QED BY <1>1, <1>2 DEF IInv, StreamInv

-----------------------------------------------------------------------------
(* The theorems.                                                           *)

\* The inductive invariant holds: types, sockets, rings and streams together.
THEOREM Invariant == Spec => []IInv
  BY InitIInv, StepIInv, PTL DEF Spec

\* Every variable keeps its type (main and the structs of broker.cpp).
THEOREM TypeCorrect == Spec => []TypeOK
<1>1. IInv => TypeOK
  BY DEF IInv
<1> QED BY <1>1, Invariant, PTL

\* The broker never sends on a socket that is not ready for it: waiting and
\* request_pending follow the REQ and the REP sockets.
THEOREM SocketsAgree == Spec => []SocketAgreement
<1>1. IInv => SocketAgreement
  BY DEF IInv
<1> QED BY <1>1, Invariant, PTL

\* ring_push and ring_pop_exact keep every ring a contiguous piece of its
\* stream, the newest one, within the capacity.
THEOREM RingsHoldNewest == Spec => []RingHoldsNewest
<1>1. IInv => RingHoldsNewest
  BY DEF IInv
<1> QED BY <1>1, Invariant, PTL

\* However the rings are filled, the code's loop of pushes and RingPush agree.
THEOREM PushesAreLoops == Spec => []RingPushIsLoop
<1>1. IInv => RingPushIsLoop
  <2> SUFFICES ASSUME IInv, NEW u \in Ues, NEW p \in Peers, NEW n \in MsgSizes,
                      NEW ring \in {dl_ring[u], ul_ring[u]}
               PROVE  RingPush(ring, Arriving(accepted[p], n))
                        = PushLoop(ring, Arriving(accepted[p], n))
    BY DEF RingPushIsLoop
  <2>1. ring \in Seq(Nat) /\ Len(ring) <= RING_CAPACITY /\ accepted[p] \in Nat /\ n \in Nat
    BY RingAssumption DEF IInv, TypeOK, RingHoldsNewest, HoldsNewest
  <2>2. Arriving(accepted[p], n) \in Seq(Nat)
    BY <2>1 DEF Arriving
  <2> QED BY <2>1, <2>2, PushIsLoop
<1> QED BY <1>1, Invariant, PTL

\* No sample that was sent is still in a ring.
THEOREM SamplesSentOnce == Spec => []SentOnce
<1>1. IInv => SentOnce
  BY DEF IInv
<1> QED BY <1>1, Invariant, PTL

\* A downlink without overflow, failed send or restart has no hole.
THEOREM DownlinkGapless == Spec => []DlGapless
<1>1. IInv => DlGapless
  BY DEF IInv
<1> QED BY <1>1, Invariant, PTL

\* UEs whose rings never overflowed are added up sample by sample.
THEOREM UplinkAligned == Spec => []UlAligned
<1>1. IInv => UlAligned
  BY DEF IInv
<1> QED BY <1>1, Invariant, PTL

-----------------------------------------------------------------------------
(* Losses have causes.                                                     *)

\* A request of a former incarnation, in the queue or received, is left over
\* from a restart.
FormerFromRestart ==
  \A p \in Peers : \/ orphans[p] > 0
                   \/ busy[p] /\ asked[p] # "held"
                   => restarts > 0

CauseInv == FormerFromRestart /\ LossHasCause

\* Every step does to the links what one socket call, or one peer, does.
LinksMove(p) ==
  \/ ReqSend(p) \/ ReqRecv(p) \/ RepRecv(p) \/ RepSend(p)
  \/ PeerAsk(p) \/ PeerRestart(p)
  \/ \E r \in Replies : PeerAnswer(p, r)
  \/ UNCHANGED linkVars

LEMMA NextMovesLinks == [Next]_vars => \E p \in Peers : LinksMove(p)
<1> SUFFICES ASSUME [Next]_vars PROVE \E p \in Peers : LinksMove(p)
  OBVIOUS
<1> USE PeerFacts DEF LinksMove
<1>1. ASSUME NEW p \in Peers, Pull(p) \/ Listen(p) PROVE LinksMove(p)
  BY <1>1 DEF Pull, SendRequest, NothingToReceive, DiscardReply, Listen
<1>2. CASE PullFromGnb \/ ServeGnb
  BY <1>2 DEF PullFromGnb, ServeGnb
<1>3. ASSUME NEW u \in Ues, PullFromUe(u) \/ ServeUe(u)
      PROVE  \E p \in Peers : LinksMove(p)
  BY <1>3 DEF PullFromUe, ServeUe
<1>4. ASSUME NEW u \in Ues, SkipUe(u) \/ LoseUeSlot(u)
      PROVE  \E p \in Peers : LinksMove(p)
  BY <1>4 DEF SkipUe, LoseUeSlot
<1>5. CASE SkipGnb \/ LoseGnbSlot
  BY <1>5 DEF SkipGnb, LoseGnbSlot
<1>6. ASSUME NEW p \in Peers, Answer(p) \/ Ask(p) \/ Restart(p) PROVE LinksMove(p)
  BY <1>6 DEF Answer, Ask, Restart
<1>7. CASE UNCHANGED vars
  BY <1>7 DEF vars
<1> QED BY <1>1, <1>2, <1>3, <1>4, <1>5, <1>6, <1>7
        DEF Next, BrokerNext, PeerNext

LEMMA FormerStep ==
  ASSUME LinksTypeOK(Replies), FormerFromRestart, NEW p \in Peers, LinksMove(p)
  PROVE  FormerFromRestart' /\ restarts' >= restarts
<1>1. /\ asked \in [Peers -> AskStates] /\ orphans \in [Peers -> Nat]
      /\ busy \in [Peers -> BOOLEAN] /\ restarts \in Nat
  BY LinksAssumption DEF LinksTypeOK
<1> USE <1>1 DEF FormerFromRestart
<1>2. CASE UNCHANGED <<repVars, restarts>>
  BY <1>2 DEF repVars
<1>3. CASE RepRecv(p)
  BY <1>3 DEF RepRecv
<1>4. CASE RepSend(p)
  BY <1>4 DEF RepSend
<1>5. CASE PeerAsk(p)
  BY <1>5 DEF PeerAsk
<1>6. CASE PeerRestart(p)
  BY <1>6 DEF PeerRestart
<1> QED BY <1>2, <1>3, <1>4, <1>5, <1>6
        DEF LinksMove, ReqSend, ReqRecv, PeerAnswer, linkVars

\* Only a push into a full ring, a failed send, and a slot sent for a request
\* of a former incarnation lose samples.
LEMMA LossStep == IInv /\ CauseInv /\ [Next]_vars => LossHasCause'
<1> SUFFICES ASSUME IInv, CauseInv, [Next]_vars PROVE LossHasCause'
  OBVIOUS
<1>1. /\ DataTypeOK /\ LinksTypeOK(Replies) /\ RingHoldsNewest
      /\ SocketAgreement /\ LossHasCause /\ FormerFromRestart
  BY TypeParts DEF IInv, CauseInv
<1>2. restarts \in Nat /\ restarts' \in Nat /\ restarts' >= restarts
  <2>1. PICK p \in Peers : LinksMove(p)
    BY NextMovesLinks
  <2>2. restarts' >= restarts
    BY <1>1, <2>1, FormerStep
  <2>3. LinksTypeOK(Replies)'
    BY TypeStep DEF TypeOK
  <2> QED BY <1>1, <2>2, <2>3, LinksAssumption DEF LinksTypeOK
<1>3. failures \in Nat /\ accepted \in [Peers -> Nat]
      /\ lastUl \in [Ues -> Nat] /\ lastDl \in [Ues -> Nat]
  BY <1>1, RingAssumption DEF DataTypeOK
<1>4. \A u \in Ues : /\ Len(dl_ring[u]) \in Nat /\ Len(dl_ring[u]) <= accepted[Gnb]
                     /\ Len(ul_ring[u]) \in Nat /\ Len(ul_ring[u]) <= accepted[u]
  BY <1>1, PeerFacts DEF DataTypeOK, RingHoldsNewest, HoldsNewest
<1>5. CASE Quiet
  <2>1. UNCHANGED <<ringVars, histVars>>
    BY <1>5, QuietIsQuiet
  <2>2. failures' \in Nat /\ failures' >= failures
    BY <1>3, <1>5
    DEF Quiet, vars, Pull, SendRequest, SendRefused, NothingToReceive,
        DiscardReply, Listen, Answer, Ask, Restart, SkipUe, SkipGnb, brokerVars
  <2> QED BY <1>1, <1>2, <1>3, <2>1, <2>2 DEF LossHasCause, UlHead, ringVars, histVars
<1>6. CASE PullFromGnb
  <2> DEFINE n == reply[Gnb]
  <2>1. n \in Nat
    BY <1>6, RingAssumption DEF PullFromGnb
  <2>2. /\ accepted' = [accepted EXCEPT ![Gnb] = @ + n]
        /\ dlGap' = dlGap \cup {u \in Ues : Dropped(Len(dl_ring[u]), n) > 0}
        /\ UNCHANGED <<ul_ring, failures, lastUl, ulGap>>
    BY <1>6 DEF PullFromGnb
  <2> HIDE DEF n
  <2>3. accepted'[Gnb] = accepted[Gnb] + n /\ \A u \in Ues : accepted'[u] = accepted[u]
    BY <1>3, <2>2, PeerFacts
  <2>4. ASSUME NEW u \in Ues, Dropped(Len(dl_ring[u]), n) > 0
        PROVE  accepted'[Gnb] > RING_CAPACITY
    BY <1>3, <1>4, <2>1, <2>3, <2>4, PeerFacts, RingAssumption DEF Dropped
  <2>5. ASSUME NEW u \in dlGap'
        PROVE  failures' > 0 \/ restarts' > 0 \/ accepted'[Gnb] > RING_CAPACITY
    <3>1. CASE u \in dlGap
      BY <1>1, <1>2, <1>3, <2>1, <2>2, <2>3, <3>1, PeerFacts, RingAssumption
      DEF LossHasCause
    <3>2. CASE u \notin dlGap
      BY <2>2, <2>4, <2>5, <3>2
    <3> QED BY <3>1, <3>2
  <2>6. \A u \in Ues : UlHead(u)' = UlHead(u)
    BY <2>2, <2>3 DEF UlHead
  <2>7. ulGap \subseteq Ues
    BY <1>1 DEF DataTypeOK
  <2> QED BY <1>1, <2>2, <2>3, <2>5, <2>6, <2>7 DEF LossHasCause
<1>7. ASSUME NEW u \in Ues, PullFromUe(u) PROVE LossHasCause'
  <2> DEFINE n == reply[u]
             drop == Dropped(Len(ul_ring[u]), n)
  <2>1. n \in Nat
    BY <1>7, RingAssumption DEF PullFromUe
  <2>2. /\ accepted' = [accepted EXCEPT ![u] = @ + n]
        /\ ul_ring' = [ul_ring EXCEPT
                         ![u] = RingPush(@, Arriving(accepted[u], n))]
        /\ ulGap' = IF drop > 0 THEN ulGap \cup {u} ELSE ulGap
        /\ UNCHANGED <<failures, lastUl, dlGap>>
    BY <1>7 DEF PullFromUe
  <2> HIDE DEF n
  <2>3. /\ accepted'[u] = accepted[u] + n
        /\ accepted'[Gnb] = accepted[Gnb]
        /\ \A v \in Ues \ {u} : accepted'[v] = accepted[v]
    BY <1>3, <2>2, PeerFacts
  <2>4. /\ Len(ul_ring'[u]) = Len(ul_ring[u]) + n - drop
        /\ \A v \in Ues \ {u} : ul_ring'[v] = ul_ring[v]
    <3>1. ul_ring'[u] = RingPush(ul_ring[u], Arriving(accepted[u], n))
      BY <1>1, <2>2 DEF DataTypeOK
    <3>2. \A v \in Ues \ {u} : ul_ring'[v] = ul_ring[v]
      BY <1>1, <2>2 DEF DataTypeOK
    <3> QED BY <1>1, <2>1, <3>1, <3>2, PushAll
  <2>5. drop \in Nat /\ (drop > 0 => accepted'[u] > RING_CAPACITY)
    BY <1>3, <1>4, <2>1, <2>3, PeerFacts, RingAssumption DEF Dropped
  <2> HIDE DEF drop
  <2>6. \A v \in Ues \ ulGap' : v \in Ues \ ulGap /\ UlHead(v)' = UlHead(v)
    <3> TAKE v \in Ues \ ulGap'
    <3>1. v \in Ues \ ulGap
      BY <2>2
    <3>2. ASSUME v = u PROVE UlHead(v)' = UlHead(v)
      <4>1. drop = 0
        BY <2>2, <2>5, <3>2
      <4>2. accepted[u] \in Nat /\ Len(ul_ring[u]) \in Nat
        BY <1>3, <1>4, PeerFacts
      <4>3. Len(ul_ring'[u]) = Len(ul_ring[u]) + n /\ accepted'[u] = accepted[u] + n
        BY <2>1, <2>3, <2>4, <4>1, <4>2
      <4>4. accepted'[u] - Len(ul_ring'[u]) = accepted[u] - Len(ul_ring[u])
        BY <2>1, <4>2, <4>3
      <4>5. accepted'[v] - Len(ul_ring'[v]) = accepted[v] - Len(ul_ring[v])
        BY <3>2, <4>4
      <4> QED BY <4>5 DEF UlHead
    <3>3. ASSUME v # u PROVE UlHead(v)' = UlHead(v)
      BY <2>3, <2>4, <3>3 DEF UlHead
    <3> QED BY <3>1, <3>2, <3>3
  <2>7. ASSUME NEW v \in ulGap' PROVE accepted'[v] > RING_CAPACITY
    <3>1. v \in Ues
      BY <1>1, <2>2 DEF DataTypeOK
    <3>2. CASE v \in ulGap
      BY <1>1, <1>3, <2>1, <2>3, <3>1, <3>2, PeerFacts, RingAssumption
      DEF LossHasCause
    <3>3. CASE v \notin ulGap
      BY <2>2, <2>5, <2>7, <3>3
    <3> QED BY <3>2, <3>3
  <2>8. \A v \in dlGap' : \/ failures' > 0 \/ restarts' > 0
                          \/ accepted'[Gnb] > RING_CAPACITY
    BY <1>1, <1>2, <2>2, <2>3 DEF LossHasCause
  <2>9. failures' = 0 => \A v \in Ues \ ulGap' : lastUl'[v] = UlHead(v)'
    BY <1>1, <2>2, <2>6 DEF LossHasCause
  <2> QED BY <2>7, <2>8, <2>9 DEF LossHasCause
<1>8. ASSUME NEW u \in Ues, ServeUe(u) \/ LoseUeSlot(u) PROVE LossHasCause'
  <2>1. UNCHANGED <<ul_ring, accepted, lastUl, ulGap>>
    BY <1>8 DEF ServeUe, LoseUeSlot
  <2>2. request_pending[u] /\ busy[u]
    BY <1>1, <1>8, PeerFacts DEF ServeUe, LoseUeSlot, SocketAgreement
  <2>3. \/ dlGap' = dlGap /\ failures' = failures
        \/ dlGap' = dlGap \cup {u} /\ failures' = failures /\ restarts > 0
        \/ dlGap' = dlGap \cup {u} /\ failures' = failures + 1
    <3>1. CASE ServeUe(u)
      BY <1>1, <2>2, <3>1, PeerFacts DEF ServeUe, FormerFromRestart
    <3>2. CASE LoseUeSlot(u)
      BY <2>2, <3>2 DEF LoseUeSlot, SendRefused
    <3> QED BY <1>8, <3>1, <3>2
  <2>4. \A v \in dlGap' : \/ failures' > 0 \/ restarts' > 0
                          \/ accepted'[Gnb] > RING_CAPACITY
    BY <1>1, <1>2, <1>3, <2>1, <2>3 DEF LossHasCause
  <2>5. failures' = 0 => failures = 0
    BY <1>3, <2>3
  <2> QED BY <1>1, <2>1, <2>4, <2>5 DEF LossHasCause, UlHead
<1>9. CASE ServeGnb
  <2>1. /\ ul_ring' = [u \in Ues |-> RingPop(ul_ring[u], SAMPLES_PER_SLOT)]
        /\ lastUl' = [u \in Ues |-> ul_ring[u][SAMPLES_PER_SLOT]]
        /\ \A u \in Ues : CanPop(ul_ring[u], SAMPLES_PER_SLOT)
        /\ UNCHANGED <<failures, accepted, dlGap, ulGap>>
    BY <1>9 DEF ServeGnb, PopAll, AllReady
  <2>2. ASSUME NEW u \in Ues PROVE lastUl'[u] = UlHead(u)'
    <3>1. /\ Len(ul_ring'[u]) = Len(ul_ring[u]) - SAMPLES_PER_SLOT
          /\ lastUl'[u] = UlHead(u) + SAMPLES_PER_SLOT
      BY <1>1, <2>1, PopOne
    <3>2. accepted[u] \in Nat /\ Len(ul_ring[u]) \in Nat /\ accepted'[u] = accepted[u]
      BY <1>3, <1>4, <2>1, PeerFacts
    <3> QED BY <3>1, <3>2, RingAssumption DEF UlHead
  <2> QED BY <1>1, <1>2, <2>1, <2>2 DEF LossHasCause
<1>10. CASE LoseGnbSlot
  <2>1. failures' = failures + 1 /\ UNCHANGED histVars
    BY <1>1, <1>10, PeerFacts DEF LoseGnbSlot, SendRefused, SocketAgreement
  <2> QED BY <1>1, <1>3, <2>1 DEF LossHasCause, histVars
<1> QED BY <1>5, <1>6, <1>7, <1>8, <1>9, <1>10, StepCases

\* Nothing is lost but by an overflow, a failed send, or a restart.
THEOREM LossesHaveCauses == Spec => []LossHasCause
<1>1. Init => CauseInv
  BY PeerFacts
  DEF Init, LinksInit, CauseInv, FormerFromRestart, LossHasCause, UlHead
<1>2. IInv /\ CauseInv /\ [Next]_vars => CauseInv'
  <2> SUFFICES ASSUME IInv, CauseInv, [Next]_vars PROVE CauseInv'
    OBVIOUS
  <2>1. FormerFromRestart'
    BY NextMovesLinks, FormerStep, TypeParts DEF IInv, CauseInv
  <2> QED BY <2>1, LossStep DEF CauseInv
<1>3. CauseInv => LossHasCause
  BY DEF CauseInv
<1> QED BY <1>1, <1>2, <1>3, Invariant, PTL DEF Spec

-----------------------------------------------------------------------------
(* RingBroker implements SampleRelay.                                      *)

LEMMA RelayNames == Relay!Gnb = Gnb /\ Relay!Ues = Ues /\ Relay!Peers = Peers
  BY DEF Relay!Gnb, Relay!Ues, Relay!Peers, Gnb, Ues, Peers

LEMMA RelayInit == Init => Relay!Init
  BY RelayNames DEF Init, Relay!Init

LEMMA AcceptMore ==
  ASSUME NEW p \in Peers, NEW n \in Nat \ {0},
         accepted \in [Peers -> Nat],
         accepted' = [accepted EXCEPT ![p] = @ + n],
         UNCHANGED <<lastDl, lastUl>>
  PROVE  Relay!Accept(p)
<1>1. accepted' \in [Peers -> Nat]
  OBVIOUS
<1>2. accepted'[p] > accepted[p]
  <2>1. accepted'[p] = accepted[p] + n /\ accepted[p] \in Nat
    OBVIOUS
  <2> QED BY <2>1
<1>3. \A q \in Peers \ {p} : accepted'[q] = accepted[q]
  OBVIOUS
<1> QED BY <1>1, <1>2, <1>3, RelayNames DEF Relay!Accept

LEMMA RelayStep == IInv /\ IInv' /\ [Next]_vars => [Relay!Next]_(Relay!relayVars)
<1> SUFFICES ASSUME IInv, IInv', [Next]_vars PROVE [Relay!Next]_(Relay!relayVars)
  OBVIOUS
<1>1. /\ DataTypeOK /\ RingHoldsNewest /\ SentOnce
      /\ accepted' \in [Peers -> Nat]
      /\ lastDl' \in [Ues -> Nat]
      /\ lastUl' \in [Ues -> Nat]
  BY TypeParts DEF IInv, TypeOK
<1>2. CASE Quiet
  BY <1>2, QuietIsQuiet DEF Relay!relayVars, histVars
<1>3. CASE PullFromGnb
  <2>1. /\ accepted' = [accepted EXCEPT ![Gnb] = @ + reply[Gnb]]
        /\ reply[Gnb] \in Nat \ {0}
        /\ UNCHANGED <<lastDl, lastUl>>
    BY <1>3, RingAssumption DEF PullFromGnb
  <2>2. Relay!Accept(Gnb)
    BY <2>1, AcceptMore, <1>1, PeerFacts DEF DataTypeOK
  <2> QED BY <2>2, PeerFacts, RelayNames DEF Relay!Next
<1>4. ASSUME NEW u \in Ues, PullFromUe(u) PROVE Relay!Next
  <2>1. /\ accepted' = [accepted EXCEPT ![u] = @ + reply[u]]
        /\ reply[u] \in Nat \ {0}
        /\ UNCHANGED <<lastDl, lastUl>>
    BY <1>4, RingAssumption DEF PullFromUe
  <2>2. Relay!Accept(u)
    BY <2>1, AcceptMore, <1>1, PeerFacts DEF DataTypeOK
  <2> QED BY <2>2, PeerFacts, RelayNames DEF Relay!Next
<1>5. ASSUME NEW u \in Ues, ServeUe(u) PROVE [Relay!Next]_(Relay!relayVars)
  <2>1. CASE asked[u] = "held"
    <3>1. /\ lastDl' = [lastDl EXCEPT ![u] = dl_ring[u][SAMPLES_PER_SLOT]]
          /\ UNCHANGED <<accepted, lastUl>>
          /\ CanPop(dl_ring[u], SAMPLES_PER_SLOT)
      BY <1>5, <2>1 DEF ServeUe
    <3>2. /\ lastDl'[u] = DlHead(u) + SAMPLES_PER_SLOT
          /\ \A v \in Ues \ {u} : lastDl'[v] = lastDl[v]
      BY <1>1, <3>1, PopOne DEF DataTypeOK
    <3>3. /\ Len(dl_ring[u]) \in Nat /\ accepted[Gnb] \in Nat
          /\ Len(dl_ring[u]) >= SAMPLES_PER_SLOT
          /\ Len(dl_ring[u]) <= RING_CAPACITY
          /\ lastDl[u] \in Nat
      BY <1>1, <3>1, PeerFacts DEF DataTypeOK, RingHoldsNewest, HoldsNewest, CanPop
    <3>4. Relay!MayFollow(Gnb, lastDl[u], lastDl'[u])
      BY <1>1, <3>2, <3>3, RingAssumption
      DEF Relay!MayFollow, DlHead, SentOnce
    <3>5. Relay!RelayToUe(u)
      BY <1>1, <3>1, <3>2, <3>4, RelayNames DEF Relay!RelayToUe
    <3> QED BY <3>5, RelayNames DEF Relay!Next
  <2>2. CASE asked[u] # "held"
    BY <1>5, <2>2 DEF ServeUe, Relay!relayVars
  <2> QED BY <2>1, <2>2
<1>6. ASSUME NEW u \in Ues, LoseUeSlot(u) PROVE UNCHANGED Relay!relayVars
  BY <1>6 DEF LoseUeSlot, Relay!relayVars
<1>7. CASE ServeGnb
  <2>1. /\ lastUl' = [u \in Ues |-> ul_ring[u][SAMPLES_PER_SLOT]]
        /\ UNCHANGED <<accepted, lastDl>>
        /\ \A u \in Ues : CanPop(ul_ring[u], SAMPLES_PER_SLOT)
    BY <1>7 DEF ServeGnb, AllReady
  <2>2. ASSUME NEW u \in Ues
        PROVE  Relay!MayFollow(u, lastUl[u], lastUl'[u])
    <3>1. lastUl'[u] = UlHead(u) + SAMPLES_PER_SLOT
      BY <1>1, <2>1, PopOne
    <3>2. /\ Len(ul_ring[u]) \in Nat /\ accepted[u] \in Nat
          /\ Len(ul_ring[u]) >= SAMPLES_PER_SLOT
          /\ Len(ul_ring[u]) <= RING_CAPACITY
          /\ lastUl[u] \in Nat
      BY <1>1, <2>1, PeerFacts DEF DataTypeOK, RingHoldsNewest, HoldsNewest, CanPop
    <3> QED BY <1>1, <3>1, <3>2, RingAssumption DEF Relay!MayFollow, UlHead, SentOnce
  <2>3. Relay!RelayToGnb
    BY <1>1, <2>1, <2>2, RelayNames DEF Relay!RelayToGnb
  <2> QED BY <2>3 DEF Relay!Next
<1>8. CASE LoseGnbSlot
  BY <1>8 DEF LoseGnbSlot, histVars, Relay!relayVars
<1> QED BY <1>2, <1>3, <1>4, <1>5, <1>6, <1>7, <1>8, StepCases

\* Whatever the peers do, and whatever fails, the broker only ever relays
\* whole slots, in order, once, and no older than its rings are deep, and adds
\* up one slot of every UE for the gNB.
THEOREM ImplementsRelay == Spec => RelaySpec
<1>1. Spec => []IInv
  BY Invariant
<1> QED BY <1>1, RelayInit, RelayStep, PTL DEF Spec, RelaySpec, Relay!Spec
=============================================================================
