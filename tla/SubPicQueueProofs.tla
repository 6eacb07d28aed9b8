------------------------- MODULE SubPicQueueProofs -------------------------
(***************************************************************************)
(* What SubPicQueue promises of its queue, for any times, lines, providers *)
(* and number of calls: no stale picture outlives an invalidation that the *)
(* thread could see, and no two pictures overlap.                          *)
(*                                                                         *)
(* Neither is inductive.  Between a change and the removal that it leads   *)
(* to the queue may hold anything, but what is wrong in it is doomed: a    *)
(* client is on its way to have it removed.  And that the next picture     *)
(* starts where the others have ended depends on where the thread is in    *)
(* the segments, and on which provider it renders with: where a picture    *)
(* has ended, no segment of the same provider that is still to come has    *)
(* begun.  A stream makes that hard, for its segments change behind the    *)
(* pictures; text because a line has removed what it cuts through, and     *)
(* VobSub because its pictures follow one another.                         *)
(***************************************************************************)
EXTENDS SubPicQueue, FiniteSetTheorems, WellFoundedInduction, TLAPS

Pictures == [start : Times, stop : Times, prov : 1 .. NumProviders,
             subs : SUBSET AllLines]

\* The pictures that end between two segments of their provider, or between two
\* that it may still get, unless they are of those that end earlier.
Ends(s) ==
    \/ s.prov \in Animated
    \/ s.prov = 1 /\ vobsub /\ \A d \in PictureLines : s.stop <= d[1] \/ d[2] <= s.stop
    \/ ~(s.prov = 1 /\ vobsub) /\ s.stop \in Bounds(s.prov)
    \/ s.prov = 1 /\ ~vobsub /\ \A b \in Bounds(1) : s.stop <= b

\* The pictures that show what they should, and those a client on its way to the
\* thread is about to have removed.
Sound == {s \in Pictures : Fresh(s) /\ Ends(s)}

Doomed == {s \in Pictures :
    \/ cpc["window"] \in {"locked", "invalidate"}
    \/ cpc["stream"] = "invalidate" /\ subtitleId = 1 /\ arg["stream"] < s.stop
    \/ Pending /\ rtInvalidate < s.stop}

\* Where the thread holds m_csSubLock.
Holding == {"loop", "skip", "ahead", "render"}

\* Where the clients are, who holds m_csSubLock and which subtitle is current.
ClientInv ==
    /\ cpc["clock"] \in {"idle", "signal"}
    /\ cpc["stream"] \in {"idle", "invalidate", "break", "signal"}
    /\ cpc["stream"] = "invalidate" => arg["stream"] \in Times
    /\ cpc["window"] = "invalidate" => arg["window"] = -1
    /\ cpc["window"] = "locked" =>
         /\ arg["window"] \in 0 .. NumProviders
         /\ arg["window"] # Null => subLock = "window" /\ subtitleId = arg["window"]
    /\ cpc["window"] # "locked" => provider \in {Null, subtitleId}
    /\ subLock = "worker" <=> wpc \in Holding
    /\ wpc \in {"remove", "reset"} => breakBuffering

\* Another provider than the one that the thread has fetched is known to it, or is
\* about to be, before it renders.
ProviderInv ==
    /\ wpc \in {"lock"} \cup Holding => prov # Null
    /\ provider \notin {prov, Null} =>
         /\ wpc = "lock" => \/ breakBuffering
                            \/ /\ subLock = "window"
                               /\ cpc["window"] \in {"locked", "invalidate", "break"}
         /\ wpc = "loop" => breakBuffering
         /\ wpc \notin {"skip", "ahead", "render"}

\* How far the pictures reach at each place of the thread.
EndBy(t) == \A i \in 1 .. Len(queue) : queue[i].stop <= t

PlaceInv ==
    /\ wpc \in {"fetch", "lock"} => EndBy(rtNow)
    /\ wpc \in Holding => /\ rtNow <= pos /\ (pos = rtNow \/ pos \in Bounds(prov))
                          /\ wpc # "render" => EndBy(pos)
    /\ wpc \in {"skip", "ahead", "render"} => Left # {} /\ Room
    /\ wpc = "render" => Segment[1] <= cur /\ cur < Segment[2] /\ EndBy(cur)

\* What is in the queue.
QueueInv ==
    ~lost =>
      /\ \A i \in 1 .. Len(queue) : queue[i] \in Sound \cup Doomed
      /\ \A i, j \in 1 .. Len(queue) :
            i < j => \/ queue[i].stop <= queue[j].start
                     \/ queue[i] \in Doomed \/ queue[j] \in Doomed
      /\ wpc = "reset" => EndBy(rtInvalidate)

IInv == TypeOK /\ ClientInv /\ ProviderInv /\ PlaceInv /\ QueueInv

------------------------------------------------------------------------------
\* The constants, one by one.
LEMMA Constants ==
    /\ MaxTime \in Nat /\ MaxSubPic \in Nat /\ MaxSubPic > 0
    /\ Lookahead \in Nat /\ NumProviders \in Nat /\ MaxOps \in Nat
    /\ \A d \in AllLines :
          d \in Times \X Times /\ d[1] \in Times /\ d[2] \in Times /\ d[1] < d[2]
    /\ \A d, e \in PictureLines : d = e \/ d[2] <= e[1] \/ e[2] <= d[1]
    /\ Times \subseteq Nat /\ 0 \in Times
  BY SubPicQueueAssumption DEF Times, AllLines

\* A non-empty set of numbers has a least one ...
LEMMA Least ==
  ASSUME NEW S \in SUBSET Nat, S # {}
  PROVE  \E m \in S : \A n \in S : m <= n
<1> DEFINE Less == {p \in Nat \X Nat : p[1] < p[2]}
<1>1. IsWellFoundedOn(Less, Nat)
  <2>1. Less = OpToRel(<, Nat)
    BY DEF OpToRel
  <2> QED
    BY <2>1, NatLessThanWellFounded
<1>2. \E m \in S : \A n \in S : ~ (<<n, m>> \in Less)
  BY <1>1, WFMin
<1>3. PICK m \in S : \A n \in S : <<n, m>> \notin Less
  BY <1>2
<1>4. ASSUME NEW n \in S PROVE m <= n
  <2>1. n \in Nat /\ m \in Nat /\ <<n, m>> \in Nat \X Nat
    OBVIOUS
  <2>2. ~ (<<n, m>>[1] < <<n, m>>[2])
    BY <1>3, <2>1
  <2> QED
    BY <2>1, <2>2
<1> QED
  BY <1>4

\* ... and, when they are bounded, a greatest one.
LEMMA Greatest ==
  ASSUME NEW L \in Nat, NEW S \in SUBSET (0 .. L), S # {}
  PROVE  \E m \in S : \A n \in S : n <= m
<1> DEFINE T == {k \in Nat : L - k \in S}
<1>1. T # {}
  <2>1. PICK x \in S : TRUE
    OBVIOUS
  <2>2. L - x \in Nat /\ L - (L - x) = x
    BY <2>1
  <2> QED
    BY <2>1, <2>2
<1>2. PICK k \in T : \A n \in T : k <= n
  <2> HIDE DEF T
  <2>1. T \in SUBSET Nat
    BY DEF T
  <2> QED
    BY <1>1, <2>1, Least
<1>3. k \in Nat /\ L - k \in S
  BY <1>2
<1>4. ASSUME NEW n \in S PROVE n <= L - k
  <2>1. n \in 0 .. L /\ L - n \in Nat /\ L - (L - n) = n
    OBVIOUS
  <2>2. k <= L - n
    BY <2>1, <1>2
  <2> QED
    BY <2>1, <2>2, <1>3
<1> QED
  BY <1>3, <1>4

\* The same of times, for the operator of the library.
LEMMA GreatestTime ==
  ASSUME NEW S \in SUBSET Times, S # {}
  PROVE  Max(S) \in S /\ \A x \in S : x <= Max(S)
<1>1. \E m \in S : \A n \in S : n <= m
  BY Constants, Greatest DEF Times
<1>2. \E m \in S : \A n \in S : m >= n
  BY <1>1, Constants
<1>3. Max(S) \in S /\ \A n \in S : Max(S) >= n
  BY <1>2 DEF Max
<1> QED
  BY <1>3, Constants

\* Of two numbers.
LEMMA LeastOfTwo ==
  ASSUME NEW a \in Int, NEW b \in Int
  PROVE  Min({a, b}) = IF a <= b THEN a ELSE b
<1>1. \E x \in {a, b} : \A y \in {a, b} : x <= y
  OBVIOUS
<1>2. Min({a, b}) \in {a, b} /\ \A y \in {a, b} : Min({a, b}) <= y
  BY <1>1 DEF Min
<1> QED
  BY <1>2

\* How many they are from 1 to n.
LEMMA Interval ==
  ASSUME NEW n \in Nat
  PROVE  IsFiniteSet(1 .. n) /\ Cardinality(1 .. n) = n
<1>1. 1 \in Int /\ n \in Int
  OBVIOUS
<1>2. IsFiniteSet(1 .. n) /\ Cardinality(1 .. n) = IF 1 > n THEN 0 ELSE n - 1 + 1
  BY <1>1, FS_Interval, Zenon
<1> QED
  BY <1>2

\* The numbers of a bounded set in their order.
Listing(f, I) ==
    /\ f \in [1 .. Cardinality(I) -> I]
    /\ \A m, n \in 1 .. Cardinality(I) : m < n => f[m] < f[n]

\* Every bounded set has one: the smallest set without would have one when its
\* greatest member is left out.
LEMMA Listed ==
  ASSUME NEW L \in Nat, NEW I \in SUBSET (1 .. L)
  PROVE  \E f : Listing(f, I)
<1> DEFINE T == {n \in Nat : \E J \in SUBSET (1 .. L) :
                               Cardinality(J) = n /\ ~\E f : Listing(f, J)}
<1>1. SUFFICES ASSUME T # {} PROVE FALSE
  <2>1. Cardinality(I) \in Nat
    BY Interval, FS_Subset, FS_CardinalityType
  <2> QED
    BY <1>1, <2>1
<1>2. PICK n \in T : \A k \in T : n <= k
  <2> HIDE DEF T
  <2>1. T \in SUBSET Nat
    BY DEF T
  <2> QED
    BY <1>1, <2>1, Least
<1>3. PICK J \in SUBSET (1 .. L) : Cardinality(J) = n /\ ~\E f : Listing(f, J)
  BY <1>2
<1>4. n \in Nat /\ IsFiniteSet(J)
  BY <1>2, Interval, FS_Subset
<1>5. CASE n = 0
  <2>1. J = {}
    BY <1>3, <1>4, <1>5, FS_EmptySet
  <2>2. Listing([k \in 1 .. 0 |-> 0], J)
    BY <2>1, <1>3, <1>5 DEF Listing
  <2> QED
    BY <2>2, <1>3
<1>6. CASE n # 0
  <2>1. J # {}
    BY <1>3, <1>6, FS_EmptySet
  <2>2. PICK m \in J : \A x \in J : x <= m
    <3>1. J \in SUBSET (0 .. L)
      OBVIOUS
    <3> QED
      BY <3>1, <2>1, Greatest
  <2> DEFINE K == J \ {m}
  <2>3. Cardinality(K) = n - 1 /\ K \in SUBSET (1 .. L)
    BY <1>3, <1>4, <2>2, FS_RemoveElement
  <2>4. n - 1 \notin T /\ n - 1 \in Nat
    <3> HIDE DEF T
    <3>1. n - 1 \in Nat /\ ~(n <= n - 1)
      BY <1>4, <1>6
    <3> QED
      BY <3>1, <1>2
  <2>5. \E f : Listing(f, K)
    BY <2>3, <2>4
  <2>6. PICK g : Listing(g, K)
    BY <2>5
  <2> DEFINE f == [k \in 1 .. n |-> IF k = n THEN m ELSE g[k]]
  <2>7. \A k \in 1 .. n - 1 : g[k] \in J /\ g[k] < m
    <3> SUFFICES ASSUME NEW k \in 1 .. n - 1 PROVE g[k] \in J /\ g[k] < m
      OBVIOUS
    <3>1. g[k] \in K
      BY <2>3, <2>6 DEF Listing
    <3>2. g[k] \in J /\ g[k] # m
      BY <3>1
    <3>3. J \subseteq Nat
      OBVIOUS
    <3>4. g[k] \in Nat /\ m \in Nat /\ g[k] <= m
      BY <3>2, <3>3, <2>2
    <3> QED
      BY <3>2, <3>4
  <2>8. f \in [1 .. n -> J]
    BY <1>4, <2>2, <2>7
  <2>9. ASSUME NEW a \in 1 .. n, NEW b \in 1 .. n, a < b PROVE f[a] < f[b]
    <3>1. a \in 1 .. n - 1 /\ a # n /\ f[a] = g[a]
      BY <2>9, <1>4
    <3>2. CASE b = n
      BY <3>1, <3>2, <2>7
    <3>3. CASE b # n
      <4>1. b \in 1 .. n - 1
        BY <3>3, <1>4
      <4>2. g[a] < g[b]
        BY <3>1, <4>1, <2>9, <2>6, <2>3 DEF Listing
      <4> QED
        BY <3>1, <3>3, <4>2
    <3> QED
      BY <3>2, <3>3
  <2> HIDE DEF f
  <2>10. Listing(f, J)
    BY <2>8, <2>9, <1>3 DEF Listing
  <2> QED
    BY <2>10, <1>3
<1> QED
  BY <1>5, <1>6

\* What stays of a sequence is a sequence of what was there, in the same order.
LEMMA KeptIs ==
  ASSUME NEW S, NEW q \in Seq(S), NEW I \in SUBSET (1 .. Len(q))
  PROVE  /\ Kept(q, I) \in Seq(S) /\ Len(Kept(q, I)) <= Len(q)
         /\ \E f : /\ f \in [1 .. Len(Kept(q, I)) -> I]
                   /\ \A m, n \in 1 .. Len(Kept(q, I)) : m < n => f[m] < f[n]
                   /\ \A n \in 1 .. Len(Kept(q, I)) : Kept(q, I)[n] = q[f[n]]
<1> DEFINE c == Cardinality(I)
           f == Places(I)
<1>1. Len(q) \in Nat /\ IsFiniteSet(I) /\ c \in Nat /\ c <= Len(q)
  <2>1. Len(q) \in Nat
    OBVIOUS
  <2>2. IsFiniteSet(1 .. Len(q)) /\ Cardinality(1 .. Len(q)) = Len(q)
    BY <2>1, Interval
  <2> QED
    BY <2>1, <2>2, FS_Subset, FS_CardinalityType
<1>2. Listing(f, I)
  <2>1. PICK g : Listing(g, I)
    BY <1>1, Listed
  <2>2. /\ g \in [1 .. Cardinality(I) -> I]
        /\ \A m, n \in 1 .. Cardinality(I) : m < n => g[m] < g[n]
    BY <2>1 DEF Listing
  <2> QED
    BY <2>2 DEF Listing, Places
<1> HIDE DEF f
<1>3. f \in [1 .. c -> I] /\ \A m, n \in 1 .. c : m < n => f[m] < f[n]
  BY <1>2 DEF Listing
<1> HIDE DEF c
<1>4. Kept(q, I) = [n \in 1 .. c |-> q[f[n]]]
  BY DEF Kept, f, c
<1>5. \A n \in 1 .. c : q[f[n]] \in S
  <2> SUFFICES ASSUME NEW n \in 1 .. c PROVE q[f[n]] \in S
    OBVIOUS
  <2>1. f[n] \in 1 .. Len(q)
    BY <1>3
  <2> QED
    BY <2>1
<1>6. Kept(q, I) \in Seq(S) /\ Len(Kept(q, I)) = c
  BY <1>1, <1>4, <1>5
<1>7. \A n \in 1 .. c : Kept(q, I)[n] = q[f[n]]
  BY <1>4
<1> QED
  BY <1>1, <1>3, <1>6, <1>7

\* The lines of a provider.
LEMMA LinesAre ==
  ASSUME TypeOK, NEW p
  PROVE  /\ Lines(p) \subseteq AllLines
         /\ p = 1 /\ vobsub => Lines(p) \subseteq PictureLines
  BY DEF Lines, TypeOK, Arriving, AllLines

\* The segment the thread is at.
LEMMA SegmentIs ==
  ASSUME TypeOK, Left # {}
  PROVE  /\ Segment[1] \in Times /\ Segment[2] \in Times /\ Segment[1] < Segment[2]
         /\ pos < Segment[2]
         /\ Segment[1] \in Bounds(prov) /\ Segment[2] \in Bounds(prov)
         /\ \A b \in Bounds(prov) : b <= Segment[1] \/ Segment[2] <= b
         /\ Cover(prov, Segment[1]) # {}
<1>1. Bounds(prov) \subseteq Times
  <2>1. Lines(prov) \subseteq AllLines
    BY LinesAre
  <2> QED
    BY <2>1, Constants DEF Bounds
<1>2. Left \subseteq Bounds(prov) \X Bounds(prov)
  BY DEF Left, Segments
<1> DEFINE S == {s[1] : s \in Left}
<1>3. S \in SUBSET Nat /\ S # {}
  BY <1>1, <1>2, Constants
<1>4. PICK m \in S : \A n \in S : m <= n
  <2> HIDE DEF S
  <2> QED
    BY <1>3, Least
<1>5. PICK s \in Left : s[1] = m
  BY <1>4
<1>6. \A r \in Left : s[1] <= r[1]
  BY <1>4, <1>5
<1>7. Segment \in Left
  BY <1>6 DEF Segment
<1> DEFINE g == Segment
<1> HIDE DEF g
<1>8. /\ g \in Bounds(prov) \X Bounds(prov) /\ g[1] < g[2] /\ g[2] > pos
      /\ Cover(prov, g[1]) # {}
      /\ ~\E b \in Bounds(prov) : g[1] < b /\ b < g[2]
  BY <1>7 DEF g, Left, Segments
<1>9. g[1] \in Times /\ g[2] \in Times /\ pos \in Times /\ Bounds(prov) \subseteq Nat
      /\ g[1] \in Bounds(prov) /\ g[2] \in Bounds(prov)
  BY <1>1, <1>8, Constants DEF TypeOK
<1>10. \A b \in Bounds(prov) : b <= g[1] \/ g[2] <= b
  BY <1>8, <1>9, Constants
<1> QED
  BY <1>8, <1>9, <1>10, Constants DEF g

\* The pictures of the queue, one by one.
LEMMA PictureTypes ==
  ASSUME TypeOK
  PROVE  /\ Len(queue) \in Nat
         /\ \A i \in 1 .. Len(queue) :
               /\ queue[i] \in Pictures
               /\ queue[i].start \in Nat /\ queue[i].stop \in Nat
<1>1. queue \in Seq(Pictures)
  BY DEF TypeOK, Pictures
<1>2. Len(queue) \in Nat /\ \A i \in 1 .. Len(queue) : queue[i] \in Pictures
  BY <1>1
<1>3. \A s \in Pictures : s.start \in Nat /\ s.stop \in Nat
  BY Constants DEF Pictures
<1> QED
  BY <1>2, <1>3

\* What a segment's picture looks like.
Pic(stop) == [start |-> IF prov \in Animated THEN cur ELSE Segment[1], stop |-> stop,
              prov |-> provider, subs |-> Cover(provider, cur)]
Stop == IF prov \in Animated THEN Min({cur + 1, Segment[2]}) ELSE Segment[2]

\* It ends after the place the thread has reached, and no later than the segment.
LEMMA StopIs ==
  ASSUME IInv, wpc = "render"
  PROVE  /\ Stop \in Times /\ cur < Stop /\ Stop <= Segment[2]
         /\ prov \notin Animated => Stop = Segment[2]
         /\ Segment[1] \in Times /\ Segment[2] \in Times /\ cur \in Times
         /\ Segment[1] <= cur /\ cur < Segment[2]
<1>1. /\ Left # {} /\ Segment[1] <= cur /\ cur < Segment[2] /\ cur \in Times
  BY DEF IInv, PlaceInv, TypeOK
<1>2. Segment[1] \in Times /\ Segment[2] \in Times
  BY <1>1, SegmentIs DEF IInv
<1>5. cur \in Int /\ Segment[2] \in Int
  BY <1>1, <1>2, Constants DEF Times
<1>3. CASE prov \in Animated
  <2> DEFINE z == Segment[2]
  <2>1. z \in Times /\ cur < z /\ cur + 1 \in Int /\ z \in Int
    BY <1>1, <1>2, <1>5
  <2> HIDE DEF z
  <2>2. Min({cur + 1, z}) = IF cur + 1 <= z THEN cur + 1 ELSE z
    BY <2>1, LeastOfTwo
  <2>3. Min({cur + 1, z}) = cur + 1
    BY <2>1, <2>2, <1>1, Constants
  <2>4. Stop = cur + 1
    BY <2>3, <1>3 DEF Stop, z
  <2> QED
    BY <2>1, <2>4, <1>1, <1>2, <1>3, Constants DEF Times, z
<1>4. CASE prov \notin Animated
  BY <1>1, <1>2, <1>4, <1>5 DEF Stop
<1> QED
  BY <1>3, <1>4

\* It is a picture.
LEMMA PicIs ==
  ASSUME IInv, wpc = "render", provider # Null
  PROVE  Pic(Stop) \in Pictures
<1>1. provider \in 1 .. NumProviders
  BY Constants DEF IInv, TypeOK, Null
<1>2. Cover(provider, cur) \in SUBSET AllLines
  BY LinesAre DEF Cover, IInv
<1>3. Stop \in Times /\ Segment[1] \in Times /\ cur \in Times
  BY StopIs
<1> HIDE DEF Stop
<1> QED
  BY <1>1, <1>2, <1>3 DEF Pic, Pictures

\* What Render does: it leaves the segment, or adds a picture.
LEMMA RenderCases ==
  ASSUME Render
  PROVE  /\ wpc = "render"
         /\ UNCHANGED <<eventTime, breakBuffering, subLock, nowLast, rtNow, prov, passed, lost,
                         silent>>
         /\ ClientsUnchanged
         /\ holed' \in {holed, TRUE}
         /\ \/ wpc' = "loop" /\ pos' = Segment[2] /\ UNCHANGED <<queue, cur, again>>
            \/ /\ provider # Null
               /\ queue' = Append(queue, Pic(Stop)) /\ again' = TRUE /\ cur' = Stop
               /\ \/ wpc' = "render" /\ UNCHANGED pos /\ Stop < Segment[2] /\ Room'
                  \/ wpc' = "loop" /\ pos' = Segment[2]
  BY DEF Render, SegmentLeft, To, Pic, Stop

\* The time from which UpdateQueue has the queue filled.
LEMMA FillIs ==
  ASSUME NEW q \in Seq(Pictures), NEW t \in Times
  PROVE  /\ FillFrom(t, q) \in Times
         /\ \A i \in 1 .. Len(q) : q[i].stop <= FillFrom(t, q)
<1>1. {t} \cup Stops(q) \in SUBSET Times /\ {t} \cup Stops(q) # {}
  <2>1. \A i \in 1 .. Len(q) : q[i] \in Pictures
    OBVIOUS
  <2>2. \A s \in Pictures : s.stop \in Times
    BY DEF Pictures
  <2>3. Stops(q) \subseteq Times
    BY <2>1, <2>2 DEF Stops
  <2> QED
    BY <2>3
<1> DEFINE S == {t} \cup Stops(q)
<1>2. \A i \in 1 .. Len(q) : q[i].stop \in S
  BY DEF Stops
<1> HIDE DEF S
<1>3. Max(S) \in S /\ \A x \in S : x <= Max(S)
  BY <1>1, GreatestTime DEF S
<1>4. FillFrom(t, q) = Max(S)
  BY DEF FillFrom, S
<1> QED
  BY <1>1, <1>2, <1>3, <1>4 DEF S

\* What UpdateQueue and HandleInvalidate leave.
LEMMA StillQueue ==
  ASSUME TypeOK, NEW I \in SUBSET (1 .. Len(queue))
  PROVE  /\ Kept(queue, I) \in Seq(Pictures) /\ Len(Kept(queue, I)) <= MaxSubPic
         /\ \E f : /\ f \in [1 .. Len(Kept(queue, I)) -> I]
                   /\ \A m, n \in 1 .. Len(Kept(queue, I)) : m < n => f[m] < f[n]
                   /\ \A n \in 1 .. Len(Kept(queue, I)) : Kept(queue, I)[n] = queue[f[n]]
<1>1. queue \in Seq(Pictures) /\ Len(queue) <= MaxSubPic
  BY DEF TypeOK, Pictures
<1>2. /\ Kept(queue, I) \in Seq(Pictures) /\ Len(Kept(queue, I)) <= Len(queue)
      /\ \E f : /\ f \in [1 .. Len(Kept(queue, I)) -> I]
                /\ \A m, n \in 1 .. Len(Kept(queue, I)) : m < n => f[m] < f[n]
                /\ \A n \in 1 .. Len(Kept(queue, I)) : Kept(queue, I)[n] = queue[f[n]]
  BY <1>1, KeptIs, Zenon
<1>3. Len(Kept(queue, I)) \in Nat /\ Len(queue) \in Nat
  BY <1>1, <1>2
<1>4. Len(Kept(queue, I)) <= MaxSubPic
  BY <1>1, <1>2, <1>3, Constants
<1> QED
  BY <1>2, <1>4, Zenon

\* The parts of TypeOK: the clients', the queue's and the thread's.
ClientTypes ==
    /\ now \in Times /\ torn \in BOOLEAN
    /\ eventTime \in BOOLEAN /\ eventExit \in BOOLEAN /\ breakBuffering \in BOOLEAN
    /\ rtInvalidate \in Times \cup {-1}
    /\ provider \in 0 .. NumProviders /\ subtitleId \in 0 .. NumProviders
    /\ vobsub \in BOOLEAN /\ lines \subseteq Arriving /\ silent \subseteq Arriving
    /\ subLock \in {"none", "window", "worker"}
    /\ cpc \in [Clients -> {"idle", "locked", "invalidate", "break", "signal", "destroy",
                            "close", "gone"}]
    /\ arg \in [Clients -> Times \cup 0 .. NumProviders \cup {-1}] /\ ops \in 0 .. MaxOps

QueueTypes == queue \in Seq(Pictures) /\ Len(queue) <= MaxSubPic

ThreadTypes ==
    /\ prov \in 0 .. NumProviders
    /\ nowLast \in Times /\ rtNow \in Times /\ pos \in Times /\ cur \in Times
    /\ wpc \in {"wait", "update", "fetch", "lock", "loop", "skip", "ahead", "render",
                "handle", "remove", "reset", "gone"}
    /\ again \in BOOLEAN /\ passed \in Times
    /\ lost \in BOOLEAN /\ holed \in BOOLEAN

\* They are all of it.
LEMMA TypeParts ==
    /\ TypeOK <=> ClientTypes /\ QueueTypes /\ ThreadTypes
    /\ TypeOK' <=> ClientTypes' /\ QueueTypes' /\ ThreadTypes'
  BY DEF TypeOK, ClientTypes, QueueTypes, ThreadTypes, Pictures

\* A step of a client.
LEMMA ClientTypeStep ==
  ASSUME TypeOK, ClientInv, Client
  PROVE  TypeOK'
<1>1. ClientTypes /\ QueueTypes /\ ThreadTypes
  BY TypeParts
<1>2. QueueTypes'
  <2>1. queue' = queue
    BY DEF Client, ClientStep, SetTime, SetTimeDone, UpdateSubtitle, SetSubPicProvider, Receive, NewSegment,
           InvalidateSubtitle, StoreInvalidate, BreakBuffering, SignalInvalidate, Destroy
  <2> QED
    BY <1>1, <2>1 DEF QueueTypes
<1>3. ThreadTypes'
  <2>1. UNCHANGED <<nowLast, wpc, local, passed, holed>> /\ lost' \in BOOLEAN
    BY <1>1 DEF Client, ClientStep, SetTime, SetTimeDone, UpdateSubtitle, SetSubPicProvider,
           Receive, NewSegment, InvalidateSubtitle, StoreInvalidate, BreakBuffering, SignalInvalidate,
           Destroy, ghosts, ThreadTypes
  <2> QED
    BY <1>1, <2>1 DEF ThreadTypes, local
<1>4. ClientTypes'
  <2> USE <1>1 DEF ClientTypes, Clients, Go
  <2>0. UNCHANGED vobsub => UNCHANGED Arriving
    BY DEF Arriving
  <2>1. ASSUME NEW t \in Times, SetTime(t) PROVE ClientTypes'
    BY <2>0, <2>1, SubPicQueueAssumption, Constants DEF SetTime, flags, source, ghosts, Call
  <2>2. CASE SetTimeDone
    BY <2>0, <2>2 DEF SetTimeDone, source, ghosts
  <2>3. ASSUME NEW p \in 0 .. NumProviders, UpdateSubtitle(p) PROVE ClientTypes'
    <3>1. arg' \in [Clients -> Times \cup 0 .. NumProviders \cup {-1}] /\ ops' \in 0 .. MaxOps
      BY <2>3, Constants DEF UpdateSubtitle, Call
    <3>2. subLock' \in {"none", "window", "worker"} /\ subtitleId' \in 0 .. NumProviders
      BY <2>3 DEF UpdateSubtitle
    <3> QED
      BY <2>0, <2>3, <3>1, <3>2 DEF UpdateSubtitle, clock, flags, ghosts
  <2>4. CASE SetSubPicProvider
    BY <2>0, <2>4 DEF SetSubPicProvider, clock, flags, ghosts, ClientInv
  <2>5. ASSUME NEW d, Receive(d) PROVE ClientTypes'
    <3>1. /\ d \in Arriving /\ UNCHANGED vobsub /\ lines' \subseteq lines \cup {d}
          /\ (UNCHANGED silent \/ silent' = silent \cup {d} \cup (lines \ lines'))
      BY <2>5 DEF Receive
    <3>2. lines' \subseteq Arriving' /\ silent' \subseteq Arriving'
      BY <3>1 DEF Arriving
    <3>3. \/ UNCHANGED <<cpc, arg>>
          \/ ~vobsub /\ cpc' = [cpc EXCEPT !["stream"] = "invalidate"]
             /\ arg' = [arg EXCEPT !["stream"] = d[1]]
      BY <2>5 DEF Receive
    <3>4. ~vobsub => d[1] \in Times
      BY <3>1, Constants DEF Arriving, AllLines
    <3>5. UNCHANGED <<clock, flags, provider, subtitleId, subLock>> /\ ops' \in 0 .. MaxOps
      BY <2>5, Constants DEF Receive, Call
    <3>6. cpc' \in [Clients -> {"idle", "locked", "invalidate", "break", "signal", "destroy",
                                "close", "gone"}]
          /\ arg' \in [Clients -> Times \cup 0 .. NumProviders \cup {-1}]
      BY <3>3, <3>4
    <3> QED
      BY <3>1, <3>2, <3>5, <3>6 DEF clock, flags
  <2>11. CASE NewSegment
    <3>1. UNCHANGED vobsub /\ lines' = {} /\ silent' = silent \cup lines
      BY <2>11 DEF NewSegment
    <3>2. lines' \subseteq Arriving' /\ silent' \subseteq Arriving'
      BY <3>1 DEF Arriving
    <3> QED
      BY <2>11, <3>1, <3>2, Constants DEF NewSegment, clock, flags, Call
  <2>6. CASE InvalidateSubtitle
    BY <2>0, <2>6 DEF InvalidateSubtitle, clock, flags, source, ghosts
  <2>7. ASSUME NEW c \in Clients, StoreInvalidate(c) PROVE ClientTypes'
    <3>1. arg[c] \in Times \cup {-1}
      BY <2>7 DEF StoreInvalidate, ClientInv
    <3> QED
      BY <2>0, <2>7, <3>1 DEF StoreInvalidate, clock, source
  <2>8. ASSUME NEW c \in Clients, BreakBuffering(c) PROVE ClientTypes'
    BY <2>0, <2>8 DEF BreakBuffering, Break, clock, source, ghosts
  <2>9. ASSUME NEW c \in Clients, SignalInvalidate(c) PROVE ClientTypes'
    BY <2>0, <2>9 DEF SignalInvalidate, clock, source, ghosts
  <2>10. CASE Destroy
    <3>1. UNCHANGED <<clock, eventTime, rtInvalidate, source, subLock, arg, ops, ghosts>>
      BY <2>10 DEF Destroy
    <3>2. eventExit' \in BOOLEAN /\ breakBuffering' \in BOOLEAN
      BY <2>10 DEF Destroy, Break, SetExit
    <3>3. cpc' \in [Clients -> {"idle", "locked", "invalidate", "break", "signal", "destroy",
                                "close", "gone"}]
      BY <2>10 DEF Destroy
    <3> QED
      BY <2>0, <3>1, <3>2, <3>3 DEF clock, source, ghosts
  <2> QED
    BY <2>1, <2>2, <2>3, <2>4, <2>5, <2>6, <2>7, <2>8, <2>9, <2>10, <2>11
       DEF Client, ClientStep
<1> QED
  BY <1>2, <1>3, <1>4, TypeParts

\* What every step of the thread leaves to the clients.
LEMMA WorkerLeaves ==
  ASSUME Worker
  PROVE  /\ UNCHANGED <<now, torn, eventExit, rtInvalidate, provider, subtitleId, vobsub,
                        lines, cpc, arg, ops>>
         /\ silent' \in {silent, {}} /\ (wpc # "lock" \/ queue # <<>> => UNCHANGED silent)
         /\ eventTime' \in {eventTime, FALSE} /\ breakBuffering' \in {breakBuffering, FALSE}
         /\ subLock' \in {subLock, "none", "worker"}
  BY DEF Worker, Wait, GetSubPicProvider, Lock, Loop, LoopDone, Render, HandleInvalidate,
         UpdateQueue, Skip, TooFarAhead, ClientsUnchanged, clock, source, client, ghosts

\* What the thread does to the queue.
Selects(I) ==
    /\ I \in SUBSET (1 .. Len(queue))
    /\ queue' = Kept(queue, I)

\* The five cases.
LEMMA QueueCases ==
  ASSUME Worker
  PROVE  \/ queue' = queue
         \/ wpc = "update" /\ queue' = <<>>
         \/ wpc = "update" /\ \E t \in Now : Selects({i \in 1 .. Len(queue) : queue[i].stop > t})
         \/ wpc = "remove" /\ Selects({i \in 1 .. Len(queue) : Survives(queue[i])})
         \/ wpc = "render" /\ provider # Null /\ queue' = Append(queue, Pic(Stop))
<1> USE DEF Selects
<1>1. CASE Wait
  BY <1>1 DEF Wait
<1>2. CASE GetSubPicProvider
  BY <1>2 DEF GetSubPicProvider
<1>3. CASE Lock
  BY <1>3 DEF Lock
<1>4. CASE Loop
  BY <1>4 DEF Loop
<1>5. CASE Render
  BY <1>5, RenderCases
<1>6. CASE HandleInvalidate
  BY <1>6 DEF HandleInvalidate
<1>7. ASSUME NEW t \in Now, UpdateQueue(t)
      PROVE  wpc = "update" /\ (queue' = <<>> \/ Selects({i \in 1 .. Len(queue) : queue[i].stop > t}))
  BY <1>7 DEF UpdateQueue
<1>8. ASSUME NEW t \in Now, Skip(t) PROVE queue' = queue
  BY <1>8 DEF Skip
<1>9. ASSUME NEW t \in Now, TooFarAhead(t) PROVE queue' = queue
  BY <1>9 DEF TooFarAhead
<1> QED
  BY <1>1, <1>2, <1>3, <1>4, <1>5, <1>6, <1>7, <1>8, <1>9 DEF Worker

\* A step of the thread.
LEMMA WorkerTypeStep ==
  ASSUME TypeOK, IInv, Worker
  PROVE  TypeOK'
<1>1. ClientTypes /\ QueueTypes /\ ThreadTypes
  BY TypeParts
<1>2. ClientTypes'
  <2>1. UNCHANGED vobsub => UNCHANGED Arriving
    BY DEF Arriving
  <2>2. silent' \in {silent, {}}
    BY WorkerLeaves
  <2>3. silent' \subseteq Arriving'
    BY <1>1, <2>1, <2>2, WorkerLeaves DEF ClientTypes
  <2> QED
    BY <1>1, <2>1, <2>3, WorkerLeaves DEF ClientTypes
<1>3. QueueTypes'
  <2>1. ASSUME NEW I, Selects(I) PROVE QueueTypes'
    BY <2>1, StillQueue DEF Selects, QueueTypes
  <2>2. CASE queue' = queue
    BY <1>1, <2>2 DEF QueueTypes
  <2>3. CASE queue' = <<>>
    BY <2>3, Constants DEF QueueTypes
  <2>4. CASE wpc = "render" /\ provider # Null /\ queue' = Append(queue, Pic(Stop))
    <3>1. Pic(Stop) \in Pictures /\ Room
      BY <2>4, PicIs DEF IInv, PlaceInv
    <3> DEFINE p == Pic(Stop)
    <3>2. p \in Pictures /\ queue' = Append(queue, p)
      BY <3>1, <2>4
    <3> HIDE DEF p
    <3>3. queue' \in Seq(Pictures) /\ Len(queue') = Len(queue) + 1 /\ Len(queue) \in Nat
      BY <1>1, <3>2 DEF QueueTypes
    <3> QED
      BY <3>1, <3>3, Constants DEF QueueTypes, Room
  <2> QED
    BY <2>1, <2>2, <2>3, <2>4, QueueCases
<1>4. ThreadTypes'
  <2> USE <1>1 DEF ThreadTypes, To
  <2>1. CASE Wait
    BY <2>1 DEF Wait, ghosts
  <2>2. CASE GetSubPicProvider
    BY <2>2 DEF GetSubPicProvider, ghosts, ClientTypes
  <2>3. CASE Lock
    BY <2>3 DEF Lock, ghosts
  <2>4. CASE Loop
    BY <2>4 DEF Loop, LoopDone, local, ghosts
  <2>5. CASE Render
    <3>1. Segment[2] \in Times /\ Stop \in Times
      BY <2>5, RenderCases, StopIs
    <3> QED
      BY <2>5, RenderCases, <3>1
  <2>6. CASE HandleInvalidate
    BY <2>6 DEF HandleInvalidate, ghosts
  <2>7. ASSUME NEW t \in Now, UpdateQueue(t) PROVE ThreadTypes'
    <3>1. t \in Times
      BY <1>1 DEF Now, ClientTypes
    <3>2. rtNow' = FillFrom(t, queue')
      BY <2>7 DEF UpdateQueue
    <3>3. rtNow' \in Times
      BY <3>1, <3>2, <1>3, FillIs DEF QueueTypes
    <3> QED
      BY <2>7, <3>1, <3>3, Constants DEF UpdateQueue
  <2>8. ASSUME NEW t \in Now, Skip(t) PROVE ThreadTypes'
    <3>1. Segment[2] \in Times
      BY <2>8, SegmentIs DEF Skip, IInv, PlaceInv
    <3>2. {passed, Segment[2]} \in SUBSET Times /\ {passed, Segment[2]} # {}
      BY <3>1
    <3>3. Max({passed, Segment[2]}) \in Times
      BY <3>2, GreatestTime
    <3> QED
      BY <2>8, <3>1, <3>3 DEF Skip
  <2>9. ASSUME NEW t \in Now, TooFarAhead(t) PROVE ThreadTypes'
    <3>1. Segment[1] \in Times
      BY <2>9, SegmentIs DEF TooFarAhead, IInv, PlaceInv
    <3>2. {rtNow, Segment[1]} \in SUBSET Times /\ {rtNow, Segment[1]} # {}
      BY <3>1
    <3>3. Max({rtNow, Segment[1]}) \in Times
      BY <3>2, GreatestTime
    <3> QED
      BY <2>9, <3>1, <3>3 DEF TooFarAhead, LoopDone, ghosts
  <2> QED
    BY <2>1, <2>2, <2>3, <2>4, <2>5, <2>6, <2>7, <2>8, <2>9 DEF Worker
<1> QED
  BY <1>2, <1>3, <1>4, TypeParts

------------------------------------------------------------------------------
\* Where the clients are, who holds m_csSubLock, which subtitle is current.
LEMMA ClientInvStep ==
  ASSUME IInv, [Next]_vars
  PROVE  ClientInv'
<1> USE DEF ClientInv, Holding
<1>1. /\ ClientInv
      /\ cpc \in [Clients -> {"idle", "locked", "invalidate", "break", "signal", "destroy",
                              "close", "gone"}]
      /\ arg \in [Clients -> Times \cup 0 .. NumProviders \cup {-1}]
      /\ subLock \in {"none", "window", "worker"}
  BY DEF IInv, TypeOK
<1>2. ASSUME NEW t \in Times, SetTime(t) PROVE ClientInv'
  BY <1>1, <1>2 DEF SetTime, flags, source, Call, Go, Clients
<1>3. CASE SetTimeDone
  BY <1>1, <1>3 DEF SetTimeDone, source, Go, Clients
<1>4. ASSUME NEW p \in 0 .. NumProviders, UpdateSubtitle(p) PROVE ClientInv'
  BY <1>1, <1>4 DEF UpdateSubtitle, flags, Call, Go, Clients
<1>5. CASE SetSubPicProvider
  <2>1. provider' \in {Null, subtitleId'}
    BY <1>1, <1>5 DEF SetSubPicProvider
  <2> QED
    BY <1>1, <1>5, <2>1 DEF SetSubPicProvider, flags, Go, Clients
<1>6. ASSUME NEW d, Receive(d) PROVE ClientInv'
  <2>1. ~vobsub => d[1] \in Times
    BY <1>6, Constants DEF Receive, Arriving, AllLines
  <2> QED
    BY <1>1, <1>6, <2>1 DEF Receive, flags, Call, Go, Clients
<1>14. CASE NewSegment
  BY <1>1, <1>14 DEF NewSegment, flags
<1>7. CASE InvalidateSubtitle
  BY <1>1, <1>7 DEF InvalidateSubtitle, flags, source, Go, Clients
<1>8. ASSUME NEW c \in Clients, StoreInvalidate(c) PROVE ClientInv'
  BY <1>1, <1>8 DEF StoreInvalidate, source, Go, Clients
<1>9. ASSUME NEW c \in Clients, BreakBuffering(c) PROVE ClientInv'
  BY <1>1, <1>9 DEF BreakBuffering, Break, source, Go, Clients
<1>10. ASSUME NEW c \in Clients, SignalInvalidate(c) PROVE ClientInv'
  BY <1>1, <1>10 DEF SignalInvalidate, source, Go, Clients
<1>11. CASE Destroy
  BY <1>1, <1>11 DEF Destroy, Break, SetExit, source, Go, Clients
<1>12. CASE Worker
  <2>1. \/ UNCHANGED <<subLock, breakBuffering>> /\ wpc' \notin Holding \cup {"remove", "reset"}
           /\ wpc \notin Holding
        \/ UNCHANGED <<subLock, breakBuffering>> /\ wpc \in Holding /\ wpc' \in Holding
        \/ wpc = "lock" /\ subLock = "none" /\ subLock' = "worker" /\ wpc' = "loop"
        \/ wpc \in Holding /\ subLock' = "none" /\ wpc' = "handle"
        \/ wpc = "handle" /\ breakBuffering /\ UNCHANGED <<subLock, breakBuffering>> /\ wpc' = "remove"
        \/ wpc = "remove" /\ UNCHANGED <<subLock, breakBuffering>> /\ wpc' = "reset"
        \/ wpc = "reset" /\ UNCHANGED subLock /\ wpc' = "wait"
    <3> USE DEF To
    <3>1. CASE Wait
      BY <3>1 DEF Wait
    <3>2. CASE GetSubPicProvider
      BY <3>2 DEF GetSubPicProvider
    <3>3. CASE Lock
      BY <3>3 DEF Lock
    <3>4. CASE Loop
      BY <3>4 DEF Loop, LoopDone
    <3>5. CASE Render
      BY <3>5, RenderCases
    <3>6. CASE HandleInvalidate
      BY <3>6 DEF HandleInvalidate
    <3>7. ASSUME NEW t \in Now, UpdateQueue(t)
          PROVE  wpc = "update" /\ wpc' = "fetch" /\ UNCHANGED <<subLock, breakBuffering>>
      BY <3>7 DEF UpdateQueue
    <3>8. ASSUME NEW t \in Now, Skip(t)
          PROVE  wpc = "skip" /\ wpc' \in Holding /\ UNCHANGED <<subLock, breakBuffering>>
      BY <3>8 DEF Skip
    <3>9. ASSUME NEW t \in Now, TooFarAhead(t)
          PROVE  /\ wpc = "ahead" /\ UNCHANGED breakBuffering
                 /\ \/ subLock' = "none" /\ wpc' = "handle"
                    \/ UNCHANGED subLock /\ wpc' = "render"
      BY <3>9 DEF TooFarAhead, LoopDone
    <3> QED
      BY <1>12, <3>1, <3>2, <3>3, <3>4, <3>5, <3>6, <3>7, <3>8, <3>9 DEF Worker
  <2>2. UNCHANGED <<provider, subtitleId, cpc, arg>>
    BY <1>12, WorkerLeaves
  <2>3. subLock' = "worker" <=> wpc' \in Holding
    BY <1>1, <2>1
  <2>4. wpc' \in {"remove", "reset"} => breakBuffering'
    BY <1>1, <2>1
  <2>5. cpc["window"] = "locked" /\ arg["window"] # Null => subLock' = "window"
    BY <1>1, <2>1
  <2> QED
    BY <1>1, <2>2, <2>3, <2>4, <2>5
<1>13. CASE UNCHANGED vars
  BY <1>1, <1>13 DEF vars, flags, source, client
<1> QED
  BY <1>2, <1>3, <1>4, <1>5, <1>6, <1>7, <1>8, <1>9, <1>10, <1>11, <1>12, <1>13, <1>14
     DEF Next, Client, ClientStep

\* Whatever happens between GetSubPicProvider and Lock, the thread renders with the
\* provider it has fetched or with none.
LEMMA ProviderStep ==
  ASSUME IInv, [Next]_vars
  PROVE  ProviderInv'
<1> USE DEF ProviderInv, Holding
<1>1. /\ ClientInv /\ ProviderInv
      /\ cpc \in [Clients -> {"idle", "locked", "invalidate", "break", "signal", "destroy",
                              "close", "gone"}]
      /\ subLock \in {"none", "window", "worker"}
  BY DEF IInv, TypeOK
<1>2. ASSUME UNCHANGED <<wpc, prov, provider>>,
             breakBuffering => breakBuffering',
             subLock = "window" /\ cpc["window"] \in {"locked", "invalidate", "break"}
               => \/ breakBuffering'
                  \/ subLock' = "window" /\ cpc'["window"] \in {"locked", "invalidate", "break"}
      PROVE  ProviderInv'
  BY <1>1, <1>2
<1>3. ASSUME NEW t \in Times, SetTime(t) PROVE ProviderInv'
  BY <1>1, <1>2, <1>3 DEF SetTime, flags, source, local, Call, Go, Clients
<1>4. CASE SetTimeDone
  BY <1>1, <1>2, <1>4 DEF SetTimeDone, source, local, Go, Clients
<1>5. ASSUME NEW p \in 0 .. NumProviders, UpdateSubtitle(p) PROVE ProviderInv'
  BY <1>1, <1>2, <1>5 DEF UpdateSubtitle, flags, local, Call, Go, Clients
<1>6. CASE SetSubPicProvider
  <2>1. /\ UNCHANGED <<wpc, prov, subLock, breakBuffering>> /\ cpc'["window"] = "invalidate"
        /\ provider' # Null => subLock = "window"
    BY <1>1, <1>6 DEF SetSubPicProvider, flags, local, ClientInv, Go, Clients
  <2>2. provider' # Null => wpc \notin Holding
    BY <2>1, <1>1 DEF ClientInv
  <2> QED
    BY <1>1, <2>1, <2>2
<1>7. ASSUME NEW d, Receive(d) PROVE ProviderInv'
  BY <1>1, <1>2, <1>7 DEF Receive, flags, local, Call, Go, Clients
<1>17. CASE NewSegment
  BY <1>1, <1>2, <1>17 DEF NewSegment, flags, local
<1>8. CASE InvalidateSubtitle
  BY <1>1, <1>2, <1>8 DEF InvalidateSubtitle, flags, source, local, Go, Clients
<1>9. ASSUME NEW c \in Clients, StoreInvalidate(c) PROVE ProviderInv'
  BY <1>1, <1>2, <1>9 DEF StoreInvalidate, source, local, Go, Clients
<1>10. ASSUME NEW c \in Clients, BreakBuffering(c) PROVE ProviderInv'
  BY <1>1, <1>2, <1>10 DEF BreakBuffering, Break, source, local, Go, Clients
<1>11. ASSUME NEW c \in Clients, SignalInvalidate(c) PROVE ProviderInv'
  BY <1>1, <1>2, <1>11 DEF SignalInvalidate, source, local, Go, Clients
<1>12. CASE Destroy
  BY <1>1, <1>2, <1>12 DEF Destroy, Break, source, local, Go, Clients
<1> USE DEF To
<1>13. ASSUME wpc' \notin {"lock"} \cup Holding PROVE ProviderInv'
  BY <1>13
<1>14. ASSUME wpc \in Holding, wpc' \in Holding, wpc' # "loop" => wpc # "loop" \/ ~breakBuffering,
              wpc' = "loop" => wpc # "loop",
              UNCHANGED <<prov, provider, breakBuffering>>
       PROVE  ProviderInv'
  BY <1>1, <1>14
<1>15. CASE Worker
  <2>0. UNCHANGED provider
    BY <1>15, WorkerLeaves
  <2>1. CASE Wait
    BY <2>1, <1>13 DEF Wait
  <2>2. CASE GetSubPicProvider
    BY <2>0, <2>2 DEF GetSubPicProvider
  <2>3. CASE Lock
    BY <1>1, <2>0, <2>3 DEF Lock
  <2>4. CASE Loop
    BY <2>4, <2>0, <1>13, <1>14 DEF Loop, LoopDone, local
  <2>5. CASE Render
    BY <2>5, <2>0, RenderCases, <1>14
  <2>6. CASE HandleInvalidate
    BY <2>6, <1>13 DEF HandleInvalidate
  <2>7. ASSUME NEW t \in Now, UpdateQueue(t) PROVE ProviderInv'
    BY <2>7, <1>13 DEF UpdateQueue
  <2>8. ASSUME NEW t \in Now, Skip(t) PROVE ProviderInv'
    BY <2>8, <2>0, <1>14 DEF Skip
  <2>9. ASSUME NEW t \in Now, TooFarAhead(t) PROVE ProviderInv'
    BY <2>9, <2>0, <1>13, <1>14 DEF TooFarAhead, LoopDone
  <2> QED
    BY <1>15, <2>1, <2>2, <2>3, <2>4, <2>5, <2>6, <2>7, <2>8, <2>9 DEF Worker
<1>16. CASE UNCHANGED vars
  BY <1>1, <1>16 DEF vars, flags, source, client, local
<1> QED
  BY <1>3, <1>4, <1>5, <1>6, <1>7, <1>8, <1>9, <1>10, <1>11, <1>12, <1>15, <1>16, <1>17
     DEF Next, Client, ClientStep

------------------------------------------------------------------------------
\* While nothing arrives in the stream, its segments are what they were.
LEMMA SameSegments ==
  ASSUME UNCHANGED <<lines, vobsub, rtNow, prov>>
  PROVE  /\ Bounds(prov)' = Bounds(prov)
         /\ pos' = pos => Left' = Left /\ Segment' = Segment
<1>1. Bounds(prov)' = Bounds(prov)
  BY DEF Bounds, Lines
<1>2. ASSUME pos' = pos PROVE Left' = Left
  BY <1>2 DEF Left, HasStart, Segments, Bounds, Cover, Lines
<1>3. ASSUME pos' = pos PROVE Segment' = Segment
  BY <1>2, <1>3 DEF Segment
<1> QED
  BY <1>1, <1>2, <1>3

\* What a client leaves to the thread: the lines only change while the thread does
\* not hold m_csSubLock.
LEMMA ClientLeaves ==
  ASSUME ClientInv, Client
  PROVE  /\ UNCHANGED <<queue, nowLast, wpc, again, rtNow, prov, pos, cur, passed, holed>>
         /\ UNCHANGED vobsub
         /\ wpc \in Holding => UNCHANGED lines
<1>1. UNCHANGED <<queue, nowLast, wpc, again, rtNow, prov, pos, cur, passed, holed>>
  BY DEF Client, ClientStep, SetTime, SetTimeDone, UpdateSubtitle, SetSubPicProvider, Receive, NewSegment,
         InvalidateSubtitle, StoreInvalidate, BreakBuffering, SignalInvalidate, Destroy, local,
         ghosts
<1>2. UNCHANGED vobsub /\ (lines' = lines \/ subLock = "none")
  BY DEF Client, ClientStep, SetTime, SetTimeDone, UpdateSubtitle, SetSubPicProvider, Receive, NewSegment,
         InvalidateSubtitle, StoreInvalidate, BreakBuffering, SignalInvalidate, Destroy, source
<1> QED
  BY <1>1, <1>2 DEF ClientInv

\* Where the thread is: no picture ends after the time from which it goes on.
LEMMA PlaceStep ==
  ASSUME IInv, [Next]_vars
  PROVE  PlaceInv'
<1> USE DEF To
<1>1. /\ TypeOK /\ ClientInv /\ PlaceInv
      /\ rtNow \in Nat /\ pos \in Nat /\ cur \in Nat
      /\ Len(queue) \in Nat /\ \A i \in 1 .. Len(queue) : queue[i].stop \in Nat
  BY PictureTypes, Constants DEF IInv, TypeOK
<1>2. ASSUME UNCHANGED <<queue, wpc, rtNow, prov, pos, cur, vobsub>>,
             wpc \in Holding => UNCHANGED lines
      PROVE  PlaceInv'
  <2>1. CASE wpc \in Holding
    <3>1. Bounds(prov)' = Bounds(prov) /\ Left' = Left /\ Segment' = Segment
      BY <1>2, <2>1, SameSegments
    <3> QED
      BY <1>1, <1>2, <3>1 DEF PlaceInv, EndBy, Room
  <2>2. CASE wpc \notin Holding
    BY <1>1, <1>2, <2>2 DEF PlaceInv, EndBy, Holding
  <2> QED
    BY <2>1, <2>2
<1>3. CASE Client
  BY <1>1, <1>2, <1>3, ClientLeaves
<1>4. CASE UNCHANGED vars
  BY <1>2, <1>4 DEF vars, local, source
<1>5. ASSUME wpc' \notin {"fetch", "lock"} \cup Holding PROVE PlaceInv'
  BY <1>5 DEF PlaceInv, Holding
<1>6. CASE Worker
  <2>0. UNCHANGED <<lines, vobsub>>
    BY <1>6, WorkerLeaves
  <2>1. CASE Wait
    BY <2>1, <1>5 DEF Wait, Holding
  <2>2. CASE GetSubPicProvider
    BY <2>2, <1>1 DEF GetSubPicProvider, PlaceInv, EndBy, Holding
  <2>3. CASE Lock
    BY <2>3, <1>1 DEF Lock, PlaceInv, EndBy, Holding
  <2>4. CASE Loop
    <3>1. UNCHANGED <<queue, rtNow, prov, pos, cur>> /\ wpc = "loop"
          /\ (wpc' = "handle" \/ (wpc' = "skip" /\ Left # {} /\ Room))
      BY <2>4 DEF Loop, LoopDone, local, Room
    <3>2. Bounds(prov)' = Bounds(prov) /\ Left' = Left
      BY <3>1, <2>0, SameSegments
    <3> QED
      BY <3>1, <3>2, <1>1, <1>5 DEF PlaceInv, EndBy, Room, Holding
  <2>5. CASE Render
    <3>1. /\ wpc = "render" /\ UNCHANGED <<rtNow, prov>>
          /\ Stop \in Nat /\ cur < Stop /\ Stop <= Segment[2]
          /\ Segment[1] \in Nat /\ Segment[2] \in Nat /\ Segment[1] <= cur /\ cur < Segment[2]
      BY <2>5, RenderCases, StopIs, Constants
    <3>2. /\ pos < Segment[2] /\ Segment[2] \in Bounds(prov) /\ Left # {}
      BY <3>1, <1>1, SegmentIs DEF PlaceInv
    <3>3. rtNow <= pos /\ EndBy(cur)
      BY <3>1, <1>1 DEF PlaceInv, Holding
    <3>4. Bounds(prov)' = Bounds(prov)
      BY <3>1, <2>0, SameSegments
    <3>5. \A i \in 1 .. Len(queue') :
             /\ queue'[i].stop \in Nat
             /\ queue'[i].stop <= cur \/ (queue'[i].stop = Stop /\ cur' = Stop)
      <4>0. \A i \in 1 .. Len(queue) : queue[i].stop \in Nat /\ queue[i].stop <= cur
        BY <3>3, <1>1 DEF EndBy
      <4>1. CASE queue' = queue
        BY <4>0, <4>1
      <4>2. CASE provider # Null /\ queue' = Append(queue, Pic(Stop)) /\ cur' = Stop
        <5> DEFINE p == Pic(Stop)
        <5>1. p \in Pictures /\ p.stop = Stop /\ queue' = Append(queue, p)
          <6>1. Pic(Stop) \in Pictures
            BY <4>2, <3>1, PicIs
          <6>2. \A n : Pic(n).stop = n
            BY DEF Pic
          <6> QED
            BY <4>2, <6>1, <6>2
        <5> HIDE DEF p
        <5>2. queue \in Seq(Pictures)
          BY <1>1 DEF TypeOK, Pictures
        <5>3. /\ Len(queue') = Len(queue) + 1
              /\ \A i \in 1 .. Len(queue) + 1 :
                    queue'[i] = IF i = Len(queue) + 1 THEN p ELSE queue[i]
          BY <5>1, <5>2
        <5> QED
          BY <5>1, <5>3, <3>1, <4>0, <4>2, <1>1
      <4> QED
        BY <4>1, <4>2, <2>5, RenderCases
    <3>6. CASE wpc' = "loop" /\ pos' = Segment[2]
      <4>1. rtNow' <= pos' /\ pos' \in Bounds(prov)'
        BY <3>1, <3>2, <3>3, <3>4, <3>6, <1>1
      <4>2. EndBy(pos)'
        BY <3>1, <3>5, <3>6, <1>1 DEF EndBy
      <4> QED
        BY <3>6, <4>1, <4>2 DEF PlaceInv, Holding
    <3>7. CASE wpc' = "render" /\ UNCHANGED pos /\ Stop < Segment[2] /\ Room' /\ cur' = Stop
      <4>1. Left' = Left /\ Segment' = Segment
        BY <3>1, <3>7, <2>0, SameSegments
      <4>2. EndBy(cur)'
        BY <3>1, <3>5, <3>7, <1>1 DEF EndBy
      <4>3. Segment'[1] <= cur' /\ cur' < Segment'[2]
        BY <4>1, <3>1, <3>7, <1>1
      <4>4. rtNow' <= pos' /\ (pos' = rtNow' \/ pos' \in Bounds(prov)')
        BY <3>1, <3>4, <3>7, <1>1 DEF PlaceInv, Holding
      <4> QED
        BY <3>2, <3>7, <4>1, <4>2, <4>3, <4>4 DEF PlaceInv, Holding
    <3> QED
      BY <2>5, RenderCases, <3>6, <3>7
  <2>6. CASE HandleInvalidate
    BY <2>6, <1>5 DEF HandleInvalidate, Holding
  <2>7. ASSUME NEW t \in Now, UpdateQueue(t) PROVE PlaceInv'
    <3>1. t \in Times /\ queue' \in Seq(Pictures)
      <4>1. TypeOK'
        BY <1>6, WorkerTypeStep, <1>1
      <4> QED
        BY <4>1, <1>1 DEF TypeOK, Now, Pictures
    <3>2. rtNow' = FillFrom(t, queue') /\ wpc' = "fetch"
      BY <2>7 DEF UpdateQueue
    <3>3. \A i \in 1 .. Len(queue') : queue'[i].stop <= rtNow'
      BY <3>1, <3>2, FillIs
    <3> QED
      BY <3>2, <3>3 DEF PlaceInv, EndBy, Holding
  <2>8. ASSUME NEW t \in Now, Skip(t) PROVE PlaceInv'
    <3>1. /\ wpc = "skip" /\ UNCHANGED <<queue, rtNow, prov, cur>>
          /\ \/ wpc' = "loop" /\ pos' = Segment[2]
             \/ wpc' = "ahead" /\ UNCHANGED pos
      BY <2>8 DEF Skip
    <3>2. Left # {} /\ Room /\ rtNow <= pos /\ EndBy(pos)
          /\ (pos = rtNow \/ pos \in Bounds(prov))
      BY <3>1, <1>1 DEF PlaceInv, Holding
    <3>3. pos < Segment[2] /\ Segment[2] \in Bounds(prov) /\ Segment[2] \in Nat
      BY <3>2, <1>1, SegmentIs, Constants
    <3>4. Bounds(prov)' = Bounds(prov) /\ (pos' = pos => Left' = Left)
      BY <3>1, <2>0, SameSegments
    <3>5. rtNow' <= pos' /\ (pos' = rtNow' \/ pos' \in Bounds(prov)')
      BY <3>1, <3>2, <3>3, <3>4, <1>1
    <3>6. EndBy(pos)'
      BY <3>1, <3>2, <3>3, <1>1 DEF EndBy
    <3> QED
      BY <3>1, <3>2, <3>4, <3>5, <3>6 DEF PlaceInv, Holding, Room
  <2>9. ASSUME NEW t \in Now, TooFarAhead(t) PROVE PlaceInv'
    <3>1. /\ wpc = "ahead" /\ UNCHANGED <<queue, rtNow, prov, pos>>
          /\ \/ wpc' = "handle"
             \/ wpc' = "render" /\ cur' = Max({rtNow, Segment[1]})
      BY <2>9 DEF TooFarAhead, LoopDone
    <3>2. Left # {} /\ Room /\ rtNow <= pos /\ EndBy(pos)
          /\ (pos = rtNow \/ pos \in Bounds(prov))
      BY <3>1, <1>1 DEF PlaceInv, Holding
    <3>3. /\ Segment[1] \in Times /\ Segment[1] \in Nat /\ Segment[2] \in Nat
          /\ Segment[1] < Segment[2] /\ pos < Segment[2]
          /\ \A b \in Bounds(prov) : b <= Segment[1] \/ Segment[2] <= b
      BY <3>2, <1>1, SegmentIs, Constants
    <3>4. Bounds(prov)' = Bounds(prov) /\ Left' = Left /\ Segment' = Segment
      BY <3>1, <2>0, SameSegments
    <3> DEFINE m == Max({rtNow, Segment[1]})
    <3>5. m \in {rtNow, Segment[1]} /\ rtNow <= m /\ Segment[1] <= m
      <4>1. {rtNow, Segment[1]} \in SUBSET Times /\ {rtNow, Segment[1]} # {}
        BY <3>3, <1>1 DEF TypeOK
      <4> QED
        BY <4>1, GreatestTime
    <3> HIDE DEF m
    <3>6. pos <= m /\ m < Segment[2] /\ m \in Nat
      BY <3>2, <3>3, <3>5, <1>1
    <3>7. CASE wpc' = "render" /\ cur' = m
      <4>1. EndBy(cur)'
        BY <3>1, <3>2, <3>6, <3>7, <1>1 DEF EndBy
      <4> QED
        BY <3>1, <3>2, <3>4, <3>5, <3>6, <3>7, <4>1 DEF PlaceInv, Holding, Room
    <3> QED
      BY <3>1, <3>7, <1>5 DEF Holding, m
  <2> QED
    BY <1>6, <2>1, <2>2, <2>3, <2>4, <2>5, <2>6, <2>7, <2>8, <2>9 DEF Worker
<1> QED
  BY <1>3, <1>4, <1>6 DEF Next

------------------------------------------------------------------------------
\* A client that has stored the time of its invalidation, or is about to, keeps the
\* pictures doomed unless the invalidation is lost.
LEMMA DoomedKept ==
  ASSUME IInv, Client, ~lost'
  PROVE  Doomed \subseteq Doomed'
<1> SUFFICES ASSUME NEW s \in Doomed PROVE s \in Doomed'
  OBVIOUS
<1>1. /\ ClientInv /\ rtInvalidate \in Int /\ s \in Pictures /\ s.stop \in Nat
      /\ cpc \in [Clients -> {"idle", "locked", "invalidate", "break", "signal", "destroy",
                              "close", "gone"}]
      /\ arg \in [Clients -> Times \cup 0 .. NumProviders \cup {-1}]
  <2>1. s \in Pictures /\ s.stop \in Times
    BY DEF Doomed, Pictures
  <2>2. rtInvalidate \in Times \cup {-1}
    BY DEF IInv, TypeOK
  <2>3. Times \subseteq Nat
    BY Constants
  <2>4. s.stop \in Nat
    BY <2>1, <2>3
  <2>5. rtInvalidate \in Int
    BY <2>2, <2>3
  <2> QED
    BY <2>1, <2>4, <2>5 DEF IInv, TypeOK
<1>2. \/ cpc["window"] \in {"locked", "invalidate"}
      \/ cpc["stream"] = "invalidate" /\ subtitleId = 1 /\ arg["stream"] < s.stop
      \/ Pending /\ rtInvalidate < s.stop
  BY DEF Doomed
<1>3. ASSUME \/ cpc'["window"] \in {"locked", "invalidate"}
             \/ cpc'["stream"] = "invalidate" /\ subtitleId' = 1 /\ arg'["stream"] < s.stop
             \/ Pending' /\ rtInvalidate' < s.stop
      PROVE  s \in Doomed'
  BY <1>1, <1>3 DEF Doomed
<1>4. ASSUME UNCHANGED <<subtitleId, arg, rtInvalidate>>, breakBuffering => breakBuffering',
             \A c \in Clients : cpc[c] \in {"locked", "invalidate", "break"} => cpc'[c] = cpc[c]
      PROVE  s \in Doomed'
  BY <1>1, <1>2, <1>3, <1>4 DEF Pending, Clients
<1>5. ASSUME NEW t \in Times, SetTime(t) PROVE s \in Doomed'
  BY <1>1, <1>3, <1>4, <1>5 DEF SetTime, flags, source, Call, Go, Clients
<1>6. CASE SetTimeDone
  BY <1>1, <1>3, <1>4, <1>6 DEF SetTimeDone, source, Go, Clients
<1>7. ASSUME NEW p \in 0 .. NumProviders, UpdateSubtitle(p) PROVE s \in Doomed'
  BY <1>1, <1>3, <1>7 DEF UpdateSubtitle, Go, Clients
<1>8. CASE SetSubPicProvider
  BY <1>1, <1>3, <1>8 DEF SetSubPicProvider, Go, Clients
<1>9. ASSUME NEW d, Receive(d) PROVE s \in Doomed'
  BY <1>1, <1>2, <1>3, <1>9 DEF Receive, Call, flags, Pending, Go, Clients
<1>15. CASE NewSegment
  BY <1>3, <1>4, <1>15 DEF NewSegment, flags
<1>10. CASE InvalidateSubtitle
  BY <1>1, <1>2, <1>3, <1>10 DEF InvalidateSubtitle, flags, source, Pending, Go, Clients
<1>11. ASSUME NEW c \in Clients, StoreInvalidate(c) PROVE s \in Doomed'
  <2>1. /\ cpc[c] = "invalidate" /\ (c = "stream" => subtitleId = 1)
        /\ cpc' = [cpc EXCEPT ![c] = "break"] /\ rtInvalidate' = arg[c]
        /\ ~(Pending /\ rtInvalidate < arg[c]) /\ UNCHANGED <<subtitleId, arg, breakBuffering>>
    BY <1>11 DEF StoreInvalidate, source, Go
  <2>2. Pending' /\ c \in {"window", "stream"} /\ arg[c] \in Int
    BY <1>1, <2>1, Constants DEF Pending, ClientInv, Clients
  <2>3. CASE arg[c] < s.stop
    BY <1>3, <2>1, <2>2, <2>3
  <2>4. CASE ~(arg[c] < s.stop)
    <3>1. c = "stream"
      BY <1>1, <2>1, <2>2, <2>4 DEF ClientInv
    <3>2. ~(Pending /\ rtInvalidate < s.stop)
      BY <1>1, <2>1, <2>2, <2>4
    <3>3. cpc["window"] \in {"locked", "invalidate"}
      BY <1>2, <2>4, <3>1, <3>2
    <3> QED
      BY <1>1, <1>3, <2>1, <3>1, <3>3 DEF Clients
  <2> QED
    BY <2>3, <2>4
<1>12. ASSUME NEW c \in Clients, BreakBuffering(c) PROVE s \in Doomed'
  <2>1. /\ cpc[c] = "break" /\ cpc' = [cpc EXCEPT ![c] = "signal"]
        /\ breakBuffering' = TRUE /\ UNCHANGED <<subtitleId, arg, rtInvalidate>>
    BY <1>12 DEF BreakBuffering, Break, source, Go
  <2> QED
    BY <1>1, <1>2, <1>3, <2>1 DEF Pending, Clients
<1>13. ASSUME NEW c \in Clients, SignalInvalidate(c) PROVE s \in Doomed'
  BY <1>1, <1>3, <1>4, <1>13 DEF SignalInvalidate, source, Go, Clients
<1>14. CASE Destroy
  <2>1. UNCHANGED <<subtitleId, arg, rtInvalidate>> /\ (breakBuffering => breakBuffering')
    BY <1>14 DEF Destroy, Break, source
  <2>2. \A c \in Clients : cpc[c] \in {"locked", "invalidate", "break"} => cpc'[c] = cpc[c]
    BY <1>14, <1>1 DEF Destroy, Go, Clients
  <2> QED
    BY <1>3, <1>4, <2>1, <2>2
<1> QED
  BY <1>5, <1>6, <1>7, <1>8, <1>9, <1>10, <1>11, <1>12, <1>13, <1>14, <1>15
     DEF Client, ClientStep

\* What comes or goes unannounced may be missing from a picture, or be left on it.
LEMMA SilentKept ==
  ASSUME IInv, UNCHANGED <<provider, vobsub>>, ~vobsub => lines' = {},
         silent \subseteq silent', SymDiff(lines, lines') \subseteq silent'
  PROVE  Sound \subseteq Sound'
<1> SUFFICES ASSUME NEW s \in Sound PROVE s \in Sound'
  OBVIOUS
<1>1. /\ s \in Pictures /\ Ends(s) /\ s.prov = provider
      /\ \A t \in s.start .. s.stop - 1 : SymDiff(Cover(provider, t), s.subs) \subseteq silent
  BY DEF Sound, Fresh
<1>2. Ends(s)'
  <2>1. \A q : q # 1 => Bounds(q)' = Bounds(q)
    BY DEF Bounds, Lines
  <2>2. ~vobsub => Bounds(1)' = {}
    BY DEF Bounds, Lines
  <2> QED
    BY <1>1, <2>1, <2>2 DEF Ends
<1>3. ASSUME NEW t \in s.start .. s.stop - 1
      PROVE  SymDiff(Cover(provider, t)', s.subs) \subseteq silent'
  <2>1. SymDiff(Cover(provider, t), Cover(provider, t)') \subseteq silent'
    BY DEF Cover, Lines, SymDiff
  <2>2. SymDiff(Cover(provider, t), s.subs) \subseteq silent'
    BY <1>1
  <2> QED
    BY <2>1, <2>2 DEF SymDiff
<1> QED
  BY <1>1, <1>2, <1>3 DEF Sound, Fresh

\* A picture that no longer shows what it should is doomed from that very step on.
LEMMA SoundKept ==
  ASSUME IInv, Client
  PROVE  Sound \subseteq Sound' \cup Doomed'
<1>1. /\ ClientInv
      /\ cpc \in [Clients -> {"idle", "locked", "invalidate", "break", "signal", "destroy",
                              "close", "gone"}]
      /\ arg \in [Clients -> Times \cup 0 .. NumProviders \cup {-1}]
  BY DEF IInv, TypeOK
<1>2. ASSUME UNCHANGED <<provider, vobsub, lines, silent>> PROVE Sound' = Sound
  BY <1>2 DEF Sound, Fresh, Ends, Bounds, Cover, Lines
<1>3. CASE SetSubPicProvider
  <2>1. cpc'["window"] = "invalidate"
    BY <1>1, <1>3 DEF SetSubPicProvider, Go, Clients
  <2> QED
    BY <2>1 DEF Sound, Doomed
<1>4. ASSUME NEW d, Receive(d), ~vobsub PROVE Sound \subseteq Sound' \cup Doomed'
  <2>1. /\ lines' = lines \cup {d} /\ UNCHANGED <<provider, subtitleId, vobsub, silent>>
        /\ cpc'["stream"] = "invalidate" /\ arg'["stream"] = d[1]
        /\ cpc'["window"] = cpc["window"] /\ d \in StreamLines
    BY <1>1, <1>4 DEF Receive, Go, Clients, Arriving
  <2> SUFFICES ASSUME NEW s \in Sound, s \notin Doomed' PROVE s \in Sound'
    OBVIOUS
  <2>2. s \in Pictures /\ s.stop \in Nat /\ s.start \in Nat /\ s.prov = provider /\ Ends(s)
        /\ \A t \in s.start .. s.stop - 1 : SymDiff(Cover(provider, t), s.subs) \subseteq silent
    BY Constants DEF Sound, Fresh, Pictures
  <2>3. d[1] \in Nat /\ d[2] \in Nat /\ d[1] < d[2]
    BY <2>1, Constants DEF AllLines
  <2>4. provider = 1 => s.stop <= d[1]
    <3>1. cpc["window"] # "locked" /\ ~(subtitleId = 1 /\ d[1] < s.stop)
      BY <2>1, <2>2 DEF Doomed
    <3> QED
      BY <3>1, <2>2, <2>3, <1>1 DEF ClientInv, Null
  <2>5. \A t \in s.start .. s.stop - 1 : Cover(provider, t)' = Cover(provider, t)
    <3> SUFFICES ASSUME NEW t \in s.start .. s.stop - 1
                 PROVE  Cover(provider, t)' = Cover(provider, t)
      OBVIOUS
    <3>1. CASE provider # 1
      BY <3>1, <2>1 DEF Cover, Lines
    <3>2. CASE provider = 1
      <4>1. ~(d[1] <= t)
        BY <3>2, <2>2, <2>3, <2>4
      <4>2. Lines(provider) = lines /\ Lines(provider)' = lines \cup {d}
        BY <3>2, <2>1 DEF Lines
      <4> QED
        BY <4>1, <4>2 DEF Cover
    <3> QED
      BY <3>1, <3>2
  <2>6. Ends(s)'
    <3>1. provider # 1 => Bounds(provider)' = Bounds(provider)
      BY <2>1 DEF Bounds, Lines
    <3>2. Bounds(1)' = Bounds(1) \cup {d[1], d[2]}
      BY <2>1 DEF Bounds, Lines
    <3>3. CASE provider # 1
      BY <3>1, <3>3, <2>1, <2>2 DEF Ends
    <3>4. CASE provider = 1
      <4>1. s.stop <= d[1] /\ s.stop <= d[2]
        BY <3>4, <2>2, <2>3, <2>4
      <4> QED
        BY <3>2, <3>4, <4>1, <2>1, <2>2, <1>4 DEF Ends
    <3> QED
      BY <3>3, <3>4
  <2> QED
    BY <2>1, <2>2, <2>5, <2>6 DEF Sound, Fresh
<1>6. ASSUME NEW d, Receive(d), vobsub PROVE Sound \subseteq Sound' \cup Doomed'
  <2>1. /\ UNCHANGED <<provider, vobsub>> /\ lines' = {e \in lines : e[1] < d[1]} \cup {d}
        /\ silent' = silent \cup {d} \cup (lines \ lines')
    BY <1>6 DEF Receive
  <2>2. SymDiff(lines, lines') \subseteq silent'
    BY <2>1 DEF SymDiff
  <2> QED
    BY <2>1, <2>2, <1>6, SilentKept
<1>7. CASE NewSegment
  <2>1. UNCHANGED <<provider, vobsub>> /\ lines' = {} /\ silent' = silent \cup lines
    BY <1>7 DEF NewSegment
  <2>2. SymDiff(lines, lines') \subseteq silent'
    BY <2>1 DEF SymDiff
  <2> QED
    BY <2>1, <2>2, SilentKept
<1>5. CASE UNCHANGED <<provider, vobsub, lines, silent>>
  BY <1>2, <1>5
<1> QED
  BY <1>3, <1>4, <1>5, <1>6, <1>7
     DEF Client, ClientStep, SetTime, SetTimeDone, UpdateSubtitle, InvalidateSubtitle,
         StoreInvalidate, BreakBuffering, SignalInvalidate, Destroy, source, ghosts

------------------------------------------------------------------------------
\* The picture that Render adds shows what it should, ends with its segment unless it
\* is animated, and starts where those before it that are sound have ended.
LEMMA PicSound ==
  ASSUME IInv, wpc = "render", provider # Null
  PROVE  /\ Pic(Stop) \in Sound
         /\ \A i \in 1 .. Len(queue) :
               queue[i] \in Sound => queue[i].stop <= Pic(Stop).start
<1> DEFINE p == Pic(Stop)
<1>1. provider = prov
  BY DEF IInv, ProviderInv, Null
<1>2. /\ Stop \in Nat /\ cur < Stop /\ Stop <= Segment[2]
      /\ prov \notin Animated => Stop = Segment[2]
      /\ Segment[1] \in Nat /\ Segment[2] \in Nat /\ cur \in Nat
      /\ Segment[1] <= cur /\ cur < Segment[2]
  BY StopIs, Constants
<1>3. /\ Segment[2] \in Bounds(prov)
      /\ \A b \in Bounds(prov) : b <= Segment[1] \/ Segment[2] <= b
      /\ Segment[1] \in Bounds(prov) /\ Cover(prov, Segment[1]) # {}
  BY SegmentIs DEF IInv, PlaceInv
<1>4. /\ p \in Pictures /\ p.stop = Stop /\ p.prov = prov /\ p.subs = Cover(prov, cur)
      /\ p.start = IF prov \in Animated THEN cur ELSE Segment[1]
  <2>1. Pic(Stop) \in Pictures
    BY PicIs
  <2> QED
    BY <2>1, <1>1 DEF Pic
<1> HIDE DEF p
<1>0. /\ \A d \in Lines(prov) : d[1] \in Nat /\ d[2] \in Nat
      /\ prov = 1 /\ vobsub => Lines(prov) \subseteq PictureLines
      /\ \A d \in PictureLines : d[1] \in Nat /\ d[2] \in Nat /\ d[1] < d[2]
  BY LinesAre, Constants DEF IInv, AllLines
<1>5. Ends(p)
  <2>1. CASE prov \in Animated
    BY <1>4, <2>1 DEF Ends
  <2>2. CASE prov \notin Animated /\ ~(prov = 1 /\ vobsub)
    BY <1>2, <1>3, <1>4, <2>2 DEF Ends
  <2>3. CASE prov \notin Animated /\ prov = 1 /\ vobsub
    <3>1. PICK e \in PictureLines : Stop = e[1] \/ Stop = e[2]
      BY <1>0, <1>2, <1>3, <2>3 DEF Bounds
    <3>2. ASSUME NEW d \in PictureLines PROVE Stop <= d[1] \/ d[2] <= Stop
      <4>1. d = e \/ d[2] <= e[1] \/ e[2] <= d[1]
        BY Constants
      <4>2. /\ d[1] \in Nat /\ d[2] \in Nat /\ d[1] < d[2]
            /\ e[1] \in Nat /\ e[2] \in Nat /\ e[1] < e[2]
        BY <1>0
      <4> QED
        BY <3>1, <4>1, <4>2, <1>2
    <3> QED
      BY <1>4, <2>3, <3>2 DEF Ends
  <2> QED
    BY <2>1, <2>2, <2>3
<1>6. ASSUME NEW t \in p.start .. p.stop - 1
      PROVE  Cover(prov, t) = Cover(prov, cur)
  <2>1. t \in Int /\ Segment[1] <= t /\ t < Segment[2]
    <3>1. CASE prov \in Animated
      BY <1>2, <1>4, <1>6, <3>1
    <3>2. CASE prov \notin Animated
      BY <1>2, <1>4, <1>6, <3>2
    <3> QED
      BY <3>1, <3>2
  <2>2. \A d \in Lines(prov) : d[1] \in Nat /\ d[2] \in Nat
    BY <1>0
  <2>3. \A d \in Lines(prov) : d[1] \in Bounds(prov) /\ d[2] \in Bounds(prov)
    BY DEF Bounds
  <2>4. ASSUME NEW d \in Lines(prov)
        PROVE  (d[1] <= t /\ t < d[2]) <=> (d[1] <= cur /\ cur < d[2])
    <3> DEFINE a == d[1]
               b == d[2]
               x == Segment[1]
               y == Segment[2]
    <3>1. a \in Nat /\ b \in Nat /\ (a <= x \/ y <= a) /\ (b <= x \/ y <= b)
      BY <1>3, <2>2, <2>3
    <3>2. x \in Nat /\ y \in Nat /\ x <= t /\ t < y /\ x <= cur /\ cur < y /\ t \in Int /\ cur \in Nat
      BY <1>2, <2>1
    <3> HIDE DEF a, b, x, y
    <3>3. (a <= t /\ t < b) <=> (a <= cur /\ cur < b)
      BY <3>1, <3>2
    <3> QED
      BY <3>3 DEF a, b
  <2> QED
    BY <2>4 DEF Cover
<1>7. p \in Sound
  <2>1. \A A : SymDiff(A, A) = {}
    BY DEF SymDiff
  <2>2. \A t \in p.start .. p.stop - 1 : SymDiff(Cover(provider, t), p.subs) \subseteq silent
    BY <1>1, <1>4, <1>6, <2>1
  <2> QED
    BY <1>1, <1>4, <1>5, <2>2 DEF Sound, Fresh
<1>8. ASSUME NEW i \in 1 .. Len(queue), queue[i] \in Sound PROVE queue[i].stop <= p.start
  <2>1. queue[i].prov = prov /\ queue[i].stop \in Nat /\ queue[i].stop <= cur /\ Ends(queue[i])
    BY <1>1, <1>8, PictureTypes DEF Sound, Fresh, IInv, PlaceInv, EndBy
  <2>3. CASE prov \in Animated
    BY <1>4, <2>1, <2>3
  <2>4. CASE prov \notin Animated
    <3>1. queue[i].stop <= Segment[1] \/ Segment[2] <= queue[i].stop
      <4>1. CASE ~(prov = 1 /\ vobsub)
        BY <1>3, <2>1, <2>4, <4>1 DEF Ends
      <4>2. CASE prov = 1 /\ vobsub
        <5>1. PICK d \in PictureLines : d[1] <= Segment[1] /\ Segment[1] < d[2]
                                        /\ d[2] \in Bounds(prov)
          BY <1>0, <1>3, <4>2 DEF Cover, Bounds
        <5>2. queue[i].stop <= d[1] \/ d[2] <= queue[i].stop
          BY <2>1, <2>4, <4>2 DEF Ends
        <5>3. d[1] \in Nat /\ d[2] \in Nat /\ Segment[2] <= d[2]
          BY <1>0, <1>2, <1>3, <5>1
        <5> QED
          BY <1>2, <2>1, <5>1, <5>2, <5>3
      <4> QED
        BY <4>1, <4>2
    <3>2. queue[i].stop <= Segment[1]
      BY <1>2, <2>1, <3>1
    <3> QED
      BY <1>4, <2>4, <3>2
  <2> QED
    BY <2>3, <2>4
<1> QED
  BY <1>5, <1>7, <1>8 DEF p

\* A step of a client keeps the queue's part of the invariant ...
LEMMA ClientQueue ==
  ASSUME IInv, Client
  PROVE  QueueInv'
<1>1. QueueInv /\ TypeOK /\ ClientInv
  BY DEF IInv
<1>2. queue' = queue /\ wpc' = wpc
  BY <1>1, ClientLeaves
<1>4. ASSUME ~lost' PROVE ~lost /\ Doomed \subseteq Doomed' /\ Sound \subseteq Sound' \cup Doomed'
  <2>1. ~lost
    BY <1>4 DEF Client, ClientStep, SetTime, SetTimeDone, UpdateSubtitle, SetSubPicProvider,
           Receive, NewSegment, InvalidateSubtitle, StoreInvalidate, BreakBuffering, SignalInvalidate,
           Destroy, ghosts
  <2> QED
    BY <1>4, <2>1, DoomedKept, SoundKept
<1>5. ASSUME ~lost', wpc = "reset" PROVE rtInvalidate' = rtInvalidate
  BY <1>5 DEF Client, ClientStep, SetTime, SetTimeDone, UpdateSubtitle, SetSubPicProvider,
         Receive, NewSegment, InvalidateSubtitle, StoreInvalidate, BreakBuffering, SignalInvalidate,
         Destroy, flags
<1>7. ASSUME ~lost'
      PROVE  /\ \A i \in 1 .. Len(queue') : queue'[i] \in Sound' \cup Doomed'
             /\ \A i, j \in 1 .. Len(queue') :
                   i < j => \/ queue'[i].stop <= queue'[j].start
                            \/ queue'[i] \in Doomed' \/ queue'[j] \in Doomed'
             /\ wpc' = "reset" => \A i \in 1 .. Len(queue') : queue'[i].stop <= rtInvalidate'
  <2>1. ~lost /\ Doomed \subseteq Doomed' /\ Sound \subseteq Sound' \cup Doomed'
    BY <1>4, <1>7
  <2>2. \A i \in 1 .. Len(queue) : queue[i] \in Sound' \cup Doomed'
    BY <1>1, <2>1 DEF QueueInv
  <2>3. \A i, j \in 1 .. Len(queue) :
           i < j => \/ queue[i].stop <= queue[j].start
                    \/ queue[i] \in Doomed' \/ queue[j] \in Doomed'
    BY <1>1, <2>1 DEF QueueInv
  <2>4. wpc' = "reset" => \A i \in 1 .. Len(queue) : queue[i].stop <= rtInvalidate'
    BY <1>1, <1>2, <1>5, <1>7, <2>1 DEF QueueInv, EndBy
  <2> QED
    BY <1>2, <2>2, <2>3, <2>4
<1> QED
  BY <1>7 DEF QueueInv, EndBy

\* ... and so does a step of the thread: it removes pictures, adds one, or forgets the
\* invalidation whose pictures are gone.
LEMMA WorkerQueue ==
  ASSUME IInv, Worker
  PROVE  QueueInv'
<1>1. QueueInv /\ TypeOK /\ ClientInv
  BY DEF IInv
<1>2. UNCHANGED <<provider, subtitleId, vobsub, lines, rtInvalidate, cpc, arg>>
      /\ (wpc # "lock" \/ queue # <<>> => UNCHANGED silent)
  BY WorkerLeaves
<1>3. wpc # "lock" \/ queue # <<>> => Sound' = Sound
  BY <1>2 DEF Sound, Fresh, Ends, Bounds, Cover, Lines
<1>4. ASSUME ~lost' PROVE ~lost
  <2>1. ASSUME NEW t \in Now, UpdateQueue(t) PROVE ~lost
    BY <1>4, <2>1 DEF UpdateQueue
  <2>2. ASSUME NEW t \in Now, Skip(t) PROVE ~lost
    BY <1>4, <2>2 DEF Skip
  <2>3. ASSUME NEW t \in Now, TooFarAhead(t) PROVE ~lost
    BY <1>4, <2>3 DEF TooFarAhead, ghosts
  <2> QED
    BY <1>4, <2>1, <2>2, <2>3, RenderCases
       DEF Worker, Wait, GetSubPicProvider, Lock, Loop, HandleInvalidate, ghosts
<1>5. ASSUME wpc # "reset" PROVE UNCHANGED breakBuffering /\ Doomed' = Doomed
  <2>1. UNCHANGED breakBuffering
    <3>1. ASSUME NEW t \in Now, UpdateQueue(t) PROVE UNCHANGED breakBuffering
      BY <3>1 DEF UpdateQueue
    <3>2. ASSUME NEW t \in Now, Skip(t) PROVE UNCHANGED breakBuffering
      BY <3>2 DEF Skip
    <3>3. ASSUME NEW t \in Now, TooFarAhead(t) PROVE UNCHANGED breakBuffering
      BY <3>3 DEF TooFarAhead
    <3> QED
      BY <1>5, <3>1, <3>2, <3>3, RenderCases
         DEF Worker, Wait, GetSubPicProvider, Lock, Loop, HandleInvalidate
  <2> QED
    BY <1>2, <2>1 DEF Doomed, Pending
<1>6. /\ Len(queue) \in Nat /\ queue \in Seq(Pictures)
      /\ \A i \in 1 .. Len(queue) : queue[i].start \in Nat /\ queue[i].stop \in Nat
  BY <1>1, PictureTypes DEF TypeOK, Pictures
<1>7. wpc' = "reset" => wpc = "remove"
  <2>1. ASSUME NEW t \in Now, UpdateQueue(t) PROVE wpc' = "fetch"
    BY <2>1 DEF UpdateQueue, To
  <2>2. ASSUME NEW t \in Now, Skip(t) PROVE wpc' \in {"loop", "ahead"}
    BY <2>2 DEF Skip, To
  <2>3. ASSUME NEW t \in Now, TooFarAhead(t) PROVE wpc' \in {"handle", "render"}
    BY <2>3 DEF TooFarAhead, LoopDone, To
  <2> QED
    BY <2>1, <2>2, <2>3, RenderCases
       DEF Worker, Wait, GetSubPicProvider, Lock, Loop, LoopDone, HandleInvalidate, To
\* A step that adds nothing.
<1>8. ASSUME NEW I, Selects(I), wpc \notin {"lock", "reset"},
             wpc = "remove" => \A i \in I : Survives(queue[i])
      PROVE  QueueInv'
  <2>1. PICK f : /\ f \in [1 .. Len(queue') -> I]
                 /\ \A m, n \in 1 .. Len(queue') : m < n => f[m] < f[n]
                 /\ \A n \in 1 .. Len(queue') : queue'[n] = queue[f[n]]
    BY <1>1, <1>8, StillQueue DEF Selects
  <2>2. \A n \in 1 .. Len(queue') : f[n] \in I /\ f[n] \in 1 .. Len(queue)
    BY <1>8, <2>1 DEF Selects
  <2>4. ASSUME ~lost'
        PROVE  /\ \A i \in 1 .. Len(queue') : queue'[i] \in Sound' \cup Doomed'
               /\ \A i, j \in 1 .. Len(queue') :
                     i < j => \/ queue'[i].stop <= queue'[j].start
                              \/ queue'[i] \in Doomed' \/ queue'[j] \in Doomed'
               /\ wpc' = "reset" => \A i \in 1 .. Len(queue') : queue'[i].stop <= rtInvalidate'
    <3>1. ~lost /\ Sound' = Sound /\ Doomed' = Doomed
      BY <1>3, <1>4, <1>5, <1>8, <2>4
    <3>2. \A i \in 1 .. Len(queue') : queue'[i] \in Sound' \cup Doomed'
      BY <1>1, <2>1, <2>2, <3>1 DEF QueueInv
    <3>3. ASSUME NEW i \in 1 .. Len(queue'), NEW j \in 1 .. Len(queue'), i < j
          PROVE  \/ queue'[i].stop <= queue'[j].start
                 \/ queue'[i] \in Doomed' \/ queue'[j] \in Doomed'
      <4>1. f[i] < f[j] /\ f[i] \in 1 .. Len(queue) /\ f[j] \in 1 .. Len(queue)
            /\ queue'[i] = queue[f[i]] /\ queue'[j] = queue[f[j]]
        BY <2>1, <2>2, <3>3
      <4> QED
        BY <1>1, <3>1, <4>1 DEF QueueInv
    <3>4. ASSUME wpc' = "reset" PROVE \A i \in 1 .. Len(queue') : queue'[i].stop <= rtInvalidate'
      BY <1>2, <1>7, <1>8, <2>1, <2>2, <3>4 DEF Survives
    <3> QED
      BY <3>2, <3>3, <3>4
  <2> QED
    BY <2>4 DEF QueueInv, EndBy
<1>9. CASE queue' = <<>>
  BY <1>9 DEF QueueInv, EndBy
<1>10. CASE queue' = queue /\ queue # <<>> /\ wpc # "reset" /\ wpc' # "reset"
  BY <1>1, <1>3, <1>4, <1>5, <1>10 DEF QueueInv
<1>11. CASE wpc = "reset"
  <2>1. queue' = queue /\ wpc' # "reset"
    BY <1>7, <1>11, QueueCases
  <2>2. ASSUME ~lost'
        PROVE  \A i \in 1 .. Len(queue) : queue[i] \in Doomed => queue[i] \in Doomed'
    <3>1. \A i \in 1 .. Len(queue) : queue[i].stop <= rtInvalidate
      BY <1>1, <1>4, <1>11, <2>2 DEF QueueInv, EndBy
    <3>2. rtInvalidate \in Int
      BY <1>1, Constants DEF TypeOK
    <3> SUFFICES ASSUME NEW i \in 1 .. Len(queue), queue[i] \in Doomed
                 PROVE  queue[i] \in Doomed'
      OBVIOUS
    <3> DEFINE s == queue[i]
    <3>3. s \in Doomed /\ s.stop <= rtInvalidate /\ s.stop \in Nat
      BY <3>1, <1>6
    <3> HIDE DEF s
    <3>4. s \in Pictures
          /\ \/ cpc["window"] \in {"locked", "invalidate"}
             \/ cpc["stream"] = "invalidate" /\ subtitleId = 1 /\ arg["stream"] < s.stop
      BY <3>2, <3>3 DEF Doomed
    <3>5. \/ cpc'["window"] \in {"locked", "invalidate"}
          \/ cpc'["stream"] = "invalidate" /\ subtitleId' = 1 /\ arg'["stream"] < s.stop
      BY <3>4, <1>2
    <3>6. \A x \in Pictures :
             \/ cpc'["window"] \in {"locked", "invalidate"}
             \/ cpc'["stream"] = "invalidate" /\ subtitleId' = 1 /\ arg'["stream"] < x.stop
             => x \in Doomed'
      BY DEF Doomed
    <3>7. s \in Doomed'
      BY <3>4, <3>5, <3>6
    <3> QED
      BY <3>7 DEF s
  <2>4. ASSUME ~lost'
        PROVE  /\ \A i \in 1 .. Len(queue') : queue'[i] \in Sound' \cup Doomed'
               /\ \A i, j \in 1 .. Len(queue') :
                     i < j => \/ queue'[i].stop <= queue'[j].start
                              \/ queue'[i] \in Doomed' \/ queue'[j] \in Doomed'
    BY <1>1, <1>3, <1>4, <1>11, <2>1, <2>2, <2>4 DEF QueueInv
  <2> QED
    BY <2>1, <2>4 DEF QueueInv, EndBy
<1>12. CASE wpc = "render" /\ provider # Null /\ queue' = Append(queue, Pic(Stop))
  <2> DEFINE p == Pic(Stop)
             n == Len(queue)
  <2>1. /\ p \in Sound /\ p \in Pictures
        /\ \A i \in 1 .. n : queue[i] \in Sound => queue[i].stop <= p.start
    BY <1>12, PicSound DEF Sound
  <2>2. queue' = Append(queue, p)
    BY <1>12
  <2> HIDE DEF p
  <2>3. /\ Len(queue') = n + 1 /\ n \in Nat
        /\ \A i \in 1 .. n + 1 : queue'[i] = IF i = n + 1 THEN p ELSE queue[i]
    BY <1>6, <2>1, <2>2
  <2> HIDE DEF n
  <2>4. ~lost => /\ \A i \in 1 .. n : queue[i] \in Sound \cup Doomed
                 /\ \A i, j \in 1 .. n : i < j => \/ queue[i].stop <= queue[j].start
                                                  \/ queue[i] \in Doomed \/ queue[j] \in Doomed
    BY <1>1 DEF QueueInv, n
  <2>6. ASSUME ~lost'
        PROVE  /\ \A i \in 1 .. Len(queue') : queue'[i] \in Sound' \cup Doomed'
               /\ \A i, j \in 1 .. Len(queue') :
                     i < j => \/ queue'[i].stop <= queue'[j].start
                              \/ queue'[i] \in Doomed' \/ queue'[j] \in Doomed'
    <3>1. ~lost /\ Sound' = Sound /\ Doomed' = Doomed
      BY <1>3, <1>4, <1>5, <1>12, <2>6
    <3>2. \A i \in 1 .. Len(queue') : queue'[i] \in Sound' \cup Doomed'
      BY <2>1, <2>3, <2>4, <3>1
    <3>3. ASSUME NEW i \in 1 .. Len(queue'), NEW j \in 1 .. Len(queue'), i < j
          PROVE  \/ queue'[i].stop <= queue'[j].start
                 \/ queue'[i] \in Doomed' \/ queue'[j] \in Doomed'
      <4>1. i \in 1 .. n /\ queue'[i] = queue[i]
        BY <2>3, <3>3
      <4>2. CASE j = n + 1
        <5>1. queue'[j] = p
          BY <2>3, <4>2
        <5>2. queue[i] \in Sound \/ queue[i] \in Doomed
          BY <2>4, <3>1, <4>1
        <5> QED
          BY <2>1, <3>1, <4>1, <5>1, <5>2
      <4>3. CASE j # n + 1
        <5>1. j \in 1 .. n /\ queue'[j] = queue[j]
          BY <2>3, <4>3
        <5> QED
          BY <2>4, <3>1, <3>3, <4>1, <5>1
      <4> QED
        BY <4>2, <4>3
    <3> QED
      BY <3>2, <3>3
  <2> QED
    BY <1>7, <1>12, <2>6 DEF QueueInv
<1>13. CASE wpc = "remove"
  <2>1. Selects({i \in 1 .. Len(queue) : Survives(queue[i])})
    BY <1>13 DEF Worker, Wait, GetSubPicProvider, Lock, Loop, Render, HandleInvalidate,
           UpdateQueue, Skip, TooFarAhead, Selects
  <2> DEFINE I == {i \in 1 .. Len(queue) : Survives(queue[i])}
  <2>2. Selects(I) /\ \A i \in I : Survives(queue[i])
    BY <2>1
  <2> HIDE DEF I
  <2> QED
    BY <1>8, <1>13, <2>2
<1>14. CASE wpc = "update" /\ \E t \in Now : Selects({i \in 1 .. Len(queue) : queue[i].stop > t})
  <2>1. PICK I : Selects(I)
    BY <1>14
  <2> QED
    BY <1>8, <1>14, <2>1
<1> QED
  BY <1>7, <1>9, <1>10, <1>11, <1>12, <1>13, <1>14, QueueCases

------------------------------------------------------------------------------
\* The inductive invariant.
THEOREM Invariance == Spec => []IInv
<1>1. Init => IInv
  <2> SUFFICES ASSUME Init PROVE IInv
    OBVIOUS
  <2> USE DEF Init
  <2>1. TypeOK
    <3>1. ClientTypes
      <4>1. /\ now \in Times /\ torn \in BOOLEAN
            /\ eventTime \in BOOLEAN /\ eventExit \in BOOLEAN /\ breakBuffering \in BOOLEAN
        BY Constants
      <4>2. rtInvalidate \in Times \cup {-1}
        OBVIOUS
      <4>3. /\ provider \in 0 .. NumProviders /\ subtitleId \in 0 .. NumProviders
            /\ vobsub \in BOOLEAN /\ lines \subseteq Arriving /\ silent \subseteq Arriving
            /\ subLock \in {"none", "window", "worker"}
        BY Constants DEF Null
      <4>4. /\ cpc \in [Clients -> {"idle", "locked", "invalidate", "break", "signal",
                                    "destroy", "close", "gone"}]
            /\ arg \in [Clients -> Times \cup 0 .. NumProviders \cup {-1}] /\ ops \in 0 .. MaxOps
        BY Constants
      <4> QED
        BY <4>1, <4>2, <4>3, <4>4 DEF ClientTypes
    <3>2. QueueTypes
      BY Constants DEF QueueTypes
    <3>3. ThreadTypes
      <4>1. /\ prov \in 0 .. NumProviders
            /\ nowLast \in Times /\ rtNow \in Times /\ pos \in Times /\ cur \in Times
            /\ passed \in Times
        BY Constants DEF Null
      <4>2. again \in BOOLEAN /\ lost \in BOOLEAN /\ holed \in BOOLEAN
        OBVIOUS
      <4> QED
        BY <4>1, <4>2 DEF ThreadTypes
    <3> QED
      BY <3>1, <3>2, <3>3, TypeParts
  <2>2. ClientInv
    BY DEF ClientInv, Holding, Null, Clients
  <2>3. ProviderInv /\ PlaceInv
    BY DEF ProviderInv, PlaceInv, Holding, Null
  <2>4. QueueInv
    BY DEF QueueInv
  <2> QED
    BY <2>1, <2>2, <2>3, <2>4 DEF IInv
<1>2. IInv /\ [Next]_vars => IInv'
  <2> SUFFICES ASSUME IInv, [Next]_vars PROVE IInv'
    OBVIOUS
  <2>1. TypeOK'
    <3>1. CASE UNCHANGED vars
      BY <3>1 DEF IInv, TypeOK, vars, clock, flags, source, client, local, ghosts, Arriving
    <3> QED
      BY <3>1, ClientTypeStep, WorkerTypeStep DEF Next, IInv
  <2>2. ClientInv' /\ ProviderInv' /\ PlaceInv'
    BY ClientInvStep, ProviderStep, PlaceStep
  <2>3. QueueInv'
    <3>1. CASE UNCHANGED vars
      <4>1. Sound' = Sound /\ Doomed' = Doomed
        BY <3>1 DEF vars, clock, flags, source, client, local, ghosts, Ends, Sound, Doomed,
               Bounds, Lines, Fresh, Cover, Pending
      <4>2. UNCHANGED <<queue, lost, wpc, rtInvalidate>>
        BY <3>1 DEF vars, flags, ghosts
      <4> QED
        BY <4>1, <4>2 DEF IInv, QueueInv, EndBy
    <3> QED
      BY <3>1, ClientQueue, WorkerQueue DEF Next
  <2> QED
    BY <2>1, <2>2, <2>3 DEF IInv
<1> QED
  BY <1>1, <1>2, PTL DEF Spec

\* Every variable keeps its type; the queue is never longer than m_nMaxSubPic.
THEOREM TypeCorrect == Spec => []TypeOK
<1>1. IInv => TypeOK
  BY DEF IInv
<1> QED
  BY <1>1, Invariance, PTL

\* No picture of another subtitle, or from before a line of text arrived, outlives an
\* invalidation that the thread could see; what came or went in the stream without one
\* is all that a picture may lack, or show too many.
THEOREM NothingStale == Spec => []NoStalePicture
<1>1. IInv => NoStalePicture
  <2> SUFFICES ASSUME IInv, Quiet, ~breakBuffering, ~lost, NEW i \in 1 .. Len(queue)
               PROVE  Fresh(queue[i])
    BY DEF NoStalePicture
  <2>1. queue[i] \in Sound \cup Doomed
    BY DEF IInv, QueueInv
  <2>2. Doomed = {}
    BY DEF Doomed, Quiet, Pending, Clients
  <2> QED
    BY <2>1, <2>2 DEF Sound
<1> QED
  BY <1>1, Invariance, PTL

\* No two pictures in the queue cover the same time.
THEOREM NeverOverlap == Spec => []NoOverlap
<1>1. IInv => NoOverlap
  <2> SUFFICES ASSUME IInv, ~lost, ~breakBuffering, Quiet,
                      NEW i \in 1 .. Len(queue), NEW j \in 1 .. Len(queue), i < j
               PROVE  queue[i].stop <= queue[j].start
    BY DEF NoOverlap
  <2>1. Doomed = {}
    BY DEF Doomed, Quiet, Pending, Clients
  <2> QED
    BY <2>1 DEF IInv, QueueInv
<1> QED
  BY <1>1, Invariance, PTL
============================================================================
