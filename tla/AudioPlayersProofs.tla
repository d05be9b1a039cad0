------------------------- MODULE AudioPlayersProofs -------------------------
(***************************************************************************)
(* The audio players of opensles_shim.c, for any table, ring, buffers and  *)
(* threads: who owns a slot, that callbacks and sound reach only their     *)
(* owner, and that a cut buffer is never realigned.                        *)
(***************************************************************************)
EXTENDS AudioPlayers, SequenceTheorems, TLAPS

-----------------------------------------------------------------------------
(***************************************************************************)
(* Arithmetic of the ring.                                                 *)
(***************************************************************************)

\* The modulo of a number less than a round outside of the ring.
LEMMA ModIs ==
    ASSUME NEW x \in Int, 0 - RING_BUFFER_SIZE <= x, x < 2 * RING_BUFFER_SIZE
    PROVE  /\ Mod(x) \in Index
           /\ Mod(x) = IF x < 0 THEN x + RING_BUFFER_SIZE
                       ELSE IF x < RING_BUFFER_SIZE THEN x ELSE x - RING_BUFFER_SIZE
<1> DEFINE n == RING_BUFFER_SIZE
           q == x \div n
           r == x % n
<1>1. n \in Nat /\ n > 0
  BY RingAssumption
<1>2. x = n * q + r /\ q \in Int /\ r \in 0 .. n - 1
  BY <1>1
<1>3. Mod(x) = r /\ Index = 0 .. n - 1
  BY DEF Mod, Index
<1>4. 0 - n <= x /\ x < 2 * n
  OBVIOUS
<1> HIDE DEF n, q, r
<1>5. q \in {-1, 0, 1}
  <2>1. CASE q <= -2
    <3>1. n * q <= n * (-2)
      BY <1>1, <1>2, <2>1
    <3> QED BY <1>1, <1>2, <1>4, <3>1
  <2>2. CASE q >= 2
    <3>1. n * q >= n * 2
      BY <1>1, <1>2, <2>2
    <3> QED BY <1>1, <1>2, <1>4, <3>1
  <2> QED BY <1>2, <2>1, <2>2
<1>6. x = r - n \/ x = r \/ x = r + n
  <2>1. CASE q = -1
    BY <1>1, <1>2, <2>1
  <2>2. CASE q = 0
    BY <1>1, <1>2, <2>2
  <2>3. CASE q = 1
    BY <1>1, <1>2, <2>3
  <2> QED BY <1>5, <2>1, <2>2, <2>3
<1> USE DEF n
<1> QED BY <1>1, <1>2, <1>3, <1>6

\* Bytes in the ring and free bytes, without the modulo.
LEMMA UsedIs ==
    ASSUME NEW ps \in Player
    PROVE  /\ Used(ps) = IF ps.ring_head >= ps.ring_tail THEN ps.ring_head - ps.ring_tail
                         ELSE ps.ring_head - ps.ring_tail + RING_BUFFER_SIZE
           /\ Free(ps) = RING_BUFFER_SIZE - 1 - Used(ps)
           /\ Used(ps) \in Index /\ Free(ps) \in Index
<1>1. /\ ps.ring_head \in 0 .. RING_BUFFER_SIZE - 1 /\ ps.ring_tail \in 0 .. RING_BUFFER_SIZE - 1
      /\ RING_BUFFER_SIZE \in Nat \ {0}
  BY RingAssumption DEF Player, Index
<1> DEFINE d == ps.ring_head - ps.ring_tail
           f == ps.ring_tail - ps.ring_head - 1
<1>2. /\ d \in Int /\ 0 - RING_BUFFER_SIZE <= d /\ d < RING_BUFFER_SIZE
      /\ f \in Int /\ 0 - RING_BUFFER_SIZE <= f /\ f < RING_BUFFER_SIZE /\ f = 0 - d - 1
      /\ d < 2 * RING_BUFFER_SIZE /\ f < 2 * RING_BUFFER_SIZE
  BY <1>1
<1>3. Used(ps) = Mod(d) /\ Free(ps) = Mod(f)
  BY DEF Used, Free
<1>4. d >= 0 <=> ps.ring_head >= ps.ring_tail
  BY <1>1
<1> HIDE DEF d, f
<1>5. /\ Mod(d) \in Index /\ Mod(f) \in Index
      /\ Mod(d) = IF d < 0 THEN d + RING_BUFFER_SIZE ELSE d
      /\ Mod(f) = IF f < 0 THEN f + RING_BUFFER_SIZE ELSE f
  BY <1>1, <1>2, ModIs
<1>6. Free(ps) = RING_BUFFER_SIZE - 1 - Used(ps)
  BY <1>1, <1>2, <1>3, <1>5
<1>7. Used(ps) = IF ps.ring_head >= ps.ring_tail THEN d ELSE d + RING_BUFFER_SIZE
  BY <1>1, <1>2, <1>3, <1>4, <1>5
<1> QED BY <1>3, <1>5, <1>6, <1>7 DEF d

\* Where an index lies in the ring.
LEMMA DistanceIs ==
    ASSUME NEW i \in Index, NEW j \in Index
    PROVE  Mod(i - j) \in Index /\ Mod(i - j) = IF i >= j THEN i - j ELSE i - j + RING_BUFFER_SIZE
<1> DEFINE d == i - j
<1>1. /\ i \in 0 .. RING_BUFFER_SIZE - 1 /\ j \in 0 .. RING_BUFFER_SIZE - 1
      /\ RING_BUFFER_SIZE \in Nat \ {0}
  BY RingAssumption DEF Index
<1>2. /\ d \in Int /\ 0 - RING_BUFFER_SIZE <= d /\ d < 2 * RING_BUFFER_SIZE
      /\ d < RING_BUFFER_SIZE /\ (d >= 0 <=> i >= j)
  BY <1>1
<1> HIDE DEF d
<1>3. Mod(d) \in Index /\ Mod(d) = IF d < 0 THEN d + RING_BUFFER_SIZE ELSE d
  BY <1>1, <1>2, ModIs
<1>4. Mod(d) = IF i >= j THEN d ELSE d + RING_BUFFER_SIZE
  BY <1>1, <1>2, <1>3
<1> QED BY <1>3, <1>4 DEF d

\* Advancing an index by less than a round.
LEMMA AdvanceIs ==
    ASSUME NEW i \in Index, NEW n \in 0 .. RING_BUFFER_SIZE
    PROVE  /\ Mod(i + n) \in Index
           /\ Mod(i + n) = IF i + n < RING_BUFFER_SIZE THEN i + n ELSE i + n - RING_BUFFER_SIZE
<1> DEFINE d == i + n
<1>1. i \in 0 .. RING_BUFFER_SIZE - 1 /\ RING_BUFFER_SIZE \in Nat \ {0}
  BY RingAssumption DEF Index
<1>2. d \in Int /\ 0 - RING_BUFFER_SIZE <= d /\ d < 2 * RING_BUFFER_SIZE /\ d >= 0
  BY <1>1
<1> HIDE DEF d
<1>3. Mod(d) \in Index /\ Mod(d) = IF d < RING_BUFFER_SIZE THEN d ELSE d - RING_BUFFER_SIZE
  BY <1>1, <1>2, ModIs
<1> QED BY <1>1, <1>3 DEF d

\* The place of the byte number k of a ring.
LEMMA PlaceIs ==
    ASSUME NEW i \in Index, NEW k \in Int, 1 <= k, k - 1 < RING_BUFFER_SIZE
    PROVE  Mod(i + k - 1) \in Index /\ Mod(Mod(i + k - 1) - i) = k - 1
<1> DEFINE m == k - 1
           j == Mod(i + m)
<1>1. /\ i \in 0 .. RING_BUFFER_SIZE - 1 /\ RING_BUFFER_SIZE \in Nat \ {0}
      /\ m \in 0 .. RING_BUFFER_SIZE - 1 /\ m \in 0 .. RING_BUFFER_SIZE
      /\ i + k - 1 = i + m
  BY RingAssumption DEF Index
<1> HIDE DEF m
<1>2. j \in Index /\ j = IF i + m < RING_BUFFER_SIZE THEN i + m ELSE i + m - RING_BUFFER_SIZE
  BY <1>1, AdvanceIs
<1> HIDE DEF j
<1>3. Mod(j - i) = IF j >= i THEN j - i ELSE j - i + RING_BUFFER_SIZE
  BY <1>2, DistanceIs
<1>4. Mod(j - i) = m
  BY <1>1, <1>2, <1>3
<1> QED BY <1>1, <1>2, <1>4 DEF j, m

-----------------------------------------------------------------------------
(***************************************************************************)
(* What is done to one player.                                             *)
(***************************************************************************)

\* What the application enqueues are whole samples.
LEMMA BufferIs ==
    ASSUME NEW c \in 1 .. MaxMade, NEW n \in Sizes
    PROVE  /\ Buffer(c, n) \in Seq(Bytes) /\ Len(Buffer(c, n)) = n
           /\ n \in Nat /\ n % 2 = 0
           /\ \A i \in 1 .. n : Buffer(c, n)[i].of = c
<1>1. n \in Nat /\ n % 2 = 0 /\ c \in 0 .. MaxMade
  BY AppAssumption
<1>2. \A i \in 1 .. n : [of |-> c, half |-> (i + 1) % 2] \in Bytes
  BY <1>1 DEF Bytes
<1>3. Buffer(c, n) \in [1 .. n -> Bytes]
  BY <1>2 DEF Buffer
<1>4. Buffer(c, n) \in Seq(Bytes)
  BY <1>1, <1>3, SeqDef
<1>5. Len(Buffer(c, n)) = n
  <2>1. Len(Buffer(c, n)) \in Nat /\ DOMAIN Buffer(c, n) = 1 .. Len(Buffer(c, n))
    BY <1>4, LenProperties
  <2>2. 1 .. Len(Buffer(c, n)) = 1 .. n
    BY <1>3, <2>1
  <2> DEFINE l == Len(Buffer(c, n))
  <2> HIDE DEF l
  <2>3. l \in Nat /\ 1 .. l = 1 .. n
    BY <2>1, <2>2 DEF l
  <2>4. CASE l < n
    BY <1>1, <2>3, <2>4
  <2>5. CASE n < l
    BY <1>1, <2>3, <2>5
  <2>6. l = n
    BY <1>1, <2>3, <2>4, <2>5
  <2> QED BY <2>6 DEF l
<1> QED BY <1>1, <1>4, <1>5 DEF Buffer

\* Written: what of the buffer fits, behind what the ring holds; the rest stays.
LEMMA WriteIs ==
    ASSUME NEW ps \in Player, NEW b \in Seq(Bytes),
           NEW w, w = Least(Len(b), Free(ps))
    PROVE  /\ Write(ps, b) \in Player
           /\ \A f \in {"in_use", "playing", "is_muted", "bq_callback", "bq_context", "ring_tail"} :
                 Write(ps, b)[f] = ps[f]
           /\ w \in 0 .. Len(b) /\ w \in Index
           /\ Write(ps, b).ring_head = Mod(ps.ring_head + w)
           /\ Write(ps, b).ring = [i \in Index |-> IF Mod(i - ps.ring_head) < w
                                                   THEN b[Mod(i - ps.ring_head) + 1]
                                                   ELSE ps.ring[i]]
<1> DEFINE new == [i \in Index |-> IF Mod(i - ps.ring_head) < w
                                   THEN b[Mod(i - ps.ring_head) + 1] ELSE ps.ring[i]]
           top == Mod(ps.ring_head + w)
<1>1. ps.ring_head \in Index /\ ps.ring \in [Index -> Bytes]
  BY DEF Player
<1>2. Len(b) \in Nat /\ b \in [1 .. Len(b) -> Bytes]
  BY LenProperties
<1>3. w \in 0 .. Len(b) /\ w \in Index /\ w \in 0 .. RING_BUFFER_SIZE
  <2>1. Free(ps) \in Index
    BY UsedIs
  <2> QED BY <1>2, <2>1, RingAssumption DEF Least, Index
<1>4. top \in Index
  BY <1>1, <1>3, AdvanceIs
<1>5. new \in [Index -> Bytes]
  <2>1. ASSUME NEW i \in Index, Mod(i - ps.ring_head) < w
        PROVE  b[Mod(i - ps.ring_head) + 1] \in Bytes
    <3>1. Mod(i - ps.ring_head) \in Index
      BY <1>1, DistanceIs
    <3>2. Mod(i - ps.ring_head) + 1 \in 1 .. Len(b)
      BY <1>2, <1>3, <2>1, <3>1, RingAssumption DEF Index
    <3> QED BY <1>2, <3>2
  <2> QED BY <1>1, <2>1
<1>6. Write(ps, b) = [ps EXCEPT !.ring_head = top, !.ring = new]
  BY DEF Write
<1> HIDE DEF top, new
<1>7. /\ Write(ps, b) \in Player /\ Write(ps, b).ring_head = top /\ Write(ps, b).ring = new
      /\ Write(ps, b).in_use = ps.in_use /\ Write(ps, b).playing = ps.playing
      /\ Write(ps, b).is_muted = ps.is_muted /\ Write(ps, b).bq_callback = ps.bq_callback
      /\ Write(ps, b).bq_context = ps.bq_context /\ Write(ps, b).ring_tail = ps.ring_tail
  BY <1>4, <1>5, <1>6 DEF Player
<1> QED BY <1>3, <1>7 DEF top, new

\* After the write the ring holds that much more, each byte at its place.
LEMMA WriteUsed ==
    ASSUME NEW ps \in Player, NEW b \in Seq(Bytes),
           NEW w, w = Least(Len(b), Free(ps)), NEW qs, qs = Write(ps, b)
    PROVE  /\ Used(qs) = Used(ps) + w
           /\ \A i \in Index : Mod(i - ps.ring_tail) < Used(qs) =>
                IF Mod(i - ps.ring_tail) < Used(ps)
                  THEN qs.ring[i] = ps.ring[i]
                  ELSE qs.ring[i] = b[Mod(i - ps.ring_tail) - Used(ps) + 1]
<1>1. /\ ps.ring_head \in Index /\ ps.ring_tail \in Index /\ qs.ring_head \in Index
      /\ qs \in Player /\ qs.ring_tail = ps.ring_tail /\ w \in 0 .. RING_BUFFER_SIZE
      /\ w <= Free(ps) /\ qs.ring_head = Mod(ps.ring_head + w) /\ w \in Index
      /\ qs.ring = [i \in Index |-> IF Mod(i - ps.ring_head) < w
                                     THEN b[Mod(i - ps.ring_head) + 1] ELSE ps.ring[i]]
  <2>1. /\ qs \in Player /\ w \in Index /\ qs.ring_head = Mod(ps.ring_head + w)
        /\ qs["ring_tail"] = ps["ring_tail"]
        /\ qs.ring = [i \in Index |-> IF Mod(i - ps.ring_head) < w
                                     THEN b[Mod(i - ps.ring_head) + 1] ELSE ps.ring[i]]
    BY WriteIs
  <2>2. Len(b) \in Nat /\ Free(ps) \in Index
    BY LenProperties, UsedIs
  <2>3. w <= Free(ps) /\ w \in 0 .. RING_BUFFER_SIZE
    BY <2>1, <2>2, RingAssumption DEF Least, Index
  <2> QED BY <2>1, <2>3 DEF Player
<1>2. /\ Free(ps) = RING_BUFFER_SIZE - 1 - Used(ps)
      /\ Used(ps) = IF ps.ring_head >= ps.ring_tail THEN ps.ring_head - ps.ring_tail
                    ELSE ps.ring_head - ps.ring_tail + RING_BUFFER_SIZE
  BY UsedIs
<1>3. Used(qs) = IF qs.ring_head >= ps.ring_tail THEN qs.ring_head - ps.ring_tail
                 ELSE qs.ring_head - ps.ring_tail + RING_BUFFER_SIZE
  BY <1>1, UsedIs
<1>4. qs.ring_head = IF ps.ring_head + w < RING_BUFFER_SIZE THEN ps.ring_head + w
                     ELSE ps.ring_head + w - RING_BUFFER_SIZE
  BY <1>1, AdvanceIs
<1> DEFINE n == RING_BUFFER_SIZE
           h == ps.ring_head
           t == ps.ring_tail
           g == qs.ring_head
           u == Used(ps)
           v == Used(qs)
<1>a. /\ n \in Int /\ h \in Int /\ t \in Int /\ g \in Int /\ w \in Int /\ u \in Int
      /\ 0 <= h /\ h < n /\ 0 <= t /\ t < n /\ 0 <= w
  <2>1. u \in Index
    BY UsedIs
  <2> HIDE DEF u
  <2>2. /\ n \in Int /\ h \in 0 .. n - 1 /\ t \in 0 .. n - 1 /\ g \in 0 .. n - 1
        /\ w \in 0 .. n /\ u \in 0 .. n - 1
    BY <1>1, <2>1, RingAssumption DEF Index
  <2> HIDE DEF n, h, t, g
  <2> QED BY <2>2
<1>b. w <= n - 1 - u
  BY <1>1, <1>2
<1>c. /\ u = IF h >= t THEN h - t ELSE h - t + n
      /\ v = IF g >= t THEN g - t ELSE g - t + n
      /\ g = IF h + w < n THEN h + w ELSE h + w - n
  BY <1>2, <1>3, <1>4
<1>5. Used(qs) = Used(ps) + w
  <2> HIDE DEF n, h, t, g, u, v
  <2>1. w + u < n
    BY <1>a, <1>b
  <2>2. v = u + w
    BY <1>a, <1>c, <2>1
  <2> QED BY <2>2 DEF u, v
<1>6. ASSUME NEW i \in Index, Mod(i - ps.ring_tail) < Used(qs)
      PROVE  IF Mod(i - ps.ring_tail) < Used(ps)
               THEN qs.ring[i] = ps.ring[i]
               ELSE qs.ring[i] = b[Mod(i - ps.ring_tail) - Used(ps) + 1]
  <2> DEFINE d == Mod(i - ps.ring_tail)
             e == Mod(i - ps.ring_head)
  <2>1. /\ d = IF i >= ps.ring_tail THEN i - ps.ring_tail
               ELSE i - ps.ring_tail + RING_BUFFER_SIZE
        /\ e = IF i >= ps.ring_head THEN i - ps.ring_head
               ELSE i - ps.ring_head + RING_BUFFER_SIZE
    BY <1>1, DistanceIs
  <2>2. qs.ring[i] = IF e < w THEN b[e + 1] ELSE ps.ring[i]
    BY <1>1
  <2>3. d < Used(ps) + w
    BY <1>5, <1>6
  <2> HIDE DEF d, e
  <2>4. IF d < Used(ps) THEN ~(e < w) ELSE e < w /\ e = d - Used(ps)
    <3>1. /\ i \in 0 .. n - 1
          /\ d = IF i >= t THEN i - t ELSE i - t + n
          /\ e = IF i >= h THEN i - h ELSE i - h + n
      BY <2>1 DEF Index
    <3>2. d < u + w
      BY <2>3
    <3> HIDE DEF n, h, t, g, u, v
    <3>3. IF d < u THEN ~(e < w) ELSE e < w /\ e = d - u
      BY <1>a, <1>b, <1>c, <3>1, <3>2
    <3> QED BY <3>3 DEF u
  <2>5. IF d < Used(ps) THEN qs.ring[i] = ps.ring[i] ELSE qs.ring[i] = b[d - Used(ps) + 1]
    BY <2>2, <2>4
  <2> QED BY <2>5 DEF d
<1> QED BY <1>5, <1>6

\* Whole samples behind an even tail: the head stays odd once it is.
LEMMA WriteOdd ==
    ASSUME NEW ps \in Player, NEW b \in Seq(Bytes), Len(b) % 2 = 0,
           ps.ring_tail % 2 = 0, ps.ring_head % 2 = 1
    PROVE  Write(ps, b).ring_head % 2 = 1
<1> DEFINE w == Least(Len(b), Free(ps))
<1>1. /\ ps.ring_head \in Index /\ ps.ring_tail \in Index /\ w \in 0 .. RING_BUFFER_SIZE
      /\ Write(ps, b).ring_head = Mod(ps.ring_head + w) /\ Len(b) \in Nat
  <2>1. w \in Index /\ Write(ps, b).ring_head = Mod(ps.ring_head + w)
    BY WriteIs
  <2> QED BY <2>1, LenProperties, RingAssumption DEF Player, Index
<1>2. Write(ps, b).ring_head = IF ps.ring_head + w < RING_BUFFER_SIZE THEN ps.ring_head + w
                               ELSE ps.ring_head + w - RING_BUFFER_SIZE
  BY <1>1, AdvanceIs
<1>3. w = Len(b) \/ w = Free(ps)
  BY DEF Least
<1>4. Free(ps) = ps.ring_tail - ps.ring_head - 1
        \/ Free(ps) = ps.ring_tail - ps.ring_head - 1 + RING_BUFFER_SIZE
  <2>1. /\ Used(ps) = IF ps.ring_head >= ps.ring_tail THEN ps.ring_head - ps.ring_tail
                      ELSE ps.ring_head - ps.ring_tail + RING_BUFFER_SIZE
        /\ Free(ps) = RING_BUFFER_SIZE - 1 - Used(ps)
    BY UsedIs
  <2> QED BY <1>1, <2>1, RingAssumption DEF Index
<1> DEFINE n == RING_BUFFER_SIZE
           h == ps.ring_head
           t == ps.ring_tail
           l == Len(b)
           g == Write(ps, b).ring_head
<1>5. /\ n \in Nat /\ n % 2 = 0 /\ h \in Nat /\ t \in Nat /\ l \in Nat /\ w \in Nat
      /\ l % 2 = 0 /\ t % 2 = 0 /\ h % 2 = 1
      /\ w = l \/ w = t - h - 1 \/ w = t - h - 1 + n
      /\ g = h + w \/ g = h + w - n
  BY <1>1, <1>2, <1>3, <1>4, RingAssumption DEF Index
<1> HIDE DEF n, h, t, l, g, w
<1>6. g % 2 = 1
  BY <1>5
<1> QED BY <1>6 DEF g

\* A chunk played: up to CHUNK samples leave the ring from behind.
LEMMA MixedIs ==
    ASSUME NEW ps \in Player
    PROVE  \E n \in 0 .. Used(ps) :
             /\ n % 2 = 0
             /\ Mixed(ps) \in Player
             /\ Mixed(ps).ring_tail = Mod(ps.ring_tail + n)
             /\ \A f \in {"in_use", "playing", "is_muted", "bq_callback", "bq_context",
                          "ring_head", "ring"} : Mixed(ps)[f] = ps[f]
<1> DEFINE r == Least(CHUNK, Used(ps) \div 2)
           n == 2 * r
<1>1. /\ Used(ps) \in 0 .. RING_BUFFER_SIZE - 1 /\ ps.ring_tail \in Index
      /\ CHUNK \in Nat /\ RING_BUFFER_SIZE \in Nat
  BY UsedIs, RingAssumption DEF Player, Index
<1>2. r \in Nat /\ 2 * r <= Used(ps)
  <2> DEFINE u == Used(ps)
  <2>1. u \div 2 \in Nat /\ 2 * (u \div 2) <= u
    BY <1>1
  <2> HIDE DEF u
  <2>2. Least(CHUNK, u \div 2) \in Nat /\ 2 * Least(CHUNK, u \div 2) <= u
    <3> DEFINE v == u \div 2
    <3>1. v \in Nat /\ 2 * v <= u /\ u \in Nat
      BY <1>1, <2>1 DEF u
    <3> HIDE DEF v
    <3>2. Least(CHUNK, v) \in Nat /\ 2 * Least(CHUNK, v) <= u
      BY <1>1, <3>1 DEF Least
    <3> QED BY <3>2 DEF v
  <2> QED BY <2>2 DEF u
<1> HIDE DEF r
<1>3. n \in 0 .. Used(ps) /\ n % 2 = 0 /\ n \in 0 .. RING_BUFFER_SIZE
  BY <1>1, <1>2
<1>4. CASE ps.in_use /\ ps.playing /\ ~ps.is_muted
  <2>1. Mixed(ps) = [ps EXCEPT !.ring_tail = Mod(ps.ring_tail + n)]
    BY <1>4 DEF Mixed, r
  <2>2. Mod(ps.ring_tail + n) \in Index
    BY <1>1, <1>3, AdvanceIs
  <2> HIDE DEF n
  <2>3. /\ Mixed(ps) \in Player /\ Mixed(ps).ring_tail = Mod(ps.ring_tail + n)
        /\ Mixed(ps).in_use = ps.in_use /\ Mixed(ps).playing = ps.playing
        /\ Mixed(ps).is_muted = ps.is_muted /\ Mixed(ps).bq_callback = ps.bq_callback
        /\ Mixed(ps).bq_context = ps.bq_context /\ Mixed(ps).ring_head = ps.ring_head
        /\ Mixed(ps).ring = ps.ring
    BY <2>1, <2>2 DEF Player
  <2> QED BY <1>3, <2>3
<1>5. CASE ~(ps.in_use /\ ps.playing /\ ~ps.is_muted)
  <2>1. Mixed(ps) = ps
    BY <1>5 DEF Mixed
  <2>2. Mod(ps.ring_tail + 0) = ps.ring_tail
    BY <1>1, AdvanceIs DEF Index
  <2>3. 0 \in 0 .. Used(ps) /\ 0 % 2 = 0
    BY <1>1
  <2> QED BY <2>1, <2>2, <2>3
<1> QED BY <1>4, <1>5

\* What is left in the ring was there before, and an even tail stays even.
LEMMA MixedUsed ==
    ASSUME NEW ps \in Player, NEW n \in 0 .. Used(ps), n % 2 = 0,
           NEW qs \in Player, qs.ring_head = ps.ring_head,
           qs.ring_tail = Mod(ps.ring_tail + n)
    PROVE  /\ Used(qs) = Used(ps) - n
           /\ ps.ring_tail % 2 = 0 => qs.ring_tail % 2 = 0
           /\ \A i \in Index : Mod(i - qs.ring_tail) < Used(qs) =>
                 Mod(i - ps.ring_tail) = Mod(i - qs.ring_tail) + n
<1>1. /\ ps.ring_head \in Index /\ ps.ring_tail \in Index /\ qs.ring_head \in Index
      /\ qs.ring_tail \in Index /\ Used(ps) \in Index /\ n \in 0 .. RING_BUFFER_SIZE
  <2>1. Used(ps) \in Index
    BY UsedIs
  <2>2. n \in 0 .. RING_BUFFER_SIZE
    BY <2>1, RingAssumption DEF Index
  <2> QED BY <2>1, <2>2 DEF Player
<1>2. /\ Used(ps) = IF ps.ring_head >= ps.ring_tail THEN ps.ring_head - ps.ring_tail
                    ELSE ps.ring_head - ps.ring_tail + RING_BUFFER_SIZE
      /\ Used(qs) = IF qs.ring_head >= qs.ring_tail THEN qs.ring_head - qs.ring_tail
                    ELSE qs.ring_head - qs.ring_tail + RING_BUFFER_SIZE
  BY UsedIs
<1>3. qs.ring_tail = IF ps.ring_tail + n < RING_BUFFER_SIZE THEN ps.ring_tail + n
                     ELSE ps.ring_tail + n - RING_BUFFER_SIZE
  BY <1>1, AdvanceIs
<1>4. Used(qs) = Used(ps) - n
  BY <1>1, <1>2, <1>3, RingAssumption DEF Index
<1>5. ps.ring_tail % 2 = 0 => qs.ring_tail % 2 = 0
  BY <1>1, <1>3, RingAssumption DEF Index
<1>6. ASSUME NEW i \in Index, Mod(i - qs.ring_tail) < Used(qs)
      PROVE  Mod(i - ps.ring_tail) = Mod(i - qs.ring_tail) + n
  <2> DEFINE d == Mod(i - ps.ring_tail)
             e == Mod(i - qs.ring_tail)
  <2>1. /\ d = IF i >= ps.ring_tail THEN i - ps.ring_tail
               ELSE i - ps.ring_tail + RING_BUFFER_SIZE
        /\ e = IF i >= qs.ring_tail THEN i - qs.ring_tail
               ELSE i - qs.ring_tail + RING_BUFFER_SIZE
    BY <1>1, DistanceIs
  <2>2. e < Used(ps) - n
    BY <1>4, <1>6
  <2> HIDE DEF d, e
  <2>3. d = e + n
    BY <1>1, <1>2, <1>3, <2>1, <2>2, RingAssumption DEF Index
  <2> QED BY <2>3 DEF d, e
<1> QED BY <1>4, <1>5, <1>6

-----------------------------------------------------------------------------
(***************************************************************************)
(* Types.                                                                  *)
(***************************************************************************)

Working == [at : Labels, slot : Slots, pumping : BOOLEAN, cb : Contexts, ctx : Contexts]

\* A player the application has: its slot and its number.
LEMMA LiveIs ==
    ASSUME AudioTypeOK, NEW h \in live
    PROVE  /\ h[1] \in Slots /\ h[2] \in 1 .. MaxMade /\ h = <<h[1], h[2]>>
           /\ h[2] \in Contexts /\ h[2] # None
  BY NoneAssumption DEF AudioTypeOK, Contexts

\* A thread's steps after the first.
LEMMA IdleIs == Idle \in Working /\ Idle.at = "idle" /\ 0 \in Slots
  BY PlayersAssumption DEF Idle, Working, Labels, Slots, Contexts

\* The state of an unused slot.
LEMMA BlankIs ==
    /\ Blank \in Player /\ [Blank EXCEPT !.in_use = TRUE] \in Player
    /\ Blank.bq_callback = None /\ Blank.ring_head = 0 /\ Blank.ring_tail = 0
    /\ [Blank EXCEPT !.in_use = TRUE].in_use = TRUE
    /\ [Blank EXCEPT !.in_use = TRUE].bq_callback = None
    /\ [Blank EXCEPT !.in_use = TRUE].bq_context = None
    /\ [Blank EXCEPT !.in_use = TRUE].ring_head = 0
    /\ [Blank EXCEPT !.in_use = TRUE].ring_tail = 0
    /\ Blank.in_use = FALSE
<1>1. 0 \in Index /\ None \in Contexts
  BY RingAssumption DEF Index, Contexts
<1>2. Silence \in Bytes
  BY AppAssumption DEF Silence, Bytes
<1>3. [i \in Index |-> Silence] \in [Index -> Bytes]
  BY <1>2
<1> QED BY <1>1, <1>3 DEF Blank, Player

\* The scan goes on at a slot, or is over.
LEMMA ScanFromIs ==
    ASSUME AudioTypeOK, NEW t \in Threads, NEW p, ScanFrom(t, p)
    PROVE  /\ thread' \in [Threads -> Working] /\ thread'[t].at \in {"idle", "scan"}
           /\ \A u \in Threads \ {t} : thread'[u] = thread[u]
<1> DEFINE r == IF p \in Slots THEN [Idle EXCEPT !.at = "scan", !.slot = p, !.pumping = TRUE]
                ELSE Idle
<1>1. thread' = [thread EXCEPT ![t] = r] /\ thread \in [Threads -> Working]
  BY DEF ScanFrom, AudioTypeOK, Working
<1>2. r \in Working /\ r.at \in {"idle", "scan"}
  BY IdleIs DEF Working, Labels
<1> HIDE DEF r
<1> QED BY <1>1, <1>2

\* What a player is after obj_Destroy.
LEMMA DestroyedIs ==
    ASSUME NEW ps \in Player
    PROVE  /\ Destroyed(ps) \in Player
           /\ Destroyed(ps).in_use = FALSE /\ Destroyed(ps).bq_callback = None
           /\ Destroyed(ps).bq_context = ps.bq_context
           /\ Destroyed(ps).ring_head = 0 /\ Destroyed(ps).ring_tail = 0
<1>1. 0 \in Index /\ None \in Contexts
  BY RingAssumption DEF Index, Contexts
<1> QED BY <1>1 DEF Destroyed, Player

\* Only raced grows when it does.
LEMMA RaceIs ==
    ASSUME AudioTypeOK, NEW t \in Threads, NEW p \in Slots, NEW W, Race(t, p, W)
    PROVE  /\ raced' \in SUBSET Slots /\ raced \subseteq raced'
           /\ \A q \in Slots \ {p} : q \in raced' <=> q \in raced
           /\ p \notin raced' => \A u \in Threads \ {t} : ~(thread[u].slot = p /\ thread[u].at \in W)
  BY DEF Race, Other, AudioTypeOK

\* One player changes.
LEMMA OneChanges ==
    ASSUME AudioTypeOK, NEW p \in Slots, NEW qs \in Player,
           g_players' = [g_players EXCEPT ![p] = qs]
    PROVE  /\ g_players' \in [Slots -> Player] /\ g_players'[p] = qs
           /\ \A r \in Slots \ {p} : g_players'[r] = g_players[r]
  BY DEF AudioTypeOK

-----------------------------------------------------------------------------
(***************************************************************************)
(* The inductive invariant.                                                *)
(***************************************************************************)

At(t, p, W) == thread[t].slot = p /\ thread[t].at \in W

\* In a slot nobody raced for, callback and context are those of the player that has
\* it, and whoever is about to call them or to write the second of them is alone there.
MarkOf(p) ==
    /\ g_players[p].bq_callback # None =>
          /\ <<p, g_players[p].bq_callback>> \in live
          /\ (\A t \in Threads : ~At(t, p, {"register"})) =>
                g_players[p].bq_context = g_players[p].bq_callback
    /\ \A t \in Threads :
          /\ At(t, p, {"register"}) =>
                /\ thread[t].ctx # None /\ g_players[p].bq_callback = thread[t].ctx
                /\ \A u \in Threads \ {t} : ~At(u, p, {"register", "call", "callback"})
          /\ At(t, p, {"call"}) =>
                thread[t].cb # None /\ g_players[p].bq_callback = thread[t].cb
          /\ At(t, p, {"callback"}) =>
                thread[t].ctx = thread[t].cb /\ <<p, thread[t].cb>> \in live

Mine(p, c) == c = None \/ <<p, c>> \in Heard

\* In every slot: the context that a callback may get, or has got, is of a player the
\* slot may play; and a callback about to be called is there, or a player was overtaken.
HeardOf(p) ==
    /\ g_players[p].in_use \/ (\E t \in Threads : At(t, p, {"call"})) =>
          Mine(p, g_players[p].bq_context)
    /\ \A t \in Threads :
          /\ At(t, p, {"callback", "register"}) => Mine(p, thread[t].ctx)
          /\ At(t, p, {"call"}) =>
                /\ thread[t].cb # None
                /\ overtaken # {} \/ (g_players[p].in_use /\ g_players[p].bq_callback # None)

MarkInv ==
    /\ nullCall => overtaken # {}
    /\ \A p \in Slots \ raced : MarkOf(p)
    /\ \A p \in Slots : HeardOf(p)

\* Every byte in the ring of a slot is of a player the slot may play.
SoundOf(p, ps, players) ==
    \A i \in Index : Mod(i - ps.ring_tail) < Used(ps) => <<p, ps.ring[i].of>> \in players

SoundInv ==
    \A p \in Slots :
        /\ g_players[p].ring_tail % 2 = 0
        /\ SoundOf(p, g_players[p], Heard)

IInv == AudioTypeOK /\ SlotsOwned /\ MarkInv /\ SoundInv

Same(ps, qs) ==
    /\ qs.in_use = ps.in_use
    /\ qs.bq_callback = ps.bq_callback /\ qs.bq_context = ps.bq_context

\* Nothing that matters to the owner of a slot changes, and one thread at most leaves
\* its work there.
LEMMA MarkOfKeeps ==
    ASSUME NEW p \in Slots, MarkOf(p), Same(g_players[p], g_players'[p]),
           \A c : <<p, c>> \in live => <<p, c>> \in live',
           NEW t \in Threads,
           \A u \in Threads \ {t} : thread'[u] = thread[u],
           \/ thread'[t] = thread[t]
           \/ /\ ~At(t, p, {"register"})
              /\ ~At(t, p, {"register", "call", "callback"})'
    PROVE  MarkOf(p)'
<1>1. \A u \in Threads :
         /\ At(u, p, {"register"})' => At(u, p, {"register"}) /\ thread'[u] = thread[u]
         /\ At(u, p, {"call"})' => At(u, p, {"call"}) /\ thread'[u] = thread[u]
         /\ At(u, p, {"callback"})' => At(u, p, {"callback"}) /\ thread'[u] = thread[u]
         /\ At(u, p, {"register", "call", "callback"})' =>
               At(u, p, {"register", "call", "callback"})
  BY DEF At
<1>2. \A u \in Threads : At(u, p, {"register"}) => At(u, p, {"register"})'
  BY DEF At
<1>3. /\ g_players'[p].bq_callback = g_players[p].bq_callback
      /\ g_players'[p].bq_context = g_players[p].bq_context
  BY DEF Same
<1>4. g_players'[p].bq_callback # None =>
                /\ <<p, g_players'[p].bq_callback>> \in live'
                /\ (\A u \in Threads : ~At(u, p, {"register"})') =>
                      g_players'[p].bq_context = g_players'[p].bq_callback
  BY <1>2, <1>3 DEF MarkOf
<1>5. ASSUME NEW u \in Threads, At(u, p, {"register"})'
      PROVE  /\ thread'[u].ctx # None /\ g_players'[p].bq_callback = thread'[u].ctx
             /\ \A w \in Threads \ {u} : ~At(w, p, {"register", "call", "callback"})'
  <2>1. At(u, p, {"register"}) /\ thread'[u] = thread[u]
    BY <1>1, <1>5
  <2>2. /\ thread[u].ctx # None /\ g_players[p].bq_callback = thread[u].ctx
        /\ \A w \in Threads \ {u} : ~At(w, p, {"register", "call", "callback"})
    BY <2>1 DEF MarkOf
  <2>3. \A w \in Threads \ {u} : ~At(w, p, {"register", "call", "callback"})'
    BY <1>1, <2>2
  <2> QED BY <1>3, <2>1, <2>2, <2>3
<1>6. ASSUME NEW u \in Threads, At(u, p, {"call"})'
      PROVE  thread'[u].cb # None /\ g_players'[p].bq_callback = thread'[u].cb
  <2>1. At(u, p, {"call"}) /\ thread'[u] = thread[u]
    BY <1>1, <1>6
  <2>2. thread[u].cb # None /\ g_players[p].bq_callback = thread[u].cb
    BY <2>1 DEF MarkOf
  <2> QED BY <1>3, <2>1, <2>2
<1>7. ASSUME NEW u \in Threads, At(u, p, {"callback"})'
      PROVE  thread'[u].ctx = thread'[u].cb /\ <<p, thread'[u].cb>> \in live'
  <2>1. At(u, p, {"callback"}) /\ thread'[u] = thread[u]
    BY <1>1, <1>7
  <2>2. thread[u].ctx = thread[u].cb /\ <<p, thread[u].cb>> \in live
    BY <2>1 DEF MarkOf
  <2> QED BY <2>1, <2>2
<1> QED BY <1>4, <1>5, <1>6, <1>7 DEF MarkOf

\* No player is forgotten, and one thread at most leaves its work in the slot.
LEMMA HeardOfKeeps ==
    ASSUME NEW p \in Slots, HeardOf(p), Same(g_players[p], g_players'[p]),
           \A c : <<p, c>> \in Heard => <<p, c>> \in Heard', overtaken \subseteq overtaken',
           NEW t \in Threads,
           \A u \in Threads \ {t} : thread'[u] = thread[u],
           \/ thread'[t] = thread[t]
           \/ ~At(t, p, {"register", "call", "callback"})'
    PROVE  HeardOf(p)'
<1>1. ASSUME NEW u \in Threads, NEW W \in SUBSET {"register", "call", "callback"}, At(u, p, W)'
      PROVE  At(u, p, W) /\ thread'[u] = thread[u]
  BY <1>1 DEF At
<1>2. /\ g_players'[p].in_use = g_players[p].in_use
      /\ g_players'[p].bq_callback = g_players[p].bq_callback
      /\ g_players'[p].bq_context = g_players[p].bq_context
  BY DEF Same
<1>3. \A c : Mine(p, c) => c = None \/ <<p, c>> \in Heard'
  BY DEF Mine
<1>4. ASSUME NEW u \in Threads
      PROVE  /\ At(u, p, {"call"})' => At(u, p, {"call"}) /\ thread'[u] = thread[u]
             /\ At(u, p, {"callback", "register"})' =>
                   At(u, p, {"callback", "register"}) /\ thread'[u] = thread[u]
  BY <1>1
<1>5. ASSUME g_players'[p].in_use \/ (\E u \in Threads : At(u, p, {"call"})')
      PROVE  Mine(p, g_players[p].bq_context)'
  <2>1. Mine(p, g_players[p].bq_context)
    BY <1>2, <1>4, <1>5 DEF HeardOf
  <2>2. g_players'[p].bq_context = None \/ <<p, g_players'[p].bq_context>> \in Heard'
    BY <1>2, <1>3, <2>1
  <2> QED BY <2>2 DEF Mine
<1>6. ASSUME NEW u \in Threads, At(u, p, {"callback", "register"})'
      PROVE  Mine(p, thread[u].ctx)'
  <2>1. Mine(p, thread[u].ctx) /\ thread'[u] = thread[u]
    BY <1>4, <1>6 DEF HeardOf
  <2>2. thread'[u].ctx = None \/ <<p, thread'[u].ctx>> \in Heard'
    BY <1>3, <2>1
  <2> QED BY <2>2 DEF Mine
<1>7. ASSUME NEW u \in Threads, At(u, p, {"call"})'
      PROVE  /\ thread'[u].cb # None
             /\ overtaken' # {} \/ (g_players'[p].in_use /\ g_players'[p].bq_callback # None)
  <2>1. At(u, p, {"call"}) /\ thread'[u] = thread[u]
    BY <1>4, <1>7
  <2>2. /\ thread[u].cb # None
        /\ overtaken # {} \/ (g_players[p].in_use /\ g_players[p].bq_callback # None)
    BY <2>1 DEF HeardOf
  <2> QED BY <1>2, <2>1, <2>2
<1> QED BY <1>5, <1>6, <1>7 DEF HeardOf

\* The same for all slots.
LEMMA QuietKeeps ==
    ASSUME IInv, NEW t \in Threads,
           \A p \in Slots : Same(g_players[p], g_players'[p]),
           live' = live, overtaken' = overtaken, raced \subseteq raced', nullCall' = nullCall,
           \A u \in Threads \ {t} : thread'[u] = thread[u],
           thread'[t] = thread[t] \/ (thread'[t].at \in {"idle", "scan"} /\ thread[t].at # "register")
    PROVE  SlotsOwned' /\ MarkInv'
<1>1. SlotsOwned'
  <2> SUFFICES ASSUME NEW p \in Slots
               PROVE  /\ g_players'[p].in_use = (\E h \in live : h[1] = p)
                      /\ \A h, k \in live : h[1] = p /\ k[1] = p => h = k
    BY DEF SlotsOwned
  <2> QED BY DEF IInv, SlotsOwned, Same
<1>2. nullCall' => overtaken' # {}
  BY DEF IInv, MarkInv
<1>3. ASSUME NEW p \in Slots \ raced' PROVE MarkOf(p)'
  <2>1. MarkOf(p)
    BY DEF IInv, MarkInv
  <2>2. thread'[t] = thread[t] \/ (~At(t, p, {"register"})
           /\ ~At(t, p, {"register", "call", "callback"})')
    BY DEF At
  <2> QED BY <2>1, <2>2, MarkOfKeeps
<1>4. ASSUME NEW p \in Slots PROVE HeardOf(p)'
  <2>1. HeardOf(p)
    BY DEF IInv, MarkInv
  <2>2. thread'[t] = thread[t] \/ ~At(t, p, {"register", "call", "callback"})'
    BY DEF At
  <2> QED BY <2>1, <2>2, HeardOfKeeps DEF Heard
<1> QED BY <1>1, <1>2, <1>3, <1>4 DEF MarkInv

\* Nothing there belongs to a slot that is free.
LEMMA FreeMark ==
    ASSUME NEW p \in Slots, g_players[p].bq_callback = None,
           \A t \in Threads : ~At(t, p, {"register", "call", "callback"})
    PROVE  MarkOf(p)
  BY DEF MarkOf, At

\* No ring changes.
LEMMA RingsStay ==
    ASSUME IInv, live' = live, overtaken' = overtaken, raced \subseteq raced',
           \A p \in Slots : /\ g_players'[p].ring_head = g_players[p].ring_head
                            /\ g_players'[p].ring_tail = g_players[p].ring_tail
                            /\ g_players'[p].ring = g_players[p].ring
    PROVE  SoundInv'
  BY DEF IInv, SoundInv, SoundOf, Used, Heard

\* An empty ring holds nobody's sound.
LEMMA EmptyRing ==
    ASSUME NEW ps \in Player, ps.ring_head = 0, ps.ring_tail = 0, NEW p, NEW players
    PROVE  ps.ring_tail % 2 = 0 /\ SoundOf(p, ps, players)
<1>1. Used(ps) = 0
  BY UsedIs, RingAssumption
<1>2. \A i \in Index : Mod(i - ps.ring_tail) \in Index
  BY DistanceIs DEF Player
<1>3. \A i \in Index : ~(i < 0)
  BY RingAssumption DEF Index
<1> QED BY <1>1, <1>2, <1>3 DEF SoundOf

\* Sound is written by its own player.
LEMMA WriteSound ==
    ASSUME NEW ps \in Player, NEW c \in 1 .. MaxMade, NEW n \in Sizes, NEW p, NEW players,
           ps.ring_tail % 2 = 0
    PROVE  /\ Write(ps, Buffer(c, n)) \in Player
           /\ Same(ps, Write(ps, Buffer(c, n)))
           /\ Write(ps, Buffer(c, n)).ring_tail % 2 = 0
           /\ <<p, c>> \in players /\ SoundOf(p, ps, players) =>
                 SoundOf(p, Write(ps, Buffer(c, n)), players)
<1> DEFINE b == Buffer(c, n)
           w == Least(Len(b), Free(ps))
           qs == Write(ps, b)
<1>1. b \in Seq(Bytes) /\ Len(b) = n /\ n \in Nat /\ \A i \in 1 .. n : b[i].of = c
  BY BufferIs
<1> HIDE DEF b
<1>2. /\ qs \in Player /\ w \in 0 .. Len(b)
      /\ \A f \in {"in_use", "playing", "is_muted", "bq_callback", "bq_context", "ring_tail"} :
                 qs[f] = ps[f]
  BY <1>1, WriteIs
<1>3. Same(ps, qs) /\ qs.ring_tail = ps.ring_tail
  <2>1. /\ qs["in_use"] = ps["in_use"] /\ qs["bq_callback"] = ps["bq_callback"]
        /\ qs["bq_context"] = ps["bq_context"] /\ qs["ring_tail"] = ps["ring_tail"]
    BY <1>2
  <2> QED BY <2>1 DEF Same
<1>4. /\ Used(qs) = Used(ps) + w
      /\ \A i \in Index : Mod(i - ps.ring_tail) < Used(qs) =>
           IF Mod(i - ps.ring_tail) < Used(ps)
             THEN qs.ring[i] = ps.ring[i]
             ELSE qs.ring[i] = b[Mod(i - ps.ring_tail) - Used(ps) + 1]
  BY <1>1, WriteUsed
<1>5. ASSUME <<p, c>> \in players, SoundOf(p, ps, players),
             NEW i \in Index, Mod(i - ps.ring_tail) < Used(qs)
      PROVE  <<p, qs.ring[i].of>> \in players
  <2>1. CASE Mod(i - ps.ring_tail) < Used(ps)
    BY <1>4, <1>5, <2>1 DEF SoundOf
  <2>2. CASE ~(Mod(i - ps.ring_tail) < Used(ps))
    <3> DEFINE k == Mod(i - ps.ring_tail) - Used(ps) + 1
    <3>1. Mod(i - ps.ring_tail) \in Index /\ Used(ps) \in Index
      BY DistanceIs, UsedIs DEF Player
    <3>2. Mod(i - ps.ring_tail) \in Int /\ Used(ps) \in Int
      BY <3>1, RingAssumption DEF Index
    <3>3. k \in 1 .. n
      BY <1>1, <1>2, <1>4, <1>5, <2>2, <3>2
    <3>4. qs.ring[i] = b[k]
      BY <1>4, <1>5, <2>2
    <3> QED BY <1>1, <1>5, <3>3, <3>4
  <2> QED BY <2>1, <2>2
<1>6. <<p, c>> \in players /\ SoundOf(p, ps, players) => SoundOf(p, qs, players)
  BY <1>3, <1>5 DEF SoundOf
<1> QED BY <1>2, <1>3, <1>6 DEF b

-----------------------------------------------------------------------------
(***************************************************************************)
(* One lemma per action.                                                   *)
(***************************************************************************)

\* The table is empty at first.
LEMMA InitHolds == Init => IInv
<1> SUFFICES ASSUME Init PROVE IInv
  OBVIOUS
<1>1. /\ g_players = [p \in Slots |-> Blank] /\ live = {} /\ raced = {} /\ overtaken = {} /\ nullCall = FALSE
      /\ thread = [t \in Threads |-> Idle] /\ g_audio_device \in BOOLEAN
      /\ made = 0 /\ calls = 0
  BY DEF Init
<1>2. AudioTypeOK
  <2>1. g_players \in [Slots -> Player] /\ thread \in [Threads -> Working]
    BY <1>1, BlankIs, IdleIs
  <2>2. made \in 0 .. MaxMade /\ calls \in 0 .. MaxCalls
    BY <1>1, AppAssumption
  <2> QED BY <1>1, <2>1, <2>2 DEF AudioTypeOK, Working
<1>3. SlotsOwned
  BY <1>1, BlankIs DEF SlotsOwned
<1>4. MarkInv
  <2>1. ASSUME NEW p \in Slots PROVE MarkOf(p) /\ HeardOf(p)
    <3>1. g_players[p].bq_callback = None /\ g_players[p].in_use = FALSE
      BY <1>1, BlankIs
    <3>2. \A t \in Threads : ~At(t, p, {"register", "call", "callback"})
      BY <1>1, IdleIs DEF At
    <3>3. HeardOf(p)
      BY <3>1, <3>2 DEF HeardOf, At
    <3> QED BY <3>1, <3>2, <3>3, FreeMark
  <2> QED BY <1>1, <2>1 DEF MarkInv
<1>5. SoundInv
  <2>1. ASSUME NEW p \in Slots
        PROVE  g_players[p].ring_tail % 2 = 0 /\ SoundOf(p, g_players[p], Heard)
    <3>1. g_players[p] = Blank
      BY <1>1
    <3> QED BY <3>1, BlankIs, EmptyRing
  <2> QED BY <2>1 DEF SoundInv
<1> QED BY <1>2, <1>3, <1>4, <1>5 DEF IInv

\* A call of the application counts.
LEMMA Counted ==
    ASSUME AudioTypeOK, NEW t \in Threads, CanCall(t), calls' = calls + 1
    PROVE  calls' \in 0 .. MaxCalls /\ thread[t].at = "idle"
  BY AppAssumption DEF AudioTypeOK, CanCall

\* Calls that answer without doing anything.
LEMMA AnswerKeeps ==
    ASSUME IInv, NEW t \in Threads, CanCall(t), calls' = calls + 1,
           g_audio_device' \in BOOLEAN,
           UNCHANGED <<g_players, appVars, thread, raced, nullCall>>
    PROVE  IInv'
<1>1. AudioTypeOK'
  BY Counted DEF IInv, AudioTypeOK, appVars
<1>2. SlotsOwned' /\ MarkInv'
  BY QuietKeeps DEF appVars, Same
<1>3. SoundInv'
  BY RingsStay DEF appVars
<1> QED BY <1>1, <1>2, <1>3 DEF IInv

\* CreateAudioPlayer: nobody is at work in a free slot nobody raced for.
LEMMA CreateKeeps ==
    ASSUME IInv, NEW t \in Threads, Create(t), calls' = calls + 1
    PROVE  IInv'
<1> DEFINE new == [Blank EXCEPT !.in_use = TRUE]
<1>1. PICK p \in FreeSlots :
        /\ g_players' = [g_players EXCEPT ![p] = new]
        /\ live' = live \cup {<<p, made + 1>>} /\ Touch(t, p) /\ overtaken' = overtaken
  BY DEF Create
<1>2. /\ p \in Slots /\ g_players[p].in_use = FALSE /\ made < MaxMade /\ CanCall(t)
      /\ made' = made + 1 /\ thread' = thread /\ nullCall' = nullCall
      /\ g_audio_device' \in BOOLEAN
  BY DEF Create, FreeSlots, OpenDevice, IInv, AudioTypeOK, Player
<1>3. new \in Player /\ new.in_use = TRUE /\ new.bq_callback = None /\ new.bq_context = None
        /\ new.ring_head = 0 /\ new.ring_tail = 0
  BY BlankIs
<1> HIDE DEF new
<1>4. AudioTypeOK /\ \A h \in live : h[1] # p
  BY <1>2 DEF IInv, SlotsOwned
<1>5. /\ g_players' \in [Slots -> Player] /\ g_players'[p] = new
      /\ \A r \in Slots \ {p} : g_players'[r] = g_players[r]
  BY <1>1, <1>2, <1>3, <1>4, OneChanges
<1>6. /\ raced' \in SUBSET Slots /\ raced \subseteq raced'
      /\ p \notin raced' => \A u \in Threads \ {t} : ~At(u, p, {"call", "callback", "register"})
  BY <1>1, <1>2, <1>4, RaceIs DEF Touch, At, Busy
<1>7. AudioTypeOK'
  <2>1. made + 1 \in 1 .. MaxMade /\ made' \in 0 .. MaxMade
    BY <1>2, <1>4, AppAssumption DEF AudioTypeOK
  <2>2. live' \in SUBSET (Slots \X (1 .. MaxMade))
    BY <1>1, <1>2, <1>4, <2>1 DEF AudioTypeOK
  <2> QED BY <1>1, <1>2, <1>4, <1>5, <1>6, <2>1, <2>2, Counted DEF AudioTypeOK
<1>8. SlotsOwned'
  <2> SUFFICES ASSUME NEW r \in Slots
               PROVE  /\ g_players'[r].in_use = (\E h \in live' : h[1] = r)
                      /\ \A h, k \in live' : h[1] = r /\ k[1] = r => h = k
    BY DEF SlotsOwned
  <2>1. CASE r = p
    <3>1. g_players'[r].in_use = TRUE
      BY <1>3, <1>5, <2>1
    <3>2. <<p, made + 1>> \in live'
      BY <1>1
    <3>3. \A h \in live' : h[1] = p => h = <<p, made + 1>>
      BY <1>1, <1>4
    <3> QED BY <2>1, <3>1, <3>2, <3>3
  <2>2. CASE r # p
    <3>1. g_players'[r] = g_players[r]
      BY <1>5, <2>2
    <3>2. \A h : h[1] = r => (h \in live' <=> h \in live)
      BY <1>1, <2>2
    <3> QED BY <3>1, <3>2 DEF IInv, SlotsOwned
  <2> QED BY <2>1, <2>2
<1>9. MarkInv'
  <2>1. ASSUME NEW r \in Slots \ raced' PROVE MarkOf(r)'
    <3>1. CASE r = p
      <4>1. \A u \in Threads : ~At(u, p, {"register", "call", "callback"})'
        BY <1>2, <1>6, <2>1, <3>1 DEF At, CanCall
      <4>2. g_players'[p].bq_callback = None
        BY <1>3, <1>5
      <4> QED BY <3>1, <4>1, <4>2 DEF MarkOf, At
    <3>2. CASE r # p
      <4>1. g_players'[r] = g_players[r]
        BY <1>5, <3>2
      <4>2. MarkOf(r) /\ Same(g_players[r], g_players'[r])
        BY <1>6, <2>1, <4>1 DEF IInv, MarkInv, Same
      <4>3. \A c : <<r, c>> \in live => <<r, c>> \in live'
        BY <1>1
      <4> QED BY <1>2, <4>2, <4>3, MarkOfKeeps
    <3> QED BY <3>1, <3>2
  <2>2. ASSUME NEW r \in Slots PROVE HeardOf(r)'
    <3>0. HeardOf(r) /\ Heard \subseteq Heard' /\ \A u : thread'[u] = thread[u]
      BY <1>1, <1>2 DEF IInv, MarkInv, Heard
    <3>1. CASE r = p
      <4>1. \A u \in Threads :
              /\ At(u, p, {"callback", "register"})' => Mine(p, thread[u].ctx)'
              /\ At(u, p, {"call"})' => thread'[u].cb # None /\ overtaken' # {}
        BY <1>1, <1>2, <3>0, <3>1 DEF HeardOf, At, Mine
      <4>2. Mine(p, g_players[p].bq_context)'
        BY <1>3, <1>5 DEF Mine
      <4> QED BY <3>1, <4>1, <4>2 DEF HeardOf
    <3>2. CASE r # p
      <4>1. Same(g_players[r], g_players'[r])
        BY <1>5, <3>2 DEF Same
      <4> QED BY <1>1, <1>2, <3>0, <4>1, HeardOfKeeps
    <3> QED BY <3>1, <3>2
  <2> QED BY <1>1, <1>2, <2>1, <2>2 DEF IInv, MarkInv
<1>10. SoundInv'
  <2>1. ASSUME NEW r \in Slots
        PROVE  /\ g_players'[r].ring_tail % 2 = 0
               /\ SoundOf(r, g_players'[r], Heard')
    <3>1. CASE r = p
      BY <1>3, <1>5, <3>1, EmptyRing
    <3>2. CASE r # p
      <4>1. g_players'[r] = g_players[r] /\ Heard \subseteq Heard'
        BY <1>1, <1>5, <3>2 DEF Heard
      <4>2. g_players[r].ring_tail % 2 = 0 /\ SoundOf(r, g_players[r], Heard)
        BY DEF IInv, SoundInv
      <4> QED BY <4>1, <4>2 DEF SoundOf
    <3> QED BY <3>1, <3>2
  <2> QED BY <2>1 DEF SoundInv
<1> QED BY <1>7, <1>8, <1>9, <1>10 DEF IInv

\* Object Destroy: whoever is at work in the slot is in a race, or is this thread.
LEMMA DestroyKeeps ==
    ASSUME IInv, NEW t \in Threads, NEW h \in live, Destroy(t, h), calls' = calls + 1
    PROVE  IInv'
<1> DEFINE p == h[1]
           new == Destroyed(g_players[p])
<1>1. /\ g_players' = [g_players EXCEPT ![p] = new] /\ live' = live \ {h} /\ Touch(t, p)
      /\ overtaken' = IF Other(t, p, Busy) THEN overtaken \cup {h} ELSE overtaken
      /\ CanCall(t) /\ thread' = thread /\ nullCall' = nullCall /\ made' = made
      /\ g_audio_device' = g_audio_device
  BY DEF Destroy
<1>2. AudioTypeOK /\ p \in Slots /\ h = <<p, h[2]>>
  BY LiveIs DEF IInv
<1>3. new \in Player /\ new.in_use = FALSE /\ new.bq_callback = None
        /\ new.bq_context = g_players[p].bq_context
        /\ new.ring_head = 0 /\ new.ring_tail = 0
  BY <1>2, DestroyedIs DEF AudioTypeOK
<1> HIDE DEF new, p
<1>4. \A k \in live' : k[1] # p
  BY <1>1, <1>2 DEF IInv, SlotsOwned, p
<1>5. /\ g_players' \in [Slots -> Player] /\ g_players'[p] = new
      /\ \A r \in Slots \ {p} : g_players'[r] = g_players[r]
  BY <1>1, <1>2, <1>3, OneChanges
<1>6. /\ raced' \in SUBSET Slots /\ raced \subseteq raced'
      /\ p \notin raced' => \A u \in Threads \ {t} : ~At(u, p, {"call", "callback", "register"})
  BY <1>1, <1>2, RaceIs DEF Touch, At, Busy
<1>a. /\ overtaken \subseteq overtaken' /\ overtaken' \in SUBSET (Slots \X (1 .. MaxMade))
      /\ \A r, c : r # p /\ <<r, c>> \in Heard => <<r, c>> \in Heard'
      /\ \A u \in Threads : At(u, p, Busy) =>
            h \in overtaken' /\ \A c : <<p, c>> \in Heard => <<p, c>> \in Heard'
  <2>1. overtaken \subseteq overtaken' /\ overtaken' \in SUBSET (Slots \X (1 .. MaxMade))
    BY <1>1, <1>2 DEF AudioTypeOK
  <2>2. ASSUME NEW r, NEW c, r # p, <<r, c>> \in Heard PROVE <<r, c>> \in Heard'
    BY <1>1, <1>2, <2>1, <2>2 DEF Heard
  <2>3. ASSUME NEW u \in Threads, At(u, p, Busy) PROVE h \in overtaken'
    BY <1>1, <2>3 DEF Other, At, CanCall, Busy
  <2>4. ASSUME NEW u \in Threads, At(u, p, Busy), NEW c, <<p, c>> \in Heard
        PROVE  <<p, c>> \in Heard'
    BY <1>1, <2>1, <2>3, <2>4 DEF Heard
  <2> QED BY <2>1, <2>2, <2>3, <2>4
<1>7. AudioTypeOK'
  BY <1>1, <1>2, <1>5, <1>6, <1>a, Counted DEF AudioTypeOK
<1>8. SlotsOwned'
  <2> SUFFICES ASSUME NEW r \in Slots
               PROVE  /\ g_players'[r].in_use = (\E k \in live' : k[1] = r)
                      /\ \A j, k \in live' : j[1] = r /\ k[1] = r => j = k
    BY DEF SlotsOwned
  <2>1. CASE r = p
    BY <1>3, <1>4, <1>5, <2>1
  <2>2. CASE r # p
    <3>1. g_players'[r] = g_players[r]
      BY <1>5, <2>2
    <3>2. \A k : k[1] = r => (k \in live' <=> k \in live)
      BY <1>1, <2>2 DEF p
    <3> QED BY <3>1, <3>2 DEF IInv, SlotsOwned
  <2> QED BY <2>1, <2>2
<1>9. MarkInv'
  <2>1. ASSUME NEW r \in Slots \ raced' PROVE MarkOf(r)'
    <3>1. CASE r = p
      <4>1. \A u \in Threads : ~At(u, p, {"register", "call", "callback"})'
        BY <1>1, <1>6, <2>1, <3>1 DEF At, CanCall
      <4>2. g_players'[p].bq_callback = None
        BY <1>3, <1>5
      <4> QED BY <3>1, <4>1, <4>2 DEF MarkOf, At
    <3>2. CASE r # p
      <4>1. g_players'[r] = g_players[r]
        BY <1>5, <3>2
      <4>2. MarkOf(r) /\ Same(g_players[r], g_players'[r])
        BY <1>6, <2>1, <4>1 DEF IInv, MarkInv, Same
      <4>3. \A c : <<r, c>> \in live => <<r, c>> \in live'
        BY <1>1, <1>2, <3>2
      <4> QED BY <1>1, <4>2, <4>3, MarkOfKeeps
    <3> QED BY <3>1, <3>2
  <2>2. ASSUME NEW r \in Slots PROVE HeardOf(r)'
    <3>0. HeardOf(r) /\ \A u : thread'[u] = thread[u]
      BY <1>1 DEF IInv, MarkInv
    <3>1. CASE r = p
      <4>1. ASSUME NEW u \in Threads, At(u, p, {"callback", "register"})
            PROVE  Mine(p, thread[u].ctx)'
        BY <1>a, <3>0, <3>1, <4>1 DEF HeardOf, At, Busy, Mine
      <4>2. ASSUME NEW u \in Threads, At(u, p, {"call"})
            PROVE  /\ thread[u].cb # None /\ overtaken' # {}
                   /\ <<p, g_players[p].bq_context>> \in Heard' \/ g_players[p].bq_context = None
        BY <1>a, <3>0, <3>1, <4>2 DEF HeardOf, At, Busy, Mine
      <4>3. g_players'[p].in_use = FALSE /\ g_players'[p].bq_context = g_players[p].bq_context
        BY <1>3, <1>5
      <4>4. (\E u \in Threads : At(u, p, {"call"})) => Mine(p, g_players[p].bq_context)'
        BY <4>2, <4>3 DEF Mine
      <4>5. \A u \in Threads : \A W : At(u, p, W)' <=> At(u, p, W)
        BY <3>0 DEF At
      <4> QED BY <3>0, <3>1, <4>1, <4>2, <4>3, <4>4, <4>5 DEF HeardOf
    <3>2. CASE r # p
      <4>1. Same(g_players[r], g_players'[r])
        BY <1>5, <3>2 DEF Same
      <4>2. \A c : <<r, c>> \in Heard => <<r, c>> \in Heard'
        BY <1>a, <3>2
      <4> QED BY <1>1, <1>a, <3>0, <4>1, <4>2, HeardOfKeeps
    <3> QED BY <3>1, <3>2
  <2> QED BY <1>1, <1>a, <2>1, <2>2 DEF IInv, MarkInv
<1>10. SoundInv'
  <2>1. ASSUME NEW r \in Slots
        PROVE  /\ g_players'[r].ring_tail % 2 = 0
               /\ SoundOf(r, g_players'[r], Heard')
    <3>1. CASE r = p
      BY <1>3, <1>5, <3>1, EmptyRing
    <3>2. CASE r # p
      <4>1. g_players'[r] = g_players[r]
        BY <1>5, <3>2
      <4>2. \A c : <<r, c>> \in Heard => <<r, c>> \in Heard'
        BY <1>a, <3>2
      <4>3. g_players[r].ring_tail % 2 = 0 /\ SoundOf(r, g_players[r], Heard)
        BY DEF IInv, SoundInv
      <4> QED BY <4>1, <4>2, <4>3 DEF SoundOf
    <3> QED BY <3>1, <3>2
  <2> QED BY <2>1 DEF SoundInv
<1> QED BY <1>7, <1>8, <1>9, <1>10 DEF IInv

\* The first write of RegisterCallback.
LEMMA RegisterKeeps ==
    ASSUME IInv, NEW t \in Threads, NEW h \in live, Register(t, h), calls' = calls + 1
    PROVE  IInv'
<1> DEFINE p == h[1]
           c == h[2]
           qs == [g_players[p] EXCEPT !.bq_callback = c]
           w == [Idle EXCEPT !.at = "register", !.slot = p, !.ctx = c]
<1>1. /\ g_players' = [g_players EXCEPT ![p] = qs] /\ thread' = [thread EXCEPT ![t] = w]
      /\ Touch(t, p) /\ CanCall(t) /\ live' = live /\ overtaken' = overtaken /\ nullCall' = nullCall /\ made' = made
      /\ g_audio_device' = g_audio_device
  <2>1. g_players' = [g_players EXCEPT ![p].bq_callback = c]
    BY DEF Register
  <2> QED BY <2>1 DEF Register, appVars
<1>2. AudioTypeOK /\ p \in Slots /\ c \in Contexts /\ c # None /\ <<p, c>> \in live
  BY LiveIs DEF IInv
<1>3. /\ qs \in Player /\ qs.bq_callback = c /\ qs.in_use = g_players[p].in_use
      /\ qs.bq_context = g_players[p].bq_context
      /\ qs.ring = g_players[p].ring /\ qs.ring_head = g_players[p].ring_head
      /\ qs.ring_tail = g_players[p].ring_tail
  <2> DEFINE ps == g_players[p]
  <2>1. ps \in Player /\ c \in Contexts
    BY <1>2 DEF AudioTypeOK
  <2> HIDE DEF ps, c
  <2>2. LET rs == [ps EXCEPT !.bq_callback = c] IN
           /\ rs \in Player /\ rs.bq_callback = c /\ rs.in_use = ps.in_use
           /\ rs.bq_context = ps.bq_context
           /\ rs.ring = ps.ring /\ rs.ring_head = ps.ring_head /\ rs.ring_tail = ps.ring_tail
    BY <2>1 DEF Player
  <2> QED BY <2>2 DEF ps
<1>4. w \in Working /\ w.at = "register" /\ w.slot = p /\ w.ctx = c
  BY <1>2, IdleIs DEF Working, Labels
<1> HIDE DEF p, c, qs, w
<1>5. /\ g_players' \in [Slots -> Player] /\ g_players'[p] = qs
      /\ \A r \in Slots \ {p} : g_players'[r] = g_players[r]
  BY <1>1, <1>2, <1>3, OneChanges
<1>6. /\ raced' \in SUBSET Slots /\ raced \subseteq raced'
      /\ p \notin raced' => \A u \in Threads \ {t} : ~At(u, p, {"call", "callback", "register"})
  BY <1>1, <1>2, RaceIs DEF Touch, At, Busy
<1>7. /\ thread' \in [Threads -> Working] /\ thread'[t] = w
      /\ \A u \in Threads \ {t} : thread'[u] = thread[u]
  BY <1>1, <1>2, <1>4 DEF AudioTypeOK, Working
<1>8. AudioTypeOK'
  BY <1>1, <1>2, <1>5, <1>6, <1>7, Counted DEF AudioTypeOK, Working
<1>9. SlotsOwned'
  <2>1. \A r \in Slots : g_players'[r].in_use = g_players[r].in_use
    BY <1>3, <1>5
  <2> QED BY <1>1, <2>1 DEF IInv, SlotsOwned
<1>10. MarkInv'
  <2>1. ASSUME NEW r \in Slots \ raced' PROVE MarkOf(r)'
    <3>1. CASE r = p
      <4>1. \A u \in Threads \ {t} : ~At(u, p, {"register", "call", "callback"})'
        BY <1>6, <1>7, <2>1, <3>1 DEF At
      <4>2. g_players'[p].bq_callback = c
        BY <1>3, <1>5
      <4>3. At(t, p, {"register"})' /\ ~At(t, p, {"call"})' /\ ~At(t, p, {"callback"})'
        BY <1>4, <1>7 DEF At
      <4>4. \A u \in Threads \ {t} :
               ~At(u, p, {"register"})' /\ ~At(u, p, {"call"})' /\ ~At(u, p, {"callback"})'
        BY <4>1 DEF At
      <4>5. thread'[t].ctx = c /\ c # None
        BY <1>2, <1>4, <1>7
      <4> QED BY <1>1, <1>2, <3>1, <4>1, <4>2, <4>3, <4>4, <4>5 DEF MarkOf
    <3>2. CASE r # p
      <4>1. g_players'[r] = g_players[r]
        BY <1>5, <3>2
      <4>2. MarkOf(r) /\ Same(g_players[r], g_players'[r])
        BY <1>6, <2>1, <4>1 DEF IInv, MarkInv, Same
      <4>3. ~At(t, r, {"register"}) /\ ~At(t, r, {"register", "call", "callback"})'
        BY <1>1, <1>4, <1>7, <3>2 DEF At, CanCall
      <4> QED BY <1>1, <1>7, <4>2, <4>3, MarkOfKeeps
    <3> QED BY <3>1, <3>2
  <2>2. ASSUME NEW r \in Slots PROVE HeardOf(r)'
    <3>0. HeardOf(r) /\ Heard' = Heard
      BY <1>1 DEF IInv, MarkInv, Heard
    <3>1. CASE r = p
      <4>1. /\ g_players'[p].in_use = g_players[p].in_use /\ g_players'[p].bq_callback # None
            /\ g_players'[p].bq_context = g_players[p].bq_context
        BY <1>2, <1>3, <1>5
      <4>2. ASSUME NEW u \in Threads, u # t
            PROVE  /\ At(u, p, {"callback", "register"})' => Mine(p, thread[u].ctx)'
                   /\ At(u, p, {"call"})' => At(u, p, {"call"}) /\ thread'[u] = thread[u]
        BY <1>7, <3>0, <3>1, <4>2 DEF HeardOf, At, Mine
      <4>3. At(t, p, {"register"})' /\ ~At(t, p, {"call"})' /\ Mine(p, thread[t].ctx)'
        BY <1>2, <1>4, <1>7, <3>0 DEF At, Mine, Heard
      <4>4. g_players'[p].in_use \/ (\E u \in Threads : At(u, p, {"call"})') =>
               Mine(p, g_players[p].bq_context)'
        BY <3>0, <3>1, <4>1, <4>2, <4>3 DEF HeardOf, Mine
      <4>5. ASSUME NEW u \in Threads, At(u, p, {"call"})'
            PROVE  /\ thread'[u].cb # None
                   /\ overtaken' # {} \/ (g_players'[p].in_use /\ g_players'[p].bq_callback # None)
        BY <1>1, <3>0, <3>1, <4>1, <4>2, <4>3, <4>5 DEF HeardOf
      <4> QED BY <3>1, <4>2, <4>3, <4>4, <4>5 DEF HeardOf
    <3>2. CASE r # p
      <4>1. Same(g_players[r], g_players'[r])
        BY <1>5, <3>2 DEF Same
      <4>2. ~At(t, r, {"register", "call", "callback"})'
        BY <1>4, <1>7, <3>2 DEF At
      <4> QED BY <1>1, <1>7, <3>0, <4>1, <4>2, HeardOfKeeps
    <3> QED BY <3>1, <3>2
  <2> QED BY <1>1, <1>6, <2>1, <2>2 DEF IInv, MarkInv
<1>11. SoundInv'
  BY <1>1, <1>3, <1>5, <1>6, RingsStay
<1> QED BY <1>8, <1>9, <1>10, <1>11 DEF IInv

\* The second write.
LEMMA RegisterContextKeeps ==
    ASSUME IInv, NEW t \in Threads, RegisterContext(t), calls' = calls
    PROVE  IInv'
<1>p. PICK p \in Slots : p = thread[t].slot
  BY DEF IInv, AudioTypeOK
<1>c. PICK c \in Contexts : c = thread[t].ctx
  BY DEF IInv, AudioTypeOK
<1> DEFINE qs == [g_players[p] EXCEPT !.bq_context = c]
<1>1. /\ thread[t].at = "register"
      /\ g_players' = [g_players EXCEPT ![p] = qs] /\ thread' = [thread EXCEPT ![t] = Idle]
      /\ Touch(t, p) /\ live' = live /\ overtaken' = overtaken /\ nullCall' = nullCall /\ made' = made
      /\ g_audio_device' = g_audio_device
  <2>1. g_players' = [g_players EXCEPT ![p].bq_context = c]
    BY <1>p, <1>c DEF RegisterContext
  <2> QED BY <1>p, <2>1 DEF RegisterContext, appVars
<1>2. AudioTypeOK
  BY DEF IInv
<1>3. /\ qs \in Player /\ qs.bq_callback = g_players[p].bq_callback
      /\ qs.in_use = g_players[p].in_use /\ qs.bq_context = c
      /\ qs.ring = g_players[p].ring /\ qs.ring_head = g_players[p].ring_head
      /\ qs.ring_tail = g_players[p].ring_tail
  BY <1>2 DEF AudioTypeOK, Player
<1>4. At(t, p, {"register"})
  BY <1>1, <1>p DEF At
<1>a. \A r \in Slots : At(t, r, {"register"}) => r = p
  BY <1>p DEF At
<1>b. p \notin raced => g_players[p].bq_callback = c
  BY <1>4, <1>c DEF IInv, MarkInv, MarkOf
<1> HIDE DEF qs
<1>5. /\ g_players' \in [Slots -> Player] /\ g_players'[p] = qs
      /\ \A r \in Slots \ {p} : g_players'[r] = g_players[r]
  BY <1>1, <1>2, <1>3, OneChanges
<1>6. /\ raced' \in SUBSET Slots /\ raced \subseteq raced'
      /\ p \notin raced' => \A u \in Threads \ {t} : ~At(u, p, {"call", "callback", "register"})
  BY <1>1, <1>2, RaceIs DEF Touch, At, Busy
<1>7. /\ thread' \in [Threads -> Working] /\ thread'[t].at = "idle"
      /\ \A u \in Threads \ {t} : thread'[u] = thread[u]
  BY <1>1, <1>2, IdleIs DEF AudioTypeOK, Working
<1>8. AudioTypeOK'
  BY <1>1, <1>2, <1>5, <1>6, <1>7 DEF AudioTypeOK, Working
<1>9. SlotsOwned'
  <2>1. \A r \in Slots : g_players'[r].in_use = g_players[r].in_use
    BY <1>3, <1>5
  <2> QED BY <1>1, <2>1 DEF IInv, SlotsOwned
<1>10. MarkInv'
  <2>1. ASSUME NEW r \in Slots \ raced' PROVE MarkOf(r)'
    <3>1. CASE r = p
      <4>1. \A u \in Threads :
               ~At(u, p, {"register"})' /\ ~At(u, p, {"call"})' /\ ~At(u, p, {"callback"})'
        <5>1. \A u \in Threads \ {t} : ~At(u, p, {"register", "call", "callback"})'
          BY <1>6, <1>7, <2>1, <3>1 DEF At
        <5>2. ~At(t, p, {"register", "call", "callback"})'
          BY <1>7 DEF At
        <5> QED BY <5>1, <5>2 DEF At
      <4>3. g_players'[p].bq_callback = c /\ g_players'[p].bq_context = c
        BY <1>3, <1>5, <1>6, <1>b, <2>1, <3>1
      <4>4. g_players[p].bq_callback # None => <<p, g_players[p].bq_callback>> \in live
        BY <1>2, <1>6, <2>1, <3>1 DEF IInv, MarkInv, MarkOf
      <4>5. c # None => <<p, c>> \in live'
        BY <1>1, <1>6, <1>b, <2>1, <3>1, <4>4
      <4> QED BY <3>1, <4>1, <4>3, <4>5 DEF MarkOf
    <3>2. CASE r # p
      <4>1. g_players'[r] = g_players[r]
        BY <1>5, <3>2
      <4>2. MarkOf(r) /\ Same(g_players[r], g_players'[r])
        BY <1>6, <2>1, <4>1 DEF IInv, MarkInv, Same
      <4>3. ~At(t, r, {"register"}) /\ ~At(t, r, {"register", "call", "callback"})'
        BY <1>7, <1>a, <3>2 DEF At
      <4> QED BY <1>1, <1>7, <4>2, <4>3, MarkOfKeeps
    <3> QED BY <3>1, <3>2
  <2>2. ASSUME NEW r \in Slots PROVE HeardOf(r)'
    <3>0. HeardOf(r) /\ Heard' = Heard
      BY <1>1 DEF IInv, MarkInv, Heard
    <3>1. CASE r = p
      <4>1. /\ g_players'[p].in_use = g_players[p].in_use
            /\ g_players'[p].bq_callback = g_players[p].bq_callback
            /\ g_players'[p].bq_context = c
        BY <1>3, <1>5
      <4>2. ASSUME NEW u \in Threads
            PROVE  /\ At(u, p, {"callback", "register"})' => Mine(p, thread[u].ctx)'
                   /\ At(u, p, {"call"})' => At(u, p, {"call"}) /\ thread'[u] = thread[u]
        BY <1>7, <3>0, <3>1 DEF HeardOf, At, Mine
      <4>3. Mine(p, g_players[p].bq_context)'
        BY <1>4, <1>c, <3>0, <3>1, <4>1 DEF HeardOf, At, Mine
      <4>4. ASSUME NEW u \in Threads, At(u, p, {"call"})'
            PROVE  /\ thread'[u].cb # None
                   /\ overtaken' # {} \/ (g_players'[p].in_use /\ g_players'[p].bq_callback # None)
        BY <1>1, <3>0, <3>1, <4>1, <4>2, <4>4 DEF HeardOf
      <4> QED BY <3>1, <4>2, <4>3, <4>4 DEF HeardOf
    <3>2. CASE r # p
      <4>1. Same(g_players[r], g_players'[r])
        BY <1>5, <3>2 DEF Same
      <4>2. ~At(t, r, {"register", "call", "callback"})'
        BY <1>7 DEF At
      <4> QED BY <1>1, <1>7, <3>0, <4>1, <4>2, HeardOfKeeps
    <3> QED BY <3>1, <3>2
  <2> QED BY <1>1, <1>6, <2>1, <2>2 DEF IInv, MarkInv
<1>11. SoundInv'
  BY <1>1, <1>3, <1>5, <1>6, RingsStay
<1> QED BY <1>8, <1>9, <1>10, <1>11 DEF IInv

\* A player's ring is emptied.
LEMMA ClearKeeps ==
    ASSUME IInv, NEW t \in Threads, NEW h \in live, Clear(t, h), calls' = calls + 1
    PROVE  IInv'
<1> DEFINE p == h[1]
           qs == [g_players[p] EXCEPT !.ring_head = 0, !.ring_tail = 0]
<1>1. /\ g_players' = [g_players EXCEPT ![p] = qs]
      /\ CanCall(t) /\ live' = live /\ overtaken' = overtaken /\ nullCall' = nullCall /\ made' = made
      /\ g_audio_device' = g_audio_device /\ thread' = thread /\ raced' = raced
  <2>1. AudioTypeOK /\ p \in Slots
    BY LiveIs DEF IInv
  <2>2. g_players' = [g_players EXCEPT ![p].ring_head = 0, ![p].ring_tail = 0]
    BY DEF Clear
  <2>3. g_players' = [g_players EXCEPT ![p] = qs]
    BY <2>1, <2>2 DEF AudioTypeOK, Player
  <2> QED BY <2>3 DEF Clear, appVars
<1>2. AudioTypeOK /\ p \in Slots /\ 0 \in Index
  BY LiveIs, RingAssumption DEF IInv, Index
<1>3. qs \in Player /\ qs.ring_head = 0 /\ qs.ring_tail = 0 /\ Same(g_players[p], qs)
  BY <1>2 DEF AudioTypeOK, Player, Same
<1> HIDE DEF p, qs
<1>5. /\ g_players' \in [Slots -> Player] /\ g_players'[p] = qs
      /\ \A r \in Slots \ {p} : g_players'[r] = g_players[r]
  BY <1>1, <1>2, <1>3, OneChanges
<1>6. AudioTypeOK'
  BY <1>1, <1>2, <1>5, Counted DEF AudioTypeOK
<1>7. SlotsOwned' /\ MarkInv'
  <2>1. \A r \in Slots : Same(g_players[r], g_players'[r])
    BY <1>3, <1>5 DEF Same
  <2> QED BY <1>1, <2>1, QuietKeeps
<1>8. SoundInv'
  <2>1. ASSUME NEW r \in Slots
        PROVE  /\ g_players'[r].ring_tail % 2 = 0
               /\ SoundOf(r, g_players'[r], Heard')
    <3>1. CASE r = p
      BY <1>3, <1>5, <3>1, EmptyRing
    <3>2. CASE r # p
      BY <1>1, <1>5, <3>2 DEF IInv, SoundInv, Heard
    <3> QED BY <3>1, <3>2
  <2> QED BY <2>1 DEF SoundInv
<1> QED BY <1>6, <1>7, <1>8 DEF IInv

\* A buffer is written to the ring of a slot, by the player that has it.
LEMMA WriteKeeps ==
    ASSUME IInv, NEW p \in Slots, NEW c \in 1 .. MaxMade, NEW n \in Sizes,
           <<p, c>> \in Heard,
           g_players' = [g_players EXCEPT ![p] = Write(@, Buffer(c, n))],
           live' = live, overtaken' = overtaken, raced' = raced
    PROVE  /\ g_players' \in [Slots -> Player] /\ SoundInv'
           /\ \A r \in Slots : Same(g_players[r], g_players'[r])
<1> DEFINE ps == g_players[p]
           qs == Write(ps, Buffer(c, n))
<1>1. /\ AudioTypeOK /\ ps \in Player /\ ps.ring_tail % 2 = 0
      /\ SoundOf(p, ps, Heard) /\ Heard' = Heard
  BY DEF IInv, AudioTypeOK, SoundInv, Heard
<1>2. g_players' = [g_players EXCEPT ![p] = qs]
  OBVIOUS
<1> HIDE DEF ps
<1>3. /\ qs \in Player /\ Same(ps, qs) /\ qs.ring_tail % 2 = 0
      /\ <<p, c>> \in Heard /\ SoundOf(p, ps, Heard) => SoundOf(p, qs, Heard)
  BY <1>1, WriteSound
<1> HIDE DEF qs
<1>4. /\ g_players' \in [Slots -> Player] /\ g_players'[p] = qs
      /\ \A r \in Slots \ {p} : g_players'[r] = g_players[r]
  BY <1>1, <1>2, <1>3, OneChanges
<1>5. \A r \in Slots : Same(g_players[r], g_players'[r])
  BY <1>3, <1>4 DEF Same, ps
<1>6. SoundInv'
  <2>1. ASSUME NEW r \in Slots
        PROVE  /\ g_players'[r].ring_tail % 2 = 0
               /\ SoundOf(r, g_players'[r], Heard')
    <3>1. CASE r = p
      BY <1>1, <1>3, <1>4, <3>1
    <3>2. CASE r # p
      BY <1>1, <1>4, <3>2 DEF IInv, SoundInv
    <3> QED BY <3>1, <3>2
  <2> QED BY <2>1 DEF SoundInv
<1> QED BY <1>4, <1>5, <1>6

\* The application enqueues a buffer.
LEMMA EnqueueKeeps ==
    ASSUME IInv, NEW t \in Threads, NEW h \in live, NEW n \in Sizes, Enqueue(t, h, n),
           calls' = calls + 1
    PROVE  IInv'
<1>1. /\ g_players' = [g_players EXCEPT ![h[1]] = Write(@, Buffer(h[2], n))]
      /\ CanCall(t) /\ live' = live /\ overtaken' = overtaken /\ nullCall' = nullCall /\ made' = made
      /\ g_audio_device' = g_audio_device /\ thread' = thread /\ raced' = raced
  BY DEF Enqueue, appVars
<1>2. h[1] \in Slots /\ h[2] \in 1 .. MaxMade /\ <<h[1], h[2]>> \in live
  BY LiveIs DEF IInv
<1>3. /\ g_players' \in [Slots -> Player] /\ SoundInv'
      /\ \A r \in Slots : Same(g_players[r], g_players'[r])
  BY <1>1, <1>2, WriteKeeps DEF Heard
<1>4. AudioTypeOK'
  BY <1>1, <1>3, Counted DEF IInv, AudioTypeOK
<1>5. SlotsOwned' /\ MarkInv'
  BY <1>1, <1>3, QuietKeeps
<1> QED BY <1>3, <1>4, <1>5 DEF IInv

\* A field of a player changes that has nothing to do with its owner or its ring.
LEMMA FieldKeeps ==
    ASSUME IInv, NEW p \in Slots, NEW qs \in Player,
           g_players' = [g_players EXCEPT ![p] = qs], live' = live, overtaken' = overtaken, raced \subseteq raced',
           Same(g_players[p], qs), qs.ring = g_players[p].ring,
           qs.ring_head = g_players[p].ring_head, qs.ring_tail = g_players[p].ring_tail
    PROVE  /\ g_players' \in [Slots -> Player] /\ SoundInv'
           /\ \A r \in Slots : Same(g_players[r], g_players'[r])
<1>1. /\ g_players' \in [Slots -> Player] /\ g_players'[p] = qs
      /\ \A r \in Slots \ {p} : g_players'[r] = g_players[r]
  BY OneChanges DEF IInv
<1>2. \A r \in Slots : Same(g_players[r], g_players'[r])
  BY <1>1 DEF Same
<1>3. SoundInv'
  BY <1>1, RingsStay
<1> QED BY <1>1, <1>2, <1>3

\* Mute.
LEMMA SetMuteKeeps ==
    ASSUME IInv, NEW t \in Threads, NEW h \in live, NEW b \in BOOLEAN, SetMute(t, h, b),
           calls' = calls + 1
    PROVE  IInv'
<1> DEFINE p == h[1]
           qs == [g_players[p] EXCEPT !.is_muted = b]
<1>1. /\ g_players' = [g_players EXCEPT ![p] = qs]
      /\ CanCall(t) /\ live' = live /\ overtaken' = overtaken /\ nullCall' = nullCall /\ made' = made
      /\ g_audio_device' = g_audio_device /\ thread' = thread /\ raced' = raced
  <2>1. g_players' = [g_players EXCEPT ![p].is_muted = b]
    BY DEF SetMute
  <2> QED BY <2>1 DEF SetMute, appVars
<1>2. AudioTypeOK /\ p \in Slots
  BY LiveIs DEF IInv
<1>3. /\ qs \in Player /\ Same(g_players[p], qs)  /\ qs.ring = g_players[p].ring
      /\ qs.ring_head = g_players[p].ring_head /\ qs.ring_tail = g_players[p].ring_tail
  BY <1>2 DEF AudioTypeOK, Player, Same
<1> HIDE DEF p, qs
<1>4. /\ g_players' \in [Slots -> Player] /\ SoundInv'
      /\ \A r \in Slots : Same(g_players[r], g_players'[r])
  BY <1>1, <1>2, <1>3, FieldKeeps
<1>5. AudioTypeOK'
  BY <1>1, <1>2, <1>4, Counted DEF AudioTypeOK
<1>6. SlotsOwned' /\ MarkInv'
  BY <1>1, <1>4, QuietKeeps
<1> QED BY <1>4, <1>5, <1>6 DEF IInv

\* Slots keep their owners.
LEMMA OwnersStay ==
    ASSUME SlotsOwned, live' = live, \A r \in Slots : g_players'[r].in_use = g_players[r].in_use
    PROVE  SlotsOwned'
<1> SUFFICES ASSUME NEW r \in Slots
             PROVE  /\ g_players'[r].in_use = (\E h \in live : h[1] = r)
                    /\ \A h, k \in live : h[1] = r /\ k[1] = r => h = k
  BY DEF SlotsOwned
<1>1. g_players'[r].in_use = g_players[r].in_use
  OBVIOUS
<1>2. /\ g_players[r].in_use = (\E h \in live : h[1] = r)
      /\ \A h, k \in live : h[1] = r /\ k[1] = r => h = k
  BY DEF SlotsOwned
<1> QED BY <1>1, <1>2

\* A thread that found a callback in a slot without a registration under way is about
\* to call it.
LEMMA AboutToCall ==
    ASSUME IInv, NEW t \in Threads, NEW p \in Slots, NEW w \in Working,
           w.at = "call", w.slot = p, w.cb = g_players[p].bq_callback, w.cb # None,
           g_players[p].in_use,
           thread' = [thread EXCEPT ![t] = w], thread[t].at \in {"idle", "scan"}, Look(t, p),
           \A r \in Slots : Same(g_players[r], g_players'[r]),
           live' = live, overtaken' = overtaken, nullCall' = nullCall
    PROVE  SlotsOwned' /\ MarkInv'
<1>1. AudioTypeOK /\ thread \in [Threads -> Working]
  BY DEF IInv, AudioTypeOK, Working
<1>2. thread'[t] = w /\ \A u \in Threads \ {t} : thread'[u] = thread[u]
  BY <1>1
<1>3. /\ raced \subseteq raced'
      /\ p \notin raced' => \A u \in Threads \ {t} : ~At(u, p, {"register"})
  BY <1>1, RaceIs DEF Look, At
<1>4. SlotsOwned'
  <2>1. \A r \in Slots : g_players'[r].in_use = g_players[r].in_use
    BY DEF Same
  <2>2. SlotsOwned
    BY DEF IInv
  <2> QED BY <2>1, <2>2, OwnersStay
<1>5. ASSUME NEW r \in Slots \ raced' PROVE MarkOf(r)'
  <2>1. MarkOf(r) /\ Same(g_players[r], g_players'[r])
    BY <1>3 DEF IInv, MarkInv
  <2>2. CASE r # p
    <3>1. ~At(t, r, {"register"}) /\ ~At(t, r, {"register", "call", "callback"})'
      BY <1>2, <2>2 DEF At
    <3> QED BY <1>2, <2>1, <3>1, MarkOfKeeps
  <2>3. CASE r = p
    <3>1. /\ g_players'[p].bq_callback = g_players[p].bq_callback
          /\ g_players'[p].bq_context = g_players[p].bq_context
      BY <2>1, <2>3 DEF Same
    <3>2. \A u \in Threads : ~At(u, p, {"register"}) /\ ~At(u, p, {"register"})'
      BY <1>2, <1>3, <2>3 DEF At
    <3>3. /\ g_players'[p].bq_callback # None =>
               /\ <<p, g_players'[p].bq_callback>> \in live'
               /\ g_players'[p].bq_context = g_players'[p].bq_callback
      BY <2>1, <2>3, <3>1, <3>2 DEF MarkOf
    <3>4. ASSUME NEW u \in Threads, At(u, p, {"call"})'
          PROVE  thread'[u].cb # None /\ g_players'[p].bq_callback = thread'[u].cb
      <4>1. CASE u = t
        BY <1>2, <3>1, <4>1
      <4>2. CASE u # t
        <5>1. thread'[u] = thread[u] /\ At(u, p, {"call"})
          BY <1>2, <3>4, <4>2 DEF At
        <5>2. thread[u].cb # None /\ g_players[p].bq_callback = thread[u].cb
          BY <2>1, <2>3, <5>1 DEF MarkOf
        <5> QED BY <3>1, <5>1, <5>2
      <4> QED BY <4>1, <4>2
    <3>5. ASSUME NEW u \in Threads, At(u, p, {"callback"})'
          PROVE  thread'[u].ctx = thread'[u].cb /\ <<p, thread'[u].cb>> \in live'
      <4>1. thread'[u] = thread[u] /\ At(u, p, {"callback"})
        BY <1>2, <3>5 DEF At
      <4>2. thread[u].ctx = thread[u].cb /\ <<p, thread[u].cb>> \in live
        BY <2>1, <2>3, <4>1 DEF MarkOf
      <4> QED BY <4>1, <4>2
    <3> QED BY <2>3, <3>2, <3>3, <3>4, <3>5 DEF MarkOf
  <2> QED BY <2>2, <2>3
<1>6. nullCall' => overtaken' # {}
  BY DEF IInv, MarkInv
<1>7. ASSUME NEW r \in Slots PROVE HeardOf(r)'
  <2>1. HeardOf(r) /\ Same(g_players[r], g_players'[r]) /\ Heard' = Heard
    BY DEF IInv, MarkInv, Heard
  <2>2. CASE r # p
    <3>1. ~At(t, r, {"register", "call", "callback"})'
      BY <1>2, <2>2 DEF At
    <3> QED BY <1>2, <2>1, <3>1, HeardOfKeeps
  <2>3. CASE r = p
    <3>1. /\ g_players'[p].in_use /\ g_players'[p].bq_callback # None
          /\ g_players'[p].bq_context = g_players[p].bq_context
      BY <2>1, <2>3 DEF Same
    <3>2. Mine(p, g_players[p].bq_context)'
      BY <2>1, <2>3, <3>1 DEF HeardOf, Mine
    <3>3. ASSUME NEW u \in Threads, At(u, p, {"callback", "register"})'
          PROVE  Mine(p, thread[u].ctx)'
      BY <1>2, <2>1, <2>3, <3>3 DEF HeardOf, At, Mine
    <3>4. ASSUME NEW u \in Threads, At(u, p, {"call"})' PROVE thread'[u].cb # None
      BY <1>2, <2>1, <2>3, <3>4 DEF HeardOf, At
    <3> QED BY <2>3, <3>1, <3>2, <3>3, <3>4 DEF HeardOf
  <2> QED BY <2>2, <2>3
<1> QED BY <1>4, <1>5, <1>6, <1>7 DEF MarkInv

\* SetPlayState, with the call it makes at once.
LEMMA SetPlayStateKeeps ==
    ASSUME IInv, NEW t \in Threads, NEW h \in live, NEW b \in BOOLEAN, SetPlayState(t, h, b),
           calls' = calls + 1
    PROVE  IInv'
<1> DEFINE p == h[1]
           qs == [g_players[p] EXCEPT !.playing = b]
           f == g_players[p].bq_callback
           w == [Idle EXCEPT !.at = "call", !.slot = p, !.cb = f]
<1>1. /\ g_players' = [g_players EXCEPT ![p] = qs]
      /\ CanCall(t) /\ live' = live /\ overtaken' = overtaken /\ nullCall' = nullCall /\ made' = made
      /\ g_audio_device' = g_audio_device /\ Look(t, p)
      /\ thread' = IF b /\ f # None THEN [thread EXCEPT ![t] = w] ELSE thread
  <2>1. g_players' = [g_players EXCEPT ![p].playing = b]
    BY DEF SetPlayState
  <2> QED BY <2>1 DEF SetPlayState, appVars
<1>2. AudioTypeOK /\ p \in Slots /\ f \in Contexts /\ g_players[p].in_use
  <2>1. AudioTypeOK /\ p \in Slots /\ g_players[p].in_use
    BY LiveIs DEF IInv, SlotsOwned
  <2> QED BY <2>1 DEF AudioTypeOK, Player
<1>3. /\ qs \in Player /\ Same(g_players[p], qs)  /\ qs.ring = g_players[p].ring
      /\ qs.ring_head = g_players[p].ring_head /\ qs.ring_tail = g_players[p].ring_tail
  BY <1>2 DEF AudioTypeOK, Player, Same
<1>4. w \in Working /\ w.at = "call" /\ w.slot = p /\ w.cb = f
  BY <1>2, IdleIs DEF Working, Labels
<1> HIDE DEF p, qs, w
<1>5. raced' \in SUBSET Slots /\ raced \subseteq raced'
  BY <1>1, <1>2, RaceIs DEF Look
<1>6. /\ g_players' \in [Slots -> Player] /\ SoundInv'
      /\ \A r \in Slots : Same(g_players[r], g_players'[r])
  BY <1>1, <1>2, <1>3, <1>5, FieldKeeps
<1>7. AudioTypeOK'
  <2>1. thread' \in [Threads -> Working]
    BY <1>1, <1>2, <1>4 DEF AudioTypeOK, Working
  <2> QED BY <1>1, <1>2, <1>5, <1>6, <2>1, Counted DEF AudioTypeOK, Working
<1>8. SlotsOwned' /\ MarkInv'
  <2>1. CASE b /\ f # None
    <3>1. thread' = [thread EXCEPT ![t] = w] /\ thread[t].at \in {"idle", "scan"}
      BY <1>1, <2>1 DEF CanCall
    <3> QED BY <1>1, <1>2, <1>4, <1>6, <2>1, <3>1, AboutToCall
  <2>2. CASE ~(b /\ f # None)
    <3>1. thread' = thread
      BY <1>1, <2>2
    <3> QED BY <1>1, <1>5, <1>6, <3>1, QuietKeeps
  <2> QED BY <2>1, <2>2
<1> QED BY <1>6, <1>7, <1>8 DEF IInv

\* The pump looks at a slot.
LEMMA ScanKeeps ==
    ASSUME IInv, NEW t \in Threads, Scan(t), calls' = calls
    PROVE  IInv'
<1>p. PICK p \in Slots : p = thread[t].slot
  BY DEF IInv, AudioTypeOK
<1> DEFINE ps == g_players[p]
           f == ps.bq_callback
           w == [thread[t] EXCEPT !.at = "call", !.cb = f]
<1>1. /\ thread[t].at = "scan" /\ Look(t, p)
      /\ IF ps.in_use /\ f # None /\ RunsLow(ps)
           THEN thread' = [thread EXCEPT ![t].at = "call", ![t].cb = f]
           ELSE ScanFrom(t, p + 1)
      /\ g_players' = g_players /\ live' = live /\ overtaken' = overtaken /\ nullCall' = nullCall /\ made' = made
      /\ g_audio_device' = g_audio_device
  BY <1>p DEF Scan, playerVars, appVars
<1>2. /\ AudioTypeOK /\ ps \in Player /\ f \in Contexts
      /\ thread \in [Threads -> Working] /\ thread[t] \in Working
  BY DEF IInv, AudioTypeOK, Player, Working
<1>3. raced' \in SUBSET Slots /\ raced \subseteq raced'
  BY <1>1, <1>2, RaceIs DEF Look
<1>4. SoundInv' /\ \A r \in Slots : Same(g_players[r], g_players'[r])
  <2>1. \A r \in Slots : Same(g_players[r], g_players'[r])
    BY <1>1 DEF Same
  <2> QED BY <1>1, <1>3, <2>1, RingsStay
<1>5. CASE ps.in_use /\ f # None /\ RunsLow(ps)
  <2>1. /\ w \in Working /\ w.at = "call" /\ w.slot = p /\ w.cb = f
        /\ thread' = [thread EXCEPT ![t] = w]
    BY <1>p, <1>1, <1>2, <1>5 DEF Working, Labels
  <2> HIDE DEF w
  <2>2. thread' \in [Threads -> Working]
    BY <1>2, <2>1
  <2>3. AudioTypeOK'
    BY <1>1, <1>2, <1>3, <2>2 DEF AudioTypeOK, Working
  <2>4. SlotsOwned' /\ MarkInv'
    BY <1>1, <1>4, <1>5, <2>1, AboutToCall
  <2> QED BY <1>4, <2>3, <2>4 DEF IInv
<1>6. CASE ~(ps.in_use /\ f # None /\ RunsLow(ps))
  <2>1. ScanFrom(t, p + 1)
    BY <1>1, <1>6
  <2>2. /\ thread' \in [Threads -> Working] /\ thread'[t].at \in {"idle", "scan"}
        /\ \A u \in Threads \ {t} : thread'[u] = thread[u]
    BY <1>2, <2>1, ScanFromIs
  <2>3. AudioTypeOK'
    BY <1>1, <1>2, <1>3, <2>2 DEF AudioTypeOK, Working
  <2>4. SlotsOwned' /\ MarkInv'
    BY <1>1, <1>3, <1>4, <2>2, QuietKeeps
  <2> QED BY <1>4, <2>3, <2>4 DEF IInv
<1> QED BY <1>5, <1>6

\* The pump begins.
LEMMA PumpKeeps ==
    ASSUME IInv, Pump
    PROVE  IInv'
<1>1. /\ thread[Pumper].at = "idle" /\ ScanFrom(Pumper, 0) /\ Pumper \in Threads
      /\ g_players' = g_players /\ live' = live /\ overtaken' = overtaken /\ nullCall' = nullCall /\ made' = made
      /\ g_audio_device' = g_audio_device /\ raced' = raced /\ calls' = calls
  BY AppAssumption DEF Pump, playerVars, appVars
<1>2. /\ thread' \in [Threads -> Working] /\ thread'[Pumper].at \in {"idle", "scan"}
      /\ \A u \in Threads \ {Pumper} : thread'[u] = thread[u]
  BY <1>1, ScanFromIs DEF IInv
<1>3. AudioTypeOK'
  BY <1>1, <1>2 DEF IInv, AudioTypeOK, Working
<1>4. SoundInv' /\ \A r \in Slots : Same(g_players[r], g_players'[r])
  <2>1. \A r \in Slots : Same(g_players[r], g_players'[r])
    BY <1>1 DEF Same
  <2> QED BY <1>1, <2>1, RingsStay
<1>5. SlotsOwned' /\ MarkInv'
  BY <1>1, <1>2, <1>4, QuietKeeps
<1> QED BY <1>3, <1>4, <1>5 DEF IInv

\* The call: of the player that has the slot, unless somebody raced for it.
LEMMA CallKeeps ==
    ASSUME IInv, NEW t \in Threads, Call(t), calls' = calls
    PROVE  IInv'
<1>p. PICK p \in Slots : p = thread[t].slot
  BY DEF IInv, AudioTypeOK
<1> DEFINE ps == g_players[p]
<1>1. PICK f \in {thread[t].cb, ps.bq_callback} :
        IF f = None
          THEN nullCall' = TRUE /\ thread' = [thread EXCEPT ![t] = Idle]
          ELSE /\ thread' = [thread EXCEPT ![t].at = "callback", ![t].cb = f,
                                           ![t].ctx = ps.bq_context]
               /\ nullCall' = nullCall
  BY <1>p DEF Call
<1>2. /\ thread[t].at = "call" /\ raced' = raced
      /\ g_players' = g_players /\ live' = live /\ overtaken' = overtaken /\ made' = made
      /\ g_audio_device' = g_audio_device
  BY DEF Call, playerVars, appVars
<1>3. /\ AudioTypeOK /\ ps \in Player /\ ps.bq_callback \in Contexts /\ ps.bq_context \in Contexts
      /\ thread \in [Threads -> Working] /\ thread[t] \in Working /\ f \in Contexts
  BY DEF IInv, AudioTypeOK, Player, Working
<1>4. SoundInv' /\ \A r \in Slots : Same(g_players[r], g_players'[r])
  <2>1. \A r \in Slots : Same(g_players[r], g_players'[r])
    BY <1>2 DEF Same
  <2> QED BY <1>2, <2>1, RingsStay
<1>5. At(t, p, {"call"}) /\ \A r \in Slots : ~At(t, r, {"register"})
  BY <1>p, <1>2 DEF At
<1>6. p \notin raced =>
        /\ f # None /\ ps.bq_callback = f /\ ps.bq_context = f /\ <<p, f>> \in live
  <2> SUFFICES ASSUME p \notin raced
               PROVE  f # None /\ ps.bq_callback = f /\ ps.bq_context = f /\ <<p, f>> \in live
    OBVIOUS
  <2>1. MarkOf(p)
    BY DEF IInv, MarkInv
  <2>2. thread[t].cb # None /\ ps.bq_callback = thread[t].cb
    BY <1>5, <2>1 DEF MarkOf
  <2>3. \A u \in Threads : ~At(u, p, {"register"})
    <3>1. ASSUME NEW u \in Threads, At(u, p, {"register"}) PROVE FALSE
      <4>1. u # t
        BY <1>5, <3>1
      <4>2. ~At(t, p, {"register", "call", "callback"})
        BY <2>1, <3>1, <4>1 DEF MarkOf
      <4> QED BY <1>5, <4>2 DEF At
    <3> QED BY <3>1
  <2> QED BY <2>1, <2>2, <2>3 DEF MarkOf
<1>7. CASE f = None
  <2>1. /\ thread' \in [Threads -> Working] /\ thread'[t].at = "idle" /\ nullCall' = TRUE
        /\ \A u \in Threads \ {t} : thread'[u] = thread[u]
    BY <1>1, <1>3, <1>7, IdleIs
  <2>2. AudioTypeOK'
    BY <1>2, <1>3, <2>1 DEF AudioTypeOK, Working
  <2>3. SlotsOwned'
    BY <1>2 DEF IInv, SlotsOwned
  <2>4. ASSUME NEW r \in Slots \ raced' PROVE MarkOf(r)'
    <3>1. MarkOf(r) /\ ~At(t, r, {"register", "call", "callback"})'
      BY <1>2, <2>1 DEF IInv, MarkInv, At
    <3> QED BY <1>2, <1>4, <1>5, <2>1, <3>1, MarkOfKeeps
  <2>5. overtaken' # {}
    BY <1>2, <1>5, <1>7 DEF IInv, MarkInv, HeardOf
  <2>6. ASSUME NEW r \in Slots PROVE HeardOf(r)'
    <3>1. HeardOf(r) /\ ~At(t, r, {"register", "call", "callback"})' /\ Heard' = Heard
      BY <1>2, <2>1 DEF IInv, MarkInv, At, Heard
    <3> QED BY <1>2, <1>4, <2>1, <3>1, HeardOfKeeps
  <2> QED BY <1>4, <2>2, <2>3, <2>4, <2>5, <2>6 DEF IInv, MarkInv
<1>8. CASE f # None
  <2> DEFINE w == [thread[t] EXCEPT !.at = "callback", !.cb = f, !.ctx = ps.bq_context]
  <2>1. /\ thread' = [thread EXCEPT ![t] = w] /\ nullCall' = nullCall
        /\ w \in Working /\ w.at = "callback" /\ w.slot = p /\ w.cb = f /\ w.ctx = ps.bq_context
    BY <1>p, <1>1, <1>3, <1>8 DEF Working, Labels
  <2> HIDE DEF w
  <2>2. /\ thread' \in [Threads -> Working] /\ thread'[t] = w
        /\ \A u \in Threads \ {t} : thread'[u] = thread[u]
    BY <1>3, <2>1
  <2>3. AudioTypeOK'
    BY <1>2, <1>3, <2>1, <2>2 DEF AudioTypeOK, Working
  <2>4. SlotsOwned'
    BY <1>2 DEF IInv, SlotsOwned
  <2>5. ASSUME NEW r \in Slots \ raced' PROVE MarkOf(r)'
    <3>1. MarkOf(r) /\ Same(g_players[r], g_players'[r])
      BY <1>2, <1>4 DEF IInv, MarkInv
    <3>2. CASE r # p
      <4>1. ~At(t, r, {"register"}) /\ ~At(t, r, {"register", "call", "callback"})'
        BY <1>5, <2>1, <2>2, <3>2 DEF At
      <4> QED BY <1>2, <2>2, <3>1, <4>1, MarkOfKeeps
    <3>3. CASE r = p
      <4>1. ps.bq_callback = f /\ ps.bq_context = f /\ <<p, f>> \in live
        BY <1>2, <1>6, <3>3
      <4>2. \A u \in Threads : ~At(u, p, {"register"})'
        <5>1. ~At(t, p, {"register"})'
          BY <2>1, <2>2 DEF At
        <5>2. ASSUME NEW u \in Threads \ {t}, At(u, p, {"register"})' PROVE FALSE
          <6>1. At(u, p, {"register"})
            BY <2>2, <5>2 DEF At
          <6>2. ~At(t, p, {"register", "call", "callback"})
            BY <3>1, <3>3, <6>1 DEF MarkOf
          <6> QED BY <1>5, <6>2 DEF At
        <5> QED BY <5>1, <5>2
      <4>3. ASSUME NEW u \in Threads, At(u, p, {"call"})'
            PROVE  thread'[u].cb # None /\ g_players'[p].bq_callback = thread'[u].cb
        <5>1. thread'[u] = thread[u] /\ At(u, p, {"call"})
          BY <2>1, <2>2, <4>3 DEF At
        <5>2. thread[u].cb # None /\ g_players[p].bq_callback = thread[u].cb
          BY <3>1, <3>3, <5>1 DEF MarkOf
        <5> QED BY <1>2, <5>1, <5>2
      <4>4. ASSUME NEW u \in Threads, At(u, p, {"callback"})'
            PROVE  thread'[u].ctx = thread'[u].cb /\ <<p, thread'[u].cb>> \in live'
        <5>1. CASE u = t
          BY <1>2, <2>1, <2>2, <4>1, <5>1
        <5>2. CASE u # t
          <6>1. thread'[u] = thread[u] /\ At(u, p, {"callback"})
            BY <2>2, <4>4, <5>2 DEF At
          <6>2. thread[u].ctx = thread[u].cb /\ <<p, thread[u].cb>> \in live
            BY <3>1, <3>3, <6>1 DEF MarkOf
          <6> QED BY <1>2, <6>1, <6>2
        <5> QED BY <5>1, <5>2
      <4>5. /\ g_players'[p].bq_callback # None =>
                 /\ <<p, g_players'[p].bq_callback>> \in live'
                 /\ g_players'[p].bq_context = g_players'[p].bq_callback
        BY <1>2, <4>1
      <4> QED BY <3>3, <4>2, <4>3, <4>4, <4>5 DEF MarkOf
    <3> QED BY <3>2, <3>3
  <2>6. nullCall' => overtaken' # {}
    BY <1>2, <2>1 DEF IInv, MarkInv
  <2>7. ASSUME NEW r \in Slots PROVE HeardOf(r)'
    <3>1. HeardOf(r) /\ Same(g_players[r], g_players'[r]) /\ Heard' = Heard
      BY <1>2, <1>4 DEF IInv, MarkInv, Heard
    <3>2. CASE r # p
      <4>1. ~At(t, r, {"register", "call", "callback"})'
        BY <2>1, <2>2, <3>2 DEF At
      <4> QED BY <1>2, <2>2, <3>1, <4>1, HeardOfKeeps
    <3>3. CASE r = p
      <4>1. Mine(p, ps.bq_context)
        BY <1>5, <3>1, <3>3 DEF HeardOf
      <4>2. Mine(p, g_players[p].bq_context)'
        BY <1>2, <3>1, <4>1 DEF Mine
      <4>3. ASSUME NEW u \in Threads, At(u, p, {"callback", "register"})'
            PROVE  Mine(p, thread[u].ctx)'
        <5>1. CASE u = t
          BY <2>1, <2>2, <3>1, <4>1, <5>1 DEF Mine
        <5>2. CASE u # t
          BY <2>2, <3>1, <3>3, <4>3, <5>2 DEF HeardOf, At, Mine
        <5> QED BY <5>1, <5>2
      <4>4. ASSUME NEW u \in Threads, At(u, p, {"call"})'
            PROVE  At(u, p, {"call"}) /\ thread'[u] = thread[u]
        BY <2>1, <2>2, <4>4 DEF At
      <4>5. ASSUME NEW u \in Threads, At(u, p, {"call"})'
            PROVE  /\ thread'[u].cb # None
                   /\ overtaken' # {} \/ (g_players'[p].in_use /\ g_players'[p].bq_callback # None)
        BY <1>2, <3>1, <3>3, <4>4, <4>5 DEF HeardOf
      <4> QED BY <3>3, <4>2, <4>3, <4>5 DEF HeardOf
    <3> QED BY <3>2, <3>3
  <2> QED BY <1>4, <2>3, <2>4, <2>5, <2>6, <2>7 DEF IInv, MarkInv
<1> QED BY <1>7, <1>8

\* The callback enqueues the sound of its context and returns.
LEMMA ReturnKeeps ==
    ASSUME IInv, NEW t \in Threads, NEW n \in Sizes \cup {0}, Return(t, n), calls' = calls
    PROVE  IInv'
<1>p. PICK p \in Slots : p = thread[t].slot
  BY DEF IInv, AudioTypeOK
<1>c. PICK c \in Contexts : c = thread[t].ctx
  BY DEF IInv, AudioTypeOK
<1>1. /\ thread[t].at = "callback"
      /\ g_players' = IF n = 0 \/ c = None THEN g_players
                      ELSE [g_players EXCEPT ![p] = Write(@, Buffer(c, n))]
      /\ ScanFrom(t, p + 1) \/ thread' = [thread EXCEPT ![t] = Idle]
      /\ live' = live /\ overtaken' = overtaken /\ nullCall' = nullCall /\ made' = made
      /\ g_audio_device' = g_audio_device /\ raced' = raced
  BY <1>p, <1>c DEF Return, appVars
<1>2. AudioTypeOK /\ thread \in [Threads -> Working]
  BY DEF IInv, AudioTypeOK, Working
<1>3. /\ thread' \in [Threads -> Working] /\ thread'[t].at \in {"idle", "scan"}
      /\ \A u \in Threads \ {t} : thread'[u] = thread[u]
  <2>1. CASE ScanFrom(t, p + 1)
    BY <1>2, <2>1, ScanFromIs
  <2>2. CASE thread' = [thread EXCEPT ![t] = Idle]
    BY <1>2, <2>2, IdleIs
  <2> QED BY <1>1, <2>1, <2>2
<1>4. /\ g_players' \in [Slots -> Player] /\ SoundInv'
      /\ \A r \in Slots : Same(g_players[r], g_players'[r])
  <2>1. CASE n = 0 \/ c = None
    <3>1. g_players' = g_players
      BY <1>1, <2>1
    <3>2. \A r \in Slots : Same(g_players[r], g_players'[r])
      BY <3>1 DEF Same
    <3> QED BY <1>1, <1>2, <3>1, <3>2, RingsStay DEF AudioTypeOK
  <2>2. CASE ~(n = 0 \/ c = None)
    <3>1. n \in Sizes /\ c \in 1 .. MaxMade
      BY <2>2 DEF Contexts
    <3>2. <<p, c>> \in Heard
      <4>1. At(t, p, {"callback", "register"})
        BY <1>p, <1>1 DEF At
      <4>2. Mine(p, thread[t].ctx)
        BY <4>1 DEF IInv, MarkInv, HeardOf
      <4> QED BY <1>c, <2>2, <4>2 DEF Mine
    <3>3. g_players' = [g_players EXCEPT ![p] = Write(@, Buffer(c, n))]
      BY <1>1, <2>2
    <3> QED BY <1>1, <3>1, <3>2, <3>3, WriteKeeps
  <2> QED BY <2>1, <2>2
<1>5. AudioTypeOK'
  BY <1>1, <1>2, <1>3, <1>4 DEF AudioTypeOK, Working
<1>6. SlotsOwned' /\ MarkInv'
  BY <1>1, <1>3, <1>4, QuietKeeps
<1> QED BY <1>4, <1>5, <1>6 DEF IInv

\* SDL's thread takes a chunk of every player.
LEMMA MixKeeps ==
    ASSUME IInv, Mix
    PROVE  IInv'
<1>1. /\ g_players' = [p \in Slots |-> Mixed(g_players[p])]
      /\ live' = live /\ overtaken' = overtaken /\ nullCall' = nullCall /\ made' = made /\ calls' = calls
      /\ thread' = thread /\ raced' = raced /\ g_audio_device' = g_audio_device
  BY DEF Mix, appVars
<1>2. ASSUME NEW p \in Slots
      PROVE  /\ g_players'[p] \in Player /\ Same(g_players[p], g_players'[p])
             /\ g_players'[p].ring_tail % 2 = 0
             /\ SoundOf(p, g_players'[p], Heard)
  <2> DEFINE ps == g_players[p]
             qs == Mixed(ps)
  <2>1. ps \in Player /\ g_players'[p] = qs
    BY <1>1 DEF IInv, AudioTypeOK
  <2>2. ps.ring_tail % 2 = 0 /\ SoundOf(p, ps, Heard)
    BY DEF IInv, SoundInv
  <2> HIDE DEF ps
  <2>3. PICK n \in 0 .. Used(ps) :
          /\ n % 2 = 0 /\ qs \in Player /\ qs.ring_tail = Mod(ps.ring_tail + n)
          /\ \A f \in {"in_use", "playing", "is_muted", "bq_callback", "bq_context",
                          "ring_head", "ring"} : qs[f] = ps[f]
    BY <2>1, MixedIs
  <2> HIDE DEF qs
  <2>4. /\ qs["in_use"] = ps["in_use"] /\ qs["bq_callback"] = ps["bq_callback"]
        /\ qs["bq_context"] = ps["bq_context"] /\ qs["ring_head"] = ps["ring_head"]
        /\ qs["ring"] = ps["ring"]
    BY <2>3
  <2>5. Same(ps, qs) /\ qs.ring_head = ps.ring_head /\ qs.ring = ps.ring
    BY <2>4 DEF Same
  <2>6. /\ Used(qs) = Used(ps) - n
        /\ qs.ring_tail % 2 = 0
        /\ \A i \in Index : Mod(i - qs.ring_tail) < Used(qs) =>
              Mod(i - ps.ring_tail) = Mod(i - qs.ring_tail) + n
    BY <2>1, <2>2, <2>3, <2>5, MixedUsed
  <2>7. ASSUME NEW i \in Index, Mod(i - qs.ring_tail) < Used(qs)
        PROVE  Mod(i - ps.ring_tail) < Used(ps)
    <3>1. Mod(i - qs.ring_tail) \in Index /\ Used(ps) \in Index
      BY <2>1, <2>3, DistanceIs, UsedIs DEF Player
    <3>2. Mod(i - qs.ring_tail) \in Int /\ Used(ps) \in Int /\ n \in Int
      BY <3>1, RingAssumption DEF Index
    <3> QED BY <2>6, <2>7, <3>2
  <2>8. SoundOf(p, qs, Heard)
    BY <2>2, <2>5, <2>7 DEF SoundOf
  <2>9. Same(g_players[p], g_players'[p])
    BY <2>1, <2>5 DEF ps
  <2> QED BY <2>1, <2>3, <2>6, <2>8, <2>9
<1>3. AudioTypeOK'
  <2>1. g_players' \in [Slots -> Player]
    BY <1>1, <1>2
  <2> QED BY <1>1, <2>1 DEF IInv, AudioTypeOK
<1>4. SlotsOwned' /\ MarkInv'
  <2>1. Pumper \in Threads
    BY AppAssumption
  <2> QED BY <1>1, <1>2, <2>1, QuietKeeps
<1>5. SoundInv'
  BY <1>1, <1>2 DEF SoundInv, Heard
<1> QED BY <1>3, <1>4, <1>5 DEF IInv

-----------------------------------------------------------------------------
(***************************************************************************)
(* All steps.                                                              *)
(***************************************************************************)

\* Whatever the application calls.
LEMMA AppKeeps ==
    ASSUME IInv, NEW t \in Threads, AppStep(t)
    PROVE  IInv'
<1>1. calls' = calls + 1
  BY DEF AppStep
<1>2. CASE Create(t)
  BY <1>1, <1>2, CreateKeeps
<1>3. CASE CreateNone(t) \/ CreateEngine(t)
  <2>1. /\ CanCall(t) /\ UNCHANGED <<g_players, appVars, thread, raced, nullCall>>
        /\ g_audio_device' \in BOOLEAN
    BY <1>3 DEF CreateNone, CreateEngine, OpenDevice, IInv, AudioTypeOK
  <2> QED BY <1>1, <2>1, AnswerKeeps
<1>4. CASE AskPlay(t) \/ AskVolume(t) \/ AskSeek(t) \/ AskObject(t)
  <2>1. /\ CanCall(t) /\ UNCHANGED <<g_players, appVars, thread, raced, nullCall>>
        /\ g_audio_device' \in BOOLEAN
    BY <1>4 DEF AskPlay, AskVolume, AskSeek, AskObject, playerVars, IInv, AudioTypeOK
  <2> QED BY <1>1, <2>1, AnswerKeeps
<1>5. ASSUME NEW h \in live, Destroy(t, h) PROVE IInv'
  BY <1>1, <1>5, DestroyKeeps
<1>6. ASSUME NEW h \in live, Register(t, h) PROVE IInv'
  BY <1>1, <1>6, RegisterKeeps
<1>7. ASSUME NEW h \in live, Clear(t, h) PROVE IInv'
  BY <1>1, <1>7, ClearKeeps
<1>8. ASSUME NEW h \in live, NEW n \in Sizes, Enqueue(t, h, n) PROVE IInv'
  BY <1>1, <1>8, EnqueueKeeps
<1>9. ASSUME NEW h \in live, NEW b \in BOOLEAN, SetPlayState(t, h, b) PROVE IInv'
  BY <1>1, <1>9, SetPlayStateKeeps
<1>10. ASSUME NEW h \in live, NEW b \in BOOLEAN, SetMute(t, h, b) PROVE IInv'
  BY <1>1, <1>10, SetMuteKeeps
<1> QED BY <1>2, <1>3, <1>4, <1>5, <1>6, <1>7, <1>8, <1>9, <1>10 DEF AppStep

\* Whatever a thread goes on with.
LEMMA InsideKeeps ==
    ASSUME IInv, NEW t \in Threads, InsideStep(t)
    PROVE  IInv'
<1>1. calls' = calls
  BY DEF InsideStep
<1>2. CASE RegisterContext(t)
  BY <1>1, <1>2, RegisterContextKeeps
<1>3. CASE Scan(t)
  BY <1>1, <1>3, ScanKeeps
<1>4. CASE Call(t)
  BY <1>1, <1>4, CallKeeps
<1>5. ASSUME NEW n \in Sizes \cup {0}, Return(t, n) PROVE IInv'
  BY <1>1, <1>5, ReturnKeeps
<1> QED BY <1>2, <1>3, <1>4, <1>5 DEF InsideStep

\* Nothing happens.
LEMMA StutterKeeps ==
    ASSUME IInv, UNCHANGED vars
    PROVE  IInv'
<1>1. UNCHANGED <<g_players, g_audio_device, live, overtaken, made, calls, thread, raced,
                  nullCall>>
  BY DEF vars, playerVars, appVars
<1>2. AudioTypeOK'
  BY <1>1 DEF IInv, AudioTypeOK
<1>3. SoundInv' /\ \A r \in Slots : Same(g_players[r], g_players'[r])
  <2>1. \A r \in Slots : Same(g_players[r], g_players'[r])
    BY <1>1 DEF Same
  <2> QED BY <1>1, <2>1, RingsStay
<1>4. SlotsOwned' /\ MarkInv'
  <2>1. Pumper \in Threads
    BY AppAssumption
  <2> QED BY <1>1, <1>3, <2>1, QuietKeeps
<1> QED BY <1>2, <1>3, <1>4 DEF IInv

\* The invariant is inductive.
LEMMA StepKeeps ==
    ASSUME IInv, [Next]_vars
    PROVE  IInv'
BY AppKeeps, InsideKeeps, PumpKeeps, MixKeeps, StutterKeeps DEF Next

\* The inductive invariant: types, the owners of slots, that callbacks and sound are
\* theirs, and even tails (opensles_shim.c).
THEOREM Invariance == Spec => []IInv
<1>1. IInv /\ [Next]_vars => IInv'
  BY StepKeeps
<1> QED BY InitHolds, <1>1, PTL DEF Spec

\* The table, the indices of the rings and the state of the threads keep their types.
THEOREM TypeCorrect == Spec => []AudioTypeOK
<1>1. IInv => AudioTypeOK
  BY DEF IInv
<1> QED BY <1>1, Invariance, PTL

\* A slot in use belongs to one player the application has, a free one to none.
THEOREM OwnersAreUnique == Spec => []SlotsOwned
<1>1. IInv => SlotsOwned
  BY DEF IInv
<1> QED BY <1>1, Invariance, PTL

\* The owner of a slot is the one that has it.
LEMMA OwnerIs ==
    ASSUME AudioTypeOK, SlotsOwned, NEW p \in Slots, NEW c, <<p, c>> \in live
    PROVE  g_players[p].in_use /\ Owner(p)[2] = c
<1>1. g_players[p].in_use
  <2>1. \E h \in live : h[1] = p
    <3>1. <<p, c>>[1] = p
      OBVIOUS
    <3> QED BY <3>1
  <2> QED BY <2>1 DEF SlotsOwned
<1>2. \A h \in live : h[1] = p <=> h = <<p, c>>
  <2>1. <<p, c>>[1] = p
    OBVIOUS
  <2>2. \A h, k \in live : h[1] = p /\ k[1] = p => h = k
    BY DEF SlotsOwned
  <2> QED BY <2>1, <2>2
<1>3. Owner(p) = <<p, c>>
  BY <1>2 DEF Owner
<1> QED BY <1>1, <1>3

\* A NULL callback is called only after a player was destroyed between the test and the
\* call; the context a callback gets is of the player of the slot or of one destroyed
\* while somebody was at work there; and both are the owner's, unless two threads raced
\* for the slot.
THEOREM CallbacksReachOwner == Spec => []CallbackOwned
<1>1. IInv => CallbackOwned
  <2> SUFFICES ASSUME IInv PROVE CallbackOwned
    OBVIOUS
  <2>1. nullCall => overtaken # {}
    BY DEF IInv, MarkInv
  <2>2. ASSUME NEW t \in Threads, NEW p, p = thread[t].slot, thread[t].at = "callback"
        PROVE  /\ Mine(p, thread[t].ctx)
               /\ p \notin raced => /\ g_players[p].in_use
                                    /\ thread[t].cb = Owner(p)[2] /\ thread[t].ctx = Owner(p)[2]
    <3>1. p \in Slots /\ At(t, p, {"callback"}) /\ At(t, p, {"callback", "register"})
      BY <2>2 DEF IInv, AudioTypeOK, At
    <3>2. Mine(p, thread[t].ctx)
      BY <3>1 DEF IInv, MarkInv, HeardOf
    <3>3. p \notin raced => thread[t].ctx = thread[t].cb /\ <<p, thread[t].cb>> \in live
      BY <3>1 DEF IInv, MarkInv, MarkOf
    <3> QED BY <3>1, <3>2, <3>3, OwnerIs DEF IInv
  <2> QED BY <2>1, <2>2 DEF CallbackOwned, Mine
<1> QED BY <1>1, Invariance, PTL

\* In every slot, also one that threads raced for: a byte in the ring is of the player
\* that has the slot, or of one destroyed while another thread was at work for it.
THEOREM SoundStaysHome == Spec => []SoundBelongs
<1>1. IInv => SoundBelongs
  <2> SUFFICES ASSUME IInv, NEW p \in Slots, NEW k \in 1 .. Used(g_players[p])
               PROVE  \/ g_players[p].in_use /\ Content(p)[k].of = Owner(p)[2]
                      \/ <<p, Content(p)[k].of>> \in overtaken
    BY DEF SoundBelongs
  <2> DEFINE ps == g_players[p]
             i == Mod(ps.ring_tail + k - 1)
  <2>1. /\ ps \in Player /\ ps.ring_tail \in Index /\ Used(ps) \in Index /\ k \in Int
        /\ 1 <= k /\ k <= Used(ps)
    <3>1. ps \in Player
      BY DEF IInv, AudioTypeOK
    <3>2. Used(ps) \in Index
      BY <3>1, UsedIs
    <3>3. Used(ps) \in Int
      BY <3>2, RingAssumption DEF Index
    <3> QED BY <3>1, <3>2, <3>3 DEF Player
  <2> HIDE DEF ps
  <2>2. i \in Index /\ Mod(i - ps.ring_tail) = k - 1
    <3>1. k - 1 < RING_BUFFER_SIZE
      BY <2>1, RingAssumption DEF Index
    <3> QED BY <2>1, <3>1, PlaceIs
  <2>3. k - 1 < Used(ps)
    BY <2>1, RingAssumption DEF Index
  <2>4. Content(p)[k] = ps.ring[i]
    BY DEF Content, ps
  <2> HIDE DEF i
  <2>5. <<p, ps.ring[i].of>> \in Heard
    BY <2>2, <2>3 DEF IInv, SoundInv, SoundOf, ps
  <2> QED BY <2>4, <2>5, OwnerIs DEF IInv, Heard
<1> QED BY <1>1, Invariance, PTL

-----------------------------------------------------------------------------
(***************************************************************************)
(* The ring as a queue.                                                    *)
(***************************************************************************)

Kept(ps, qs) ==
    qs.ring_head = ps.ring_head /\ qs.ring_tail = ps.ring_tail /\ qs.ring = ps.ring
Emptied(qs) == qs.ring_head = 0 /\ qs.ring_tail = 0
Filled(ps, qs) == \E c \in 1 .. MaxMade : \E n \in Sizes : qs = Write(ps, Buffer(c, n))

\* All that a step can do to a ring.
RingChange(ps, qs) == Kept(ps, qs) \/ Emptied(qs) \/ Filled(ps, qs) \/ qs = Mixed(ps)

\* One player changes, and its ring so.
LEMMA OneRing ==
    ASSUME AudioTypeOK, NEW p \in Slots, NEW qs,
           g_players' = [g_players EXCEPT ![p] = qs], RingChange(g_players[p], qs),
           NEW r \in Slots
    PROVE  RingChange(g_players[r], g_players'[r])
<1>1. g_players'[p] = qs /\ (r # p => g_players'[r] = g_players[r])
  BY DEF AudioTypeOK
<1>2. CASE r = p
  BY <1>1, <1>2
<1>3. CASE r # p
  BY <1>1, <1>3 DEF RingChange, Kept
<1> QED BY <1>2, <1>3

\* Every step empties a ring, fills it, mixes from it or leaves it alone.
LEMMA RingSteps ==
    ASSUME IInv, [Next]_vars, NEW r \in Slots
    PROVE  RingChange(g_players[r], g_players'[r])
<1>0. AudioTypeOK /\ g_players \in [Slots -> Player]
  BY DEF IInv, AudioTypeOK
<1>1. ASSUME g_players' = g_players PROVE RingChange(g_players[r], g_players'[r])
  BY <1>1 DEF RingChange, Kept
<1>2. ASSUME NEW t \in Threads, Create(t) PROVE RingChange(g_players[r], g_players'[r])
  <2>1. PICK p \in FreeSlots : g_players' = [g_players EXCEPT ![p] = [Blank EXCEPT !.in_use = TRUE]]
    BY <1>2 DEF Create
  <2>2. p \in Slots /\ RingChange(g_players[p], [Blank EXCEPT !.in_use = TRUE])
    BY BlankIs DEF FreeSlots, RingChange, Emptied
  <2> QED BY <1>0, <2>1, <2>2, OneRing
<1>3. ASSUME NEW t \in Threads, NEW h \in live, Destroy(t, h)
      PROVE  RingChange(g_players[r], g_players'[r])
  <2>1. g_players' = [g_players EXCEPT ![h[1]] = Destroyed(g_players[h[1]])] /\ h[1] \in Slots
    BY <1>0, <1>3, LiveIs DEF Destroy
  <2>2. RingChange(g_players[h[1]], Destroyed(g_players[h[1]]))
    BY <1>0, <2>1, DestroyedIs DEF RingChange, Emptied
  <2> QED BY <1>0, <2>1, <2>2, OneRing
<1>4. ASSUME NEW t \in Threads, NEW h \in live, Clear(t, h)
      PROVE  RingChange(g_players[r], g_players'[r])
  <2> DEFINE p == h[1]
             qs == [g_players[p] EXCEPT !.ring_head = 0, !.ring_tail = 0]
  <2>1. p \in Slots /\ g_players[p] \in Player
    BY <1>0, LiveIs
  <2>2. g_players' = [g_players EXCEPT ![p].ring_head = 0, ![p].ring_tail = 0]
    BY <1>4 DEF Clear
  <2>3. g_players' = [g_players EXCEPT ![p] = qs]
    BY <1>0, <2>1, <2>2 DEF Player
  <2>4. RingChange(g_players[p], qs)
    BY <2>1 DEF RingChange, Emptied, Player
  <2> QED BY <1>0, <2>1, <2>3, <2>4, OneRing
<1>5. ASSUME NEW p \in Slots, NEW c \in 1 .. MaxMade, NEW n \in Sizes,
             g_players' = [g_players EXCEPT ![p] = Write(@, Buffer(c, n))]
      PROVE  RingChange(g_players[r], g_players'[r])
  <2>1. g_players' = [g_players EXCEPT ![p] = Write(g_players[p], Buffer(c, n))]
    BY <1>5
  <2>2. RingChange(g_players[p], Write(g_players[p], Buffer(c, n)))
    BY DEF RingChange, Filled
  <2> QED BY <1>0, <2>1, <2>2, OneRing
<1>6. ASSUME NEW t \in Threads, NEW h \in live, NEW n \in Sizes, Enqueue(t, h, n)
      PROVE  RingChange(g_players[r], g_players'[r])
  <2>1. h[1] \in Slots /\ h[2] \in 1 .. MaxMade
    BY <1>0, LiveIs
  <2> QED BY <1>5, <1>6, <2>1 DEF Enqueue
<1>7. ASSUME NEW p \in Slots, NEW b,
             \/ g_players' = [g_players EXCEPT ![p].playing = b]
             \/ g_players' = [g_players EXCEPT ![p].is_muted = b]
             \/ g_players' = [g_players EXCEPT ![p].bq_callback = b]
             \/ g_players' = [g_players EXCEPT ![p].bq_context = b]
      PROVE  RingChange(g_players[r], g_players'[r])
  <2>1. Kept(g_players[r], g_players'[r])
    <3>1. CASE r # p
      BY <1>0, <1>7, <3>1 DEF Kept
    <3>2. CASE r = p
      <4> DEFINE ps == g_players[p]
      <4>1. ps \in Player
        BY <1>0
      <4>2. g_players'[p] \in {[ps EXCEPT !.playing = b], [ps EXCEPT !.is_muted = b],
                              [ps EXCEPT !.bq_callback = b], [ps EXCEPT !.bq_context = b]}
        BY <1>0, <1>7
      <4> HIDE DEF ps
      <4>3. Kept(ps, g_players'[p])
        BY <4>1, <4>2 DEF Kept, Player
      <4> QED BY <3>2, <4>3 DEF ps
    <3> QED BY <3>1, <3>2
  <2> QED BY <2>1 DEF RingChange
<1>8. ASSUME NEW t \in Threads, NEW h \in live, NEW b \in BOOLEAN,
             SetPlayState(t, h, b) \/ SetMute(t, h, b) \/ Register(t, h)
      PROVE  RingChange(g_players[r], g_players'[r])
  <2>1. h[1] \in Slots
    BY <1>0, LiveIs
  <2> QED BY <1>7, <1>8, <2>1 DEF SetPlayState, SetMute, Register
<1>9. ASSUME NEW t \in Threads, RegisterContext(t) PROVE RingChange(g_players[r], g_players'[r])
  <2>1. thread[t].slot \in Slots
    BY DEF IInv, AudioTypeOK
  <2> QED BY <1>7, <1>9, <2>1 DEF RegisterContext
<1>10. ASSUME NEW t \in Threads, NEW n \in Sizes \cup {0}, Return(t, n)
       PROVE  RingChange(g_players[r], g_players'[r])
  <2> DEFINE p == thread[t].slot
             c == thread[t].ctx
  <2>1. p \in Slots /\ c \in Contexts
    BY DEF IInv, AudioTypeOK
  <2>2. g_players' = IF n = 0 \/ c = None THEN g_players
                     ELSE [g_players EXCEPT ![p] = Write(@, Buffer(c, n))]
    BY <1>10 DEF Return
  <2> HIDE DEF p, c
  <2>3. CASE n = 0 \/ c = None
    BY <1>1, <2>2, <2>3
  <2>4. CASE ~(n = 0 \/ c = None)
    <3>1. n \in Sizes /\ c \in 1 .. MaxMade
      BY <2>1, <2>4 DEF Contexts
    <3> QED BY <1>5, <2>1, <2>2, <2>4, <3>1
  <2> QED BY <2>3, <2>4
<1>11. ASSUME Mix PROVE RingChange(g_players[r], g_players'[r])
  BY <1>11 DEF Mix, RingChange
<1>12. ASSUME NEW t \in Threads,
              CreateNone(t) \/ CreateEngine(t) \/ AskPlay(t) \/ AskVolume(t) \/ AskSeek(t) \/ AskObject(t)
                \/ Scan(t) \/ Call(t) \/ Pump \/ UNCHANGED vars
       PROVE  RingChange(g_players[r], g_players'[r])
  <2>1. g_players' = g_players
    BY <1>12 DEF CreateNone, CreateEngine, AskPlay, AskVolume, AskSeek, AskObject, Scan, Call, Pump, vars,
                 playerVars
  <2> QED BY <1>1, <2>1
<1>13. ASSUME NEW t \in Threads, AppStep(t) PROVE RingChange(g_players[r], g_players'[r])
  BY <1>2, <1>3, <1>4, <1>6, <1>8, <1>12, <1>13 DEF AppStep
<1>14. ASSUME NEW t \in Threads, InsideStep(t) PROVE RingChange(g_players[r], g_players'[r])
  BY <1>9, <1>10, <1>12, <1>14 DEF InsideStep
<1> QED BY <1>11, <1>12, <1>13, <1>14, AppAssumption DEF Next

\* Once the head of a ring is odd it stays so until the ring is emptied.
THEOREM CutStays == Spec => CutIsPermanent
<1> DEFINE Odd == \A p \in Slots :
                    g_players[p].ring_head % 2 = 1 /\ g_players'[p].ring_head % 2 = 0
                      => g_players'[p].ring_head = 0 /\ g_players'[p].ring_tail = 0
<1>1. ASSUME IInv, [Next]_vars PROVE Odd
  <2> SUFFICES ASSUME NEW p \in Slots, g_players[p].ring_head % 2 = 1,
                      g_players'[p].ring_head % 2 = 0
               PROVE  Emptied(g_players'[p])
    BY DEF Emptied
  <2> DEFINE ps == g_players[p]
             qs == g_players'[p]
  <2>1. ps \in Player /\ ps.ring_tail % 2 = 0 /\ RingChange(ps, qs)
    BY <1>1, RingSteps DEF IInv, AudioTypeOK, SoundInv
  <2>2. ps.ring_head % 2 = 1 /\ qs.ring_head % 2 # 1
    OBVIOUS
  <2> HIDE DEF ps, qs
  <2>3. ~Kept(ps, qs)
    BY <2>2 DEF Kept
  <2>4. ~Filled(ps, qs)
    <3> SUFFICES ASSUME NEW c \in 1 .. MaxMade, NEW n \in Sizes, qs = Write(ps, Buffer(c, n))
                 PROVE  FALSE
      BY DEF Filled
    <3>1. Buffer(c, n) \in Seq(Bytes) /\ Len(Buffer(c, n)) % 2 = 0
      BY BufferIs
    <3> QED BY <2>1, <2>2, <3>1, WriteOdd
  <2>5. qs # Mixed(ps)
    <3>1. Mixed(ps)["ring_head"] = ps["ring_head"]
      BY <2>1, MixedIs
    <3> QED BY <2>2, <3>1
  <2> QED BY <2>1, <2>3, <2>4, <2>5 DEF RingChange, qs
<1>2. IInv /\ [Next]_vars => [Odd]_vars
  BY <1>1
<1> QED BY <1>2, Invariance, PTL DEF Spec, CutIsPermanent

\* What a ring holds.
Held(ps) == [k \in 1 .. Used(ps) |-> ps.ring[Mod(ps.ring_tail + k - 1)]]

\* It holds as many bytes as are used, the k-th at distance k - 1 from the tail.
LEMMA HeldIs ==
    ASSUME NEW ps \in Player
    PROVE  /\ Held(ps) \in Seq(Bytes) /\ Len(Held(ps)) = Used(ps)
           /\ Used(ps) \in Nat /\ Used(ps) < RING_BUFFER_SIZE
           /\ \A k \in 1 .. Used(ps) :
                /\ Mod(ps.ring_tail + k - 1) \in Index
                /\ Mod(Mod(ps.ring_tail + k - 1) - ps.ring_tail) = k - 1
                /\ Held(ps)[k] = ps.ring[Mod(ps.ring_tail + k - 1)]
<1> DEFINE n == Used(ps)
<1>1. n \in Nat /\ n < RING_BUFFER_SIZE
  <2>1. n \in Index
    BY UsedIs
  <2> QED BY <2>1, RingAssumption DEF Index
<1>2. ASSUME NEW k \in 1 .. n
      PROVE  /\ Mod(ps.ring_tail + k - 1) \in Index
             /\ Mod(Mod(ps.ring_tail + k - 1) - ps.ring_tail) = k - 1
  <2>1. ps.ring_tail \in Index /\ k \in Int /\ 1 <= k /\ k - 1 < RING_BUFFER_SIZE
    BY <1>1, RingAssumption DEF Player
  <2> QED BY <2>1, PlaceIs
<1>3. Held(ps) \in [1 .. n -> Bytes]
  BY <1>2 DEF Held, Player
<1>4. Held(ps) \in Seq(Bytes)
  BY <1>1, <1>3, SeqDef
<1>5. Len(Held(ps)) = n
  <2> DEFINE l == Len(Held(ps))
  <2>1. l \in Nat /\ DOMAIN Held(ps) = 1 .. l
    BY <1>4, LenProperties
  <2>2. 1 .. l = 1 .. n
    BY <1>3, <2>1
  <2> HIDE DEF l, n
  <2>3. CASE l < n
    BY <1>1, <2>1, <2>2, <2>3
  <2>4. CASE n < l
    BY <1>1, <2>1, <2>2, <2>4
  <2>5. l = n
    BY <1>1, <2>1, <2>3, <2>4
  <2> QED BY <2>5 DEF l
<1>6. \A k \in 1 .. n : Held(ps)[k] = ps.ring[Mod(ps.ring_tail + k - 1)]
  BY DEF Held
<1> QED BY <1>1, <1>2, <1>4, <1>5, <1>6

\* Writing appends what fits.
LEMMA HeldWrite ==
    ASSUME NEW ps \in Player, NEW b \in Seq(Bytes), NEW qs, qs = Write(ps, b)
    PROVE  LET room == RING_BUFFER_SIZE - 1 - Used(ps)
           IN  Held(qs) = Held(ps) \o SubSeq(b, 1, IF Len(b) < room THEN Len(b) ELSE room)
<1> DEFINE w == Least(Len(b), Free(ps))
           c == SubSeq(b, 1, w)
           u == Used(ps)
<1>1. /\ Used(qs) = u + w
      /\ \A i \in Index : Mod(i - ps.ring_tail) < Used(qs) =>
           IF Mod(i - ps.ring_tail) < u
             THEN qs.ring[i] = ps.ring[i]
             ELSE qs.ring[i] = b[Mod(i - ps.ring_tail) - u + 1]
  BY WriteUsed
<1>2. qs \in Player /\ qs["ring_tail"] = ps["ring_tail"] /\ w \in 0 .. Len(b)
  BY WriteIs
<1>3. Len(b) \in Nat /\ u \in Nat /\ w \in Nat /\ b \in [1 .. Len(b) -> Bytes]
  BY <1>2, LenProperties, HeldIs
<1>4. c \in Seq(Bytes) /\ Len(c) = w /\ \A i \in 1 .. w : c[i] = b[i]
  <2>1. \A i \in 1 .. w : b[i] \in Bytes
    BY <1>2, <1>3
  <2>2. /\ c \in Seq(Bytes) /\ Len(c) = IF 1 <= w THEN w - 1 + 1 ELSE 0
        /\ \A i \in 1 .. w - 1 + 1 : c[i] = b[1 + i - 1]
    BY <1>3, <2>1, SubSeqProperties
  <2> HIDE DEF c, w
  <2>3. Len(c) = w
    BY <1>3, <2>2
  <2>4. ASSUME NEW i \in 1 .. w PROVE c[i] = b[i]
    <3>1. i \in 1 .. w - 1 + 1 /\ 1 + i - 1 = i
      BY <1>3
    <3> QED BY <2>2, <3>1
  <2> QED BY <2>2, <2>3, <2>4
<1> HIDE DEF w, c, u
<1>5. /\ Held(ps) \in Seq(Bytes) /\ Len(Held(ps)) = u
      /\ Held(qs) \in Seq(Bytes) /\ Len(Held(qs)) = u + w
  BY <1>1, <1>2, HeldIs DEF u
<1>6. /\ Held(ps) \o c \in Seq(Bytes) /\ Len(Held(ps) \o c) = u + w
      /\ \A k \in 1 .. u + w : (Held(ps) \o c)[k] = IF k <= u THEN Held(ps)[k] ELSE c[k - u]
  BY <1>4, <1>5, ConcatProperties
<1>7. ASSUME NEW k \in 1 .. u + w
      PROVE  Held(qs)[k] = (Held(ps) \o c)[k]
  <2> DEFINE i == Mod(ps.ring_tail + k - 1)
  <2>1. i \in Index /\ Mod(i - ps.ring_tail) = k - 1 /\ Held(qs)[k] = qs.ring[i]
    <3>1. k \in 1 .. Used(qs)
      BY <1>1
    <3>2. qs.ring_tail = ps.ring_tail
      BY <1>2
    <3>3. /\ Mod(qs.ring_tail + k - 1) \in Index
          /\ Mod(Mod(qs.ring_tail + k - 1) - qs.ring_tail) = k - 1
          /\ Held(qs)[k] = qs.ring[Mod(qs.ring_tail + k - 1)]
      BY <1>2, <3>1, HeldIs
    <3> QED BY <3>2, <3>3
  <2>2. k - 1 < Used(qs)
    BY <1>1, <1>3
  <2>3. CASE k <= u
    <3>1. k \in 1 .. u /\ k - 1 < u
      BY <1>3, <2>3
    <3>2. Held(ps)[k] = ps.ring[i]
      BY <3>1, HeldIs DEF u
    <3> HIDE DEF i
    <3>3. qs.ring[i] = ps.ring[i]
      BY <1>1, <2>1, <2>2, <3>1
    <3> QED BY <1>6, <2>1, <2>3, <3>2, <3>3
  <2>4. CASE ~(k <= u)
    <3>1. ~(k - 1 < u) /\ k - 1 - u + 1 = k - u /\ k - u \in 1 .. w
      BY <1>3, <2>4
    <3> HIDE DEF i
    <3>2. qs.ring[i] = b[k - u]
      BY <1>1, <2>1, <2>2, <3>1
    <3>3. c[k - u] = b[k - u]
      BY <1>4, <3>1
    <3> QED BY <1>6, <2>1, <2>4, <3>2, <3>3
  <2> QED BY <2>3, <2>4
<1>8. Held(qs) = Held(ps) \o c
  BY <1>5, <1>6, <1>7, SeqEqual
<1>9. w = IF Len(b) < RING_BUFFER_SIZE - 1 - u THEN Len(b) ELSE RING_BUFFER_SIZE - 1 - u
  BY UsedIs DEF w, u, Least
<1> QED BY <1>8, <1>9 DEF c, u

\* Mixing takes whole samples from the front.
LEMMA HeldMixed ==
    ASSUME NEW ps \in Player
    PROVE  \/ Held(Mixed(ps)) = Held(ps)
           \/ \E m \in 1 .. Len(Held(ps)) \div 2 :
                 Held(Mixed(ps)) = SubSeq(Held(ps), 2 * m + 1, Len(Held(ps)))
<1> DEFINE qs == Mixed(ps)
           u == Used(ps)
<1>1. PICK n \in 0 .. u :
        /\ n % 2 = 0 /\ qs \in Player /\ qs.ring_tail = Mod(ps.ring_tail + n)
        /\ \A f \in {"in_use", "playing", "is_muted", "bq_callback", "bq_context",
                     "ring_head", "ring"} : qs[f] = ps[f]
  BY MixedIs
<1> HIDE DEF qs
<1>2. qs.ring_head = ps.ring_head /\ qs.ring = ps.ring
  <2>1. qs["ring_head"] = ps["ring_head"] /\ qs["ring"] = ps["ring"]
    BY <1>1
  <2> QED BY <2>1
<1>3. /\ Used(qs) = u - n
      /\ \A i \in Index : Mod(i - qs.ring_tail) < Used(qs) =>
            Mod(i - ps.ring_tail) = Mod(i - qs.ring_tail) + n
  BY <1>1, <1>2, MixedUsed
<1>4. /\ u \in Nat /\ u < RING_BUFFER_SIZE /\ Held(ps) \in Seq(Bytes) /\ Len(Held(ps)) = u
      /\ Held(qs) \in Seq(Bytes) /\ Len(Held(qs)) = u - n /\ ps.ring_tail \in Index
      /\ Held(ps) \in [1 .. u -> Bytes]
  <2>1. /\ u \in Nat /\ u < RING_BUFFER_SIZE /\ Held(ps) \in Seq(Bytes) /\ Len(Held(ps)) = u
    BY HeldIs
  <2>2. Held(qs) \in Seq(Bytes) /\ Len(Held(qs)) = u - n
    BY <1>1, <1>3, HeldIs
  <2>3. Held(ps) \in [1 .. u -> Bytes]
    BY <2>1, LenProperties
  <2> QED BY <2>1, <2>2, <2>3 DEF Player
<1> HIDE DEF u
<1>5. ASSUME NEW k \in 1 .. u - n PROVE Held(qs)[k] = Held(ps)[n + k]
  <2> DEFINE i == Mod(qs.ring_tail + k - 1)
  <2>1. i \in Index /\ Mod(i - qs.ring_tail) = k - 1 /\ Held(qs)[k] = qs.ring[i]
    BY <1>1, <1>3, HeldIs
  <2>2. k - 1 < Used(qs) /\ n + k \in 1 .. u
    BY <1>3, <1>4
  <2> HIDE DEF i
  <2>3. Mod(i - ps.ring_tail) = n + k - 1
    BY <1>3, <1>4, <2>1, <2>2
  <2> DEFINE j == Mod(ps.ring_tail + (n + k) - 1)
  <2>4. j \in Index /\ Mod(j - ps.ring_tail) = n + k - 1 /\ Held(ps)[n + k] = ps.ring[j]
    BY <2>2, HeldIs DEF u
  <2> HIDE DEF j
  <2>5. i = j
    <3>1. /\ Mod(i - ps.ring_tail) = IF i >= ps.ring_tail THEN i - ps.ring_tail
                                     ELSE i - ps.ring_tail + RING_BUFFER_SIZE
          /\ Mod(j - ps.ring_tail) = IF j >= ps.ring_tail THEN j - ps.ring_tail
                                     ELSE j - ps.ring_tail + RING_BUFFER_SIZE
      BY <1>4, <2>1, <2>4, DistanceIs
    <3> DEFINE a == ps.ring_tail
               R == RING_BUFFER_SIZE
    <3>2. i \in 0 .. R - 1 /\ j \in 0 .. R - 1 /\ a \in 0 .. R - 1 /\ R \in Nat
      BY <1>4, <2>1, <2>4, RingAssumption DEF Index
    <3>3. (IF i >= a THEN i - a ELSE i - a + R) = (IF j >= a THEN j - a ELSE j - a + R)
      BY <2>3, <2>4, <3>1
    <3> HIDE DEF a, R
    <3> QED BY <3>2, <3>3
  <2> QED BY <1>2, <2>1, <2>4, <2>5
<1>6. CASE n = 0
  <2>1. \A k \in 1 .. u : Held(qs)[k] = Held(ps)[k]
    BY <1>4, <1>5, <1>6
  <2>2. Held(qs) = Held(ps)
    BY <1>4, <1>6, <2>1, SeqEqual
  <2> QED BY <2>2 DEF qs
<1>7. CASE n # 0
  <2>1. PICK m \in 1 .. u \div 2 : n = 2 * m
    <3>1. n \div 2 \in 1 .. u \div 2 /\ n = 2 * (n \div 2)
      BY <1>1, <1>4, <1>7
    <3> QED BY <3>1
  <2> DEFINE s == SubSeq(Held(ps), n + 1, u)
  <2>2. /\ s \in Seq(Bytes) /\ Len(s) = IF n + 1 <= u THEN u - (n + 1) + 1 ELSE 0
        /\ \A i \in 1 .. u - (n + 1) + 1 : s[i] = Held(ps)[n + 1 + i - 1]
    <3>1. n + 1 \in Int /\ u \in Int
      BY <1>1, <1>4
    <3>2. \A i \in n + 1 .. u : Held(ps)[i] \in Bytes
      BY <1>1, <1>4
    <3> QED BY <3>1, <3>2, SubSeqProperties
  <2> HIDE DEF s
  <2>3. Len(s) = u - n
    BY <1>1, <1>4, <2>2
  <2>4. ASSUME NEW k \in 1 .. u - n PROVE Held(qs)[k] = s[k]
    <3>1. k \in 1 .. u - (n + 1) + 1 /\ n + 1 + k - 1 = n + k
      BY <1>1, <1>4
    <3> QED BY <1>5, <2>2, <3>1
  <2>5. Held(qs) = s
    BY <1>4, <2>2, <2>3, <2>4, SeqEqual
  <2> QED BY <1>4, <2>1, <2>5 DEF s, qs
<1> QED BY <1>6, <1>7

\* The sound in a slot is what its ring holds.
LEMMA ContentIs ==
    ASSUME NEW p \in Slots
    PROVE  Content(p) = Held(g_players[p]) /\ Content(p)' = Held(g_players'[p])
BY DEF Content, Held

\* A ring whose ends are at the start holds nothing.
LEMMA EmptyHolds ==
    ASSUME NEW ps \in Player, Emptied(ps)
    PROVE  Held(ps) = <<>>
<1>1. Used(ps) = 0
  BY UsedIs, RingAssumption DEF Emptied
<1> QED BY <1>1, HeldIs, EmptySeq

\* What a step does to a ring is what a queue allows, or nothing at all.
LEMMA RingQueues ==
    ASSUME IInv, [Next]_vars, NEW p \in Slots
    PROVE  \/ /\ Fifo(p)!Next
              /\ Fifo(p)!Empty => Reset(p) \/ Drained(p)
           \/ Content(p)' = Content(p)
<1> DEFINE ps == g_players[p]
           qs == g_players'[p]
<1>1. ps \in Player /\ RingChange(ps, qs)
  BY RingSteps DEF IInv, AudioTypeOK
<1>2. Content(p) = Held(ps) /\ Content(p)' = Held(qs)
  BY ContentIs
<1>3. CASE Kept(ps, qs)
  <2>1. Held(qs) = Held(ps)
    BY <1>3 DEF Kept, Held, Used
  <2> QED BY <1>2, <2>1
<1>4. CASE Emptied(qs)
  <2>1. qs \in Player
    BY StepKeeps DEF IInv, AudioTypeOK
  <2>2. Content(p)' = <<>>
    BY <1>2, <1>4, <2>1, EmptyHolds
  <2>3. Fifo(p)!Next
    BY <2>2 DEF Fifo!Next, Fifo!Empty
  <2> QED BY <1>4, <2>3 DEF Emptied, Reset
<1>5. CASE Filled(ps, qs)
  <2>1. PICK c \in 1 .. MaxMade, n \in Sizes : qs = Write(ps, Buffer(c, n))
    BY <1>5 DEF Filled
  <2> DEFINE b == Buffer(c, n)
             room == RING_BUFFER_SIZE - 1 - Used(ps)
             cut == SubSeq(b, 1, IF Len(b) < room THEN Len(b) ELSE room)
  <2>2. b \in Seq(Bytes)
    BY BufferIs
  <2>3. Held(qs) = Held(ps) \o cut
    BY <1>1, <2>1, <2>2, HeldWrite
  <2>4. Len(Content(p)) = Used(ps)
    BY <1>1, <1>2, HeldIs
  <2>5. Fifo(p)!Room = room
    BY <2>4 DEF Fifo!Room
  <2>6. Fifo(p)!Accept(b)
    BY <1>2, <2>3, <2>5 DEF Fifo!Accept
  <2>7. Fifo(p)!Next
    BY <2>6 DEF Fifo!Next
  <2>8. ASSUME Content(p)' = <<>> PROVE Content(p)' = Content(p)
    <3>1. Held(ps) \in Seq(Bytes) /\ Held(qs) = <<>>
      BY <1>1, <1>2, <2>8, HeldIs
    <3>2. cut \in Seq(Bytes)
      <4>1. Len(b) \in Nat /\ room \in Int /\ \A i \in 1 .. Len(b) : b[i] \in Bytes
        <5>1. Len(b) \in Nat /\ \A i \in 1 .. Len(b) : b[i] \in Bytes
          BY <2>2, LenProperties, ElementOfSeq
        <5>2. Used(ps) \in Nat /\ RING_BUFFER_SIZE \in Nat
          BY <1>1, HeldIs, RingAssumption
        <5> QED BY <5>1, <5>2
      <4> DEFINE l == IF Len(b) < room THEN Len(b) ELSE room
      <4>2. l \in Int /\ \A i \in 1 .. l : b[i] \in Bytes
        BY <4>1
      <4> HIDE DEF b
      <4>3. SubSeq(b, 1, l) \in Seq(Bytes)
        BY <4>2, SubSeqProperties
      <4> QED BY <4>3
    <3> HIDE DEF cut
    <3>3. Held(ps) = <<>>
      <4> DEFINE s == Held(ps)
      <4> HIDE DEF s
      <4>1. s \in Seq(Bytes) /\ s \o cut = <<>>
        BY <2>3, <3>1 DEF s
      <4>2. Len(s) \in Nat /\ Len(cut) \in Nat
        BY <3>2, <4>1, LenProperties
      <4>3. Len(s) + Len(cut) = 0
        <5>1. Len(s \o cut) = Len(s) + Len(cut)
          BY <3>2, <4>1, ConcatProperties
        <5> QED BY <4>1, <5>1, EmptySeq
      <4>4. Len(s) = 0
        BY <4>2, <4>3
      <4> QED BY <4>1, <4>4, EmptySeq DEF s
    <3> QED BY <1>2, <3>1, <3>3
  <2> QED BY <2>7, <2>8 DEF Fifo!Empty
<1>6. CASE qs = Mixed(ps)
  <2>1. Mixed(ps)["ring_head"] = ps["ring_head"]
    BY <1>1, MixedIs
  <2>2. Drained(p)
    BY <1>6, <2>1 DEF Drained
  <2>3. CASE Held(qs) = Held(ps)
    BY <1>2, <2>3
  <2>4. CASE Held(qs) # Held(ps)
    <3>1. PICK m \in 1 .. Len(Held(ps)) \div 2 :
             Held(qs) = SubSeq(Held(ps), 2 * m + 1, Len(Held(ps)))
      BY <1>1, <1>6, <2>4, HeldMixed
    <3>2. Fifo(p)!Play(m)
      BY <1>2, <3>1 DEF Fifo!Play
    <3>3. Fifo(p)!Next
      BY <1>2, <3>1, <3>2 DEF Fifo!Next
    <3> QED BY <2>2, <3>3
  <2> QED BY <2>3, <2>4
<1> QED BY <1>1, <1>3, <1>4, <1>5, <1>6 DEF RingChange

\* The ring of each slot implements ByteFifo: what is enqueued comes out in order, in
\* whole samples, and only what bq_Enqueue cuts or a reset drops is lost.
THEOREM RingIsQueue == Spec => RingIsFifo
<1>1. Init => \A p \in Slots : Fifo(p)!Init
  <2> SUFFICES ASSUME Init, NEW p \in Slots PROVE Fifo(p)!Init
    OBVIOUS
  <2>1. g_players[p] = Blank /\ Blank \in Player /\ Emptied(Blank)
    BY BlankIs DEF Init, Emptied, Blank
  <2>2. Content(p) = <<>>
    BY <2>1, ContentIs, EmptyHolds
  <2> QED BY <2>2 DEF Fifo!Init
<1> DEFINE Queues == \A p \in Slots :
              \/ Fifo(p)!Next /\ (Fifo(p)!Empty => Reset(p) \/ Drained(p))
              \/ Content(p)' = Content(p)
<1>2. IInv /\ [Next]_vars => [Queues]_vars
  BY RingQueues
<1> QED BY <1>1, <1>2, Invariance, PTL DEF Spec, RingIsFifo
=============================================================================
