----------------------------- MODULE ConsoleProofs -----------------------------
(***************************************************************************)
(* Theorems about Console.                                                 *)
(***************************************************************************)
EXTENDS Console, EditorProofs, SequenceTheorems

(***************************************************************************)
(* The bytes on their way.  What is said of them is said of any queue f,   *)
(* keys held h, keys D that the driver has down, and sets of presses and   *)
(* keys, so that it can be said of a state and of the next.                *)
(***************************************************************************)
Bytes(n) == [key : Keys, up : BOOLEAN, press : 1 .. n]

(* A queue of prefixes and of bytes of n presses.                          *)
Queues(n) == Seq({Prefix} \cup Bytes(n))

(* A press has one key; the bytes of a key come in the order of its        *)
(* presses, and the release is the last of its press; of a press that was  *)
(* not released behind it the key is held.                                 *)
Ordered(f, h) ==
    /\ \A i, j \in DOMAIN f : f[i] # Prefix /\ f[j] # Prefix =>
           /\ f[i].press = f[j].press => f[i].key = f[j].key
           /\ i < j /\ f[i].key = f[j].key =>
                  f[i].press <= f[j].press /\ (f[i].up => f[i].press < f[j].press)
    /\ \A i \in DOMAIN f : f[i] # Prefix =>
           /\ h[f[i].key] # NotHeld =>
                  f[i].press <= h[f[i].key] /\ (f[i].up => f[i].press < h[f[i].key])
           /\ \A k \in Keys : h[k] = f[i].press => k = f[i].key
           /\ ~f[i].up =>
                  \/ h[f[i].key] = f[i].press
                  \/ \E j \in DOMAIN f : j > i /\ f[j] = Byte(f[i].key, TRUE, f[i].press)
    /\ \A k, l \in Keys : h[k] = h[l] /\ h[k] # NotHeld => k = l

(* A press that was acted on and not forgotten, and may come again, has its*)
(* key down.                                                               *)
KnownIsDown(f, h, D, A, G) ==
    /\ \A i \in DOMAIN f : f[i] # Prefix /\ ~f[i].up /\ f[i].press \in A \ G => f[i].key \in D
    /\ \A k \in Keys : h[k] \in A \ G => k \in D

(* A key that is down, and of which no release was swallowed, is down for  *)
(* a press that was acted on and whose release is still to come.           *)
DownIsKnown(f, h, D, A, S) ==
    \A k \in D \ S : \E q \in A : h[k] = q \/ \E i \in DOMAIN f : f[i] = Byte(k, TRUE, q)

(* No press is acted on before the ones of its key that are still to come. *)
InTurn(f, h, A) ==
    \A i \in DOMAIN f : f[i] # Prefix =>
        /\ \A j \in DOMAIN f : /\ i < j /\ f[j] # Prefix
                               /\ f[i].key = f[j].key /\ f[i].press < f[j].press
                               => f[j].press \notin A
        /\ f[i].press < h[f[i].key] => h[f[i].key] \notin A

Known(f, h, D, A, G, S) ==
    Ordered(f, h) /\ KnownIsDown(f, h, D, A, G) /\ DownIsKnown(f, h, D, A, S) /\ InTurn(f, h, A)

(***************************************************************************)
(* Reading takes bytes off the front.                                      *)
(***************************************************************************)
Drops(f, m, g) == g = SubSeq(f, m + 1, Len(f))

LEMMA Rest ==
    ASSUME NEW n \in Nat, NEW f \in Queues(n), NEW m \in 0 .. Len(f),
           NEW g, Drops(f, m, g)
    PROVE  /\ g \in Queues(n)
           /\ DOMAIN g = 1 .. Len(f) - m /\ Len(g) = Len(f) - m
           /\ \A i \in DOMAIN g : i + m \in DOMAIN f /\ g[i] = f[i + m]
           /\ \A j \in DOMAIN f : j > m => j - m \in DOMAIN g /\ f[j] = g[j - m]
<1>1. f \in Seq({Prefix} \cup Bytes(n)) /\ Len(f) \in Nat /\ DOMAIN f = 1 .. Len(f)
  BY DEF Queues
<1> DEFINE S == {Prefix} \cup Bytes(n)
           L == Len(f)
<1>2. \A i \in m + 1 .. L : f[i] \in S
  BY <1>1
<1>0. L \in Nat /\ m \in Nat /\ m <= L /\ g = SubSeq(f, m + 1, L) /\ m + 1 \in Int /\ L \in Int
  BY <1>1 DEF Drops
<1>3. /\ g \in Seq(S) /\ Len(g) = IF m + 1 <= L THEN L - (m + 1) + 1 ELSE 0
      /\ \A i \in 1 .. L - (m + 1) + 1 : g[i] = f[(m + 1) + i - 1]
  <2> DEFINE from == m + 1
  <2>1. from \in Int /\ L \in Int /\ g = SubSeq(f, from, L) /\ \A i \in from .. L : f[i] \in S
    BY <1>0, <1>2
  <2> HIDE DEF from, L, S
  <2>2. /\ g \in Seq(S) /\ Len(g) = IF from <= L THEN L - from + 1 ELSE 0
        /\ \A i \in 1 .. L - from + 1 : g[i] = f[from + i - 1]
    BY <2>1, SubSeqProperties
  <2> QED
    BY <2>2 DEF from
<1> HIDE DEF S, L
<1>4. Len(g) = L - m /\ DOMAIN g = 1 .. L - m
  <2>1. Len(g) = L - m
    BY <1>0, <1>3
  <2> QED
    BY <1>3, <2>1
<1>5. \A i \in DOMAIN g : i + m \in DOMAIN f /\ g[i] = f[i + m]
  <2> SUFFICES ASSUME NEW i \in DOMAIN g
               PROVE  i + m \in DOMAIN f /\ g[i] = f[i + m]
    OBVIOUS
  <2>1. i \in 1 .. L - (m + 1) + 1 /\ (m + 1) + i - 1 = i + m /\ i + m \in 1 .. L
    BY <1>0, <1>4
  <2> QED
    BY <1>1, <1>3, <2>1 DEF L
<1>6. \A j \in DOMAIN f : j > m => j - m \in DOMAIN g /\ f[j] = g[j - m]
  <2> SUFFICES ASSUME NEW j \in DOMAIN f, j > m
               PROVE  j - m \in DOMAIN g /\ f[j] = g[j - m]
    OBVIOUS
  <2>1. j - m \in 1 .. L - m /\ (j - m) + m = j
    BY <1>1 DEF L
  <2> QED
    BY <1>4, <1>5, <2>1
<1> QED
  BY <1>3, <1>4, <1>5, <1>6 DEF Queues, S, L

LEMMA RestIsOrdered ==
    ASSUME NEW n \in Nat, NEW f \in Queues(n), NEW m \in 0 .. Len(f),
           NEW g, Drops(f, m, g), NEW h, Ordered(f, h)
    PROVE  Ordered(g, h)
<1>1. /\ \A i \in DOMAIN g : i + m \in DOMAIN f /\ g[i] = f[i + m] /\ i \in Int
      /\ \A j \in DOMAIN f : j > m => j - m \in DOMAIN g /\ f[j] = g[j - m]
      /\ \A j \in DOMAIN f : j \in Int
  <2>1. DOMAIN g = 1 .. Len(f) - m /\ DOMAIN f = 1 .. Len(f)
    BY Rest DEF Queues
  <2>2. \A i \in DOMAIN g : i \in Int
    BY <2>1
  <2>3. \A i \in DOMAIN f : i \in Int
    BY <2>1
  <2> QED
    BY <2>2, <2>3, Rest
<1>2. ASSUME NEW i \in DOMAIN g, NEW j \in DOMAIN g, g[i] # Prefix, g[j] # Prefix
      PROVE  /\ g[i].press = g[j].press => g[i].key = g[j].key
             /\ i < j /\ g[i].key = g[j].key =>
                    g[i].press <= g[j].press /\ (g[i].up => g[i].press < g[j].press)
  <2>1. i < j => i + m < j + m
    BY <1>1
  <2> QED
    BY <1>1, <1>2, <2>1 DEF Ordered
<1>3. ASSUME NEW i \in DOMAIN g, g[i] # Prefix
      PROVE  /\ h[g[i].key] # NotHeld =>
                    g[i].press <= h[g[i].key] /\ (g[i].up => g[i].press < h[g[i].key])
             /\ \A k \in Keys : h[k] = g[i].press => k = g[i].key
  <2>1. i + m \in DOMAIN f /\ f[i + m] # Prefix /\ g[i] = f[i + m]
    BY <1>1, <1>3
  <2> DEFINE b == f[i + m]
  <2>2. /\ h[b.key] # NotHeld => b.press <= h[b.key] /\ (b.up => b.press < h[b.key])
        /\ \A k \in Keys : h[k] = b.press => k = b.key
    BY <2>1, Zenon DEF Ordered
  <2> QED
    BY <2>1, <2>2
<1>4. ASSUME NEW i \in DOMAIN g, g[i] # Prefix, ~g[i].up, h[g[i].key] # g[i].press
      PROVE  \E j \in DOMAIN g : j > i /\ g[j] = Byte(g[i].key, TRUE, g[i].press)
  <2>1. PICK j \in DOMAIN f : j > i + m /\ f[j] = Byte(f[i + m].key, TRUE, f[i + m].press)
    BY <1>1, <1>4, Zenon DEF Ordered
  <2>2. j > m /\ j - m > i
    BY <1>1, <2>1, Rest
  <2> QED
    BY <1>1, <2>1, <2>2
<1>5. \A k, l \in Keys : h[k] = h[l] /\ h[k] # NotHeld => k = l
  BY DEF Ordered
<1> QED
  BY <1>2, <1>3, <1>4, <1>5, Zenon DEF Ordered

(* What is known of a byte b that is read, the first that is no prefix, and*)
(* of what is left.                                                        *)
Reading(f, m, b, g) ==
    /\ m \in 1 .. Len(f) /\ b = f[m] /\ b # Prefix
    /\ \A i \in 1 .. m - 1 : f[i] = Prefix
    /\ Drops(f, m, g)

\* What is left behind b.
Left(n, b, g, h, D, A, G, S) ==
    /\ b \in Bytes(n) /\ g \in Queues(n) /\ h \in [Keys -> 0 .. n] /\ A \in SUBSET (1 .. n)
    /\ \A i \in DOMAIN g : g[i] # Prefix =>
           /\ g[i] \in Bytes(n)
           /\ g[i].press = b.press => g[i].key = b.key
           /\ g[i].key = b.key => b.press <= g[i].press /\ (b.up => b.press < g[i].press)
           /\ g[i].key = b.key /\ b.press < g[i].press => g[i].press \notin A
    /\ h[b.key] # NotHeld => b.press <= h[b.key] /\ (b.up => b.press < h[b.key])
    /\ b.press < h[b.key] => h[b.key] \notin A
    /\ \A k \in Keys : h[k] = b.press => k = b.key
    /\ ~b.up => \/ h[b.key] = b.press
                \/ \E j \in DOMAIN g : g[j] = Byte(b.key, TRUE, b.press)
    /\ ~b.up /\ b.press \in A \ G => b.key \in D
    /\ Ordered(g, h) /\ InTurn(g, h, A) /\ KnownIsDown(g, h, D, A, G)
    /\ \A k \in D \ S : b.key # k \/ ~b.up =>
           \E q \in A : h[k] = q \/ \E i \in DOMAIN g : g[i] = Byte(k, TRUE, q)

LEMMA ReadLeaves ==
    ASSUME NEW n \in Nat, NEW f \in Queues(n), NEW h \in [Keys -> 0 .. n],
           NEW m, NEW b, NEW g, Reading(f, m, b, g),
           NEW D, NEW A \in SUBSET (1 .. n), NEW G, NEW S, Known(f, h, D, A, G, S)
    PROVE  Left(n, b, g, h, D, A, G, S)
<1>1. f \in Seq({Prefix} \cup Bytes(n)) /\ Len(f) \in Nat /\ DOMAIN f = 1 .. Len(f)
  BY DEF Queues
<1>2. m \in DOMAIN f /\ m \in 0 .. Len(f) /\ b = f[m] /\ b \in Bytes(n) /\ b # Prefix
  BY <1>1 DEF Reading
<1>3. /\ g \in Queues(n)
      /\ \A i \in DOMAIN g : i + m \in DOMAIN f /\ g[i] = f[i + m] /\ m < i + m
      /\ \A j \in DOMAIN f : j > m => j - m \in DOMAIN g /\ f[j] = g[j - m]
      /\ \A i, j \in DOMAIN g : i < j => i + m < j + m
  <2>0. Drops(f, m, g)
    BY DEF Reading
  <2>1. /\ g \in Queues(n) /\ DOMAIN g = 1 .. Len(f) - m
        /\ \A i \in DOMAIN g : i + m \in DOMAIN f /\ g[i] = f[i + m]
        /\ \A j \in DOMAIN f : j > m => j - m \in DOMAIN g /\ f[j] = g[j - m]
    BY <1>2, <2>0, Rest
  <2>2. \A i \in DOMAIN g : i \in Nat /\ i > 0
    BY <2>1
  <2> QED
    BY <1>2, <2>1, <2>2
<1>4. \A j \in DOMAIN f : f[j] # Prefix /\ j # m => j > m
  BY <1>1, <1>2 DEF Reading
<1>5. \A i \in DOMAIN g : g[i] # Prefix => g[i] \in Bytes(n)
  BY <1>1, <1>3
<1>6. Ordered(f, h) /\ KnownIsDown(f, h, D, A, G) /\ DownIsKnown(f, h, D, A, S) /\ InTurn(f, h, A)
  BY DEF Known
<1>7. ASSUME NEW i \in DOMAIN g, g[i] # Prefix
      PROVE  /\ g[i].press = b.press => g[i].key = b.key
             /\ g[i].key = b.key => b.press <= g[i].press /\ (b.up => b.press < g[i].press)
             /\ g[i].key = b.key /\ b.press < g[i].press => g[i].press \notin A
  <2>1. i + m \in DOMAIN f /\ g[i] = f[i + m] /\ m < i + m /\ f[i + m] # Prefix
    BY <1>3, <1>7
  <2>2. /\ f[m].press = f[i + m].press => f[m].key = f[i + m].key
        /\ f[m].key = f[i + m].key =>
               f[m].press <= f[i + m].press /\ (f[m].up => f[m].press < f[i + m].press)
    BY <1>2, <1>6, <2>1, Zenon DEF Ordered
  <2>3. f[m].key = f[i + m].key /\ f[m].press < f[i + m].press => f[i + m].press \notin A
    BY <1>2, <1>6, <2>1, Zenon DEF InTurn
  <2> QED
    BY <1>2, <2>1, <2>2, <2>3
<1>8. /\ h[b.key] # NotHeld => b.press <= h[b.key] /\ (b.up => b.press < h[b.key])
      /\ \A k \in Keys : h[k] = b.press => k = b.key
  BY <1>2, <1>6, Zenon DEF Ordered
<1>9. b.press < h[b.key] => h[b.key] \notin A
  BY <1>2, <1>6, Zenon DEF InTurn
<1>10. ASSUME ~b.up, h[b.key] # b.press
       PROVE  \E j \in DOMAIN g : g[j] = Byte(b.key, TRUE, b.press)
  <2>1. PICK j \in DOMAIN f : j > m /\ f[j] = Byte(b.key, TRUE, b.press)
    BY <1>2, <1>6, <1>10, Zenon DEF Ordered
  <2> QED
    BY <1>3, <2>1
<1>11. ~b.up /\ b.press \in A \ G => b.key \in D
  BY <1>2, <1>6, Zenon DEF KnownIsDown
<1>12. Ordered(g, h)
  <2>1. Drops(f, m, g)
    BY DEF Reading
  <2> QED
    BY <1>2, <1>6, <2>1, RestIsOrdered
<1>13. InTurn(g, h, A)
  <2>1. ASSUME NEW i \in DOMAIN g, NEW j \in DOMAIN g, i < j, g[i] # Prefix, g[j] # Prefix,
               g[i].key = g[j].key, g[i].press < g[j].press
        PROVE  g[j].press \notin A
    <3>1. /\ i + m \in DOMAIN f /\ g[i] = f[i + m] /\ j + m \in DOMAIN f /\ g[j] = f[j + m]
          /\ i + m < j + m
      BY <1>3, <2>1
    <3> QED
      BY <1>6, <2>1, <3>1, Zenon DEF InTurn
  <2>2. ASSUME NEW i \in DOMAIN g, g[i] # Prefix, g[i].press < h[g[i].key]
        PROVE  h[g[i].key] \notin A
    BY <1>3, <1>6, <2>2, Zenon DEF InTurn
  <2> QED
    BY <2>1, <2>2, Zenon DEF InTurn
<1>14. KnownIsDown(g, h, D, A, G)
  BY <1>3, <1>6, Zenon DEF KnownIsDown
<1>15. ASSUME NEW k \in D \ S, b.key # k \/ ~b.up
       PROVE  \E q \in A : h[k] = q \/ \E i \in DOMAIN g : g[i] = Byte(k, TRUE, q)
  <2>1. PICK q \in A : h[k] = q \/ \E i \in DOMAIN f : f[i] = Byte(k, TRUE, q)
    BY <1>6, Zenon DEF DownIsKnown
  <2>2. CASE h[k] = q
    BY <2>2
  <2>3. ASSUME NEW i \in DOMAIN f, f[i] = Byte(k, TRUE, q)
        PROVE  \E j \in DOMAIN g : g[j] = Byte(k, TRUE, q)
    <3>1. f[i] # Prefix /\ i # m
      BY <1>2, <1>15, <2>3 DEF Byte, Prefix
    <3> QED
      BY <1>3, <1>4, <2>3, <3>1
  <2> QED
    BY <2>1, <2>2, <2>3
<1> QED
  BY <1>2, <1>3, <1>5, <1>7, <1>8, <1>9, <1>10, <1>11, <1>12, <1>13, <1>14, <1>15 DEF Left

(* A press that is read for the first time is not taken for a repeat.      *)
LEMMA NewPressIsUp ==
    ASSUME NEW n \in Nat, NEW b, NEW g, NEW h, NEW D, NEW A, NEW G, NEW S,
           Left(n, b, g, h, D, A, G, S),
           ~b.up, b.press \notin A, b.key \in D
    PROVE  b.key \in S
<1>1. SUFFICES ASSUME b.key \in D \ S
               PROVE  FALSE
  OBVIOUS
<1>2. b \in Bytes(n) /\ b.press \in 1 .. n /\ g \in Queues(n) /\ h[b.key] \in 0 .. n
  BY DEF Left, Bytes
<1>3. PICK q \in A : h[b.key] = q \/ \E i \in DOMAIN g : g[i] = Byte(b.key, TRUE, q)
  BY <1>1 DEF Left
<1>4. q \in 1 .. n /\ q # b.press
  BY <1>3 DEF Left
<1>5. CASE h[b.key] = q
  <2>1. b.press <= h[b.key]
    BY <1>4, <1>5 DEF Left, NotHeld
  <2>2. b.press < h[b.key]
    BY <1>2, <1>4, <1>5, <2>1
  <2> QED
    BY <1>3, <1>5, <2>2 DEF Left
<1>6. ASSUME NEW i \in DOMAIN g, g[i] = Byte(b.key, TRUE, q)
      PROVE  FALSE
  <2>1. g[i] # Prefix /\ g[i].key = b.key /\ g[i].press = q
    BY <1>6 DEF Byte, Prefix
  <2>2. b.press <= g[i].press
    BY <2>1 DEF Left
  <2>3. b.press < g[i].press
    BY <1>2, <1>4, <2>1, <2>2
  <2> QED
    BY <1>3, <2>1, <2>3 DEF Left
<1> QED
  BY <1>3, <1>5, <1>6

(* Acting on a press keeps the order of presses.                           *)
LEMMA ActingInTurn ==
    ASSUME NEW n \in Nat, NEW b, NEW g, NEW h, NEW D, NEW A, NEW G, NEW S,
           Left(n, b, g, h, D, A, G, S)
    PROVE  InTurn(g, h, A \cup {b.press})
<1>0. b \in Bytes(n) /\ InTurn(g, h, A)
  BY DEF Left
<1>1. ASSUME NEW i \in DOMAIN g, NEW j \in DOMAIN g, i < j, g[i] # Prefix, g[j] # Prefix,
             g[i].key = g[j].key, g[i].press < g[j].press
      PROVE  g[j].press \notin A \cup {b.press}
  <2>1. g[j].press \notin A
    BY <1>0, <1>1, Zenon DEF InTurn
  <2>2. ASSUME g[j].press = b.press
        PROVE  FALSE
    <3>1. g[i].key = b.key
      BY <1>1, <2>2 DEF Left
    <3>2. b.press <= g[i].press /\ g[i] \in Bytes(n)
      BY <1>1, <3>1 DEF Left
    <3> QED
      BY <1>0, <1>1, <2>2, <3>2 DEF Bytes
  <2> QED
    BY <2>1, <2>2
<1>2. ASSUME NEW i \in DOMAIN g, g[i] # Prefix, g[i].press < h[g[i].key]
      PROVE  h[g[i].key] \notin A \cup {b.press}
  <2>1. h[g[i].key] \notin A
    BY <1>0, <1>2, Zenon DEF InTurn
  <2>2. ASSUME h[g[i].key] = b.press
        PROVE  FALSE
    <3>1. g[i] \in Bytes(n)
      BY <1>2 DEF Left
    <3>2. g[i].key = b.key
      BY <2>2, <3>1 DEF Left, Bytes
    <3>3. b.press <= g[i].press
      BY <1>2, <3>2 DEF Left
    <3> QED
      BY <1>0, <1>2, <2>2, <3>1, <3>3 DEF Bytes
  <2> QED
    BY <2>1, <2>2
<1> QED
  BY <1>1, <1>2, Zenon DEF InTurn

(***************************************************************************)
(* What is known stays known, whatever becomes of the byte.                *)
(***************************************************************************)

(* A prefix is no press.                                                   *)
LEMMA PrefixIsRead ==
    ASSUME NEW n \in Nat, NEW f \in Queues(n), NEW h, f # <<>>, f[1] = Prefix,
           NEW g, Drops(f, 1, g), NEW D, NEW A, NEW G, NEW S, Known(f, h, D, A, G, S)
    PROVE  g \in Queues(n) /\ Known(g, h, D, A, G, S)
<1>1. Len(f) \in Nat /\ DOMAIN f = 1 .. Len(f) /\ 1 \in 0 .. Len(f)
  BY DEF Queues
<1>2. /\ g \in Queues(n)
      /\ \A i \in DOMAIN g : i + 1 \in DOMAIN f /\ g[i] = f[i + 1]
      /\ \A j \in DOMAIN f : j > 1 => j - 1 \in DOMAIN g /\ f[j] = g[j - 1]
  BY <1>1, Rest
<1>3. \A i, j \in DOMAIN g : i < j => i + 1 < j + 1
  <2>1. DOMAIN g = 1 .. Len(f) - 1
    BY <1>1, Rest
  <2> QED
    BY <2>1
<1>4. Ordered(f, h) /\ KnownIsDown(f, h, D, A, G) /\ DownIsKnown(f, h, D, A, S) /\ InTurn(f, h, A)
  BY DEF Known
<1>5. Ordered(g, h)
  BY <1>1, <1>4, RestIsOrdered
<1>6. KnownIsDown(g, h, D, A, G)
  BY <1>2, <1>4, Zenon DEF KnownIsDown
<1>7. DownIsKnown(g, h, D, A, S)
  <2> SUFFICES ASSUME NEW k \in D \ S
               PROVE  \E q \in A : h[k] = q \/ \E i \in DOMAIN g : g[i] = Byte(k, TRUE, q)
    BY DEF DownIsKnown
  <2>1. PICK q \in A : h[k] = q \/ \E i \in DOMAIN f : f[i] = Byte(k, TRUE, q)
    BY <1>4, Zenon DEF DownIsKnown
  <2>2. ASSUME NEW i \in DOMAIN f, f[i] = Byte(k, TRUE, q)
        PROVE  \E j \in DOMAIN g : g[j] = Byte(k, TRUE, q)
    <3>1. i # 1
      BY <2>2 DEF Byte, Prefix
    <3>2. i > 1
      BY <1>1, <3>1
    <3> QED
      BY <1>2, <2>2, <3>2
  <2> QED
    BY <2>1, <2>2
<1>8. InTurn(g, h, A)
  <2>1. ASSUME NEW i \in DOMAIN g, NEW j \in DOMAIN g, i < j, g[i] # Prefix, g[j] # Prefix,
               g[i].key = g[j].key, g[i].press < g[j].press
        PROVE  g[j].press \notin A
    <3>1. /\ i + 1 \in DOMAIN f /\ g[i] = f[i + 1] /\ j + 1 \in DOMAIN f /\ g[j] = f[j + 1]
          /\ i + 1 < j + 1
      BY <1>2, <1>3, <2>1
    <3> QED
      BY <1>4, <2>1, <3>1, Zenon DEF InTurn
  <2>2. ASSUME NEW i \in DOMAIN g, g[i] # Prefix, g[i].press < h[g[i].key]
        PROVE  h[g[i].key] \notin A
    BY <1>2, <1>4, <2>2, Zenon DEF InTurn
  <2> QED
    BY <2>1, <2>2, Zenon DEF InTurn
<1> QED
  BY <1>2, <1>5, <1>6, <1>7, <1>8 DEF Known

(* The driver makes an event of it.                                        *)
LEMMA KnownAfterEvent ==
    ASSUME NEW n \in Nat, NEW b, NEW g, NEW h, NEW D, NEW A, NEW G, NEW S,
           Left(n, b, g, h, D, A, G, S), ~b.up
    PROVE  Known(g, h, D \cup {b.key}, A \cup {b.press}, G, S)
<1> DEFINE D2 == D \cup {b.key}
           A2 == A \cup {b.press}
<1>1. Ordered(g, h) /\ KnownIsDown(g, h, D, A, G) /\ InTurn(g, h, A2)
  BY ActingInTurn DEF Left
<1>2. KnownIsDown(g, h, D2, A2, G)
  <2>1. ASSUME NEW i \in DOMAIN g, g[i] # Prefix, ~g[i].up, g[i].press \in A2 \ G
        PROVE  g[i].key \in D2
    <3>1. g[i].press = b.press => g[i].key = b.key
      BY <2>1 DEF Left
    <3>2. g[i].press \in A \ G => g[i].key \in D
      BY <1>1, <2>1, Zenon DEF KnownIsDown
    <3> QED
      BY <2>1, <3>1, <3>2
  <2>2. ASSUME NEW k \in Keys, h[k] \in A2 \ G
        PROVE  k \in D2
    <3>1. h[k] = b.press => k = b.key
      BY DEF Left
    <3>2. h[k] \in A \ G => k \in D
      BY <1>1, Zenon DEF KnownIsDown
    <3> QED
      BY <2>2, <3>1, <3>2
  <2> QED
    BY <2>1, <2>2, Zenon DEF KnownIsDown
<1>3. DownIsKnown(g, h, D2, A2, S)
  <2>1. ASSUME NEW k \in D \ S
        PROVE  \E q \in A2 : h[k] = q \/ \E i \in DOMAIN g : g[i] = Byte(k, TRUE, q)
    <3>1. PICK q \in A : h[k] = q \/ \E i \in DOMAIN g : g[i] = Byte(k, TRUE, q)
      BY Zenon DEF Left
    <3> QED
      BY <3>1, Zenon
  <2>2. \E q \in A2 : h[b.key] = q \/ \E i \in DOMAIN g : g[i] = Byte(b.key, TRUE, q)
    <3>1. h[b.key] = b.press \/ \E j \in DOMAIN g : g[j] = Byte(b.key, TRUE, b.press)
      BY Zenon DEF Left
    <3> QED
      BY <3>1, Zenon
  <2> QED
    BY <2>1, <2>2, Zenon DEF DownIsKnown
<1> QED
  BY <1>1, <1>2, <1>3 DEF Known

(* The driver takes it for a repeat.                                       *)
LEMMA KnownAfterRepeat ==
    ASSUME NEW n \in Nat, NEW b, NEW g, NEW h, NEW D, NEW A, NEW G, NEW S, NEW G2,
           Left(n, b, g, h, D, A, G, S), ~b.up, G \subseteq G2
    PROVE  Known(g, h, D, A, G2, S)
<1>1. KnownIsDown(g, h, D, A, G)
  BY DEF Left
<1>2. KnownIsDown(g, h, D, A, G2)
  <2>1. \A x : x \in A \ G2 => x \in A \ G
    OBVIOUS
  <2> QED
    BY <1>1, <2>1, Zenon DEF KnownIsDown
<1>3. DownIsKnown(g, h, D, A, S)
  BY Zenon DEF Left, DownIsKnown
<1> QED
  BY <1>2, <1>3 DEF Left, Known

(* The driver takes it for a release.                                      *)
LEMMA KnownAfterRelease ==
    ASSUME NEW n \in Nat, NEW b, NEW g, NEW h, NEW D, NEW A, NEW G, NEW S,
           Left(n, b, g, h, D, A, G, S), b.up
    PROVE  Known(g, h, D \ {b.key}, A, G, S \ {b.key})
<1> DEFINE D2 == D \ {b.key}
<1>0. /\ b \in Bytes(n) /\ A \in SUBSET (1 .. n)
      /\ KnownIsDown(g, h, D, A, G)
  BY DEF Left
<1>1. KnownIsDown(g, h, D2, A, G)
  <2>1. ASSUME NEW i \in DOMAIN g, g[i] # Prefix, ~g[i].up, g[i].press \in A \ G
        PROVE  g[i].key \in D2
    <3>1. g[i].key \in D
      BY <1>0, <2>1, Zenon DEF KnownIsDown
    <3>2. g[i].key # b.key
      BY <2>1 DEF Left
    <3> QED
      BY <3>1, <3>2
  <2>2. ASSUME NEW k \in Keys, h[k] \in A \ G
        PROVE  k \in D2
    <3>1. k \in D
      BY <1>0, <2>2, Zenon DEF KnownIsDown
    <3>2. k # b.key
      <4>1. h[k] # NotHeld
        BY <1>0, <2>2 DEF NotHeld
      <4> QED
        BY <2>2, <4>1 DEF Left
    <3> QED
      BY <3>1, <3>2
  <2> QED
    BY <2>1, <2>2, Zenon DEF KnownIsDown
<1>2. DownIsKnown(g, h, D2, A, S \ {b.key})
  <2> SUFFICES ASSUME NEW k \in D2 \ (S \ {b.key})
               PROVE  \E q \in A : h[k] = q \/ \E i \in DOMAIN g : g[i] = Byte(k, TRUE, q)
    BY Zenon DEF DownIsKnown
  <2>1. k \in D \ S /\ b.key # k
    OBVIOUS
  <2> QED
    BY <2>1, Zenon DEF Left
<1> QED
  BY <1>1, <1>2 DEF Left, Known

(* The driver's table is cleared after it.                                 *)
LEMMA KnownAfterClearing ==
    ASSUME NEW n \in Nat, NEW b, NEW g, NEW h, NEW D, NEW A, NEW G, NEW S, NEW G2,
           Left(n, b, g, h, D, A, G, S), A \cup {b.press} \subseteq G2
    PROVE  Known(g, h, {}, A \cup {b.press}, G2, {})
<1>1. Ordered(g, h) /\ InTurn(g, h, A \cup {b.press})
  BY ActingInTurn DEF Left
<1>2. KnownIsDown(g, h, {}, A \cup {b.press}, G2) /\ DownIsKnown(g, h, {}, A \cup {b.press}, {})
  BY DEF KnownIsDown, DownIsKnown
<1> QED
  BY <1>1, <1>2 DEF Known

(* `lelya` takes a release.                                                *)
LEMMA KnownAfterPassedRelease ==
    ASSUME NEW n \in Nat, NEW b, NEW g, NEW h, NEW D, NEW A, NEW G, NEW S,
           Left(n, b, g, h, D, A, G, S)
    PROVE  Known(g, h, D, A, G, S \cup ({b.key} \cap D))
<1>1. DownIsKnown(g, h, D, A, S \cup ({b.key} \cap D))
  <2> SUFFICES ASSUME NEW k \in D \ (S \cup ({b.key} \cap D))
               PROVE  \E q \in A : h[k] = q \/ \E i \in DOMAIN g : g[i] = Byte(k, TRUE, q)
    BY Zenon DEF DownIsKnown
  <2>1. k \in D \ S /\ b.key # k
    OBVIOUS
  <2> QED
    BY <2>1, Zenon DEF Left
<1> QED
  BY <1>1 DEF Left, Known

(* `lelya` takes a press.                                                  *)
LEMMA KnownAfterPassedPress ==
    ASSUME NEW n \in Nat, NEW b, NEW g, NEW h, NEW D, NEW A, NEW G, NEW S,
           Left(n, b, g, h, D, A, G, S), ~b.up
    PROVE  Known(g, h, D, A \cup {b.press}, G \cup {b.press}, S)
<1> DEFINE A2 == A \cup {b.press}
           G2 == G \cup {b.press}
<1>1. Ordered(g, h) /\ KnownIsDown(g, h, D, A, G) /\ InTurn(g, h, A2)
  BY ActingInTurn DEF Left
<1>2. KnownIsDown(g, h, D, A2, G2)
  <2>1. \A x : x \in A2 \ G2 => x \in A \ G
    OBVIOUS
  <2> QED
    BY <1>1, <2>1, Zenon DEF KnownIsDown
<1>3. DownIsKnown(g, h, D, A2, S)
  <2> SUFFICES ASSUME NEW k \in D \ S
               PROVE  \E q \in A2 : h[k] = q \/ \E i \in DOMAIN g : g[i] = Byte(k, TRUE, q)
    BY Zenon DEF DownIsKnown
  <2>1. PICK q \in A : h[k] = q \/ \E i \in DOMAIN g : g[i] = Byte(k, TRUE, q)
    BY Zenon DEF Left
  <2> QED
    BY <2>1, Zenon
<1> QED
  BY <1>1, <1>2, <1>3 DEF Known

(***************************************************************************)
(* The user: a byte e is added behind, with a prefix before it or without. *)
(***************************************************************************)
Adds(f, g, e, z) ==
    /\ z \in DOMAIN g /\ z \notin DOMAIN f /\ g[z] = e
    /\ \A i \in DOMAIN f : i \in DOMAIN g /\ g[i] = f[i] /\ i < z
    /\ \A i \in DOMAIN g : i \in DOMAIN f \/ i = z \/ (g[i] = Prefix /\ i + 1 = z /\ e.key \in Extended)
    /\ \A i \in DOMAIN g : ~(z < i) /\ i \in Nat
    /\ e.key \in Extended => z # 1 /\ g[z - 1] = Prefix

LEMMA CodesAdd ==
    ASSUME NEW n \in Nat, NEW f \in Queues(n), NEW key \in Keys, NEW up \in BOOLEAN,
           NEW press \in 1 .. n + 1,
           NEW g, g = f \o Codes(key, up, press)
    PROVE  /\ g \in Queues(n + 1)
           /\ \E z : Adds(f, g, Byte(key, up, press), z)
           /\ press <= n => g \in Queues(n)
<1> DEFINE e == Byte(key, up, press)
           c == Codes(key, up, press)
<1>1. e \in Bytes(n + 1) /\ (press <= n => e \in Bytes(n))
  BY DEF Byte, Bytes
<1>2. /\ \A m \in Nat : f \in Queues(m) <=> f \in Seq({Prefix} \cup Bytes(m))
      /\ Len(f) \in Nat /\ DOMAIN f = 1 .. Len(f)
  BY DEF Queues
<1>3. f \in Queues(n + 1)
  <2>1. Bytes(n) \subseteq Bytes(n + 1)
    BY DEF Bytes
  <2> QED
    BY <2>1, <1>2 DEF Queues
<1>4. /\ Len(c) \in {1, 2} /\ c[Len(c)] = e /\ (Len(c) = 2 => c[1] = Prefix)
      /\ Len(c) = 2 <=> e.key \in Extended
      /\ \A T : e \in T /\ Prefix \in T => c \in Seq(T)
  <2> HIDE DEF e
  <2>1. CASE key \in Extended
    <3>1. c = <<Prefix, e>> /\ e.key \in Extended
      BY <2>1 DEF Codes, e, Byte
    <3> HIDE DEF c
    <3> QED
      BY <3>1
  <2>2. CASE key \notin Extended
    <3>1. c = <<e>> /\ e.key \notin Extended
      BY <2>2 DEF Codes, e, Byte
    <3> HIDE DEF c
    <3> QED
      BY <3>1
  <2> QED
    BY <2>1, <2>2
<1> DEFINE L == Len(f)
           k == Len(c)
           last == L + k
<1> HIDE DEF e, c
<1>5. ASSUME NEW m \in Nat, f \in Queues(m), e \in Bytes(m)
      PROVE  /\ g \in Queues(m) /\ Len(g) = last /\ DOMAIN g = 1 .. last
             /\ \A i \in DOMAIN g : g[i] = IF i <= L THEN f[i] ELSE c[i - L]
  <2> DEFINE T == {Prefix} \cup Bytes(m)
  <2>1. e \in T /\ Prefix \in T
    BY <1>5
  <2>2. f \in Seq(T)
    BY <1>5 DEF Queues
  <2> HIDE DEF T
  <2>3. c \in Seq(T)
    BY <1>4, <2>1
  <2>4. g = f \o c
    BY DEF c
  <2>5. /\ g \in Seq(T) /\ Len(g) = Len(f) + Len(c)
        /\ \A i \in 1 .. Len(f) + Len(c) : g[i] = IF i <= Len(f) THEN f[i] ELSE c[i - Len(f)]
    BY <2>2, <2>3, <2>4, ConcatProperties
  <2>6. DOMAIN g = 1 .. last
    BY <2>5
  <2> QED
    BY <2>5, <2>6 DEF Queues, T
<1>6. /\ g \in Queues(n + 1) /\ DOMAIN g = 1 .. last
      /\ \A i \in DOMAIN g : g[i] = IF i <= L THEN f[i] ELSE c[i - L]
  BY <1>1, <1>3, <1>5
<1>7. press <= n => g \in Queues(n)
  BY <1>1, <1>5
<1>8. /\ L \in Nat /\ DOMAIN f = 1 .. L /\ k \in {1, 2} /\ c[k] = e /\ (k = 2 => c[1] = Prefix)
      /\ k = 2 <=> e.key \in Extended
      /\ last = L + k
  BY <1>2, <1>4
<1> HIDE DEF L, k, last
<1>9. Adds(f, g, e, last)
  <2>1. last \in DOMAIN g /\ last \notin DOMAIN f /\ last \in Nat
    BY <1>6, <1>8
  <2>2. g[last] = e
    <3>1. ~(last <= L) /\ last - L = k
      BY <1>8
    <3> QED
      BY <1>6, <1>8, <2>1, <3>1
  <2>3. \A i \in DOMAIN f : i \in DOMAIN g /\ g[i] = f[i] /\ i < last
    BY <1>6, <1>8
  <2>4. \A i \in DOMAIN g : i \in DOMAIN f \/ i = last \/ (g[i] = Prefix /\ i + 1 = last /\ e.key \in Extended)
    <3> SUFFICES ASSUME NEW i \in DOMAIN g, i \notin DOMAIN f, i # last
                 PROVE  g[i] = Prefix /\ i + 1 = last /\ e.key \in Extended
      OBVIOUS
    <3>1. ~(i <= L) /\ i - L = 1 /\ k = 2 /\ i + 1 = last
      BY <1>6, <1>8
    <3> QED
      BY <1>6, <1>8, <3>1
  <2>5. \A i \in DOMAIN g : ~(last < i) /\ i \in Nat
    BY <1>6, <1>8
  <2>6. ASSUME e.key \in Extended
        PROVE  last # 1 /\ g[last - 1] = Prefix
    <3>1. k = 2 /\ last - 1 = L + 1 /\ L + 1 \in DOMAIN g /\ ~(L + 1 <= L) /\ L + 1 - L = 1 /\ last # 1
      BY <1>6, <1>8, <2>6
    <3>2. g[L + 1] = c[1] /\ c[1] = Prefix
      <4>1. g[L + 1] = IF L + 1 <= L THEN f[L + 1] ELSE c[(L + 1) - L]
        BY <1>6, <3>1
      <4> QED
        BY <1>8, <3>1, <4>1
    <3> QED
      BY <3>1, <3>2
  <2> QED
    BY <2>1, <2>2, <2>3, <2>4, <2>5, <2>6 DEF Adds
<1> QED
  BY <1>6, <1>7, <1>9 DEF e

(* Of two bytes that are not prefixes one at most is the new one.          *)
LEMMA AddedOrThere ==
    ASSUME NEW f, NEW g, NEW e, NEW z, Adds(f, g, e, z), NEW i \in DOMAIN g, g[i] # Prefix
    PROVE  \/ i \in DOMAIN f /\ g[i] = f[i] /\ i < z
           \/ i = z /\ g[i] = e
BY DEF Adds

(* What the user does keeps what is known.                                 *)
LEMMA KnownAfterUser ==
    ASSUME NEW n \in Nat, NEW f \in Queues(n), NEW h \in [Keys -> 0 .. n],
           NEW D \in SUBSET Keys, NEW A \in SUBSET (1 .. n), NEW G, NEW S, Known(f, h, D, A, G, S),
           NEW b \in Bytes(n + 1), NEW z, NEW g, Adds(f, g, b, z),
           NEW h2 \in [Keys -> 0 .. n + 1],
           \A k \in Keys : k # b.key => h2[k] = h[k],
           \/ ~b.up /\ h[b.key] = NotHeld /\ b.press = n + 1 /\ h2[b.key] = b.press
           \/ ~b.up /\ h[b.key] = b.press /\ h2[b.key] = b.press
           \/ b.up /\ h[b.key] = b.press /\ h2[b.key] = NotHeld
    PROVE  Known(g, h2, D, A, G, S)
<1> DEFINE e == Byte(b.key, b.up, b.press)
<1>0. /\ b.key \in Keys /\ b.up \in BOOLEAN /\ b.press \in 1 .. n + 1 /\ b # Prefix
      /\ b = Byte(b.key, b.up, b.press)
      /\ \A i \in DOMAIN f : f[i] # Prefix =>
             f[i].key \in Keys /\ f[i].up \in BOOLEAN /\ f[i].press \in 1 .. n
      /\ \A i \in DOMAIN f : f[i] # Prefix => f[i] \in Bytes(n)
  BY DEF Queues, Bytes, Prefix, Byte
<1>1. /\ z \in DOMAIN g /\ z \notin DOMAIN f /\ g[z] = b
      /\ \A i \in DOMAIN f : i \in DOMAIN g /\ g[i] = f[i] /\ i < z
      /\ \A i \in DOMAIN g : g[i] # Prefix => \/ i \in DOMAIN f /\ g[i] = f[i] /\ i < z
                                              \/ i = z /\ g[i] = b
      /\ \A i \in DOMAIN g : ~(z < i) /\ i \in Nat
      /\ ~(z < z)
  BY AddedOrThere DEF Adds
<1>2. Ordered(f, h) /\ KnownIsDown(f, h, D, A, G) /\ DownIsKnown(f, h, D, A, S) /\ InTurn(f, h, A)
  BY DEF Known
<1>3. ASSUME NEW i \in DOMAIN f, f[i] # Prefix
      PROVE  /\ f[i].press = b.press => f[i].key = b.key
             /\ f[i].key = b.key => f[i].press <= b.press /\ (f[i].up => f[i].press < b.press)
  <2>1. /\ h[f[i].key] # NotHeld =>
               f[i].press <= h[f[i].key] /\ (f[i].up => f[i].press < h[f[i].key])
        /\ \A k \in Keys : h[k] = f[i].press => k = f[i].key
    BY <1>2, <1>3, Zenon DEF Ordered
  <2>2. CASE b.press = n + 1
    BY <1>0, <1>3, <2>2
  <2>3. CASE h[b.key] = b.press
    BY <1>0, <1>3, <2>1, <2>3 DEF NotHeld
  <2> QED
    BY <2>2, <2>3
<1>4. Ordered(g, h2)
  <2>1. ASSUME NEW i \in DOMAIN g, NEW j \in DOMAIN g, g[i] # Prefix, g[j] # Prefix
        PROVE  /\ g[i].press = g[j].press => g[i].key = g[j].key
               /\ i < j /\ g[i].key = g[j].key =>
                      g[i].press <= g[j].press /\ (g[i].up => g[i].press < g[j].press)
    <3>1. CASE i \in DOMAIN f /\ j \in DOMAIN f
      <4>1. f[i] = g[i] /\ f[j] = g[j]
        BY <1>1, <3>1
      <4>2. /\ f[i].press = f[j].press => f[i].key = f[j].key
            /\ i < j /\ f[i].key = f[j].key =>
                   f[i].press <= f[j].press /\ (f[i].up => f[i].press < f[j].press)
        BY <1>2, <2>1, <3>1, <4>1, Zenon DEF Ordered
      <4> QED
        BY <4>1, <4>2
    <3>2. CASE i \in DOMAIN f /\ j = z
      <4>1. f[i] = g[i] /\ f[i] # Prefix
        BY <1>1, <2>1, <3>2
      <4> QED
        BY <1>1, <1>3, <3>2, <4>1
    <3>3. CASE i = z /\ j \in DOMAIN f
      <4>1. f[j] = g[j] /\ f[j] # Prefix /\ ~(i < j)
        BY <1>1, <2>1, <3>3
      <4> QED
        BY <1>1, <1>3, <3>3, <4>1
    <3>4. CASE i = z /\ j = z
      BY <1>1, <3>4
    <3> QED
      BY <1>1, <2>1, <3>1, <3>2, <3>3, <3>4
  <2>2. ASSUME NEW i \in DOMAIN g, g[i] # Prefix
        PROVE  /\ h2[g[i].key] # NotHeld =>
                      g[i].press <= h2[g[i].key] /\ (g[i].up => g[i].press < h2[g[i].key])
               /\ \A k \in Keys : h2[k] = g[i].press => k = g[i].key
               /\ ~g[i].up =>
                      \/ h2[g[i].key] = g[i].press
                      \/ \E j \in DOMAIN g : j > i /\ g[j] = Byte(g[i].key, TRUE, g[i].press)
    <3>1. ASSUME i \in DOMAIN f, g[i] = f[i], i < z
          PROVE  /\ h2[f[i].key] # NotHeld =>
                        f[i].press <= h2[f[i].key] /\ (f[i].up => f[i].press < h2[f[i].key])
                 /\ \A k \in Keys : h2[k] = f[i].press => k = f[i].key
                 /\ ~f[i].up =>
                        \/ h2[f[i].key] = f[i].press
                        \/ \E j \in DOMAIN g : j > i /\ g[j] = Byte(f[i].key, TRUE, f[i].press)
      <4>0. f[i] # Prefix
        BY <2>2, <3>1
      <4>1. /\ h[f[i].key] # NotHeld =>
                   f[i].press <= h[f[i].key] /\ (f[i].up => f[i].press < h[f[i].key])
            /\ \A k \in Keys : h[k] = f[i].press => k = f[i].key
            /\ ~f[i].up =>
                   \/ h[f[i].key] = f[i].press
                   \/ \E j \in DOMAIN f : j > i /\ f[j] = Byte(f[i].key, TRUE, f[i].press)
        BY <1>2, <3>1, <4>0, Zenon DEF Ordered
      <4>2. /\ f[i].press = b.press => f[i].key = b.key
            /\ f[i].key = b.key => f[i].press <= b.press /\ (f[i].up => f[i].press < b.press)
            /\ f[i].key \in Keys /\ f[i].press \in 1 .. n
        BY <1>0, <1>3, <3>1, <4>0
      <4>3. h2[f[i].key] # NotHeld =>
                f[i].press <= h2[f[i].key] /\ (f[i].up => f[i].press < h2[f[i].key])
        BY <4>1, <4>2
      <4>4. ASSUME NEW k \in Keys, h2[k] = f[i].press
            PROVE  k = f[i].key
        BY <4>1, <4>2, <4>4 DEF NotHeld
      <4>5. ASSUME ~f[i].up, h2[f[i].key] # f[i].press
            PROVE  \E j \in DOMAIN g : j > i /\ g[j] = Byte(f[i].key, TRUE, f[i].press)
        <5>1. CASE h[f[i].key] = f[i].press
          <6>1. f[i].key = b.key
            BY <4>2, <4>5, <5>1
          <6>2. b.up /\ f[i].press = b.press
            BY <1>0, <4>2, <4>5, <5>1, <6>1 DEF NotHeld
          <6> QED
            BY <1>0, <1>1, <3>1, <6>1, <6>2
        <5>2. ASSUME NEW j \in DOMAIN f, j > i, f[j] = Byte(f[i].key, TRUE, f[i].press)
              PROVE  \E l \in DOMAIN g : l > i /\ g[l] = Byte(f[i].key, TRUE, f[i].press)
          <6>1. j \in DOMAIN g /\ g[j] = f[j]
            BY <1>1
          <6> QED
            BY <5>2, <6>1, Zenon
        <5> QED
          BY <4>1, <4>5, <5>1, <5>2
      <4> QED
        BY <4>3, <4>4, <4>5
    <3>2. ASSUME i = z, g[i] = b
          PROVE  /\ h2[b.key] # NotHeld => b.press <= h2[b.key] /\ (b.up => b.press < h2[b.key])
                 /\ \A k \in Keys : h2[k] = b.press => k = b.key
                 /\ ~b.up => h2[b.key] = b.press
      <4>1. h2[b.key] # NotHeld => b.press <= h2[b.key] /\ (b.up => b.press < h2[b.key])
        BY <1>0
      <4>2. ASSUME NEW k \in Keys, h2[k] = b.press, k # b.key
            PROVE  FALSE
        <5>1. h[k] = b.press /\ b.press # NotHeld /\ h[k] \in 0 .. n
          BY <1>0, <4>2 DEF NotHeld
        <5>2. h[b.key] = b.press
          BY <1>0, <5>1
        <5> QED
          BY <1>0, <1>2, <4>2, <5>1, <5>2, Zenon DEF Ordered
      <4> QED
        BY <4>1, <4>2
    <3> QED
      BY <1>1, <2>2, <3>1, <3>2
  <2>3. ASSUME NEW k \in Keys, NEW l \in Keys, h2[k] = h2[l], h2[k] # NotHeld, k # l
        PROVE  FALSE
    <3>1. ASSUME NEW x \in Keys, NEW y \in Keys, h[x] = h[y], h[x] # NotHeld
          PROVE  x = y
      BY <1>2, <3>1, Zenon DEF Ordered
    <3>2. CASE k # b.key /\ l # b.key
      BY <2>3, <3>1, <3>2
    <3>3. ASSUME NEW x \in Keys, x # b.key, h2[x] = h2[b.key], h2[x] # NotHeld
          PROVE  FALSE
      <4>1. h[x] = h2[x] /\ h[x] \in 0 .. n
        BY <3>3
      <4>2. h2[b.key] = b.press /\ h[b.key] = b.press
        BY <1>0, <3>3, <4>1
      <4> QED
        BY <1>0, <3>1, <3>3, <4>1, <4>2
    <3> QED
      BY <2>3, <3>2, <3>3
  <2> QED
    BY <2>1, <2>2, <2>3, Zenon DEF Ordered
<1>5. KnownIsDown(g, h2, D, A, G)
  <2>0. /\ \A i \in DOMAIN f : f[i] # Prefix /\ ~f[i].up /\ f[i].press \in A \ G => f[i].key \in D
        /\ \A k \in Keys : h[k] \in A \ G => k \in D
    BY <1>2, Zenon DEF KnownIsDown
  <2>1. b.press \in A \ G => b.key \in D
    BY <1>0, <2>0
  <2>2. ASSUME NEW i \in DOMAIN g, g[i] # Prefix, ~g[i].up, g[i].press \in A \ G
        PROVE  g[i].key \in D
    <3>1. (i \in DOMAIN f /\ g[i] = f[i]) \/ g[i] = b
      BY <1>1, <2>2
    <3> QED
      BY <2>0, <2>1, <2>2, <3>1
  <2>3. ASSUME NEW k \in Keys, h2[k] \in A \ G
        PROVE  k \in D
    <3>1. CASE k # b.key
      BY <2>0, <2>3, <3>1
    <3>2. CASE k = b.key
      <4>1. h2[k] # NotHeld
        BY <2>3 DEF NotHeld
      <4> QED
        BY <2>1, <2>3, <3>2, <4>1
    <3> QED
      BY <3>1, <3>2
  <2> QED
    BY <2>2, <2>3, Zenon DEF KnownIsDown
<1>6. DownIsKnown(g, h2, D, A, S)
  <2> SUFFICES ASSUME NEW k \in D \ S
               PROVE  \E q \in A : h2[k] = q \/ \E i \in DOMAIN g : g[i] = Byte(k, TRUE, q)
    BY Zenon DEF DownIsKnown
  <2>1. PICK q \in A : h[k] = q \/ \E i \in DOMAIN f : f[i] = Byte(k, TRUE, q)
    BY <1>2, Zenon DEF DownIsKnown
  <2>2. ASSUME NEW i \in DOMAIN f, f[i] = Byte(k, TRUE, q)
        PROVE  \E j \in DOMAIN g : g[j] = Byte(k, TRUE, q)
    <3>1. i \in DOMAIN g /\ g[i] = f[i]
      BY <1>1
    <3> QED
      BY <2>2, <3>1
  <2>3. CASE h[k] = q
    <3>0. q \in 1 .. n
      OBVIOUS
    <3>1. CASE k # b.key
      <4>1. h2[k] = q
        BY <2>3, <3>1
      <4> QED
        BY <4>1
    <3>2. CASE k = b.key /\ ~b.up
      <4>1. h2[k] = q
        BY <2>3, <3>0, <3>2 DEF NotHeld
      <4> QED
        BY <4>1
    <3>3. CASE k = b.key /\ b.up
      <4>1. g[z] = Byte(k, TRUE, q)
        BY <1>0, <1>1, <2>3, <3>3
      <4> QED
        BY <1>1, <4>1
    <3> QED
      BY <1>0, <3>1, <3>2, <3>3
  <2> QED
    BY <2>1, <2>2, <2>3
<1>7. InTurn(g, h2, A)
  <2>1. b.press \in A => h[b.key] = b.press
    BY <1>0
  <2>2. ASSUME NEW i \in DOMAIN f, f[i] # Prefix, f[i].key = b.key, f[i].press < b.press
        PROVE  b.press \notin A
    <3>1. f[i].press < h[f[i].key] => h[f[i].key] \notin A
      BY <1>2, <2>2, Zenon DEF InTurn
    <3> QED
      BY <2>1, <2>2, <3>1
  <2>3. ASSUME NEW i \in DOMAIN g, NEW j \in DOMAIN g, i < j, g[i] # Prefix, g[j] # Prefix,
               g[i].key = g[j].key, g[i].press < g[j].press
        PROVE  g[j].press \notin A
    <3>1. CASE i \in DOMAIN f /\ j \in DOMAIN f
      <4>1. g[i] = f[i] /\ g[j] = f[j]
        BY <1>1, <3>1
      <4> QED
        BY <1>2, <2>3, <3>1, <4>1, Zenon DEF InTurn
    <3>2. CASE i \in DOMAIN f /\ j = z
      <4>1. g[i] = f[i] /\ g[j] = b
        BY <1>1, <3>2
      <4> QED
        BY <2>2, <2>3, <3>2, <4>1
    <3>3. i # z
      <4>1. ASSUME i = z
            PROVE  FALSE
        BY <1>1, <2>3, <4>1
      <4> QED
        BY <4>1
    <3> QED
      BY <1>1, <2>3, <3>1, <3>2, <3>3
  <2>4. ASSUME NEW i \in DOMAIN g, g[i] # Prefix, g[i].press < h2[g[i].key]
        PROVE  h2[g[i].key] \notin A
    <3>1. CASE g[i].key = b.key
      <4>1. h2[b.key] # b.press => h2[b.key] = NotHeld
        OBVIOUS
      <4>2. NotHeld \notin A
        BY DEF NotHeld
      <4>3. g[i] = b => h2[b.key] = NotHeld
        BY <1>0, <2>4, <4>1
      <4>4. ASSUME i \in DOMAIN f, g[i] = f[i], h2[b.key] = b.press
            PROVE  h2[b.key] \notin A
        BY <2>2, <2>4, <3>1, <4>4
      <4> QED
        BY <1>1, <2>4, <3>1, <4>1, <4>2, <4>3, <4>4
    <3>2. CASE g[i].key # b.key
      <4>1. i \in DOMAIN f /\ g[i] = f[i]
        BY <1>1, <2>4, <3>2
      <4>2. h2[f[i].key] = h[f[i].key]
        BY <1>0, <2>4, <3>2, <4>1
      <4> QED
        BY <1>2, <2>4, <4>1, <4>2, Zenon DEF InTurn
    <3> QED
      BY <3>1, <3>2
  <2> QED
    BY <2>3, <2>4, Zenon DEF InTurn
<1> QED
  BY <1>4, <1>5, <1>6, <1>7 DEF Known

(***************************************************************************)
(* Prefixes.  Each is followed by a byte of an extended key, and these come*)
(* after a prefix, or first when x says that their prefix was read.        *)
(***************************************************************************)
Pairs(f, x) ==
    /\ \A i \in DOMAIN f : f[i] = Prefix =>
           i + 1 \in DOMAIN f /\ f[i + 1] # Prefix /\ f[i + 1].key \in Extended
    /\ \A i \in DOMAIN f : f[i] # Prefix /\ f[i].key \in Extended =>
           IF i = 1 THEN x ELSE f[i - 1] = Prefix
    /\ x => 1 \in DOMAIN f /\ f[1] # Prefix /\ f[1].key \in Extended

LEMMA PairsAfterReading ==
    ASSUME NEW n \in Nat, NEW f \in Queues(n), NEW m \in 1 .. Len(f), NEW x, Pairs(f, x),
           NEW g, Drops(f, m, g)
    PROVE  Pairs(g, f[m] = Prefix)
<1>1. m \in 0 .. Len(f) /\ Len(f) \in Nat /\ DOMAIN f = 1 .. Len(f) /\ m \in Nat
  BY DEF Queues
<1>2. /\ \A i \in DOMAIN g : i + m \in DOMAIN f /\ g[i] = f[i + m]
      /\ \A j \in DOMAIN f : j > m => j - m \in DOMAIN g /\ f[j] = g[j - m]
      /\ DOMAIN g = 1 .. Len(f) - m
  BY <1>1, Rest
<1>3. ASSUME NEW i \in DOMAIN g, g[i] = Prefix
      PROVE  i + 1 \in DOMAIN g /\ g[i + 1] # Prefix /\ g[i + 1].key \in Extended
  <2>1. i + m \in DOMAIN f /\ f[i + m] = Prefix
    BY <1>2, <1>3
  <2> DEFINE j == (i + m) + 1
  <2>2. j \in DOMAIN f /\ f[j] # Prefix /\ f[j].key \in Extended
    BY <2>1 DEF Pairs
  <2>3. j > m /\ j - m = i + 1
    BY <1>1, <1>2
  <2> QED
    BY <1>2, <2>2, <2>3
<1>4. ASSUME NEW i \in DOMAIN g, g[i] # Prefix, g[i].key \in Extended
      PROVE  IF i = 1 THEN f[m] = Prefix ELSE g[i - 1] = Prefix
  <2>1. i + m \in DOMAIN f /\ g[i] = f[i + m] /\ i + m # 1
    BY <1>1, <1>2
  <2>2. f[(i + m) - 1] = Prefix
    BY <1>4, <2>1 DEF Pairs
  <2>3. i = 1 => (i + m) - 1 = m
    BY <1>1, <1>2
  <2>4. i # 1 => i - 1 \in DOMAIN g /\ (i - 1) + m = (i + m) - 1
    BY <1>1, <1>2
  <2> QED
    BY <1>2, <2>2, <2>3, <2>4
<1>5. ASSUME f[m] = Prefix
      PROVE  1 \in DOMAIN g /\ g[1] # Prefix /\ g[1].key \in Extended
  <2>1. m + 1 \in DOMAIN f /\ f[m + 1] # Prefix /\ f[m + 1].key \in Extended
    BY <1>1, <1>5 DEF Pairs
  <2>2. m + 1 > m /\ (m + 1) - m = 1
    BY <1>1
  <2> QED
    BY <1>2, <2>1, <2>2
<1> QED
  BY <1>3, <1>4, <1>5 DEF Pairs

LEMMA PairsAfterUser ==
    ASSUME NEW n \in Nat, NEW f \in Queues(n), NEW x, Pairs(f, x),
           NEW b \in Bytes(n + 1), NEW z, NEW g, Adds(f, g, b, z)
    PROVE  Pairs(g, x)
<1>1. /\ z \in DOMAIN g /\ z \notin DOMAIN f /\ g[z] = b /\ z \in Nat /\ b # Prefix
      /\ \A i \in DOMAIN f : i \in DOMAIN g /\ g[i] = f[i] /\ i \in Nat /\ i > 0
      /\ \A i \in DOMAIN g : \/ i \in DOMAIN f
                             \/ i = z
                             \/ g[i] = Prefix /\ i + 1 = z /\ b.key \in Extended
      /\ b.key \in Extended => z # 1 /\ g[z - 1] = Prefix
  BY KeysAssumption DEF Adds, Bytes, Prefix, Queues
<1>2. ASSUME NEW i \in DOMAIN g, g[i] = Prefix
      PROVE  i + 1 \in DOMAIN g /\ g[i + 1] # Prefix /\ g[i + 1].key \in Extended
  <2>1. CASE i \in DOMAIN f
    <3>1. i + 1 \in DOMAIN f /\ f[i + 1] # Prefix /\ f[i + 1].key \in Extended
      BY <1>1, <1>2, <2>1 DEF Pairs
    <3> QED
      BY <1>1, <3>1
  <2>2. CASE i \notin DOMAIN f
    BY <1>1, <1>2, <2>2
  <2> QED
    BY <2>1, <2>2
<1>3. ASSUME NEW i \in DOMAIN g, g[i] # Prefix, g[i].key \in Extended
      PROVE  IF i = 1 THEN x ELSE g[i - 1] = Prefix
  <2>1. CASE i \in DOMAIN f
    <3>1. IF i = 1 THEN x ELSE f[i - 1] = Prefix
      BY <1>1, <1>3, <2>1 DEF Pairs
    <3>2. i # 1 => i - 1 \in DOMAIN f
      BY <1>1, <2>1 DEF Queues
    <3> QED
      BY <1>1, <3>1, <3>2
  <2>2. CASE i \notin DOMAIN f
    BY <1>1, <1>3, <2>2
  <2> QED
    BY <2>1, <2>2
<1>4. x => 1 \in DOMAIN g /\ g[1] # Prefix /\ g[1].key \in Extended
  BY <1>1 DEF Pairs
<1> QED
  BY <1>2, <1>3, <1>4 DEF Pairs

(***************************************************************************)
(* The driver: which keys are down after a byte, and when there is an      *)
(* event.  The tables of plain and of extended keys hold only such keys.   *)
(***************************************************************************)
DownIn(t) == t.down \cup t.extended_down
Apart(t) == t \in Tables /\ t.down \cap Extended = {} /\ t.extended_down \subseteq Extended

\* What a byte b does to tables t, r being the answer.
Driven(t, b, r) ==
    /\ Apart(r.tables) /\ r.tables.extended_prefix = t.extended_prefix
    /\ r.event.character \in KeyCharacters
    /\ b.up => r.event = NoEvent /\ DownIn(r.tables) = DownIn(t) \ {b.key}
    /\ ~b.up /\ r.event = NoEvent => b.key \in DownIn(t) /\ DownIn(r.tables) = DownIn(t)
    /\ r.event # NoEvent =>
           /\ ~b.up /\ DownIn(r.tables) = DownIn(t) \cup {b.key}
           /\ b.key = "shift" \/ b.key \notin DownIn(t)
           /\ r.event.key = b.key /\ (~r.event.extended => b.key \notin Extended)

\* What the driver does to its tables but for the prefix.
With(t, d, e, s) ==
    [down |-> d, extended_down |-> e, shift |-> s, extended_prefix |-> t.extended_prefix]

LEMMA MadeTables ==
    ASSUME NEW t \in Tables
    PROVE  \A d, e, s : d \in SUBSET (Keys \ Extended) /\ e \in SUBSET Extended /\ s \in BOOLEAN =>
               /\ Apart(With(t, d, e, s)) /\ DownIn(With(t, d, e, s)) = d \cup e
               /\ With(t, d, e, s).extended_prefix = t.extended_prefix
BY KeysAssumption DEF Tables, With, Apart, DownIn

LEMMA ShiftTables ==
    ASSUME NEW t \in Tables, NEW d, NEW s, NEW u, u = [t EXCEPT !.down = d, !.shift = s]
    PROVE  u = With(t, d, t.extended_down, s)
<1>1. t = [down |-> t.down, extended_down |-> t.extended_down,
           shift |-> t.shift, extended_prefix |-> t.extended_prefix]
  BY DEF Tables
<1>2. u = [down |-> d, extended_down |-> t.extended_down,
           shift |-> s, extended_prefix |-> t.extended_prefix]
  BY <1>1
<1> QED
  BY <1>2 DEF With

LEMMA DriverAnswers ==
    ASSUME NEW t, Apart(t), NEW n \in Nat, NEW b \in Bytes(n), NEW x \in BOOLEAN,
           x <=> b.key \in Extended,
           NEW r, r = keyboard_driver_translate_scancode(t, x, b)
    PROVE  Driven(t, b, r)
<1> DEFINE d == t.down
           e == t.extended_down
           k == b.key
<1>1. /\ t \in Tables /\ d \in SUBSET (Keys \ Extended) /\ e \in SUBSET Extended
      /\ t.shift \in BOOLEAN
      /\ k \in Keys /\ b.up \in BOOLEAN /\ k # "nothing" /\ Extended \subseteq Keys
  BY KeysAssumption DEF Apart, Bytes, Tables
<1>2. \A l, s : Character(l, s) \in KeyCharacters
  BY DEF Character, KeyCharacters
<1>3. NoEvent.character \in KeyCharacters
  BY DEF NoEvent, KeyCharacters
<1>4. \A character, extended : /\ Event(k, character, extended) # NoEvent
                               /\ Event(k, character, extended).key = k
                               /\ Event(k, character, extended).character = character
                               /\ Event(k, character, extended).extended = extended
  BY <1>1 DEF Event, NoEvent
<1>5. \A u, event : Returns(u, event).tables = u /\ Returns(u, event).event = event
  BY DEF Returns
<1>6. DownIn(t) = d \cup e /\ (x => k \notin d) /\ (~x => k \notin e)
  BY <1>1 DEF DownIn
<1>7. Apart(t)
  OBVIOUS
<1>8. \A d2, e2, s2 : d2 \in SUBSET (Keys \ Extended) /\ e2 \in SUBSET Extended /\ s2 \in BOOLEAN =>
          /\ Apart(With(t, d2, e2, s2)) /\ DownIn(With(t, d2, e2, s2)) = d2 \cup e2
          /\ With(t, d2, e2, s2).extended_prefix = t.extended_prefix
  BY MadeTables DEF Apart
<1>9. CASE x
  <2>1. CASE b.up
    <3>1. r = Returns([t EXCEPT !.extended_down = @ \ {k}], NoEvent)
      BY <1>9, <2>1 DEF keyboard_driver_translate_scancode, ExtendedCode
    <3>2. [t EXCEPT !.extended_down = @ \ {k}]
              = With(t, d, e \ {k}, t.shift)
      BY <1>1 DEF Tables, With
    <3> DEFINE u == With(t, d, e \ {k}, t.shift)
    <3>3. Apart(u) /\ DownIn(u) = d \cup (e \ {k}) /\ u.extended_prefix = t.extended_prefix
      <4> DEFINE e2 == e \ {k}
      <4>1. e2 \in SUBSET Extended /\ d \in SUBSET (Keys \ Extended) /\ t.shift \in BOOLEAN
        BY <1>1
      <4> HIDE DEF e2, d, e, k
      <4>2. LET v == With(t, d, e2, t.shift)
            IN  Apart(v) /\ DownIn(v) = d \cup e2 /\ v.extended_prefix = t.extended_prefix
        BY <1>8, <4>1
      <4> QED
        BY <4>2 DEF e2
    <3>4. r.tables = u /\ r.event = NoEvent
      BY <1>5, <3>1, <3>2
    <3> HIDE DEF u
    <3> QED
      BY <1>3, <1>6, <1>9, <2>1, <3>3, <3>4 DEF Driven
  <2>2. CASE ~b.up /\ k \in e
    <3>1. r = Returns(t, NoEvent)
      BY <1>9, <2>2 DEF keyboard_driver_translate_scancode, ExtendedCode
    <3> QED
      BY <1>3, <1>5, <1>6, <1>7, <2>2, <3>1 DEF Driven
  <2>3. CASE ~b.up /\ k \notin e
    <3>1. r = Returns([t EXCEPT !.extended_down = @ \cup {k}], Event(k, "none", TRUE))
      BY <1>9, <2>3 DEF keyboard_driver_translate_scancode, ExtendedCode
    <3>2. [t EXCEPT !.extended_down = @ \cup {k}]
              = With(t, d, e \cup {k}, t.shift)
      BY <1>1 DEF Tables, With
    <3> DEFINE u == With(t, d, e \cup {k}, t.shift)
    <3>3. Apart(u) /\ DownIn(u) = d \cup (e \cup {k}) /\ u.extended_prefix = t.extended_prefix
      <4>1. e \cup {k} \in SUBSET Extended
        BY <1>1, <1>9
      <4> QED
        BY <1>1, <1>8, <4>1, Zenon
    <3>4. r.tables = u /\ r.event = Event(k, "none", TRUE)
      BY <1>5, <3>1, <3>2, Zenon
    <3>5. /\ r.event # NoEvent /\ r.event.key = k
          /\ r.event.character \in KeyCharacters /\ r.event.extended = TRUE
      <4>1. "none" \in KeyCharacters
        BY DEF KeyCharacters
      <4> QED
        BY <1>1, <3>4, <4>1 DEF Event, NoEvent
    <3> HIDE DEF u
    <3> QED
      BY <1>6, <1>9, <2>3, <3>3, <3>4, <3>5 DEF Driven
  <2> QED
    BY <1>1, <2>1, <2>2, <2>3
<1>10. CASE ~x /\ b.up
  <2>1. PICK s \in BOOLEAN :
            r = Returns(With(t, d \ {k}, e, s), NoEvent)
    <3>1. CASE k = "shift"
      <4>1. r = Returns([t EXCEPT !.down = @ \ {k}, !.shift = FALSE], NoEvent)
        BY <1>10, <3>1 DEF keyboard_driver_translate_scancode, ShiftCode
      <4>2. [t EXCEPT !.down = @ \ {k}, !.shift = FALSE] = With(t, d \ {k}, e, FALSE)
        BY <1>1, ShiftTables, Zenon
      <4> QED
        BY <4>1, <4>2
    <3>2. CASE k # "shift"
      <4>1. r = Returns([t EXCEPT !.down = @ \ {k}], NoEvent)
        BY <1>10, <3>2 DEF keyboard_driver_translate_scancode, PlainCode
      <4>2. [t EXCEPT !.down = @ \ {k}]
                = With(t, d \ {k}, e, t.shift)
        BY <1>1 DEF Tables, With
      <4> QED
        BY <1>1, <4>1, <4>2
    <3> QED
      BY <3>1, <3>2
  <2> DEFINE u == With(t, d \ {k}, e, s)
  <2>2. Apart(u) /\ DownIn(u) = (d \ {k}) \cup e /\ u.extended_prefix = t.extended_prefix
    <3>1. d \ {k} \in SUBSET (Keys \ Extended)
      BY <1>1
    <3> QED
      BY <1>1, <1>8, <3>1, Zenon
  <2>3. r.tables = u /\ r.event = NoEvent
    BY <1>5, <2>1
  <2> HIDE DEF u
  <2> QED
    BY <1>3, <1>6, <1>10, <2>2, <2>3 DEF Driven
<1>11. CASE ~x /\ ~b.up /\ k # "shift" /\ k \in d
  <2>1. r = Returns(t, NoEvent)
    BY <1>11 DEF keyboard_driver_translate_scancode, PlainCode
  <2> QED
    BY <1>3, <1>5, <1>6, <1>7, <1>11, <2>1 DEF Driven
<1>12. CASE ~x /\ ~b.up /\ (k = "shift" \/ k \notin d)
  <2>1. PICK s \in BOOLEAN, character \in KeyCharacters :
            r = Returns(With(t, d \cup {k}, e, s),
                        Event(k, character, FALSE))
    <3>1. CASE k = "shift"
      <4>1. r = Returns([t EXCEPT !.down = @ \cup {k}, !.shift = TRUE], Event(k, "none", FALSE))
        BY <1>12, <3>1 DEF keyboard_driver_translate_scancode, ShiftCode
      <4>2. [t EXCEPT !.down = @ \cup {k}, !.shift = TRUE] = With(t, d \cup {k}, e, TRUE)
        BY <1>1, ShiftTables, Zenon
      <4>3. "none" \in KeyCharacters
        BY DEF KeyCharacters
      <4> QED
        BY <4>1, <4>2, <4>3
    <3>2. CASE k # "shift"
      <4>1. r = Returns([t EXCEPT !.down = @ \cup {k}],
                        Event(k, Character(k, t.shift), FALSE))
        BY <1>12, <3>2 DEF keyboard_driver_translate_scancode, PlainCode
      <4>2. [t EXCEPT !.down = @ \cup {k}]
                = With(t, d \cup {k}, e, t.shift)
        BY <1>1 DEF Tables, With
      <4> QED
        BY <1>1, <1>2, <4>1, <4>2
    <3> QED
      BY <3>1, <3>2
  <2> DEFINE u == With(t, d \cup {k}, e, s)
  <2>2. Apart(u) /\ DownIn(u) = (d \cup {k}) \cup e /\ u.extended_prefix = t.extended_prefix
    <3>1. d \cup {k} \in SUBSET (Keys \ Extended)
      BY <1>1, <1>12
    <3> QED
      BY <1>1, <1>8, <3>1, Zenon
  <2>3. r.tables = u /\ r.event = Event(k, character, FALSE)
    BY <1>5, <2>1, Zenon
  <2>4. r.event # NoEvent /\ r.event.key = k /\ r.event.character \in KeyCharacters
    BY <1>1, <2>3 DEF Event, NoEvent
  <2> HIDE DEF u
  <2> QED
    BY <1>6, <1>12, <2>2, <2>3, <2>4 DEF Driven
<1> QED
  BY <1>1, <1>9, <1>10, <1>11, <1>12

(***************************************************************************)
(* The ways in which a byte is read: alone, behind its prefix, a prefix    *)
(* alone, and the last byte once more.                                     *)
(***************************************************************************)
LEMMA HeadIsRead ==
    ASSUME NEW n \in Nat, NEW f \in Queues(n), NEW h \in [Keys -> 0 .. n], NEW x \in BOOLEAN,
           NEW D, NEW A \in SUBSET (1 .. n), NEW G, NEW S, Known(f, h, D, A, G, S),
           Pairs(f, x), f # <<>>, f[1] # Prefix, NEW g, Drops(f, 1, g)
    PROVE  /\ Left(n, f[1], g, h, D, A, G, S) /\ Pairs(g, FALSE) /\ (x <=> f[1].key \in Extended)
           /\ Len(f) > 1 <=> g # <<>>
<1>1. Len(f) \in Nat /\ DOMAIN f = 1 .. Len(f) /\ 1 \in 1 .. Len(f) /\ 1 \in 0 .. Len(f)
  BY DEF Queues
<1>2. Reading(f, 1, f[1], g)
  BY <1>1 DEF Reading
<1>3. Left(n, f[1], g, h, D, A, G, S)
  BY <1>2, ReadLeaves
<1>4. Pairs(g, f[1] = Prefix)
  BY <1>1, PairsAfterReading
<1>5. Pairs(g, FALSE)
  BY <1>4 DEF Pairs
<1>6. x <=> f[1].key \in Extended
  BY <1>1 DEF Pairs
<1>7. Len(f) > 1 <=> g # <<>>
  <2>0. g \in Queues(n) /\ DOMAIN g = 1 .. Len(f) - 1
    BY <1>1, Rest
  <2>1. g \in Seq({Prefix} \cup Bytes(n))
    BY <2>0 DEF Queues
  <2>2. g # <<>> <=> 1 \in DOMAIN g
    BY <2>1
  <2> QED
    BY <1>1, <2>0, <2>2
<1> QED
  BY <1>3, <1>5, <1>6, <1>7

LEMMA PairIsRead ==
    ASSUME NEW n \in Nat, NEW f \in Queues(n), NEW h \in [Keys -> 0 .. n],
           NEW D, NEW A \in SUBSET (1 .. n), NEW G, NEW S, Known(f, h, D, A, G, S),
           Pairs(f, FALSE), f # <<>>, f[1] = Prefix, NEW g, Drops(f, 2, g)
    PROVE  /\ Left(n, f[2], g, h, D, A, G, S) /\ Pairs(g, FALSE)
           /\ f[2].key \in Extended
<1>1. Len(f) \in Nat /\ DOMAIN f = 1 .. Len(f) /\ 1 \in DOMAIN f
  BY DEF Queues
<1>2. 2 \in 1 .. Len(f) /\ f[2] # Prefix /\ f[2].key \in Extended
  <2>1. 1 + 1 \in DOMAIN f /\ f[1 + 1] # Prefix /\ f[1 + 1].key \in Extended
    BY <1>1 DEF Pairs
  <2> QED
    BY <1>1, <2>1
<1>3. Reading(f, 2, f[2], g)
  BY <1>1, <1>2 DEF Reading
<1>4. Left(n, f[2], g, h, D, A, G, S)
  BY <1>3, ReadLeaves
<1>5. Pairs(g, f[2] = Prefix)
  BY <1>2, PairsAfterReading
<1>6. Pairs(g, FALSE)
  BY <1>2, <1>5 DEF Pairs
<1> QED
  BY <1>2, <1>4, <1>6

LEMMA PrefixComesFirst ==
    ASSUME NEW n \in Nat, NEW f \in Queues(n), NEW h, NEW x \in BOOLEAN,
           NEW D, NEW A, NEW G, NEW S, Known(f, h, D, A, G, S),
           Pairs(f, x), f # <<>>, f[1] = Prefix, NEW g, Drops(f, 1, g)
    PROVE  /\ g \in Queues(n) /\ Known(g, h, D, A, G, S) /\ Pairs(g, TRUE)
           /\ Len(f) > 1 /\ g # <<>>
<1>1. Len(f) \in Nat /\ DOMAIN f = 1 .. Len(f) /\ 1 \in DOMAIN f /\ 1 \in 1 .. Len(f)
  BY DEF Queues
<1>2. g \in Queues(n) /\ Known(g, h, D, A, G, S)
  BY PrefixIsRead
<1>3. Pairs(g, f[1] = Prefix)
  BY <1>1, PairsAfterReading
<1>4. Pairs(g, TRUE)
  BY <1>3 DEF Pairs
<1>5. 1 \in DOMAIN g
  BY <1>4 DEF Pairs
<1>6. Len(f) > 1
  <2>1. 1 + 1 \in DOMAIN f
    BY <1>1 DEF Pairs
  <2> QED
    BY <1>1, <2>1
<1>7. g # <<>>
  BY <1>5
<1> QED
  BY <1>2, <1>4, <1>6, <1>7

LEMMA LastIsReadAgain ==
    ASSUME NEW n \in Nat, NEW f \in Queues(n), NEW h \in [Keys -> 0 .. n],
           NEW D, NEW A \in SUBSET (1 .. n), NEW G, NEW S, Known(f, h, D, A, G, S), f = <<>>,
           NEW b, b \in [key : Keys, up : {FALSE}, press : A \cap G], h[b.key] = b.press
    PROVE  Left(n, b, f, h, D, A, G, S)
<1>1. b \in Bytes(n) /\ b.press \in A \cap G /\ b.press \in 1 .. n /\ ~b.up /\ b.key \in Keys
  BY DEF Bytes
<1>2. DOMAIN f = {}
  OBVIOUS
<1>3. Ordered(f, h) /\ KnownIsDown(f, h, D, A, G) /\ DownIsKnown(f, h, D, A, S) /\ InTurn(f, h, A)
  BY DEF Known
<1>4. \A k \in Keys : h[k] = b.press => k = b.key
  BY <1>1, <1>3 DEF Ordered, NotHeld
<1>5. \A k \in D \ S : \E q \in A : h[k] = q \/ \E i \in DOMAIN f : f[i] = Byte(k, TRUE, q)
  BY <1>3, Zenon DEF DownIsKnown
<1> HIDE DEF Bytes
<1>6. /\ h[b.key] # NotHeld => b.press <= h[b.key] /\ (b.up => b.press < h[b.key])
      /\ b.press < h[b.key] => h[b.key] \notin A
      /\ ~b.up /\ b.press \in A \ G => b.key \in D
  BY <1>1
<1> QED
  BY <1>1, <1>2, <1>3, <1>4, <1>5, <1>6 DEF Left

(***************************************************************************)
(* The invariant: what the keyboard, the queue, the driver's tables and the*)
(* history of presses have to do with each other.                          *)
(***************************************************************************)
Kinds ==
    /\ presses \in 0 .. MAX_PRESSES /\ held \in [Keys -> 0 .. presses]
    /\ fifo \in Queues(presses) /\ irq \in BOOLEAN
    /\ Apart(tables)
    /\ running \in {"shell", "edit", "read", "lelya"}
    /\ acted \in SUBSET (1 .. presses) /\ forgotten \in SUBSET (1 .. presses)
    /\ twice \in SUBSET (1 .. presses)
    /\ swallowed \in SUBSET Keys

\* Only the interrupt stops behind a prefix; a byte in front has its interrupt.
Prefixes ==
    /\ Pairs(fifo, tables.extended_prefix)
    /\ tables.extended_prefix => running = "shell"
    /\ fifo # <<>> => irq

Answered == Known(fifo, held, DownIn(tables), acted, forgotten, swallowed)

\* An interrupt without a byte finds the press that ended the last program.
Stale ==
    running = "shell" /\ irq /\ fifo = <<>> =>
        /\ last_byte \in [key : Keys, up : {FALSE}, press : acted \cap forgotten]
        /\ last_byte.key \notin Extended
        /\ held[last_byte.key] = last_byte.press

Presses == Kinds /\ Prefixes /\ Answered /\ Stale /\ ActedOnce /\ NoPressLost

(* A byte b was taken, and g is what is left: all there is to know for what*)
(* becomes of it.                                                          *)
Taken(b, g) ==
    /\ Left(presses, b, g, held, DownIn(tables), acted, forgotten, swallowed)
    /\ Pairs(g, FALSE)

LEMMA PressesAtFirst == Init => Presses
<1> SUFFICES ASSUME Init
             PROVE  Presses
  OBVIOUS
<1>1. /\ presses = 0 /\ held = [k \in Keys |-> 0] /\ fifo = <<>> /\ irq = FALSE
      /\ tables = [down |-> {}, extended_down |-> {}, shift |-> FALSE, extended_prefix |-> FALSE]
      /\ running = "shell" /\ acted = {} /\ twice = {} /\ lost = {} /\ forgotten = {} /\ swallowed = {}
  BY DEF Init, NotHeld, keyboard_driver_reset_state
<1>2. tables \in Tables /\ DownIn(tables) = {} /\ Apart(tables) /\ ~tables.extended_prefix
  <2>1. tables \in Tables
    BY <1>1 DEF Tables
  <2> QED
    BY <1>1, <2>1 DEF DownIn, Apart
<1>3. Kinds
  <2>1. fifo \in Queues(presses)
    BY <1>1 DEF Queues
  <2>2. held \in [Keys -> 0 .. presses] /\ presses \in 0 .. MAX_PRESSES
    BY <1>1, ConsoleAssumption
  <2> QED
    BY <1>1, <1>2, <2>1, <2>2 DEF Kinds
<1>4. DOMAIN fifo = {}
  BY <1>1
<1>5. Prefixes
  BY <1>1, <1>2, <1>4 DEF Prefixes, Pairs
<1>6. Answered
  <2>1. Ordered(fifo, held)
    BY <1>1, <1>4 DEF Ordered, NotHeld
  <2>2. KnownIsDown(fifo, held, DownIn(tables), acted, forgotten)
    BY <1>1, <1>4 DEF KnownIsDown
  <2>3. DownIsKnown(fifo, held, DownIn(tables), acted, swallowed) /\ InTurn(fifo, held, acted)
    BY <1>2, <1>4 DEF DownIsKnown, InTurn
  <2> QED
    BY <2>1, <2>2, <2>3 DEF Answered, Known
<1> QED
  BY <1>1, <1>3, <1>5, <1>6 DEF Presses, Stale, ActedOnce, NoPressLost

(***************************************************************************)
(* Every step keeps it.  First the user's.                                 *)
(***************************************************************************)
Grows(f, g, key, up, press) == g = f \o Codes(key, up, press)

\* What a press, a repeat or a release does to the keys held, n presses before it.
Sends(h, h2, key, up, press, n, n2) ==
    /\ \A k \in Keys : k # key => h2[k] = h[k]
    /\ \/ ~up /\ h[key] = NotHeld /\ press = n + 1 /\ n2 = n + 1 /\ h2[key] = press
       \/ ~up /\ h[key] = press /\ n2 = n /\ h2[key] = press
       \/ up /\ h[key] = press /\ n2 = n /\ h2[key] = NotHeld

\* What is true of the queue behind it.
Grown(n, g, h, D, A, G, S, x) ==
    g \in Queues(n) /\ Known(g, h, D, A, G, S) /\ Pairs(g, x) /\ g # <<>>

LEMMA QueueGrows ==
    ASSUME NEW n, n \in Nat, NEW f, f \in Queues(n), NEW h, h \in [Keys -> 0 .. n],
           NEW D, D \subseteq Keys, NEW A, A \subseteq 1 .. n, NEW G, NEW S, Known(f, h, D, A, G, S),
           NEW x, Pairs(f, x),
           NEW key \in Keys, NEW up \in BOOLEAN, NEW n2 \in Nat, NEW press \in 1 .. n2,
           NEW h2 \in [Keys -> 0 .. n2], Sends(h, h2, key, up, press, n, n2),
           NEW g, Grows(f, g, key, up, press)
    PROVE  Grown(n2, g, h2, D, A, G, S, x)
<1> DEFINE b == Byte(key, up, press)
<1>1. n2 \in {n, n + 1} /\ press \in 1 .. n + 1 /\ h2 \in [Keys -> 0 .. n + 1]
  BY DEF Sends
<1>2. b \in Bytes(n + 1) /\ b.key = key /\ b.up = up /\ b.press = press
  BY <1>1 DEF Byte, Bytes
<1>3. g \in Queues(n2) /\ \E z : Adds(f, g, b, z)
  <2>1. g = f \o Codes(key, up, press)
    BY DEF Grows
  <2>2. g \in Queues(n + 1) /\ (press <= n => g \in Queues(n)) /\ \E z : Adds(f, g, b, z)
    BY <1>1, <2>1, CodesAdd, Zenon
  <2>3. n2 = n => press <= n
    OBVIOUS
  <2> QED
    BY <1>1, <2>2, <2>3
<1> HIDE DEF b
<1>4. PICK z : Adds(f, g, b, z)
  BY <1>3
<1>5. Known(g, h2, D, A, G, S)
  <2>1. /\ \A k \in Keys : k # b.key => h2[k] = h[k]
        /\ \/ ~b.up /\ h[b.key] = NotHeld /\ b.press = n + 1 /\ h2[b.key] = b.press
           \/ ~b.up /\ h[b.key] = b.press /\ h2[b.key] = b.press
           \/ b.up /\ h[b.key] = b.press /\ h2[b.key] = NotHeld
    BY <1>2, Zenon DEF Sends
  <2> QED
    BY <1>1, <1>2, <1>4, <2>1, KnownAfterUser
<1>6. Pairs(g, x)
  BY <1>2, <1>4, PairsAfterUser
<1>7. g # <<>>
  BY <1>4 DEF Adds
<1> QED
  BY <1>3, <1>5, <1>6, <1>7 DEF Grown

LEMMA PressesAfterUser ==
    ASSUME Presses, NEW key \in Keys, NEW up \in BOOLEAN, NEW press \in 1 .. presses',
           presses' \in 0 .. MAX_PRESSES, presses <= presses',
           held' \in [Keys -> 0 .. presses'],
           Sends(held, held', key, up, press, presses, presses'),
           Queue(Codes(key, up, press))
    PROVE  Presses'
<1>1. /\ UNCHANGED <<tables, running, history, last_byte>>
      /\ Grows(fifo, fifo', key, up, press)
      /\ irq' = (irq \/ fifo = <<>>)
  BY DEF Queue, Grows, shell
<1>2. /\ presses \in Nat /\ held \in [Keys -> 0 .. presses] /\ fifo \in Queues(presses)
      /\ irq \in BOOLEAN /\ acted \subseteq 1 .. presses /\ presses' \in Nat
      /\ Answered /\ Pairs(fifo, tables.extended_prefix)
      /\ DownIn(tables) \subseteq Keys
  BY KeysAssumption DEF Presses, Kinds, Prefixes, DownIn, Apart, Tables
<1>3. /\ fifo' \in Queues(presses')
      /\ Known(fifo', held', DownIn(tables), acted, forgotten, swallowed)
      /\ Pairs(fifo', tables.extended_prefix) /\ fifo' # <<>>
  <2>1. Known(fifo, held, DownIn(tables), acted, forgotten, swallowed)
    BY <1>2 DEF Answered
  <2>2. Grows(fifo, fifo', key, up, press) /\ presses' \in Nat
    BY <1>1, <1>2
  <2>3. Grown(presses', fifo', held', DownIn(tables), acted, forgotten, swallowed, tables.extended_prefix)
    BY <1>2, <2>1, <2>2, QueueGrows, Zenon
  <2> QED
    BY <2>3 DEF Grown
<1>4. irq'
  BY <1>1, <1>2 DEF Presses, Prefixes
<1>5. /\ Apart(tables) /\ running \in {"shell", "edit", "read", "lelya"}
      /\ acted \in SUBSET (1 .. presses) /\ forgotten \in SUBSET (1 .. presses)
      /\ twice \in SUBSET (1 .. presses) /\ swallowed \in SUBSET Keys
  BY DEF Presses, Kinds
<1>6. 1 .. presses \subseteq 1 .. presses'
  BY <1>2
<1>7. UNCHANGED <<tables, running, acted, twice, lost, forgotten, swallowed>>
  BY <1>1 DEF history
<1>8. Kinds'
  BY <1>3, <1>4, <1>5, <1>6, <1>7 DEF Kinds
<1>9. Prefixes'
  BY <1>3, <1>4, <1>7 DEF Presses, Prefixes
<1>10. Answered'
  BY <1>3, <1>7 DEF Answered
<1>11. Stale'
  BY <1>3 DEF Stale
<1> QED
  BY <1>7, <1>8, <1>9, <1>10, <1>11 DEF Presses, ActedOnce, NoPressLost

LEMMA PressesAfterPress ==
    ASSUME Presses, NEW key \in Keys, Press(key)
    PROVE  Presses'
<1> DEFINE press == presses + 1
<1>1. /\ presses \in 0 .. MAX_PRESSES /\ presses < MAX_PRESSES /\ held \in [Keys -> 0 .. presses]
      /\ held[key] = NotHeld /\ presses' = press
      /\ held' = [held EXCEPT ![key] = press]
      /\ Queue(Codes(key, FALSE, press))
  BY DEF Presses, Kinds, Press, Held
<1>2. /\ press \in 1 .. presses' /\ presses' \in 0 .. MAX_PRESSES /\ presses <= presses'
      /\ presses' = presses + 1 /\ press = presses + 1
  BY <1>1, ConsoleAssumption
<1>3. held' \in [Keys -> 0 .. presses']
  <2>1. press \in 0 .. presses' /\ 0 .. presses \subseteq 0 .. presses'
    BY <1>1, ConsoleAssumption
  <2> HIDE DEF press
  <2> QED
    BY <1>1, <2>1
<1>4. Sends(held, held', key, FALSE, press, presses, presses')
  <2> HIDE DEF press
  <2> QED
    BY <1>1, <1>2 DEF Sends
<1> HIDE DEF press
<1> QED
  BY <1>1, <1>2, <1>3, <1>4, PressesAfterUser

LEMMA PressesAfterRepeat ==
    ASSUME Presses, NEW key \in Keys, Repeat(key)
    PROVE  Presses'
<1> DEFINE press == held[key]
<1>1. /\ presses \in 0 .. MAX_PRESSES /\ held \in [Keys -> 0 .. presses]
      /\ press # NotHeld /\ presses' = presses /\ held' = held
      /\ Queue(Codes(key, FALSE, press))
  BY DEF Presses, Kinds, Repeat, Held, keyboard
<1>2. press \in 1 .. presses' /\ presses' \in 0 .. MAX_PRESSES /\ presses <= presses'
  BY <1>1 DEF NotHeld
<1>3. held' \in [Keys -> 0 .. presses']
  BY <1>1
<1>4. Sends(held, held', key, FALSE, press, presses, presses')
  BY <1>1 DEF Sends
<1> HIDE DEF press
<1> QED
  BY <1>1, <1>2, <1>3, <1>4, PressesAfterUser

LEMMA PressesAfterRelease ==
    ASSUME Presses, NEW key \in Keys, Release(key)
    PROVE  Presses'
<1> DEFINE press == held[key]
<1>1. /\ presses \in 0 .. MAX_PRESSES /\ held \in [Keys -> 0 .. presses]
      /\ press # NotHeld /\ presses' = presses
      /\ held' = [held EXCEPT ![key] = NotHeld]
      /\ Queue(Codes(key, TRUE, press))
  BY DEF Presses, Kinds, Release, Held
<1>2. press \in 1 .. presses' /\ presses' \in 0 .. MAX_PRESSES /\ presses <= presses'
  BY <1>1 DEF NotHeld
<1>3. held' \in [Keys -> 0 .. presses']
  BY <1>1 DEF NotHeld
<1>4. Sends(held, held', key, TRUE, press, presses, presses')
  BY <1>1 DEF Sends
<1> HIDE DEF press
<1> QED
  BY <1>1, <1>2, <1>3, <1>4, PressesAfterUser

(***************************************************************************)
(* Then what the computer reads.                                           *)
(***************************************************************************)
LEMMA InterruptTakes ==
    ASSUME Presses, KeyboardInterrupt, last_byte' # Prefix
    PROVE  /\ Taken(last_byte', fifo')
           /\ tables.extended_prefix <=> last_byte'.key \in Extended
           /\ irq' <=> fifo' # <<>>
<1>1. /\ presses \in Nat /\ fifo \in Queues(presses) /\ held \in [Keys -> 0 .. presses]
      /\ acted \in SUBSET (1 .. presses) /\ tables.extended_prefix \in BOOLEAN
      /\ Known(fifo, held, DownIn(tables), acted, forgotten, swallowed)
      /\ Pairs(fifo, tables.extended_prefix)
  BY DEF Presses, Kinds, Prefixes, Answered, Apart, Tables
<1>2. irq' = (Len(fifo) > 1) /\ running = "shell" /\ irq
  BY DEF KeyboardInterrupt
<1>3. CASE fifo = <<>>
  <2>1. last_byte' = last_byte /\ fifo' = fifo
    BY <1>3 DEF KeyboardInterrupt
  <2>2. /\ last_byte \in [key : Keys, up : {FALSE}, press : acted \cap forgotten]
        /\ last_byte.key \notin Extended
        /\ held[last_byte.key] = last_byte.press
    BY <1>2, <1>3 DEF Presses, Stale
  <2>3. Left(presses, last_byte, fifo, held, DownIn(tables), acted, forgotten, swallowed)
    BY <1>1, <1>3, <2>2, LastIsReadAgain
  <2>4. ~tables.extended_prefix /\ Pairs(fifo, FALSE)
    <3>1. 1 \notin DOMAIN fifo
      BY <1>3
    <3> QED
      BY <1>1, <3>1 DEF Pairs
  <2>5. ~irq'
    <3>1. ~(Len(fifo) > 1)
      BY <1>3
    <3> QED
      BY <1>2, <3>1
  <2> QED
    BY <1>3, <2>1, <2>2, <2>3, <2>4, <2>5 DEF Taken
<1>4. CASE fifo # <<>>
  <2>1. last_byte' = fifo[1] /\ Drops(fifo, 1, fifo')
    BY <1>4 DEF KeyboardInterrupt, Reads, Drops
  <2>2. /\ Left(presses, fifo[1], fifo', held, DownIn(tables), acted, forgotten, swallowed)
        /\ Pairs(fifo', FALSE) /\ (tables.extended_prefix <=> fifo[1].key \in Extended)
        /\ Len(fifo) > 1 <=> fifo' # <<>>
    BY <1>1, <1>4, <2>1, HeadIsRead, Zenon
  <2> QED
    BY <1>2, <2>1, <2>2 DEF Taken
<1> QED
  BY <1>3, <1>4

LEMMA PollTakes ==
    ASSUME Presses, NEW program, program # "shell", Polls(program)
    PROVE  /\ Taken(PolledByte, fifo')
           /\ PolledExtended <=> PolledByte.key \in Extended
           /\ irq /\ irq' /\ last_byte' = PolledByte /\ ~tables.extended_prefix
<1>1. /\ presses \in Nat /\ fifo \in Queues(presses) /\ held \in [Keys -> 0 .. presses]
      /\ acted \in SUBSET (1 .. presses)
      /\ Known(fifo, held, DownIn(tables), acted, forgotten, swallowed)
      /\ Pairs(fifo, FALSE) /\ ~tables.extended_prefix
  BY DEF Presses, Kinds, Prefixes, Answered, Polls, Pairs
<1>2. fifo # <<>> /\ irq /\ irq' = irq /\ Head(fifo) = fifo[1]
  <2>1. fifo # <<>> /\ irq' = irq /\ fifo \in Seq({Prefix} \cup Bytes(presses))
    BY <1>1 DEF Polls, Queues
  <2> QED
    BY <2>1 DEF Presses, Prefixes
<1>3. CASE fifo[1] = Prefix
  <2>1. PolledExtended /\ PolledByte = fifo[2] /\ last_byte' = fifo[2] /\ Drops(fifo, 2, fifo')
    BY <1>2, <1>3 DEF PolledExtended, PolledByte, Polls, Reads, Drops
  <2>2. /\ Left(presses, fifo[2], fifo', held, DownIn(tables), acted, forgotten, swallowed)
        /\ Pairs(fifo', FALSE) /\ fifo[2].key \in Extended
    BY <1>1, <1>2, <1>3, <2>1, PairIsRead, Zenon
  <2> QED
    BY <1>1, <1>2, <2>1, <2>2 DEF Taken
<1>4. CASE fifo[1] # Prefix
  <2>1. ~PolledExtended /\ PolledByte = fifo[1] /\ last_byte' = fifo[1] /\ Drops(fifo, 1, fifo')
    BY <1>2, <1>4 DEF PolledExtended, PolledByte, Polls, Reads, Drops
  <2>2. /\ Left(presses, fifo[1], fifo', held, DownIn(tables), acted, forgotten, swallowed)
        /\ Pairs(fifo', FALSE) /\ fifo[1].key \notin Extended
    BY <1>1, <1>2, <1>4, <2>1, HeadIsRead, Zenon
  <2> QED
    BY <1>1, <1>2, <2>1, <2>2 DEF Taken
<1> QED
  BY <1>3, <1>4

(***************************************************************************)
(* What becomes of the byte.  All that a step leaves to be shown then: the *)
(* keys D that are down after it, and that the rest of the queue is f.     *)
(***************************************************************************)
Settled(f, D) ==
    /\ f \in Queues(presses) /\ Pairs(f, FALSE)
    /\ Known(f, held, D, acted', forgotten', swallowed')
    /\ acted' \in SUBSET (1 .. presses) /\ forgotten' \in SUBSET (1 .. presses)
    /\ twice' \in SUBSET (1 .. presses) /\ swallowed' \in SUBSET Keys
    /\ twice' \subseteq forgotten' /\ lost' = {}

LEMMA TakenIsByte ==
    ASSUME Presses, NEW b, NEW g, Taken(b, g)
    PROVE  /\ b \in Bytes(presses) /\ b.press \in 1 .. presses /\ b.key \in Keys /\ b.up \in BOOLEAN
           /\ g \in Queues(presses) /\ Pairs(g, FALSE)
           /\ presses \in Nat
<1>1. b \in Bytes(presses) /\ g \in Queues(presses) /\ Pairs(g, FALSE)
  BY DEF Taken, Left
<1>2. b.press \in 1 .. presses /\ b.key \in Keys /\ b.up \in BOOLEAN
  BY <1>1 DEF Bytes
<1>3. presses \in Nat
  BY DEF Presses, Kinds
<1> QED
  BY <1>1, <1>2, <1>3

LEMMA AnswersSettle ==
    ASSUME Presses, NEW b, NEW g, Taken(b, g), NEW t, NEW r, Driven(t, b, r),
           DownIn(t) = DownIn(tables), Answers(b, r)
    PROVE  Settled(g, DownIn(r.tables))
<1> DEFINE D == DownIn(tables)
<1>1. /\ b \in Bytes(presses) /\ b.press \in 1 .. presses /\ b.key \in Keys /\ b.up \in BOOLEAN
      /\ g \in Queues(presses) /\ Pairs(g, FALSE) /\ presses \in Nat
  BY TakenIsByte
<1>2. Left(presses, b, g, held, D, acted, forgotten, swallowed)
  BY DEF Taken
<1>3. /\ acted \in SUBSET (1 .. presses) /\ forgotten \in SUBSET (1 .. presses)
      /\ twice \in SUBSET (1 .. presses) /\ swallowed \in SUBSET Keys
      /\ twice \subseteq forgotten /\ lost = {}
  BY DEF Presses, Kinds, ActedOnce, NoPressLost
<1>4. CASE r.event # NoEvent
  <2>1. ~b.up /\ DownIn(r.tables) = D \cup {b.key} /\ (b.key = "shift" \/ b.key \notin D)
    BY <1>4 DEF Driven
  <2>2. /\ acted' = acted \cup {b.press} /\ UNCHANGED <<lost, forgotten, swallowed>>
        /\ twice' = IF b.key = "shift" THEN twice ELSE twice \cup ({b.press} \cap acted)
    BY <1>4 DEF Answers
  <2>3. Known(g, held, D \cup {b.key}, acted \cup {b.press}, forgotten, swallowed)
    BY <1>1, <1>2, <2>1, KnownAfterEvent
  <2>4. b.press \in acted \ forgotten => b.key \in D
    BY <1>2, <2>1 DEF Left
  <2>5. twice' \subseteq forgotten /\ twice' \in SUBSET (1 .. presses)
    BY <1>3, <2>1, <2>2, <2>4
  <2> HIDE DEF D
  <2> QED
    BY <1>1, <1>3, <2>1, <2>2, <2>3, <2>5 DEF Settled
<1>5. CASE r.event = NoEvent /\ b.up
  <2>1. DownIn(r.tables) = D \ {b.key}
    BY <1>5 DEF Driven
  <2>2. UNCHANGED <<acted, twice, lost, forgotten>> /\ swallowed' = swallowed \ {b.key}
    BY <1>3, <1>5 DEF Answers
  <2>3. Known(g, held, D \ {b.key}, acted, forgotten, swallowed \ {b.key})
    BY <1>1, <1>2, <1>5, KnownAfterRelease
  <2> HIDE DEF D
  <2> QED
    BY <1>1, <1>3, <2>1, <2>2, <2>3 DEF Settled
<1>6. CASE r.event = NoEvent /\ ~b.up
  <2>1. b.key \in D /\ DownIn(r.tables) = D
    BY <1>6 DEF Driven
  <2>2. b.press \notin acted => b.key \in swallowed
    BY <1>2, <1>6, <2>1, NewPressIsUp, <1>1
  <2>3. UNCHANGED <<acted, twice, lost, swallowed>> /\ forgotten' \in {forgotten, forgotten \cup {b.press}}
    BY <1>6, <2>2 DEF Answers
  <2>4. Known(g, held, D, acted, forgotten', swallowed)
    BY <1>1, <1>2, <1>6, <2>3, KnownAfterRepeat
  <2> HIDE DEF D
  <2> QED
    BY <1>1, <1>3, <2>1, <2>3, <2>4 DEF Settled
<1> QED
  BY <1>1, <1>4, <1>5, <1>6

LEMMA ForgettingSettles ==
    ASSUME Presses, NEW b, NEW g, Taken(b, g), AnswersAndForgets(b)
    PROVE  /\ Settled(g, DownIn(tables')) /\ Apart(tables') /\ ~tables'.extended_prefix
           /\ b.press \in acted' \cap forgotten'
<1>1. /\ b.press \in 1 .. presses /\ g \in Queues(presses) /\ Pairs(g, FALSE) /\ presses \in Nat
  BY TakenIsByte
<1>2. Left(presses, b, g, held, DownIn(tables), acted, forgotten, swallowed)
  BY DEF Taken
<1>3. /\ acted \in SUBSET (1 .. presses) /\ forgotten \in SUBSET (1 .. presses)
      /\ twice \in SUBSET (1 .. presses) /\ twice \subseteq forgotten /\ lost = {}
  BY DEF Presses, Kinds, ActedOnce, NoPressLost
<1>4. /\ acted' = acted \cup {b.press} /\ twice' = twice \cup ({b.press} \cap acted)
      /\ forgotten' = forgotten \cup acted' /\ swallowed' = {} /\ lost' = lost
      /\ tables' = keyboard_driver_reset_state
  BY DEF AnswersAndForgets
<1>5. Apart(tables') /\ DownIn(tables') = {} /\ ~tables'.extended_prefix
  <2>1. keyboard_driver_reset_state \in Tables
    BY DEF keyboard_driver_reset_state, Tables
  <2> QED
    BY <1>4, <2>1 DEF keyboard_driver_reset_state, Apart, DownIn
<1>6. Known(g, held, {}, acted \cup {b.press}, forgotten', {})
  BY <1>1, <1>2, <1>4, KnownAfterClearing
<1> QED
  BY <1>1, <1>3, <1>4, <1>5, <1>6 DEF Settled

LEMMA PassedReleaseSettles ==
    ASSUME Presses, NEW b, NEW g, Taken(b, g), LelyaKeyUp, b = PolledByte
    PROVE  Settled(g, DownIn(tables))
<1>1. /\ b.key \in Keys /\ g \in Queues(presses) /\ Pairs(g, FALSE) /\ presses \in Nat
  BY TakenIsByte
<1>2. Left(presses, b, g, held, DownIn(tables), acted, forgotten, swallowed)
  BY DEF Taken
<1>3. /\ acted \in SUBSET (1 .. presses) /\ forgotten \in SUBSET (1 .. presses)
      /\ twice \in SUBSET (1 .. presses) /\ swallowed \in SUBSET Keys
      /\ twice \subseteq forgotten /\ lost = {}
  BY DEF Presses, Kinds, ActedOnce, NoPressLost
<1>4. /\ swallowed' = swallowed \cup ({b.key} \cap DownIn(tables))
      /\ UNCHANGED <<acted, twice, lost, forgotten>>
  BY DEF LelyaKeyUp, DownIn
<1>5. Known(g, held, DownIn(tables), acted, forgotten, swallowed \cup ({b.key} \cap DownIn(tables)))
  BY <1>1, <1>2, KnownAfterPassedRelease
<1> QED
  BY <1>1, <1>3, <1>4, <1>5 DEF Settled

LEMMA PassedPressSettles ==
    ASSUME Presses, NEW b, NEW g, Taken(b, g), LelyaKeyDown, b = PolledByte
    PROVE  Settled(g, DownIn(tables)) /\ b.press \in acted' \cap forgotten' /\ ~b.up
<1>1. /\ b.press \in 1 .. presses /\ g \in Queues(presses) /\ Pairs(g, FALSE) /\ presses \in Nat
  BY TakenIsByte
<1>2. Left(presses, b, g, held, DownIn(tables), acted, forgotten, swallowed)
  BY DEF Taken
<1>3. /\ acted \in SUBSET (1 .. presses) /\ forgotten \in SUBSET (1 .. presses)
      /\ twice \in SUBSET (1 .. presses) /\ swallowed \in SUBSET Keys
      /\ twice \subseteq forgotten /\ lost = {}
  BY DEF Presses, Kinds, ActedOnce, NoPressLost
<1>4. /\ acted' = acted \cup {b.press} /\ forgotten' = forgotten \cup {b.press} /\ ~b.up
      /\ UNCHANGED <<twice, lost, swallowed>>
  BY DEF LelyaKeyDown
<1>5. Known(g, held, DownIn(tables), acted \cup {b.press}, forgotten \cup {b.press}, swallowed)
  BY <1>1, <1>2, <1>4, KnownAfterPassedPress
<1> QED
  BY <1>1, <1>3, <1>4, <1>5 DEF Settled

(* A step that settles its byte keeps the invariant.                       *)
LEMMA PressesAfterTaken ==
    ASSUME Presses, Settled(fifo', DownIn(tables')), Apart(tables'), ~tables'.extended_prefix,
           UNCHANGED keyboard, irq' \in BOOLEAN, fifo' # <<>> => irq',
           running' \in {"shell", "edit", "read", "lelya"}, Stale'
    PROVE  Presses'
<1>1. /\ presses \in 0 .. MAX_PRESSES /\ held \in [Keys -> 0 .. presses]
      /\ presses' = presses /\ held' = held
  BY DEF Presses, Kinds, keyboard
<1>2. Kinds'
  BY <1>1 DEF Settled, Kinds
<1>3. Prefixes'
  <2>1. Pairs(fifo', tables'.extended_prefix)
    BY DEF Settled, Pairs
  <2> QED
    BY <2>1 DEF Prefixes
<1>4. Answered'
  BY <1>1 DEF Settled, Answered
<1> QED
  BY <1>2, <1>3, <1>4 DEF Settled, Presses, ActedOnce, NoPressLost

LEMMA EndIsKnown ==
    ASSUME NEW b, Taken(b, fifo'), ~b.up, b.key \notin Extended, b.key \in Keys,
           b.press \in acted' \cap forgotten', last_byte' = b, b \in Bytes(presses),
           UNCHANGED keyboard
    PROVE  Stale'
<1>1. ASSUME fifo' = <<>>
      PROVE  held[b.key] = b.press
  <2>1. \/ held[b.key] = b.press
        \/ \E j \in DOMAIN fifo' : fifo'[j] = Byte(b.key, TRUE, b.press)
    BY DEF Taken, Left
  <2>2. DOMAIN fifo' = {}
    BY <1>1
  <2> QED
    BY <2>1, <2>2
<1>2. b \in [key : Keys, up : {FALSE}, press : acted' \cap forgotten']
  BY DEF Bytes
<1>3. held' = held
  BY DEF keyboard
<1> QED
  BY <1>1, <1>2, <1>3 DEF Stale

(* The keyboard interrupt: a prefix is remembered, any other byte handled. *)
LEMMA PressesAfterInterrupt ==
    ASSUME Presses, KeyboardInterrupt
    PROVE  Presses'
<1>0. /\ running = "shell" /\ irq /\ irq' = (Len(fifo) > 1) /\ irq' \in BOOLEAN
      /\ UNCHANGED keyboard /\ tables \in Tables /\ Apart(tables)
  BY DEF KeyboardInterrupt, Presses, Kinds, Apart
<1>1. CASE last_byte' = Prefix
  <2>1. fifo # <<>>
    <3>1. ASSUME fifo = <<>>
          PROVE  FALSE
      <4>1. last_byte' = last_byte /\ last_byte.key \in Keys
        BY <1>0, <3>1 DEF KeyboardInterrupt, Presses, Stale
      <4> QED
        BY <1>1, <4>1, KeysAssumption DEF Prefix
    <3> QED
      BY <3>1
  <2>2. fifo[1] = Prefix /\ Drops(fifo, 1, fifo')
    BY <1>1, <2>1 DEF KeyboardInterrupt, Reads, Drops
  <2>3. /\ tables' = [tables EXCEPT !.extended_prefix = TRUE]
        /\ UNCHANGED <<running, acted, twice, lost, forgotten, swallowed>>
    BY <1>1 DEF KeyboardInterrupt, shell, history
  <2>4. /\ presses \in Nat /\ fifo \in Queues(presses) /\ tables.extended_prefix \in BOOLEAN
        /\ Known(fifo, held, DownIn(tables), acted, forgotten, swallowed)
        /\ Pairs(fifo, tables.extended_prefix)
    BY DEF Presses, Kinds, Prefixes, Answered, Apart, Tables
  <2>5. /\ fifo' \in Queues(presses)
        /\ Known(fifo', held, DownIn(tables), acted, forgotten, swallowed)
        /\ Pairs(fifo', TRUE) /\ Len(fifo) > 1 /\ fifo' # <<>>
    BY <2>1, <2>2, <2>4, PrefixComesFirst, Zenon
  <2>6. /\ Apart(tables') /\ DownIn(tables') = DownIn(tables) /\ tables'.extended_prefix = TRUE
        /\ UNCHANGED <<held, presses>>
    BY <1>0, <2>3 DEF Apart, DownIn, Tables, keyboard
  <2>7. Kinds'
    BY <1>0, <2>3, <2>5, <2>6 DEF Presses, Kinds
  <2>8. Prefixes'
    BY <1>0, <2>3, <2>5, <2>6 DEF Prefixes
  <2>9. Answered' /\ Stale'
    BY <2>3, <2>5, <2>6 DEF Answered, Stale
  <2> QED
    BY <2>3, <2>7, <2>8, <2>9 DEF Presses, ActedOnce, NoPressLost
<1>2. CASE last_byte' # Prefix
  <2> DEFINE b == last_byte'
             t == [tables EXCEPT !.extended_prefix = FALSE]
             r == keyboard_driver_translate_scancode(t, tables.extended_prefix, b)
  <2>1. /\ Taken(b, fifo') /\ (tables.extended_prefix <=> b.key \in Extended)
        /\ irq' <=> fifo' # <<>>
    BY <1>2, InterruptTakes
  <2>2. presses \in Nat /\ b \in Bytes(presses) /\ tables.extended_prefix \in BOOLEAN
    BY <1>0, <2>1, TakenIsByte DEF Tables
  <2>3. Apart(t) /\ DownIn(t) = DownIn(tables) /\ t.extended_prefix = FALSE
    BY <1>0 DEF Apart, DownIn, Tables
  <2>4. shell_input_handle_event(b, r)
    BY <1>2 DEF KeyboardInterrupt
  <2> HIDE DEF t
  <2>5. Driven(t, b, r)
    BY <2>1, <2>2, <2>3, DriverAnswers
  <2>6. Apart(r.tables) /\ ~r.tables.extended_prefix
    BY <2>3, <2>5 DEF Driven
  <2>7. Stale'
    BY <2>1 DEF Stale
  <2> HIDE DEF b, r
  <2>8. CASE tables' = r.tables /\ Answers(b, r) /\ running' \in {running, "lelya"}
    <3>1. Settled(fifo', DownIn(r.tables))
      BY <2>1, <2>3, <2>5, <2>8, AnswersSettle
    <3> QED
      BY <1>0, <2>1, <2>6, <2>7, <2>8, <3>1, PressesAfterTaken
  <2>9. CASE AnswersAndForgets(b) /\ running' \in {"edit", "read"}
    <3>1. Settled(fifo', DownIn(tables')) /\ Apart(tables') /\ ~tables'.extended_prefix
      BY <2>1, <2>9, ForgettingSettles
    <3> QED
      BY <1>0, <2>1, <2>7, <2>9, <3>1, PressesAfterTaken
  <2> QED
    BY <2>4, <2>8, <2>9 DEF shell_input_handle_event, RunCommand, RunEditor, RunReader, RunLelya
<1> QED
  BY <1>1, <1>2

(* What a program polls, as long as it goes on.                            *)
LEMMA PressesAfterPolling ==
    ASSUME Presses, NEW program \in {"edit", "read", "lelya"}, Polls(program), Translates,
           UNCHANGED running
    PROVE  Presses'
<1>1. /\ Taken(PolledByte, fifo') /\ (PolledExtended <=> PolledByte.key \in Extended)
      /\ irq' /\ ~tables.extended_prefix
  BY PollTakes
<1>2. presses \in Nat /\ PolledByte \in Bytes(presses) /\ PolledExtended \in BOOLEAN /\ Apart(tables)
  BY <1>1, TakenIsByte DEF Presses, Kinds, PolledExtended
<1>3. Driven(tables, PolledByte, Polled)
  BY <1>1, <1>2, DriverAnswers DEF Polled
<1>4. tables' = Polled.tables /\ Answers(PolledByte, Polled)
  BY DEF Translates
<1>5. Settled(fifo', DownIn(tables'))
  BY <1>1, <1>3, <1>4, AnswersSettle
<1>6. Apart(tables') /\ ~tables'.extended_prefix
  BY <1>1, <1>3, <1>4 DEF Driven
<1>7. running' = program /\ Stale' /\ UNCHANGED keyboard /\ irq' \in BOOLEAN
  BY <1>1 DEF Polls, Stale, Presses, Kinds
<1> QED
  BY <1>1, <1>5, <1>6, <1>7, PressesAfterTaken

(* What a program polls last, or input_read_int, after which it clears the *)
(* driver's table: a key that is not extended.                             *)
LEMMA PressesAfterEnd ==
    ASSUME Presses, NEW program \in {"edit", "read"}, Polls(program), NEW key, key # "nothing",
           IsKey(key), AnswersAndForgets(PolledByte), running' \in {"shell", running}
    PROVE  Presses'
<1>1. /\ Taken(PolledByte, fifo') /\ (PolledExtended <=> PolledByte.key \in Extended)
      /\ irq' /\ last_byte' = PolledByte
  BY PollTakes
<1>2. /\ presses \in Nat /\ PolledByte \in Bytes(presses) /\ PolledByte.key \in Keys
      /\ PolledExtended \in BOOLEAN /\ Apart(tables) /\ irq' \in BOOLEAN
  BY <1>1, TakenIsByte DEF Presses, Kinds, PolledExtended, Polls
<1>3. Driven(tables, PolledByte, Polled)
  BY <1>1, <1>2, DriverAnswers DEF Polled
<1>4. Polled.event # NoEvent
  BY DEF IsKey, NoEvent
<1>5. ~PolledByte.up /\ PolledByte.key \notin Extended
  BY <1>3, <1>4 DEF Driven, IsKey
<1>6. /\ Settled(fifo', DownIn(tables')) /\ Apart(tables') /\ ~tables'.extended_prefix
      /\ PolledByte.press \in acted' \cap forgotten'
  BY <1>1, ForgettingSettles
<1>7. UNCHANGED keyboard /\ running = program
  BY DEF Polls
<1>8. Stale'
  BY <1>1, <1>2, <1>5, <1>6, <1>7, EndIsKnown
<1> QED
  BY <1>1, <1>2, <1>6, <1>7, <1>8, PressesAfterTaken

LEMMA PressesAfterLelya ==
    ASSUME Presses, LelyaKeyUp \/ LelyaKeyDown
    PROVE  Presses'
<1>1. Polls("lelya") /\ UNCHANGED tables
  BY DEF LelyaKeyUp, LelyaKeyDown
<1>2. Taken(PolledByte, fifo') /\ irq' /\ last_byte' = PolledByte /\ ~tables.extended_prefix
  BY <1>1, PollTakes
<1>3. /\ presses \in Nat /\ PolledByte \in Bytes(presses) /\ PolledByte.key \in Keys
      /\ Apart(tables) /\ irq' \in BOOLEAN /\ UNCHANGED keyboard /\ running = "lelya"
  BY <1>1, <1>2, TakenIsByte DEF Presses, Kinds, Polls
<1>4. CASE LelyaKeyUp
  <2>1. Settled(fifo', DownIn(tables))
    BY <1>2, <1>4, PassedReleaseSettles
  <2>2. running' = running
    BY <1>4 DEF LelyaKeyUp, shell
  <2>3. Stale'
    BY <1>3, <2>2 DEF Stale
  <2> QED
    BY <1>1, <1>2, <1>3, <2>1, <2>2, <2>3, PressesAfterTaken
<1>5. CASE LelyaKeyDown
  <2>1. /\ Settled(fifo', DownIn(tables)) /\ ~PolledByte.up
        /\ PolledByte.press \in acted' \cap forgotten'
    BY <1>2, <1>5, PassedPressSettles
  <2>2. \/ running' = running
        \/ running' = "shell" /\ PolledByte.key = "esc"
    BY <1>5 DEF LelyaKeyDown, ProgramEnds, shell
  <2>3. PolledByte.key = "esc" => PolledByte.key \notin Extended
    BY KeysAssumption
  <2>4. PolledByte.key = "esc" => Stale'
    BY <1>2, <1>3, <2>1, <2>3, EndIsKnown
  <2>5. Stale'
    BY <1>3, <2>2, <2>4 DEF Stale
  <2> QED
    BY <1>1, <1>2, <1>3, <2>1, <2>2, <2>5, PressesAfterTaken
<1> QED
  BY <1>4, <1>5

LEMMA PressesAfterStep == Presses /\ [Next]_vars => Presses'
<1> SUFFICES ASSUME Presses, [Next]_vars
             PROVE  Presses'
  OBVIOUS
<1>1. CASE User
  BY <1>1, PressesAfterPress, PressesAfterRepeat, PressesAfterRelease DEF User
<1>2. CASE KeyboardInterrupt
  BY <1>2, PressesAfterInterrupt
<1>3. CASE EditorKey \/ EditorSaves
  <2>1. Polls("edit") /\ Translates /\ UNCHANGED running
    BY <1>3 DEF EditorKey, EditorSaves, shell
  <2> QED
    BY <2>1, PressesAfterPolling
<1>4. CASE EditorExits
  <2>1. /\ Polls("edit") /\ IsKey("esc") /\ AnswersAndForgets(PolledByte) /\ running' = "shell"
    BY <1>4 DEF EditorExits, ProgramEnds
  <2> QED
    BY <2>1, PressesAfterEnd
<1>5. CASE ReadKey
  <2>1. Polls("read") /\ Translates /\ UNCHANGED running
    BY <1>5 DEF ReadKey, shell
  <2> QED
    BY <2>1, PressesAfterPolling
<1>6. CASE ReadEnds
  <2>1. /\ Polls("read") /\ IsKey("enter") /\ AnswersAndForgets(PolledByte)
        /\ running' \in {"shell", running}
    BY <1>6 DEF ReadEnds, ProgramEnds, shell
  <2> QED
    BY <2>1, PressesAfterEnd
<1>7. CASE LelyaKeyUp \/ LelyaKeyDown
  BY <1>7, PressesAfterLelya
<1>8. CASE UNCHANGED vars
  <2>1. UNCHANGED <<held, presses, fifo, last_byte, irq, tables, running>>
    BY <1>8 DEF vars, keyboard, controller, shell
  <2>2. UNCHANGED <<acted, twice, lost, forgotten, swallowed>>
    BY <1>8 DEF vars, history
  <2> QED
    BY <2>1, <2>2 DEF Presses, Kinds, Prefixes, Answered, Stale, ActedOnce, NoPressLost
<1> QED
  BY <1>1, <1>2, <1>3, <1>4, <1>5, <1>6, <1>7, <1>8 DEF Next, Computer

(***************************************************************************)
(* The shell's line, the number being read, and the table of `lelya`.      *)
(***************************************************************************)
Typing ==
    /\ line \in Seq(KeyCharacters) /\ Len(line) < LINE_SIZE
    /\ number \in Seq({"1"}) /\ Len(number) < NUMBER_SIZE
    /\ local_down \in SUBSET Keys

\* A character appended or the last one taken away, in a buffer of that size.
LEMMA Edited ==
    ASSUME NEW T, NEW s \in Seq(T), NEW size \in Nat, Len(s) < size, NEW c \in T
    PROVE  /\ Len(s) < size - 1 => Append(s, c) \in Seq(T) /\ Len(Append(s, c)) < size
           /\ s # <<>> => /\ SubSeq(s, 1, Len(s) - 1) \in Seq(T)
                          /\ Len(SubSeq(s, 1, Len(s) - 1)) < size
<1>1. ASSUME Len(s) < size - 1
      PROVE  Append(s, c) \in Seq(T) /\ Len(Append(s, c)) < size
  <2>1. Append(s, c) \in Seq(T) /\ Len(Append(s, c)) = Len(s) + 1 /\ Len(s) \in Nat
    OBVIOUS
  <2> QED
    BY <1>1, <2>1
<1>2. ASSUME s # <<>>
      PROVE  SubSeq(s, 1, Len(s) - 1) \in Seq(T) /\ Len(SubSeq(s, 1, Len(s) - 1)) < size
  <2> DEFINE n == Len(s) - 1
             u == SubSeq(s, 1, n)
  <2>1. Len(s) \in Nat /\ Len(s) # 0 /\ n \in Nat /\ n < size /\ \A i \in 1 .. n : s[i] \in T
    BY <1>2
  <2> HIDE DEF n
  <2>2. u \in Seq(T) /\ Len(u) = IF 1 <= n THEN n - 1 + 1 ELSE 0
    BY <2>1, SubSeqProperties
  <2>3. Len(u) = n
    BY <2>1, <2>2
  <2> QED
    BY <2>1, <2>2, <2>3 DEF n
<1> QED
  BY <1>1, <1>2

LEMMA TypingAtFirst == Init => Typing
<1> SUFFICES ASSUME Init
             PROVE  Typing
  OBVIOUS
<1>1. line \in Lines /\ number = <<>> /\ local_down = {}
  BY DEF Init
<1>2. line \in Seq(KeyCharacters) /\ Len(line) < LINE_SIZE
  BY <1>1, TextsAssumption
<1>3. number \in Seq({"1"}) /\ Len(number) < NUMBER_SIZE
  BY <1>1, ConsoleAssumption
<1> QED
  BY <1>1, <1>2, <1>3 DEF Typing

LEMMA TypedFits ==
    ASSUME Typing, NEW c \in KeyCharacters
    PROVE  Typed(c) \in Seq(KeyCharacters) /\ Len(Typed(c)) < LINE_SIZE
<1>1. line \in Seq(KeyCharacters) /\ Len(line) < LINE_SIZE /\ LINE_SIZE \in Nat
  BY ConsoleAssumption DEF Typing
<1>2. /\ Len(line) < LINE_SIZE - 1 => /\ Append(line, c) \in Seq(KeyCharacters)
                                      /\ Len(Append(line, c)) < LINE_SIZE
      /\ line # <<>> => /\ SubSeq(line, 1, Len(line) - 1) \in Seq(KeyCharacters)
                        /\ Len(SubSeq(line, 1, Len(line) - 1)) < LINE_SIZE
  BY <1>1, Edited
<1>3. \/ Typed(c) = line
      \/ line # <<>> /\ Typed(c) = SubSeq(line, 1, Len(line) - 1)
      \/ Len(line) < LINE_SIZE - 1 /\ Typed(c) = Append(line, c)
  BY DEF Typed
<1> QED
  BY <1>1, <1>2, <1>3

LEMMA DigitsFit ==
    ASSUME Typing, NEW event
    PROVE  Digits(event) \in Seq({"1"}) /\ Len(Digits(event)) < NUMBER_SIZE
<1>1. /\ number \in Seq({"1"}) /\ Len(number) < NUMBER_SIZE /\ NUMBER_SIZE \in Nat
      /\ "1" \in {"1"}
  BY ConsoleAssumption DEF Typing
<1>2. /\ Len(number) < NUMBER_SIZE - 1 => /\ Append(number, "1") \in Seq({"1"})
                                          /\ Len(Append(number, "1")) < NUMBER_SIZE
      /\ number # <<>> => /\ SubSeq(number, 1, Len(number) - 1) \in Seq({"1"})
                          /\ Len(SubSeq(number, 1, Len(number) - 1)) < NUMBER_SIZE
  BY <1>1, Edited
<1>3. \/ Digits(event) = number
      \/ number # <<>> /\ Digits(event) = SubSeq(number, 1, Len(number) - 1)
      \/ Len(number) < NUMBER_SIZE - 1 /\ Digits(event) = Append(number, "1")
  BY DEF Digits
<1> QED
  BY <1>1, <1>2, <1>3

LEMMA TypingAfterInterrupt ==
    ASSUME Presses, Typing, KeyboardInterrupt
    PROVE  Typing'
<1>0. /\ line \in Seq(KeyCharacters) /\ Len(line) < LINE_SIZE
      /\ number \in Seq({"1"}) /\ Len(number) < NUMBER_SIZE /\ local_down \in SUBSET Keys
      /\ <<>> \in Seq(KeyCharacters) /\ <<>> \in Seq({"1"}) /\ Len(<<>>) = 0
      /\ 0 < LINE_SIZE /\ 0 < NUMBER_SIZE
  BY ConsoleAssumption DEF Typing
<1>1. CASE last_byte' = Prefix
  <2>1. UNCHANGED <<line, number, local_down>>
    BY <1>1 DEF KeyboardInterrupt, shell
  <2> QED
    BY <1>0, <2>1 DEF Typing
<1>2. CASE last_byte' # Prefix
  <2> DEFINE b == last_byte'
             t == [tables EXCEPT !.extended_prefix = FALSE]
             r == keyboard_driver_translate_scancode(t, tables.extended_prefix, b)
  <2>1. Taken(b, fifo') /\ (tables.extended_prefix <=> b.key \in Extended)
    BY <1>2, InterruptTakes
  <2>2. presses \in Nat /\ b \in Bytes(presses) /\ tables.extended_prefix \in BOOLEAN /\ Apart(t)
    BY <2>1, TakenIsByte DEF Presses, Kinds, Tables, Apart
  <2>3. shell_input_handle_event(b, r)
    BY <1>2 DEF KeyboardInterrupt
  <2> HIDE DEF t
  <2>4. Driven(t, b, r)
    BY <2>1, <2>2, DriverAnswers
  <2>5. r.event.character \in KeyCharacters
    BY <2>4 DEF Driven
  <2> HIDE DEF b, r
  <2>6. /\ line' \in {line, Typed(r.event.character), <<>>}
        /\ number' \in {number, <<>>} /\ local_down' \in {local_down, {}}
    BY <2>3 DEF shell_input_handle_event, RunCommand, RunEditor, RunReader, RunLelya
  <2> QED
    BY <1>0, <2>5, <2>6, TypedFits DEF Typing
<1> QED
  BY <1>1, <1>2

LEMMA TypingAfterStep == Presses /\ Typing /\ [Next]_vars => Typing'
<1> SUFFICES ASSUME Presses, Typing, [Next]_vars
             PROVE  Typing'
  OBVIOUS
<1>0. /\ line \in Seq(KeyCharacters) /\ Len(line) < LINE_SIZE
      /\ number \in Seq({"1"}) /\ Len(number) < NUMBER_SIZE /\ local_down \in SUBSET Keys
      /\ <<>> \in Seq(KeyCharacters) /\ <<>> \in Seq({"1"}) /\ Len(<<>>) = 0
      /\ 0 < LINE_SIZE /\ 0 < NUMBER_SIZE
  BY ConsoleAssumption DEF Typing
<1>1. CASE User
  <2>1. UNCHANGED <<line, number, local_down>>
    BY <1>1 DEF User, Press, Repeat, Release, Queue, shell
  <2> QED
    BY <1>0, <2>1 DEF Typing
<1>2. CASE KeyboardInterrupt
  BY <1>2, TypingAfterInterrupt
<1>3. CASE EditorKey \/ EditorSaves \/ EditorExits
  <2>1. line' \in {line, <<>>} /\ UNCHANGED <<number, local_down>>
    BY <1>3 DEF EditorKey, EditorSaves, EditorExits, ProgramEnds, shell
  <2> QED
    BY <1>0, <2>1 DEF Typing
<1>4. CASE ReadKey \/ ReadEnds
  <2>1. line' \in {line, <<>>} /\ UNCHANGED local_down
    BY <1>4 DEF ReadKey, ReadEnds, ProgramEnds, shell
  <2>2. number' \in {<<>>, Digits(Polled.event)}
    BY <1>4 DEF ReadKey, ReadEnds
  <2> QED
    BY <1>0, <2>1, <2>2, DigitsFit DEF Typing
<1>5. CASE LelyaKeyUp \/ LelyaKeyDown
  <2>1. Taken(PolledByte, fifo')
    BY <1>5, PollTakes DEF LelyaKeyUp, LelyaKeyDown
  <2>2. PolledByte.key \in Keys
    BY <2>1, TakenIsByte
  <2>3. /\ line' \in {line, <<>>} /\ UNCHANGED number
        /\ \/ local_down' = local_down \ {PolledByte.key}
           \/ local_down' = local_down \cup {PolledByte.key}
    BY <1>5 DEF LelyaKeyUp, LelyaKeyDown, ProgramEnds, shell
  <2> QED
    BY <1>0, <2>2, <2>3 DEF Typing
<1>6. CASE UNCHANGED vars
  <2>1. UNCHANGED <<line, number, local_down>>
    BY <1>6 DEF vars, shell
  <2> QED
    BY <1>0, <2>1 DEF Typing
<1> QED
  BY <1>1, <1>2, <1>3, <1>4, <1>5, <1>6 DEF Next, Computer

(***************************************************************************)
(* The editor and its file.                                                *)
(***************************************************************************)
Editing ==
    /\ Whole(ed)
    /\ file = Absent \/ (file \in Seq(Characters) /\ Len(file) < EDITOR_BUFFER_SIZE)
    /\ SavedIsShown

LEMMA EmptyEditor == Whole(NoEditor) /\ NoEditor.status # "File saved"
  BY LoadIsWhole DEF NoEditor

\* What is saved is a text that fits, of the editor that saves it.
LEMMA SavedTextFits ==
    ASSUME NEW e, Whole(e)
    PROVE  Text(e) \in Seq(Characters) /\ Len(Text(e)) < EDITOR_BUFFER_SIZE
<1>1. /\ e.len \in Nat /\ e.len < EDITOR_BUFFER_SIZE
      /\ \A i \in 1 .. e.len : e.buffer[i - 1] \in Characters
  <2>1. e.len \in 0 .. EDITOR_BUFFER_SIZE - 1 /\ e.buffer \in [Cells -> Characters \cup {NUL}]
    BY DEF Whole, Editors
  <2>2. e.len \in Nat /\ e.len < EDITOR_BUFFER_SIZE
    BY <2>1, SizesAssumption
  <2>3. ASSUME NEW i \in 1 .. e.len
        PROVE  e.buffer[i - 1] \in Characters
    <3>1. i - 1 \in Cells /\ i - 1 < e.len
      BY <2>2, SizesAssumption DEF Cells
    <3> QED
      BY <2>1, <3>1 DEF Whole
  <2> QED
    BY <2>2, <2>3
<1>2. Text(e) \in [1 .. e.len -> Characters]
  BY <1>1 DEF Text
<1>3. Text(e) \in Seq(Characters) /\ Len(Text(e)) = e.len
  BY <1>1, <1>2
<1> QED
  BY <1>1, <1>3

LEMMA EditingAfterStep == Editing /\ [Next]_vars => Editing'
<1> SUFFICES ASSUME Editing, [Next]_vars
             PROVE  Editing'
  OBVIOUS
<1>0. /\ Whole(ed) /\ SavedIsShown
      /\ file = Absent \/ (file \in Seq(Characters) /\ Len(file) < EDITOR_BUFFER_SIZE)
  BY DEF Editing
<1>1. CASE UNCHANGED <<ed, file>>
  BY <1>0, <1>1 DEF Editing, SavedIsShown
<1>2. ASSUME Whole(ed'), ed'.status # "File saved", UNCHANGED file
      PROVE  Editing'
  BY <1>0, <1>2 DEF Editing, SavedIsShown
<1>3. CASE User
  <2>1. UNCHANGED <<ed, file>>
    BY <1>3 DEF User, Press, Repeat, Release, Queue, editing
  <2> QED
    BY <1>1, <2>1
<1>4. CASE KeyboardInterrupt
  <2>1. \/ UNCHANGED <<ed, file>>
        \/ /\ UNCHANGED file
           /\ \E readable \in IF file = Absent THEN {FALSE} ELSE BOOLEAN :
                 ed' = editor_file_load(file, readable)
    BY <1>4 DEF KeyboardInterrupt, shell_input_handle_event, RunCommand, RunEditor, RunReader,
                RunLelya, editing
  <2>2. ASSUME NEW readable \in IF file = Absent THEN {FALSE} ELSE BOOLEAN,
               ed' = editor_file_load(file, readable)
        PROVE  Whole(ed') /\ ed'.status # "File saved"
    <3>1. /\ readable \in BOOLEAN
          /\ readable => file \in Seq(Characters) /\ Len(file) < EDITOR_BUFFER_SIZE
      BY <1>0
    <3> QED
      BY <2>2, <3>1, LoadIsWhole
  <2> QED
    BY <1>1, <1>2, <2>1, <2>2
<1>5. CASE EditorKey
  <2>1. UNCHANGED file /\ (ed' = ed \/ ed' = editor_input_handle_event(ed, Polled.event))
    BY <1>5 DEF EditorKey
  <2>2. CASE ed' = editor_input_handle_event(ed, Polled.event)
    <3>1. Whole(ed') /\ Keeps(ed, ed')
      BY <1>0, <2>2, EventIsWhole
    <3> QED
      BY <1>0, <2>1, <3>1 DEF Editing, SavedIsShown, Keeps
  <2> QED
    BY <1>1, <2>1, <2>2
<1>6. CASE EditorSaves
  <2>1. CASE file' = CString(ed.buffer) /\ ed' = [ed EXCEPT !.status = "File saved"]
    <3>1. Whole(ed') /\ Text(ed') = Text(ed)
      BY <1>0, <2>1, StatusIsWhole DEF Statuses
    <3>2. file' = Text(ed)
      BY <1>0, <2>1, SavesTheText
    <3>3. file' \in Seq(Characters) /\ Len(file') < EDITOR_BUFFER_SIZE
      BY <1>0, <3>2, SavedTextFits
    <3> QED
      BY <3>1, <3>2, <3>3 DEF Editing, SavedIsShown
  <2>2. CASE UNCHANGED file /\ ed' = [ed EXCEPT !.status = "Save failed"]
    <3>1. Whole(ed') /\ ed'.status = "Save failed"
      BY <1>0, <2>2, StatusIsWhole DEF Statuses
    <3> QED
      BY <1>2, <2>2, <3>1
  <2> QED
    BY <1>6, <2>1, <2>2 DEF EditorSaves
<1>7. CASE EditorExits
  <2>1. ed' = NoEditor /\ UNCHANGED file
    BY <1>7 DEF EditorExits
  <2> QED
    BY <1>2, <2>1, EmptyEditor
<1>8. CASE ReadKey \/ ReadEnds \/ LelyaKeyUp \/ LelyaKeyDown
  <2>1. UNCHANGED <<ed, file>>
    BY <1>8 DEF ReadKey, ReadEnds, LelyaKeyUp, LelyaKeyDown, editing
  <2> QED
    BY <1>1, <2>1
<1>9. CASE UNCHANGED vars
  BY <1>1, <1>9 DEF vars, editing
<1> QED
  BY <1>3, <1>4, <1>5, <1>6, <1>7, <1>8, <1>9 DEF Next, Computer

LEMMA EditingAtFirst == Init => Editing
<1> SUFFICES ASSUME Init
             PROVE  Editing
  OBVIOUS
<1>1. ed = NoEditor /\ file \in Files
  BY DEF Init
<1>2. file = Absent \/ (file \in Seq(Characters) /\ Len(file) < EDITOR_BUFFER_SIZE)
  BY <1>1, TextsAssumption
<1> QED
  BY <1>1, <1>2, EmptyEditor DEF Editing, SavedIsShown

(***************************************************************************)
(* Up and down, and where the cursor is drawn: true of every whole editor. *)
(***************************************************************************)
LEMMA RowsOfText ==
    ASSUME NEW e, Whole(e), NEW i \in 0 .. e.len
    PROVE  /\ e.len \in Nat /\ Row(e, i) \in Nat /\ Row(e, e.len) \in Nat /\ Col(e, i) \in Nat
           /\ EDITOR_TEXT_START_ROW <= Row(e, i) /\ Row(e, i) <= Row(e, e.len)
<1>1. e.len \in Nat /\ i \in Nat /\ 0 \in 0 .. e.len /\ e.len \in 0 .. e.len /\ 0 <= i /\ i <= e.len
  BY SizesAssumption DEF Whole, Editors
<1>2. Walk(RowsOf(e), ColsOf(e), e.len) /\ RowsOf(e)[0] = EDITOR_TEXT_START_ROW
  BY <1>1, TextIsWalked
<1>3. RowsOf(e)[0] <= RowsOf(e)[i] /\ RowsOf(e)[i] <= RowsOf(e)[e.len]
  BY <1>1, <1>2, WalkGoesOn
<1>4. RowsOf(e)[i] = Row(e, i) /\ RowsOf(e)[e.len] = Row(e, e.len)
  BY <1>1 DEF RowsOf
<1>5. \A n \in Nat : Row(e, n) \in Nat /\ Col(e, n) \in Nat
  <2> SUFFICES ASSUME NEW n \in Nat
               PROVE  Row(e, n) \in Nat /\ Col(e, n) \in Nat
    OBVIOUS
  <2>1. editor_cursor_get_visual_position(e, n) \in Places
    BY VisualPosition
  <2> QED
    BY <2>1, SizesAssumption DEF Places, Row, Col
<1> QED
  BY <1>1, <1>2, <1>3, <1>4, <1>5

LEMMA PlaceOfCursor ==
    ASSUME NEW e, Whole(e), NEW n \in Nat
    PROVE  /\ RowOf([e EXCEPT !.cursor = n]) = Row(e, n) /\ ColOf([e EXCEPT !.cursor = n]) = Col(e, n)
<1> DEFINE m == [e EXCEPT !.cursor = n]
<1>1. m.cursor = n /\ Row(m, n) = Row(e, n) /\ Col(m, n) = Col(e, n)
  BY CursorKeepsPlaces
<1>2. RowOf(m) = Row(m, m.cursor) /\ ColOf(m) = Col(m, m.cursor)
  BY DEF RowOf, ColOf, Row, Col
<1> HIDE DEF m
<1> QED
  BY <1>1, <1>2 DEF m

\* Of an editor e whose cursor went to m, a row further or a row back.
Moves(e, m, row) ==
    /\ RowOf(m) = row
    /\ \/ ColOf(m) = ColOf(e)
       \/ /\ ColOf(m) < ColOf(e)
          /\ m.cursor = e.len \/ RowOf([m EXCEPT !.cursor = @ + 1]) > RowOf(m)

LEMMA RowIsMoved ==
    ASSUME NEW e, Whole(e), NEW rows \in {-1, 1}, NEW m, m = CursorRow(e, rows)
    PROVE  IF RowOf(e) + rows \in EDITOR_TEXT_START_ROW .. Row(e, e.len)
           THEN Moves(e, m, RowOf(e) + rows)
           ELSE m = e
<1>1. RowOf(e) = Row(e, e.cursor) /\ ColOf(e) = Col(e, e.cursor)
  BY DEF RowOf, ColOf, Row, Col
<1> DEFINE to == Row(e, e.cursor) + rows
<1>2. IF to \in EDITOR_TEXT_START_ROW .. Row(e, e.len)
      THEN /\ m.cursor \in 0 .. e.len /\ m = [e EXCEPT !.cursor = m.cursor]
           /\ Row(e, m.cursor) = to
           /\ \/ Col(e, m.cursor) = Col(e, e.cursor)
              \/ /\ Col(e, m.cursor) < Col(e, e.cursor)
                 /\ m.cursor = e.len \/ Row(e, m.cursor + 1) > to
      ELSE m = e
  BY RowMoves
<1> HIDE DEF to
<1>3. CASE to \in EDITOR_TEXT_START_ROW .. Row(e, e.len)
  <2>1. PICK c \in 0 .. e.len : c = m.cursor /\ m = [e EXCEPT !.cursor = c]
    BY <1>2, <1>3
  <2>2. /\ Row(e, c) = to
        /\ \/ Col(e, c) = Col(e, e.cursor)
           \/ /\ Col(e, c) < Col(e, e.cursor)
              /\ c = e.len \/ Row(e, c + 1) > to
    BY <1>2, <1>3, <2>1
  <2>3. c \in Nat /\ c + 1 \in Nat
    BY RowsOfText
  <2>4. RowOf(m) = Row(e, c) /\ ColOf(m) = Col(e, c)
    BY <2>1, <2>3, PlaceOfCursor
  <2>5. [m EXCEPT !.cursor = @ + 1] = [e EXCEPT !.cursor = c + 1]
    BY <2>1 DEF Whole, Editors
  <2>6. RowOf([m EXCEPT !.cursor = @ + 1]) = Row(e, c + 1)
    BY <2>3, <2>5, PlaceOfCursor
  <2>7. Moves(e, m, to)
    BY <1>1, <2>1, <2>2, <2>4, <2>6 DEF Moves
  <2> QED
    BY <1>1, <1>3, <2>7 DEF to
<1>4. CASE to \notin EDITOR_TEXT_START_ROW .. Row(e, e.len)
  BY <1>1, <1>2, <1>4 DEF to
<1> QED
  BY <1>3, <1>4

LEMMA MovesVertically == Whole(ed) => VerticalMoves
<1> SUFFICES ASSUME Whole(ed)
             PROVE  VerticalMoves
  OBVIOUS
<1> DEFINE up == editor_cursor_move(ed, "up")
           down == editor_cursor_move(ed, "down")
<1>1. up = CursorRow(ed, -1) /\ down = CursorRow(ed, 1) /\ editor_cursor_move(up, "down") = CursorRow(up, 1)
  BY DEF editor_cursor_move
<1>2. ed.cursor \in 0 .. ed.len /\ ed.len \in Nat
  BY SizesAssumption DEF Whole, Editors
<1>3. /\ RowOf(ed) = Row(ed, ed.cursor) /\ ColOf(ed) = Col(ed, ed.cursor)
      /\ ColOf(up) = Col(up, up.cursor)
  BY DEF RowOf, ColOf, Row, Col
<1>4. /\ RowOf(ed) \in Nat /\ Row(ed, ed.len) \in Nat
      /\ EDITOR_TEXT_START_ROW <= RowOf(ed) /\ RowOf(ed) <= Row(ed, ed.len)
  BY <1>2, <1>3, RowsOfText
<1>5. RowOf([ed EXCEPT !.cursor = ed.len]) = Row(ed, ed.len)
  BY <1>2, PlaceOfCursor
<1> HIDE DEF up, down
<1>6. /\ RowOf(ed) + (-1) = RowOf(ed) - 1
      /\ RowOf(ed) > EDITOR_TEXT_START_ROW <=>
             RowOf(ed) + (-1) \in EDITOR_TEXT_START_ROW .. Row(ed, ed.len)
      /\ RowOf(ed) < Row(ed, ed.len) <=>
             RowOf(ed) + 1 \in EDITOR_TEXT_START_ROW .. Row(ed, ed.len)
  BY <1>4 DEF EDITOR_TEXT_START_ROW
<1>7. IF RowOf(ed) > EDITOR_TEXT_START_ROW THEN Moves(ed, up, RowOf(ed) - 1) ELSE up = ed
  <2>1. IF RowOf(ed) + (-1) \in EDITOR_TEXT_START_ROW .. Row(ed, ed.len)
        THEN Moves(ed, up, RowOf(ed) + (-1))
        ELSE up = ed
    BY <1>1, RowIsMoved
  <2> QED
    BY <1>6, <2>1
<1>8. IF RowOf(ed) < Row(ed, ed.len) THEN Moves(ed, down, RowOf(ed) + 1) ELSE down = ed
  <2>1. IF RowOf(ed) + 1 \in EDITOR_TEXT_START_ROW .. Row(ed, ed.len)
        THEN Moves(ed, down, RowOf(ed) + 1)
        ELSE down = ed
    BY <1>1, RowIsMoved
  <2> QED
    BY <1>6, <2>1
<1>9. ColOf(up) = ColOf(ed) /\ up # ed => editor_cursor_move(up, "down") = ed
  BY <1>1, <1>3, DownTakesBackUp
<1> QED
  BY <1>5, <1>7, <1>8, <1>9 DEF VerticalMoves, Moves, up, down

LEMMA DrawsTheCursor == Whole(ed) => CursorOnItsCharacter
BY CursorIsDrawnThere DEF CursorOnItsCharacter

(***************************************************************************)
(* The theorems.  They hold of every queue, file and sequence of keys, and *)
(* of any sizes of the buffers and the screen.                             *)
(***************************************************************************)
Inv == Presses /\ Typing /\ Editing

\* Every state the console reaches fits the invariant: presses are numbered and
\* their bytes come in order, prefixes stand before extended keys, the driver's
\* tables match the presses acted on, and the buffers hold what they should.
THEOREM InvariantHolds == FairSpec => []Inv
<1>1. Init => Inv
  BY PressesAtFirst, TypingAtFirst, EditingAtFirst DEF Inv
<1>2. Inv /\ [Next]_vars => Inv'
  BY PressesAfterStep, TypingAfterStep, EditingAfterStep DEF Inv
<1> QED
  BY <1>1, <1>2, PTL DEF FairSpec

\* The line and the number stay inside their buffers, the text and the cursor
\* inside the editor's, and every variable keeps its type (shell_input.c line 38,
\* input.c line 77, editor_buffer.c lines 4 and 19).
THEOREM TypesAreKept == FairSpec => []TypeOK
<1>1. Inv => TypeOK
  <2> SUFFICES ASSUME Inv
               PROVE  TypeOK
    OBVIOUS
  <2>1. /\ presses \in 0 .. MAX_PRESSES /\ held \in [Keys -> 0 .. presses] /\ irq \in BOOLEAN
        /\ tables \in Tables /\ running \in {"shell", "edit", "read", "lelya"}
        /\ acted \in SUBSET (1 .. presses) /\ forgotten \in SUBSET (1 .. presses)
        /\ twice \in SUBSET (1 .. presses) /\ lost = {} /\ swallowed \in SUBSET Keys
    BY DEF Inv, Presses, Kinds, Apart, NoPressLost
  <2>2. 0 .. presses \subseteq 0 .. MAX_PRESSES /\ 1 .. presses \subseteq 0 .. MAX_PRESSES
    BY <2>1, ConsoleAssumption
  <2>3. /\ held \in [Keys -> 0 .. MAX_PRESSES]
        /\ acted \cup twice \cup lost \cup forgotten \subseteq 0 .. MAX_PRESSES
    BY <2>1, <2>2
  <2>4. /\ ed.buffer \in [Cells -> Characters \cup {NUL}]
        /\ ed.len \in 0 .. EDITOR_BUFFER_SIZE - 1 /\ ed.cursor \in 0 .. ed.len
    BY SizesAssumption DEF Inv, Editing, Whole, Editors
  <2> QED
    BY <2>1, <2>3, <2>4 DEF Inv, Typing, Editing, TypeOK
<1> QED
  BY <1>1, InvariantHolds, PTL

\* A press is acted on once, however long its key repeats and whichever program
\* reads it, unless the driver's table was cleared meanwhile or `lelya` read past
\* it (keyboard_driver.c lines 36-44 and 118-126).
THEOREM PressesAreActedOnOnce == FairSpec => []ActedOnce
<1>1. Inv => ActedOnce
  BY DEF Inv, Presses
<1> QED
  BY <1>1, InvariantHolds, PTL

\* No press is taken for a repeat of another, unless `lelya` read the release
\* between them (keyboard_driver.c lines 91 and 119, shell_commands.c lines 58-79).
THEOREM PressesAreNotLost == FairSpec => []NoPressLost
<1>1. Inv => NoPressLost
  BY DEF Inv, Presses
<1> QED
  BY <1>1, InvariantHolds, PTL

\* The editor's buffer ends where its text does, so that what saving writes, up to
\* the first NUL, is the text (editor_buffer.c lines 8-10 and 23-25, editor_file.c
\* line 17).
THEOREM TextsEndAtNul == FairSpec => []TextEndsAtNul
<1>1. Inv => TextEndsAtNul
  BY SavesTheText DEF Inv, Editing, TextEndsAtNul
<1> QED
  BY <1>1, InvariantHolds, PTL

\* As long as the editor says "File saved", the file is the text on the screen
\* (editor_input.c lines 16-23 and every line that sets the message anew).
THEOREM SavedTextIsShown == FairSpec => []SavedIsShown
<1>1. Inv => SavedIsShown
  BY DEF Inv, Editing
<1> QED
  BY <1>1, InvariantHolds, PTL

\* The cursor is drawn on the character it stands in front of, for a text of any
\* length and a screen of any size, as long as the text did not move the rows up
\* (editor_render.c lines 22-27 against terminal.c lines 276-316).
THEOREM CursorStaysOnItsCharacter == FairSpec => []CursorOnItsCharacter
<1>1. Inv => CursorOnItsCharacter
  BY DrawsTheCursor DEF Inv, Editing
<1> QED
  BY <1>1, InvariantHolds, PTL

\* Up and down go one row, to the same column or to the end of a shorter row, and
\* down takes back an up that kept its column (editor_cursor.c lines 28-78).
THEOREM UpAndDownGoOneRow == FairSpec => []VerticalMoves
<1>1. Inv => VerticalMoves
  BY MovesVertically DEF Inv, Editing
<1> QED
  BY <1>1, InvariantHolds, PTL
=============================================================================
