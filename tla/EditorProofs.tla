----------------------------- MODULE EditorProofs -----------------------------
(***************************************************************************)
(* Theorems about Editor.                                                  *)
(***************************************************************************)
EXTENDS Editor, Induction

(***************************************************************************)
(* Where a character is drawn, for any text: the first place, and how one  *)
(* place follows from the one before.                                      *)
(***************************************************************************)
Places == [row : Nat, col : 0 .. TERMINAL_COLS - 1]
FirstPlace == Place(EDITOR_TEXT_START_ROW, 0)
VisualSteps(ed) ==
    [n \in Nat |-> [p \in Places |-> editor_step_visual_position(ed.buffer[n - 1], p)]]

LEMMA StepIsPlace ==
    ASSUME NEW c, NEW p \in Places
    PROVE  editor_step_visual_position(c, p) \in Places
BY SizesAssumption DEF editor_step_visual_position, Place, Places

(* The recursive function in editor_cursor_get_visual_position is one.     *)
LEMMA VisualRecursion ==
    ASSUME NEW ed, NEW N \in Nat
    PROVE  \E f \in [0 .. N -> Places] :
               /\ Follows(f, N, FirstPlace, VisualSteps(ed))
               /\ f[N] = editor_cursor_get_visual_position(ed, N)
<1> DEFINE at[i \in 0 .. N] ==
               IF i = 0 THEN Place(EDITOR_TEXT_START_ROW, 0)
               ELSE editor_step_visual_position(ed.buffer[i - 1], at[i - 1])
<1>1. at[N] = editor_cursor_get_visual_position(ed, N)
  BY DEF editor_cursor_get_visual_position
<1>2. FirstPlace \in Places
  BY SizesAssumption DEF FirstPlace, Place, Places, EDITOR_TEXT_START_ROW
<1>3. VisualSteps(ed) \in [Nat -> [Places -> Places]]
  BY StepIsPlace DEF VisualSteps
<1>4. PICK f \in [0 .. N -> Places] : Follows(f, N, FirstPlace, VisualSteps(ed))
  BY <1>2, <1>3, RecursionExists
<1>5. f = [i \in 0 .. N |-> IF i = 0 THEN Place(EDITOR_TEXT_START_ROW, 0)
                            ELSE editor_step_visual_position(ed.buffer[i - 1], f[i - 1])]
  <2>1. ASSUME NEW i \in 0 .. N, i # 0
        PROVE  VisualSteps(ed)[i][f[i - 1]] = editor_step_visual_position(ed.buffer[i - 1], f[i - 1])
    <3>1. i \in Nat /\ i - 1 \in 0 .. N
      BY <2>1
    <3>2. f[i - 1] \in Places
      BY <1>4, <3>1
    <3> QED
      BY <3>1, <3>2 DEF VisualSteps
  <2> QED
    BY <1>4, <2>1, Zenon DEF Follows, FirstPlace
<1>6. at = [i \in 0 .. N |-> IF i = 0 THEN Place(EDITOR_TEXT_START_ROW, 0)
                             ELSE editor_step_visual_position(ed.buffer[i - 1], at[i - 1])]
  BY <1>5, Zenon
<1> HIDE DEF at
<1>7. \A i \in 0 .. N :
         at[i] = IF i = 0 THEN FirstPlace
                 ELSE editor_step_visual_position(ed.buffer[i - 1], at[i - 1])
  BY <1>6, Zenon DEF FirstPlace
<1>8. 0 .. N \subseteq {i \in 0 .. N : at[i] \in Places}
  <2> DEFINE S == {i \in 0 .. N : at[i] \in Places}
  <2>1. 0 \in S
    BY <1>2, <1>7
  <2>2. ASSUME NEW i \in 0 .. N - 1, i \in S
        PROVE  i + 1 \in S
    <3>1. i + 1 \in 0 .. N /\ i + 1 # 0 /\ (i + 1) - 1 = i
      OBVIOUS
    <3>2. at[i + 1] = editor_step_visual_position(ed.buffer[i], at[i])
      BY <1>7, <3>1
    <3> QED
      BY <2>2, <3>1, <3>2, StepIsPlace
  <2> HIDE DEF S
  <2>3. 0 .. N \subseteq S
    BY <2>1, <2>2, InductionUpTo
  <2> QED
    BY <2>3 DEF S
<1>9. at \in [0 .. N -> Places] /\ Follows(at, N, FirstPlace, VisualSteps(ed))
  <2>1. ASSUME NEW i \in 0 .. N, i # 0
        PROVE  VisualSteps(ed)[i][at[i - 1]] = editor_step_visual_position(ed.buffer[i - 1], at[i - 1])
    <3>1. i \in Nat /\ i - 1 \in 0 .. N
      BY <2>1
    <3>2. at[i - 1] \in Places
      BY <1>8, <3>1
    <3> QED
      BY <3>1, <3>2 DEF VisualSteps
  <2>2. at = [i \in 0 .. N |-> IF i = 0 THEN FirstPlace ELSE VisualSteps(ed)[i][at[i - 1]]]
    BY <1>6, <2>1, Zenon DEF FirstPlace
  <2> QED
    BY <1>8, <2>2, Zenon DEF Follows
<1> QED
  BY <1>1, <1>9

(* The first place is that of the text, each place is the step from the    *)
(* place before.                                                           *)
LEMMA VisualPosition ==
    ASSUME NEW ed
    PROVE  /\ editor_cursor_get_visual_position(ed, 0) = FirstPlace
           /\ \A n \in Nat :
                  /\ editor_cursor_get_visual_position(ed, n) \in Places
                  /\ editor_cursor_get_visual_position(ed, n + 1)
                         = editor_step_visual_position(ed.buffer[n],
                               editor_cursor_get_visual_position(ed, n))
<1>1. editor_cursor_get_visual_position(ed, 0) = FirstPlace
  <2>1. PICK f \in [0 .. 0 -> Places] :
            /\ Follows(f, 0, FirstPlace, VisualSteps(ed))
            /\ f[0] = editor_cursor_get_visual_position(ed, 0)
    BY VisualRecursion
  <2> QED
    BY <2>1 DEF Follows
<1>2. ASSUME NEW n \in Nat
      PROVE  /\ editor_cursor_get_visual_position(ed, n) \in Places
             /\ editor_cursor_get_visual_position(ed, n + 1)
                    = editor_step_visual_position(ed.buffer[n],
                          editor_cursor_get_visual_position(ed, n))
  <2>0. n + 1 \in Nat /\ n <= n + 1 /\ (n + 1) - 1 = n /\ n + 1 # 0 /\ n \in 0 .. n /\ n + 1 \in 0 .. n + 1
    OBVIOUS
  <2>1. PICK f \in [0 .. n -> Places] :
            /\ Follows(f, n, FirstPlace, VisualSteps(ed))
            /\ f[n] = editor_cursor_get_visual_position(ed, n)
    BY VisualRecursion
  <2>2. PICK g \in [0 .. n + 1 -> Places] :
            /\ Follows(g, n + 1, FirstPlace, VisualSteps(ed))
            /\ g[n + 1] = editor_cursor_get_visual_position(ed, n + 1)
    BY <2>0, VisualRecursion
  <2>3. g[n] = f[n]
    BY <2>0, <2>1, <2>2, RecursionUnique
  <2>4. g[n + 1] = VisualSteps(ed)[n + 1][g[n]]
    BY <2>0, <2>2, Zenon DEF Follows
  <2>5. f[n] \in Places
    BY <2>0, <2>1
  <2>6. VisualSteps(ed)[n + 1][f[n]] = editor_step_visual_position(ed.buffer[n], f[n])
    BY <2>0, <2>5 DEF VisualSteps
  <2> QED
    BY <2>1, <2>2, <2>3, <2>4, <2>5, <2>6
<1> QED
  BY <1>1, <1>2

(* Nothing but the buffer matters for a place.                             *)
LEMMA VisualOfBuffer ==
    ASSUME NEW ed, NEW e, e.buffer = ed.buffer, NEW n \in Nat
    PROVE  editor_cursor_get_visual_position(e, n) = editor_cursor_get_visual_position(ed, n)
<1>1. VisualSteps(e) = VisualSteps(ed)
  BY DEF VisualSteps
<1>2. PICK f \in [0 .. n -> Places] :
          /\ Follows(f, n, FirstPlace, VisualSteps(ed))
          /\ f[n] = editor_cursor_get_visual_position(ed, n)
  BY VisualRecursion
<1>3. PICK g \in [0 .. n -> Places] :
          /\ Follows(g, n, FirstPlace, VisualSteps(ed))
          /\ g[n] = editor_cursor_get_visual_position(e, n)
  BY <1>1, VisualRecursion
<1>4. g[n] = f[n]
  BY <1>2, <1>3, RecursionUnique
<1> QED
  BY <1>2, <1>3, <1>4

(***************************************************************************)
(* Walks over places: r and c are the rows and columns of the places 0 to  *)
(* N, each on the row of the one before, a column further, or at the start *)
(* of the next row.                                                        *)
(***************************************************************************)
Walk(r, c, N) ==
    /\ r \in [0 .. N -> Nat] /\ c \in [0 .. N -> Nat]
    /\ c[0] = 0
    /\ \A i \in 0 .. N - 1 : \/ r[i + 1] = r[i] /\ c[i + 1] = c[i] + 1
                             \/ r[i + 1] = r[i] + 1 /\ c[i + 1] = 0

(* Rows never go back, and on one row columns count the places.            *)
LEMMA WalkGoesOn ==
    ASSUME NEW N \in Nat, NEW r, NEW c, Walk(r, c, N), NEW i \in 0 .. N, NEW j \in 0 .. N, i <= j
    PROVE  r[i] <= r[j] /\ (r[i] = r[j] => c[j] = c[i] + (j - i))
<1> DEFINE S == {n \in Nat : i + n <= N =>
                     r[i] <= r[i + n] /\ (r[i] = r[i + n] => c[i + n] = c[i] + n)}
<1>1. 0 \in S
  BY DEF Walk
<1>2. ASSUME NEW n \in Nat, n \in S
      PROVE  n + 1 \in S
  <2>1. SUFFICES ASSUME i + (n + 1) <= N
                 PROVE  /\ r[i] <= r[i + (n + 1)]
                        /\ r[i] = r[i + (n + 1)] => c[i + (n + 1)] = c[i] + (n + 1)
    OBVIOUS
  <2> DEFINE k == i + n
  <2>2. k \in 0 .. N - 1 /\ k + 1 = i + (n + 1)
    BY <2>1
  <2>3. r[i] <= r[k] /\ (r[i] = r[k] => c[k] = c[i] + n)
    BY <1>2, <2>2
  <2> HIDE DEF k
  <2>4. r[i] \in Nat /\ c[i] \in Nat /\ r[k] \in Nat /\ c[k] \in Nat
    BY <2>2 DEF Walk
  <2>5. \/ r[k + 1] = r[k] /\ c[k + 1] = c[k] + 1
        \/ r[k + 1] = r[k] + 1 /\ c[k + 1] = 0
    BY <2>2 DEF Walk
  <2> QED
    BY <2>2, <2>3, <2>4, <2>5
<1> HIDE DEF S
<1>3. j - i \in S
  BY <1>1, <1>2, SetInduction
<1>4. i + (j - i) = j /\ j - i \in Nat
  OBVIOUS
<1> QED
  BY <1>3, <1>4 DEF S

(* No two places are on the same row and column.                           *)
LEMMA WalkIsInjective ==
    ASSUME NEW N \in Nat, NEW r, NEW c, Walk(r, c, N), NEW i \in 0 .. N, NEW j \in 0 .. N,
           r[i] = r[j], c[i] = c[j]
    PROVE  i = j
<1>1. c[i] \in Nat /\ c[j] \in Nat
  BY DEF Walk
<1>2. CASE i <= j
  <2>1. c[j] = c[i] + (j - i)
    BY <1>2, WalkGoesOn
  <2> QED
    BY <1>1, <2>1
<1>3. CASE j <= i
  <2>1. c[i] = c[j] + (i - j)
    BY <1>3, WalkGoesOn
  <2> QED
    BY <1>1, <2>1
<1> QED
  BY <1>2, <1>3

(* A column before that of a place is that of a place before, on its row.  *)
LEMMA WalkHasColumns ==
    ASSUME NEW N \in Nat, NEW r, NEW c, Walk(r, c, N), NEW i \in 0 .. N, NEW col \in 0 .. c[i]
    PROVE  \E j \in 0 .. i : r[j] = r[i] /\ c[j] = col
<1> DEFINE S == {n \in 0 .. N : \A k \in 0 .. c[n] : \E j \in 0 .. n : r[j] = r[n] /\ c[j] = k}
<1>1. 0 \in S
  BY DEF Walk
<1>2. ASSUME NEW n \in 0 .. N - 1, n \in S
      PROVE  n + 1 \in S
  <2>1. SUFFICES ASSUME NEW k \in 0 .. c[n + 1]
                 PROVE  \E j \in 0 .. n + 1 : r[j] = r[n + 1] /\ c[j] = k
    OBVIOUS
  <2>2. c[n + 1] \in Nat /\ c[n] \in Nat
    BY DEF Walk
  <2>3. CASE k = c[n + 1]
    BY <2>3
  <2>4. CASE k # c[n + 1]
    <3>1. r[n + 1] = r[n] /\ k \in 0 .. c[n]
      BY <2>1, <2>2, <2>4 DEF Walk
    <3>2. PICK j \in 0 .. n : r[j] = r[n] /\ c[j] = k
      BY <1>2, <3>1
    <3> QED
      BY <3>1, <3>2
  <2> QED
    BY <2>3, <2>4
<1> HIDE DEF S
<1>3. i \in S
  BY <1>1, <1>2, InductionUpTo
<1> QED
  BY <1>3 DEF S

(* It misses no row between its first and its last.                        *)
LEMMA WalkHasRows ==
    ASSUME NEW N \in Nat, NEW r, NEW c, Walk(r, c, N), NEW i \in 0 .. N, NEW row \in r[0] .. r[i]
    PROVE  \E j \in 0 .. i : r[j] = row
<1> DEFINE S == {n \in 0 .. N : \A k \in r[0] .. r[n] : \E j \in 0 .. n : r[j] = k}
<1>0. \A n \in 0 .. N : r[n] \in Nat
  BY DEF Walk
<1>1. 0 \in S
  BY <1>0
<1>2. ASSUME NEW n \in 0 .. N - 1, n \in S
      PROVE  n + 1 \in S
  <2>1. SUFFICES ASSUME NEW k \in r[0] .. r[n + 1]
                 PROVE  \E j \in 0 .. n + 1 : r[j] = k
    OBVIOUS
  <2>2. r[n] \in Nat /\ (r[n + 1] = r[n] \/ r[n + 1] = r[n] + 1) /\ r[0] \in Nat
    BY <1>0 DEF Walk
  <2>3. CASE k = r[n + 1]
    BY <2>3
  <2>4. CASE k # r[n + 1]
    <3>1. k \in r[0] .. r[n]
      BY <2>1, <2>2, <2>4
    <3>2. PICK j \in 0 .. n : r[j] = k
      BY <1>2, <3>1
    <3> QED
      BY <3>2
  <2> QED
    BY <2>3, <2>4
<1> HIDE DEF S
<1>3. i \in S
  BY <1>1, <1>2, InductionUpTo
<1> QED
  BY <1>3 DEF S

LEMMA MinIsLeast ==
    ASSUME NEW S \in SUBSET Nat, S # {}
    PROVE  Min(S) \in S /\ \A y \in S : Min(S) <= y
<1>1. PICK m \in S : \A k \in S : m <= k
  BY LeastElement
<1> QED
  BY <1>1, Zenon DEF Min

LEMMA MaxIsGreatest ==
    ASSUME NEW N \in Nat, NEW S \in SUBSET (0 .. N), S # {}
    PROVE  Max(S) \in S /\ \A y \in S : Max(S) >= y
<1> DEFINE T == {N - x : x \in S}
<1>1. T # {} /\ \A t \in T : t \in Nat
  <2>1. PICK s \in S : TRUE
    OBVIOUS
  <2>2. N - s \in T
    BY <2>1
  <2> QED
    BY <2>2
<1> HIDE DEF T
<1>2. PICK m \in T : \A k \in T : m <= k
  BY <1>1, LeastElement
<1> USE DEF T
<1>3. PICK x \in S : m = N - x
  BY <1>2
<1>4. \A y \in S : x >= y
  <2> SUFFICES ASSUME NEW y \in S
               PROVE  x >= y
    OBVIOUS
  <2>1. N - x <= N - y
    BY <1>2, <1>3
  <2> QED
    BY <2>1
<1> QED
  BY <1>3, <1>4, Zenon DEF Max

(***************************************************************************)
(* The search for an index on a row: it finds the place at the column, or  *)
(* the last of a row that ends before it, and nothing when no place is on  *)
(* the row.                                                                *)
(***************************************************************************)
Row(ed, i) == editor_cursor_get_visual_position(ed, i).row
Col(ed, i) == editor_cursor_get_visual_position(ed, i).col
RowsOf(ed) == [i \in 0 .. ed.len |-> Row(ed, i)]
ColsOf(ed) == [i \in 0 .. ed.len |-> Col(ed, i)]

LEMMA TextIsWalked ==
    ASSUME NEW ed, ed.len \in Nat
    PROVE  Walk(RowsOf(ed), ColsOf(ed), ed.len) /\ RowsOf(ed)[0] = EDITOR_TEXT_START_ROW
<1>1. ASSUME NEW n \in Nat
      PROVE  Row(ed, n) \in Nat /\ Col(ed, n) \in Nat
  <2>1. editor_cursor_get_visual_position(ed, n) \in Places
    BY VisualPosition
  <2> QED
    BY <2>1, SizesAssumption DEF Row, Col, Places
<1>2. Row(ed, 0) = EDITOR_TEXT_START_ROW /\ Col(ed, 0) = 0
  BY VisualPosition DEF Row, Col, FirstPlace, Place
<1>3. ASSUME NEW n \in Nat
      PROVE  \/ Row(ed, n + 1) = Row(ed, n) /\ Col(ed, n + 1) = Col(ed, n) + 1
             \/ Row(ed, n + 1) = Row(ed, n) + 1 /\ Col(ed, n + 1) = 0
  <2> DEFINE p == editor_cursor_get_visual_position(ed, n)
  <2>1. editor_cursor_get_visual_position(ed, n + 1) = editor_step_visual_position(ed.buffer[n], p)
    BY VisualPosition
  <2> HIDE DEF p
  <2>2. \/ editor_step_visual_position(ed.buffer[n], p) = Place(p.row, p.col + 1)
        \/ editor_step_visual_position(ed.buffer[n], p) = Place(p.row + 1, 0)
    BY Zenon DEF editor_step_visual_position
  <2> QED
    BY <2>1, <2>2 DEF Row, Col, Place, p
<1> DEFINE r == RowsOf(ed)
           c == ColsOf(ed)
<1>4. /\ r \in [0 .. ed.len -> Nat] /\ c \in [0 .. ed.len -> Nat]
      /\ \A i \in 0 .. ed.len : r[i] = Row(ed, i) /\ c[i] = Col(ed, i)
  <2>1. \A i \in 0 .. ed.len : i \in Nat
    OBVIOUS
  <2>2. \A i \in 0 .. ed.len : Row(ed, i) \in Nat /\ Col(ed, i) \in Nat
    BY <1>1, <2>1
  <2> QED
    BY <2>2, Zenon DEF RowsOf, ColsOf
<1> HIDE DEF r, c
<1>5. ASSUME NEW i \in 0 .. ed.len - 1
      PROVE  \/ r[i + 1] = r[i] /\ c[i + 1] = c[i] + 1
             \/ r[i + 1] = r[i] + 1 /\ c[i + 1] = 0
  <2>1. i \in 0 .. ed.len /\ i + 1 \in 0 .. ed.len /\ i \in Nat
    OBVIOUS
  <2> QED
    BY <1>3, <1>4, <2>1
<1>6. Walk(r, c, ed.len) /\ r[0] = EDITOR_TEXT_START_ROW
  BY <1>2, <1>4, <1>5 DEF Walk
<1> QED
  BY <1>6 DEF r, c

LEMMA IndexOnRow ==
    ASSUME NEW ed, ed.len \in Nat, NEW row \in Int, NEW col \in Nat,
           NEW next, next = editor_cursor_index_from_visual_position(ed, row, col)
    PROVE  IF row \in EDITOR_TEXT_START_ROW .. Row(ed, ed.len)
           THEN /\ next \in 0 .. ed.len /\ Row(ed, next) = row
                /\ \/ Col(ed, next) = col
                   \/ Col(ed, next) < col /\ (next = ed.len \/ Row(ed, next + 1) > row)
           ELSE next = -1
<1> DEFINE at == [i \in 0 .. ed.len |-> editor_cursor_get_visual_position(ed, i)]
           on == {i \in 0 .. ed.len : at[i].row = row}
           behind == {i \in on : at[i].col >= col}
           r == RowsOf(ed)
           c == ColsOf(ed)
           N == ed.len
<1>1. next = IF on = {} THEN -1 ELSE IF behind # {} THEN Min(behind) ELSE Max(on)
  BY DEF editor_cursor_index_from_visual_position
<1>2. on = {i \in 0 .. N : r[i] = row} /\ behind = {i \in 0 .. N : r[i] = row /\ c[i] >= col}
  BY DEF RowsOf, ColsOf, Row, Col
<1>3. /\ N \in Nat /\ Walk(r, c, N) /\ r[0] = EDITOR_TEXT_START_ROW
      /\ \A i \in 0 .. N : r[i] = Row(ed, i) /\ c[i] = Col(ed, i)
  BY TextIsWalked DEF RowsOf, ColsOf
<1> HIDE DEF at, on, behind, r, c, N
<1>4. \A i \in 0 .. N : r[i] \in Nat /\ c[i] \in Nat
  BY <1>3 DEF Walk
<1>5. ASSUME NEW i \in on
      PROVE  row \in r[0] .. r[N]
  <2>1. i \in 0 .. N /\ r[i] = row /\ 0 \in 0 .. N /\ N \in 0 .. N /\ 0 <= i /\ i <= N
    BY <1>2, <1>3
  <2>2. r[0] <= r[i] /\ r[i] <= r[N]
    BY <1>3, <2>1, WalkGoesOn
  <2> QED
    BY <1>4, <2>1, <2>2
<1>6. ASSUME row \in r[0] .. r[N]
      PROVE  on # {}
  <2>1. N \in 0 .. N
    BY <1>3
  <2>2. PICK j \in 0 .. N : r[j] = row
    BY <1>3, <1>6, <2>1, WalkHasRows
  <2> QED
    BY <1>2, <2>2
<1>7. CASE on = {}
  BY <1>1, <1>3, <1>6, <1>7 DEF N
<1>8. CASE behind # {}
  <2>1. on # {} /\ behind \in SUBSET Nat
    BY <1>2, <1>8, <1>3
  <2>2. next \in behind /\ \A y \in behind : next <= y
    BY <1>1, <1>8, <2>1, MinIsLeast
  <2>3. next \in 0 .. N /\ r[next] = row /\ c[next] >= col
    BY <1>2, <2>2
  <2>4. PICK j \in 0 .. next : r[j] = r[next] /\ c[j] = col
    BY <1>3, <1>4, <2>3, WalkHasColumns
  <2>5. j \in 0 .. N /\ j <= next
    BY <1>3, <2>3
  <2>6. j \in behind
    BY <1>2, <1>4, <2>3, <2>4, <2>5
  <2>7. next = j
    BY <2>2, <2>3, <2>5, <2>6, <1>3
  <2> QED
    BY <1>2, <1>3, <1>5, <2>1, <2>3, <2>4, <2>7 DEF N
<1>9. CASE on # {} /\ behind = {}
  <2>1. on \in SUBSET (0 .. N)
    BY <1>2
  <2>2. next \in on /\ \A y \in on : next >= y
    BY <1>1, <1>3, <1>9, <2>1, MaxIsGreatest
  <2>3. next \in 0 .. N /\ r[next] = row /\ c[next] < col
    BY <1>2, <1>4, <1>9, <2>2
  <2>4. next = N \/ r[next + 1] > row
    <3>1. SUFFICES ASSUME next # N
                   PROVE  r[next + 1] > row
      OBVIOUS
    <3>2. next + 1 \in 0 .. N /\ next \in 0 .. N - 1
      BY <1>3, <2>3, <3>1
    <3>3. next + 1 \notin on
      BY <2>2, <2>3, <1>3
    <3>4. r[next + 1] # row
      BY <1>2, <3>2, <3>3
    <3>5. r[next + 1] = r[next] \/ r[next + 1] = r[next] + 1
      BY <1>3, <3>2 DEF Walk
    <3> QED
      BY <1>4, <2>3, <3>4, <3>5
  <2>5. next + 1 \in 0 .. N \/ next = N
    BY <1>3, <2>3
  <2> QED
    BY <1>2, <1>3, <1>5, <1>9, <2>3, <2>4, <2>5 DEF N
<1> QED
  BY <1>7, <1>8, <1>9

(***************************************************************************)
(* The buffer.  An editor is whole when its text has no NUL and one behind *)
(* it, inside the buffer, and its cursor is in the text or behind it.      *)
(***************************************************************************)
Statuses == {"", "New file", "File saved", "Save failed", "Buffer full"}
Editors == [buffer : [Cells -> Characters \cup {NUL}],
            len : 0 .. EDITOR_BUFFER_SIZE - 1,
            cursor : 0 .. EDITOR_BUFFER_SIZE - 1,
            status : Statuses]
Whole(ed) ==
    /\ ed \in Editors
    /\ ed.cursor <= ed.len
    /\ \A i \in Cells : i < ed.len => ed.buffer[i] # NUL
    /\ ed.buffer[ed.len] = NUL

(* What an event never does to an editor that says "File saved": leave the *)
(* message beside another text.                                            *)
Keeps(ed, e) == e.status = "File saved" => ed.status = "File saved" /\ Text(e) = Text(ed)

LEMMA NoCharacterIsNul == NUL \notin Characters
BY DEF NUL, Characters, Newline

(* Saving writes the text of a whole editor.                               *)
LEMMA SavesTheText ==
    ASSUME NEW ed, Whole(ed)
    PROVE  CString(ed.buffer) = Text(ed)
<1> DEFINE S == {i \in Cells : ed.buffer[i] = NUL} \cup {EDITOR_BUFFER_SIZE}
<1>1. ed.len \in S /\ \A i \in S : i \in Nat /\ ed.len <= i
  BY SizesAssumption DEF Whole, Editors, Cells
<1>2. Min(S) = ed.len
  <2>1. S \in SUBSET Nat /\ S # {} /\ ed.len \in Nat
    BY <1>1
  <2> HIDE DEF S
  <2> DEFINE m == Min(S)
  <2>2. m \in S /\ \A y \in S : m <= y
    BY <2>1, MinIsLeast
  <2> HIDE DEF m
  <2>3. m = ed.len
    BY <1>1, <2>1, <2>2
  <2> QED
    BY <2>3 DEF m
<1> QED
  BY <1>2 DEF CString, Text

LEMMA LoadIsWhole ==
    ASSUME NEW text, NEW readable \in BOOLEAN,
           readable => text \in Seq(Characters) /\ Len(text) < EDITOR_BUFFER_SIZE
    PROVE  /\ Whole(editor_file_load(text, readable))
           /\ editor_file_load(text, readable).status # "File saved"
<1>1. ASSUME NEW t, t \in Seq(Characters), Len(t) < EDITOR_BUFFER_SIZE, NEW status \in Statuses,
             NEW ed, ed = [buffer |-> BufferOf(t), len |-> Len(t), cursor |-> Len(t), status |-> status]
      PROVE  Whole(ed)
  <2>1. /\ ed.buffer = BufferOf(t) /\ ed.len = Len(t) /\ ed.cursor = Len(t)
        /\ Len(t) \in 0 .. EDITOR_BUFFER_SIZE - 1
    BY <1>1, SizesAssumption
  <2>2. \A i \in Cells : /\ i < Len(t) => BufferOf(t)[i] \in Characters
                         /\ ~(i < Len(t)) => BufferOf(t)[i] = NUL
    BY <1>1 DEF BufferOf, Cells
  <2>3. BufferOf(t) = [i \in Cells |-> BufferOf(t)[i]]
    BY DEF BufferOf
  <2>4. BufferOf(t) \in [Cells -> Characters \cup {NUL}]
    BY <2>2, <2>3
  <2>5. ed \in Editors
    BY <1>1, <2>1, <2>4 DEF Editors
  <2>6. Len(t) \in Cells
    BY <2>1 DEF Cells
  <2> QED
    BY <2>1, <2>2, <2>5, <2>6, NoCharacterIsNul DEF Whole
<1>2. <<>> \in Seq(Characters) /\ Len(<<>>) = 0 /\ 0 < EDITOR_BUFFER_SIZE
  BY SizesAssumption
<1>3. "" \in Statuses /\ "New file" \in Statuses
  BY DEF Statuses
<1>4. CASE readable
  BY <1>1, <1>3, <1>4 DEF editor_file_load
<1>5. CASE ~readable
  <2> DEFINE e == editor_file_load(text, readable)
             t == <<>>
  <2>1. e = [buffer |-> BufferOf(t), len |-> Len(t), cursor |-> Len(t), status |-> "New file"]
    BY <1>2, <1>5 DEF editor_file_load
  <2>2. t \in Seq(Characters) /\ Len(t) < EDITOR_BUFFER_SIZE
    BY <1>2
  <2> HIDE DEF e, t
  <2>3. Whole(e)
    BY <1>1, <1>3, <2>1, <2>2
  <2>4. e.status # "File saved"
    BY <2>1
  <2> QED
    BY <2>3, <2>4 DEF e
<1> QED
  BY <1>4, <1>5

LEMMA MadeEditor ==
    ASSUME NEW buffer \in [Cells -> Characters \cup {NUL}],
           NEW len \in 0 .. EDITOR_BUFFER_SIZE - 1, NEW cursor \in 0 .. EDITOR_BUFFER_SIZE - 1,
           NEW status \in Statuses,
           NEW e, e = [buffer |-> buffer, len |-> len, cursor |-> cursor, status |-> status]
    PROVE  e \in Editors
BY DEF Editors

LEMMA InsertIsWhole ==
    ASSUME NEW ed, Whole(ed), NEW c \in Characters
    PROVE  Whole(editor_buffer_insert(ed, c))
<1>1. CASE Full(ed)
  BY <1>1 DEF editor_buffer_insert
<1>2. CASE ~Full(ed)
  <2> DEFINE e == editor_buffer_insert(ed, c)
             L == ed.len
             C == ed.cursor
             B == ed.buffer
  <2>1. e = [ed EXCEPT !.buffer = Inserted(ed, c), !.len = ed.len + 1, !.cursor = ed.cursor + 1]
    BY <1>2 DEF editor_buffer_insert
  <2>2. L \in Nat /\ C \in Nat /\ C <= L /\ L + 1 < EDITOR_BUFFER_SIZE
    BY <1>2, SizesAssumption DEF Whole, Editors, Full
  <2>3. /\ e.buffer = Inserted(ed, c) /\ e.len = L + 1 /\ e.cursor = C + 1 /\ e.status = ed.status
        /\ e = [buffer |-> e.buffer, len |-> e.len, cursor |-> e.cursor, status |-> e.status]
        /\ ed.status \in Statuses /\ ed.buffer \in [Cells -> Characters \cup {NUL}]
    BY <2>1 DEF Whole, Editors
  <2>4. Inserted(ed, c) = [i \in Cells |-> IF i < C \/ i > L + 1 THEN B[i]
                                           ELSE IF i = C THEN c ELSE B[i - 1]]
    BY DEF Inserted
  <2>5. \A i \in Cells : i < L => B[i] \in Characters \cup {NUL} /\ B[i] # NUL
    BY DEF Whole, Editors
  <2>6. B[L] = NUL /\ \A i \in Cells : B[i] \in Characters \cup {NUL}
    BY DEF Whole, Editors
  <2> HIDE DEF e, L, C, B
  <2>7. \A i \in Cells : /\ Inserted(ed, c)[i] \in Characters \cup {NUL}
                         /\ i < L + 1 => Inserted(ed, c)[i] # NUL
                         /\ i = L + 1 => Inserted(ed, c)[i] = NUL
    <3> SUFFICES ASSUME NEW i \in Cells
                 PROVE  /\ Inserted(ed, c)[i] \in Characters \cup {NUL}
                        /\ i < L + 1 => Inserted(ed, c)[i] # NUL
                        /\ i = L + 1 => Inserted(ed, c)[i] = NUL
      OBVIOUS
    <3>1. i \in Int /\ (i > C => i - 1 \in Cells)
      BY <2>2, SizesAssumption DEF Cells
    <3>2. CASE i < C \/ i > L + 1
      BY <2>2, <2>4, <2>5, <2>6, <3>1, <3>2
    <3>3. CASE i = C
      BY <2>2, <2>4, <3>3, NoCharacterIsNul
    <3>4. CASE i > C /\ i < L + 1
      <4>1. Inserted(ed, c)[i] = B[i - 1] /\ i - 1 \in Cells /\ i - 1 < L
        BY <2>2, <2>4, <3>1, <3>4
      <4> QED
        BY <2>2, <2>5, <3>1, <3>4, <4>1
    <3>5. CASE i > C /\ i = L + 1
      <4>1. Inserted(ed, c)[i] = B[L]
        BY <2>2, <2>4, <3>1, <3>5
      <4> QED
        BY <2>2, <2>6, <3>5, <4>1
    <3> QED
      BY <2>2, <3>1, <3>2, <3>3, <3>4, <3>5
  <2>8. Inserted(ed, c) \in [Cells -> Characters \cup {NUL}]
    BY <2>4, <2>7, Zenon
  <2>9. e \in Editors
    <3>1. L + 1 \in 0 .. EDITOR_BUFFER_SIZE - 1 /\ C + 1 \in 0 .. EDITOR_BUFFER_SIZE - 1
      BY <2>2, SizesAssumption
    <3>2. e = [buffer |-> Inserted(ed, c), len |-> L + 1, cursor |-> C + 1, status |-> ed.status]
      BY <2>3
    <3> QED
      BY <2>3, <2>8, <3>1, <3>2, MadeEditor
  <2>10. e.len \in Cells /\ e.cursor <= e.len
    BY <2>2, <2>3, SizesAssumption DEF Cells
  <2>11. Whole(e)
    BY <2>3, <2>7, <2>9, <2>10 DEF Whole
  <2> QED
    BY <2>11 DEF e
<1> QED
  BY <1>1, <1>2

LEMMA DeleteIsWhole ==
    ASSUME NEW ed, Whole(ed)
    PROVE  Whole(editor_buffer_delete(ed))
<1>1. CASE ed.cursor <= 0
  BY <1>1 DEF editor_buffer_delete
<1>2. CASE ~(ed.cursor <= 0)
  <2> DEFINE L == ed.len
             C == ed.cursor
             B == ed.buffer
             D == [i \in Cells |-> IF i \in C - 1 .. L - 1 THEN B[i + 1] ELSE B[i]]
             e == editor_buffer_delete(ed)
  <2>1. e = [ed EXCEPT !.buffer = D, !.len = L - 1, !.cursor = C - 1]
    BY <1>2 DEF editor_buffer_delete
  <2>2. L \in Nat /\ C \in Nat /\ C <= L /\ 0 < C /\ L < EDITOR_BUFFER_SIZE
    BY <1>2, SizesAssumption DEF Whole, Editors
  <2>3. /\ e = [buffer |-> D, len |-> L - 1, cursor |-> C - 1, status |-> ed.status]
        /\ ed.status \in Statuses
    BY <2>1 DEF Whole, Editors
  <2>4. /\ \A i \in Cells : B[i] \in Characters \cup {NUL} /\ (i < L => B[i] # NUL)
        /\ B[L] = NUL
    BY DEF Whole, Editors
  <2>5. \A i \in Cells : D[i] = IF i \in C - 1 .. L - 1 THEN B[i + 1] ELSE B[i]
    OBVIOUS
  <2>6. D = [i \in Cells |-> D[i]]
    OBVIOUS
  <2> HIDE DEF L, C, B, D, e
  <2>7. \A i \in Cells : /\ D[i] \in Characters \cup {NUL}
                         /\ i < L - 1 => D[i] # NUL
                         /\ i = L - 1 => D[i] = NUL
    <3> SUFFICES ASSUME NEW i \in Cells
                 PROVE  /\ D[i] \in Characters \cup {NUL}
                        /\ i < L - 1 => D[i] # NUL
                        /\ i = L - 1 => D[i] = NUL
      OBVIOUS
    <3>1. i \in Nat /\ (i \in C - 1 .. L - 1 => i + 1 \in Cells)
      BY <2>2, SizesAssumption DEF Cells
    <3>2. CASE i \in C - 1 .. L - 1
      BY <2>2, <2>4, <2>5, <3>1, <3>2
    <3>3. CASE i \notin C - 1 .. L - 1
      BY <2>2, <2>4, <2>5, <3>1, <3>3
    <3> QED
      BY <3>2, <3>3
  <2>8. D \in [Cells -> Characters \cup {NUL}]
    BY <2>6, <2>7
  <2>9. /\ L - 1 \in 0 .. EDITOR_BUFFER_SIZE - 1 /\ C - 1 \in 0 .. EDITOR_BUFFER_SIZE - 1
        /\ L - 1 \in Cells /\ C - 1 <= L - 1
    BY <2>2, SizesAssumption DEF Cells
  <2>10. e \in Editors
    BY <2>3, <2>8, <2>9, MadeEditor
  <2>11. e.buffer = D /\ e.len = L - 1 /\ e.cursor = C - 1
    BY <2>3
  <2>12. Whole(e)
    BY <2>7, <2>9, <2>10, <2>11 DEF Whole
  <2> QED
    BY <2>12 DEF e
<1> QED
  BY <1>1, <1>2

(* Another message and another place for the cursor.                       *)
LEMMA StatusIsWhole ==
    ASSUME NEW ed, Whole(ed), NEW status \in Statuses
    PROVE  /\ Whole([ed EXCEPT !.status = status])
           /\ [ed EXCEPT !.status = status].status = status
           /\ Text([ed EXCEPT !.status = status]) = Text(ed)
BY DEF Whole, Editors, Text

LEMMA CursorIsWhole ==
    ASSUME NEW ed, Whole(ed), NEW cursor \in 0 .. ed.len
    PROVE  /\ Whole([ed EXCEPT !.cursor = cursor])
           /\ Keeps(ed, [ed EXCEPT !.cursor = cursor])
<1> DEFINE e == [ed EXCEPT !.cursor = cursor]
<1>1. cursor \in 0 .. EDITOR_BUFFER_SIZE - 1 /\ cursor <= ed.len
  BY SizesAssumption DEF Whole, Editors
<1>2. e.cursor = cursor /\ e.len = ed.len /\ e.buffer = ed.buffer /\ e.status = ed.status
  BY DEF Whole, Editors
<1>3. e \in Editors
  BY <1>1 DEF Whole, Editors
<1> HIDE DEF e
<1>4. Whole(e) /\ Keeps(ed, e)
  BY <1>1, <1>2, <1>3 DEF Whole, Keeps, Text
<1> QED
  BY <1>4 DEF e

(* The cursor keys.                                                        *)
LEMMA MoveIsWhole ==
    ASSUME NEW ed, Whole(ed), NEW key
    PROVE  /\ Whole(editor_cursor_move(ed, key))
           /\ Keeps(ed, editor_cursor_move(ed, key))
<1>1. ed.len \in Nat /\ ed.cursor \in 0 .. ed.len
  BY SizesAssumption DEF Whole, Editors
<1>2. Keeps(ed, ed)
  BY DEF Keeps
<1>3. ASSUME NEW rows \in {-1, 1}
      PROVE  Whole(CursorRow(ed, rows)) /\ Keeps(ed, CursorRow(ed, rows))
  <2> DEFINE here == editor_cursor_get_visual_position(ed, ed.cursor)
             next == editor_cursor_index_from_visual_position(ed, here.row + rows, here.col)
  <2>1. here.row + rows \in Int /\ here.col \in Nat
    <3>1. here \in Places
      BY <1>1, VisualPosition
    <3> QED
      BY <1>3, <3>1, SizesAssumption DEF Places
  <2>2. CursorRow(ed, rows) = IF next >= 0 THEN [ed EXCEPT !.cursor = next] ELSE ed
    BY DEF CursorRow
  <2> HIDE DEF here
  <2>3. next \in 0 .. ed.len \/ next = -1
    <3> DEFINE row == here.row + rows
               col == here.col
    <3>1. row \in Int /\ col \in Nat /\ next = editor_cursor_index_from_visual_position(ed, row, col)
      BY <2>1
    <3> HIDE DEF row, col, next
    <3> QED
      BY <1>1, <3>1, IndexOnRow
  <2> HIDE DEF next
  <2>4. CASE next = -1
    BY <1>2, <2>2, <2>4
  <2>5. CASE next \in 0 .. ed.len
    BY <1>1, <2>2, <2>5, CursorIsWhole
  <2> QED
    BY <2>3, <2>4, <2>5
<1>4. CASE key = "left" /\ ed.cursor > 0
  <2>1. ed.cursor - 1 \in 0 .. ed.len
    BY <1>1, <1>4
  <2> QED
    BY <1>4, <2>1, CursorIsWhole DEF editor_cursor_move
<1>5. CASE key = "right" /\ ed.cursor < ed.len
  <2>1. ed.cursor + 1 \in 0 .. ed.len
    BY <1>1, <1>5
  <2> QED
    BY <1>5, <2>1, CursorIsWhole DEF editor_cursor_move
<1>6. CASE ~(key = "left" /\ ed.cursor > 0) /\ ~(key = "right" /\ ed.cursor < ed.len)
  BY <1>2, <1>3, <1>6 DEF editor_cursor_move
<1> QED
  BY <1>4, <1>5, <1>6

(* A tab: as many insertions as it stands for spaces.                      *)
LEMMA TabIsWhole ==
    ASSUME NEW ed, Whole(ed)
    PROVE  Whole(Tabbed(ed)) /\ Tabbed(ed).status # "File saved"
<1> DEFINE T == {e \in Editors : Whole(e)}
           step == [n \in Nat |-> [e \in T |-> editor_buffer_insert(e, " ")]]
           after[n \in 0 .. TAB] == IF n = 0 THEN ed ELSE editor_buffer_insert(after[n - 1], " ")
<1>1. TAB \in Nat
  BY SizesAssumption
<1>2. \A e \in T : editor_buffer_insert(e, " ") \in T
  <2>1. " " \in Characters
    BY DEF Characters
  <2> QED
    BY <2>1, InsertIsWhole DEF Whole
<1>3. ed \in T
  BY DEF Whole
<1>4. step \in [Nat -> [T -> T]]
  BY <1>2
<1>5. \A n \in Nat : \A e \in T : step[n][e] = editor_buffer_insert(e, " ")
  OBVIOUS
<1> HIDE DEF T, step
<1>6. PICK f \in [0 .. TAB -> T] : Follows(f, TAB, ed, step)
  BY <1>1, <1>3, <1>4, RecursionExists
<1>7. f = [n \in 0 .. TAB |-> IF n = 0 THEN ed ELSE editor_buffer_insert(f[n - 1], " ")]
  <2>1. ASSUME NEW n \in 0 .. TAB, n # 0
        PROVE  step[n][f[n - 1]] = editor_buffer_insert(f[n - 1], " ")
    <3>1. n \in Nat /\ n - 1 \in 0 .. TAB
      BY <2>1, <1>1
    <3>2. f[n - 1] \in T
      BY <1>6, <3>1
    <3> QED
      BY <1>5, <3>1, <3>2
  <2> QED
    BY <1>6, <2>1, Zenon DEF Follows
<1>8. \A n \in 0 .. TAB : after[n] = IF n = 0 THEN ed ELSE editor_buffer_insert(after[n - 1], " ")
  <2>1. after = [n \in 0 .. TAB |-> IF n = 0 THEN ed ELSE editor_buffer_insert(after[n - 1], " ")]
    BY <1>7, Zenon
  <2> QED
    BY <2>1, Zenon
<1>9. Tabbed(ed) = [after[TAB] EXCEPT
                        !.status = IF after[TAB].len = ed.len + TAB THEN "" ELSE "Buffer full"]
  BY Zenon DEF Tabbed
<1> HIDE DEF after
<1>10. after[TAB] \in T
  <2> DEFINE S == {n \in 0 .. TAB : after[n] \in T}
  <2>1. 0 \in S
    <3>1. 0 \in 0 .. TAB
      BY <1>1
    <3>2. after[0] = ed
      BY <1>8, <3>1, Zenon
    <3> QED
      BY <1>3, <3>1, <3>2
  <2>2. ASSUME NEW n \in 0 .. TAB - 1, n \in S
        PROVE  n + 1 \in S
    <3>1. n + 1 \in 0 .. TAB /\ n + 1 # 0 /\ (n + 1) - 1 = n
      BY <1>1
    <3>2. after[n + 1] = editor_buffer_insert(after[n], " ")
      BY <1>8, <3>1
    <3> QED
      BY <1>2, <2>2, <3>1, <3>2
  <2> HIDE DEF S
  <2>3. 0 .. TAB \subseteq S
    BY <1>1, <2>1, <2>2, InductionUpTo
  <2> QED
    BY <1>1, <2>3 DEF S
<1>11. PICK e : e = after[TAB]
  OBVIOUS
<1>12. PICK status \in {"", "Buffer full"} : Tabbed(ed) = [e EXCEPT !.status = status]
  BY <1>9, <1>11
<1>13. Whole(e) /\ status \in Statuses /\ status # "File saved"
  BY <1>10, <1>11 DEF T, Statuses
<1> QED
  BY <1>12, <1>13, StatusIsWhole

(* What an event that is not F2 or Esc does to a whole editor.             *)
LEMMA EventIsWhole ==
    ASSUME NEW ed, Whole(ed), NEW event
    PROVE  /\ Whole(editor_input_handle_event(ed, event))
           /\ Keeps(ed, editor_input_handle_event(ed, event))
<1>1. CASE event.extended
  BY <1>1, MoveIsWhole DEF editor_input_handle_event
<1>2. CASE ~event.extended
  <2>1. ASSUME NEW c \in Characters
        PROVE  Whole(Inserting(ed, c)) /\ Inserting(ed, c).status # "File saved"
    <3>1. PICK e : e = editor_buffer_insert(ed, c)
      OBVIOUS
    <3>2. PICK status \in {"", "Buffer full"} : Inserting(ed, c) = [e EXCEPT !.status = status]
      BY <3>1 DEF Inserting
    <3>3. Whole(e) /\ status \in Statuses /\ status # "File saved"
      BY <3>1, InsertIsWhole DEF Statuses
    <3> QED
      BY <3>2, <3>3, StatusIsWhole
  <2>2. Whole(Deleting(ed)) /\ Deleting(ed).status # "File saved"
    <3>1. PICK e : e = editor_buffer_delete(ed)
      OBVIOUS
    <3>2. Whole(e) /\ "" \in Statuses
      BY <3>1, DeleteIsWhole DEF Statuses
    <3> QED
      BY <3>1, <3>2, StatusIsWhole DEF Deleting
  <2>3. Whole(Tabbed(ed)) /\ Tabbed(ed).status # "File saved"
    BY TabIsWhole
  <2>4. Keeps(ed, ed)
    BY DEF Keeps
  <2>5. CASE event.character \in {Newline, "1", "!"}
    <3>1. event.character \in Characters
      BY <2>5 DEF Characters
    <3>2. editor_input_handle_event(ed, event) = Inserting(ed, event.character)
      BY <1>2, <2>5 DEF editor_input_handle_event, Newline
    <3> QED
      BY <2>1, <3>1, <3>2 DEF Keeps
  <2>6. CASE event.character = "bs"
    <3>1. editor_input_handle_event(ed, event) = Deleting(ed)
      BY <1>2, <2>6 DEF editor_input_handle_event, Newline
    <3> QED
      BY <2>2, <3>1 DEF Keeps
  <2>7. CASE event.character = "tab"
    <3>1. editor_input_handle_event(ed, event) = Tabbed(ed)
      BY <1>2, <2>7 DEF editor_input_handle_event, Newline
    <3> QED
      BY <2>3, <3>1 DEF Keeps
  <2>8. CASE event.character \notin {Newline, "1", "!", "bs", "tab"}
    <3>1. editor_input_handle_event(ed, event) = ed
      BY <1>2, <2>8 DEF editor_input_handle_event
    <3> QED
      BY <2>4, <3>1
  <2> QED
    BY <2>5, <2>6, <2>7, <2>8
<1> QED
  BY <1>1, <1>2

(***************************************************************************)
(* Up and down.                                                            *)
(***************************************************************************)
LEMMA RowMoves ==
    ASSUME NEW ed, Whole(ed), NEW rows \in {-1, 1},
           NEW to, to = Row(ed, ed.cursor) + rows,
           NEW e, e = CursorRow(ed, rows)
    PROVE  IF to \in EDITOR_TEXT_START_ROW .. Row(ed, ed.len)
           THEN /\ e.cursor \in 0 .. ed.len /\ e = [ed EXCEPT !.cursor = e.cursor]
                /\ Row(ed, e.cursor) = to
                /\ \/ Col(ed, e.cursor) = Col(ed, ed.cursor)
                   \/ /\ Col(ed, e.cursor) < Col(ed, ed.cursor)
                      /\ e.cursor = ed.len \/ Row(ed, e.cursor + 1) > to
           ELSE e = ed
<1> DEFINE col == Col(ed, ed.cursor)
           next == editor_cursor_index_from_visual_position(ed, to, col)
<1>1. ed.len \in Nat /\ ed.cursor \in 0 .. ed.len /\ ed.cursor \in Nat
  BY SizesAssumption DEF Whole, Editors
<1>2. to \in Int /\ col \in Nat
  <2>1. editor_cursor_get_visual_position(ed, ed.cursor) \in Places
    BY <1>1, VisualPosition
  <2> QED
    BY <2>1, SizesAssumption DEF Places, Row, Col
<1>3. e = IF next >= 0 THEN [ed EXCEPT !.cursor = next] ELSE ed
  BY DEF CursorRow, Row, Col
<1> HIDE DEF col
<1>4. IF to \in EDITOR_TEXT_START_ROW .. Row(ed, ed.len)
      THEN /\ next \in 0 .. ed.len /\ Row(ed, next) = to
           /\ \/ Col(ed, next) = col
              \/ Col(ed, next) < col /\ (next = ed.len \/ Row(ed, next + 1) > to)
      ELSE next = -1
  <2> PICK n : n = next
    OBVIOUS
  <2> HIDE DEF next
  <2> QED
    BY <1>1, <1>2, IndexOnRow DEF next
<1> HIDE DEF next
<1>5. CASE next \in 0 .. ed.len
  <2>1. e = [ed EXCEPT !.cursor = next] /\ e.cursor = next
    BY <1>1, <1>3, <1>5 DEF Whole, Editors
  <2> QED
    BY <1>4, <1>5, <2>1 DEF col
<1>6. CASE next = -1
  <2>1. e = ed
    BY <1>3, <1>6
  <2>2. -1 \notin 0 .. ed.len
    BY <1>1
  <2> QED
    BY <1>4, <1>6, <2>1, <2>2
<1> QED
  BY <1>4, <1>5, <1>6

(* An editor that differs in its cursor shows the same text.               *)
LEMMA CursorKeepsPlaces ==
    ASSUME NEW ed, Whole(ed), NEW cursor, NEW e, e = [ed EXCEPT !.cursor = cursor]
    PROVE  /\ e.cursor = cursor /\ e.len = ed.len
           /\ \A n \in Nat : Row(e, n) = Row(ed, n) /\ Col(e, n) = Col(ed, n)
<1>1. e.buffer = ed.buffer /\ e.len = ed.len /\ e.cursor = cursor
  BY DEF Whole, Editors
<1>2. ASSUME NEW n \in Nat
      PROVE  Row(e, n) = Row(ed, n) /\ Col(e, n) = Col(ed, n)
  <2>1. editor_cursor_get_visual_position(e, n) = editor_cursor_get_visual_position(ed, n)
    BY <1>1, VisualOfBuffer
  <2> QED
    BY <2>1 DEF Row, Col
<1> QED
  BY <1>1, <1>2

(* Down takes back an up that kept its column.                             *)
LEMMA DownTakesBackUp ==
    ASSUME NEW ed, Whole(ed), NEW up, up = CursorRow(ed, -1), up # ed,
           Col(up, up.cursor) = Col(ed, ed.cursor)
    PROVE  CursorRow(up, 1) = ed
<1>0. -1 \in {-1, 1} /\ 1 \in {-1, 1}
  OBVIOUS
<1> DEFINE to == Row(ed, ed.cursor) + (-1)
<1>1. /\ to \in EDITOR_TEXT_START_ROW .. Row(ed, ed.len)
      /\ up.cursor \in 0 .. ed.len /\ up = [ed EXCEPT !.cursor = up.cursor]
      /\ Row(ed, up.cursor) = to
  <2> HIDE DEF to
  <2>1. to = Row(ed, ed.cursor) + (-1)
    BY DEF to
  <2> QED
    BY <1>0, <2>1, RowMoves
<1>2. /\ up.len = ed.len
      /\ \A n \in Nat : Row(up, n) = Row(ed, n) /\ Col(up, n) = Col(ed, n)
  <2>1. PICK m : m = up.cursor
    OBVIOUS
  <2>2. up = [ed EXCEPT !.cursor = m]
    BY <1>1, <2>1
  <2> QED
    BY <2>2, CursorKeepsPlaces
<1>3. ed.len \in Nat /\ ed.cursor \in 0 .. ed.len /\ up.cursor \in Nat /\ ed.cursor \in Nat
  BY <1>1, SizesAssumption DEF Whole, Editors
<1>4. Whole(up)
  BY <1>1, CursorIsWhole
<1> DEFINE r == RowsOf(ed)
           c == ColsOf(ed)
           N == ed.len
           down == CursorRow(up, 1)
           back == Row(up, up.cursor) + 1
<1>5. /\ Walk(r, c, N) /\ r[0] = EDITOR_TEXT_START_ROW /\ N \in Nat
      /\ \A i \in 0 .. N : r[i] = Row(ed, i) /\ c[i] = Col(ed, i)
  BY <1>3, TextIsWalked DEF RowsOf, ColsOf
<1> HIDE DEF r, c
<1>6. \A i \in 0 .. N : r[i] \in Nat /\ c[i] \in Nat
  BY <1>5 DEF Walk
<1>7. r[0] <= r[ed.cursor] /\ r[ed.cursor] <= r[N]
  BY <1>3, <1>5, WalkGoesOn
<1>8. back = Row(ed, ed.cursor) /\ back \in EDITOR_TEXT_START_ROW .. Row(up, up.len)
  <2>1. N \in 0 .. N /\ 0 \in 0 .. N
    BY <1>5
  <2>2. back = Row(ed, ed.cursor) - 1 + 1
    BY <1>1, <1>2, <1>3, <1>5, <1>6
  <2> QED
    BY <1>2, <1>3, <1>5, <1>6, <1>7, <2>1, <2>2
<1> HIDE DEF down
<1>9. /\ down.cursor \in 0 .. up.len /\ down = [up EXCEPT !.cursor = down.cursor]
      /\ Row(up, down.cursor) = back
      /\ \/ Col(up, down.cursor) = Col(up, up.cursor)
         \/ /\ Col(up, down.cursor) < Col(up, up.cursor)
            /\ down.cursor = up.len \/ Row(up, down.cursor + 1) > back
  <2>1. back = Row(up, up.cursor) + 1 /\ down = CursorRow(up, 1)
    BY DEF down
  <2>2. PICK b : b = back
    OBVIOUS
  <2> HIDE DEF back
  <2> QED
    BY <1>0, <1>4, <1>8, <2>1, RowMoves
<1> DEFINE d == down.cursor
<1>10. d \in 0 .. N /\ d \in Nat /\ r[d] = r[ed.cursor]
  BY <1>2, <1>3, <1>5, <1>8, <1>9
<1> HIDE DEF back
<1>11. c[d] = c[ed.cursor]
  <2>1. Col(up, up.cursor) = c[ed.cursor]
    BY <1>3, <1>5
  <2>2. Col(up, d) = c[d]
    BY <1>2, <1>5, <1>10
  <2>3. CASE c[d] < c[ed.cursor] /\ d = N
    <3>1. c[d] = c[ed.cursor] + (d - ed.cursor)
      BY <1>3, <1>5, <1>10, <2>3, WalkGoesOn
    <3> QED
      BY <1>3, <1>6, <1>10, <2>3, <3>1
  <2>4. CASE c[d] < c[ed.cursor] /\ d # N /\ Row(up, d + 1) > back
    <3>1. d + 1 \in 0 .. N /\ d + 1 \in Nat
      BY <1>5, <1>10, <2>4
    <3>2. r[d + 1] > r[ed.cursor]
      BY <1>2, <1>3, <1>5, <1>8, <2>4, <3>1
    <3>3. CASE d + 1 <= ed.cursor
      <4>1. r[d + 1] <= r[ed.cursor]
        BY <1>3, <1>5, <3>1, <3>3, WalkGoesOn
      <4> QED
        BY <1>3, <1>6, <3>1, <3>2, <4>1
    <3>4. CASE ed.cursor <= d
      <4>1. c[d] = c[ed.cursor] + (d - ed.cursor)
        BY <1>3, <1>5, <1>10, <3>4, WalkGoesOn
      <4> QED
        BY <1>3, <1>6, <1>10, <2>4, <3>4, <4>1
    <3> QED
      BY <1>3, <1>10, <3>3, <3>4
  <2> QED
    BY <1>2, <1>9, <2>1, <2>2, <2>3, <2>4
<1>12. d = ed.cursor
  BY <1>3, <1>5, <1>10, <1>11, WalkIsInjective
<1>13. down = ed
  BY <1>1, <1>9, <1>12 DEF Whole, Editors
<1> QED
  BY <1>13 DEF down

(***************************************************************************)
(* Drawing, through the terminal.                                          *)
(***************************************************************************)
Screens == [row : 0 .. HISTORY_ROWS - 1, col : 0 .. TERMINAL_COLS - 1, moved : Nat]
FirstDrawn == [row |-> EDITOR_TEXT_START_ROW, col |-> 0, moved |-> 0]
DrawnSteps(ed) == [n \in Nat |-> [p \in Screens |-> terminal_put_char(ed.buffer[n - 1], p)]]

LEMMA PutIsScreen ==
    ASSUME NEW c, NEW p \in Screens, NEW q, q = terminal_put_char(c, p)
    PROVE  /\ q \in Screens
           /\ p.row <= q.row /\ p.moved <= q.moved
           /\ q.moved = p.moved =>
                  Place(q.row, q.col) = editor_step_visual_position(c, Place(p.row, p.col))
<1>1. /\ p.row \in 0 .. HISTORY_ROWS - 1 /\ p.col \in 0 .. TERMINAL_COLS - 1 /\ p.moved \in Nat
      /\ p = [row |-> p.row, col |-> p.col, moved |-> p.moved]
      /\ HISTORY_ROWS \in Nat /\ TERMINAL_COLS \in Nat \ {0}
  BY SizesAssumption DEF Screens
<1>2. CASE c = Newline \/ p.col + 1 = TERMINAL_COLS
  <2>1. q = TerminalRow(p)
    BY <1>2 DEF terminal_put_char
  <2>2. editor_step_visual_position(c, Place(p.row, p.col)) = Place(p.row + 1, 0)
    BY <1>1, <1>2 DEF editor_step_visual_position, Place
  <2>3. CASE p.row = HISTORY_ROWS - 1
    BY <1>1, <2>1, <2>3 DEF TerminalRow, Screens
  <2>4. CASE p.row # HISTORY_ROWS - 1
    BY <1>1, <2>1, <2>2, <2>4 DEF TerminalRow, Screens
  <2> QED
    BY <2>3, <2>4
<1>3. CASE c # Newline /\ p.col + 1 # TERMINAL_COLS
  <2>1. q = [p EXCEPT !.col = p.col + 1]
    BY <1>3 DEF terminal_put_char
  <2>2. editor_step_visual_position(c, Place(p.row, p.col)) = Place(p.row, p.col + 1)
    BY <1>1, <1>3 DEF editor_step_visual_position, Place
  <2>3. q.row = p.row /\ q.col = p.col + 1 /\ q.moved = p.moved /\ q \in Screens
    BY <1>1, <1>3, <2>1 DEF Screens
  <2> QED
    BY <1>1, <2>2, <2>3
<1> QED
  BY <1>2, <1>3

(* The recursive function in Drawn is one.                                 *)
LEMMA DrawnRecursion ==
    ASSUME NEW ed, NEW N \in Nat
    PROVE  \E f \in [0 .. N -> Screens] :
               /\ Follows(f, N, FirstDrawn, DrawnSteps(ed))
               /\ f[N] = Drawn(ed, N)
<1> DEFINE at[i \in 0 .. N] ==
               IF i = 0 THEN [row |-> EDITOR_TEXT_START_ROW, col |-> 0, moved |-> 0]
               ELSE terminal_put_char(ed.buffer[i - 1], at[i - 1])
<1>1. at[N] = Drawn(ed, N)
  BY DEF Drawn
<1>2. FirstDrawn \in Screens
  BY SizesAssumption DEF FirstDrawn, Screens, EDITOR_TEXT_START_ROW
<1>3. DrawnSteps(ed) \in [Nat -> [Screens -> Screens]]
  BY PutIsScreen DEF DrawnSteps
<1>4. PICK f \in [0 .. N -> Screens] : Follows(f, N, FirstDrawn, DrawnSteps(ed))
  BY <1>2, <1>3, RecursionExists
<1>5. f = [i \in 0 .. N |-> IF i = 0 THEN [row |-> EDITOR_TEXT_START_ROW, col |-> 0, moved |-> 0]
                            ELSE terminal_put_char(ed.buffer[i - 1], f[i - 1])]
  <2>1. ASSUME NEW i \in 0 .. N, i # 0
        PROVE  DrawnSteps(ed)[i][f[i - 1]] = terminal_put_char(ed.buffer[i - 1], f[i - 1])
    <3>1. i \in Nat /\ i - 1 \in 0 .. N
      BY <2>1
    <3>2. f[i - 1] \in Screens
      BY <1>4, <3>1
    <3> QED
      BY <3>1, <3>2 DEF DrawnSteps
  <2> QED
    BY <1>4, <2>1, Zenon DEF Follows, FirstDrawn
<1>6. at = [i \in 0 .. N |-> IF i = 0 THEN [row |-> EDITOR_TEXT_START_ROW, col |-> 0, moved |-> 0]
                             ELSE terminal_put_char(ed.buffer[i - 1], at[i - 1])]
  BY <1>5, Zenon
<1> HIDE DEF at
<1>7. \A i \in 0 .. N :
         at[i] = IF i = 0 THEN FirstDrawn ELSE terminal_put_char(ed.buffer[i - 1], at[i - 1])
  BY <1>6, Zenon DEF FirstDrawn
<1>8. 0 .. N \subseteq {i \in 0 .. N : at[i] \in Screens}
  <2> DEFINE S == {i \in 0 .. N : at[i] \in Screens}
  <2>1. 0 \in S
    BY <1>2, <1>7
  <2>2. ASSUME NEW i \in 0 .. N - 1, i \in S
        PROVE  i + 1 \in S
    <3>1. i + 1 \in 0 .. N /\ i + 1 # 0 /\ (i + 1) - 1 = i
      OBVIOUS
    <3>2. at[i + 1] = terminal_put_char(ed.buffer[i], at[i])
      BY <1>7, <3>1
    <3> QED
      BY <2>2, <3>1, <3>2, PutIsScreen
  <2> HIDE DEF S
  <2>3. 0 .. N \subseteq S
    BY <2>1, <2>2, InductionUpTo
  <2> QED
    BY <2>3 DEF S
<1>9. at \in [0 .. N -> Screens] /\ Follows(at, N, FirstDrawn, DrawnSteps(ed))
  <2>1. ASSUME NEW i \in 0 .. N, i # 0
        PROVE  DrawnSteps(ed)[i][at[i - 1]] = terminal_put_char(ed.buffer[i - 1], at[i - 1])
    <3>1. i \in Nat /\ i - 1 \in 0 .. N
      BY <2>1
    <3>2. at[i - 1] \in Screens
      BY <1>8, <3>1
    <3> QED
      BY <3>1, <3>2 DEF DrawnSteps
  <2>2. at = [i \in 0 .. N |-> IF i = 0 THEN FirstDrawn ELSE DrawnSteps(ed)[i][at[i - 1]]]
    BY <1>6, <2>1, Zenon DEF FirstDrawn
  <2> QED
    BY <1>8, <2>2, Zenon DEF Follows
<1> QED
  BY <1>1, <1>9

LEMMA DrawnPosition ==
    ASSUME NEW ed
    PROVE  /\ Drawn(ed, 0) = FirstDrawn
           /\ \A n \in Nat : /\ Drawn(ed, n) \in Screens
                             /\ Drawn(ed, n + 1) = terminal_put_char(ed.buffer[n], Drawn(ed, n))
<1>1. Drawn(ed, 0) = FirstDrawn
  <2>1. PICK f \in [0 .. 0 -> Screens] :
            Follows(f, 0, FirstDrawn, DrawnSteps(ed)) /\ f[0] = Drawn(ed, 0)
    BY DrawnRecursion
  <2> QED
    BY <2>1 DEF Follows
<1>2. ASSUME NEW n \in Nat
      PROVE  /\ Drawn(ed, n) \in Screens
             /\ Drawn(ed, n + 1) = terminal_put_char(ed.buffer[n], Drawn(ed, n))
  <2>0. n + 1 \in Nat /\ n <= n + 1 /\ (n + 1) - 1 = n /\ n + 1 # 0 /\ n \in 0 .. n /\ n + 1 \in 0 .. n + 1
    OBVIOUS
  <2>1. PICK f \in [0 .. n -> Screens] :
            Follows(f, n, FirstDrawn, DrawnSteps(ed)) /\ f[n] = Drawn(ed, n)
    BY DrawnRecursion
  <2>2. PICK g \in [0 .. n + 1 -> Screens] :
            Follows(g, n + 1, FirstDrawn, DrawnSteps(ed)) /\ g[n + 1] = Drawn(ed, n + 1)
    BY <2>0, DrawnRecursion
  <2>3. g[n] = f[n]
    BY <2>0, <2>1, <2>2, RecursionUnique
  <2>4. g[n + 1] = DrawnSteps(ed)[n + 1][g[n]]
    BY <2>0, <2>2, Zenon DEF Follows
  <2>5. f[n] \in Screens
    BY <2>0, <2>1
  <2>6. DrawnSteps(ed)[n + 1][f[n]] = terminal_put_char(ed.buffer[n], f[n])
    BY <2>0, <2>5 DEF DrawnSteps
  <2> QED
    BY <2>1, <2>2, <2>3, <2>4, <2>5, <2>6
<1> QED
  BY <1>1, <1>2

(* Neither the row nor the number of times the rows moved ever goes back.  *)
LEMMA DrawingGoesOn ==
    ASSUME NEW ed, NEW i \in Nat, NEW j \in Nat, i <= j
    PROVE  Drawn(ed, i).row <= Drawn(ed, j).row /\ Drawn(ed, i).moved <= Drawn(ed, j).moved
<1> DEFINE S == {n \in Nat : /\ Drawn(ed, i).row <= Drawn(ed, i + n).row
                             /\ Drawn(ed, i).moved <= Drawn(ed, i + n).moved}
<1>0. \A n \in Nat : Drawn(ed, n).row \in Nat /\ Drawn(ed, n).moved \in Nat
  <2> SUFFICES ASSUME NEW n \in Nat
               PROVE  Drawn(ed, n).row \in Nat /\ Drawn(ed, n).moved \in Nat
    OBVIOUS
  <2>1. Drawn(ed, n) \in Screens
    BY DrawnPosition
  <2> QED
    BY <2>1, SizesAssumption DEF Screens
<1>1. 0 \in S
  BY <1>0
<1>2. ASSUME NEW n \in Nat, n \in S
      PROVE  n + 1 \in S
  <2>1. i + n \in Nat /\ i + (n + 1) = (i + n) + 1 /\ (i + n) + 1 \in Nat
    OBVIOUS
  <2> DEFINE p == Drawn(ed, i + n)
             q == Drawn(ed, (i + n) + 1)
  <2>2. p \in Screens /\ q = terminal_put_char(ed.buffer[i + n], p)
    BY <2>1, DrawnPosition
  <2>3. /\ p.row \in Nat /\ p.moved \in Nat /\ q.row \in Nat /\ q.moved \in Nat
        /\ Drawn(ed, i).row \in Nat /\ Drawn(ed, i).moved \in Nat
        /\ Drawn(ed, i).row <= p.row /\ Drawn(ed, i).moved <= p.moved
    BY <1>0, <1>2, <2>1
  <2> HIDE DEF p, q
  <2>4. p.row <= q.row /\ p.moved <= q.moved
    BY <2>2, PutIsScreen
  <2>5. Drawn(ed, i).row <= q.row /\ Drawn(ed, i).moved <= q.moved
    BY <2>3, <2>4
  <2> QED
    BY <2>1, <2>5 DEF q
<1> HIDE DEF S
<1>3. j - i \in S
  BY <1>1, <1>2, SetInduction
<1>4. i + (j - i) = j
  OBVIOUS
<1> QED
  BY <1>3, <1>4 DEF S

(* As long as no row moved up, the editor and the terminal agree on the    *)
(* place of every character.                                               *)
LEMMA PlacesAgree ==
    ASSUME NEW ed, NEW N \in Nat, Drawn(ed, N).moved = 0
    PROVE  \A n \in 0 .. N : editor_cursor_get_visual_position(ed, n)
                                 = Place(Drawn(ed, n).row, Drawn(ed, n).col)
<1> DEFINE V(n) == editor_cursor_get_visual_position(ed, n)
           D(n) == Drawn(ed, n)
           S == {n \in 0 .. N : V(n) = Place(D(n).row, D(n).col)}
<1>1. \A n \in 0 .. N : D(n).moved = 0
  <2> SUFFICES ASSUME NEW n \in 0 .. N
               PROVE  D(n).moved = 0
    OBVIOUS
  <2>1. n \in Nat /\ n <= N
    OBVIOUS
  <2>2. D(n) \in Screens
    BY <2>1, DrawnPosition
  <2>3. D(n).moved <= D(N).moved
    BY <2>1, DrawingGoesOn
  <2> QED
    BY <2>2, <2>3 DEF Screens
<1>2. 0 \in S
  BY VisualPosition, DrawnPosition DEF FirstPlace, FirstDrawn, Place
<1>3. ASSUME NEW n \in 0 .. N - 1, n \in S
      PROVE  n + 1 \in S
  <2>1. n \in Nat /\ n \in 0 .. N /\ n + 1 \in 0 .. N
    OBVIOUS
  <2>2. V(n + 1) = editor_step_visual_position(ed.buffer[n], V(n))
    BY <2>1, VisualPosition
  <2>3. D(n) \in Screens /\ D(n + 1) = terminal_put_char(ed.buffer[n], D(n))
    BY <2>1, DrawnPosition
  <2>4. D(n + 1).moved = D(n).moved
    BY <1>1, <2>1
  <2>5. V(n) = Place(D(n).row, D(n).col)
    BY <1>3
  <2> HIDE DEF V, D
  <2>6. Place(D(n + 1).row, D(n + 1).col)
            = editor_step_visual_position(ed.buffer[n], Place(D(n).row, D(n).col))
    BY <2>3, <2>4, PutIsScreen
  <2>7. V(n + 1) = Place(D(n + 1).row, D(n + 1).col)
    BY <2>2, <2>5, <2>6
  <2> QED
    BY <2>1, <2>7
<1> HIDE DEF S
<1>4. 0 .. N \subseteq S
  BY <1>2, <1>3, InductionUpTo
<1> QED
  BY <1>4 DEF S

(* The cursor is drawn on its character.                                   *)
LEMMA CursorIsDrawnThere ==
    ASSUME NEW ed, Whole(ed), Drawn(ed, ed.len).moved = 0
    PROVE  editor_render(ed) = Place(Drawn(ed, ed.cursor).row, Drawn(ed, ed.cursor).col)
<1>1. ed.len \in Nat /\ ed.cursor \in 0 .. ed.len /\ ed.cursor \in Nat /\ ed.cursor <= ed.len
  BY SizesAssumption DEF Whole, Editors
<1> DEFINE d == Drawn(ed, ed.cursor)
           last == Drawn(ed, ed.len).row
<1>2. editor_cursor_get_visual_position(ed, ed.cursor) = Place(d.row, d.col)
  BY <1>1, PlacesAgree
<1>3. d.row <= last
  BY <1>1, DrawingGoesOn
<1>4. d.row \in Nat /\ last \in Nat
  <2>1. d \in Screens /\ Drawn(ed, ed.len) \in Screens
    BY <1>1, DrawnPosition
  <2> QED
    BY <2>1, SizesAssumption DEF Screens
<1>5. editor_render(ed) = LET place == Place(d.row, d.col)
                          IN  Place(IF place.row > last THEN last ELSE place.row, place.col)
  BY <1>2 DEF editor_render
<1> HIDE DEF d, last
<1>6. editor_render(ed) = Place(d.row, d.col)
  BY <1>3, <1>4, <1>5 DEF Place
<1> QED
  BY <1>6 DEF d
=============================================================================
