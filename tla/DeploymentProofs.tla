-------------------------- MODULE DeploymentProofs --------------------------
(***************************************************************************)
(* Proofs about db.c and about the broker process with its operator, disk  *)
(* and agent.  db.c keeps the device state and the audit log, for any      *)
(* number of threads, calls, failures and restarts; the threads of the     *)
(* process use it as that proof supposes.  The terminal is given back, for *)
(* any keys, signals, failures and restarts.  The agent is never swept for *)
(* silence, however long nothing is published.  The prompt, on its C array *)
(* and with its overprinting, is the editor of LineEditing, for any size   *)
(* of the line and of the history and any keys.                            *)
(***************************************************************************)
EXTENDS Deployment, WellFoundedInduction, TLAPS

\* Most leaves need no arithmetic: Zenon, unless a leaf names SMT.
USE Zenon

----------------------------------------------------------------------------
(* Induction, over sets of naturals *)

\* The library's rule of induction takes the property as an operator; this one takes the
\* set of the numbers that have it.
LEMMA LeastElement ==
  ASSUME NEW T, T \subseteq Nat, T # {}
  PROVE  \E x \in T : \A y \in T : x <= y
<1>. DEFINE R == OpToRel(<, Nat)
<1>1. IsWellFoundedOn(R, Nat)
  BY NatLessThanWellFounded
<1>2. \A x, y \in Nat : y < x => <<y, x>> \in R
  BY SMT DEF OpToRel
<1>. HIDE DEF R
<1>3. PICK x \in T : \A y \in T : ~ (<<y, x>> \in R)
  BY <1>1, WFMin
<1>4. \A y \in T : ~(y < x)
  BY <1>2, <1>3
<1>. QED  BY <1>4, SMT

LEMMA InductionUpTo ==
  ASSUME NEW S, NEW n \in Nat, 0 \in S, \A k \in 0 .. n - 1 : k \in S => k + 1 \in S
  PROVE  \A k \in 0 .. n : k \in S
<1>. DEFINE T == {k \in 0 .. n : k \notin S}
<1>. SUFFICES ASSUME T # {} PROVE FALSE
  OBVIOUS
<1>1. T \subseteq Nat
  BY SMT
<1>2. PICK x \in T : \A y \in T : x <= y
  <2>. HIDE DEF T
  <2>. QED  BY <1>1, LeastElement
<1>3. x \in 0 .. n /\ x \notin S /\ x # 0
  BY <1>2
<1>4. x - 1 \in 0 .. n - 1 /\ x - 1 \in 0 .. n /\ ~(x <= x - 1) /\ x - 1 + 1 = x
  BY <1>3, SMT
<1>5. x - 1 \in S
  BY <1>2, <1>4
<1>. QED  BY <1>3, <1>4, <1>5

----------------------------------------------------------------------------
(* The array of the line editor, and the row on the terminal *)

Space == " "
LineBreak == "\n"
Chars == {NUL, Space, LineBreak} \cup UNION {{s[i] : i \in DOMAIN s} : s \in Chunk}
Glyphs == Chars \ {NUL}
EditedLines == {s \in Seq(Glyphs) : Len(s) < LINE_SIZE}

\* The array holds a line of n characters, and strings in it end.
Holds(b, n) ==
  /\ b \in [Index -> Chars] /\ n \in 0 .. LINE_SIZE - 1
  /\ \A i \in 0 .. n - 1 : b[i] # NUL
  /\ b[LINE_SIZE - 1] = NUL
ClearBehind(b, n) == \A i \in n .. LINE_SIZE - 1 : b[i] = NUL

\* A string ends at the first zero byte.
LEMMA StringEnds ==
  ASSUME NEW b, NEW from \in Index, NEW n \in Index, from <= n, b[n] = NUL,
         \A j \in from .. n - 1 : b[j] # NUL
  PROVE  CString(b, from) = [i \in 1 .. n - from |-> b[from + i - 1]]
<1>. DEFINE S == {j \in Index : j >= from /\ b[j] = NUL}
<1>1. n \in S /\ \A y \in S : n <= y
  BY LineSizes, SMT DEF Index
<1>2. \A x \in S : x <= n => x = n
  BY <1>1, LineSizes, SMT DEF Index
<1>. HIDE DEF S
<1>3. Min(S) = n
  BY <1>1, <1>2 DEF Min
<1>. QED  BY <1>3 DEF CString, S

\* Printing over a row.
Printed(row, c, str) == SubSeq(row, 1, c) \o str \o SubSeq(row, c + Len(str) + 1, Len(row))

\* What the row is after printing over it.
LEMMA Overprint ==
  ASSUME NEW X, NEW row \in Seq(X), NEW str \in Seq(X), NEW c \in 0 .. Len(row)
  PROVE  /\ Printed(row, c, str) \in Seq(X)
         /\ Len(Printed(row, c, str)) = IF Len(row) > c + Len(str) THEN Len(row) ELSE c + Len(str)
         /\ \A i \in 1 .. c : Printed(row, c, str)[i] = row[i]
         /\ \A i \in 1 .. Len(str) : Printed(row, c, str)[c + i] = str[i]
         /\ \A i \in c + Len(str) + 1 .. Len(row) : Printed(row, c, str)[i] = row[i]
<1>. DEFINE u == SubSeq(row, 1, c)
            w == SubSeq(row, c + Len(str) + 1, Len(row))
            v == u \o str
            r == v \o w
<1>1. Len(row) \in Nat /\ Len(str) \in Nat /\ c \in Nat /\ c <= Len(row)
  BY SMT
<1>2. u \in Seq(X) /\ Len(u) = c /\ \A i \in 1 .. c : u[i] = row[i]
  BY <1>1, SMT
<1>3. /\ w \in Seq(X)
      /\ Len(w) = IF Len(row) > c + Len(str) THEN Len(row) - (c + Len(str)) ELSE 0
  BY <1>1, SMT
<1>4. \A i \in 1 .. Len(w) : w[i] = row[c + Len(str) + i]
  BY <1>1, SMT
<1>. HIDE DEF u, w
<1>5. /\ v \in Seq(X) /\ Len(v) = Len(u) + Len(str)
      /\ \A i \in 1 .. Len(u) : v[i] = u[i]
      /\ \A i \in 1 .. Len(str) : v[Len(u) + i] = str[i]
  <2>1. u \in Seq(X)
    BY <1>2
  <2>. QED  BY <2>1, SMT
<1>. HIDE DEF v
<1>6. /\ r \in Seq(X) /\ Len(r) = Len(v) + Len(w) /\ Len(w) \in Nat
      /\ \A i \in 1 .. Len(v) : r[i] = v[i]
      /\ \A i \in 1 .. Len(w) : r[Len(v) + i] = w[i]
  <2>1. v \in Seq(X) /\ w \in Seq(X)
    BY <1>3, <1>5
  <2>. QED  BY <2>1, SMT
<1>. HIDE DEF r
<1>7. /\ Len(v) = c + Len(str) /\ Len(w) \in Nat
      /\ Len(w) = IF Len(row) > c + Len(str) THEN Len(row) - (c + Len(str)) ELSE 0
      /\ Len(r) = Len(v) + Len(w)
  BY <1>2, <1>3, <1>5, <1>6
<1>8. \A i \in 1 .. c : r[i] = row[i]
  <2>. TAKE i \in 1 .. c
  <2>1. i \in 1 .. Len(v) /\ i \in 1 .. Len(u)
    BY <1>1, <1>2, <1>7, SMT
  <2>. QED  BY <1>2, <1>5, <1>6, <2>1
<1>9. \A i \in 1 .. Len(str) : r[c + i] = str[i]
  <2>. TAKE i \in 1 .. Len(str)
  <2>1. c + i \in 1 .. Len(v)
    BY <1>1, <1>7, SMT
  <2>. QED  BY <1>2, <1>5, <1>6, <2>1
<1>10. \A i \in c + Len(str) + 1 .. Len(row) : r[i] = row[i]
  <2>. TAKE i \in c + Len(str) + 1 .. Len(row)
  <2>1. PICK j \in 1 .. Len(w) : c + Len(str) + j = i
    <3>1. i - (c + Len(str)) \in 1 .. Len(w) /\ c + Len(str) + (i - (c + Len(str))) = i
      BY <1>1, <1>7, SMT
    <3>. QED  BY <3>1
  <2>. QED  BY <1>4, <1>6, <1>7, <2>1
<1>11. Len(r) = IF Len(row) > c + Len(str) THEN Len(row) ELSE c + Len(str)
  <2>1. CASE Len(row) > c + Len(str)
    BY <1>1, <1>7, <2>1, SMT
  <2>2. CASE ~(Len(row) > c + Len(str))
    BY <1>1, <1>7, <2>2, SMT
  <2>. QED  BY <2>1, <2>2
<1>12. r = Printed(row, c, str)
  BY DEF r, v, u, w, Printed
<1>. QED  BY <1>6, <1>8, <1>9, <1>10, <1>11, <1>12

----------------------------------------------------------------------------
(* The keys *)

EdFields == {"buffer", "length", "cursor_idx", "history", "history_view_idx", "row", "col", "shrunk"}
IsEd(e) == EdFields \subseteq DOMAIN e

\* Without bytes left behind the line: the row is the line and blanks.
Shows(row, b, n) ==
  /\ row \in Seq(Chars) /\ Len(row) >= n
  /\ \A i \in 1 .. n : row[i] = b[i - 1]
  /\ \A i \in n + 1 .. Len(row) : row[i] = Space

\* The state of the editor between two keys.  The line never holds a zero byte, the last
\* byte of the array always is one, and nothing that is remembered is longer than the
\* array.  As long as no recalled line has replaced a longer one the rest of the array is
\* clear and the row is the line: that is why the string printed behind the cursor ends
\* where the line does.
EdOK(e) ==
  /\ IsEd(e)
  /\ Holds(e.buffer, e.length) /\ e.cursor_idx \in 0 .. e.length
  /\ e.history \in Seq(EditedLines) /\ Len(e.history) <= MAX_HISTORY
  /\ e.history_view_idx \in 0 .. Len(e.history)
  /\ e.shrunk \in BOOLEAN
  /\ ~e.shrunk => /\ ClearBehind(e.buffer, e.length)
                  /\ Shows(e.row, e.buffer, e.length) /\ e.col = e.cursor_idx

\* What a key that edits the line leaves alone.
SameLines(f, e) ==
  /\ IsEd(f)
  /\ f.history = e.history /\ f.history_view_idx = e.history_view_idx /\ f.shrunk = e.shrunk

\* What type_char writes into the array, and prints.
Insert(b, n, k, c) == [make_room(b, k, n - k) EXCEPT ![k] = c]
TypedArray(e, c) == Insert(e.buffer, e.length, e.cursor_idx, c)
TypedString(e, c) ==
  <<c>> \o IF e.length - e.cursor_idx > 0 THEN CString(TypedArray(e, c), e.cursor_idx + 1) ELSE <<>>

\* The fields after a character, and after a backspace (EraseFields).
LEMMA TypeFields ==
  ASSUME NEW e, IsEd(e), NEW c, NEW f, f = type_char(e, c)
  PROVE  /\ SameLines(f, e) /\ f.buffer = TypedArray(e, c) /\ f.length = e.length + 1
         /\ f.cursor_idx = e.cursor_idx + 1
         /\ f.row = Printed(e.row, e.col, TypedString(e, c))
         /\ \E k : k = e.col + Len(TypedString(e, c)) /\ f.col = k - (e.length - e.cursor_idx)
<1>. DEFINE str == TypedString(e, c)
           n == e.length - e.cursor_idx
           p == printf(e, str)
           q == steps_back(p, n)
<1>1. f = [q EXCEPT !.buffer = TypedArray(e, c), !.length = @ + 1, !.cursor_idx = @ + 1]
  BY DEF type_char, TypedArray, TypedString, Insert
<1>8. p = printf(e, str) /\ q = steps_back(p, n)
  OBVIOUS
<1>. HIDE DEF str, n, p, q
<1>2. /\ SameLines(p, e) /\ p.buffer = e.buffer /\ p.length = e.length
      /\ p.cursor_idx = e.cursor_idx /\ p.row = Printed(e.row, e.col, str) /\ p.col = e.col + Len(str)
  BY <1>8 DEF printf, Printed, SameLines, IsEd, EdFields
<1>3. /\ SameLines(q, p) /\ q.buffer = p.buffer /\ q.length = p.length
      /\ q.cursor_idx = p.cursor_idx /\ q.row = p.row /\ q.col = p.col - n
  <2>1. IsEd(p)
    BY <1>2 DEF SameLines
  <2>. QED  BY <1>8, <2>1 DEF steps_back, SameLines, IsEd, EdFields
<1>4. /\ SameLines(f, q) /\ f.buffer = TypedArray(e, c) /\ f.length = q.length + 1
      /\ f.cursor_idx = q.cursor_idx + 1 /\ f.row = q.row /\ f.col = q.col
  BY <1>1, <1>3 DEF SameLines, IsEd, EdFields
<1>5. SameLines(f, e)
  BY <1>2, <1>3, <1>4 DEF SameLines
<1>6. f.length = e.length + 1 /\ f.cursor_idx = e.cursor_idx + 1
  BY <1>2, <1>3, <1>4
<1>7. \E k : k = e.col + Len(str) /\ f.col = k - n
  BY <1>2, <1>3, <1>4
<1>. QED  BY <1>2, <1>3, <1>4, <1>5, <1>6, <1>7 DEF str, n

\* What backspace writes and prints.
Remove(b, n, k) == terminate(memmove(b, k - 1, k, n - k), n - 1)
ErasedArray(e) == Remove(e.buffer, e.length, e.cursor_idx)
ErasedString(e) == CString(ErasedArray(e), e.cursor_idx - 1) \o <<Space>>

LEMMA EraseFields ==
  ASSUME NEW e, IsEd(e), e.cursor_idx # 0, NEW f, f = backspace(e)
  PROVE  /\ SameLines(f, e) /\ f.buffer = ErasedArray(e) /\ f.length = e.length - 1
         /\ f.cursor_idx = e.cursor_idx - 1
         /\ f.row = Printed(e.row, e.col - 1, ErasedString(e))
         /\ \E k, l : /\ l = e.col - 1 /\ k = l + Len(ErasedString(e))
                      /\ f.col = k - (e.length - e.cursor_idx + 1)
<1>. DEFINE str == ErasedString(e)
           n == e.length - e.cursor_idx + 1
           s == steps_back(e, 1)
           p == printf(s, str)
           q == steps_back(p, n)
<1>1. f = [q EXCEPT !.buffer = ErasedArray(e), !.length = @ - 1, !.cursor_idx = @ - 1]
  BY DEF backspace, ErasedArray, ErasedString, Space, Remove
<1>10. s = steps_back(e, 1) /\ p = printf(s, str) /\ q = steps_back(p, n)
  OBVIOUS
<1>. HIDE DEF str, n, s, p, q
<1>2. /\ SameLines(s, e) /\ s.buffer = e.buffer /\ s.length = e.length
      /\ s.cursor_idx = e.cursor_idx /\ s.row = e.row /\ s.col = e.col - 1
  BY <1>10 DEF steps_back, SameLines, IsEd, EdFields
<1>3. /\ SameLines(p, s) /\ p.buffer = s.buffer /\ p.length = s.length
      /\ p.cursor_idx = s.cursor_idx /\ p.row = Printed(s.row, s.col, str) /\ p.col = s.col + Len(str)
  <2>1. IsEd(s)
    BY <1>2 DEF SameLines
  <2>. QED  BY <1>10, <2>1 DEF printf, Printed, SameLines, IsEd, EdFields
<1>4. /\ SameLines(q, p) /\ q.buffer = p.buffer /\ q.length = p.length
      /\ q.cursor_idx = p.cursor_idx /\ q.row = p.row /\ q.col = p.col - n
  <2>1. IsEd(p)
    BY <1>3 DEF SameLines
  <2>. QED  BY <1>10, <2>1 DEF steps_back, SameLines, IsEd, EdFields
<1>5. /\ SameLines(f, q) /\ f.buffer = ErasedArray(e) /\ f.length = q.length - 1
      /\ f.cursor_idx = q.cursor_idx - 1 /\ f.row = q.row /\ f.col = q.col
  BY <1>1, <1>4 DEF SameLines, IsEd, EdFields
<1>6. SameLines(f, e)
  BY <1>2, <1>3, <1>4, <1>5 DEF SameLines
<1>7. f.length = e.length - 1 /\ f.cursor_idx = e.cursor_idx - 1
  BY <1>2, <1>3, <1>4, <1>5
<1>8. f.row = Printed(e.row, e.col - 1, str)
  BY <1>2, <1>3, <1>4, <1>5
<1>9. \E k, l : /\ l = e.col - 1 /\ k = l + Len(str)
                /\ f.col = k - n
  BY <1>2, <1>3, <1>4, <1>5
<1>. QED  BY <1>5, <1>6, <1>7, <1>8, <1>9 DEF str, n

----------------------------------------------------------------------------
(* The bytes *)

\* The array a holds the n characters of b, with c at place k.
Inserted(a, b, n, k, c) ==
  /\ \A i \in 0 .. k - 1 : a[i] = b[i]
  /\ a[k] = c
  /\ \A i \in k .. n - 1 : a[i + 1] = b[i]

\* memmove makes room for a character ...
LEMMA RoomMade ==
  ASSUME NEW b, NEW n, Holds(b, n), n < LINE_SIZE - 1, NEW k \in 0 .. n, NEW c \in Glyphs
  PROVE  /\ Inserted(Insert(b, n, k, c), b, n, k, c) /\ Holds(Insert(b, n, k, c), n + 1)
         /\ ClearBehind(b, n) => ClearBehind(Insert(b, n, k, c), n + 1)
<1>. DEFINE a == Insert(b, n, k, c)
<1>1. LINE_SIZE \in Nat /\ n \in Nat /\ k \in Nat /\ k <= n /\ k \in Index
  BY LineSizes, SMT DEF Holds, Index
<1>2. c \in Chars /\ c # NUL
  BY DEF Glyphs
<1>3. b \in [Index -> Chars] /\ b[LINE_SIZE - 1] = NUL /\ \A i \in 0 .. n - 1 : b[i] # NUL
  BY DEF Holds
<1>4. /\ a \in [Index -> Chars]
      /\ \A i \in Index : a[i] = IF i = k THEN c ELSE IF i \in k + 1 .. n THEN b[i - 1] ELSE b[i]
  <2>. DEFINE m == memmove(b, k + 1, k, n - k)
  <2>1. m \in [Index -> Chars] /\ \A i \in Index : m[i] = IF i \in k + 1 .. n THEN b[i - 1] ELSE b[i]
    BY <1>1, <1>3, SMT DEF memmove, Index
  <2>. HIDE DEF m
  <2>2. a = [m EXCEPT ![k] = c]
    BY DEF make_room, m, Insert
  <2>. QED  BY <1>1, <1>2, <2>1, <2>2
<1>. HIDE DEF a
<1>5. \A i \in 0 .. k - 1 : a[i] = b[i]
  BY <1>1, <1>4, SMT DEF Index
<1>6. a[k] = c
  BY <1>1, <1>4
<1>7. \A i \in k .. n - 1 : a[i + 1] = b[i]
  BY <1>1, <1>4, SMT DEF Index
<1>8. \A i \in n + 1 .. LINE_SIZE - 1 : a[i] = b[i]
  BY <1>1, <1>4, SMT DEF Index
<1>9. \A i \in 0 .. n : a[i] # NUL
  <2>. TAKE i \in 0 .. n
  <2>1. CASE i < k
    BY <1>1, <1>3, <1>5, <2>1, SMT
  <2>2. CASE i = k
    BY <1>2, <1>6, <2>2
  <2>3. CASE i > k
    <3>1. PICK j \in k .. n - 1 : j + 1 = i
      BY <1>1, <2>3, SMT
    <3>2. j \in 0 .. n - 1
      BY <1>1, SMT
    <3>. QED  BY <1>3, <1>7, <3>1, <3>2
  <2>. QED  BY <1>1, <2>1, <2>2, <2>3, SMT
<1>10. Holds(a, n + 1)
  <2>1. n + 1 \in 0 .. LINE_SIZE - 1 /\ LINE_SIZE - 1 \in n + 1 .. LINE_SIZE - 1
    BY <1>1, SMT
  <2>2. \A i \in 0 .. n + 1 - 1 : a[i] # NUL
    BY <1>1, <1>9, SMT
  <2>3. a[LINE_SIZE - 1] = NUL
    BY <1>3, <1>8, <2>1
  <2>. QED  BY <1>4, <2>1, <2>2, <2>3, SMT DEF Holds
<1>11. ClearBehind(b, n) => ClearBehind(a, n + 1)
  <2>1. \A i \in n + 1 .. LINE_SIZE - 1 : i \in n .. LINE_SIZE - 1
    BY <1>1, SMT
  <2>. QED  BY <1>8, <2>1 DEF ClearBehind
<1>12. Inserted(a, b, n, k, c)
  BY <1>5, <1>6, <1>7 DEF Inserted
<1>. QED  BY <1>10, <1>11, <1>12 DEF a

\* The array a holds the n characters of b, without the one before place k.
Removed(a, b, n, k) ==
  /\ \A i \in 0 .. k - 2 : a[i] = b[i]
  /\ \A i \in k .. n - 1 : a[i - 1] = b[i]
  /\ a[n - 1] = NUL

\* ... and closes the gap of one that is gone.
LEMMA RoomClosed ==
  ASSUME NEW b, NEW n, Holds(b, n), NEW k \in 1 .. n
  PROVE  /\ Removed(Remove(b, n, k), b, n, k) /\ Holds(Remove(b, n, k), n - 1)
         /\ ClearBehind(b, n) => ClearBehind(Remove(b, n, k), n - 1)
<1>. DEFINE a == Remove(b, n, k)
<1>1. LINE_SIZE \in Nat /\ n \in Nat /\ k \in Nat /\ 1 <= k /\ k <= n /\ n <= LINE_SIZE - 1 /\ n - 1 \in Index
  BY LineSizes, SMT DEF Holds, Index
<1>2. NUL \in Chars
  BY DEF Chars
<1>3. b \in [Index -> Chars] /\ b[LINE_SIZE - 1] = NUL /\ \A i \in 0 .. n - 1 : b[i] # NUL
  BY DEF Holds
<1>4. /\ a \in [Index -> Chars] /\ a[n - 1] = NUL
      /\ \A i \in Index : i # n - 1 => a[i] = IF i \in k - 1 .. n - 2 THEN b[i + 1] ELSE b[i]
  <2>. DEFINE m == memmove(b, k - 1, k, n - k)
              l == n - 1
  <2>1. m \in [Index -> Chars] /\ \A i \in Index : m[i] = IF i \in k - 1 .. n - 2 THEN b[i + 1] ELSE b[i]
    BY <1>1, <1>3, SMT DEF memmove, Index
  <2>2. l \in Index /\ a = [m EXCEPT ![l] = NUL]
    BY <1>1 DEF terminate, Remove
  <2>. HIDE DEF m, l
  <2>3. a \in [Index -> Chars] /\ a[l] = NUL /\ \A i \in Index : i # l => a[i] = m[i]
    BY <1>2, <2>1, <2>2
  <2>. QED  BY <2>1, <2>3 DEF l
<1>. HIDE DEF a
<1>5. \A i \in 0 .. k - 2 : a[i] = b[i]
  BY <1>1, <1>4, SMT DEF Index
<1>6. \A i \in k .. n - 1 : a[i - 1] = b[i]
  BY <1>1, <1>4, SMT DEF Index
<1>7. \A i \in n .. LINE_SIZE - 1 : a[i] = b[i]
  BY <1>1, <1>4, SMT DEF Index
<1>8. \A i \in 0 .. n - 1 - 1 : a[i] # NUL
  BY <1>1, <1>3, <1>4, SMT DEF Index
<1>9. Holds(a, n - 1)
  <2>1. n - 1 \in 0 .. LINE_SIZE - 1 /\ LINE_SIZE - 1 \in n .. LINE_SIZE - 1
    BY <1>1, SMT
  <2>. QED  BY <1>3, <1>4, <1>7, <1>8, <2>1 DEF Holds
<1>10. ClearBehind(b, n) => ClearBehind(a, n - 1)
  <2>1. \A i \in n - 1 .. LINE_SIZE - 1 : i = n - 1 \/ i \in n .. LINE_SIZE - 1
    BY <1>1, SMT
  <2>. QED  BY <1>4, <1>7, <2>1 DEF ClearBehind
<1>11. Removed(a, b, n, k)
  BY <1>4, <1>5, <1>6 DEF Removed
<1>. QED  BY <1>9, <1>10, <1>11 DEF a

\* The characters of the array are those of the string.
CopyOf(a, s) == \A i \in 0 .. Len(s) - 1 : a[i] = s[i + 1]

\* strcpy of a recalled line; what stands behind it is the old line's.
LEMMA Copied ==
  ASSUME NEW b, NEW n, Holds(b, n), NEW s \in EditedLines
  PROVE  /\ CopyOf(strcpy(b, s), s) /\ Holds(strcpy(b, s), Len(s))
         /\ ClearBehind(b, n) /\ ~(Len(s) < n) => ClearBehind(strcpy(b, s), Len(s))
<1>. DEFINE a == strcpy(b, s)
<1>1. /\ LINE_SIZE \in Nat /\ n \in Nat /\ Len(s) \in Nat /\ Len(s) < LINE_SIZE
      /\ \A i \in 1 .. Len(s) : s[i] \in Glyphs
  BY LineSizes, SMT DEF Holds, EditedLines
<1>2. NUL \in Chars /\ \A x \in Glyphs : x \in Chars /\ x # NUL
  BY DEF Chars, Glyphs
<1>3. b \in [Index -> Chars] /\ b[LINE_SIZE - 1] = NUL
  BY DEF Holds
<1>. DEFINE l == Len(s)
<1>4. /\ \A i \in Index : i < l => a[i] = s[i + 1]
      /\ \A i \in Index : i = l => a[i] = NUL
      /\ \A i \in Index : i > l => a[i] = b[i]
      /\ a = [i \in Index |-> a[i]]
  BY <1>1, SMT DEF strcpy, Index
<1>. HIDE DEF l, a
<1>5. \A i \in 0 .. l - 1 : i \in Index /\ a[i] = s[i + 1] /\ a[i] \in Glyphs
  <2>1. \A i \in 0 .. l - 1 : i \in Index /\ i < l /\ i + 1 \in 1 .. Len(s)
    BY <1>1, SMT DEF l, Index
  <2>. QED  BY <2>1, <1>1, <1>4
<1>6. a \in [Index -> Chars]
  <2>1. \A i \in Index : a[i] \in Chars
    <3>. TAKE i \in Index
    <3>1. CASE i < l
      <4>1. i \in 0 .. l - 1
        BY <1>1, <3>1, SMT DEF l, Index
      <4>. QED  BY <1>2, <1>5, <4>1
    <3>2. CASE i = l
      BY <1>2, <1>4, <3>2
    <3>3. CASE i > l
      BY <1>3, <1>4, <3>3
    <3>. QED  BY <1>1, <3>1, <3>2, <3>3, SMT DEF l, Index
  <2>. QED  BY <1>4, <2>1
<1>7. Holds(a, l)
  <2>1. l \in 0 .. LINE_SIZE - 1 /\ LINE_SIZE - 1 \in Index /\ (LINE_SIZE - 1 = l \/ LINE_SIZE - 1 > l)
    BY <1>1, SMT DEF l, Index
  <2>2. a[LINE_SIZE - 1] = NUL
    BY <1>3, <1>4, <2>1
  <2>. QED  BY <1>2, <1>5, <1>6, <2>1, <2>2 DEF Holds
<1>8. ASSUME ClearBehind(b, n), ~(l < n)  PROVE ClearBehind(a, l)
  <2>1. \A i \in l .. LINE_SIZE - 1 : i \in Index /\ (i = l \/ i > l) /\ i \in n .. LINE_SIZE - 1
    BY <1>1, <1>8, SMT DEF l, Index
  <2>. QED  BY <1>4, <1>8, <2>1 DEF ClearBehind
<1>9. CopyOf(a, s)
  BY <1>5 DEF CopyOf, l
<1>. QED  BY <1>7, <1>8, <1>9 DEF l, a

----------------------------------------------------------------------------
(* The row *)

\* The string, printed from place k of the row on, makes the row show m characters.
Renews(str, row, k, a, m) ==
  /\ k <= m /\ m <= k + Len(str)
  /\ \A i \in 1 .. k : row[i] = a[i - 1]
  /\ \A j \in 1 .. Len(str) : str[j] = IF k + j <= m THEN a[k + j - 1] ELSE Space
  /\ \A i \in k + Len(str) + 1 .. Len(row) : row[i] = Space

LEMMA RowShows ==
  ASSUME NEW a, NEW row \in Seq(Chars), NEW str \in Seq(Chars), NEW k \in 0 .. Len(row), NEW m \in Nat,
         Renews(str, row, k, a, m)
  PROVE  Shows(Printed(row, k, str), a, m)
<1>. DEFINE r == Printed(row, k, str)
<1>8. /\ k <= m /\ m <= k + Len(str)
      /\ \A i \in 1 .. k : row[i] = a[i - 1]
      /\ \A j \in 1 .. Len(str) : str[j] = IF k + j <= m THEN a[k + j - 1] ELSE Space
      /\ \A i \in k + Len(str) + 1 .. Len(row) : row[i] = Space
  BY DEF Renews
<1>1. /\ r \in Seq(Chars)
      /\ Len(r) = IF Len(row) > k + Len(str) THEN Len(row) ELSE k + Len(str)
      /\ \A i \in 1 .. k : r[i] = row[i]
      /\ \A i \in 1 .. Len(str) : r[k + i] = str[i]
      /\ \A i \in k + Len(str) + 1 .. Len(row) : r[i] = row[i]
  BY Overprint, SMT
<1>. HIDE DEF r
<1>. DEFINE n == Len(str)
           w == Len(row)
<1>2. n \in Nat /\ w \in Nat /\ k \in Nat /\ k <= w
  BY SMT
<1>3. Len(r) = IF w > k + n THEN w ELSE k + n
  BY <1>1
<1>4. \A i \in 1 .. n : r[k + i] = IF k + i <= m THEN a[k + i - 1] ELSE Space
  BY <1>1, <1>8
<1>. HIDE DEF n, w
<1>5. Len(r) \in Nat /\ Len(r) >= m
  <2>1. m <= k + n
    BY <1>8 DEF n
  <2>2. CASE w > k + n
    BY <1>2, <1>3, <2>1, <2>2, SMT
  <2>3. CASE ~(w > k + n)
    BY <1>2, <1>3, <2>1, <2>3, SMT
  <2>. QED  BY <2>2, <2>3
<1>6. \A i \in 1 .. m : r[i] = a[i - 1]
  <2>. TAKE i \in 1 .. m
  <2>1. CASE i <= k
    <3>1. i \in 1 .. k
      BY <1>2, <2>1, SMT
    <3>. QED  BY <1>1, <1>8, <3>1
  <2>2. CASE i > k
    <3>1. PICK j \in 1 .. n : k + j = i
      <4>1. i - k \in 1 .. n /\ k + (i - k) = i
        BY <1>2, <1>8, <2>2, SMT DEF n
      <4>. QED  BY <4>1
    <3>2. k + j <= m
      BY <3>1, SMT
    <3>3. r[k + j] = a[k + j - 1]
      BY <1>4, <3>2
    <3>. QED  BY <3>1, <3>3, SMT
  <2>. QED  BY <1>2, <2>1, <2>2, SMT
<1>7. \A i \in m + 1 .. Len(r) : r[i] = Space
  <2>. TAKE i \in m + 1 .. Len(r)
  <2>1. CASE i <= k + n
    <3>1. PICK j \in 1 .. n : k + j = i
      <4>1. i - k \in 1 .. n /\ k + (i - k) = i
        BY <1>2, <1>5, <1>8, <2>1, SMT
      <4>. QED  BY <4>1
    <3>2. ~(k + j <= m)
      BY <1>5, <3>1, SMT
    <3>3. r[k + j] = Space
      BY <1>4, <3>2
    <3>. QED  BY <3>1, <3>3
  <2>2. CASE i > k + n
    <3>1. i \in k + n + 1 .. w
      <4>1. CASE w > k + n
        BY <1>2, <1>3, <1>5, <2>2, <4>1, SMT
      <4>2. CASE ~(w > k + n)
        BY <1>2, <1>3, <1>5, <2>2, <4>2, SMT
      <4>. QED  BY <4>1, <4>2
    <3>. QED  BY <1>1, <1>8, <3>1 DEF n, w
  <2>. QED  BY <1>2, <1>5, <2>1, <2>2, SMT
<1>. QED  BY <1>1, <1>5, <1>6, <1>7 DEF Shows, r

\* The string t is what stands in the array from one place to another.
Part(t, a, from, m) ==
  /\ t \in Seq(Chars) /\ Len(t) = m - from
  /\ \A i \in 1 .. m - from : t[i] = a[from + i - 1]

\* What is printed from a place on: the rest of the line.
LEMMA RestOfLine ==
  ASSUME NEW a, NEW m, Holds(a, m), a[m] = NUL, NEW from \in 0 .. m
  PROVE  Part(CString(a, from), a, from, m)
<1>1. LINE_SIZE \in Nat /\ m \in Nat /\ from \in Nat /\ from <= m /\ m <= LINE_SIZE - 1 /\ m - from \in Nat
  BY LineSizes, SMT DEF Holds
<1>2. from \in Index /\ m \in Index /\ from <= m /\ \A j \in from .. m - 1 : j \in 0 .. m - 1
  BY <1>1, SMT DEF Index
<1>3. \A j \in from .. m - 1 : a[j] # NUL
  BY <1>2 DEF Holds
<1>4. CString(a, from) = [i \in 1 .. m - from |-> a[from + i - 1]]
  BY <1>2, <1>3, StringEnds, SMT
<1>5. \A i \in 1 .. m - from : from + i - 1 \in Index
  BY <1>1, SMT DEF Index
<1>6. \A i \in 1 .. m - from : a[from + i - 1] \in Chars
  BY <1>5 DEF Holds
<1>7. CString(a, from) \in [1 .. m - from -> Chars]
  BY <1>4, <1>6
<1>8. CString(a, from) \in Seq(Chars) /\ Len(CString(a, from)) = m - from
  BY <1>1, <1>7, SMT
<1>. QED  BY <1>4, <1>8 DEF Part

----------------------------------------------------------------------------
(* Typing and erasing *)

\* A character goes in at the cursor.
LEMMA TypeKeeps ==
  ASSUME NEW e, EdOK(e), e.length < LINE_SIZE - 1, NEW c \in Glyphs, NEW f, f = type_char(e, c)
  PROVE  /\ EdOK(f) /\ SameLines(f, e) /\ f.length = e.length + 1 /\ f.cursor_idx = e.cursor_idx + 1
         /\ Inserted(f.buffer, e.buffer, e.length, e.cursor_idx, c)
<1>. DEFINE b == e.buffer
            n == e.length
            k == e.cursor_idx
            a == TypedArray(e, c)
            str == TypedString(e, c)
<1>1. /\ SameLines(f, e) /\ f.buffer = a /\ f.length = n + 1 /\ f.cursor_idx = k + 1
      /\ f.row = Printed(e.row, e.col, str)
      /\ \E x : x = e.col + Len(str) /\ f.col = x - (n - k)
  <2>1. IsEd(e)
    BY DEF EdOK
  <2>. QED  BY <2>1, TypeFields, SMT
<1>2. Holds(b, n) /\ k \in 0 .. n
  BY DEF EdOK
<1>3. n \in Nat /\ k \in Nat /\ k <= n /\ LINE_SIZE \in Nat
  BY <1>2, LineSizes, SMT DEF Holds
<1>4. a = Insert(b, n, k, c)
  BY DEF TypedArray
<1>5. n < LINE_SIZE - 1
  OBVIOUS
<1>6. str = <<c>> \o IF n - k > 0 THEN CString(a, k + 1) ELSE <<>>
  BY DEF TypedString
<1>7. /\ e.history \in Seq(EditedLines) /\ Len(e.history) <= MAX_HISTORY
      /\ e.history_view_idx \in 0 .. Len(e.history) /\ e.shrunk \in BOOLEAN
      /\ ~e.shrunk => ClearBehind(b, n) /\ Shows(e.row, b, n) /\ e.col = k
  BY DEF EdOK
<1>. HIDE DEF a, str
<1>8. Inserted(a, b, n, k, c) /\ Holds(a, n + 1) /\ (ClearBehind(b, n) => ClearBehind(a, n + 1))
  <2>. HIDE DEF b, n, k
  <2>. QED  BY <1>2, <1>4, <1>5, RoomMade
<1>9. ASSUME ~e.shrunk  PROVE ClearBehind(a, n + 1) /\ Shows(f.row, a, n + 1) /\ f.col = k + 1
  <2>1. ClearBehind(a, n + 1) /\ Shows(e.row, b, n) /\ e.col = k
    BY <1>7, <1>8, <1>9
  <2>2. a[n + 1] = NUL
    <3>1. n + 1 \in n + 1 .. LINE_SIZE - 1
      BY <1>3, <1>5, SMT
    <3>. QED  BY <2>1, <3>1 DEF ClearBehind
  <2>12. /\ \A i \in 0 .. k - 1 : a[i] = b[i]
         /\ a[k] = c
    BY <1>8 DEF Inserted
  <2>3. /\ str \in Seq(Chars) /\ Len(str) = n + 1 - k
        /\ \A j \in 1 .. Len(str) : str[j] = a[k + j - 1]
    <3>. HIDE DEF b, n, k
    <3>1. c \in Chars
      BY DEF Glyphs
    <3>2. CASE n - k > 0
      <4>. DEFINE from == k + 1
                  m == n + 1
                  t == CString(a, from)
      <4>1. from \in 0 .. m
        BY <1>3, SMT
      <4>2. /\ t \in Seq(Chars) /\ Len(t) = (n + 1) - (k + 1)
            /\ \A i \in 1 .. (n + 1) - (k + 1) : t[i] = a[k + 1 + i - 1]
        <5>1. Holds(a, m) /\ a[m] = NUL
          BY <1>8, <2>2
        <5>2. Part(t, a, from, m)
          <6>. HIDE DEF m, from
          <6>. QED  BY <4>1, <5>1, RestOfLine
        <5>. QED  BY <5>2 DEF Part
      <4>3. str = <<c>> \o t
        BY <1>6, <3>2
      <4>. HIDE DEF t
      <4>4. <<c>> \in Seq(Chars) /\ Len(<<c>>) = 1 /\ <<c>>[1] = c
        BY <3>1, SMT
      <4>5. /\ str \in Seq(Chars) /\ Len(str) = 1 + Len(t) /\ str[1] = c
            /\ \A i \in 1 .. Len(t) : str[1 + i] = t[i]
        BY <4>2, <4>3, <4>4, SMT
      <4>6. Len(str) = n + 1 - k
        BY <1>3, <4>2, <4>5, SMT
      <4>7. ASSUME NEW j \in 1 .. Len(str)  PROVE str[j] = a[k + j - 1]
        <5>1. CASE j = 1
          <6>1. k + j - 1 = k
            BY <1>3, <5>1, SMT
          <6>. QED  BY <2>12, <4>5, <5>1, <6>1
        <5>2. CASE j # 1
          <6>1. PICK i \in 1 .. Len(t) : /\ 1 + i = j /\ k + 1 + i - 1 = k + j - 1
                                         /\ i \in 1 .. (n + 1) - (k + 1)
            <7>1. /\ j - 1 \in 1 .. Len(t) /\ 1 + (j - 1) = j
                  /\ k + 1 + (j - 1) - 1 = k + j - 1 /\ j - 1 \in 1 .. (n + 1) - (k + 1)
              BY <1>3, <4>2, <4>6, <5>2, SMT
            <7>. QED  BY <7>1
          <6>2. str[1 + i] = t[i] /\ t[i] = a[k + 1 + i - 1]
            BY <4>2, <4>5, <6>1
          <6>. QED  BY <6>1, <6>2
        <5>. QED  BY <5>1, <5>2
      <4>. QED  BY <4>5, <4>6, <4>7
    <3>3. CASE ~(n - k > 0)
      <4>1. n = k
        BY <1>3, <3>3, SMT
      <4>2. str = <<c>> \o <<>>
        BY <1>6, <3>3
      <4>3. str \in Seq(Chars) /\ Len(str) = 1 /\ str[1] = c
        BY <3>1, <4>2, SMT
      <4>4. \A j \in 1 .. Len(str) : j = 1 /\ k + j - 1 = k
        BY <1>3, <4>3, SMT
      <4>5. n + 1 - k = 1
        BY <1>3, <4>1, SMT
      <4>. QED  BY <2>12, <4>3, <4>4, <4>5
    <3>. QED  BY <3>2, <3>3
  <2>4. /\ e.row \in Seq(Chars) /\ e.col = k /\ Len(e.row) >= n
        /\ \A i \in 1 .. n : e.row[i] = b[i - 1]
        /\ \A i \in n + 1 .. Len(e.row) : e.row[i] = Space
    BY <2>1 DEF Shows
  <2>. DEFINE row == e.row
              r == f.row
  <2>5. r = Printed(row, k, str)
    BY <1>1, <2>4
  <2>6. /\ row \in Seq(Chars) /\ Len(row) \in Nat /\ k \in 0 .. Len(row) /\ n + 1 \in Nat
        /\ k <= n + 1 /\ n + 1 <= k + Len(str)
    BY <1>3, <2>3, <2>4, SMT
  <2>7. \A i \in 1 .. k : row[i] = a[i - 1]
    <3>1. \A i \in 1 .. k : i \in 1 .. n /\ i - 1 \in 0 .. k - 1
      BY <1>3, SMT
    <3>. QED  BY <2>4, <2>12, <3>1
  <2>8. \A j \in 1 .. Len(str) : str[j] = IF k + j <= n + 1 THEN a[k + j - 1] ELSE Space
    <3>1. \A j \in 1 .. Len(str) : k + j <= n + 1
      BY <1>3, <2>3, SMT
    <3>. QED  BY <2>3, <3>1
  <2>9. \A i \in k + Len(str) + 1 .. Len(row) : row[i] = Space
    <3>1. \A i \in k + Len(str) + 1 .. Len(row) : i \in n + 1 .. Len(row)
      BY <1>3, <2>3, <2>6, SMT
    <3>. QED  BY <2>4, <3>1
  <2>10. Shows(r, a, n + 1)
    <3>1. str \in Seq(Chars)
      BY <2>3
    <3>. DEFINE m == n + 1
    <3>2. Renews(str, row, k, a, m)
      BY <2>6, <2>7, <2>8, <2>9 DEF Renews
    <3>3. m \in Nat
      BY <2>6
    <3>. HIDE DEF b, n, k, m, row, r
    <3>4. Shows(r, a, m)
      BY <2>5, <2>6, <3>1, <3>2, <3>3, RowShows
    <3>. QED  BY <3>4 DEF m
  <2>11. f.col = k + 1
    <3>1. PICK x : x = e.col + Len(str) /\ f.col = x - (n - k)
      BY <1>1
    <3>. HIDE DEF n, k
    <3>. QED  BY <1>3, <2>3, <2>4, <3>1, SMT
  <2>. QED  BY <1>1, <2>1, <2>10, <2>11
<1>10. f.cursor_idx \in 0 .. f.length
  <2>1. k + 1 \in 0 .. n + 1
    BY <1>3, SMT
  <2>. QED  BY <1>1, <2>1
<1>11. EdOK(f)
  BY <1>1, <1>7, <1>8, <1>9, <1>10 DEF EdOK, SameLines
<1>. QED  BY <1>1, <1>8, <1>11

\* A backspace takes out the character before the cursor.
LEMMA EraseKeeps ==
  ASSUME NEW e, EdOK(e), e.cursor_idx # 0, NEW f, f = backspace(e)
  PROVE  /\ EdOK(f) /\ SameLines(f, e) /\ f.length = e.length - 1 /\ f.cursor_idx = e.cursor_idx - 1
         /\ Removed(f.buffer, e.buffer, e.length, e.cursor_idx)
<1>. DEFINE b == e.buffer
            n == e.length
            k == e.cursor_idx
            a == ErasedArray(e)
            str == ErasedString(e)
<1>1. /\ SameLines(f, e) /\ f.buffer = a /\ f.length = n - 1 /\ f.cursor_idx = k - 1
      /\ f.row = Printed(e.row, e.col - 1, str)
      /\ \E x, l : l = e.col - 1 /\ x = l + Len(str) /\ f.col = x - (n - k + 1)
  <2>1. IsEd(e)
    BY DEF EdOK
  <2>. QED  BY <2>1, EraseFields, SMT
<1>2. Holds(b, n) /\ k \in 0 .. n /\ k # 0
  BY DEF EdOK
<1>3. n \in Nat /\ k \in Nat /\ 1 <= k /\ k <= n /\ LINE_SIZE \in Nat /\ n <= LINE_SIZE - 1 /\ k \in 1 .. n
  BY <1>2, LineSizes, SMT DEF Holds
<1>4. a = Remove(b, n, k)
  BY DEF ErasedArray
<1>5. str = CString(a, k - 1) \o <<Space>>
  BY DEF ErasedString
<1>6. /\ e.history \in Seq(EditedLines) /\ Len(e.history) <= MAX_HISTORY
      /\ e.history_view_idx \in 0 .. Len(e.history) /\ e.shrunk \in BOOLEAN
      /\ ~e.shrunk => ClearBehind(b, n) /\ Shows(e.row, b, n) /\ e.col = k
  BY DEF EdOK
<1>. HIDE DEF a, str
<1>7. Removed(a, b, n, k) /\ Holds(a, n - 1) /\ (ClearBehind(b, n) => ClearBehind(a, n - 1))
  <2>. HIDE DEF b, n, k
  <2>. QED  BY <1>2, <1>3, <1>4, RoomClosed
<1>8. ASSUME ~e.shrunk  PROVE ClearBehind(a, n - 1) /\ Shows(f.row, a, n - 1) /\ f.col = k - 1
  <2>1. ClearBehind(a, n - 1) /\ Shows(e.row, b, n) /\ e.col = k
    BY <1>6, <1>7, <1>8
  <2>2. (\A i \in 0 .. k - 2 : a[i] = b[i]) /\ a[n - 1] = NUL
    BY <1>7 DEF Removed
  <2>. DEFINE from == k - 1
              m == n - 1
              t == CString(a, from)
              row == e.row
              r == f.row
  <2>3. /\ from \in Nat /\ m \in Nat /\ from <= m /\ from \in 0 .. m /\ m - from \in Nat
        /\ n = m + 1 /\ k = from + 1
    BY <1>3, SMT
  <2>4. Holds(a, m) /\ a[m] = NUL /\ str = t \o <<Space>>
    BY <1>5, <1>7, <2>2
  <2>5. e.col - 1 = from
    BY <2>1
  <2>6. r = Printed(row, from, str) /\ \E x : x = from + Len(str) /\ f.col = x - (n - k + 1)
    BY <1>1, <2>5
  <2>7. /\ row \in Seq(Chars) /\ Len(row) >= n
        /\ \A i \in 1 .. n : row[i] = b[i - 1]
        /\ \A i \in n + 1 .. Len(row) : row[i] = Space
    BY <2>1 DEF Shows
  <2>. HIDE DEF b, n, k, from, m, row, r
  <2>8. Part(t, a, from, m)
    BY <2>3, <2>4, RestOfLine
  <2>. HIDE DEF t
  <2>9. t \in Seq(Chars) /\ Len(t) = m - from /\ \A i \in 1 .. m - from : t[i] = a[from + i - 1]
    BY <2>8 DEF Part
  <2>10. <<Space>> \in Seq(Chars) /\ Len(<<Space>>) = 1 /\ <<Space>>[1] = Space
    <3>1. Space \in Chars
      BY DEF Chars
    <3>. QED  BY <3>1, SMT
  <2>11. /\ str \in Seq(Chars) /\ Len(str) = Len(t) + 1 /\ str[Len(t) + 1] = Space
         /\ \A i \in 1 .. Len(t) : str[i] = t[i]
    BY <2>4, <2>9, <2>10, SMT
  <2>12. Len(str) = m - from + 1 /\ str[m - from + 1] = Space
    BY <2>3, <2>9, <2>11
  <2>13. \A j \in 1 .. Len(str) : str[j] = IF from + j <= m THEN a[from + j - 1] ELSE Space
    <3>. TAKE j \in 1 .. Len(str)
    <3>1. CASE from + j <= m
      <4>1. j \in 1 .. m - from /\ j \in 1 .. Len(t)
        BY <2>3, <2>9, <3>1, SMT
      <4>. QED  BY <2>9, <2>11, <3>1, <4>1
    <3>2. CASE ~(from + j <= m)
      <4>1. j = m - from + 1
        BY <2>3, <2>12, <3>2, SMT
      <4>. QED  BY <2>12, <3>2, <4>1
    <3>. QED  BY <3>1, <3>2
  <2>14. \A i \in 1 .. from : row[i] = a[i - 1]
    <3>1. \A i \in 1 .. from : i \in 1 .. n /\ i - 1 \in 0 .. k - 2
      BY <1>3, <2>3, SMT
    <3>. QED  BY <2>2, <2>7, <3>1
  <2>15. \A i \in from + Len(str) + 1 .. Len(row) : row[i] = Space
    <3>1. Len(row) \in Nat
      BY <2>7, SMT
    <3>2. \A i \in from + Len(str) + 1 .. Len(row) : i \in n + 1 .. Len(row)
      BY <2>3, <2>12, <3>1, SMT
    <3>. QED  BY <2>7, <3>2
  <2>16. from <= m /\ m <= from + Len(str) /\ from \in 0 .. Len(row)
    <3>1. Len(row) \in Nat
      BY <2>7, SMT
    <3>. QED  BY <2>3, <2>7, <2>12, <3>1, SMT
  <2>17. Shows(r, a, m)
    <3>1. Renews(str, row, from, a, m)
      BY <2>13, <2>14, <2>15, <2>16 DEF Renews
    <3>2. str \in Seq(Chars) /\ row \in Seq(Chars)
      BY <2>7, <2>11
    <3>. QED  BY <2>3, <2>6, <2>16, <3>1, <3>2, RowShows
  <2>18. f.col = from
    <3>1. PICK x : x = from + Len(str) /\ f.col = x - (n - k + 1)
      BY <2>6
    <3>. QED  BY <2>3, <2>12, <3>1, SMT
  <2>. QED  BY <2>1, <2>17, <2>18 DEF r, m, from
<1>9. f.cursor_idx \in 0 .. f.length
  <2>1. k - 1 \in 0 .. n - 1
    BY <1>3, SMT
  <2>. QED  BY <1>1, <2>1
<1>10. EdOK(f)
  BY <1>1, <1>6, <1>7, <1>8, <1>9 DEF EdOK, SameLines
<1>. QED  BY <1>1, <1>7, <1>10

----------------------------------------------------------------------------
(* Text that is pasted *)

\* The array a holds the n characters of b, with the first j of s before place k.
Pasted(a, b, n, k, s, j) ==
  /\ \A i \in 0 .. k - 1 : a[i] = b[i]
  /\ \A i \in 1 .. j : a[k + (i - 1)] = s[i]
  /\ \A i \in k .. n - 1 : a[i + j] = b[i]

After(e, j, s) ==
  /\ EdOK(e) /\ SameLines(e, ed) /\ e.length = ed.length + j /\ e.cursor_idx = ed.cursor_idx + j
  /\ Pasted(e.buffer, ed.buffer, ed.length, ed.cursor_idx, s, j)

\* Another character of the text that is pasted.
LEMMA OneMore ==
  ASSUME EdOK(ed), NEW s \in Seq(Glyphs), Fits(ed, Len(s)), NEW j \in 0 .. Len(s) - 1, NEW e, After(e, j, s)
  PROVE  After(type_char(e, s[j + 1]), j + 1, s)
<1>. DEFINE f == type_char(e, s[j + 1])
            n == ed.length
            k == ed.cursor_idx
            b == ed.buffer
            a == e.buffer
            g == f.buffer
            x == s[j + 1]
<1>1. Len(s) \in Nat /\ j \in Nat /\ j < Len(s) /\ j + 1 \in 1 .. Len(s)
  BY SMT
<1>2. x \in Glyphs
  BY <1>1, SMT
<1>3. n \in Nat /\ k \in Nat /\ k <= n /\ LINE_SIZE \in Nat
  <2>1. Holds(b, n) /\ k \in 0 .. n
    BY DEF EdOK
  <2>. QED  BY <2>1, LineSizes, SMT DEF Holds
<1>4. EdOK(e) /\ SameLines(e, ed) /\ e.length = n + j /\ e.cursor_idx = k + j /\ Pasted(a, b, n, k, s, j)
  BY DEF After
<1>5. n + Len(s) < LINE_SIZE - 1
  BY DEF Fits
<1>6. e.length < LINE_SIZE - 1
  BY <1>1, <1>3, <1>4, <1>5, SMT
<1>7. /\ EdOK(f) /\ SameLines(f, e) /\ f.length = e.length + 1 /\ f.cursor_idx = e.cursor_idx + 1
      /\ Inserted(g, a, e.length, e.cursor_idx, x)
  <2>1. f = type_char(e, x)
    OBVIOUS
  <2>. HIDE DEF f, x
  <2>. QED  BY <1>2, <1>4, <1>6, <2>1, TypeKeeps
<1>. HIDE DEF f, x, g, a, b, n, k
<1>8. SameLines(f, ed)
  BY <1>4, <1>7 DEF SameLines
<1>9. f.length = n + (j + 1) /\ f.cursor_idx = k + (j + 1)
  BY <1>1, <1>3, <1>4, <1>7, SMT
<1>10. Inserted(g, a, n + j, k + j, x)
  BY <1>4, <1>7
<1>11. /\ \A i \in 0 .. (k + j) - 1 : g[i] = a[i]
       /\ g[k + j] = x
       /\ \A i \in k + j .. (n + j) - 1 : g[i + 1] = a[i]
  BY <1>10 DEF Inserted
<1>12. /\ \A i \in 0 .. k - 1 : a[i] = b[i]
       /\ \A i \in 1 .. j : a[k + (i - 1)] = s[i]
       /\ \A i \in k .. n - 1 : a[i + j] = b[i]
  BY <1>4 DEF Pasted
<1>13. \A i \in 0 .. k - 1 : g[i] = b[i]
  <2>1. \A i \in 0 .. k - 1 : i \in 0 .. (k + j) - 1
    BY <1>1, <1>3, SMT
  <2>. QED  BY <1>11, <1>12, <2>1
<1>14. \A i \in 1 .. j + 1 : g[k + (i - 1)] = s[i]
  <2>. TAKE i \in 1 .. j + 1
  <2>1. CASE i \in 1 .. j
    <3>1. k + (i - 1) \in 0 .. (k + j) - 1
      BY <1>1, <1>3, <2>1, SMT
    <3>. QED  BY <1>11, <1>12, <2>1, <3>1
  <2>2. CASE i = j + 1
    <3>1. k + (i - 1) = k + j
      BY <1>1, <1>3, <2>2, SMT
    <3>. QED  BY <1>11, <2>2, <3>1 DEF x
  <2>. QED  BY <1>1, <2>1, <2>2, SMT
<1>15. \A i \in k .. n - 1 : g[i + (j + 1)] = b[i]
  <2>. TAKE i \in k .. n - 1
  <2>1. i + j \in k + j .. (n + j) - 1 /\ (i + j) + 1 = i + (j + 1)
    BY <1>1, <1>3, SMT
  <2>2. g[(i + j) + 1] = a[i + j]
    BY <1>11, <2>1
  <2>. QED  BY <1>12, <2>1, <2>2
<1>16. Pasted(g, b, n, k, s, j + 1)
  BY <1>13, <1>14, <1>15 DEF Pasted
<1>. QED  BY <1>7, <1>8, <1>9, <1>16 DEF After, f, g, b, n, k, x

LEMMA NothingTyped ==
  ASSUME EdOK(ed), NEW s
  PROVE  After(ed, 0, s)
<1>1. \A i \in 1 .. 0 : FALSE
  BY SMT
<1>2. ed.length \in Nat /\ ed.cursor_idx \in Nat
  <2>1. Holds(ed.buffer, ed.length) /\ ed.cursor_idx \in 0 .. ed.length
    BY DEF EdOK
  <2>. QED  BY <2>1, LineSizes, SMT DEF Holds
<1>3. /\ ed.length = ed.length + 0 /\ ed.cursor_idx = ed.cursor_idx + 0
      /\ \A i \in ed.cursor_idx .. ed.length - 1 : i + 0 = i
  BY <1>2, SMT
<1>4. Pasted(ed.buffer, ed.buffer, ed.length, ed.cursor_idx, s, 0)
  BY <1>1, <1>3 DEF Pasted
<1>5. SameLines(ed, ed)
  BY DEF SameLines, EdOK
<1>. QED  BY <1>3, <1>4, <1>5 DEF After

\* The loop that types the characters one after the other.
Types(g, s, m) == g = [i \in 0 .. m |-> IF i = 0 THEN ed ELSE type_char(g[i - 1], s[i])]

LEMMA TypingEnds ==
  ASSUME NEW s, NEW m \in Nat
  PROVE  \E g : Types(g, s, m)
<1>. DEFINE S == {j \in 0 .. m : \E g : Types(g, s, j)}
<1>1. 0 \in S
  <2>. DEFINE g == [i \in 0 .. 0 |-> ed]
  <2>1. \A i \in 0 .. 0 : i = 0
    BY SMT
  <2>2. g = [i \in 0 .. 0 |-> IF i = 0 THEN ed ELSE type_char(g[i - 1], s[i])]
    BY <2>1
  <2>3. 0 \in 0 .. m
    BY SMT
  <2>. HIDE DEF g
  <2>. QED  BY <2>2, <2>3 DEF Types
<1>2. ASSUME NEW j \in 0 .. m - 1, j \in S  PROVE j + 1 \in S
  <2>1. PICK g : Types(g, s, j)
    BY <1>2
  <2>2. g = [i \in 0 .. j |-> IF i = 0 THEN ed ELSE type_char(g[i - 1], s[i])]
    BY <2>1 DEF Types
  <2>. DEFINE h == [i \in 0 .. j + 1 |-> IF i = j + 1 THEN type_char(g[j], s[j + 1]) ELSE g[i]]
  <2>3. /\ j + 1 \in 0 .. m /\ j + 1 # 0 /\ j + 1 \in 0 .. j + 1 /\ (j + 1) - 1 = j
        /\ j \in 0 .. j + 1 /\ j # j + 1
        /\ \A i \in 0 .. j + 1 : i # j + 1 => i \in 0 .. j
        /\ \A i \in 0 .. j : i # 0 => i - 1 \in 0 .. j + 1 /\ i - 1 # j + 1
    BY SMT
  <2>4. ASSUME NEW i \in 0 .. j + 1
        PROVE  h[i] = IF i = 0 THEN ed ELSE type_char(h[i - 1], s[i])
    <3>1. CASE i = j + 1
      <4>1. i - 1 = j /\ i # 0
        BY <2>3, <3>1
      <4>3. h[i] = type_char(g[j], s[j + 1])
        BY <3>1
      <4>2. h[j] = g[j]
        BY <2>3
      <4>. HIDE DEF h
      <4>. QED  BY <3>1, <4>1, <4>2, <4>3
    <3>2. CASE i # j + 1 /\ i # 0
      <4>1. i \in 0 .. j /\ i - 1 \in 0 .. j + 1 /\ i - 1 # j + 1
        BY <2>3, <3>2
      <4>2. h[i] = g[i] /\ h[i - 1] = g[i - 1]
        BY <3>2, <4>1
      <4>3. g[i] = type_char(g[i - 1], s[i])
        BY <2>2, <3>2, <4>1
      <4>. HIDE DEF h
      <4>. QED  BY <3>2, <4>2, <4>3
    <3>3. CASE i # j + 1 /\ i = 0
      <4>1. i \in 0 .. j
        BY <2>3, <3>3
      <4>2. h[i] = g[i]
        BY <3>3, <4>1
      <4>3. g[i] = ed
        BY <2>2, <3>3, <4>1
      <4>. HIDE DEF h
      <4>. QED  BY <3>3, <4>2, <4>3
    <3>. QED  BY <3>1, <3>2, <3>3
  <2>5. h = [i \in 0 .. j + 1 |-> h[i]]
    OBVIOUS
  <2>. HIDE DEF h
  <2>6. Types(h, s, j + 1)
    BY <2>4, <2>5 DEF Types
  <2>. QED  BY <2>3, <2>6
<1>3. m \in S
  <2>1. m \in 0 .. m
    BY SMT
  <2>. HIDE DEF S
  <2>. QED  BY <1>1, <1>2, <2>1, InductionUpTo
<1>. QED  BY <1>3

\* The whole text is in the line, in its order.
LEMMA PasteKeeps ==
  ASSUME EdOK(ed), NEW s \in Seq(Glyphs), Fits(ed, Len(s))
  PROVE  After(Typed(s), Len(s), s)
<1>. DEFINE m == Len(s)
<1>1. m \in Nat /\ 0 \in 0 .. m /\ m \in 0 .. m
  BY SMT
<1>2. PICK g : Types(g, s, m) /\ Typed(s) = g[m]
  <2>. HIDE DEF m
  <2>. DEFINE g == CHOOSE g : Types(g, s, m)
  <2>1. Types(g, s, m)
    BY <1>1, TypingEnds
  <2>2. Typed(s) = g[m]
    BY DEF Typed, Types, m
  <2>. QED  BY <2>1, <2>2
<1>3. g = [i \in 0 .. m |-> IF i = 0 THEN ed ELSE type_char(g[i - 1], s[i])]
  BY <1>2 DEF Types
<1>. DEFINE S == {j \in 0 .. m : After(g[j], j, s)}
<1>4. 0 \in S
  <2>1. g[0] = ed
    BY <1>1, <1>3
  <2>. QED  BY <1>1, <2>1, NothingTyped
<1>5. ASSUME NEW j \in 0 .. m - 1, j \in S  PROVE j + 1 \in S
  <2>1. j + 1 \in 0 .. m /\ j + 1 # 0 /\ (j + 1) - 1 = j
    BY <1>1, SMT
  <2>2. g[j + 1] = type_char(g[j], s[j + 1])
    BY <1>3, <2>1
  <2>3. After(g[j], j, s)
    BY <1>5
  <2>4. After(type_char(g[j], s[j + 1]), j + 1, s)
    BY <2>3, OneMore
  <2>. QED  BY <2>1, <2>2, <2>4
<1>6. m \in S
  <2>. HIDE DEF S, m
  <2>. QED  BY <1>1, <1>4, <1>5, InductionUpTo
<1>. QED  BY <1>2, <1>6

----------------------------------------------------------------------------
(* The line as a text *)

LineText(e) == [i \in 1 .. e.length |-> e.buffer[i - 1]]

LEMMA SameText ==
  ASSUME NEW X, NEW u \in Seq(X), NEW v \in Seq(X), Len(u) = Len(v), \A i \in 1 .. Len(u) : u[i] = v[i]
  PROVE  u = v
<1>1. u = [i \in 1 .. Len(u) |-> u[i]] /\ v = [i \in 1 .. Len(v) |-> v[i]]
  BY SMT
<1>. QED  BY <1>1

LEMMA TextFacts ==
  ASSUME NEW e, Holds(e.buffer, e.length)
  PROVE  /\ LineText(e) \in EditedLines /\ LineText(e) \in Seq(Glyphs) /\ Len(LineText(e)) = e.length
         /\ \A i \in 1 .. e.length : LineText(e)[i] = e.buffer[i - 1]
<1>. DEFINE n == e.length
            b == e.buffer
            T == [i \in 1 .. n |-> b[i - 1]]
<1>1. n \in Nat /\ n < LINE_SIZE /\ LINE_SIZE \in Nat
  BY LineSizes, SMT DEF Holds
<1>2. \A i \in 1 .. n : i - 1 \in 0 .. n - 1 /\ i - 1 \in Index
  BY <1>1, SMT DEF Index
<1>3. \A i \in 1 .. n : b[i - 1] \in Glyphs
  BY <1>2 DEF Holds, Glyphs
<1>4. T \in [1 .. n -> Glyphs] /\ \A i \in 1 .. n : T[i] = b[i - 1]
  BY <1>3
<1>5. LineText(e) = T
  BY DEF LineText
<1>. HIDE DEF T, n, b
<1>6. T \in Seq(Glyphs) /\ Len(T) = n
  BY <1>1, <1>4, SMT
<1>7. T \in EditedLines
  BY <1>1, <1>6 DEF EditedLines
<1>. QED  BY <1>4, <1>5, <1>6, <1>7 DEF n, b

Spliced(T, k, s) == SubSeq(T, 1, k) \o s \o SubSeq(T, k + 1, Len(T))

LEMMA SpliceFacts ==
  ASSUME NEW X, NEW T \in Seq(X), NEW s \in Seq(X), NEW k \in 0 .. Len(T)
  PROVE  /\ Spliced(T, k, s) \in Seq(X) /\ Len(Spliced(T, k, s)) = Len(T) + Len(s)
         /\ \A i \in 1 .. k : Spliced(T, k, s)[i] = T[i]
         /\ \A i \in 1 .. Len(s) : Spliced(T, k, s)[k + i] = s[i]
         /\ \A i \in k + 1 .. Len(T) : Spliced(T, k, s)[i + Len(s)] = T[i]
<1>. DEFINE u == SubSeq(T, 1, k)
            w == SubSeq(T, k + 1, Len(T))
            v == u \o s
            r == v \o w
<1>1. Len(T) \in Nat /\ Len(s) \in Nat /\ k \in Nat /\ k <= Len(T)
  BY SMT
<1>2. u \in Seq(X) /\ Len(u) = k /\ \A i \in 1 .. k : u[i] = T[i]
  BY <1>1, SMT
<1>3. w \in Seq(X) /\ Len(w) = Len(T) - k
  BY <1>1, SMT
<1>4. \A i \in 1 .. Len(w) : w[i] = T[k + i]
  BY <1>1, SMT
<1>. HIDE DEF u, w
<1>5. /\ v \in Seq(X) /\ Len(v) = Len(u) + Len(s)
      /\ \A i \in 1 .. Len(u) : v[i] = u[i]
      /\ \A i \in 1 .. Len(s) : v[Len(u) + i] = s[i]
  <2>1. u \in Seq(X)
    BY <1>2
  <2>. QED  BY <2>1, SMT
<1>. HIDE DEF v
<1>6. /\ r \in Seq(X) /\ Len(r) = Len(v) + Len(w)
      /\ \A i \in 1 .. Len(v) : r[i] = v[i]
      /\ \A i \in 1 .. Len(w) : r[Len(v) + i] = w[i]
  <2>1. v \in Seq(X) /\ w \in Seq(X)
    BY <1>3, <1>5
  <2>. QED  BY <2>1, SMT
<1>. HIDE DEF r
<1>7. Len(v) = k + Len(s) /\ Len(w) = Len(T) - k /\ Len(r) = Len(v) + Len(w)
  BY <1>2, <1>3, <1>5, <1>6
<1>8. Len(r) = Len(T) + Len(s)
  BY <1>1, <1>7, SMT
<1>9. \A i \in 1 .. k : r[i] = T[i]
  <2>. TAKE i \in 1 .. k
  <2>1. i \in 1 .. Len(v) /\ i \in 1 .. Len(u)
    BY <1>1, <1>2, <1>7, SMT
  <2>. QED  BY <1>2, <1>5, <1>6, <2>1
<1>10. \A i \in 1 .. Len(s) : r[k + i] = s[i]
  <2>. TAKE i \in 1 .. Len(s)
  <2>1. k + i \in 1 .. Len(v)
    BY <1>1, <1>7, SMT
  <2>. QED  BY <1>2, <1>5, <1>6, <2>1
<1>11. \A i \in k + 1 .. Len(T) : r[i + Len(s)] = T[i]
  <2>. TAKE i \in k + 1 .. Len(T)
  <2>1. PICK j \in 1 .. Len(w) : Len(v) + j = i + Len(s) /\ k + j = i
    <3>1. i - k \in 1 .. Len(w) /\ Len(v) + (i - k) = i + Len(s) /\ k + (i - k) = i
      BY <1>1, <1>7, SMT
    <3>. QED  BY <3>1
  <2>2. r[Len(v) + j] = w[j] /\ w[j] = T[k + j]
    BY <1>4, <1>6
  <2>. QED  BY <2>1, <2>2
<1>12. r = Spliced(T, k, s)
  BY DEF r, v, u, w, Spliced
<1>. QED  BY <1>6, <1>8, <1>9, <1>10, <1>11, <1>12

Dropped(T, k) == SubSeq(T, 1, k - 1) \o SubSeq(T, k + 1, Len(T))

LEMMA DropFacts ==
  ASSUME NEW X, NEW T \in Seq(X), NEW k \in 1 .. Len(T)
  PROVE  /\ Dropped(T, k) \in Seq(X) /\ Len(Dropped(T, k)) = Len(T) - 1
         /\ \A i \in 1 .. k - 1 : Dropped(T, k)[i] = T[i]
         /\ \A i \in k + 1 .. Len(T) : Dropped(T, k)[i - 1] = T[i]
<1>. DEFINE u == SubSeq(T, 1, k - 1)
            w == SubSeq(T, k + 1, Len(T))
            r == u \o w
<1>1. Len(T) \in Nat /\ k \in Nat /\ 1 <= k /\ k <= Len(T)
  BY SMT
<1>2. u \in Seq(X) /\ Len(u) = k - 1 /\ \A i \in 1 .. k - 1 : u[i] = T[i]
  BY <1>1, SMT
<1>3. w \in Seq(X) /\ Len(w) = Len(T) - k
  BY <1>1, SMT
<1>4. \A i \in 1 .. Len(w) : w[i] = T[k + i]
  BY <1>1, SMT
<1>. HIDE DEF u, w
<1>5. /\ r \in Seq(X) /\ Len(r) = Len(u) + Len(w)
      /\ \A i \in 1 .. Len(u) : r[i] = u[i]
      /\ \A i \in 1 .. Len(w) : r[Len(u) + i] = w[i]
  <2>1. u \in Seq(X) /\ w \in Seq(X)
    BY <1>2, <1>3
  <2>. QED  BY <2>1, SMT
<1>. HIDE DEF r
<1>6. Len(r) = Len(T) - 1
  BY <1>1, <1>2, <1>3, <1>5, SMT
<1>7. \A i \in 1 .. k - 1 : r[i] = T[i]
  BY <1>2, <1>5
<1>8. \A i \in k + 1 .. Len(T) : r[i - 1] = T[i]
  <2>. TAKE i \in k + 1 .. Len(T)
  <2>1. PICK j \in 1 .. Len(w) : Len(u) + j = i - 1 /\ k + j = i
    <3>1. i - k \in 1 .. Len(w) /\ Len(u) + (i - k) = i - 1 /\ k + (i - k) = i
      BY <1>1, <1>2, <1>3, SMT
    <3>. QED  BY <3>1
  <2>2. r[Len(u) + j] = w[j] /\ w[j] = T[k + j]
    BY <1>4, <1>5
  <2>. QED  BY <2>1, <2>2
<1>9. r = Dropped(T, k)
  BY DEF r, u, w, Dropped
<1>. QED  BY <1>5, <1>6, <1>7, <1>8, <1>9

\* The text after a paste, and after a backspace (EraseText), as LineEditing says it.
LEMMA PasteText ==
  ASSUME EdOK(ed), NEW s \in Seq(Glyphs), NEW e, After(e, Len(s), s)
  PROVE  LineText(e) = Spliced(LineText(ed), ed.cursor_idx, s)
<1>. DEFINE n == ed.length
            k == ed.cursor_idx
            b == ed.buffer
            a == e.buffer
            l == Len(s)
            T == LineText(ed)
            U == LineText(e)
            R == Spliced(T, k, s)
<1>1. Holds(b, n) /\ k \in 0 .. n
  BY DEF EdOK
<1>2. n \in Nat /\ k \in Nat /\ k <= n /\ l \in Nat
  BY <1>1, LineSizes, SMT DEF Holds
<1>3. T \in Seq(Glyphs) /\ Len(T) = n /\ \A i \in 1 .. n : T[i] = b[i - 1]
  BY <1>1, TextFacts
<1>4. Holds(a, e.length) /\ e.length = n + l /\ Pasted(a, b, n, k, s, l)
  BY DEF After, EdOK
<1>5. U \in Seq(Glyphs) /\ Len(U) = n + l /\ \A i \in 1 .. n + l : U[i] = a[i - 1]
  <2>1. U \in Seq(Glyphs) /\ Len(U) = e.length /\ \A i \in 1 .. e.length : U[i] = a[i - 1]
    BY <1>4, TextFacts
  <2>. QED  BY <1>4, <2>1
<1>6. /\ \A i \in 0 .. k - 1 : a[i] = b[i]
      /\ \A i \in 1 .. l : a[k + (i - 1)] = s[i]
      /\ \A i \in k .. n - 1 : a[i + l] = b[i]
  BY <1>4 DEF Pasted
<1>. HIDE DEF T, U
<1>7. /\ R \in Seq(Glyphs) /\ Len(R) = n + l
      /\ \A i \in 1 .. k : R[i] = T[i]
      /\ \A i \in 1 .. l : R[k + i] = s[i]
      /\ \A i \in k + 1 .. n : R[i + l] = T[i]
  <2>1. k \in 0 .. Len(T)
    BY <1>1, <1>3
  <2>2. /\ R \in Seq(Glyphs) /\ Len(R) = Len(T) + l
        /\ \A i \in 1 .. k : R[i] = T[i]
        /\ \A i \in 1 .. l : R[k + i] = s[i]
        /\ \A i \in k + 1 .. Len(T) : R[i + l] = T[i]
    <3>. HIDE DEF n, k, b, a
    <3>. QED  BY <1>3, <2>1, SpliceFacts
  <2>. QED  BY <1>3, <2>2
<1>. HIDE DEF n, k, b, a, l, R
<1>8. ASSUME NEW i \in 1 .. n + l  PROVE U[i] = R[i]
  <2>1. CASE i <= k
    <3>1. i \in 1 .. k /\ i - 1 \in 0 .. k - 1 /\ i \in 1 .. n
      BY <1>2, <2>1, SMT
    <3>. QED  BY <1>3, <1>5, <1>6, <1>7, <3>1
  <2>2. CASE k < i /\ i <= k + l
    <3>1. PICK j \in 1 .. l : k + j = i /\ k + (j - 1) = i - 1
      <4>1. i - k \in 1 .. l /\ k + (i - k) = i /\ k + ((i - k) - 1) = i - 1
        BY <1>2, <2>2, SMT
      <4>. QED  BY <4>1
    <3>2. U[i] = a[k + (j - 1)]
      BY <1>5, <3>1
    <3>3. R[k + j] = s[j] /\ a[k + (j - 1)] = s[j]
      BY <1>6, <1>7
    <3>. QED  BY <3>1, <3>2, <3>3
  <2>3. CASE k + l < i
    <3>1. PICK j \in k + 1 .. n : j + l = i /\ j \in 1 .. n /\ j - 1 \in k .. n - 1 /\ (j - 1) + l = i - 1
      <4>1. /\ i - l \in k + 1 .. n /\ (i - l) + l = i /\ i - l \in 1 .. n
            /\ (i - l) - 1 \in k .. n - 1 /\ ((i - l) - 1) + l = i - 1
        BY <1>2, <2>3, SMT
      <4>. QED  BY <4>1
    <3>2. U[i] = a[(j - 1) + l]
      BY <1>5, <3>1
    <3>3. a[(j - 1) + l] = b[j - 1]
      BY <1>6, <3>1
    <3>4. R[j + l] = T[j] /\ T[j] = b[j - 1]
      BY <1>3, <1>7, <3>1
    <3>. QED  BY <3>1, <3>2, <3>3, <3>4
  <2>. QED  BY <1>2, <2>1, <2>2, <2>3, SMT
<1>9. U = R
  BY <1>5, <1>7, <1>8, SameText
<1>. QED  BY <1>9 DEF U, R, T, k

LEMMA EraseText ==
  ASSUME EdOK(ed), ed.cursor_idx # 0, NEW e, EdOK(e), e.length = ed.length - 1,
         Removed(e.buffer, ed.buffer, ed.length, ed.cursor_idx)
  PROVE  LineText(e) = Dropped(LineText(ed), ed.cursor_idx)
<1>. DEFINE n == ed.length
            k == ed.cursor_idx
            b == ed.buffer
            a == e.buffer
            T == LineText(ed)
            U == LineText(e)
            R == Dropped(T, k)
<1>1. Holds(b, n) /\ k \in 0 .. n /\ k # 0 /\ Holds(a, n - 1)
  BY DEF EdOK
<1>2. n \in Nat /\ k \in Nat /\ 1 <= k /\ k <= n /\ k \in 1 .. n
  BY <1>1, LineSizes, SMT DEF Holds
<1>3. T \in Seq(Glyphs) /\ Len(T) = n /\ \A i \in 1 .. n : T[i] = b[i - 1]
  BY <1>1, TextFacts
<1>4. Holds(a, e.length) /\ e.length = n - 1
  BY <1>1
<1>5. U \in Seq(Glyphs) /\ Len(U) = n - 1 /\ \A i \in 1 .. n - 1 : U[i] = a[i - 1]
  <2>1. U \in Seq(Glyphs) /\ Len(U) = e.length /\ \A i \in 1 .. e.length : U[i] = a[i - 1]
    BY <1>4, TextFacts
  <2>. QED  BY <1>4, <2>1
<1>6. /\ \A i \in 0 .. k - 2 : a[i] = b[i]
      /\ \A i \in k .. n - 1 : a[i - 1] = b[i]
  BY DEF Removed
<1>. HIDE DEF T, U
<1>7. /\ R \in Seq(Glyphs) /\ Len(R) = n - 1
      /\ \A i \in 1 .. k - 1 : R[i] = T[i]
      /\ \A i \in k + 1 .. n : R[i - 1] = T[i]
  <2>1. k \in 1 .. Len(T)
    BY <1>2, <1>3
  <2>2. /\ R \in Seq(Glyphs) /\ Len(R) = Len(T) - 1
        /\ \A i \in 1 .. k - 1 : R[i] = T[i]
        /\ \A i \in k + 1 .. Len(T) : R[i - 1] = T[i]
    <3>. HIDE DEF n, k, b, a
    <3>. QED  BY <1>3, <2>1, DropFacts
  <2>. QED  BY <1>3, <2>2
<1>. HIDE DEF n, k, b, a, R
<1>8. ASSUME NEW i \in 1 .. n - 1  PROVE U[i] = R[i]
  <2>1. CASE i <= k - 1
    <3>1. i \in 1 .. k - 1 /\ i - 1 \in 0 .. k - 2 /\ i \in 1 .. n
      BY <1>2, <2>1, SMT
    <3>. QED  BY <1>3, <1>5, <1>6, <1>7, <3>1
  <2>2. CASE k - 1 < i
    <3>1. PICK j \in k + 1 .. n : j - 1 = i /\ j \in 1 .. n /\ i \in k .. n - 1
      <4>1. i + 1 \in k + 1 .. n /\ (i + 1) - 1 = i /\ i + 1 \in 1 .. n /\ i \in k .. n - 1
        BY <1>2, <2>2, SMT
      <4>. QED  BY <4>1
    <3>2. U[i] = a[i - 1] /\ a[i - 1] = b[i]
      BY <1>5, <1>6, <3>1
    <3>3. R[j - 1] = T[j] /\ T[j] = b[j - 1]
      BY <1>3, <1>7, <3>1
    <3>. QED  BY <3>1, <3>2, <3>3
  <2>. QED  BY <1>2, <2>1, <2>2, SMT
<1>9. U = R
  BY <1>5, <1>7, <1>8, SameText
<1>. QED  BY <1>9 DEF U, R, T, k

\* Enter terminates the array and returns exactly the line.
LEMMA EnteredText ==
  ASSUME NEW e, EdOK(e)
  PROVE  entered(e) = LineText(e)
<1>. DEFINE n == e.length
            b == e.buffer
            a == terminate(b, n)
<1>1. Holds(b, n)
  BY DEF EdOK
<1>2. n \in Nat /\ n \in Index /\ 0 \in Index /\ 0 <= n /\ n - 0 = n
  <2>1. n \in 0 .. LINE_SIZE - 1
    BY <1>1 DEF Holds
  <2>. HIDE DEF n
  <2>. QED  BY <2>1, LineSizes, SMT DEF Index
<1>3. a[n] = NUL /\ \A i \in Index : i # n => a[i] = b[i]
  BY <1>1, <1>2 DEF Holds, terminate
<1>. HIDE DEF a
<1>4. \A j \in 0 .. n - 1 : j \in Index /\ j # n
  <2>. HIDE DEF n
  <2>. QED  BY <1>2, LineSizes, SMT DEF Index
<1>5. \A j \in 0 .. n - 1 : a[j] # NUL
  BY <1>1, <1>3, <1>4 DEF Holds
<1>6. CString(a, 0) = [i \in 1 .. n - 0 |-> a[0 + i - 1]]
  <2>. HIDE DEF n
  <2>. QED  BY <1>2, <1>3, <1>5, StringEnds, SMT
<1>7. \A i \in 1 .. n : 0 + i - 1 = i - 1 /\ i - 1 \in 0 .. n - 1
  BY <1>2, SMT
<1>8. \A i \in 1 .. n : a[0 + i - 1] = b[i - 1]
  BY <1>3, <1>4, <1>7
<1>9. CString(a, 0) = [i \in 1 .. n |-> b[i - 1]]
  BY <1>2, <1>6, <1>8
<1>. QED  BY <1>9 DEF entered, LineText, a

\* The line as the end of input finds it: up to the first zero byte.
IsCut(l, T, exact) ==
  /\ l \in EditedLines
  /\ Len(T) <= Len(l) /\ SubSeq(l, 1, Len(T)) = T
  /\ exact => l = T

LEMMA CutOffText ==
  ASSUME NEW e, EdOK(e)
  PROVE  IsCut(cut_off(e), LineText(e), ~e.shrunk)
<1>. DEFINE n == e.length
            b == e.buffer
            T == LineText(e)
            l == cut_off(e)
            Z == {j \in Index : b[j] = NUL}
<1>1. Holds(b, n) /\ (~e.shrunk => ClearBehind(b, n))
  BY DEF EdOK
<1>2. /\ b \in [Index -> Chars] /\ n \in 0 .. LINE_SIZE - 1 /\ b[LINE_SIZE - 1] = NUL
      /\ \A i \in 0 .. n - 1 : b[i] # NUL
  BY <1>1 DEF Holds
<1>. HIDE DEF n, b
<1>3. /\ LINE_SIZE \in Nat /\ n \in Nat /\ n <= LINE_SIZE - 1 /\ LINE_SIZE - 1 \in Index
      /\ 0 \in Index /\ Index \subseteq Nat
  BY <1>2, LineSizes, SMT DEF Index
<1>4. PICK m \in Z : \A y \in Z : m <= y
  <2>1. LINE_SIZE - 1 \in Z /\ Z \subseteq Nat
    BY <1>2, <1>3
  <2>. HIDE DEF Z
  <2>. QED  BY <2>1, LeastElement
<1>5. m \in Index /\ m \in Nat /\ b[m] = NUL /\ m <= LINE_SIZE - 1
  <2>1. m \in Index /\ b[m] = NUL
    BY <1>4
  <2>. QED  BY <1>3, <2>1, SMT DEF Index
<1>6. \A j \in 0 .. m - 1 : j \in Index /\ ~(m <= j)
  BY <1>3, <1>5, SMT DEF Index
<1>7. \A j \in 0 .. m - 1 : b[j] # NUL
  BY <1>4, <1>6
<1>8. n <= m
  <2>1. m \notin 0 .. n - 1
    BY <1>2, <1>5
  <2>. QED  BY <1>3, <1>5, <2>1, SMT
<1>9. CString(b, 0) = [i \in 1 .. m - 0 |-> b[0 + i - 1]]
  <2>1. 0 <= m
    BY <1>5, SMT
  <2>. QED  BY <1>3, <1>5, <1>7, <2>1, StringEnds, SMT
<1>10. l = [i \in 1 .. m |-> b[i - 1]]
  <2>1. m - 0 = m /\ \A i \in 1 .. m : 0 + i - 1 = i - 1
    BY <1>5, SMT
  <2>2. l = CString(b, 0)
    BY DEF cut_off, b
  <2>. QED  BY <1>9, <2>1, <2>2
<1>. HIDE DEF l
<1>11. \A i \in 1 .. m : b[i - 1] \in Glyphs
  <2>1. \A i \in 1 .. m : i - 1 \in 0 .. m - 1
    BY <1>5, SMT
  <2>. QED  BY <1>2, <1>6, <1>7, <2>1 DEF Glyphs
<1>12. l \in [1 .. m -> Glyphs]
  BY <1>10, <1>11
<1>13. l \in Seq(Glyphs) /\ Len(l) = m
  BY <1>5, <1>12, SMT
<1>14. m < LINE_SIZE
  BY <1>3, <1>5, SMT
<1>15. l \in EditedLines
  BY <1>13, <1>14 DEF EditedLines
<1>16. T \in Seq(Glyphs) /\ Len(T) = n /\ \A i \in 1 .. n : T[i] = b[i - 1]
  BY <1>1, TextFacts DEF n, b
<1>. HIDE DEF T
<1>17. SubSeq(l, 1, n) = T
  <2>. DEFINE u == SubSeq(l, 1, n)
  <2>1. u \in Seq(Glyphs) /\ Len(u) = n /\ \A i \in 1 .. n : u[i] = l[i]
    BY <1>3, <1>8, <1>13, SMT
  <2>2. \A i \in 1 .. n : i \in 1 .. m
    BY <1>3, <1>5, <1>8, SMT
  <2>3. \A i \in 1 .. n : u[i] = T[i]
    BY <1>10, <1>16, <2>1, <2>2
  <2>. HIDE DEF u
  <2>4. u = T
    BY <1>16, <2>1, <2>3, SameText
  <2>. QED  BY <2>4 DEF u
<1>18. ASSUME ~e.shrunk  PROVE l = T
  <2>1. b[n] = NUL
    <3>1. n \in n .. LINE_SIZE - 1
      BY <1>3, SMT
    <3>. QED  BY <1>1, <1>18, <3>1 DEF ClearBehind, n, b
  <2>2. n \in Index /\ n \in Z
    <3>1. n \in Index
      BY <1>3, SMT DEF Index
    <3>. QED  BY <2>1, <3>1
  <2>3. m <= n
    BY <1>4, <2>2
  <2>4. m = n
    BY <1>3, <1>5, <1>8, <2>3, SMT
  <2>. QED  BY <1>10, <1>13, <1>16, <2>4, SameText
<1>19. Len(T) <= Len(l) /\ SubSeq(l, 1, Len(T)) = T
  BY <1>8, <1>13, <1>16, <1>17
<1>. QED  BY <1>15, <1>18, <1>19 DEF IsCut, l, T

\* What add_history leaves: the last lines, with the new one.
Recalled(h, l) ==
  LET all == Append(h, l) IN SubSeq(all, IF Len(all) > MAX_HISTORY THEN 2 ELSE 1, Len(all))

\* add_history drops the oldest line when there are MAX_HISTORY.
LEMMA HistoryFacts ==
  ASSUME NEW X, NEW h \in Seq(X), NEW l \in X, Len(h) <= MAX_HISTORY
  PROVE  LET kept == IF Len(h) = MAX_HISTORY THEN Tail(h) ELSE h
         IN  /\ Append(kept, l) = Recalled(h, l) /\ Len(Recalled(h, l)) = Len(kept) + 1
             /\ Recalled(h, l) \in Seq(X) /\ Len(Recalled(h, l)) <= MAX_HISTORY
<1>. DEFINE kept == IF Len(h) = MAX_HISTORY THEN Tail(h) ELSE h
            all == Append(h, l)
            c == Append(kept, l)
<1>1. MAX_HISTORY \in Nat /\ MAX_HISTORY # 0 /\ Len(h) \in Nat
  BY LineSizes, SMT
<1>2. /\ all \in Seq(X) /\ Len(all) = Len(h) + 1 /\ all[Len(h) + 1] = l
      /\ \A i \in 1 .. Len(h) : all[i] = h[i]
  BY SMT
<1>. HIDE DEF all
<1>3. CASE Len(h) = MAX_HISTORY
  <2>1. kept \in Seq(X) /\ Len(kept) = Len(h) - 1 /\ \A i \in 1 .. Len(h) - 1 : kept[i] = h[i + 1]
    <3>1. h # <<>>
      BY <1>1, <1>3, SMT
    <3>2. kept = Tail(h)
      BY <1>3
    <3>. HIDE DEF kept
    <3>. QED  BY <1>1, <3>1, <3>2, SMT
  <2>2. Len(all) > MAX_HISTORY
    BY <1>1, <1>2, <1>3, SMT
  <2>3. Recalled(h, l) = SubSeq(all, 2, Len(all))
    BY <2>2 DEF Recalled, all
  <2>. DEFINE r == SubSeq(all, 2, Len(all))
  <2>. HIDE DEF kept
  <2>4. r \in Seq(X) /\ Len(r) = Len(h) /\ \A i \in 1 .. Len(h) : r[i] = all[i + 1]
    BY <1>1, <1>2, SMT
  <2>5. /\ c \in Seq(X) /\ Len(c) = Len(kept) + 1 /\ c[Len(kept) + 1] = l
        /\ \A i \in 1 .. Len(kept) : c[i] = kept[i]
    BY <2>1, SMT
  <2>. HIDE DEF r, c
  <2>6. Len(kept) + 1 = Len(h)
    BY <1>1, <2>1, SMT
  <2>7. ASSUME NEW i \in 1 .. Len(h)  PROVE c[i] = r[i]
    <3>1. CASE i = Len(h)
      <4>1. c[i] = l /\ r[i] = all[i + 1]
        BY <2>4, <2>5, <2>6, <3>1
      <4>. QED  BY <1>2, <3>1, <4>1
    <3>2. CASE i # Len(h)
      <4>1. i \in 1 .. Len(kept) /\ i \in 1 .. Len(h) - 1 /\ i + 1 \in 1 .. Len(h)
        BY <1>1, <2>1, <3>2, SMT
      <4>2. c[i] = kept[i] /\ kept[i] = h[i + 1]
        BY <2>1, <2>5, <4>1
      <4>3. r[i] = all[i + 1] /\ all[i + 1] = h[i + 1]
        BY <1>2, <2>4, <4>1
      <4>. QED  BY <4>2, <4>3
    <3>. QED  BY <3>1, <3>2
  <2>8. c = r
    BY <2>4, <2>5, <2>6, <2>7, SameText
  <2>. QED  BY <1>3, <2>3, <2>4, <2>6, <2>8 DEF r, c, kept
<1>4. CASE Len(h) # MAX_HISTORY
  <2>1. kept = h
    BY <1>4
  <2>2. ~(Len(all) > MAX_HISTORY) /\ Len(h) + 1 <= MAX_HISTORY
    BY <1>1, <1>2, <1>4, SMT
  <2>3. Recalled(h, l) = SubSeq(all, 1, Len(all))
    BY <2>2 DEF Recalled, all
  <2>4. SubSeq(all, 1, Len(all)) = all
    BY <1>2, SMT
  <2>. QED  BY <1>2, <2>1, <2>2, <2>3, <2>4 DEF all
<1>. QED  BY <1>3, <1>4

----------------------------------------------------------------------------
(* The other keys *)

Replaced(f, e, v, t) == f = replace_line([e EXCEPT !.history_view_idx = v], t)
NowShows(f, e, v, t) ==
  /\ LineText(f) = t /\ f.cursor_idx = Len(t)
  /\ f.history = e.history /\ f.history_view_idx = v
  /\ f.shrunk = (e.shrunk \/ Len(t) < e.length)

\* A recalled line replaces the one being edited.
LEMMA ReplaceKeeps ==
  ASSUME NEW e, EdOK(e), NEW v \in 0 .. Len(e.history), NEW t \in EditedLines,
         NEW f, Replaced(f, e, v, t)
  PROVE  EdOK(f) /\ NowShows(f, e, v, t)
<1>. DEFINE d == [e EXCEPT !.history_view_idx = v]
            a == strcpy(e.buffer, t)
            n == e.length
            b == e.buffer
<1>1. /\ IsEd(e) /\ Holds(b, n) /\ e.cursor_idx \in 0 .. n
      /\ e.history \in Seq(EditedLines) /\ Len(e.history) <= MAX_HISTORY
      /\ e.shrunk \in BOOLEAN /\ (~e.shrunk => ClearBehind(b, n))
  BY DEF EdOK
<1>2. f = replace_line(d, t)
  BY DEF Replaced
<1>3. /\ IsEd(d) /\ d.buffer = b /\ d.length = n /\ d.history = e.history /\ d.history_view_idx = v
      /\ d.shrunk = e.shrunk
  BY <1>1 DEF IsEd, EdFields
<1>. HIDE DEF d
<1>4. /\ IsEd(f) /\ f.buffer = strcpy(d.buffer, t) /\ f.length = Len(t) /\ f.cursor_idx = Len(t)
      /\ f.history = d.history /\ f.history_view_idx = d.history_view_idx
      /\ f.row = t /\ f.col = Len(t) /\ f.shrunk = (d.shrunk \/ Len(t) < d.length)
  BY <1>2, <1>3 DEF replace_line, IsEd, EdFields
<1>5. f.buffer = a /\ f.shrunk = (e.shrunk \/ Len(t) < n)
  BY <1>3, <1>4
<1>6. CopyOf(a, t) /\ Holds(a, Len(t)) /\ (ClearBehind(b, n) /\ ~(Len(t) < n) => ClearBehind(a, Len(t)))
  BY <1>1, Copied
<1>. HIDE DEF a, n, b
<1>7. t \in Seq(Glyphs) /\ Len(t) \in Nat /\ Len(t) \in 0 .. Len(t)
  <2>1. t \in Seq(Glyphs)
    BY DEF EditedLines
  <2>. QED  BY <2>1, SMT
<1>8. \A i \in 1 .. Len(t) : t[i] = a[i - 1]
  <2>1. \A i \in 1 .. Len(t) : i - 1 \in 0 .. Len(t) - 1 /\ (i - 1) + 1 = i
    BY <1>7, SMT
  <2>2. \A i \in 0 .. Len(t) - 1 : a[i] = t[i + 1]
    BY <1>6 DEF CopyOf
  <2>. QED
    <3>. TAKE i \in 1 .. Len(t)
    <3>1. a[i - 1] = t[(i - 1) + 1]
      BY <2>1, <2>2
    <3>. QED  BY <2>1, <3>1
<1>9. Shows(t, a, Len(t))
  <2>1. \A x \in Glyphs : x \in Chars
    BY DEF Glyphs
  <2>2. t \in Seq(Chars)
    BY <1>7, <2>1, SMT
  <2>3. Len(t) >= Len(t) /\ \A i \in Len(t) + 1 .. Len(t) : FALSE
    BY <1>7, SMT
  <2>. QED  BY <1>8, <2>2, <2>3 DEF Shows
<1>10. EdOK(f)
  <2>1. f.shrunk \in BOOLEAN
    BY <1>5
  <2>2. ~f.shrunk => ClearBehind(f.buffer, f.length)
    BY <1>1, <1>4, <1>5, <1>6
  <2>3. Shows(f.row, f.buffer, f.length) /\ f.col = f.cursor_idx
    BY <1>4, <1>5, <1>9
  <2>4. Holds(f.buffer, f.length) /\ f.cursor_idx \in 0 .. f.length
    BY <1>4, <1>5, <1>6, <1>7
  <2>. QED  BY <1>1, <1>3, <1>4, <2>1, <2>2, <2>3, <2>4 DEF EdOK
<1>11. LineText(f) = t
  <2>. DEFINE U == LineText(f)
  <2>1. Holds(f.buffer, f.length)
    BY <1>10 DEF EdOK
  <2>2. U \in Seq(Glyphs) /\ Len(U) = f.length /\ \A i \in 1 .. f.length : U[i] = f.buffer[i - 1]
    BY <2>1, TextFacts
  <2>. HIDE DEF U
  <2>3. Len(U) = Len(t) /\ \A i \in 1 .. Len(U) : U[i] = t[i]
    BY <1>4, <1>5, <1>8, <2>2
  <2>4. U = t
    BY <1>7, <2>2, <2>3, SameText
  <2>. QED  BY <2>4 DEF U
<1>. QED  BY <1>3, <1>4, <1>5, <1>10, <1>11 DEF n, NowShows

LEMMA CursorKeeps ==
  ASSUME NEW e, EdOK(e), NEW f, NEW c, NEW x, f = [e EXCEPT !.cursor_idx = c, !.col = x],
         c \in 0 .. e.length, e.col = e.cursor_idx => x = c
  PROVE  EdOK(f) /\ LineText(f) = LineText(e) /\ SameLines(f, e) /\ f.cursor_idx = c
<1>1. /\ IsEd(f) /\ f.buffer = e.buffer /\ f.length = e.length /\ f.cursor_idx = c /\ f.col = x
      /\ f.history = e.history /\ f.history_view_idx = e.history_view_idx /\ f.shrunk = e.shrunk
      /\ f.row = e.row
  BY DEF EdOK, IsEd, EdFields
<1>2. EdOK(f)
  BY <1>1 DEF EdOK
<1>3. LineText(f) = LineText(e)
  BY <1>1, SMT DEF LineText
<1>. QED  BY <1>1, <1>2, <1>3 DEF SameLines

LEMMA NewLineKeeps ==
  ASSUME NEW e, EdOK(e), NEW f, f = new_line(e)
  PROVE  /\ EdOK(f) /\ f.length = 0 /\ f.cursor_idx = 0 /\ f.shrunk = FALSE
         /\ f.history = e.history /\ f.history_view_idx = e.history_view_idx
<1>. DEFINE z == [i \in Index |-> NUL]
<1>1. /\ IsEd(f) /\ f.buffer = z /\ f.length = 0 /\ f.cursor_idx = 0 /\ f.row = <<>> /\ f.col = 0
      /\ f.shrunk = FALSE /\ f.history = e.history /\ f.history_view_idx = e.history_view_idx
  BY DEF EdOK, IsEd, EdFields, new_line
<1>2. /\ LINE_SIZE - 1 \in Index /\ 0 \in 0 .. LINE_SIZE - 1 /\ 0 \in 0 .. 0
      /\ \A i \in 0 .. LINE_SIZE - 1 : i \in Index
  BY LineSizes, SMT DEF Index
<1>3. NUL \in Chars
  BY DEF Chars
<1>4. /\ \A i \in 0 .. 0 - 1 : FALSE
      /\ \A j \in 1 .. 0 : FALSE
      /\ <<>> \in Seq(Chars) /\ Len(<<>>) = 0 /\ Len(<<>>) >= 0
  BY SMT
<1>5. Holds(z, 0) /\ ClearBehind(z, 0)
  BY <1>2, <1>3, <1>4 DEF Holds, ClearBehind
<1>6. Shows(<<>>, z, 0)
  <2>1. \A i \in 0 + 1 .. Len(<<>>) : FALSE
    BY <1>4, SMT
  <2>. QED  BY <1>4, <2>1 DEF Shows
<1>. HIDE DEF z
<1>7. EdOK(f)
  BY <1>1, <1>2, <1>5, <1>6 DEF EdOK
<1>. QED  BY <1>1, <1>7

LEMMA NoHistoryOK == EdOK(NoHistory) /\ LineText(NoHistory) = <<>>
<1>. DEFINE z == [i \in Index |-> NUL]
            f == NoHistory
<1>1. /\ IsEd(f) /\ f.buffer = z /\ f.length = 0 /\ f.cursor_idx = 0 /\ f.row = <<>> /\ f.col = 0
      /\ f.shrunk = FALSE /\ f.history = <<>> /\ f.history_view_idx = 0
  BY DEF IsEd, EdFields, NoHistory
<1>2. /\ LINE_SIZE - 1 \in Index /\ 0 \in 0 .. LINE_SIZE - 1 /\ 0 \in 0 .. 0
      /\ \A i \in 0 .. LINE_SIZE - 1 : i \in Index
  BY LineSizes, SMT DEF Index
<1>3. NUL \in Chars
  BY DEF Chars
<1>4. /\ \A i \in 0 .. 0 - 1 : FALSE
      /\ \A j \in 1 .. 0 : FALSE
      /\ <<>> \in Seq(Chars) /\ Len(<<>>) = 0 /\ Len(<<>>) >= 0 /\ <<>> \in Seq(EditedLines)
  BY SMT
<1>8. 0 <= MAX_HISTORY
  BY LineSizes, SMT
<1>5. Holds(z, 0) /\ ClearBehind(z, 0)
  BY <1>2, <1>3, <1>4 DEF Holds, ClearBehind
<1>6. Shows(<<>>, z, 0)
  <2>1. \A i \in 0 + 1 .. Len(<<>>) : FALSE
    BY <1>4, SMT
  <2>. QED  BY <1>4, <2>1 DEF Shows
<1>. HIDE DEF z, f
<1>7. EdOK(f)
  BY <1>1, <1>2, <1>4, <1>5, <1>6, <1>8 DEF EdOK
<1>9. LineText(f) = <<>>
  BY <1>1, SMT DEF LineText
<1>. QED  BY <1>7, <1>9 DEF f

LEMMA RememberKeeps ==
  ASSUME NEW e, EdOK(e), NEW l \in EditedLines, NEW f, f = add_history(e, l)
  PROVE  /\ EdOK(f) /\ LineText(f) = LineText(e) /\ f.cursor_idx = e.cursor_idx /\ f.shrunk = e.shrunk
         /\ l = <<>> => f.history = e.history /\ f.history_view_idx = e.history_view_idx
         /\ l # <<>> => f.history = Recalled(e.history, l) /\ f.history_view_idx = Len(f.history)
<1>1. CASE l = <<>>
  BY <1>1 DEF add_history
<1>2. CASE l # <<>>
  <2>. DEFINE h == e.history
              kept == IF Len(h) = MAX_HISTORY THEN Tail(h) ELSE h
  <2>1. f = [e EXCEPT !.history = Append(kept, l), !.history_view_idx = Len(kept) + 1]
    BY <1>2 DEF add_history
  <2>2. IsEd(e) /\ h \in Seq(EditedLines) /\ Len(h) <= MAX_HISTORY
    BY DEF EdOK
  <2>3. /\ Append(kept, l) = Recalled(h, l) /\ Len(Recalled(h, l)) = Len(kept) + 1
        /\ Recalled(h, l) \in Seq(EditedLines) /\ Len(Recalled(h, l)) <= MAX_HISTORY
    BY <2>2, HistoryFacts
  <2>. HIDE DEF kept
  <2>4. /\ IsEd(f) /\ f.buffer = e.buffer /\ f.length = e.length /\ f.cursor_idx = e.cursor_idx
        /\ f.row = e.row /\ f.col = e.col /\ f.shrunk = e.shrunk
        /\ f.history = Append(kept, l) /\ f.history_view_idx = Len(kept) + 1
    BY <2>1, <2>2 DEF IsEd, EdFields
  <2>5. f.history = Recalled(h, l) /\ f.history_view_idx = Len(f.history)
    BY <2>3, <2>4
  <2>6. Len(f.history) \in 0 .. Len(f.history)
    BY <2>3, <2>5, SMT
  <2>7. EdOK(f)
    BY <2>3, <2>4, <2>5, <2>6 DEF EdOK
  <2>. QED  BY <1>2, <2>4, <2>5, <2>7 DEF LineText
<1>. QED  BY <1>1, <1>2

----------------------------------------------------------------------------
(* The steps of the prompt *)

\* The prompt's part of the state, with the keys and texts that may come.
PromptInv ==
  /\ EdOK(ed)
  /\ {"keys", "chunks"} \subseteq DOMAIN load /\ load.keys \subseteq Keys /\ load.chunks \subseteq Chunk

LEMMA Texts == Text = LineText(ed) /\ Text' = LineText(ed')
BY DEF Text, LineText

LEMMA ChunkText ==
  ASSUME NEW s \in Chunk
  PROVE  s \in Seq(Glyphs)
<1>. DEFINE S == {s[i] : i \in DOMAIN s} \ {NUL}
<1>1. s \in Seq(S)
  BY Pasteable
<1>2. S \subseteq Glyphs
  <2>1. \A i \in DOMAIN s : s[i] \in Chars
    BY SMT DEF Chars
  <2>. QED  BY <2>1 DEF Glyphs
<1>. HIDE DEF S
<1>. QED  BY <1>1, <1>2, SMT

\* Each key is a step of the abstract editor, or none.
LEMMA UpStep ==
  ASSUME PromptInv, ed' = up(ed), input' = input
  PROVE  EdOK(ed') /\ [Editor!edNext]_(Editor!edVars)
<1>. DEFINE h == ed.history
            v == ed.history_view_idx
<1>1. EdOK(ed) /\ h \in Seq(EditedLines) /\ v \in 0 .. Len(h)
  BY DEF PromptInv, EdOK
<1>2. CASE v = 0
  BY <1>1, <1>2 DEF up, Editor!edVars, Text
<1>3. CASE v # 0
  <2>. DEFINE w == v - 1
              t == h[v]
  <2>1. w \in 0 .. Len(h) /\ w # Len(h) /\ w + 1 = v /\ t \in EditedLines
    BY <1>1, <1>3, SMT
  <2>2. Replaced(ed', ed, w, t)
    BY <1>3 DEF up, Replaced
  <2>3. w \in {v - 1, v + 1} \cap 0 .. Len(h)
    BY <2>1
  <2>. HIDE DEF w, t
  <2>4. EdOK(ed') /\ NowShows(ed', ed, w, t)
    BY <1>1, <2>1, <2>2, ReplaceKeeps
  <2>5. Len(Text) = ed.length
    BY <1>1, Texts, TextFacts DEF EdOK
  <2>6. t = IF w = Len(h) THEN <<>> ELSE h[w + 1]
    BY <2>1 DEF t
  <2>7. Editor!Recall
    BY <2>3, <2>4, <2>5, <2>6, Texts DEF NowShows, Editor!Recall, Editor!Put
  <2>. QED  BY <2>4, <2>7 DEF Editor!edNext
<1>. QED  BY <1>2, <1>3

LEMMA DownStep ==
  ASSUME PromptInv, ed' = down(ed), input' = input
  PROVE  EdOK(ed') /\ [Editor!edNext]_(Editor!edVars)
<1>. DEFINE h == ed.history
            v == ed.history_view_idx
<1>1. EdOK(ed) /\ IsEd(ed) /\ h \in Seq(EditedLines) /\ v \in 0 .. Len(h)
  BY DEF PromptInv, EdOK
<1>2. CASE v = Len(h)
  BY <1>1, <1>2 DEF down, Editor!edVars, Text
<1>3. CASE v # Len(h)
  <2>. DEFINE w == v + 1
              t == IF w = Len(h) THEN <<>> ELSE h[w + 1]
  <2>1. w \in 0 .. Len(h)
    BY <1>1, <1>3, SMT
  <2>2. t \in EditedLines
    <3>1. <<>> \in EditedLines
      <4>1. <<>> \in Seq(Glyphs) /\ Len(<<>>) < LINE_SIZE
        BY LineSizes, SMT
      <4>. QED  BY <4>1 DEF EditedLines
    <3>2. w # Len(h) => h[w + 1] \in EditedLines
      BY <1>1, <1>3, SMT
    <3>. QED  BY <3>1, <3>2
  <2>3. Replaced(ed', ed, w, t)
    <3>. DEFINE d == [ed EXCEPT !.history_view_idx = w]
    <3>1. d.history_view_idx = w
      BY <1>1 DEF IsEd, EdFields
    <3>2. ed' = IF d.history_view_idx = Len(h) THEN replace_line(d, <<>>)
                ELSE replace_line(d, h[d.history_view_idx + 1])
      BY <1>3 DEF down
    <3>. HIDE DEF d, w
    <3>3. ed' = replace_line(d, t)
      BY <3>1, <3>2
    <3>. QED  BY <3>3 DEF d, Replaced
  <2>4. w \in {v - 1, v + 1} \cap 0 .. Len(h)
    BY <2>1
  <2>. HIDE DEF w, t
  <2>5. EdOK(ed') /\ NowShows(ed', ed, w, t)
    BY <1>1, <2>1, <2>2, <2>3, ReplaceKeeps
  <2>6. Len(Text) = ed.length
    BY <1>1, Texts, TextFacts DEF EdOK
  <2>7. Editor!Recall
    BY <2>4, <2>5, <2>6, Texts DEF NowShows, Editor!Recall, Editor!Put, t
  <2>. QED  BY <2>5, <2>7 DEF Editor!edNext
<1>. QED  BY <1>2, <1>3

LEMMA CursorStep ==
  ASSUME PromptInv, ed' = left(ed) \/ ed' = right(ed), input' = input
  PROVE  EdOK(ed') /\ [Editor!edNext]_(Editor!edVars)
<1>1. EdOK(ed) /\ Holds(ed.buffer, ed.length) /\ ed.cursor_idx \in 0 .. ed.length
  BY DEF PromptInv, EdOK
<1>2. ed.length \in Nat /\ ed.cursor_idx \in Nat
  BY <1>1, LineSizes, SMT DEF Holds
<1>3. Len(Text) = ed.length
  BY <1>1, Texts, TextFacts
<1>4. CASE ed' = ed
  BY <1>1, <1>4 DEF Editor!edVars, Text
<1>5. ASSUME NEW c \in {ed.cursor_idx - 1, ed.cursor_idx + 1}, NEW x, c \in 0 .. ed.length,
             ed.col = ed.cursor_idx => x = c,
             ed' = [ed EXCEPT !.cursor_idx = c, !.col = x]
      PROVE  EdOK(ed') /\ Editor!Move
  <2>1. EdOK(ed') /\ LineText(ed') = LineText(ed) /\ SameLines(ed', ed) /\ ed'.cursor_idx = c
    BY <1>1, <1>5, CursorKeeps
  <2>2. c \in {ed.cursor_idx - 1, ed.cursor_idx + 1} \cap 0 .. Len(Text)
    BY <1>3, <1>5
  <2>. QED  BY <2>1, <2>2, Texts DEF Editor!Move, SameLines
<1>6. CASE ed' = left(ed) /\ ed.cursor_idx # 0
  <2>1. ed' = [ed EXCEPT !.cursor_idx = ed.cursor_idx - 1, !.col = ed.col - 1]
    BY <1>6 DEF left
  <2>2. ed.cursor_idx - 1 \in 0 .. ed.length
    BY <1>1, <1>2, <1>6, SMT
  <2>. QED  BY <1>5, <2>1, <2>2 DEF Editor!edNext
<1>7. CASE ed' = right(ed) /\ ed.cursor_idx # ed.length
  <2>1. ed' = [ed EXCEPT !.cursor_idx = ed.cursor_idx + 1, !.col = ed.col + 1]
    BY <1>7 DEF right
  <2>2. ed.cursor_idx + 1 \in 0 .. ed.length
    BY <1>1, <1>2, <1>7, SMT
  <2>. QED  BY <1>5, <2>1, <2>2 DEF Editor!edNext
<1>. QED  BY <1>4, <1>6, <1>7 DEF left, right

LEMMA EraseStep ==
  ASSUME PromptInv, ed' = backspace(ed), input' = input
  PROVE  EdOK(ed') /\ [Editor!edNext]_(Editor!edVars)
<1>1. EdOK(ed) /\ Holds(ed.buffer, ed.length) /\ ed.cursor_idx \in 0 .. ed.length
  BY DEF PromptInv, EdOK
<1>2. CASE ed.cursor_idx = 0
  BY <1>1, <1>2 DEF backspace, Editor!edVars, Text
<1>3. CASE ed.cursor_idx # 0
  <2>1. /\ EdOK(ed') /\ SameLines(ed', ed) /\ ed'.length = ed.length - 1 /\ ed'.cursor_idx = ed.cursor_idx - 1
        /\ Removed(ed'.buffer, ed.buffer, ed.length, ed.cursor_idx)
    BY <1>1, <1>3, EraseKeeps
  <2>2. LineText(ed') = Dropped(LineText(ed), ed.cursor_idx)
    BY <1>1, <1>3, <2>1, EraseText
  <2>3. ed.cursor_idx > 0
    BY <1>1, <1>3, LineSizes, SMT DEF Holds
  <2>4. Editor!Erase
    BY <2>1, <2>2, <2>3, Texts DEF Editor!Erase, Editor!Put, Dropped, SameLines
  <2>. QED  BY <2>1, <2>4 DEF Editor!edNext
<1>. QED  BY <1>2, <1>3

LEMMA TextGoesIn ==
  ASSUME PromptInv, NEW s \in Seq(Glyphs), After(ed', Len(s), s), input' = input
  PROVE  EdOK(ed') /\ Editor!Paste(s)
<1>1. EdOK(ed)
  BY DEF PromptInv
<1>2. LineText(ed') = Spliced(LineText(ed), ed.cursor_idx, s)
  BY <1>1, PasteText
<1>3. EdOK(ed') /\ SameLines(ed', ed) /\ ed'.cursor_idx = ed.cursor_idx + Len(s)
  BY DEF After
<1>. QED  BY <1>2, <1>3, Texts DEF Editor!Paste, Editor!Put, Spliced, SameLines

LEMMA PasteStep ==
  ASSUME PromptInv, NEW s \in load.chunks, Fits(ed, Len(s)), ed' = Typed(s), input' = input
  PROVE  EdOK(ed') /\ Editor!edNext
<1>1. s \in Chunk /\ EdOK(ed)
  BY DEF PromptInv
<1>2. s \in Seq(Glyphs)
  BY <1>1, ChunkText
<1>3. After(ed', Len(s), s)
  BY <1>1, <1>2, PasteKeeps
<1>. QED  BY <1>1, <1>2, <1>3, TextGoesIn DEF Editor!edNext

\* Enter behind a backslash: only a longer line can have left one there.
LEMMA EnterStep ==
  ASSUME PromptInv, EnterIsText(ed), Fits(ed, 1), ed' = type_char(ed, LineBreak), input' = input
  PROVE  EdOK(ed') /\ Editor!edNext
<1>. DEFINE s == <<LineBreak>>
<1>1. EdOK(ed)
  BY DEF PromptInv
<1>2. LineBreak \in Glyphs
  BY ZeroByte DEF Glyphs, Chars, LineBreak
<1>3. s \in Seq(Glyphs) /\ Len(s) = 1 /\ s[0 + 1] = LineBreak /\ 0 \in 0 .. Len(s) - 1 /\ 0 + 1 = 1
  BY <1>2, SMT
<1>. HIDE DEF s
<1>4. After(type_char(ed, s[0 + 1]), 0 + 1, s)
  <2>1. Fits(ed, Len(s)) /\ After(ed, 0, s)
    BY <1>1, <1>3, NothingTyped
  <2>. QED  BY <1>1, <1>3, <2>1, OneMore
<1>5. After(ed', Len(s), s)
  BY <1>3, <1>4
<1>6. EdOK(ed') /\ Editor!Paste(s)
  BY <1>3, <1>5, TextGoesIn
<1>7. ed.shrunk
  <2>1. ed.length \in ed.length .. LINE_SIZE - 1
    <3>1. Holds(ed.buffer, ed.length)
      BY <1>1 DEF EdOK
    <3>2. ed.length \in 0 .. LINE_SIZE - 1
      BY <3>1 DEF Holds
    <3>. QED  BY <3>2, LineSizes, SMT
  <2>2. ed.buffer[ed.length] # NUL
    BY ZeroByte DEF EnterIsText
  <2>. QED  BY <1>1, <2>1, <2>2 DEF EdOK, ClearBehind
<1>. QED  BY <1>6, <1>7 DEF Editor!Continue, Editor!edNext, s, LineBreak

LEMMA RememberStep ==
  ASSUME PromptInv, NEW l \in EditedLines, ed' = add_history(ed, l)
  PROVE  /\ EdOK(ed') /\ Editor!Remember(l)
         /\ Text' = Text /\ ed'.cursor_idx = ed.cursor_idx /\ ed'.shrunk = ed.shrunk
<1>1. EdOK(ed)
  BY DEF PromptInv
<1>2. /\ EdOK(ed') /\ LineText(ed') = LineText(ed) /\ ed'.cursor_idx = ed.cursor_idx /\ ed'.shrunk = ed.shrunk
      /\ l = <<>> => ed'.history = ed.history /\ ed'.history_view_idx = ed.history_view_idx
      /\ l # <<>> => ed'.history = Recalled(ed.history, l) /\ ed'.history_view_idx = Len(ed'.history)
  BY <1>1, RememberKeeps, SMT
<1>3. Editor!Remember(l)
  BY <1>2 DEF Editor!Remember, Recalled
<1>. QED  BY <1>2, <1>3, Texts

LEMMA SubmitStep ==
  ASSUME PromptInv, returns(entered(ed))
  PROVE  EdOK(ed') /\ Editor!edNext
<1>1. EdOK(ed) /\ Holds(ed.buffer, ed.length)
  BY DEF PromptInv, EdOK
<1>2. entered(ed) = Text
  BY <1>1, EnteredText, Texts
<1>3. Text \in EditedLines
  BY <1>1, TextFacts, Texts
<1>4. input' = Text /\ ed' = add_history(ed, Text)
  BY <1>2 DEF returns
<1>5. /\ EdOK(ed') /\ Editor!Remember(Text)
      /\ Text' = Text /\ ed'.cursor_idx = ed.cursor_idx /\ ed'.shrunk = ed.shrunk
  BY <1>3, <1>4, RememberStep
<1>6. Editor!Submit
  BY <1>4, <1>5 DEF Editor!Submit
<1>. QED  BY <1>5, <1>6 DEF Editor!edNext

LEMMA CutStep ==
  ASSUME PromptInv, returns(cut_off(ed)) \/ returns_early
  PROVE  EdOK(ed') /\ Editor!edNext
<1>1. EdOK(ed) /\ ed.shrunk \in BOOLEAN
  BY DEF PromptInv, EdOK
<1>2. IsCut(cut_off(ed), Text, ~ed.shrunk)
  BY <1>1, CutOffText, Texts
<1>3. input' = cut_off(ed)
  BY DEF returns, returns_early
<1>4. /\ input' \in EditedLines /\ Len(Text) <= Len(input') /\ SubSeq(input', 1, Len(Text)) = Text
      /\ ed.shrunk \/ input' = Text
  BY <1>2, <1>3 DEF IsCut
<1>5. CASE returns(cut_off(ed))
  <2>1. ed' = add_history(ed, input')
    BY <1>3, <1>5 DEF returns
  <2>2. /\ EdOK(ed') /\ Editor!Remember(input')
        /\ Text' = Text /\ ed'.cursor_idx = ed.cursor_idx /\ ed'.shrunk = ed.shrunk
    BY <1>4, <2>1, RememberStep
  <2>3. Editor!Cut
    BY <1>4, <2>2 DEF Editor!Cut
  <2>. QED  BY <2>2, <2>3 DEF Editor!edNext
<1>6. CASE returns_early
  <2>1. ed' = ed
    BY <1>6 DEF returns_early
  <2>2. Text' = Text
    BY <2>1, Texts
  <2>3. Editor!Cut
    BY <1>4, <2>1, <2>2 DEF Editor!Cut
  <2>. QED  BY <1>1, <2>1, <2>3 DEF Editor!edNext
<1>. QED  BY <1>5, <1>6

LEMMA BeginStep ==
  ASSUME PromptInv, get_input
  PROVE  EdOK(ed') /\ Editor!edNext
<1>1. EdOK(ed) /\ ed' = new_line(ed) /\ input' = input
  BY DEF PromptInv, get_input
<1>2. /\ EdOK(ed') /\ ed'.length = 0 /\ ed'.cursor_idx = 0 /\ ed'.shrunk = FALSE
      /\ ed'.history = ed.history /\ ed'.history_view_idx = ed.history_view_idx
  BY <1>1, NewLineKeeps
<1>3. Text' = <<>>
  BY <1>2, SMT DEF Text
<1>4. Editor!Begin
  BY <1>1, <1>2, <1>3 DEF Editor!Begin, Editor!Put
<1>. QED  BY <1>2, <1>4 DEF Editor!edNext

LEMMA RestartStep ==
  ASSUME start_again
  PROVE  EdOK(ed') /\ Editor!edNext
<1>1. ed' = NoHistory /\ input' = <<>>
  BY DEF start_again
<1>2. EdOK(ed') /\ Text' = <<>>
  BY <1>1, NoHistoryOK, Texts
<1>3. Editor!Restart
  BY <1>1, <1>2 DEF Editor!Restart, Editor!Put, NoHistory
<1>. QED  BY <1>2, <1>3 DEF Editor!edNext

LEMMA ReadCharStep ==
  ASSUME PromptInv, read_char
  PROVE  EdOK(ed') /\ [Editor!edNext]_(Editor!edVars)
<1>1. CASE \E s \in load.chunks : Fits(ed, Len(s)) /\ edit(Typed(s))
  BY <1>1, PasteStep DEF edit
<1>2. CASE \E k \in load.keys \ {"eof", "esc_eof", "enter"} : edit(Edited(k))
  <2>1. PICK k \in load.keys \ {"eof", "esc_eof", "enter"} : ed' = Edited(k) /\ input' = input
    BY <1>2 DEF edit
  <2>2. k \in {"up", "down", "left", "right", "backspace", "other"}
    BY <2>1 DEF PromptInv, Keys
  <2>3. CASE k = "up"
    BY <2>1, <2>3, UpStep DEF Edited
  <2>4. CASE k = "down"
    BY <2>1, <2>4, DownStep DEF Edited
  <2>5. CASE k = "left"
    BY <2>1, <2>5, CursorStep DEF Edited
  <2>6. CASE k = "right"
    BY <2>1, <2>6, CursorStep DEF Edited
  <2>7. CASE k = "backspace"
    BY <2>1, <2>7, EraseStep DEF Edited
  <2>8. CASE k = "other"
    <3>1. ed' = ed
      BY <2>1, <2>8 DEF Edited
    <3>. QED  BY <2>1, <3>1 DEF PromptInv, Editor!edVars, Text
  <2>. QED  BY <2>2, <2>3, <2>4, <2>5, <2>6, <2>7, <2>8
<1>3. CASE EnterIsText(ed) /\ Fits(ed, 1) /\ edit(Edited("enter"))
  <2>1. ed' = type_char(ed, LineBreak) /\ input' = input
    BY <1>3 DEF edit, Edited, LineBreak
  <2>. QED  BY <1>3, <2>1, EnterStep
<1>4. CASE returns(entered(ed))
  BY <1>4, SubmitStep
<1>5. CASE returns(cut_off(ed)) \/ returns_early
  BY <1>5, CutStep
<1>. QED  BY <1>1, <1>2, <1>3, <1>4, <1>5 DEF read_char

\* The agent's steps leave the process and its database alone.
LEMMA AgentLeavesBroker ==
  ASSUME AgentStep \/ handle \/ launch \/ agent_ping_thread \/ agent_sigint \/ tick
  PROVE  UNCHANGED procVars /\ UNCHANGED dbVars
<1>. SUFFICES UNCHANGED serverVars
  BY DEF serverVars
<1>1. CASE AgentStep
  BY <1>1 DEF AgentStep, connect, ask, await, subscribe, loop, disconnected, bye, gives_up, Leaves
<1>. QED  BY <1>1 DEF handle, launch, agent_ping_thread, agent_sigint, tick

\* Only the prompt's own steps, and a new process, change the line and its history.
LEMMA PromptSteps ==
  ASSUME [Next]_vars, ~get_input, ~read_char, ~start_again
  PROVE  ed' = ed /\ input' = input
<1>1. CASE MainStep
  BY <1>1 DEF MainStep, main_boot, cli_init, main_open, main_create, main_start, main_loop, main_wait,
              queue_write, main_close, main_cleanup, main_return, Dies
<1>2. CASE CliStep \/ dispatch
  BY <1>2 DEF CliStep, cli_wake, cli_called, dispatch, Dies
<1>3. CASE WorkerStep \/ \E t \in Caller : DbStep(t)
  BY <1>3 DEF WorkerStep, worker_read, worker_log, worker_called, DbStep, procVars
<1>4. CASE Environment
  BY <1>4 DEF Environment, main_fails, handle_sigint, killed, misuse, DbFails, Dies, procVars
<1>5. CASE AgentStep \/ handle \/ launch \/ agent_ping_thread \/ agent_sigint \/ tick
  BY <1>5, AgentLeavesBroker DEF procVars
<1>6. CASE UNCHANGED vars
  BY <1>6 DEF vars, procVars
<1>. QED  BY <1>1, <1>2, <1>3, <1>4, <1>5, <1>6 DEF Next, Threads_step

Counted == {"faults", "sigints", "kills", "restarts", "launches", "agent_sigints"}

\* Keys and pasted texts stay what they may be.
LEMMA LoadSteps ==
  ASSUME [Next]_vars
  PROVE  load' = load \/ read_char \/ \E what \in Counted : Spend(what)
<1>1. CASE MainStep
  BY <1>1 DEF MainStep, main_boot, cli_init, main_open, main_create, main_start, main_loop, main_wait,
              queue_write, main_close, main_cleanup, main_return
<1>2. CASE CliStep \/ dispatch
  BY <1>2 DEF CliStep, cli_wake, get_input, cli_called, dispatch
<1>3. CASE WorkerStep \/ \E t \in Caller : DbStep(t)
  BY <1>3 DEF WorkerStep, worker_read, worker_log, worker_called, DbStep
<1>4. CASE Environment
  BY <1>4 DEF Environment, main_fails, handle_sigint, killed, misuse, start_again, DbFails, Counted
<1>5. CASE AgentStep
  BY <1>5 DEF AgentStep, connect, ask, await, subscribe, loop, disconnected, bye, gives_up, Leaves
<1>6. CASE handle \/ launch \/ agent_ping_thread \/ agent_sigint \/ tick
  BY <1>6 DEF handle, launch, agent_ping_thread, agent_sigint, tick, Counted
<1>7. CASE UNCHANGED vars
  BY <1>7 DEF vars
<1>. QED  BY <1>1, <1>2, <1>3, <1>4, <1>5, <1>6, <1>7 DEF Next, Threads_step

LEMMA KeysStay ==
  ASSUME PromptInv, [Next]_vars
  PROVE  /\ {"keys", "chunks"} \subseteq DOMAIN load'
         /\ load'.keys \subseteq Keys /\ load'.chunks \subseteq Chunk
<1>1. CASE load' = load
  BY <1>1 DEF PromptInv
<1>2. CASE \E what \in Counted : Spend(what)
  <2>1. PICK what \in Counted : load' = [load EXCEPT ![what] = @ - 1]
    BY <1>2 DEF Spend
  <2>2. what # "keys" /\ what # "chunks"
    BY DEF Counted
  <2>. QED  BY <2>1, <2>2 DEF PromptInv
<1>3. CASE read_char
  <2>1. \/ load' = [load EXCEPT !.strokes = @ - 1]
        \/ load' = [load EXCEPT !.strokes = @ - 1, !.chunks = {}, !.keys = {"eof"}]
    BY <1>3 DEF read_char
  <2>2. {"eof"} \subseteq Keys
    BY DEF Keys
  <2>. QED  BY <2>1, <2>2 DEF PromptInv
<1>. QED  BY <1>1, <1>2, <1>3, LoadSteps

LEMMA PromptNext ==
  ASSUME PromptInv, [Next]_vars
  PROVE  PromptInv' /\ [Editor!edNext]_(Editor!edVars)
<1>1. EdOK(ed') /\ [Editor!edNext]_(Editor!edVars)
  <2>1. CASE ~get_input /\ ~read_char /\ ~start_again
    <3>1. ed' = ed /\ input' = input
      BY <2>1, PromptSteps
    <3>. QED  BY <3>1 DEF PromptInv, Editor!edVars, Text
  <2>. QED  BY <2>1, ReadCharStep, BeginStep, RestartStep
<1>. QED  BY <1>1, KeysStay DEF PromptInv

LEMMA PromptStarts ==
  ASSUME Init
  PROVE  PromptInv /\ Editor!edInit
<1>1. ed = NoHistory /\ input = <<>> /\ load \in Loads
  BY DEF Init, procInit
<1>2. /\ {"keys", "chunks"} \subseteq DOMAIN load
      /\ load.keys \subseteq Keys /\ load.chunks \subseteq Chunk
  BY <1>1, Behaviours
<1>3. EdOK(ed) /\ Text = <<>>
  BY <1>1, NoHistoryOK, Texts
<1>. QED  BY <1>1, <1>2, <1>3 DEF PromptInv, Editor!edInit, NoHistory

\* What the operator sees while editing is the line that Enter will hand over, with the
\* cursor at the place where the next key acts: for any sequence of keys, pastes and
\* recalled lines, and any line and history size, as long as the line has no line break
\* and no recalled line has replaced a longer one.
THEOREM ScreenIsRight == Spec => []ScreenShowsLine
<1>1. Init => PromptInv
  BY PromptStarts
<1>2. PromptInv /\ [Next]_vars => PromptInv'
  BY PromptNext
<1>3. PromptInv => ScreenShowsLine
  <2>. SUFFICES ASSUME PromptInv, ~ed.shrunk
                PROVE  /\ ed.col = ed.cursor_idx /\ Len(ed.row) >= ed.length
                       /\ \A i \in 1 .. Len(ed.row) : ed.row[i] = IF i <= ed.length THEN Text[i] ELSE " "
    BY DEF ScreenShowsLine
  <2>1. ed.col = ed.cursor_idx /\ Shows(ed.row, ed.buffer, ed.length) /\ Holds(ed.buffer, ed.length)
    BY DEF PromptInv, EdOK
  <2>2. Len(ed.row) >= ed.length
    BY <2>1 DEF Shows
  <2>3. ASSUME NEW i \in 1 .. Len(ed.row)
        PROVE  (i <= ed.length => ed.row[i] = Text[i]) /\ (~(i <= ed.length) => ed.row[i] = Space)
    <3>1. Len(ed.row) \in Nat /\ ed.length \in Nat
      BY <2>1, LineSizes, SMT DEF Shows, Holds
    <3>2. IF i <= ed.length THEN i \in 1 .. ed.length ELSE i \in ed.length + 1 .. Len(ed.row)
      BY <3>1, SMT
    <3>. QED  BY <2>1, <3>2 DEF Shows, Text
  <2>. QED  BY <2>1, <2>2, <2>3 DEF Space
<1>. QED  BY <1>1, <1>2, <1>3, PTL DEF Spec

\* get_input, replace_line and add_history, on a C array in which the bytes behind the
\* line are never cleared, implement the abstract editor of LineEditing: in any run of
\* the deployment, through crashes and restarts too, each step of the process is a step
\* of that editor on the text, the cursor and the remembered lines, or none at all.
THEOREM PromptImplementsEditor == Spec => ImplementsEditor
<1>1. Init => PromptInv /\ Editor!edInit
  BY PromptStarts
<1>2. PromptInv /\ [Next]_vars => PromptInv' /\ [Editor!edNext]_(Editor!edVars)
  BY PromptNext
<1>. QED  BY <1>1, <1>2, PTL DEF Spec, ImplementsEditor, Editor!edSpec

----------------------------------------------------------------------------
(* db.c.                                                                   *)

Calls == [at : {"none", "called", "locked", "prepared", "returned"},
          op : {"none", "SET", "GET", "LOG"}, n : Nat, sure : BOOLEAN,
          before : SUBSET Nat, may : SUBSET Nat, answer : Nat]

dbTypes ==
  /\ disk \in [tables : BOOLEAN, value : Nat, log : SUBSET Nat]
  /\ call \in [Caller -> Calls]
  /\ calls \in Nat
  /\ legal \in SUBSET Nat /\ acked \in SUBSET Nat /\ logged \in SUBSET Nat

\* No number is used twice.
Numbers == \A v \in acked \cup legal : v <= calls

Pending(c) == c.at # "none" /\ c.op = "SET"

\* A call of thread t: a SET that has not returned is still legal, and knows only SETs
\* that have; once it is through, no SET it knew is on the disk; a GET may see all that
\* is legal until it has its answer; a row is there before its caller is told.
CallOK(t) ==
  LET c == call[t] IN
  /\ c.at # "none" => c.op # "none"
  /\ c.before \subseteq acked
  /\ Pending(c) => c.n \in legal /\ c.n \notin acked
  /\ Pending(c) /\ c.at = "returned" /\ c.sure => disk.value \notin c.before
  /\ c.op = "GET" /\ c.at \in {"called", "locked", "prepared"} => legal \subseteq c.may
  /\ c.op = "GET" /\ c.at = "returned" /\ c.sure => c.answer \in c.may
  /\ c.op = "LOG" /\ c.at = "returned" /\ c.sure => c.n \in disk.log

OneCallPerNumber ==
  \A t, u \in Caller : t # u /\ Pending(call[t]) /\ Pending(call[u]) => call[t].n # call[u].n

dbInv ==
  /\ dbTypes
  /\ Numbers
  /\ disk.value \in legal /\ logged \subseteq disk.log
  /\ \A t \in Caller : CallOK(t)
  /\ OneCallPerNumber

----------------------------------------------------------------------------
(* What the steps have in common. *)

\* What a call is after some of its fields have been assigned.
Same(d, c) == d.op = c.op /\ d.n = c.n /\ d.before = c.before

LEMMA AtAssigned ==
  ASSUME NEW c \in Calls, NEW a \in {"locked", "prepared"}
  PROVE  LET d == [c EXCEPT !.at = a]
         IN  d \in Calls /\ d.at = a /\ Same(d, c) /\ d.may = c.may
BY DEF Calls, Same

LEMMA FailAssigned ==
  ASSUME NEW c \in Calls
  PROVE  LET d == [c EXCEPT !.at = "returned", !.sure = FALSE]
         IN  d \in Calls /\ d.at = "returned" /\ ~d.sure /\ Same(d, c) /\ d.may = c.may
BY DEF Calls, Same

LEMMA AnswerAssigned ==
  ASSUME NEW c \in Calls, NEW v \in Nat
  PROVE  LET d == [c EXCEPT !.at = "returned", !.answer = v]
         IN  /\ d \in Calls /\ d.at = "returned" /\ d.answer = v /\ Same(d, c)
             /\ d.sure = c.sure /\ d.may = c.may
BY DEF Calls, Same

LEMMA MayAssigned ==
  ASSUME NEW c \in Calls, NEW n \in Nat
  PROVE  LET d == [c EXCEPT !.may = @ \cup {n}]
         IN  /\ d \in Calls /\ d.at = c.at /\ Same(d, c) /\ d.sure = c.sure
             /\ d.answer = c.answer /\ d.may = c.may \cup {n}
BY DEF Calls, Same

LEMMA NoCallType == NoCall \in Calls
BY DEF NoCall, Calls

\* What one thread's step means for the others: nothing, as long as no value turns up
\* on the disk that some call knows to be replaced.
LEMMA OthersKeep ==
  ASSUME dbInv, NEW u \in Caller, call'[u] = call[u],
         acked \subseteq acked', legal' \subseteq legal,
         disk'.value = disk.value \/ disk'.value \notin acked,
         disk.log \subseteq disk'.log,
         Pending(call[u]) => call[u].n \in legal' /\ call[u].n \notin acked'
  PROVE  CallOK(u)'
BY DEF dbInv, CallOK, Pending

----------------------------------------------------------------------------
(* Each step keeps the invariant. *)

LEMMA InitDb == dbInit => dbInv
<1>. SUFFICES ASSUME dbInit PROVE dbInv
  OBVIOUS
<1>1. dbTypes
  BY NoCallType, SMT DEF dbInit, dbTypes, Blank_disk
<1>2. \A t \in Caller : CallOK(t)
  BY DEF dbInit, CallOK, NoCall, Pending
<1>. QED  BY <1>1, <1>2, SMT DEF dbInit, dbInv, Numbers, OneCallPerNumber, Blank_disk, Pending, NoCall

\* sqlite3_open, db_create and db_close leave rows and calls alone.
LEMMA MainKeeps ==
  ASSUME dbInv, UNCHANGED <<call, calls, legal, acked, logged>>,
         disk' = disk \/ disk' = [disk EXCEPT !.tables = TRUE]
  PROVE  dbInv'
<1>1. /\ disk' \in [tables : BOOLEAN, value : Nat, log : SUBSET Nat]
      /\ disk'.value = disk.value /\ disk'.log = disk.log
  BY DEF dbInv, dbTypes
<1>2. \A t \in Caller : CallOK(t)'
  BY <1>1 DEF dbInv, CallOK, Pending
<1>. QED  BY <1>1, <1>2 DEF dbInv, dbTypes, Numbers, OneCallPerNumber, Pending

LEMMA CallKeeps ==
  ASSUME dbInv, NEW t \in Caller, NEW op \in {"SET", "GET", "LOG"}, db_call(t, op)
  PROVE  dbInv'
<1>. DEFINE n == calls + 1
            c == [NoCall EXCEPT !.at = "called", !.op = op, !.n = n, !.sure = TRUE,
                                !.before = acked, !.may = legal]
<1>1. n \in Nat /\ n \notin acked \cup legal /\ acked \subseteq Nat /\ legal \subseteq Nat
  BY SMT DEF dbInv, dbTypes, Numbers
<1>2. /\ c \in Calls /\ c.at = "called" /\ c.op = op /\ c.n = n /\ c.before = acked
      /\ c.may = legal
  BY <1>1 DEF Calls, NoCall
<1>3. calls' = n /\ UNCHANGED <<disk, acked, logged>> /\ call[t].at = "none"
  BY DEF db_call
<1>4. CASE op = "SET"
  <2>1. /\ legal' = legal \cup {n}
        /\ call' = [u \in Caller |-> IF u = t THEN c ELSE [call[u] EXCEPT !.may = @ \cup {n}]]
    BY <1>4 DEF db_call
  <2>. HIDE DEF c
  <2>2. call'[t] = c
    BY <2>1
  <2>3. ASSUME NEW u \in Caller, u # t
        PROVE  /\ call'[u] \in Calls
               /\ call'[u].at = call[u].at /\ call'[u].op = call[u].op /\ call'[u].n = call[u].n
               /\ call'[u].sure = call[u].sure /\ call'[u].before = call[u].before
               /\ call'[u].answer = call[u].answer /\ call'[u].may = call[u].may \cup {n}
    <3>1. call[u] \in Calls /\ call'[u] = [call[u] EXCEPT !.may = @ \cup {n}]
      BY <2>1, <2>3 DEF dbInv, dbTypes
    <3>. QED  BY <3>1, <1>1, MayAssigned, SMT DEF Same
  <2>. HIDE DEF n
  <2>4. dbTypes'
    <3>1. call' \in [Caller -> Calls]
      <4>1. \A u \in Caller : call'[u] \in Calls
        BY <2>2, <2>3, <1>2
      <4>2. DOMAIN call' = Caller /\ call' = [u \in Caller |-> call'[u]]
        BY <2>1
      <4>. QED  BY <4>1, <4>2
    <3>. QED  BY <3>1, <2>1, <1>1, <1>3 DEF dbInv, dbTypes
  <2>5. ASSUME NEW u \in Caller PROVE CallOK(u)'
    <3>1. CASE u = t
      <4>1. call'[u] = c /\ c.at = "called" /\ c.op = "SET"
        BY <3>1, <2>2, <1>2, <1>4
      <4>2. c.before \subseteq acked' /\ c.n \in legal' /\ c.n \notin acked'
        BY <1>1, <1>2, <1>3, <2>1
      <4>. QED  BY <4>1, <4>2 DEF CallOK, Pending
    <3>2. CASE u # t
      <4>1. CallOK(u)
        BY DEF dbInv
      <4>2. legal' = legal \cup {n} /\ n \notin acked /\ disk' = disk /\ acked' = acked
        BY <2>1, <1>1, <1>3
      <4>. QED  BY <4>1, <4>2, <3>2, <2>3 DEF CallOK, Pending
    <3>. QED  BY <3>1, <3>2
  <2>6. Numbers'
    BY <1>3, <2>1, <1>1, SMT DEF dbInv, dbTypes, Numbers, n
  <2>7. OneCallPerNumber'
    <3>1. \A u \in Caller : u # t /\ Pending(call[u]) => call[u].n # n
      BY <1>1 DEF dbInv, CallOK
    <3>2. \A u \in Caller : u # t => (Pending(call'[u]) <=> Pending(call[u]))
      BY <2>3 DEF Pending
    <3>. QED  BY <3>1, <3>2, <2>2, <2>3, <1>2, SMT DEF dbInv, OneCallPerNumber
  <2>. QED  BY <2>1, <2>4, <2>5, <2>6, <2>7, <1>3 DEF dbInv
<1>5. CASE op # "SET"
  <2>1. legal' = legal /\ call' = [call EXCEPT ![t] = c]
    BY <1>5 DEF db_call, Move
  <2>. HIDE DEF c
  <2>2. call'[t] = c /\ \A u \in Caller : u # t => call'[u] = call[u]
    BY <2>1 DEF dbInv, dbTypes
  <2>3. dbTypes'
    BY <2>1, <1>1, <1>2, <1>3 DEF dbInv, dbTypes
  <2>4. ASSUME NEW u \in Caller PROVE CallOK(u)'
    <3>1. CASE u = t
      BY <3>1, <1>2, <1>3, <1>5, <2>1, <2>2 DEF CallOK, Pending
    <3>2. CASE u # t
      BY <3>2, <2>1, <2>2, <1>3, SMT DEF dbInv, CallOK, Pending
    <3>. QED  BY <3>1, <3>2
  <2>5. Numbers'
    BY <1>3, <2>1, <1>1, SMT DEF dbInv, dbTypes, Numbers
  <2>6. OneCallPerNumber'
    BY <2>2, <1>2, <1>5, SMT DEF dbInv, OneCallPerNumber, Pending
  <2>. QED  BY <2>1, <2>3, <2>4, <2>5, <2>6, <1>3 DEF dbInv
<1>. QED  BY <1>4, <1>5

\* A thread moves on without an answer and without touching the disk.
LEMMA MoveKeeps ==
  ASSUME dbInv, NEW t \in Caller, UNCHANGED <<disk, calls, legal, acked, logged>>,
         call[t].at \in {"called", "locked", "prepared"},
         \/ Move(t, [call[t] EXCEPT !.at = "locked"])
         \/ Move(t, [call[t] EXCEPT !.at = "prepared"])
         \/ Move(t, [call[t] EXCEPT !.at = "returned", !.sure = FALSE])
  PROVE  dbInv'
<1>1. call[t] \in Calls
  BY DEF dbInv, dbTypes
<1>2. /\ call' \in [Caller -> Calls]
      /\ call'[t].at \in {"locked", "prepared", "returned"}
      /\ call'[t].at = "returned" => ~call'[t].sure
      /\ call'[t].op = call[t].op /\ call'[t].n = call[t].n
      /\ call'[t].before = call[t].before /\ call'[t].may = call[t].may
      /\ \A u \in Caller : u # t => call'[u] = call[u]
  <2>1. PICK d \in Calls : /\ call' = [call EXCEPT ![t] = d]
                           /\ d.at \in {"locked", "prepared", "returned"}
                           /\ d.at = "returned" => ~d.sure
                           /\ Same(d, call[t]) /\ d.may = call[t].may
    <3>1. CASE Move(t, [call[t] EXCEPT !.at = "locked"])
      BY <3>1, <1>1, AtAssigned DEF Move
    <3>2. CASE Move(t, [call[t] EXCEPT !.at = "prepared"])
      BY <3>2, <1>1, AtAssigned DEF Move
    <3>3. CASE Move(t, [call[t] EXCEPT !.at = "returned", !.sure = FALSE])
      BY <3>3, <1>1, FailAssigned DEF Move
    <3>. QED  BY <3>1, <3>2, <3>3
  <2>. QED  BY <2>1 DEF dbInv, dbTypes, Same
<1>3. ASSUME NEW u \in Caller PROVE CallOK(u)'
  <2>1. CASE u = t
    BY <2>1, <1>2 DEF dbInv, CallOK, Pending
  <2>2. CASE u # t
    BY <2>2, <1>2 DEF dbInv, CallOK, Pending
  <2>. QED  BY <2>1, <2>2
<1>4. OneCallPerNumber'
  BY <1>2, SMT DEF dbInv, OneCallPerNumber, Pending
<1>. QED  BY <1>2, <1>3, <1>4 DEF dbInv, dbTypes, Numbers

LEMMA StepKeeps ==
  ASSUME dbInv, NEW t \in Caller, sqlite3_step(t)
  PROVE  dbInv'
<1>. DEFINE c == call[t]
<1>1. c \in Calls /\ c.at = "prepared" /\ disk.value \in Nat
  BY DEF dbInv, dbTypes, sqlite3_step
<1>2. /\ call' \in [Caller -> Calls]
      /\ call'[t].at = "returned" /\ call'[t].answer = disk.value
      /\ call'[t].op = c.op /\ call'[t].n = c.n /\ call'[t].sure = c.sure
      /\ call'[t].before = c.before /\ call'[t].may = c.may
      /\ \A u \in Caller : u # t => call'[u] = call[u]
  <2>. DEFINE d == [c EXCEPT !.at = "returned", !.answer = disk.value]
  <2>1. call' = [call EXCEPT ![t] = d]
    BY DEF sqlite3_step, Move
  <2>2. /\ d \in Calls /\ d.at = "returned" /\ d.answer = disk.value /\ Same(d, c)
        /\ d.sure = c.sure /\ d.may = c.may
    BY <1>1, AnswerAssigned
  <2>. HIDE DEF d
  <2>. QED  BY <2>1, <2>2 DEF dbInv, dbTypes, Same
<1>3. UNCHANGED <<calls, legal, acked, logged>>
  BY DEF sqlite3_step
<1>4. c.op \in {"SET", "GET", "LOG"}
  BY <1>1 DEF dbInv, CallOK, Calls
<1>5. /\ disk' \in [tables : BOOLEAN, value : Nat, log : SUBSET Nat]
      /\ c.op = "SET" => disk'.value = c.n /\ disk'.log = disk.log
      /\ c.op = "LOG" => disk'.value = disk.value /\ disk'.log = disk.log \cup {c.n}
      /\ c.op = "GET" => disk'.value = disk.value /\ disk'.log = disk.log
  <2>1. c.n \in Nat
    BY <1>1 DEF Calls
  <2>2. CASE c.op = "SET"
    BY <2>1, <2>2 DEF dbInv, dbTypes, sqlite3_step
  <2>3. CASE c.op = "LOG"
    BY <2>1, <2>3 DEF dbInv, dbTypes, sqlite3_step
  <2>4. CASE c.op = "GET"
    BY <2>4 DEF dbInv, dbTypes, sqlite3_step
  <2>. QED  BY <2>2, <2>3, <2>4, <1>4
<1>6. Pending(c) => c.n \in legal /\ c.n \notin acked
  BY DEF dbInv, CallOK
<1>7. /\ disk'.value = disk.value \/ disk'.value \notin acked
      /\ disk'.value \in legal /\ disk.log \subseteq disk'.log
  BY <1>1, <1>4, <1>5, <1>6 DEF dbInv, Pending
<1>. HIDE DEF c
<1>8. ASSUME NEW u \in Caller PROVE CallOK(u)'
  <2>1. CASE u = t
    <3>1. /\ c.at # "none" => c.op # "none"
          /\ c.before \subseteq acked
          /\ c.op = "GET" => legal \subseteq c.may
      BY <1>1 DEF dbInv, CallOK, c
    <3>. QED  BY <3>1, <2>1, <1>1, <1>2, <1>3, <1>4, <1>5, <1>6, <1>7 DEF dbInv, CallOK, Pending
  <2>2. CASE u # t
    BY <2>2, <1>2, <1>3, <1>7, OthersKeep DEF dbInv, CallOK
  <2>. QED  BY <2>1, <2>2
<1>9. OneCallPerNumber'
  BY <1>1, <1>2, SMT DEF dbInv, OneCallPerNumber, Pending, c
<1>. QED  BY <1>2, <1>3, <1>5, <1>7, <1>8, <1>9 DEF dbInv, dbTypes, Numbers

LEMMA ReturnKeeps ==
  ASSUME dbInv, NEW t \in Caller, db_return(t)
  PROVE  dbInv'
<1>. DEFINE c == call[t]
<1>1. c \in Calls /\ c.at = "returned" /\ c.n \in Nat
  BY DEF dbInv, dbTypes, db_return, Calls
<1>2. /\ call' \in [Caller -> Calls] /\ call'[t] = NoCall
      /\ \A u \in Caller : u # t => call'[u] = call[u]
  BY NoCallType DEF dbInv, dbTypes, db_return, Move
<1>3. UNCHANGED <<disk, calls>> /\ acked \subseteq acked' /\ legal' \subseteq legal
  BY DEF db_return
<1>4. /\ acked' \subseteq acked \cup (IF Pending(c) THEN {c.n} ELSE {})
      /\ legal' = legal \/ (Pending(c) /\ c.sure /\ legal' = legal \ c.before)
      /\ c.before \subseteq acked
      /\ Pending(c) => c.n \in legal /\ c.n \notin acked
  BY <1>1 DEF db_return, Pending, dbInv, CallOK
<1>5. disk.value \in legal'
  BY <1>1, <1>4 DEF dbInv, CallOK
<1>6. ASSUME NEW u \in Caller PROVE CallOK(u)'
  <2>1. CASE u = t
    BY <2>1, <1>2, SMT DEF CallOK, NoCall, Pending
  <2>2. CASE u # t
    <3>1. ASSUME Pending(call[u])
          PROVE  call[u].n \in legal' /\ call[u].n \notin acked'
      <4>1. call[u].n \in legal /\ call[u].n \notin acked
        BY <3>1 DEF dbInv, CallOK
      <4>2. Pending(c) => call[u].n # c.n
        BY <2>2, <3>1 DEF dbInv, OneCallPerNumber
      <4>. QED  BY <4>1, <4>2, <1>4
    <3>. QED  BY <3>1, <2>2, <1>2, <1>3, OthersKeep
  <2>. QED  BY <2>1, <2>2
<1>7. OneCallPerNumber'
  <2>1. ~Pending(NoCall)
    BY SMT DEF Pending, NoCall
  <2>2. \A u \in Caller : Pending(call'[u]) => call'[u] = call[u]
    BY <1>2, <2>1
  <2>. QED  BY <2>2 DEF dbInv, OneCallPerNumber
<1>8. logged' \subseteq disk.log /\ logged' \in SUBSET Nat
  BY <1>1 DEF dbInv, dbTypes, CallOK, db_return
<1>9. acked' \in SUBSET Nat /\ legal' \in SUBSET Nat /\ \A v \in acked' \cup legal' : v <= calls
  BY <1>1, <1>3, <1>4 DEF dbInv, dbTypes, Numbers
<1>. QED  BY <1>2, <1>3, <1>5, <1>6, <1>7, <1>8, <1>9 DEF dbInv, dbTypes, Numbers

LEMMA GoneKeeps ==
  ASSUME dbInv, db_gone
  PROVE  dbInv'
<1>1. /\ call' \in [Caller -> Calls] /\ \A t \in Caller : call'[t] = NoCall
      /\ UNCHANGED <<disk, calls, legal, logged>> /\ acked' = acked \cup legal
  BY NoCallType DEF db_gone
<1>2. \A t \in Caller : CallOK(t)'
  BY <1>1, SMT DEF CallOK, NoCall, Pending
<1>. QED  BY <1>1, <1>2, SMT DEF dbInv, dbTypes, Numbers, OneCallPerNumber, Pending, NoCall

LEMMA NextDb == dbInv /\ [dbNext]_dbVars => dbInv'
<1>. SUFFICES ASSUME dbInv, [dbNext]_dbVars PROVE dbInv'
  OBVIOUS
<1>1. CASE sqlite3_open \/ db_create \/ db_close
  BY <1>1, MainKeeps DEF sqlite3_open, db_create, create_tables, db_close
<1>2. CASE db_gone
  BY <1>2, GoneKeeps
<1>3. ASSUME NEW t \in Caller, \E op \in {"SET", "GET", "LOG"} : db_call(t, op)
      PROVE  dbInv'
  BY <1>3, CallKeeps
<1>4. ASSUME NEW t \in Caller, db_enter(t) \/ sqlite3_prepare(t) \/ sqlite3_error(t)
      PROVE  dbInv'
  BY <1>4, MoveKeeps DEF db_enter, sqlite3_prepare, sqlite3_error, Fails
<1>5. ASSUME NEW t \in Caller, sqlite3_step(t) PROVE dbInv'
  BY <1>5, StepKeeps
<1>6. ASSUME NEW t \in Caller, db_return(t) PROVE dbInv'
  BY <1>6, ReturnKeeps
<1>7. CASE UNCHANGED dbVars
  BY <1>7, MainKeeps DEF dbVars
<1>. QED  BY <1>1, <1>2, <1>3, <1>4, <1>5, <1>6, <1>7 DEF dbNext, db_step

----------------------------------------------------------------------------

\* The device state is an atomic register and the audit log keeps its rows, for any
\* threads calling db.c in any order, through failing statements, db_close and any
\* number of ends and restarts of the process.
THEOREM StoreIsDurable == dbSpec => []Durable
<1>1. dbInv => Durable
  BY DEF dbInv, CallOK, Durable
<1>2. dbInit => dbInv
  BY InitDb
<1>3. dbInv /\ [dbNext]_dbVars => dbInv'
  BY NextDb
<1>. QED  BY <1>1, <1>2, <1>3, PTL DEF dbSpec

----------------------------------------------------------------------------
(* The database: every step calls db.c as its specification allows. *)

LEMMA DbSteps ==
  /\ sqlite3_open \/ db_create \/ db_close \/ db_gone => dbNext
  /\ \A t \in Caller : /\ \A op \in {"SET", "GET", "LOG"} : db_call(t, op) => dbNext
                       /\ db_step(t) \/ sqlite3_error(t) \/ db_return(t) => dbNext
BY DEF dbNext

LEMMA MainDbStep ==
  ASSUME MainStep
  PROVE  [dbNext]_dbVars
<1>1. CASE main_open \/ main_create \/ main_close \/ main_return
  BY <1>1, DbSteps DEF main_open, main_create, main_close, main_return, Dies
<1>. QED  BY <1>1 DEF MainStep, main_boot, cli_init, main_start, main_loop, main_wait,
            queue_write, main_cleanup

LEMMA PromptDbStep ==
  ASSUME CliStep \/ dispatch \/ read_char
  PROVE  [dbNext]_dbVars
<1>1. CASE CliStep
  BY <1>1, DbSteps, Threads DEF CliStep, cli_wake, get_input, cli_called
<1>2. CASE dispatch
  <2>1. ASSUME NEW c \in {<<"SET">>, <<"GET">>}, db_call(Cli, c[1])
        PROVE  dbNext
    <3>1. c[1] \in {"SET", "GET", "LOG"}
      BY SMT
    <3>. QED  BY <2>1, <3>1, DbSteps, Threads
  <2>2. \/ UNCHANGED dbVars
        \/ \E c \in {<<"SET">>, <<"GET">>} : db_call(Cli, c[1])
        \/ db_gone
    BY <1>2 DEF dispatch, Dies
  <2>. QED  BY <2>1, <2>2, DbSteps
<1>3. CASE read_char
  BY <1>3 DEF read_char
<1>. QED  BY <1>1, <1>2, <1>3

LEMMA WorkerDbStep ==
  ASSUME WorkerStep
  PROVE  [dbNext]_dbVars
<1>1. CASE worker_read
  <2>1. \/ UNCHANGED dbVars
        \/ \E op \in {"SET", "GET", "LOG"} : db_call(Worker, op)
    BY <1>1 DEF worker_read
  <2>. QED  BY <2>1, DbSteps, Threads
<1>2. CASE worker_log \/ worker_called
  BY <1>2, DbSteps, Threads DEF worker_log, worker_called
<1>. QED  BY <1>1, <1>2 DEF WorkerStep

\* What the agent does leaves the broker's process and its disk alone.
LEMMA DbStepOfNext == [Next]_vars => [dbNext]_dbVars
<1>. SUFFICES ASSUME [Next]_vars PROVE [dbNext]_dbVars
  OBVIOUS
<1>1. CASE Threads_step
  BY <1>1, MainDbStep, PromptDbStep, WorkerDbStep, DbSteps DEF Threads_step, DbStep
<1>2. CASE Environment
  <2>1. CASE main_fails \/ handle_sigint \/ killed \/ misuse \/ start_again
    BY <2>1, DbSteps DEF main_fails, handle_sigint, killed, misuse, start_again, Dies
  <2>. QED  BY <1>2, <2>1, PromptDbStep, DbSteps DEF Environment, DbFails
<1>3. CASE AgentStep \/ handle \/ launch \/ agent_ping_thread \/ agent_sigint \/ tick
  BY <1>3, AgentLeavesBroker
<1>4. CASE UNCHANGED vars
  BY <1>4 DEF vars
<1>. QED  BY <1>1, <1>2, <1>3, <1>4 DEF Next

\* The prompt and the worker, with main opening and closing the handle around them and
\* the process ending at any point, use db.c so that nothing it has acknowledged is lost.
THEOREM DeploymentIsDurable == Spec => []Durable
<1>1. Init => dbInit
  BY DEF Init
<1>. QED  BY <1>1, DbStepOfNext, StoreIsDurable, PTL DEF Spec, dbSpec

----------------------------------------------------------------------------
(* The terminal *)

Terminals == [tty : {"cooked", "raw", "zero"}, orig : {"cooked", "raw", "zero"},
              spoilt : SUBSET {"early", "late", "cut"}]

\* Before cli_init, and without a terminal, there is no prompt.  As long as none of the
\* exempt windows was met, the mode is raw only while a line is read and main has not yet
\* cleaned up, and orig_termios, once enableRawMode has run, is the cooked mode.
TermInv ==
  /\ "tty" \in DOMAIN load
  /\ cli = "none" \/ (load.tty /\ main \notin {"boot", "cli"})
  /\ term \in Terminals
  /\ term.spoilt = {} =>
       /\ \/ term.tty = "cooked"
          \/ term.tty = "raw" /\ cli = "reading" /\ main \notin {"return", "returned", "exited"}
       /\ \/ term.orig = "cooked"
          \/ term.orig = "zero" /\ cli \in {"none", "asleep", "prompt"}

LEMMA CookedType ==
  /\ Cooked \in Terminals
  /\ Cooked.tty = "cooked" /\ Cooked.orig = "zero" /\ Cooked.spoilt = {}
BY DEF Cooked, Terminals

\* The process is about to start.
LEMMA TermStarts ==
  ASSUME "tty" \in DOMAIN load, cli = "none", term = Cooked
  PROVE  TermInv
<1>1. term \in Terminals /\ term.tty = "cooked" /\ term.orig = "zero"
  BY CookedType
<1>. QED  BY <1>1 DEF TermInv

LEMMA SpendKeeps ==
  ASSUME TermInv, NEW what, what # "tty", Spend(what)
  PROVE  "tty" \in DOMAIN load' /\ load'.tty = load.tty
BY DEF TermInv, Spend

\* A step that changes neither the terminal nor the prompt, and ends the process only
\* where the mode is restored.
LEMMA TermStays ==
  ASSUME TermInv, UNCHANGED <<cli, term>>, "tty" \in DOMAIN load', load'.tty = load.tty,
         main' \in {"boot", "cli"} => main \in {"boot", "cli"},
         \/ main' = main
         \/ main' \notin {"return", "returned", "exited"}
         \/ main = "return"
         \/ cli = "got"
  PROVE  TermInv'
BY DEF TermInv

LEMMA MainTermStep ==
  ASSUME TermInv, MainStep
  PROVE  TermInv'
<1>1. load' = load
  BY DEF MainStep, main_boot, cli_init, main_open, main_create, main_start, main_loop, main_wait,
       queue_write, main_close, main_cleanup, main_return
<1>2. "tty" \in DOMAIN load' /\ load'.tty = load.tty
  BY <1>1 DEF TermInv
<1>3. CASE cli_init
  <2>1. /\ main' = "open" /\ term' = term
        /\ \/ load.tty /\ cli' = "asleep"
           \/ ~load.tty /\ cli' = "none"
    BY <1>3 DEF cli_init, Main
  <2>2. cli = "none"
    BY <1>3 DEF TermInv, cli_init, Main
  <2>. QED  BY <1>2, <2>1, <2>2 DEF TermInv
<1>4. CASE main_cleanup
  <2>1. /\ main' = "return" /\ cli' = cli
        /\ term' = IF ~load.tty THEN term
                   ELSE [term EXCEPT !.tty = term.orig,
                                     !.spoilt = IF term.orig = "zero" THEN @ \cup {"early"} ELSE @]
    BY <1>4 DEF main_cleanup, Main, cli_cleanup
  <2>2. CASE ~load.tty
    BY <1>1, <2>1, <2>2 DEF TermInv
  <2>3. CASE load.tty
    <3>1. /\ term'.tty = term.orig /\ term'.orig = term.orig
          /\ term'.spoilt = IF term.orig = "zero" THEN term.spoilt \cup {"early"} ELSE term.spoilt
          /\ term' \in Terminals
      BY <2>1, <2>3 DEF TermInv, Terminals
    <3>. QED  BY <1>1, <2>1, <2>3, <3>1, SMT DEF TermInv
  <2>. QED  BY <2>2, <2>3
<1>5. CASE main_return
  BY <1>2, <1>5, TermStays DEF main_return, Dies
<1>6. CASE main_loop
  BY <1>2, <1>6, TermStays DEF main_loop
<1>. QED  BY <1>2, <1>3, <1>4, <1>5, <1>6, TermStays DEF MainStep, Main, main_boot, main_open,
            main_create, main_start, main_wait, queue_write, main_close

LEMMA PromptTermStep ==
  ASSUME TermInv, CliStep \/ dispatch \/ read_char
  PROVE  TermInv'
<1>1. CASE CliStep
  <2>1. CASE cli_wake \/ cli_called
    BY <2>1 DEF TermInv, cli_wake, cli_called
  <2>2. CASE get_input
    <3>1. /\ cli = "prompt" /\ cli' = "reading" /\ main' = main /\ load' = load
          /\ term' = [tty |-> "raw", orig |-> term.tty,
                      spoilt |-> IF main = "return" THEN term.spoilt \cup {"late"} ELSE term.spoilt]
      BY <2>2 DEF get_input
    <3>2. /\ term'.tty = "raw" /\ term'.orig = term.tty
          /\ term'.spoilt = {} => term.spoilt = {} /\ main # "return"
      BY <3>1 DEF TermInv, Terminals
    <3>3. term' \in Terminals
      BY <3>1 DEF TermInv, Terminals
    <3>4. main \notin {"returned", "exited"}
      BY <1>1 DEF CliStep, Ended
    <3>. QED  BY <3>1, <3>2, <3>3, <3>4 DEF TermInv
  <2>. QED  BY <1>1, <2>1, <2>2 DEF CliStep
<1>2. CASE dispatch
  <2>1. load' = load /\ term' = term /\ cli = "got"
    BY <1>2 DEF dispatch, Dies
  <2>2. \/ main' = main /\ cli' \in {"prompt", "call"}
        \/ main' = "exited" /\ cli' = cli
    BY <1>2 DEF dispatch, Dies
  <2>. QED  BY <2>1, <2>2 DEF TermInv
<1>3. CASE read_char
  <2>1. main' = main /\ cli = "reading" /\ "tty" \in DOMAIN load' /\ load'.tty = load.tty
    BY <1>3 DEF read_char, TermInv
  <2>2. \/ UNCHANGED <<cli, term>>
        \/ cli' = "got" /\ term' = [term EXCEPT !.tty = term.orig]
        \/ cli' = "got" /\ term' = [term EXCEPT !.spoilt = @ \cup {"cut"}]
    BY <1>3 DEF read_char, edit, returns, returns_early
  <2>3. CASE UNCHANGED <<cli, term>>
    BY <2>1, <2>3, TermStays
  <2>4. CASE cli' = "got" /\ term' = [term EXCEPT !.tty = term.orig]
    BY <2>1, <2>4 DEF TermInv, Terminals
  <2>5. CASE cli' = "got" /\ term' = [term EXCEPT !.spoilt = @ \cup {"cut"}]
    BY <2>1, <2>5 DEF TermInv, Terminals
  <2>. QED  BY <2>2, <2>3, <2>4, <2>5
<1>. QED  BY <1>1, <1>2, <1>3

LEMMA LoadKept ==
  ASSUME TermInv,
         WorkerStep \/ Environment \/ AgentStep \/ handle \/ launch \/ agent_ping_thread
           \/ agent_sigint \/ tick \/ \E t \in Caller : DbStep(t)
  PROVE  "tty" \in DOMAIN load' /\ load'.tty = load.tty
<1>1. CASE WorkerStep \/ agent_ping_thread \/ tick \/ \E t \in Caller : DbStep(t)
  <2>1. load' = load
    BY <1>1 DEF WorkerStep, worker_read, worker_log, worker_called, agent_ping_thread, tick, DbStep
  <2>. QED  BY <2>1 DEF TermInv
<1>2. CASE AgentStep
  <2>1. load' = load
    BY <1>2 DEF AgentStep, connect, ask, await, subscribe, loop, disconnected, bye, gives_up, Leaves
  <2>. QED  BY <2>1 DEF TermInv
<1>3. CASE handle \/ launch \/ agent_sigint
  <2>1. load' = load \/ Spend("faults") \/ Spend("launches") \/ Spend("agent_sigints")
    BY <1>3 DEF handle, launch, agent_sigint
  <2>. QED  BY <2>1, SpendKeeps DEF TermInv
<1>4. CASE Environment
  <2>1. CASE read_char
    BY <2>1 DEF read_char, TermInv
  <2>2. CASE ~read_char
    <3>1. \/ load' = load
          \/ \E what \in {"faults", "sigints", "kills", "restarts"} : Spend(what)
      BY <1>4, <2>2 DEF Environment, main_fails, handle_sigint, killed, misuse, start_again, DbFails
    <3>. QED  BY <3>1, SpendKeeps DEF TermInv
  <2>. QED  BY <2>1, <2>2
<1>. QED  BY <1>1, <1>2, <1>3, <1>4

LEMMA TermNext == TermInv /\ [Next]_vars => TermInv'
<1>. SUFFICES ASSUME TermInv, [Next]_vars PROVE TermInv'
  OBVIOUS
<1>1. CASE WorkerStep \/ \E t \in Caller : DbStep(t)
  <2>1. UNCHANGED procVars
    BY <1>1 DEF WorkerStep, worker_read, worker_log, worker_called, DbStep
  <2>. QED  BY <1>1, <2>1, LoadKept, TermStays DEF procVars
<1>2. CASE Environment
  <2>1. "tty" \in DOMAIN load' /\ load'.tty = load.tty
    BY <1>2, LoadKept
  <2>2. CASE start_again
    <3>1. cli' = "none" /\ term' = Cooked
      BY <2>2 DEF start_again
    <3>2. term' \in Terminals /\ term'.tty = "cooked" /\ term'.orig = "zero"
      BY <3>1, CookedType
    <3>. QED  BY <2>1, <3>1, <3>2 DEF TermInv
  <2>3. CASE main_fails \/ killed \/ misuse
    BY <2>1, <2>3, TermStays DEF main_fails, killed, misuse, Dies
  <2>4. CASE handle_sigint
    BY <2>1, <2>4, TermStays DEF handle_sigint, Dies
  <2>5. CASE \E t \in Caller : DbFails(t)
    BY <2>1, <2>5, TermStays DEF DbFails, procVars
  <2>. QED  BY <1>2, <2>2, <2>3, <2>4, <2>5, PromptTermStep DEF Environment
<1>3. CASE AgentStep \/ handle \/ launch \/ agent_ping_thread \/ agent_sigint \/ tick
  BY <1>3, LoadKept, AgentLeavesBroker, TermStays DEF procVars
<1>4. CASE UNCHANGED vars
  BY <1>4, TermStays DEF vars, procVars, TermInv
<1>. QED  BY <1>1, <1>2, <1>3, <1>4, MainTermStep, PromptTermStep DEF Next, Threads_step

\* Whenever the broker has ended by returning from main or by EXIT, the terminal is in
\* the mode the operator's shell left it in, for any keys, signals, failures, restarts and
\* any interleaving of main's cli_cleanup with get_input; but for the three windows that
\* TerminalRestored names.
THEOREM TerminalIsRestored == Spec => []TerminalRestored
<1>1. Init => TermInv
  <2>. SUFFICES ASSUME Init PROVE TermInv
    OBVIOUS
  <2>1. "tty" \in DOMAIN load
    BY Behaviours DEF Init
  <2>. QED  BY <2>1, TermStarts DEF Init, procInit
<1>2. TermInv => TerminalRestored
  BY DEF TermInv, TerminalRestored
<1>. QED  BY <1>1, <1>2, TermNext, PTL DEF Spec

----------------------------------------------------------------------------
(* The clock *)

IsSequence(s) == s \in Seq({s[i] : i \in 1 .. Len(s)})

\* When nothing the agent has sent waits to be read, the broker has heard nothing for no
\* longer than the ping thread has slept; and that thread never sleeps its interval out.
WatchInv ==
  /\ idle \in Nat /\ slept \in Nat /\ IsSequence(to_broker)
  /\ conn # "swept"
  /\ conn = "up" /\ to_broker = <<>> => idle <= slept
  /\ ping = "sleeping" => slept < PING_INTERVAL

LEMMA OwnElements ==
  ASSUME NEW S, NEW s \in Seq(S)
  PROVE  IsSequence(s)
<1>. DEFINE own == {s[i] : i \in 1 .. Len(s)}
<1>1. Len(s) \in Nat /\ s = [i \in 1 .. Len(s) |-> s[i]]
  BY SMT
<1>2. s \in [1 .. Len(s) -> own]
  BY <1>1
<1>3. [1 .. Len(s) -> own] \subseteq Seq(own)
  BY <1>1, SMT
<1>. QED  BY <1>2, <1>3 DEF IsSequence

LEMMA SequenceFacts ==
  ASSUME NEW s, IsSequence(s)
  PROVE  /\ \A e : IsSequence(Append(s, e)) /\ Append(s, e) # <<>>
         /\ s # <<>> => IsSequence(Tail(s))
         /\ IsSequence(<<>>)
<1>. DEFINE S == {s[i] : i \in 1 .. Len(s)}
<1>1. s \in Seq(S)
  BY DEF IsSequence
<1>2. ASSUME NEW e PROVE IsSequence(Append(s, e)) /\ Append(s, e) # <<>>
  <2>1. /\ Append(s, e) \in Seq(S \cup {e})
        /\ Len(Append(s, e)) = Len(s) + 1
    BY <1>1, SMT
  <2>2. Append(s, e) # <<>>
    BY <1>1, <2>1, SMT
  <2>. QED  BY <2>1, <2>2, OwnElements
<1>3. ASSUME s # <<>> PROVE IsSequence(Tail(s))
  <2>1. Tail(s) \in Seq(S)
    BY <1>1, <1>3, SMT
  <2>. QED  BY <2>1, OwnElements
<1>4. IsSequence(<<>>)
  BY SMT DEF IsSequence
<1>. QED  BY <1>2, <1>3, <1>4

\* What the broker does with the connection: nothing, or it ends, or a worker reads.
LEMMA BrokerWatch ==
  ASSUME Threads_step \/ Environment
  PROVE  \/ UNCHANGED <<conn, to_broker, idle>>
         \/ /\ conn' # "up" /\ conn' \in {conn, "closed"}
            /\ to_broker' = <<>> /\ idle' = idle
         \/ /\ conn' = conn /\ idle' = 0
            /\ to_broker # <<>> /\ to_broker' = Tail(to_broker)
<1>. DEFINE Ends == /\ conn' # "up" /\ conn' \in {conn, "closed"}
                    /\ to_broker' = <<>> /\ idle' = idle
<1>1. ASSUME NEW how, Dies(how) PROVE Ends
  BY <1>1 DEF Dies
<1>2. CASE MainStep
  <2>1. CASE main_return
    BY <1>1, <2>1 DEF main_return
  <2>. QED  BY <1>2, <2>1 DEF MainStep, main_boot, cli_init, main_open, main_create, main_start,
              main_loop, main_wait, queue_write, main_close, main_cleanup, netVars
<1>3. CASE CliStep
  BY <1>3 DEF CliStep, cli_wake, get_input, cli_called, netVars
<1>4. CASE dispatch
  <2>1. UNCHANGED <<conn, to_broker, idle>> \/ Dies("exited")
    BY <1>4 DEF dispatch, netVars
  <2>. QED  BY <1>1, <2>1
<1>5. CASE WorkerStep
  <2>1. CASE worker_read
    BY <2>1 DEF worker_read, netVars
  <2>2. CASE worker_log
    BY <2>2 DEF worker_log, netVars
  <2>3. CASE worker_called
    BY <2>3 DEF worker_called, netVars
  <2>. QED  BY <1>5, <2>1, <2>2, <2>3 DEF WorkerStep
<1>6. CASE \E t \in Caller : DbStep(t) \/ DbFails(t)
  BY <1>6 DEF DbStep, DbFails, netVars
<1>7. CASE read_char \/ start_again
  BY <1>7 DEF read_char, start_again, netVars
<1>8. CASE main_fails \/ handle_sigint \/ killed \/ misuse
  <2>1. UNCHANGED netVars \/ \E how \in {"failed", "killed"} : Dies(how)
    BY <1>8 DEF main_fails, handle_sigint, killed, misuse
  <2>. QED  BY <1>1, <2>1 DEF netVars
<1>. QED  BY <1>2, <1>3, <1>4, <1>5, <1>6, <1>7, <1>8 DEF Threads_step, Environment

\* What the agent's main does with it: nothing, or it is new, or it ends, or it is
\* written to.
LEMMA AgentWatch ==
  ASSUME AgentStep \/ handle \/ launch \/ agent_sigint
  PROVE  /\ \/ UNCHANGED <<conn, to_broker, idle>>
            \/ conn' = "up" /\ to_broker' = <<>> /\ idle' = 0
            \/ conn' = "none" /\ to_broker' = <<>> /\ idle' = idle
            \/ UNCHANGED <<conn, idle>> /\ \E l : SSL_write(l)
         /\ \/ slept' = slept /\ ping' \in {ping, "off", "awake"}
            \/ slept' = 0 /\ ping' = "sleeping" /\ UNCHANGED <<conn, idle>> /\ \E l : SSL_write(l)
<1>1. CASE connect \/ await \/ loop \/ disconnected
  BY <1>1 DEF connect, await, loop, disconnected, netVars
<1>2. CASE ask \/ subscribe
  BY <1>2 DEF ask, subscribe
<1>3. CASE bye \/ gives_up
  BY <1>3 DEF bye, gives_up, Leaves
<1>4. CASE handle
  BY <1>4 DEF handle
<1>5. CASE launch \/ agent_sigint
  BY <1>5 DEF launch, agent_sigint, wakes, netVars
<1>. QED  BY <1>1, <1>2, <1>3, <1>4, <1>5 DEF AgentStep

\* A write wakes the broker's worker, or the connection is gone.
LEMMA WriteWatch ==
  ASSUME WatchInv, NEW l, SSL_write(l), UNCHANGED <<conn, idle>>
  PROVE  /\ IsSequence(to_broker')
         /\ conn' = "up" => to_broker' # <<>>
BY SequenceFacts DEF WatchInv, SSL_write

LEMMA WatchNext == WatchInv /\ [Next]_vars => WatchInv'
<1>. SUFFICES ASSUME WatchInv, [Next]_vars PROVE WatchInv'
  OBVIOUS
<1>1. CASE (Threads_step \/ Environment) /\ Follow
  <2>1. UNCHANGED <<ping, slept>>
    BY <1>1 DEF Follow
  <2>2. CASE UNCHANGED <<conn, to_broker, idle>>
    BY <2>1, <2>2 DEF WatchInv, IsSequence
  <2>3. CASE /\ conn' # "up" /\ conn' \in {conn, "closed"}
             /\ to_broker' = <<>> /\ idle' = idle
    BY <2>1, <2>3, SequenceFacts DEF WatchInv
  <2>4. CASE /\ conn' = conn /\ idle' = 0
             /\ to_broker # <<>> /\ to_broker' = Tail(to_broker)
    <3>1. IsSequence(to_broker')
      BY <2>4, SequenceFacts DEF WatchInv
    <3>. QED  BY <2>1, <2>4, <3>1, SMT DEF WatchInv
  <2>. QED  BY <1>1, <2>2, <2>3, <2>4, BrokerWatch
<1>2. CASE AgentStep \/ handle \/ launch \/ agent_sigint
  <2>1. IsSequence(to_broker') /\ idle' \in Nat /\ conn' # "swept"
    BY <1>2, AgentWatch, WriteWatch, SequenceFacts, 0 \in Nat DEF WatchInv, IsSequence
  <2>2. CASE slept' = 0 /\ ping' = "sleeping" /\ UNCHANGED <<conn, idle>> /\ \E l : SSL_write(l)
    <3>1. conn' = "up" => to_broker' # <<>>
      BY <2>2, WriteWatch
    <3>. QED  BY <2>1, <2>2, <3>1, SMT DEF WatchInv, PING_INTERVAL
  <2>3. CASE slept' = slept /\ ping' \in {ping, "off", "awake"}
    <3>1. conn' = "up" /\ to_broker' = <<>> => idle' <= slept'
      <4>1. CASE UNCHANGED <<conn, to_broker, idle>>
        BY <2>3, <4>1 DEF WatchInv
      <4>2. CASE conn' = "up" /\ to_broker' = <<>> /\ idle' = 0
        BY <2>3, <4>2, SMT DEF WatchInv
      <4>3. CASE UNCHANGED <<conn, idle>> /\ \E l : SSL_write(l)
        BY <4>3, WriteWatch
      <4>. QED  BY <1>2, <4>1, <4>2, <4>3, AgentWatch
    <3>2. slept' \in Nat /\ (ping' = "sleeping" => slept' < PING_INTERVAL)
      BY <2>3 DEF WatchInv
    <3>. QED  BY <2>1, <3>1, <3>2 DEF WatchInv
  <2>. QED  BY <1>2, <2>2, <2>3, AgentWatch
<1>3. CASE agent_ping_thread
  <2>1. /\ ping' = "sleeping" /\ slept' = 0 /\ UNCHANGED <<conn, idle>>
        /\ \E l : SSL_write(l)
    BY <1>3 DEF agent_ping_thread
  <2>2. IsSequence(to_broker') /\ (conn' = "up" => to_broker' # <<>>)
    BY <2>1, WriteWatch
  <2>. QED  BY <2>1, <2>2, SMT DEF WatchInv, PING_INTERVAL
<1>4. CASE tick
  <2>1. /\ ping = "sleeping" /\ conn = "up" /\ to_broker = <<>>
        /\ to_broker' = to_broker
        /\ slept' = slept + 1 /\ idle' = idle + 1
        /\ ping' = IF slept' >= PING_INTERVAL THEN "awake" ELSE ping
        /\ conn' = IF idle' > INACTIVE THEN "swept" ELSE conn
    BY <1>4 DEF tick, Quiet
  <2>2. /\ idle' \in Nat /\ slept' \in Nat
        /\ idle' <= slept' /\ slept' <= PING_INTERVAL
    BY <2>1, SMT DEF WatchInv, PING_INTERVAL
  <2>3. conn' = "up"
    BY <2>1, <2>2, SMT DEF PING_INTERVAL, INACTIVE
  <2>4. ping' = "sleeping" => slept' < PING_INTERVAL
    BY <2>1, <2>2, SMT DEF PING_INTERVAL
  <2>5. IsSequence(to_broker')
    BY <2>1 DEF WatchInv
  <2>. QED  BY <2>2, <2>3, <2>4, <2>5 DEF WatchInv
<1>5. CASE UNCHANGED vars
  BY <1>5 DEF WatchInv, IsSequence, vars, netVars, agentVars
<1>. QED  BY <1>1, <1>2, <1>3, <1>4, <1>5 DEF Next

\* The heartbeat never sweeps a connected agent: for any commands, reports, signals,
\* failures and restarts, the PING of agent_ping_thread reaches a worker before the
\* broker has waited 60 s for it.
THEOREM AgentIsNeverSwept == Spec => []NeverSwept
<1>1. Init => WatchInv
  <2>. SUFFICES ASSUME Init PROVE WatchInv
    OBVIOUS
  <2>1. idle = 0 /\ slept = 0 /\ to_broker = <<>> /\ conn = "none" /\ ping = "off"
    BY DEF Init, netInit, agentInit
  <2>2. IsSequence(<<>>)
    BY SMT DEF IsSequence
  <2>. QED  BY <2>1, <2>2, 0 \in Nat DEF WatchInv
<1>2. WatchInv => NeverSwept
  BY DEF WatchInv, NeverSwept
<1>. QED  BY <1>1, <1>2, WatchNext, PTL DEF Spec
=============================================================================
