----------------------------- MODULE LogStreamProofs -----------------------------
(***************************************************************************)
(* Proofs about the two rings that keep the end of a log.  LogStream: the  *)
(* window it holds, what its reads return, and that it implements LogTail, *)
(* for buffers, words, lines and readers of any size that satisfy the      *)
(* module's assumptions.  BatteryHistory: that it is the log's end, and    *)
(* that what it records was measured.                                      *)
(***************************************************************************)
EXTENDS LogStream, BatteryHistory, SequenceTheorems, TLAPS

-------------------------------------------------------------------------------
(* Remainders.                                                               *)

\* What the operators for quotient and remainder mean.
LEMMA DivMod == ASSUME NEW B \in Nat \ {0}, NEW a \in Int
  PROVE /\ a % B \in 0 .. B-1 /\ a \div B \in Int /\ a = B * (a \div B) + (a % B)
  OBVIOUS

\* A multiple of B strictly between -B and B is zero.
LEMMA Big == ASSUME NEW B \in Nat \ {0}, NEW k \in Int, B * k < B, B * k > -B
  PROVE k = 0
<1>1. CASE k >= 1
  <2>1. B * k >= B BY <1>1
  <2> QED BY <2>1
<1>2. CASE k <= -1
  <2>1. B * k <= -B BY <1>2
  <2> QED BY <2>1
<1> QED BY <1>1, <1>2

\* Numbers less than B apart leave different remainders.
LEMMA Distinct == ASSUME NEW B \in Nat \ {0}, NEW a \in Int, NEW b \in Int, a - b \in 1..B-1
  PROVE a % B # b % B
<1> SUFFICES ASSUME a % B = b % B PROVE FALSE OBVIOUS
<1> DEFINE k == (a \div B) - (b \div B)
<1>1. k \in Int BY DivMod
<1>2. a - b = B * (a \div B) - B * (b \div B) BY DivMod
<1>3. B * k = B * (a \div B) - B * (b \div B) BY DivMod
<1>4. B * k < B /\ B * k > -B /\ B * k # 0 BY <1>2, <1>3
<1> HIDE DEF k
<1>5. k = 0 BY <1>1, <1>4, Big
<1>6. B * k = 0 BY <1>5
<1> QED BY <1>4, <1>6

\* The remainder is unique.
LEMMA Unique == ASSUME NEW B \in Nat \ {0}, NEW q \in Int, NEW r \in 0..B-1
  PROVE (B * q + r) % B = r
<1> DEFINE a == B * q + r  x == a \div B  y == a % B  k == q - x
<1>1. a \in Int OBVIOUS
<1>2. a = B * x + y /\ y \in 0..B-1 /\ x \in Int BY <1>1, DivMod
<1> HIDE DEF x, y
<1>3. B * k = B * q - B * x BY <1>2
<1>4. B * q + r = B * x + y BY <1>2
<1>5. B * q \in Int /\ B * x \in Int BY <1>2
<1>6. B * k = y - r BY <1>3, <1>4, <1>5, <1>2
<1>7. k \in Int /\ B * k < B /\ B * k > -B BY <1>2, <1>6
<1> HIDE DEF k
<1>8. k = 0 BY <1>7, Big
<1>9. B * k = 0 BY <1>8
<1>10. y = r BY <1>9, <1>6, <1>2
<1> QED BY <1>10 DEF y

\* A remainder may be taken before or after.
LEMMA ModAdd == ASSUME NEW B \in Nat \ {0}, NEW a \in Int, NEW b \in Int
  PROVE ((a % B) + b) % B = (a + b) % B
<1> DEFINE k == a \div B  r == a % B  j == (r + b) \div B  t == (r + b) % B
<1>1. k \in Int /\ r \in 0..B-1 /\ a = B * k + r BY DivMod
<1>2. j \in Int /\ t \in 0..B-1 /\ r + b = B * j + t BY <1>1, DivMod, SMTT(20)
<1> HIDE DEF k, r, j, t
<1>3. a + b = B * (k + j) + t /\ k + j \in Int BY <1>1, <1>2
<1>4. (B * (k + j) + t) % B = t BY <1>2, <1>3, Unique
<1> QED BY <1>3, <1>4 DEF r, t

\* A multiple of B does not change the remainder.
LEMMA Shift ==
  ASSUME NEW B \in Nat \ {0}, NEW W \in Int, W % B = 0,
         NEW a \in Int, NEW b \in Int, b = a + W
  PROVE  b % B = a % B
<1> DEFINE w == W \div B  x == a \div B  y == a % B  q == x + w
<1>1. W = B * w /\ w \in Int BY DivMod
<1>2. a = B * x + y /\ y \in 0 .. B - 1 /\ x \in Int BY DivMod
<1> HIDE DEF w, x, y
<1>3. B * q = B * x + B * w BY <1>1, <1>2
<1>4. B * x \in Int /\ B * w \in Int BY <1>1, <1>2
<1>5. b = B * q + y /\ q \in Int BY <1>1, <1>2, <1>3, <1>4
<1> HIDE DEF q
<1>6. (B * q + y) % B = y BY <1>2, <1>5, Unique
<1> QED BY <1>5, <1>6 DEF y

-------------------------------------------------------------------------------
(* Positions and cells.                                                      *)

\* Sums and differences of words are words.
LEMMA Words ==
  ASSUME NEW a \in Word, NEW b \in Word
  PROVE  Plus(a, b) \in Word /\ Minus(a, b) \in Word
BY WordAssumption, BufAssumption DEF Word, Plus, Minus

\* The sizes, as the provers need them.
LEMMA Sizes ==
  /\ LOG_STREAM_BUF_BYTES \in Nat \ {0} /\ WordSize \in Nat
  /\ WordSize >= 2 * LOG_STREAM_BUF_BYTES
  /\ WordSize % LOG_STREAM_BUF_BYTES = 0
  /\ MaxLine \in Nat /\ MaxLine <= LOG_STREAM_BUF_BYTES /\ MaxRead \in Nat \ {0}
BY BufAssumption, WordAssumption, LineAssumption

\* Once around leaves the cell alone: the buffer's size divides the word's.
LEMMA Around ==
  ASSUME NEW a \in Int, NEW b \in Int, b = a + WordSize
  PROVE  b % LOG_STREAM_BUF_BYTES = a % LOG_STREAM_BUF_BYTES
<1> DEFINE B == LOG_STREAM_BUF_BYTES  W == WordSize
<1>1. /\ B \in Nat \ {0} /\ W \in Int /\ W % B = 0 /\ b = a + W
  BY Sizes
<1> SUFFICES b % B = a % B
  OBVIOUS
<1> HIDE DEF B, W
<1> QED BY <1>1, Shift, ZenonT(30)

\* A cell is the remainder of the position, wrapped around or not.
LEMMA CellAhead ==
  ASSUME NEW p \in Word, NEW i \in Word
  PROVE  /\ Cell(p, i) = (p + i) % LOG_STREAM_BUF_BYTES
         /\ Cell(p, i) \in Cells
<1>1. p \in Int /\ i \in Int /\ p + i \in Int /\ p + i - WordSize \in Int
  BY Sizes DEF Word
<1>2. (p + i) % LOG_STREAM_BUF_BYTES \in Cells
  BY <1>1, Sizes, DivMod DEF Cells
<1>3. CASE p + i < WordSize
  BY <1>2, <1>3 DEF Cell, Plus
<1>4. CASE ~(p + i < WordSize)
  <2> DEFINE a == p + i - WordSize  b == p + i
  <2>1. a \in Int /\ b \in Int /\ b = a + WordSize
    BY <1>1, Sizes
  <2>2. Plus(p, i) = a /\ b % LOG_STREAM_BUF_BYTES \in Cells
    BY <1>2, <1>4 DEF Plus
  <2>3. b % LOG_STREAM_BUF_BYTES = (p + i) % LOG_STREAM_BUF_BYTES
    OBVIOUS
  <2> HIDE DEF a, b
  <2>4. b % LOG_STREAM_BUF_BYTES = a % LOG_STREAM_BUF_BYTES
    BY <2>1, Around
  <2> QED BY <2>2, <2>3, <2>4 DEF Cell
<1> QED BY <1>3, <1>4

\* The same behind a position.
LEMMA CellBehind ==
  ASSUME NEW p \in Word, NEW d \in Word
  PROVE  /\ Cell(Minus(p, d), 0) = (p - d) % LOG_STREAM_BUF_BYTES
         /\ Cell(Minus(p, d), 0) \in Cells
<1>1. p \in Int /\ d \in Int /\ p - d \in Int /\ 0 \in Word
  BY Sizes DEF Word
<1>2. Minus(p, d) \in Word /\ Minus(p, d) + 0 = Minus(p, d)
  BY Words DEF Word
<1>3. /\ Cell(Minus(p, d), 0) = Minus(p, d) % LOG_STREAM_BUF_BYTES
      /\ Cell(Minus(p, d), 0) \in Cells
  BY <1>1, <1>2, CellAhead
<1>4. CASE p >= d
  BY <1>3, <1>4 DEF Minus
<1>5. CASE ~(p >= d)
  <2> DEFINE a == p - d  b == p - d + WordSize
  <2>1. a \in Int /\ b \in Int /\ b = a + WordSize
    BY <1>1, Sizes
  <2>2. Minus(p, d) = b /\ a % LOG_STREAM_BUF_BYTES = (p - d) % LOG_STREAM_BUF_BYTES
    BY <1>5 DEF Minus
  <2> HIDE DEF a, b
  <2>3. b % LOG_STREAM_BUF_BYTES = a % LOG_STREAM_BUF_BYTES
    BY <2>1, Around
  <2> QED BY <1>3, <2>2, <2>3
<1> QED BY <1>4, <1>5

\* A line is shorter than the buffer: its bytes go to cells of their own ...
LEMMA LineCellsDiffer ==
  ASSUME NEW p \in Word, NEW i \in 0 .. LOG_STREAM_BUF_BYTES - 1,
         NEW j \in 0 .. LOG_STREAM_BUF_BYTES - 1, Cell(p, i) = Cell(p, j)
  PROVE  i = j
<1>1. i \in Word /\ j \in Word /\ p \in Int /\ i \in Int /\ j \in Int
  BY Sizes DEF Word
<1>2. (p + i) % LOG_STREAM_BUF_BYTES = (p + j) % LOG_STREAM_BUF_BYTES
  BY <1>1, CellAhead
<1>3. CASE i > j
  <2> DEFINE a == p + i  b == p + j
  <2>1. a \in Int /\ b \in Int /\ a - b \in 1 .. LOG_STREAM_BUF_BYTES - 1
    BY <1>1, <1>3, Sizes
  <2>2. a % LOG_STREAM_BUF_BYTES = b % LOG_STREAM_BUF_BYTES
    BY <1>2
  <2> HIDE DEF a, b
  <2> QED BY <2>1, <2>2, Sizes, Distinct
<1>4. CASE j > i
  <2> DEFINE a == p + j  b == p + i
  <2>1. a \in Int /\ b \in Int /\ a - b \in 1 .. LOG_STREAM_BUF_BYTES - 1
    BY <1>1, <1>4, Sizes
  <2>2. a % LOG_STREAM_BUF_BYTES = b % LOG_STREAM_BUF_BYTES
    BY <1>2
  <2> HIDE DEF a, b
  <2> QED BY <2>1, <2>2, Sizes, Distinct
<1> QED BY <1>1, <1>3, <1>4

\* ... and not over the bytes that stay in the window.
LEMMA LineSparesWindow ==
  ASSUME NEW p \in Word, NEW i \in Nat, NEW d \in Nat, d >= 1,
         i + d < LOG_STREAM_BUF_BYTES
  PROVE  Cell(p, i) # Cell(Minus(p, d), 0)
<1>1. i \in Word /\ d \in Word /\ p \in Int /\ i \in Int /\ d \in Int
  BY Sizes DEF Word
<1> DEFINE a == p + i  b == p - d
<1>2. a \in Int /\ b \in Int /\ a - b \in 1 .. LOG_STREAM_BUF_BYTES - 1
  BY <1>1, Sizes
<1>3. /\ Cell(p, i) = a % LOG_STREAM_BUF_BYTES
      /\ Cell(Minus(p, d), 0) = b % LOG_STREAM_BUF_BYTES
  BY <1>1, CellAhead, CellBehind
<1> HIDE DEF a, b
<1> QED BY <1>2, <1>3, Sizes, Distinct

-------------------------------------------------------------------------------
(* The inductive invariant.                                                  *)

\* The counter has not overtaken the bytes it counts, and no reader is further
\* behind than the log is long.
Counting ==
  /\ s_write_pos <= total
  /\ \A r \in Readers : active[r] => Avail(r) <= total

\* What a call that holds the mutex has found still holds.
Holding ==
  /\ \A r \in Readers : s_mutex = r =>
       active[r] /\ Avail(r) <= LOG_STREAM_BUF_BYTES /\ n <= Avail(r)
  /\ s_mutex = Dumper => n <= s_write_pos

TypeInv ==
  /\ s_buf \in [Cells -> Nat \cup {Nothing}] /\ s_write_pos \in Word
  /\ active \in [Readers -> BOOLEAN] /\ read_pos \in [Readers -> Word]
  /\ s_mutex \in {None, Dumper} \cup Readers
  /\ n \in 0 .. LOG_STREAM_BUF_BYTES
  /\ total \in Nat

OutOK == DOMAIN out \subseteq 1 .. LOG_STREAM_BUF_BYTES

IInv == TypeInv /\ OutOK /\ Counting /\ Holding /\ WindowHeld

\* A reader of a word behind falls behind by what is written, and no further.
LEMMA FallsBehind ==
  ASSUME NEW w \in Word, NEW p \in Word, NEW len \in 0 .. LOG_STREAM_BUF_BYTES,
         Minus(w, p) + len < WordSize
  PROVE  Minus(Plus(w, len), p) = Minus(w, p) + len
BY Sizes DEF Word, Minus, Plus

\* Reading m of the bytes there are brings a reader m bytes closer.
LEMMA CatchesUp ==
  ASSUME NEW w \in Word, NEW p \in Word, NEW m \in 0 .. LOG_STREAM_BUF_BYTES,
         m <= Minus(w, p)
  PROVE  /\ Minus(w, Plus(p, m)) = Minus(w, p) - m
         /\ Plus(p, m) = Minus(w, Minus(w, p) - m)
BY Sizes DEF Word, Minus, Plus

\* The empty buffer satisfies the invariant.
LEMMA InitInv == Init => IInv
<1> SUFFICES ASSUME Init PROVE IInv OBVIOUS
<1>1. 0 \in Word /\ 0 \in 0 .. LOG_STREAM_BUF_BYTES BY Sizes DEF Word
<1>2. TypeInv BY <1>1 DEF Init, TypeInv, None, Nothing
<1>3. OutOK BY DEF Init, OutOK
<1>4. Counting BY DEF Init, Counting
<1>5. Holding BY DEF Init, Holding, None, Dumper, Readers
<1>6. WindowHeld
  <2>1. Smaller(total, LOG_STREAM_BUF_BYTES) = 0 BY Sizes DEF Init, Smaller
  <2> QED BY <2>1 DEF WindowHeld
<1> QED BY <1>2, <1>3, <1>4, <1>5, <1>6 DEF IInv

\* A line in the buffer: the window moves on by its length.
LEMMA LogLineInv ==
  ASSUME IInv, NEW len \in 1 .. MaxLine, LogLine(len)
  PROVE  IInv'
<1> USE DEF IInv
<1> DEFINE hit(c) == {i \in 0 .. len - 1 : Cell(s_write_pos, i) = c}
           top(c) == CHOOSE i \in hit(c) : \A j \in hit(c) : j <= i
<1>1. /\ len \in Nat /\ len \in Word /\ len <= LOG_STREAM_BUF_BYTES /\ len >= 1
      /\ len \in 0 .. LOG_STREAM_BUF_BYTES
  BY Sizes DEF Word
<1>2. /\ s_buf' = [c \in Cells |-> IF hit(c) = {} THEN s_buf[c] ELSE total + top(c)]
      /\ s_write_pos' = Plus(s_write_pos, len) /\ total' = total + len
      /\ UNCHANGED <<active, read_pos, s_mutex, n, out>>
      /\ s_mutex = None /\ NobodyAWordBehind(len)
  BY DEF LogLine, CopiedOfLine, HookMayWrite
<1>3. s_write_pos \in Word /\ s_write_pos' \in Word /\ total \in Nat
  BY <1>1, <1>2, Words DEF TypeInv
<1>4. \A i \in 0 .. len - 1 : i \in Word /\ i \in 0 .. LOG_STREAM_BUF_BYTES - 1
  BY <1>1, Sizes DEF Word
<1>5. ASSUME NEW c \in Cells, NEW k \in hit(c)
      PROVE  hit(c) = {k} /\ top(c) = k
  <2>1. \A j \in hit(c) : j = k
    BY <1>3, <1>4, LineCellsDiffer
  <2>2. hit(c) = {k}
    BY <2>1
  <2>3. k \in Int
    OBVIOUS
  <2>4. (CHOOSE i \in {k} : \A j \in {k} : j <= i) = k
    BY <2>3
  <2> QED BY <2>2, <2>4
<1> HIDE DEF hit, top
<1>6. s_buf' \in [Cells -> Nat \cup {Nothing}]
  <2> SUFFICES ASSUME NEW c \in Cells
               PROVE (IF hit(c) = {} THEN s_buf[c] ELSE total + top(c)) \in Nat \cup {Nothing}
    BY <1>2
  <2>1. CASE hit(c) = {}
    BY <2>1 DEF TypeInv
  <2>2. CASE hit(c) # {}
    <3>1. PICK k \in hit(c) : TRUE BY <2>2
    <3>2. k \in Nat BY <1>1 DEF hit
    <3>3. total + top(c) \in Nat BY <3>1, <3>2, <1>5, <1>3
    <3> QED BY <3>3, <2>2
  <2> QED BY <2>1, <2>2
<1>7. TypeInv'
  BY <1>1, <1>2, <1>3, <1>6 DEF TypeInv
<1>8. OutOK'
  BY <1>2 DEF OutOK
<1>9. Counting'
  <2>1. s_write_pos' <= total'
    BY <1>1, <1>2, <1>3, Sizes DEF Counting, Plus, Word
  <2>2. ASSUME NEW r \in Readers, active[r]
        PROVE Avail(r)' <= total'
    <3>1. read_pos[r] \in Word /\ Minus(s_write_pos, read_pos[r]) + len < WordSize
      BY <1>2, <2>2 DEF TypeInv, NobodyAWordBehind, Avail
    <3>2. Avail(r)' = Avail(r) + len
      BY <3>1, <1>1, <1>2, <1>3, FallsBehind DEF Avail
    <3>3. Avail(r) \in Word /\ Avail(r) <= total
      BY <2>2, <3>1, <1>3, Words DEF Counting, Avail
    <3> QED BY <3>2, <3>3, <1>1, <1>2, <1>3 DEF Word
  <2> QED BY <2>1, <2>2, <1>2 DEF Counting
<1>10. Holding'
  BY <1>2 DEF Holding, None, Dumper, Readers
<1>11. WindowHeld'
  <2> SUFFICES ASSUME NEW d \in 1 .. Smaller(total', LOG_STREAM_BUF_BYTES)
               PROVE  s_buf'[Cell(Minus(s_write_pos', d), 0)] = total' - d
    BY DEF WindowHeld
  <2>1. d \in Nat /\ d >= 1 /\ d <= LOG_STREAM_BUF_BYTES /\ d <= total + len /\ d \in Word
    BY <1>1, <1>2, <1>3, Sizes DEF Smaller, Word
  <2> DEFINE c == Cell(Minus(s_write_pos', d), 0)
  <2>2. c \in Cells /\ c = (s_write_pos' - d) % LOG_STREAM_BUF_BYTES
    BY <2>1, <1>3, CellBehind
  <2>3. c = (s_write_pos + len - d) % LOG_STREAM_BUF_BYTES
    <3> DEFINE a == s_write_pos' - d  b == s_write_pos + len - d
    <3>1. a \in Int /\ b \in Int /\ (a = b \/ b = a + WordSize)
      BY <1>1, <1>2, <1>3, <2>1, Sizes DEF Word, Plus
    <3>2. /\ c = a % LOG_STREAM_BUF_BYTES
          /\ b % LOG_STREAM_BUF_BYTES = (s_write_pos + len - d) % LOG_STREAM_BUF_BYTES
      BY <2>2
    <3> HIDE DEF a, b, c
    <3>3. b % LOG_STREAM_BUF_BYTES = a % LOG_STREAM_BUF_BYTES
      BY <3>1, Around
    <3> QED BY <3>2, <3>3
  <2> HIDE DEF c
  <2>4. CASE d <= len
    <3>1. len - d \in 0 .. len - 1 /\ len - d \in Word
      BY <2>1, <2>4, <1>1, <1>4
    <3>2. Cell(s_write_pos, len - d) = (s_write_pos + (len - d)) % LOG_STREAM_BUF_BYTES
      BY <3>1, <1>3, CellAhead
    <3>3. s_write_pos + (len - d) = s_write_pos + len - d
      BY <1>1, <1>3, <2>1 DEF Word
    <3>4. len - d \in hit(c)
      BY <3>1, <3>2, <3>3, <2>3 DEF hit
    <3>5. hit(c) # {} /\ top(c) = len - d
      BY <3>4, <2>2, <1>5
    <3>6. s_buf'[c] = total + (len - d)
      BY <3>5, <2>2, <1>2
    <3> QED BY <3>6, <1>1, <1>2, <1>3, <2>1 DEF c
  <2>5. CASE d > len
    <3> DEFINE e == d - len
    <3>1. /\ e \in Nat /\ e >= 1 /\ e \in Word
          /\ e \in 1 .. Smaller(total, LOG_STREAM_BUF_BYTES)
      BY <2>1, <2>5, <1>1, <1>3, Sizes DEF Smaller, Word
    <3>2. s_write_pos - e = s_write_pos + len - d
      BY <1>1, <1>3, <2>1 DEF Word
    <3>3. c = Cell(Minus(s_write_pos, e), 0)
      BY <3>1, <3>2, <2>3, <1>3, CellBehind
    <3>4. \A i \in 0 .. len - 1 : Cell(s_write_pos, i) # c
      <4> TAKE i \in 0 .. len - 1
      <4>1. i \in Nat /\ i <= len - 1
        BY <1>1
      <4>2. i + (d - len) < LOG_STREAM_BUF_BYTES
        BY <4>1, <1>1, <2>1, <2>5, Sizes
      <4>3. i + e < LOG_STREAM_BUF_BYTES
        BY <4>2
      <4> HIDE DEF e
      <4> QED BY <4>1, <4>3, <3>1, <3>3, <1>3, LineSparesWindow
    <3>5. hit(c) = {}
      BY <3>4 DEF hit
    <3>6. s_buf'[c] = s_buf[c]
      BY <3>5, <2>2, <1>2
    <3>7. s_buf[c] = total - e
      BY <3>1, <3>3 DEF WindowHeld
    <3> QED BY <3>6, <3>7, <1>1, <1>2, <1>3, <2>1 DEF c
  <2> QED BY <2>1, <2>4, <2>5, <1>1
<1> QED BY <1>7, <1>8, <1>9, <1>10, <1>11

\* Steps that leave the buffer alone leave the window alone.
LEMMA WindowStays ==
  ASSUME WindowHeld, UNCHANGED <<s_buf, s_write_pos, total>>
  PROVE  WindowHeld'
BY DEF WindowHeld

\* A new reader starts within the window.
LEMMA SubscribeInv ==
  ASSUME IInv, NEW r \in Readers, Subscribe(r)
  PROVE  IInv'
<1> USE DEF IInv
<1> DEFINE p == IF s_write_pos > LOG_STREAM_BUF_BYTES
                THEN s_write_pos - LOG_STREAM_BUF_BYTES ELSE 0
<1>1. /\ active' = [active EXCEPT ![r] = TRUE]
      /\ read_pos' = [read_pos EXCEPT ![r] = p] /\ s_mutex = None
      /\ UNCHANGED <<s_buf, s_write_pos, s_mutex, n, out, total>>
  BY DEF Subscribe
<1>2. p \in Word /\ Minus(s_write_pos, p) <= total
  BY Sizes DEF TypeInv, Counting, Word, Minus
<1> HIDE DEF p
<1>3. TypeInv' BY <1>1, <1>2 DEF TypeInv
<1>4. OutOK' BY <1>1 DEF OutOK
<1>5. Counting'
  <2>1. s_write_pos' <= total' BY <1>1 DEF Counting
  <2>2. ASSUME NEW q \in Readers, active'[q] PROVE Avail(q)' <= total'
    <3>1. CASE q = r BY <3>1, <1>1, <1>2 DEF TypeInv, Avail
    <3>2. CASE q # r BY <3>2, <2>2, <1>1 DEF TypeInv, Counting, Avail
    <3> QED BY <3>1, <3>2
  <2> QED BY <2>1, <2>2 DEF Counting
<1>6. Holding' BY <1>1 DEF Holding, None, Dumper, Readers
<1>7. WindowHeld' BY <1>1, WindowStays
<1> QED BY <1>3, <1>4, <1>5, <1>6, <1>7

\* A reader that leaves disturbs no other.
LEMMA UnsubscribeInv ==
  ASSUME IInv, NEW r \in Readers, Unsubscribe(r)
  PROVE  IInv'
<1> USE DEF IInv
<1>1. /\ active' = [active EXCEPT ![r] = FALSE] /\ s_mutex = None
      /\ UNCHANGED <<s_buf, s_write_pos, read_pos, s_mutex, n, out, total>>
  BY DEF Unsubscribe
<1>2. TypeInv' BY <1>1 DEF TypeInv
<1>3. OutOK' BY <1>1 DEF OutOK
<1>4. Counting' BY <1>1 DEF TypeInv, Counting, Avail
<1>5. Holding' BY <1>1 DEF Holding, None, Dumper, Readers
<1>6. WindowHeld' BY <1>1, WindowStays
<1> QED BY <1>2, <1>3, <1>4, <1>5, <1>6

\* What a reader finds when it looks.
LEMMA LookFinds ==
  ASSUME IInv, NEW r \in Readers, ReadLooks(r)
  PROVE  /\ CaughtUp(r) \in Word
         /\ Minus(s_write_pos, CaughtUp(r)) = Smaller(Avail(r), LOG_STREAM_BUF_BYTES)
         /\ Avail(r) \in Word /\ Avail(r) <= total
<1>1. s_write_pos \in Word /\ read_pos[r] \in Word /\ LOG_STREAM_BUF_BYTES \in Word
  BY Sizes DEF IInv, TypeInv, Word
<1>2. Avail(r) \in Word /\ Avail(r) <= total
  BY <1>1, Words DEF IInv, Counting, ReadLooks, Avail
<1>3. CASE Avail(r) > LOG_STREAM_BUF_BYTES
  <2>1. /\ Minus(s_write_pos, LOG_STREAM_BUF_BYTES) \in Word
        /\ Minus(s_write_pos, Minus(s_write_pos, LOG_STREAM_BUF_BYTES)) = LOG_STREAM_BUF_BYTES
    BY <1>1, Sizes DEF Word, Minus
  <2>2. Smaller(Avail(r), LOG_STREAM_BUF_BYTES) = LOG_STREAM_BUF_BYTES
    BY <1>2, <1>3, Sizes DEF Smaller, Word
  <2> QED BY <1>2, <1>3, <2>1, <2>2 DEF CaughtUp
<1>4. CASE ~(Avail(r) > LOG_STREAM_BUF_BYTES)
  <2>1. Smaller(Avail(r), LOG_STREAM_BUF_BYTES) = Avail(r)
    BY <1>2, <1>4, Sizes DEF Smaller, Word
  <2> QED BY <1>1, <1>2, <1>4, <2>1 DEF CaughtUp, Avail
<1> QED BY <1>3, <1>4

\* Looking, under the mutex, moves an overtaken reader to the oldest byte.
LEMMA ReadLooksInv ==
  ASSUME IInv, NEW r \in Readers, ReadLooks(r)
  PROVE  IInv'
<1> USE DEF IInv
<1>1. /\ s_mutex' = r /\ read_pos' = [read_pos EXCEPT ![r] = CaughtUp(r)]
      /\ n' = Smaller(Smaller(Avail(r), LOG_STREAM_BUF_BYTES), MaxRead)
      /\ UNCHANGED <<s_buf, s_write_pos, active, out, total>> /\ active[r]
  BY DEF ReadLooks
<1>2. /\ CaughtUp(r) \in Word
      /\ Minus(s_write_pos, CaughtUp(r)) = Smaller(Avail(r), LOG_STREAM_BUF_BYTES)
      /\ Avail(r) \in Word /\ Avail(r) <= total
  BY LookFinds
<1>3. /\ n' \in 0 .. LOG_STREAM_BUF_BYTES
      /\ n' <= Smaller(Avail(r), LOG_STREAM_BUF_BYTES)
      /\ Smaller(Avail(r), LOG_STREAM_BUF_BYTES) <= LOG_STREAM_BUF_BYTES
      /\ Smaller(Avail(r), LOG_STREAM_BUF_BYTES) <= total
  BY <1>1, <1>2, Sizes DEF Smaller, Word, TypeInv
<1>4. TypeInv' BY <1>1, <1>2, <1>3 DEF TypeInv
<1>5. OutOK' BY <1>1 DEF OutOK
<1>6. Avail(r)' = Smaller(Avail(r), LOG_STREAM_BUF_BYTES)
  BY <1>1, <1>2 DEF TypeInv, Avail
<1>7. Counting'
  <2>1. s_write_pos' <= total' BY <1>1 DEF Counting
  <2>2. ASSUME NEW q \in Readers, active'[q] PROVE Avail(q)' <= total'
    <3>1. CASE q = r BY <3>1, <1>1, <1>3, <1>6
    <3>2. CASE q # r BY <3>2, <2>2, <1>1 DEF TypeInv, Counting, Avail
    <3> QED BY <3>1, <3>2
  <2> QED BY <2>1, <2>2 DEF Counting
<1>8. Holding' BY <1>1, <1>3, <1>6 DEF Holding, None, Dumper, Readers
<1>9. WindowHeld' BY <1>1, WindowStays
<1> QED BY <1>4, <1>5, <1>7, <1>8, <1>9

\* A read that finds nothing only gives the mutex back.
LEMMA ReadNothingInv ==
  ASSUME IInv, NEW r \in Readers, ReadNothing(r)
  PROVE  IInv'
<1> USE DEF IInv
<1>1. s_mutex' = None /\ UNCHANGED <<s_buf, s_write_pos, active, read_pos, n, out, total>>
  BY DEF ReadNothing
<1>2. TypeInv' BY <1>1 DEF TypeInv
<1>3. OutOK' BY <1>1 DEF OutOK
<1>4. Counting' BY <1>1 DEF Counting, Avail
<1>5. Holding' BY <1>1 DEF Holding, None, Dumper, Readers
<1>6. WindowHeld' BY <1>1, WindowStays
<1> QED BY <1>2, <1>3, <1>4, <1>5, <1>6

\* A read takes what is there and moves its reader past it.
LEMMA ReadCopiesInv ==
  ASSUME IInv, NEW r \in Readers, ReadCopies(r)
  PROVE  IInv'
<1> USE DEF IInv
<1>1. /\ s_mutex = r /\ n > 0 /\ out' = Copied(read_pos[r])
      /\ read_pos' = [read_pos EXCEPT ![r] = Plus(read_pos[r], n)]
      /\ s_mutex' = None /\ n' = 0
      /\ UNCHANGED <<s_buf, s_write_pos, active, total>>
  BY DEF ReadCopies
<1>2. /\ s_write_pos \in Word /\ read_pos[r] \in Word /\ n \in Word
      /\ n \in 0 .. LOG_STREAM_BUF_BYTES
      /\ active[r] /\ n <= Avail(r) /\ Avail(r) <= total
  BY <1>1, Sizes DEF TypeInv, Holding, Counting, Word
<1>3. Plus(read_pos[r], n) \in Word /\ Minus(s_write_pos, Plus(read_pos[r], n)) = Avail(r) - n
  BY <1>2, Words, CatchesUp DEF Avail
<1>4. TypeInv'
  <2>1. 0 \in 0 .. LOG_STREAM_BUF_BYTES BY Sizes
  <2>2. read_pos' \in [Readers -> Word] BY <1>1, <1>3 DEF TypeInv
  <2>3. s_mutex' \in {None, Dumper} \cup Readers BY <1>1
  <2>4. n' \in 0 .. LOG_STREAM_BUF_BYTES BY <1>1, <2>1
  <2> QED BY <1>1, <2>2, <2>3, <2>4 DEF TypeInv
<1>5. OutOK'
  <2>1. 1 .. n \subseteq 1 .. LOG_STREAM_BUF_BYTES BY <1>2, Sizes
  <2>2. DOMAIN out' = 1 .. n BY <1>1 DEF Copied
  <2> QED BY <2>1, <2>2 DEF OutOK
<1>6. Counting'
  <2>1. s_write_pos' <= total' BY <1>1 DEF Counting
  <2>2. Avail(r) \in Nat
    <3>1. Avail(r) \in Word BY <1>2, Words DEF Avail
    <3> QED BY <3>1, Sizes DEF Word
  <2>3. ASSUME NEW q \in Readers, active'[q] PROVE Avail(q)' <= total'
    <3>1. CASE q = r
      <4>1. Avail(r)' = Avail(r) - n BY <1>1, <1>3 DEF TypeInv, Avail
      <4> QED BY <3>1, <4>1, <2>2, <1>1, <1>2 DEF TypeInv
    <3>2. CASE q # r BY <3>2, <2>3, <1>1 DEF TypeInv, Counting, Avail
    <3> QED BY <3>1, <3>2
  <2> QED BY <2>1, <2>3 DEF Counting
<1>7. Holding' BY <1>1 DEF Holding, None, Dumper, Readers
<1>8. WindowHeld' BY <1>1, WindowStays
<1> QED BY <1>4, <1>5, <1>6, <1>7, <1>8

\* A dump reads and changes nothing.
LEMMA DumpInv ==
  ASSUME IInv, DumpLooks \/ DumpCopies
  PROVE  IInv'
<1> USE DEF IInv
<1>1. UNCHANGED <<s_buf, s_write_pos, active, read_pos, total>>
  BY DEF DumpLooks, DumpCopies
<1>2. n' \in 0 .. LOG_STREAM_BUF_BYTES /\ s_mutex' \in {None, Dumper}
      /\ (s_mutex' = Dumper => n' <= s_write_pos)
  BY Sizes DEF DumpLooks, DumpCopies, Smaller, TypeInv, Word, None, Dumper
<1>3. TypeInv' BY <1>1, <1>2 DEF TypeInv
<1>4. OutOK'
  <2>1. CASE DumpLooks BY <2>1 DEF DumpLooks, OutOK
  <2>2. CASE DumpCopies
    <3>1. 1 .. n \subseteq 1 .. LOG_STREAM_BUF_BYTES BY Sizes DEF TypeInv
    <3>2. DOMAIN out' = 1 .. n BY <2>2 DEF DumpCopies, Copied
    <3> QED BY <3>1, <3>2 DEF OutOK
  <2> QED BY <2>1, <2>2
<1>5. Counting' BY <1>1 DEF Counting, Avail
<1>6. Holding' BY <1>1, <1>2 DEF Holding, None, Dumper, Readers
<1>7. WindowHeld' BY <1>1, WindowStays
<1> QED BY <1>3, <1>4, <1>5, <1>6, <1>7

\* Every step keeps the invariant.
LEMMA StepInv == IInv /\ [Next]_vars => IInv'
<1> SUFFICES ASSUME IInv, [Next]_vars PROVE IInv' OBVIOUS
<1>1. CASE UNCHANGED vars
  <2>1. UNCHANGED <<s_buf, s_write_pos, active, read_pos, s_mutex, n, out, total>>
    BY <1>1 DEF vars
  <2>2. TypeInv' BY <2>1 DEF IInv, TypeInv
  <2>3. OutOK' BY <2>1 DEF IInv, OutOK
  <2>4. Counting' BY <2>1 DEF IInv, Counting, Avail
  <2>5. Holding' BY <2>1 DEF IInv, Holding, Avail
  <2>6. WindowHeld' BY <2>1, WindowStays DEF IInv
  <2> QED BY <2>2, <2>3, <2>4, <2>5, <2>6 DEF IInv
<1>2. ASSUME NEW len \in 1 .. MaxLine, LogLine(len) PROVE IInv'
  BY <1>2, LogLineInv
<1>3. CASE LogLineDropped
  BY <1>3, <1>1 DEF LogLineDropped
<1>4. ASSUME NEW r \in Readers,
             \/ Subscribe(r) \/ Unsubscribe(r)
             \/ ReadLooks(r) \/ ReadNothing(r) \/ ReadCopies(r)
      PROVE  IInv'
  BY <1>4, SubscribeInv, UnsubscribeInv, ReadLooksInv, ReadNothingInv,
     ReadCopiesInv
<1>5. CASE DumpLooks \/ DumpCopies
  BY <1>5, DumpInv
<1> QED BY <1>1, <1>2, <1>3, <1>4, <1>5 DEF Next

\* In every reachable state the invariant holds.
LEMMA Invariant == Spec => []IInv
BY InitInv, StepInv, PTL DEF Spec

-------------------------------------------------------------------------------
(* The theorems.                                                             *)

\* Positions and counts keep their types, whatever the sizes.
THEOREM TypeCorrect == Spec => []TypeOK
<1>1. IInv => TypeOK BY DEF IInv, TypeInv, OutOK, TypeOK
<1> QED BY <1>1, Invariant, PTL

\* The buffer always holds the whole window, each byte in its cell, for any
\* buffer whose size divides the word's: also after the counter has wrapped.
THEOREM WindowAlwaysHeld == Spec => []WindowHeld
<1>1. IInv => WindowHeld BY DEF IInv
<1> QED BY <1>1, Invariant, PTL

\* What is copied from a position at most a window back is what was logged there.
LEMMA CopiesLog ==
  ASSUME IInv, NEW p \in Word, n <= Minus(s_write_pos, p),
         Minus(s_write_pos, p) <= LOG_STREAM_BUF_BYTES,
         Minus(s_write_pos, p) <= total
  PROVE  Copied(p) = [i \in 1 .. n |-> total - Minus(s_write_pos, p) + i - 1]
<1> DEFINE a == Minus(s_write_pos, p)
<1>1. /\ s_write_pos \in Word /\ a \in Word /\ a \in Nat /\ n \in Nat /\ total \in Nat
      /\ a <= LOG_STREAM_BUF_BYTES /\ a <= total /\ n <= a
  BY Words DEF IInv, TypeInv, Word
<1>2. SUFFICES ASSUME NEW i \in 1 .. n
               PROVE  s_buf[Cell(p, i - 1)] = total - a + i - 1
  BY DEF Copied
<1>3. /\ i - 1 \in 0 .. LOG_STREAM_BUF_BYTES /\ i - 1 \in Word /\ i - 1 <= a
      /\ a - (i - 1) \in 1 .. Smaller(total, LOG_STREAM_BUF_BYTES)
      /\ a - (i - 1) \in Word
  BY <1>1, <1>2, Sizes DEF Smaller, Word
<1>4. Plus(p, i - 1) = Minus(s_write_pos, a - (i - 1))
  BY <1>1, <1>3, CatchesUp
<1>5. Cell(p, i - 1) = Cell(Minus(s_write_pos, a - (i - 1)), 0)
  <2>1. Plus(p, i - 1) \in Word BY <1>3, Words
  <2>2. \A w \in Word : Plus(w, 0) = w BY Sizes DEF Plus, Word
  <2>3. Plus(Plus(p, i - 1), 0) = Plus(p, i - 1) BY <2>1, <2>2
  <2> QED BY <1>4, <2>3 DEF Cell
<1>6. s_buf[Cell(p, i - 1)] = total - (a - (i - 1))
  BY <1>3, <1>5 DEF IInv, WindowHeld
<1> HIDE DEF a
<1> QED BY <1>1, <1>3, <1>6

\* No read and no snapshot ever returns a stale, overwritten or misplaced byte.
THEOREM ReadsReturnLog == Spec => ReadsAreLog
<1>1. ASSUME IInv, [Next]_vars
      PROVE  [/\ \A r \in Readers :
                   ReadCopies(r) => out' = [i \in 1 .. n |-> TailPos(r) + i - 1]
              /\ DumpCopies => out' = [i \in 1 .. n |-> total - n + i - 1]]_vars
  <2>1. ASSUME NEW r \in Readers, ReadCopies(r)
        PROVE  out' = [i \in 1 .. n |-> TailPos(r) + i - 1]
    <3>1. s_mutex = r /\ out' = Copied(read_pos[r]) BY <2>1 DEF ReadCopies
    <3>2. /\ read_pos[r] \in Word /\ n <= Avail(r)
          /\ Avail(r) <= LOG_STREAM_BUF_BYTES /\ Avail(r) <= total
      BY <1>1, <3>1 DEF IInv, TypeInv, Holding, Counting
    <3> QED BY <1>1, <3>1, <3>2, CopiesLog DEF Avail, TailPos
  <2>2. ASSUME DumpCopies
        PROVE  out' = [i \in 1 .. n |-> total - n + i - 1]
    <3>1. out' = Copied(Minus(s_write_pos, n)) /\ n <= s_write_pos
      BY <1>1, <2>2 DEF DumpCopies, IInv, Holding
    <3>2. /\ s_write_pos \in Word /\ n \in Word /\ n <= LOG_STREAM_BUF_BYTES
          /\ s_write_pos <= total
      BY <1>1, Sizes DEF IInv, TypeInv, Counting, Word
    <3>3. /\ Minus(s_write_pos, n) \in Word
          /\ Minus(s_write_pos, Minus(s_write_pos, n)) = n
      BY <3>1, <3>2, Sizes DEF Minus, Word
    <3>4. n <= n /\ n <= total BY <3>1, <3>2, <1>1 DEF Word, IInv, TypeInv
    <3> QED BY <1>1, <3>1, <3>2, <3>3, <3>4, CopiesLog
  <2> QED BY <2>1, <2>2
<1> QED BY <1>1, Invariant, PTL DEF Spec, ReadsAreLog

-------------------------------------------------------------------------------
(* LogStream implements LogTail.                                             *)

\* Where the readers are, in the terms of LogTail.
Pos(r) == IF active[r] THEN TailPos(r) ELSE -1

\* A step that changes neither what LogTail sees of a reader nor the total.
LEMMA Stutters ==
  ASSUME \A r \in Readers : Pos(r)' = Pos(r), total' = total
  PROVE  UNCHANGED <<total, [r \in Readers |-> Pos(r)]>>
OBVIOUS

\* Initially nobody reads.
LEMMA InitMaps == Init => Log!TailInit
BY DEF Init, Log!TailInit, Log!NoPos

\* Every step is a step of LogTail or none at all.
LEMMA StepMaps ==
  ASSUME IInv, [Next]_vars
  PROVE  Log!TailNext \/ UNCHANGED <<total, [r \in Readers |-> Pos(r)]>>
<1> USE DEF IInv
<1> DEFINE next == [r \in Readers |-> Pos(r)]
<1>1. CASE UNCHANGED vars
  <2>1. \A r \in Readers : Pos(r)' = Pos(r)
    BY <1>1 DEF vars, Pos, TailPos, Avail
  <2> QED BY <1>1, <2>1, Stutters DEF vars
<1>2. ASSUME NEW len \in 1 .. MaxLine, LogLine(len) PROVE Log!TailNext
  <2>1. /\ total' = total + len /\ s_write_pos' = Plus(s_write_pos, len)
        /\ UNCHANGED <<active, read_pos>> /\ NobodyAWordBehind(len)
    BY <1>2 DEF LogLine
  <2>2. len \in 0 .. LOG_STREAM_BUF_BYTES /\ len >= 1 BY Sizes
  <2>3. ASSUME NEW r \in Readers PROVE Pos(r)' = Pos(r)
    <3>1. CASE active[r]
      <4>1. /\ read_pos[r] \in Word /\ s_write_pos \in Word
            /\ Minus(s_write_pos, read_pos[r]) + len < WordSize
        BY <2>1, <3>1 DEF TypeInv, NobodyAWordBehind, Avail
      <4>2. Avail(r)' = Avail(r) + len
        BY <4>1, <2>1, <2>2, FallsBehind DEF Avail
      <4>3. Avail(r) \in Nat /\ total \in Nat
        <5>1. Avail(r) \in Word BY <4>1, Words DEF Avail
        <5> QED BY <5>1, Sizes DEF Word, TypeInv
      <4> QED BY <3>1, <4>2, <4>3, <2>1, <2>2 DEF Pos, TailPos
    <3>2. CASE ~active[r]
      BY <3>2, <2>1 DEF Pos
    <3> QED BY <3>1, <3>2
  <2>4. total' \in Nat /\ total' > total BY <2>1, <2>2 DEF TypeInv
  <2>5. Log!Append BY <2>3, <2>4 DEF Log!Append, Pos
  <2> QED BY <2>5 DEF Log!TailNext
<1>3. CASE LogLineDropped
  BY <1>3, <1>1 DEF LogLineDropped
<1>4. ASSUME NEW r \in Readers, Subscribe(r) PROVE Log!TailNext
  <2> DEFINE p == IF s_write_pos > LOG_STREAM_BUF_BYTES
                  THEN s_write_pos - LOG_STREAM_BUF_BYTES ELSE 0
             t == total - Minus(s_write_pos, p)
  <2>1. /\ active' = [active EXCEPT ![r] = TRUE]
        /\ read_pos' = [read_pos EXCEPT ![r] = p] /\ ~active[r]
        /\ UNCHANGED <<s_write_pos, total>>
    BY <1>4 DEF Subscribe
  <2>2. t \in Log!Oldest .. total
    BY Sizes DEF TypeInv, Counting, Word, Minus, Log!Oldest
  <2> HIDE DEF p
  <2>3. Pos(r) = -1 /\ Pos(r)' = t
    BY <2>1 DEF TypeInv, Pos, TailPos, Avail
  <2>4. \A q \in Readers : q # r => Pos(q)' = Pos(q)
    BY <2>1 DEF TypeInv, Pos, TailPos, Avail
  <2> HIDE DEF t
  <2>5. next' = [next EXCEPT ![r] = t]
    BY <2>3, <2>4
  <2>6. Log!Subscribe(r)
    BY <2>1, <2>2, <2>3, <2>5 DEF Log!Subscribe, Log!NoPos, Pos
  <2> QED BY <2>6 DEF Log!TailNext
<1>5. ASSUME NEW r \in Readers, Unsubscribe(r) PROVE Log!TailNext
  <2>1. /\ active' = [active EXCEPT ![r] = FALSE]
        /\ UNCHANGED <<s_write_pos, read_pos, total>>
    BY <1>5 DEF Unsubscribe
  <2>2. Pos(r)' = -1 /\ \A q \in Readers : q # r => Pos(q)' = Pos(q)
    BY <2>1 DEF TypeInv, Pos, TailPos, Avail
  <2>3. next' = [next EXCEPT ![r] = -1]
    BY <2>2
  <2>4. Log!Unsubscribe(r)
    BY <2>1, <2>3 DEF Log!Unsubscribe, Log!NoPos, Pos
  <2> QED BY <2>4 DEF Log!TailNext
<1>6. ASSUME NEW r \in Readers, ReadLooks(r)
      PROVE  Log!TailNext \/ UNCHANGED <<total, next>>
  <2>1. /\ read_pos' = [read_pos EXCEPT ![r] = CaughtUp(r)] /\ active[r]
        /\ UNCHANGED <<s_write_pos, active, total>>
    BY <1>6 DEF ReadLooks
  <2>2. /\ Minus(s_write_pos, CaughtUp(r)) = Smaller(Avail(r), LOG_STREAM_BUF_BYTES)
        /\ Avail(r) \in Word /\ Avail(r) <= total
    BY <1>6, LookFinds
  <2>3. Pos(r) = total - Avail(r)
        /\ Pos(r)' = total - Smaller(Avail(r), LOG_STREAM_BUF_BYTES)
    BY <2>1, <2>2 DEF TypeInv, Pos, TailPos, Avail
  <2>4. \A q \in Readers : q # r => Pos(q)' = Pos(q)
    BY <2>1 DEF TypeInv, Pos, TailPos, Avail
  <2>5. CASE Avail(r) > LOG_STREAM_BUF_BYTES
    <3>1. /\ Pos(r) < Log!Oldest /\ Pos(r)' = Log!Oldest /\ Pos(r) # -1
      BY <2>2, <2>3, <2>5, Sizes DEF TypeInv, Smaller, Word, Log!Oldest
    <3>2. next' = [next EXCEPT ![r] = Log!Oldest]
      BY <2>4, <3>1
    <3>3. Log!Skip(r)
      BY <2>1, <3>1, <3>2 DEF Log!Skip, Log!NoPos, Pos
    <3> QED BY <3>3 DEF Log!TailNext
  <2>6. CASE ~(Avail(r) > LOG_STREAM_BUF_BYTES)
    <3>1. Pos(r)' = Pos(r)
      BY <2>2, <2>3, <2>6, Sizes DEF Smaller, Word
    <3> QED BY <2>1, <2>4, <3>1, Stutters
  <2> QED BY <2>5, <2>6
<1>7. ASSUME NEW r \in Readers, ReadNothing(r)
      PROVE  UNCHANGED <<total, next>>
  <2>1. UNCHANGED <<s_write_pos, active, read_pos, total>>
    BY <1>7 DEF ReadNothing
  <2> QED BY <2>1, Stutters DEF Pos, TailPos, Avail
<1>8. ASSUME NEW r \in Readers, ReadCopies(r) PROVE Log!TailNext
  <2>1. /\ s_mutex = r /\ n > 0
        /\ read_pos' = [read_pos EXCEPT ![r] = Plus(read_pos[r], n)]
        /\ UNCHANGED <<s_write_pos, active, total>>
    BY <1>8 DEF ReadCopies
  <2>2. /\ s_write_pos \in Word /\ read_pos[r] \in Word
        /\ n \in 0 .. LOG_STREAM_BUF_BYTES /\ n \in 1 .. LOG_STREAM_BUF_BYTES
        /\ active[r] /\ n <= Avail(r) /\ Avail(r) <= total
        /\ Avail(r) <= LOG_STREAM_BUF_BYTES /\ total \in Nat
    BY <2>1, Sizes DEF TypeInv, Holding, Counting
  <2>3. Avail(r) \in Nat
    <3>1. Avail(r) \in Word BY <2>2, Words DEF Avail
    <3> QED BY <3>1, Sizes DEF Word
  <2>4. Avail(r)' = Avail(r) - n
    BY <2>1, <2>2, CatchesUp DEF TypeInv, Avail
  <2>5. /\ Pos(r) = total - Avail(r) /\ Pos(r)' = Pos(r) + n
        /\ Pos(r) # -1 /\ Pos(r) >= Log!Oldest /\ Pos(r) + n <= total
    BY <2>1, <2>2, <2>3, <2>4, Sizes DEF Pos, TailPos, Log!Oldest
  <2>6. \A q \in Readers : q # r => Pos(q)' = Pos(q)
    BY <2>1 DEF TypeInv, Pos, TailPos, Avail
  <2>7. /\ next[r] = Pos(r)
        /\ next' = [next EXCEPT ![r] = next[r] + n]
    BY <2>5, <2>6
  <2>8. PICK m \in 1 .. LOG_STREAM_BUF_BYTES : m = n
    BY <2>2
  <2>9. Log!Deliver(r, m)
    <3>1. /\ next[r] # -1 /\ next[r] >= Log!Oldest /\ next[r] + m <= total
          /\ next' = [next EXCEPT ![r] = next[r] + m]
      BY <2>5, <2>7, <2>8
    <3> QED BY <2>1, <3>1 DEF Log!Deliver, Log!NoPos, Pos
  <2> QED BY <2>9 DEF Log!TailNext
<1>9. CASE DumpLooks \/ DumpCopies
  <2>1. UNCHANGED <<s_write_pos, active, read_pos, total>>
    BY <1>9 DEF DumpLooks, DumpCopies
  <2> QED BY <2>1, Stutters DEF Pos, TailPos, Avail
<1> QED
  BY <1>1, <1>2, <1>3, <1>4, <1>5, <1>6, <1>7, <1>8, <1>9 DEF Next

\* The ring buffer, its wrapping counter and its locking give each reader what
\* LogTail promises, for any sizes.
THEOREM ImplementsTail == Spec => LogSpec
<1>1. IInv /\ [Next]_vars => [Log!TailNext]_<<total, [r \in Readers |-> Pos(r)]>>
  BY StepMaps
<1>2. IInv /\ [Next]_vars
        => [Log!TailNext]_<<total, [r \in Readers |-> IF active[r] THEN TailPos(r) ELSE -1]>>
  BY <1>1 DEF Pos
<1> QED BY <1>2, InitMaps, Invariant, PTL DEF Spec, LogSpec, Log!TailSpec

-------------------------------------------------------------------------------
(* The power monitors and the ring of what they report.                      *)

\* An atomic that somebody was told to believe holds a report: its writer stores the value
\* before it says so, and reports replace values by values.
Told ==
  /\ mpptPresent \/ mppt # "read" => percent \in Percents
  /\ battPresent \/ batt # "poll" => voltage \in Voltages
  /\ mppt = "charging" => report \in Reports

\* The same of who was told, until it has loaded the value, and of what it loaded.
Believed ==
  /\ hist = "percent" => percent \in Percents
  /\ hist = "voltage" => voltage \in Voltages
  /\ web = "voltage" /\ seen => voltage \in Voltages
  /\ web = "percent" /\ seen => percent \in Percents

\* The ring, sample by sample: its oldest is the log's first.
RingHoldsLog ==
  /\ Len(log) = count
  /\ count < MaxSamples => head = count
  /\ \A i \in 1 .. count : log[i] = buf[(Oldest + (i - 1)) % MaxSamples]

\* Samples are recorded in the order of their times, by one task that takes the time first.
LogInOrder ==
  /\ \A i, j \in 1 .. Len(log) : i <= j => log[i] <= log[j]
  /\ \A i \in 1 .. Len(log) : log[i] <= uptime /\ (hist = "record" => log[i] <= stamp)
  /\ hist = "record" => stamp <= uptime

PowerInv ==
  PowerTypeOK /\ Told /\ Believed /\ ReadingsAreReports
    /\ RingHoldsLog /\ LogInOrder /\ OldestFirst

\* The types, in parts: the monitors', the history task's and the settings', the web
\* task's and the ring's.
MonitorTypes ==
  /\ mppt \in {"read", "charging", "present"} /\ report \in Reports \cup {<<>>}
  /\ mpptPresent \in BOOLEAN /\ percent \in {0} \cup Percents /\ charging \in BOOLEAN
  /\ batt \in {"poll", "present"} /\ mv \in {0} \cup Voltages
  /\ battPresent \in BOOLEAN /\ voltage \in {0} \cup Voltages

TaskTypes ==
  /\ main \in {"battery", "mppt", "history", "web", "up"} /\ uptime \in 0 .. MaxUptime
  /\ low \in Levels /\ full \in Levels
  /\ hist \in {"look", "percent", "charging", "battery", "voltage", "span", "estimate",
               "now", "record"}
  /\ pct \in Int /\ span \in Int /\ stamp \in 0 .. MaxUptime

WebTypes ==
  /\ web \in {"idle", "voltage", "power", "solar", "percent", "told", "copy", "points"}
  /\ seen \in BOOLEAN /\ val \in Nat /\ points \in Seq(Nat)

RingTypes ==
  /\ buf \in [Slots -> 0 .. MaxUptime] /\ head \in Slots /\ count \in 0 .. MaxSamples
  /\ log \in Seq(0 .. MaxUptime) /\ Len(log) <= MaxSamples

Readings ==
  /\ MonitorTypes /\ TaskTypes /\ WebTypes
  /\ Told /\ Believed /\ ReadingsAreReports

Graph == RingTypes /\ RingHoldsLog /\ LogInOrder /\ OldestFirst

LEMMA PowerParts == PowerInv <=> Readings /\ Graph
  BY DEF PowerInv, PowerTypeOK, MonitorTypes, TaskTypes, WebTypes, RingTypes, Readings, Graph

\* What the constants may be, as the provers take it best.
LEMMA ReportFacts ==
  /\ \A r \in Reports : r.pct \in Percents /\ r.charging \in BOOLEAN
  /\ \A p \in Percents : p \in 0 .. 100 /\ p \in Nat
  /\ \A v \in Voltages : v \in Nat
  /\ \A l \in Levels : l \in Nat
  BY ReportsAssumption DEF Percents

\* A percentage, whatever the levels.
LEMMA ChargeRange ==
  ASSUME NEW v \in Int, NEW lo \in Int, NEW s \in Int
  PROVE  Charge(v, lo, s) \in 0 .. 100
  <1> DEFINE p == ((v - lo) * 100) \div s
  <1>1. s > 0 => p \in Int
    BY (v - lo) * 100 \in Int
  <1> HIDE DEF p
  <1>2. s > 0 => (IF s <= 0 \/ p < 0 THEN 0 ELSE IF p > 100 THEN 100 ELSE p) \in 0 .. 100
    BY <1>1
  <1>3. s <= 0 => (IF s <= 0 \/ p < 0 THEN 0 ELSE IF p > 100 THEN 100 ELSE p) \in 0 .. 100
    OBVIOUS
  <1>4. Charge(v, lo, s) = IF s <= 0 \/ p < 0 THEN 0 ELSE IF p > 100 THEN 100 ELSE p
    BY DEF Charge, p
  <1>5. QED
    BY <1>2, <1>3, <1>4

\* A monitor replaces a report by a report, so who was told of one still finds one.
LEMMA MonitorsReadings == Readings /\ Monitors => Readings'
  <1> SUFFICES ASSUME Readings, Monitors PROVE Readings'
    OBVIOUS
  <1>1. MonitorTypes /\ TaskTypes /\ WebTypes /\ Told /\ Believed /\ ReadingsAreReports
    BY DEF Readings
  <1>2. UNCHANGED <<main, uptime, low, full, hist, pct, span, stamp, web, seen, val, points>>
    BY DEF Monitors, Report, ReportCharging, ReportPresent, Polled, PollPresent, PollFails,
           confVars, histVars, webVars
  <1>3. TaskTypes' /\ WebTypes'
    BY <1>1, <1>2 DEF TaskTypes, WebTypes
  <1>4. MonitorTypes' /\ Told' /\ (percent \in Percents => percent' \in Percents)
          /\ (voltage \in Voltages => voltage' \in Voltages)
    <2>1. ASSUME NEW r \in Reports, Report(r)
          PROVE  MonitorTypes' /\ Told' /\ percent' \in Percents /\ voltage' = voltage
      <3>1. percent' \in Percents
        BY <2>1, ReportFacts DEF Report
      <3>2. UNCHANGED <<mpptPresent, charging, batt, mv, battPresent, voltage>>
            /\ mppt' = "charging" /\ report' = r
        BY <2>1 DEF Report, battVars
      <3>3. QED
        BY <3>1, <3>2, <1>1 DEF MonitorTypes, Told
    <2>2. CASE ReportCharging
      <3>1. report.charging \in BOOLEAN /\ percent \in Percents
        BY <1>1, <2>2, ReportFacts DEF ReportCharging, Told
      <3>2. /\ charging' \in BOOLEAN /\ mppt' = "present"
            /\ UNCHANGED <<report, mpptPresent, percent, batt, mv, battPresent, voltage>>
        BY <2>2, <3>1 DEF ReportCharging, battVars
      <3>3. QED
        BY <3>1, <3>2, <1>1 DEF MonitorTypes, Told
    <2>3. CASE ReportPresent
      <3>1. percent \in Percents
        BY <1>1, <2>3 DEF ReportPresent, Told
      <3>2. /\ mpptPresent' \in BOOLEAN /\ mppt' = "read" /\ report' = <<>>
            /\ UNCHANGED <<percent, charging, batt, mv, battPresent, voltage>>
        BY <2>3 DEF ReportPresent, battVars
      <3>3. QED
        BY <3>1, <3>2, <1>1 DEF MonitorTypes, Told
    <2>4. ASSUME NEW v \in Voltages, Polled(v)
          PROVE  MonitorTypes' /\ Told' /\ voltage' \in Voltages /\ percent' = percent
      <3>1. /\ voltage' = v /\ mv' = v /\ batt' = "present"
            /\ UNCHANGED <<mppt, report, mpptPresent, percent, charging, battPresent>>
        BY <2>4 DEF Polled, mpptVars
      <3>2. QED
        BY <3>1, <1>1 DEF MonitorTypes, Told
    <2>5. CASE PollPresent \/ PollFails
      <3>1. /\ batt' \in {"poll", "present"} /\ mv' \in {0, mv} /\ battPresent' \in BOOLEAN
            /\ UNCHANGED <<mppt, report, mpptPresent, percent, charging, voltage>>
            /\ battPresent' \/ batt' # "poll" => battPresent \/ batt # "poll"
        BY <1>1, <2>5 DEF PollPresent, PollFails, mpptVars, MonitorTypes
      <3>2. QED
        BY <3>1, <1>1 DEF MonitorTypes, Told
    <2>6. QED
      BY <2>1, <2>2, <2>3, <2>4, <2>5 DEF Monitors, ReportCharging, ReportPresent,
             PollPresent, PollFails, mpptVars, battVars
  <1>5. Believed' /\ ReadingsAreReports'
    BY <1>1, <1>2, <1>4 DEF Believed, ReadingsAreReports
  <1>6. QED
    BY <1>3, <1>4, <1>5 DEF Readings

\* The history task loads a value after the flag that vouches for it.
LEMMA HistoryReadings == Readings /\ History => Readings'
  <1> SUFFICES ASSUME Readings, History PROVE Readings'
    OBVIOUS
  <1>1. MonitorTypes /\ TaskTypes /\ WebTypes /\ Told /\ Believed /\ ReadingsAreReports
    BY DEF Readings
  <1>2. UNCHANGED <<main, uptime, mppt, report, mpptPresent, percent, charging, batt, mv,
                    battPresent, voltage, low, full, web, seen, val, points>>
    BY DEF History, LookMppt, LoadPercent, LoadCharging, LookBattery, LoadVoltage, ReadSpan,
           Estimate, RecordStamp, Record, mpptVars, battVars, confVars, webVars
  <1>3. MonitorTypes' /\ WebTypes' /\ Told'
    BY <1>1, <1>2 DEF MonitorTypes, WebTypes, Told
  <1>4. /\ hist' \in {"look", "percent", "charging", "battery", "voltage", "span", "estimate",
                      "now", "record"}
        /\ pct' \in Int /\ span' \in Int /\ stamp' \in 0 .. MaxUptime
        /\ hist' = "percent" => percent \in Percents
        /\ hist' = "voltage" => voltage \in Voltages
        /\ hist' = "charging" => pct' \in Percents
        /\ hist' = "span" => pct' \in Voltages
        /\ hist' \in {"now", "record"} => pct' \in 0 .. 100
    <2>1. CASE LookMppt
      BY <1>1, <2>1 DEF LookMppt, TaskTypes, Told
    <2>2. CASE LoadPercent
      BY <1>1, <2>2, ReportFacts DEF LoadPercent, TaskTypes, Believed
    <2>3. CASE LoadCharging
      BY <1>1, <2>3, ReportFacts DEF LoadCharging, TaskTypes, ReadingsAreReports
    <2>4. CASE LookBattery
      BY <1>1, <2>4 DEF LookBattery, TaskTypes, Told
    <2>5. CASE LoadVoltage
      BY <1>1, <2>5, ReportFacts DEF LoadVoltage, TaskTypes, Believed
    <2>6. CASE ReadSpan
      BY <1>1, <2>6, ReportFacts DEF ReadSpan, TaskTypes
    <2>7. CASE Estimate
      <3>1. low \in Int /\ pct \in Int /\ span \in Int
        BY <1>1, ReportFacts DEF TaskTypes
      <3>2. pct' \in 0 .. 100
        BY <2>7, <3>1, ChargeRange DEF Estimate
      <3>3. QED
        BY <1>1, <2>7, <3>2 DEF Estimate, TaskTypes
    <2>8. CASE RecordStamp
      BY <1>1, <2>8 DEF RecordStamp, TaskTypes, ReadingsAreReports
    <2>9. CASE Record
      <3>1. 0 \in 0 .. MaxUptime
        BY SizesAssumption
      <3>2. QED
        BY <1>1, <2>9, <3>1 DEF Record, TaskTypes
    <2>10. QED
      BY <2>1, <2>2, <2>3, <2>4, <2>5, <2>6, <2>7, <2>8, <2>9 DEF History
  <1>5. TaskTypes'
    BY <1>1, <1>2, <1>4 DEF TaskTypes
  <1>6. Believed' /\ ReadingsAreReports'
    BY <1>1, <1>2, <1>4 DEF Believed, ReadingsAreReports
  <1>7. QED
    BY <1>3, <1>5, <1>6 DEF Readings

-------------------------------------------------------------------------------
(* The ring.                                                                 *)

\* The sizes, as the provers take them best.
LEMMA RingSizes ==
  MaxSamples \in Nat \ {0} /\ MaxUptime \in Nat /\ 0 \in Slots
  BY SizesAssumption DEF Slots

\* Once around the ring at most.
LEMMA OnceAround ==
  ASSUME NEW x \in 0 .. 2 * MaxSamples - 1
  PROVE  /\ x < MaxSamples => x % MaxSamples = x
         /\ x >= MaxSamples => x % MaxSamples = x - MaxSamples
         /\ x % MaxSamples \in Slots
  <1>1. MaxSamples \in Nat \ {0}
    BY RingSizes
  <1>2. CASE x < MaxSamples
    <2>1. x = MaxSamples * 0 + x /\ x \in 0 .. MaxSamples - 1 /\ 0 \in Int
      BY <1>1, <1>2
    <2>2. x % MaxSamples = x
      BY <1>1, <2>1, Unique
    <2>3. QED
      BY <1>1, <1>2, <2>1, <2>2 DEF Slots
  <1>3. CASE x >= MaxSamples
    <2>1. x = MaxSamples * 1 + (x - MaxSamples) /\ x - MaxSamples \in 0 .. MaxSamples - 1
      BY <1>1, <1>3
    <2>2. (MaxSamples * 1 + (x - MaxSamples)) % MaxSamples = x - MaxSamples
      BY <1>1, <2>1, Unique
    <2>3. x % MaxSamples = x - MaxSamples
      BY <2>1, <2>2
    <2>4. ~(x < MaxSamples)
      BY <1>1, <1>3
    <2>5. QED
      BY <2>1, <2>3, <2>4 DEF Slots
  <1>4. QED
    BY <1>1, <1>2, <1>3

\* What a copy returns: the log's last samples.
LEMMA LatestIsLog ==
  ASSUME RingTypes, RingHoldsLog, NEW max \in 1 .. MaxSamples
  PROVE  /\ Latest(max) = LastOf(log, max)
         /\ Latest(max) \in Seq(0 .. MaxUptime)
  <1> DEFINE few == IF count > max THEN max ELSE count
             start == (Oldest + (count - few)) % MaxSamples
             copy == [i \in 1 .. few |-> buf[(start + i - 1) % MaxSamples]]
  <1>1. /\ MaxSamples \in Nat \ {0} /\ MaxUptime \in Nat /\ count \in 0 .. MaxSamples
        /\ head \in 0 .. MaxSamples - 1 /\ Len(log) = count /\ log \in Seq(0 .. MaxUptime)
        /\ buf \in [Slots -> 0 .. MaxUptime] /\ count \in Nat /\ max \in Nat
    BY RingSizes DEF RingTypes, RingHoldsLog, Slots
  <1>2. few \in 0 .. count /\ few \in Nat /\ few <= max
    BY <1>1
  <1>3. Oldest \in 0 .. MaxSamples - 1
    BY <1>1 DEF Oldest
  <1>4. Latest(max) = copy
    BY DEF Latest
  <1>5. LastOf(log, max) = SubSeq(log, count - few + 1, count)
    <2>1. (IF count > max THEN count - max + 1 ELSE 1) = count - few + 1
      BY <1>1
    <2>2. QED
      BY <1>1, <2>1 DEF LastOf
  <1> HIDE DEF few
  <1>6. ASSUME NEW i \in 1 .. few
        PROVE  /\ (start + i - 1) % MaxSamples = (Oldest + ((count - few + i) - 1)) % MaxSamples
               /\ (start + i - 1) % MaxSamples \in Slots
               /\ count - few + i \in 1 .. count
    <2> DEFINE x == Oldest + (count - few)
    <2>0. /\ count \in Int /\ few \in Int /\ Oldest \in Int /\ i \in Int
          /\ i >= 1 /\ i <= few /\ few <= count
      BY <1>1, <1>2, <1>3
    <2>1. /\ x \in Int /\ i - 1 \in Int /\ count - few + i \in 1 .. count
          /\ x + (i - 1) = Oldest + ((count - few + i) - 1)
      BY <2>0
    <2>2. start = x % MaxSamples
      OBVIOUS
    <2> HIDE DEF x, start
    <2>3. start \in Int /\ start + i - 1 = start + (i - 1)
      BY <1>1, <2>1, <2>2, DivMod
    <2>4. ((x % MaxSamples) + (i - 1)) % MaxSamples = (x + (i - 1)) % MaxSamples
      BY <1>1, <2>1, ModAdd
    <2>5. (x + (i - 1)) % MaxSamples \in 0 .. MaxSamples - 1
      <3>1. x + (i - 1) \in Int
        BY <2>1
      <3>2. QED
        BY <1>1, <3>1, DivMod
    <2>6. QED
      BY <2>1, <2>2, <2>3, <2>4, <2>5 DEF Slots
  <1> HIDE DEF start
  <1>8. \A i \in 1 .. few :
          /\ (start + i - 1) % MaxSamples = (Oldest + ((count - few + i) - 1)) % MaxSamples
          /\ (start + i - 1) % MaxSamples \in Slots
          /\ count - few + i \in 1 .. count
    BY <1>6
  <1>9. ASSUME NEW i \in 1 .. few
        PROVE  copy[i] = log[count - few + i] /\ copy[i] \in 0 .. MaxUptime
    <2>1. copy[i] = buf[(start + i - 1) % MaxSamples]
      OBVIOUS
    <2>2. log[count - few + i] = buf[(Oldest + ((count - few + i) - 1)) % MaxSamples]
      BY <1>8 DEF RingHoldsLog
    <2>3. QED
      BY <1>1, <1>8, <2>1, <2>2
  <1>10. copy \in Seq(0 .. MaxUptime) /\ Len(copy) = few
    <2>1. few \in Nat /\ \A i \in 1 .. few : copy[i] \in 0 .. MaxUptime
      BY <1>2, <1>9
    <2>2. copy \in [1 .. few -> 0 .. MaxUptime]
      BY <2>1
    <2>3. QED
      BY <2>1, <2>2
  <1> HIDE DEF copy
  <1>11. /\ SubSeq(log, count - few + 1, count) \in Seq(0 .. MaxUptime)
         /\ Len(SubSeq(log, count - few + 1, count)) = few
         /\ \A i \in 1 .. few : SubSeq(log, count - few + 1, count)[i] = log[count - few + i]
    <2> DEFINE lo == count - few + 1
    <2>1. lo \in Int /\ lo >= 1 /\ count - lo + 1 = few /\ (lo <= count \/ few = 0)
      BY <1>1, <1>2
    <2>2. \A i \in 1 .. few : lo + i - 1 = count - few + i
      BY <1>1, <1>2
    <2> HIDE DEF lo
    <2>3. \A k \in lo .. count : log[k] \in 0 .. MaxUptime
      BY <1>1, <2>1
    <2>4. /\ SubSeq(log, lo, count) \in Seq(0 .. MaxUptime)
          /\ Len(SubSeq(log, lo, count)) = IF lo <= count THEN count - lo + 1 ELSE 0
          /\ \A i \in 1 .. count - lo + 1 : SubSeq(log, lo, count)[i] = log[lo + i - 1]
      BY <1>1, <2>1, <2>3, SubSeqProperties
    <2>5. Len(SubSeq(log, lo, count)) = few
      BY <1>1, <1>2, <2>1, <2>4
    <2>6. QED
      BY <2>1, <2>2, <2>4, <2>5 DEF lo
  <1>12. copy = SubSeq(log, count - few + 1, count)
    BY <1>9, <1>10, <1>11, SeqEqual
  <1>13. QED
    BY <1>4, <1>5, <1>10, <1>12

\* The points of the graph are ages.
LEMMA CopyIsNat ==
  ASSUME RingTypes, RingHoldsLog, val \in Nat, HistoryCopied
  PROVE  /\ points' \in Seq(Nat) /\ Len(points') = Len(Latest(MaxSamples))
         /\ \A i \in 1 .. Len(points') : points'[i] = Age(val, Latest(MaxSamples)[i])
  <1> DEFINE latest == Latest(MaxSamples)
  <1>1. MaxSamples \in 1 .. MaxSamples
    BY RingSizes
  <1>2. latest \in Seq(0 .. MaxUptime)
    BY <1>1, LatestIsLog
  <1> HIDE DEF latest
  <1>3. points' = [i \in DOMAIN latest |-> Age(val, latest[i])]
    BY DEF HistoryCopied, latest
  <1>4. Len(latest) \in Nat /\ DOMAIN latest = 1 .. Len(latest)
    BY <1>2
  <1>5. \A i \in 1 .. Len(latest) : Age(val, latest[i]) \in Nat
    BY <1>2, <1>4, RingSizes DEF Age
  <1>6. QED
    BY <1>3, <1>4, <1>5 DEF latest

\* So does the web task.
LEMMA WebReadings == Readings /\ Graph /\ Web => Readings'
  <1> SUFFICES ASSUME Readings, Graph, Web PROVE Readings'
    OBVIOUS
  <1>1. MonitorTypes /\ TaskTypes /\ WebTypes /\ Told /\ Believed /\ ReadingsAreReports
    BY DEF Readings
  <1>2. /\ UNCHANGED <<main, uptime, mppt, report, mpptPresent, percent, charging, batt, mv,
                       battPresent, voltage, hist, pct, span, stamp>>
        /\ low' \in Levels /\ full' \in Levels
    BY <1>1 DEF Web, SaveLow, SaveFull, StatusBattery, StatusVoltage, StatusMppt,
           StatusPercent, StatusTold, HistoryAsked, HistoryCopied, HistoryTold,
           mpptVars, battVars, confVars, histVars, TaskTypes
  <1>3. MonitorTypes' /\ TaskTypes' /\ Told'
    BY <1>1, <1>2 DEF MonitorTypes, TaskTypes, Told
  <1>4. /\ web' \in {"idle", "voltage", "power", "solar", "percent", "told", "copy", "points"}
        /\ seen' \in BOOLEAN /\ val' \in Nat /\ points' \in Seq(Nat)
        /\ web' = "voltage" /\ seen' => voltage \in Voltages
        /\ web' = "percent" /\ seen' => percent \in Percents
        /\ web' = "power" /\ seen' => val' \in Voltages
        /\ web' = "told" /\ seen' => val' \in Percents
    <2>1. ASSUME NEW level \in Levels, SaveLow(level) \/ SaveFull(level)
          PROVE  UNCHANGED <<web, seen, val, points>>
      BY <2>1 DEF SaveLow, SaveFull, webVars
    <2>2. CASE UNCHANGED <<web, seen, val, points>>
      BY <1>1, <2>2 DEF WebTypes, Believed, ReadingsAreReports
    <2>3. CASE StatusBattery
      BY <1>1, <2>3 DEF StatusBattery, MonitorTypes, WebTypes, Told
    <2>4. CASE StatusVoltage
      BY <1>1, <2>4, ReportFacts DEF StatusVoltage, MonitorTypes, WebTypes, Believed
    <2>5. CASE StatusMppt
      BY <1>1, <2>5 DEF StatusMppt, MonitorTypes, WebTypes, Told
    <2>6. CASE StatusPercent
      BY <1>1, <2>6, ReportFacts DEF StatusPercent, MonitorTypes, WebTypes, Believed
    <2>7. CASE StatusTold
      BY <1>1, <2>7 DEF StatusTold, WebTypes
    <2>8. CASE HistoryAsked
      BY <1>1, <2>8 DEF HistoryAsked, WebTypes, TaskTypes
    <2>9. CASE HistoryCopied
      <3>1. points' \in Seq(Nat)
        BY <1>1, <2>9, CopyIsNat DEF Graph, WebTypes
      <3>2. web' = "points" /\ val' = 0 /\ seen' = seen
        BY <2>9 DEF HistoryCopied
      <3>3. QED
        BY <1>1, <3>1, <3>2 DEF WebTypes
    <2>10. CASE HistoryTold
      BY <1>1, <2>10 DEF HistoryTold, WebTypes
    <2>11. QED
      BY <2>1, <2>2, <2>3, <2>4, <2>5, <2>6, <2>7, <2>8, <2>9, <2>10 DEF Web
  <1>5. WebTypes'
    BY <1>4 DEF WebTypes
  <1>6. Believed' /\ ReadingsAreReports'
    BY <1>1, <1>2, <1>4 DEF Believed, ReadingsAreReports
  <1>7. QED
    BY <1>3, <1>5, <1>6 DEF Readings

\* Starting a task, and time, touch no reading.
LEMMA IdleReadings ==
  ASSUME Readings, main' \in {"battery", "mppt", "history", "web", "up"},
         uptime' \in 0 .. MaxUptime,
         UNCHANGED <<mpptVars, battVars, confVars, histVars, ringVars, webVars>>
  PROVE  Readings'
  <1>1. MonitorTypes /\ TaskTypes /\ WebTypes /\ Told /\ Believed /\ ReadingsAreReports
    BY DEF Readings
  <1>2. UNCHANGED <<mppt, report, mpptPresent, percent, charging, batt, mv, battPresent,
                    voltage, low, full, hist, pct, span, stamp, web, seen, val, points>>
    BY DEF mpptVars, battVars, confVars, histVars, webVars
  <1>3. MonitorTypes' /\ TaskTypes' /\ WebTypes' /\ Told'
    BY <1>1, <1>2 DEF MonitorTypes, TaskTypes, WebTypes, Told
  <1>4. Believed' /\ ReadingsAreReports'
    BY <1>1, <1>2 DEF Believed, ReadingsAreReports
  <1>5. QED
    BY <1>3, <1>4 DEF Readings

LEMMA PowerStart == PowerInit => PowerInv
  <1> SUFFICES ASSUME PowerInit PROVE PowerInv
    OBVIOUS
  <1>1. /\ main = "battery" /\ uptime = 0 /\ mppt = "read" /\ report = <<>>
        /\ percent = 0 /\ batt = "poll" /\ mv = 0 /\ voltage = 0
        /\ low \in Levels /\ full \in Levels /\ hist = "look" /\ pct = 0 /\ span = 0
        /\ stamp = 0 /\ buf = [s \in Slots |-> 0] /\ head = 0 /\ count = 0
        /\ web = "idle" /\ val = 0 /\ points = <<>> /\ log = <<>>
    BY DEF PowerInit
  <1>2. /\ mpptPresent \in BOOLEAN /\ ~mpptPresent /\ charging \in BOOLEAN
        /\ battPresent \in BOOLEAN /\ ~battPresent /\ seen \in BOOLEAN
    BY DEF PowerInit
  <1>3. 0 \in 0 .. MaxUptime /\ 0 \in Slots /\ 0 \in 0 .. MaxSamples
    BY SizesAssumption DEF Slots
  <1>4. MonitorTypes /\ Told
    BY <1>1, <1>2 DEF MonitorTypes, Told
  <1>5. TaskTypes /\ WebTypes
    BY <1>1, <1>2, <1>3 DEF TaskTypes, WebTypes
  <1>6. Believed /\ ReadingsAreReports
    BY <1>1 DEF Believed, ReadingsAreReports
  <1>7. Len(log) = 0 /\ Len(log) <= MaxSamples /\ DOMAIN points = {}
    BY <1>1, <1>3
  <1>8. RingTypes
    BY <1>1, <1>3, <1>7 DEF RingTypes
  <1>9. RingHoldsLog
    BY <1>1, <1>7 DEF RingHoldsLog
  <1>10. LogInOrder /\ OldestFirst
    BY <1>1, <1>7 DEF LogInOrder, OldestFirst
  <1>11. QED
    BY <1>4, <1>5, <1>6, <1>8, <1>9, <1>10, PowerParts DEF Readings, Graph

\* Who neither records nor draws leaves the graph alone, and so does time.
LEMMA GraphKept ==
  ASSUME Graph, TaskTypes, UNCHANGED <<buf, head, count, log, points>>,
         hist' = "record" => hist = "record" /\ stamp' = stamp,
         uptime' \in Nat, uptime' >= uptime
  PROVE  Graph'
  <1>1. RingTypes /\ RingHoldsLog /\ LogInOrder /\ OldestFirst
    BY DEF Graph
  <1>2. RingTypes' /\ RingHoldsLog' /\ OldestFirst'
    BY <1>1 DEF RingTypes, RingHoldsLog, OldestFirst, Oldest
  <1>3. /\ \A i \in 1 .. Len(log) : log[i] \in Nat
        /\ uptime \in Nat /\ stamp \in Nat
    BY <1>1, RingSizes DEF RingTypes, TaskTypes
  <1>4. \A i \in 1 .. Len(log) :
          log[i] <= uptime' /\ (hist' = "record" => log[i] <= stamp')
    BY <1>1, <1>3 DEF LogInOrder
  <1>5. hist' = "record" => stamp' <= uptime'
    BY <1>1, <1>3 DEF LogInOrder
  <1>6. LogInOrder'
    BY <1>1, <1>4, <1>5 DEF LogInOrder
  <1>7. QED
    BY <1>2, <1>6 DEF Graph

\* A sample's time is taken when all others are recorded.
LEMMA StampGraph == Graph /\ TaskTypes /\ RecordStamp => Graph'
  <1> SUFFICES ASSUME Graph, TaskTypes, RecordStamp PROVE Graph'
    OBVIOUS
  <1>1. RingTypes /\ RingHoldsLog /\ LogInOrder /\ OldestFirst
    BY DEF Graph
  <1>2. /\ UNCHANGED <<buf, head, count, log, points, uptime>>
        /\ stamp' = uptime
    BY DEF RecordStamp, ringVars, webVars
  <1>3. RingTypes' /\ RingHoldsLog' /\ OldestFirst'
    BY <1>1, <1>2 DEF RingTypes, RingHoldsLog, OldestFirst, Oldest
  <1>4. stamp' <= uptime'
    BY <1>2, RingSizes DEF TaskTypes
  <1>5. LogInOrder'
    BY <1>1, <1>2, <1>4 DEF LogInOrder
  <1>6. QED
    BY <1>3, <1>5 DEF Graph

\* The log with one more, and without its first once it is as long as the ring.
LEMMA LogGrows ==
  ASSUME RingTypes, RingHoldsLog, stamp \in 0 .. MaxUptime
  PROVE  LET more == LastOf(Append(log, stamp), MaxSamples) IN
         /\ more \in Seq(0 .. MaxUptime)
         /\ count < MaxSamples => /\ Len(more) = count + 1
                                  /\ \A i \in 1 .. count : more[i] = log[i]
                                  /\ more[count + 1] = stamp
         /\ count = MaxSamples => /\ Len(more) = count
                                  /\ \A i \in 1 .. count - 1 : more[i] = log[i + 1]
                                  /\ more[count] = stamp
  <1> DEFINE long == Append(log, stamp)
             lo   == IF Len(long) > MaxSamples THEN Len(long) - MaxSamples + 1 ELSE 1
             more == SubSeq(long, lo, Len(long))
  <1>1. /\ MaxSamples \in Nat \ {0} /\ count \in 0 .. MaxSamples /\ count \in Nat
        /\ log \in Seq(0 .. MaxUptime) /\ Len(log) = count
    BY RingSizes DEF RingTypes, RingHoldsLog
  <1>2. /\ long \in Seq(0 .. MaxUptime) /\ Len(long) = count + 1
        /\ \A i \in 1 .. count : long[i] = log[i]
        /\ long[count + 1] = stamp
        /\ \A i \in 1 .. count + 1 : long[i] \in 0 .. MaxUptime
    <2>1. /\ long \in Seq(0 .. MaxUptime) /\ Len(long) = count + 1
          /\ \A i \in 1 .. count : long[i] = log[i]
          /\ long[count + 1] = stamp
      BY <1>1, AppendProperties
    <2> HIDE DEF long
    <2>2. \A i \in 1 .. count + 1 : long[i] \in 0 .. MaxUptime
      BY <2>1, ElementOfSeq
    <2>3. QED
      BY <2>1, <2>2
  <1> HIDE DEF long
  <1>3. /\ count < MaxSamples => lo = 1
        /\ count = MaxSamples => lo = 2
        /\ lo \in {1, 2} /\ lo <= count + 1
    BY <1>1, <1>2
  <1>4. more = SubSeq(long, lo, count + 1)
    BY <1>2
  <1> HIDE DEF lo, more
  <1>5. \A i \in lo .. count + 1 : long[i] \in 0 .. MaxUptime
    BY <1>1, <1>2, <1>3
  <1>6. /\ more \in Seq(0 .. MaxUptime)
        /\ Len(more) = IF lo <= count + 1 THEN (count + 1) - lo + 1 ELSE 0
        /\ \A i \in 1 .. (count + 1) - lo + 1 : more[i] = long[lo + i - 1]
    <2>1. lo \in Int /\ count + 1 \in Int
      BY <1>1, <1>3
    <2>2. QED
      BY <2>1, <1>4, <1>5, SubSeqProperties
  <1>7. ASSUME count < MaxSamples
        PROVE  /\ Len(more) = count + 1
               /\ \A i \in 1 .. count : more[i] = log[i]
               /\ more[count + 1] = stamp
    <2>1. Len(more) = count + 1 /\ \A i \in 1 .. count + 1 : more[i] = long[i]
      BY <1>1, <1>3, <1>6, <1>7
    <2>2. QED
      BY <1>1, <1>2, <2>1
  <1>8. ASSUME count = MaxSamples
        PROVE  /\ Len(more) = count
               /\ \A i \in 1 .. count - 1 : more[i] = log[i + 1]
               /\ more[count] = stamp
    <2>1. Len(more) = count /\ \A i \in 1 .. count : more[i] = long[i + 1]
      BY <1>1, <1>3, <1>6, <1>8
    <2>2. \A i \in 1 .. count - 1 : i \in 1 .. count /\ i + 1 \in 1 .. count
      BY <1>1
    <2>3. count \in 1 .. count
      BY <1>1, <1>8
    <2>4. QED
      BY <1>2, <2>1, <2>2, <2>3
  <1>9. LastOf(long, MaxSamples) = more
    BY DEF LastOf, more, lo
  <1>10. QED
    BY <1>6, <1>7, <1>8, <1>9 DEF long

\* The slot that is written is the log's new last one; the ring's oldest moves when full.
LEMMA RecordGraph == Graph /\ TaskTypes /\ Record => Graph'
  <1> SUFFICES ASSUME Graph, TaskTypes, Record PROVE Graph'
    OBVIOUS
  <1> DEFINE more == LastOf(Append(log, stamp), MaxSamples)
             N    == MaxSamples
  <1>1. RingTypes /\ RingHoldsLog /\ LogInOrder /\ OldestFirst
    BY DEF Graph
  <1>2. /\ N \in Nat \ {0} /\ count \in 0 .. N /\ head \in 0 .. N - 1
        /\ buf \in [Slots -> 0 .. MaxUptime] /\ head \in Slots
        /\ stamp \in 0 .. MaxUptime /\ Len(log) = count
        /\ log \in Seq(0 .. MaxUptime) /\ uptime \in Nat /\ MaxUptime \in Nat
        /\ Slots = 0 .. N - 1
    BY <1>1, RingSizes DEF RingTypes, RingHoldsLog, TaskTypes, Slots
  <1>3. /\ hist = "record" /\ hist' = "look" /\ UNCHANGED <<uptime, points>>
        /\ buf' = [buf EXCEPT ![head] = stamp]
        /\ count' = IF count < N THEN count + 1 ELSE count
        /\ log' = more
    BY DEF Record, webVars
  <1>4. /\ more \in Seq(0 .. MaxUptime)
        /\ count < N => /\ Len(more) = count + 1
                        /\ \A i \in 1 .. count : more[i] = log[i]
                        /\ more[count + 1] = stamp
        /\ count = N => /\ Len(more) = count
                        /\ \A i \in 1 .. count - 1 : more[i] = log[i + 1]
                        /\ more[count] = stamp
    BY <1>1, <1>2, LogGrows
  <1> HIDE DEF more
  <1>5. /\ buf'[head] = stamp /\ \A s \in Slots : s # head => buf'[s] = buf[s]
        /\ buf' \in [Slots -> 0 .. MaxUptime]
    BY <1>2, <1>3
  <1>6. /\ head + 1 < N => head' = head + 1
        /\ head + 1 = N => head' = 0
        /\ head' \in Slots
    <2> DEFINE x == head + 1
    <2>1. head' = x % N
      BY DEF Record
    <2>2. x \in 0 .. 2 * N - 1 /\ N \in Nat
      BY <1>2
    <2> HIDE DEF x
    <2>3. x < N => head' = x
      BY <2>1, <2>2, OnceAround
    <2>4. x >= N => head' = x - N
      BY <2>1, <2>2, OnceAround
    <2>5. head' \in Slots
      BY <2>1, <2>2, OnceAround
    <2>6. QED
      BY <1>2, <2>3, <2>4, <2>5 DEF x
  <1>7. /\ \A i \in 1 .. Len(log) : log[i] <= stamp
        /\ \A i \in 1 .. Len(log) : log[i] \in Nat
        /\ stamp <= uptime /\ stamp \in Nat
    <2>1. \A i \in 1 .. Len(log) : log[i] \in 0 .. MaxUptime
      BY <1>2
    <2>2. QED
      BY <2>1, <1>1, <1>2, <1>3 DEF LogInOrder
  <1>8. CASE count < N
    <2>1. head = count /\ Oldest = 0 /\ count' = count + 1 /\ Len(log') = count + 1
      BY <1>1, <1>3, <1>4, <1>8 DEF RingHoldsLog, Oldest
    <2>2. Oldest' = 0
      BY <1>2, <1>6, <2>1 DEF Oldest
    <2>3. count' < N => head' = count'
      BY <1>2, <1>6, <2>1
    <2>4. ASSUME NEW i \in 1 .. count'
          PROVE  log'[i] = buf'[(Oldest' + (i - 1)) % N]
      <3>1. /\ i - 1 \in Slots /\ i - 1 \in 0 .. 2 * N - 1 /\ i - 1 < N
            /\ Oldest' + (i - 1) = i - 1 /\ Oldest + (i - 1) = i - 1
        BY <1>2, <2>1, <2>2, <1>8
      <3>2. (i - 1) % N = i - 1
        BY <3>1, OnceAround
      <3>3. CASE i <= count
        <4>1. i \in 1 .. count /\ i - 1 # head
          BY <1>2, <2>1, <3>3
        <4>2. log[i] = buf[(Oldest + (i - 1)) % N]
          BY <1>1, <4>1 DEF RingHoldsLog
        <4>3. QED
          BY <1>3, <1>4, <1>5, <1>8, <3>1, <3>2, <4>1, <4>2
      <3>4. CASE i = count + 1
        <4>1. i - 1 = head /\ log'[i] = stamp
          BY <1>2, <1>3, <1>4, <1>8, <2>1, <3>4
        <4>2. QED
          BY <1>5, <3>1, <3>2, <4>1
      <3>5. QED
        BY <1>2, <2>1, <3>3, <3>4
    <2>5. count' \in 0 .. N /\ Len(log') = count'
      BY <1>2, <1>8, <2>1
    <2>6. RingTypes'
      <3>1. Len(log') <= MaxSamples /\ log' \in Seq(0 .. MaxUptime)
        BY <1>2, <1>3, <1>4, <2>5
      <3>2. QED
        BY <3>1, <1>5, <1>6, <2>5 DEF RingTypes
    <2>7. RingHoldsLog'
      BY <2>3, <2>4, <2>5 DEF RingHoldsLog
    <2>8. /\ \A i \in 1 .. count : i \in 1 .. Len(log) /\ log'[i] = log[i]
          /\ log'[count + 1] = stamp
      BY <1>2, <1>3, <1>4, <1>8
    <2>9. \A i, j \in 1 .. Len(log') : i <= j => log'[i] <= log'[j]
      <3>1. TAKE i, j \in 1 .. Len(log')
      <3>2. HAVE i <= j
      <3>3. /\ i \in 1 .. count \/ i = count + 1
            /\ j \in 1 .. count \/ j = count + 1
            /\ i = count + 1 => j = count + 1
        BY <1>2, <2>1, <3>2
      <3>4. CASE j \in 1 .. count
        BY <1>1, <2>8, <3>2, <3>3, <3>4, <1>2 DEF LogInOrder
      <3>5. CASE j = count + 1
        BY <1>7, <2>8, <3>3, <3>5
      <3>6. QED
        BY <3>3, <3>4, <3>5
    <2>10. \A i \in 1 .. Len(log') : log'[i] <= uptime'
      <3>1. TAKE i \in 1 .. Len(log')
      <3>2. i \in 1 .. count \/ i = count + 1
        BY <1>2, <2>1
      <3>3. QED
        BY <1>1, <1>3, <1>7, <2>8, <3>2 DEF LogInOrder
    <2>11. LogInOrder'
      BY <1>3, <2>9, <2>10 DEF LogInOrder
    <2>12. OldestFirst'
      BY <1>1, <1>3 DEF OldestFirst
    <2>13. QED
      BY <2>6, <2>7, <2>11, <2>12 DEF Graph
  <1>9. CASE count = N
    <2>1. Oldest = head /\ count' = count /\ Len(log') = count /\ Oldest' = head'
      BY <1>2, <1>3, <1>4, <1>9 DEF Oldest
    <2>2. ASSUME NEW i \in 1 .. count - 1
          PROVE  /\ (head' + (i - 1)) % N = (head + i) % N
                 /\ (head + i) % N \in Slots /\ (head + i) % N # head
      <3> DEFINE x == head + i
                 y == head' + (i - 1)
      <3>1. /\ x \in 0 .. 2 * N - 1 /\ x # head /\ x - N # head
            /\ y \in 0 .. 2 * N - 1 /\ (y = x \/ (y = x - N /\ x >= N))
            /\ x >= N => x - N < N
        <4>1. i \in 1 .. N - 1 /\ head \in 0 .. N - 1 /\ N \in Nat
          BY <1>2, <1>9
        <4>2. head + 1 < N \/ head + 1 = N
          BY <1>2
        <4>3. CASE head + 1 < N
          <5>1. y = x
            BY <1>6, <4>1, <4>3
          <5>2. QED
            BY <4>1, <5>1
        <4>4. CASE head + 1 = N
          <5>1. y = x - N /\ x >= N
            BY <1>6, <4>1, <4>4
          <5>2. QED
            BY <4>1, <4>4, <5>1
        <4>5. QED
          BY <4>2, <4>3, <4>4
      <3> HIDE DEF x, y
      <3>2. x % N \in Slots /\ (x < N => x % N = x) /\ (x >= N => x % N = x - N)
        BY <3>1, OnceAround
      <3>3. y \in 0 .. 2 * N - 1 => (y < N => y % N = y) /\ (y >= N => y % N = y - N)
        BY OnceAround
      <3>4. x % N # head
        BY <1>2, <3>1, <3>2
      <3>5. y % N = x % N
        BY <1>2, <3>1, <3>2, <3>3
      <3>6. QED
        BY <3>2, <3>4, <3>5 DEF x, y
    <2>3. (head' + (count - 1)) % N = head
      <3> DEFINE y == head' + (count - 1)
      <3>1. y \in 0 .. 2 * N - 1 /\ (y = head + N \/ y = head)
        <4>1. head + 1 < N \/ head + 1 = N
          BY <1>2
        <4>2. CASE head + 1 < N
          <5>1. y = head + N
            BY <1>2, <1>6, <1>9, <4>2
          <5>2. QED
            BY <1>2, <4>2, <5>1
        <4>3. CASE head + 1 = N
          <5>1. y = head
            BY <1>2, <1>6, <1>9, <4>3
          <5>2. QED
            BY <1>2, <5>1
        <4>4. QED
          BY <4>1, <4>2, <4>3
      <3> HIDE DEF y
      <3>2. (y < N => y % N = y) /\ (y >= N => y % N = y - N)
        BY <3>1, OnceAround
      <3>3. y % N = head
        BY <1>2, <3>1, <3>2
      <3>4. QED
        BY <3>3 DEF y
    <2>4. ASSUME NEW i \in 1 .. count'
          PROVE  log'[i] = buf'[(Oldest' + (i - 1)) % N]
      <3>1. CASE i \in 1 .. count - 1
        <4>1. log'[i] = log[i + 1] /\ i + 1 \in 1 .. count /\ (i + 1) - 1 = i
          BY <1>2, <1>3, <1>4, <1>9, <3>1
        <4>2. log[i + 1] = buf[(head + i) % N]
          BY <1>1, <2>1, <4>1 DEF RingHoldsLog
        <4>3. QED
          BY <1>5, <2>1, <2>2, <3>1, <4>1, <4>2
      <3>2. CASE i = count
        <4>1. log'[i] = stamp
          BY <1>3, <1>4, <1>9, <3>2
        <4>2. QED
          BY <1>5, <2>1, <2>3, <3>2, <4>1
      <3>3. QED
        BY <1>2, <2>1, <3>1, <3>2
    <2>5. count' \in 0 .. N /\ Len(log') = count' /\ ~(count' < N)
      BY <1>2, <1>9, <2>1
    <2>6. RingTypes'
      <3>1. Len(log') <= MaxSamples /\ log' \in Seq(0 .. MaxUptime)
        BY <1>2, <1>3, <1>4, <2>5
      <3>2. QED
        BY <3>1, <1>5, <1>6, <2>5 DEF RingTypes
    <2>7. RingHoldsLog'
      BY <2>4, <2>5 DEF RingHoldsLog
    <2>8. /\ \A i \in 1 .. count - 1 : i + 1 \in 1 .. Len(log) /\ log'[i] = log[i + 1]
          /\ log'[count] = stamp
      BY <1>2, <1>3, <1>4, <1>9
    <2>9. \A i, j \in 1 .. Len(log') : i <= j => log'[i] <= log'[j]
      <3>1. TAKE i, j \in 1 .. Len(log')
      <3>2. HAVE i <= j
      <3>3. /\ i \in 1 .. count - 1 \/ i = count
            /\ j \in 1 .. count - 1 \/ j = count
            /\ i = count => j = count
            /\ i + 1 <= j + 1
        BY <1>2, <2>1, <3>2
      <3>4. CASE j \in 1 .. count - 1
        BY <1>1, <2>8, <3>3, <3>4, <1>2 DEF LogInOrder
      <3>5. CASE j = count
        BY <1>7, <2>8, <3>3, <3>5
      <3>6. QED
        BY <3>3, <3>4, <3>5
    <2>10. \A i \in 1 .. Len(log') : log'[i] <= uptime'
      <3>1. TAKE i \in 1 .. Len(log')
      <3>2. i \in 1 .. count - 1 \/ i = count
        BY <1>2, <2>1
      <3>3. QED
        BY <1>1, <1>3, <1>7, <2>8, <3>2 DEF LogInOrder
    <2>11. LogInOrder'
      BY <1>3, <2>9, <2>10 DEF LogInOrder
    <2>12. OldestFirst'
      BY <1>1, <1>3 DEF OldestFirst
    <2>13. QED
      BY <2>6, <2>7, <2>11, <2>12 DEF Graph
  <1>10. QED
    BY <1>2, <1>8, <1>9

\* The copy is in the log's order, and an older sample has the larger age, also where the
\* copy's time is before its own.
LEMMA CopyGraph == Graph /\ Readings /\ HistoryCopied => Graph'
  <1> SUFFICES ASSUME Graph, Readings, HistoryCopied PROVE Graph'
    OBVIOUS
  <1>1. RingTypes /\ RingHoldsLog /\ LogInOrder /\ val \in Nat
    BY DEF Graph, Readings, WebTypes
  <1>2. UNCHANGED <<buf, head, count, log, uptime, hist, stamp>>
    BY DEF HistoryCopied, ringVars, histVars
  <1>3. RingTypes' /\ RingHoldsLog' /\ LogInOrder'
    BY <1>1, <1>2 DEF RingTypes, RingHoldsLog, LogInOrder, Oldest
  <1>4. /\ MaxSamples \in 1 .. MaxSamples /\ MaxSamples \in Nat /\ MaxUptime \in Nat
        /\ log \in Seq(0 .. MaxUptime) /\ Len(log) <= MaxSamples /\ Len(log) \in Nat
    BY <1>1, RingSizes DEF RingTypes
  <1>5. LastOf(log, MaxSamples) = log
    <2>1. ~(Len(log) > MaxSamples)
      BY <1>4
    <2>2. LastOf(log, MaxSamples) = SubSeq(log, 1, Len(log))
      BY <2>1 DEF LastOf
    <2>3. QED
      BY <1>4, <2>2, SubSeqFull
  <1>6. Latest(MaxSamples) = log
    BY <1>1, <1>4, <1>5, LatestIsLog
  <1>7. /\ points' \in Seq(Nat) /\ Len(points') = Len(log)
        /\ \A i \in 1 .. Len(log) : points'[i] = Age(val, log[i])
    BY <1>1, <1>6, CopyIsNat
  <1>8. ASSUME NEW i \in DOMAIN points', NEW j \in DOMAIN points', i <= j
        PROVE  points'[i] >= points'[j]
    <2>1. i \in 1 .. Len(log) /\ j \in 1 .. Len(log)
      BY <1>7
    <2>2. log[i] \in Nat /\ log[j] \in Nat /\ log[i] <= log[j]
      BY <1>1, <1>4, <1>8, <2>1 DEF LogInOrder
    <2>3. Age(val, log[i]) >= Age(val, log[j])
      BY <1>1, <2>2 DEF Age
    <2>4. QED
      BY <1>7, <2>1, <2>3
  <1>9. OldestFirst'
    BY <1>8 DEF OldestFirst
  <1>10. QED
    BY <1>3, <1>9 DEF Graph

LEMMA PowerStep == PowerInv /\ [PowerNext]_powerVars => PowerInv'
  <1> SUFFICES ASSUME PowerInv, [PowerNext]_powerVars PROVE PowerInv'
    OBVIOUS
  <1>1. Readings /\ Graph /\ TaskTypes
    BY PowerParts DEF Readings
  <1>2. ASSUME Readings', Graph'
        PROVE  PowerInv'
    BY <1>2, PowerParts, PTL
  <1>3. uptime \in Nat /\ MaxUptime \in Nat /\ uptime >= uptime /\ uptime + 1 >= uptime
    BY <1>1, RingSizes DEF TaskTypes
  <1>4. CASE Restarted
    <2>1. PowerInit'
      BY <1>4 DEF Restarted, PowerInit
    <2>2. QED
      BY <2>1, PowerStart, PTL
  <1>5. ASSUME UNCHANGED <<mpptVars, battVars, confVars, histVars, ringVars, webVars>>,
               main' \in {"battery", "mppt", "history", "web", "up"},
               uptime' \in 0 .. MaxUptime, uptime' >= uptime
        PROVE  PowerInv'
    <2>1. Readings'
      BY <1>1, <1>5, IdleReadings
    <2>2. UNCHANGED <<buf, head, count, log, points, hist, stamp>> /\ uptime' \in Nat
      BY <1>3, <1>5 DEF ringVars, webVars, histVars
    <2>3. Graph'
      BY <1>1, <1>5, <2>2, GraphKept
    <2>4. QED
      BY <1>2, <2>1, <2>3
  <1>6. CASE Tick
    <2>1. uptime' \in 0 .. MaxUptime /\ uptime' >= uptime /\ main' = main
      BY <1>1, <1>3, <1>6 DEF Tick, TaskTypes
    <2>2. UNCHANGED <<mpptVars, battVars, confVars, histVars, ringVars, webVars>>
      BY <1>6 DEF Tick
    <2>3. QED
      BY <1>1, <1>5, <2>1, <2>2 DEF TaskTypes
  <1>7. CASE BatteryMonitorInit \/ MpptMonitorInit \/ BatteryHistoryInit \/ WebServerStart
    <2>1. /\ main' \in {"battery", "mppt", "history", "web", "up"} /\ uptime' = uptime
          /\ UNCHANGED <<mpptVars, battVars, confVars, histVars, ringVars, webVars>>
      BY <1>7 DEF BatteryMonitorInit, MpptMonitorInit, BatteryHistoryInit, WebServerStart,
                  Creates
    <2>2. QED
      BY <1>1, <1>3, <1>5, <2>1 DEF TaskTypes
  <1>8. CASE UNCHANGED powerVars
    <2>1. /\ main' = main /\ uptime' = uptime
          /\ UNCHANGED <<mpptVars, battVars, confVars, histVars, ringVars, webVars>>
      BY <1>8 DEF powerVars
    <2>2. QED
      BY <1>1, <1>3, <1>5, <2>1 DEF TaskTypes
  <1>9. ASSUME Readings', UNCHANGED <<buf, head, count, log, points, uptime>>,
               hist' = "record" => hist = "record" /\ stamp' = stamp
        PROVE  PowerInv'
    BY <1>1, <1>2, <1>3, <1>9, GraphKept
  <1>10. CASE Monitors
    <2>1. UNCHANGED <<buf, head, count, log, points, uptime, hist, stamp>>
      BY <1>10 DEF Monitors, Report, ReportCharging, ReportPresent, Polled, PollPresent,
                   PollFails, ringVars, webVars, histVars
    <2>2. QED
      BY <1>1, <1>9, <1>10, <2>1, MonitorsReadings
  <1>11. CASE History
    <2>1. Readings'
      BY <1>1, <1>11, HistoryReadings
    <2>2. CASE RecordStamp \/ Record
      BY <1>1, <1>2, <2>1, <2>2, StampGraph, RecordGraph
    <2>3. CASE ~(RecordStamp \/ Record)
      <3>1. UNCHANGED <<buf, head, count, log, points, uptime>> /\ hist' # "record"
        BY <1>11, <2>3 DEF History, LookMppt, LoadPercent, LoadCharging, LookBattery,
                           LoadVoltage, ReadSpan, Estimate, ringVars, webVars
      <3>2. QED
        BY <1>9, <2>1, <3>1
    <2>4. QED
      BY <2>2, <2>3
  <1>12. CASE Web
    <2>1. Readings'
      BY <1>1, <1>12, WebReadings
    <2>2. CASE HistoryCopied
      BY <1>1, <1>2, <2>1, <2>2, CopyGraph
    <2>3. CASE HistoryTold
      <3>1. /\ UNCHANGED <<buf, head, count, log, uptime, hist, stamp>>
            /\ points' = <<>>
        BY <2>3 DEF HistoryTold, ringVars, histVars
      <3>2. RingTypes' /\ RingHoldsLog' /\ LogInOrder' /\ OldestFirst'
        BY <1>1, <3>1 DEF Graph, RingTypes, RingHoldsLog, LogInOrder, OldestFirst, Oldest
      <3>3. QED
        BY <1>2, <2>1, <3>2 DEF Graph
    <2>4. CASE ~(HistoryCopied \/ HistoryTold)
      <3>1. UNCHANGED <<buf, head, count, log, points, uptime, hist, stamp>>
        BY <1>12, <2>4 DEF Web, SaveLow, SaveFull, StatusBattery, StatusVoltage, StatusMppt,
                           StatusPercent, StatusTold, HistoryAsked, ringVars, webVars, histVars
      <3>2. QED
        BY <1>9, <2>1, <3>1
    <2>5. QED
      BY <2>2, <2>3, <2>4
  <1>13. QED
    BY <1>4, <1>6, <1>7, <1>8, <1>10, <1>11, <1>12 DEF PowerNext, Boot

\* The variables of BatteryHistory keep their types: a sample's charge is a percentage and
\* the ring's index stays in it, for a ring of any size.
THEOREM PowerTypeCorrect == PowerSpec => []PowerTypeOK
  <1>1. PowerInv => PowerTypeOK
    BY DEF PowerInv
  <1>2. QED
    BY <1>1, PowerStart, PowerStep, PTL DEF PowerSpec

\* For any reports, voltages and levels: what is recorded or shown as a reading is one, and
\* an estimate a percentage.
THEOREM ReadingsReported == PowerSpec => []ReadingsAreReports
  <1>1. PowerInv => ReadingsAreReports
    BY DEF PowerInv
  <1>2. QED
    BY <1>1, PowerStart, PowerStep, PTL DEF PowerSpec

\* For a ring of any size: what may be asked of it is the end of the log, and the graph is
\* drawn oldest first.
THEOREM GraphShowsLog == PowerSpec => []GraphIsLog
  <1>1. PowerInv => GraphIsLog
    <2> SUFFICES ASSUME PowerInv PROVE GraphIsLog
      OBVIOUS
    <2>1. RingTypes /\ RingHoldsLog /\ OldestFirst
      BY PowerParts DEF Graph
    <2>2. RingIsLog
      BY <2>1, LatestIsLog DEF RingIsLog
    <2>3. QED
      BY <2>1, <2>2 DEF GraphIsLog
  <1>2. QED
    BY <1>1, PowerStart, PowerStep, PTL DEF PowerSpec
===============================================================================
