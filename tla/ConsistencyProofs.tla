---------------------------- MODULE ConsistencyProofs ----------------------------
(***************************************************************************)
(* What a restore gives is the database as it was after some transaction:  *)
(* the WAL file counts the transactions of one history, the segments are   *)
(* pieces of it, and they complete the snapshot they are replayed on.      *)
(***************************************************************************)
EXTENDS SegmentProofs

-----------------------------------------------------------------------------
(* The blocks of the WAL file, and what is replayed of some of them. *)

\* The transaction that goes on after block b.
TxAfter(b) == IF b.commit THEN b.tx + 1 ELSE b.tx

\* What is true of all blocks written so far: the last one was number `last`,
\* and n transactions have committed.
History(K, last, n) ==
  /\ K \subseteq Block
  /\ \A b \in K : /\ b.id \in 1..last /\ b.prev < b.id
                  /\ b.prev = 0 => b.commit
                  /\ b.commit => b.tx <= n
  /\ \A b, c \in K : b.id = c.id => b = c
  /\ \A b, c \in K : c.prev = b.id => c.tx = TxAfter(b)

Blocks(w) == {w[i] : i \in DOMAIN w}

\* The blocks of w that continue one another count the transactions.
Linked(w, n) ==
  /\ \A i \in DOMAIN w : /\ w[i].prev = 0 => w[i].commit
                         /\ w[i].commit => w[i].tx <= n
  /\ \A i, j \in DOMAIN w : w[j].prev = w[i].id => w[j].tx = TxAfter(w[i])

\* Blocks 2 to N of w would be replayed.
CommitAt(w, N) == N \in 2..Len(w) /\ w[N].commit /\ ValidPrefix(w, N)

\* A WAL that begins like w completes a database that holds these pages.
Complete(w, pages) ==
  \/ w[1].prev # 0
  \/ /\ 1..w[1].tx \subseteq pages
     /\ \/ pages = 1..w[1].tx
        \/ \E N \in 2..Len(w) : CommitAt(w, N) /\ pages \subseteq 1..w[N].tx

-----------------------------------------------------------------------------
(* Replay. *)

\* What the fields of a block are.
LEMMA BlockFields ==
  ASSUME NEW b \in Block
  PROVE  b.id \in Nat /\ b.prev \in Nat /\ b.tx \in Nat /\ b.commit \in BOOLEAN
  BY DEF Block

\* Blocks of the history are linked wherever they stand.
LEMMA HistoryLinks ==
  ASSUME NEW K, NEW last, NEW n, History(K, last, n), NEW w, Blocks(w) \subseteq K
  PROVE  Linked(w, n)
<1>1. \A i \in DOMAIN w : w[i] \in K
  BY DEF Blocks
<1> QED
  BY <1>1 DEF History, Linked

\* The valid blocks up to n hold the transactions from the header's on.
LEMMA Chain ==
  ASSUME NEW w \in Seq(Block), NEW c, Linked(w, c), NEW n \in 1..Len(w), ValidPrefix(w, n)
  PROVE  /\ {w[i].tx : i \in 2..n} = (w[1].tx + 1)..w[n].tx
         /\ w[1].tx <= w[n].tx
<1> DEFINE Held(m) == {w[i].tx : i \in 2..m}
           Right(m) == /\ Held(m) = (w[1].tx + 1)..w[m].tx
                       /\ w[1].tx <= w[m].tx
           T == {m \in Nat : m + 1 <= n => Right(m + 1)}
<1>1. ASSUME NEW i \in 1..Len(w)
      PROVE  w[i] \in Block /\ w[i].tx \in Nat /\ w[i].commit \in BOOLEAN
  <2>1. w[i] \in Block
    OBVIOUS
  <2> QED
    BY <2>1, BlockFields
<1>2. Len(w) \in Nat /\ DOMAIN w = 1..Len(w)
  OBVIOUS
<1>3. w[1].commit
  <2>1. w[1].prev = 0 /\ 1 \in DOMAIN w
    BY <1>2 DEF ValidPrefix
  <2> QED
    BY <2>1 DEF Linked
<1>4. Right(1)
  <2>1. 1 \in 1..Len(w)
    BY <1>2
  <2>2. Held(1) = {}
    OBVIOUS
  <2>3. w[1].tx \in Nat
    BY <1>1, <2>1
  <2>4. (w[1].tx + 1)..w[1].tx = {}
    BY <2>3
  <2> QED
    BY <2>2, <2>3, <2>4
<1>5. ASSUME NEW m \in Nat, m >= 1, m + 1 <= n, Right(m) PROVE Right(m + 1)
  <2>1. m \in 1..Len(w) /\ m + 1 \in 1..Len(w) /\ m + 1 \in 1..n /\ m + 1 # 1 /\ (m + 1) - 1 = m
    BY <1>2, <1>5
  <2>2. w[m + 1].prev = w[m].id
    BY <2>1 DEF ValidPrefix
  <2>3. w[m + 1].tx = TxAfter(w[m])
    BY <1>2, <2>1, <2>2 DEF Linked
  <2>4. w[m].tx \in Nat /\ w[m + 1].tx \in Nat /\ w[1].tx \in Nat
    BY <1>1, <1>2, <2>1
  <2>5. Held(m + 1) = Held(m) \cup {w[m + 1].tx}
    <3>1. ASSUME NEW i \in 2..(m + 1) PROVE i \in 2..m \/ i = m + 1
      BY <1>5
    <3>2. ASSUME NEW i \in 2..m PROVE i \in 2..(m + 1)
      OBVIOUS
    <3>3. m + 1 \in 2..(m + 1)
      BY <1>5
    <3>4. Held(m + 1) \subseteq Held(m) \cup {w[m + 1].tx}
      BY <3>1
    <3>5. Held(m) \subseteq Held(m + 1)
      BY <3>2
    <3>6. w[m + 1].tx \in Held(m + 1)
      BY <3>3
    <3> QED
      BY <3>4, <3>5, <3>6
  <2>6. CASE w[m].commit
    <3>1. w[m + 1].tx = w[m].tx + 1
      BY <2>3, <2>6 DEF TxAfter
    <3> HIDE DEF Held
    <3>2. Held(m) = (w[1].tx + 1)..w[m].tx /\ w[1].tx <= w[m].tx
      BY <1>5
    <3>3. Held(m + 1) = ((w[1].tx + 1)..w[m].tx) \cup {w[m].tx + 1}
      BY <2>5, <3>1, <3>2
    <3>4. ((w[1].tx + 1)..w[m].tx) \cup {w[m].tx + 1} = (w[1].tx + 1)..(w[m].tx + 1)
      BY <2>4, <3>2
    <3>5. Held(m + 1) = (w[1].tx + 1)..w[m + 1].tx
      BY <3>1, <3>3, <3>4
    <3>6. w[1].tx <= w[m + 1].tx
      BY <2>4, <3>1, <3>2
    <3> QED
      BY <3>5, <3>6
  <2>7. CASE ~w[m].commit
    <3>1. w[m + 1].tx = w[m].tx
      BY <2>3, <2>7 DEF TxAfter
    <3>2. m # 1
      BY <1>3, <2>7
    <3>3. m \in 2..m
      BY <1>5, <3>2
    <3>4. w[m].tx \in Held(m)
      BY <3>3
    <3> QED
      BY <1>5, <2>5, <3>1, <3>4
  <2> QED
    BY <2>6, <2>7
<1> HIDE DEF Right
<1>6. ASSUME NEW m \in Nat, m \in T PROVE m + 1 \in T
  BY <1>5, <1>6
<1>7. 0 \in T
  BY <1>4
<1> HIDE DEF T
<1>8. n - 1 \in Nat /\ n - 1 \in T /\ (n - 1) + 1 = n
  <2>1. n - 1 \in Nat /\ (n - 1) + 1 = n
    BY <1>2
  <2> QED
    BY <1>6, <1>7, <2>1, Induction
<1>9. Right(n)
  BY <1>8 DEF T
<1> QED
  BY <1>9 DEF Right

\* A shorter prefix is valid too.
LEMMA ShorterPrefix ==
  ASSUME NEW w, NEW n \in Nat, NEW m \in 0..n, ValidPrefix(w, n)
  PROVE  ValidPrefix(w, m)
  BY DEF ValidPrefix

\* Nothing is replayed unless there is a commit frame to replay up to...
LEMMA ReplayNothing ==
  ASSUME NEW w \in Seq(Block), \A N \in 2..Len(w) : ~CommitAt(w, N)
  PROVE  Replay(w) = {}
<1>1. ASSUME NEW i \in 2..Len(w), NEW n \in i..Len(w), w[n].commit, ValidPrefix(w, n)
      PROVE  FALSE
  <2>1. n \in 2..Len(w)
    OBVIOUS
  <2> QED
    BY <1>1, <2>1 DEF CommitAt
<1> QED
  BY <1>1 DEF Replay

\* ... and then all up to the last one: the transactions from the header's on.
LEMMA ReplayTo ==
  ASSUME NEW w \in Seq(Block), NEW c, Linked(w, c), NEW N0 \in 2..Len(w), CommitAt(w, N0)
  PROVE  \E N \in 2..Len(w) :
           /\ CommitAt(w, N) /\ N0 <= N
           /\ Replay(w) = (w[1].tx + 1)..w[N].tx
           /\ w[N].tx \in Replay(w) /\ w[N0].tx <= w[N].tx
<1> DEFINE T == {n \in 2..Len(w) : CommitAt(w, n)}
<1>1. Len(w) \in Nat /\ T \subseteq Nat /\ T # {} /\ \A x \in T : x <= Len(w)
  OBVIOUS
<1>2. PICK N \in T : \A n \in T : n <= N
  BY <1>1, GreatestNumber
<1>3. N \in 2..Len(w) /\ w[N].commit /\ ValidPrefix(w, N)
  BY <1>2 DEF CommitAt
<1>4. {i \in 2..Len(w) : \E n \in i..Len(w) : w[n].commit /\ ValidPrefix(w, n)} = 2..N
  <2>1. ASSUME NEW i \in 2..Len(w), NEW n \in i..Len(w), w[n].commit, ValidPrefix(w, n)
        PROVE  i \in 2..N
    <3>1. n \in 2..Len(w)
      BY <1>1
    <3>2. n \in T
      BY <2>1, <3>1 DEF CommitAt
    <3> QED
      BY <1>2, <1>3, <3>2
  <2>2. ASSUME NEW i \in 2..N PROVE i \in 2..Len(w) /\ N \in i..Len(w)
    BY <1>1, <1>3
  <2> QED
    BY <1>3, <2>1, <2>2
<1>5. Replay(w) = {w[i].tx : i \in 2..N}
  BY <1>4 DEF Replay
<1>6. N \in 1..Len(w)
  BY <1>3
<1>7. Replay(w) = (w[1].tx + 1)..w[N].tx
  BY <1>3, <1>5, <1>6, Chain
<1>8. w[N].tx \in Replay(w) /\ N0 <= N
  BY <1>2, <1>3, <1>5
<1>9. w[N0].tx <= w[N].tx
  <2>1. w[N0].tx \in {w[i].tx : i \in 2..N}
    BY <1>8
  <2>2. w[N0].tx \in (w[1].tx + 1)..w[N].tx
    BY <1>5, <1>7, <2>1
  <2>3. w[1].tx \in Nat /\ w[N].tx \in Nat
    <3>1. w[1] \in Block /\ w[N] \in Block
      BY <1>6
    <3> QED
      BY <3>1 DEF Block
  <2> QED
    BY <2>2, <2>3
<1> QED
  BY <1>2, <1>3, <1>7, <1>8, <1>9

\* What completes a database completes it when more is appended.
LEMMA CompleteLonger ==
  ASSUME NEW o \in Seq(Block), o # <<>>, NEW w \in Seq(Block), Starts(w, o, Block),
         NEW pages, Complete(o, pages)
  PROVE  Complete(w, pages)
<1>1. PICK rest \in Seq(Block) : w = o \o rest
  BY DEF Starts
<1>2. Len(o) \in Nat /\ 1 \in 1..Len(o) /\ Len(o) <= Len(w) /\ Len(w) \in Nat
  BY <1>1
<1>3. \A i \in 1..Len(o) : w[i] = o[i]
  BY <1>1
<1>4. ASSUME NEW N \in 2..Len(o), CommitAt(o, N) PROVE N \in 2..Len(w) /\ CommitAt(w, N) /\ w[N] = o[N]
  <2>1. N \in 2..Len(w) /\ w[N] = o[N]
    BY <1>2, <1>3
  <2>2. \A i \in 1..N : /\ w[i] = o[i]
                        /\ i # 1 => w[i - 1] = o[i - 1]
    BY <1>2, <1>3
  <2>3. ValidPrefix(w, N)
    BY <1>4, <2>2 DEF CommitAt, ValidPrefix
  <2> QED
    BY <1>4, <2>1, <2>3 DEF CommitAt
<1>5. w[1] = o[1]
  BY <1>2, <1>3
<1> QED
  BY <1>4, <1>5 DEF Complete

\* What is replayed on a database it completes gives the database of some moment.
LEMMA CompleteReplay ==
  ASSUME NEW c \in Nat, NEW w \in Seq(Block), Linked(w, c), NEW k \in 0..c,
         w = <<>> \/ Complete(w, 1..k)
  PROVE  \E n \in 0..c : /\ (1..k) \cup Replay(w) = 1..n
                         /\ Replay(w) # {} => n \in Replay(w)
<1>1. CASE \A N \in 2..Len(w) : ~CommitAt(w, N)
  BY <1>1, ReplayNothing
<1>2. ASSUME NEW N0 \in 2..Len(w), CommitAt(w, N0)
      PROVE  \E n \in 0..c : /\ (1..k) \cup Replay(w) = 1..n
                             /\ Replay(w) # {} => n \in Replay(w)
  <2>1. w # <<>> /\ 1 \in 1..Len(w) /\ DOMAIN w = 1..Len(w)
    OBVIOUS
  <2>2. w[1].prev = 0
    BY <1>2 DEF CommitAt, ValidPrefix
  <2>3. /\ 1..w[1].tx \subseteq 1..k
        /\ \/ 1..k = 1..w[1].tx
           \/ \E N \in 2..Len(w) : CommitAt(w, N) /\ 1..k \subseteq 1..w[N].tx
    BY <2>1, <2>2 DEF Complete
  <2>4. w[1].tx \in Nat
    <3>1. w[1] \in Block
      BY <2>1
    <3> QED
      BY <3>1, BlockFields
  <2>5. ASSUME NEW N1 \in 2..Len(w), CommitAt(w, N1), 1..k = 1..w[1].tx \/ 1..k \subseteq 1..w[N1].tx
        PROVE  \E n \in 0..c : /\ (1..k) \cup Replay(w) = 1..n
                               /\ Replay(w) # {} => n \in Replay(w)
    <3>1. PICK N \in 2..Len(w) :
            /\ CommitAt(w, N) /\ Replay(w) = (w[1].tx + 1)..w[N].tx
            /\ w[N].tx \in Replay(w) /\ w[N1].tx <= w[N].tx
      BY <2>5, ReplayTo
    <3>2. N \in DOMAIN w /\ w[N] \in Block /\ w[N].commit
      BY <2>1, <3>1 DEF CommitAt
    <3>3. w[N].tx \in Nat /\ w[N].tx <= c
      BY <3>2, BlockFields DEF Linked
    <3>4. w[N1].tx \in Nat
      <4>1. w[N1] \in Block
        OBVIOUS
      <4> QED
        BY <4>1 DEF Block
    <3>5. w[1].tx < w[N].tx
      BY <2>4, <3>1, <3>3
    <3>6. k <= w[N].tx /\ w[1].tx <= k
      <4>1. w[1].tx <= k
        BY <2>3, <2>4
      <4>2. 1..k = 1..w[1].tx => k = w[1].tx
        <5>1. k # 0 => k \in 1..k
          OBVIOUS
        <5> QED
          BY <2>4, <4>1, <5>1
      <4>3. 1..k \subseteq 1..w[N1].tx => k <= w[N1].tx
        <5>1. k # 0 => k \in 1..k
          OBVIOUS
        <5> QED
          BY <3>4, <5>1
      <4> QED
        BY <2>4, <2>5, <3>1, <3>3, <3>4, <3>5, <4>1, <4>2, <4>3
    <3>7. (1..k) \cup ((w[1].tx + 1)..w[N].tx) = 1..w[N].tx
      BY <2>4, <3>3, <3>5, <3>6
    <3>8. w[N].tx \in 0..c
      BY <3>3
    <3> QED
      BY <3>1, <3>7, <3>8
  <2> QED
    BY <1>2, <2>3, <2>5
<1> QED
  BY <1>1, <1>2
-----------------------------------------------------------------------------
(* The invariant of the WAL file, its wal-index and the database file. *)

\* The WAL goes on from its header to the last commit, and beyond if a
\* transaction is being written.
WalOK ==
  /\ wal # <<>> => wal[1].prev = 0
  /\ \A i \in 2..Len(wal) : wal[i].prev # 0
  /\ ValidPrefix(wal, mxFrame + spilled)
  /\ mxFrame # 0 => CommitAt(wal, mxFrame) /\ wal[mxFrame].tx = commits
  /\ mxFrame = 0 /\ wal # <<>> => wal[1].tx = commits
  /\ spilled # 0 => LET last == wal[mxFrame + spilled]
                    IN mxFrame + spilled >= 2 /\ ~last.commit /\ last.tx = commits + 1

\* The database file holds the first transactions, those before the header of
\* the WAL and those a checkpoint has copied from it among them.
DbOK ==
  /\ \E k \in 0..commits : db = 1..k
  /\ wal # <<>> => 1..wal[1].tx \subseteq db
  /\ nBackfill # 0 => CommitAt(wal, nBackfill) /\ 1..wal[nBackfill].tx \subseteq db
  /\ mxFrame = 0 => db = 1..commits

\* A reader stops at a commit.
MarksOK == \A c \in Connections : readMark[c] > 0 =>
             readMark[c] <= mxFrame /\ CommitAt(wal, readMark[c])

SqliteOK == WalOK /\ DbOK /\ MarksOK

-----------------------------------------------------------------------------
(* Writers and checkpoints. *)

\* The file once the blocks q are written over it.
Overlay(f, q) == q \o SubSeq(f, Len(q) + 1, Len(f))

\* The blocks of q come first, then those of f that q does not cover.
LEMMA Overwritten ==
  ASSUME NEW f \in Seq(Block), NEW q \in Seq(Block)
  PROVE  LET w == Overlay(f, q)
         IN /\ w \in Seq(Block) /\ Len(w) \in Nat /\ Len(w) >= Len(q)
            /\ \A i \in 1..Len(q) : w[i] = q[i]
            /\ \A i \in (Len(q) + 1)..Len(w) : i \in 1..Len(f) /\ w[i] = f[i]
<1> DEFINE s == SubSeq(f, Len(q) + 1, Len(f))
<1>1. Len(q) \in Nat /\ Len(f) \in Nat
  OBVIOUS
<1>2. PICK r : r = s
  OBVIOUS
<1>3. r \in Seq(Block) /\ Len(r) \in Nat
  BY <1>1, <1>2
<1>4. Len(r) = IF Len(q) + 1 <= Len(f) THEN Len(f) - Len(q) ELSE 0
  BY <1>1, <1>2
<1>5. ASSUME NEW i \in 1..Len(r) PROVE r[i] = f[Len(q) + i]
  BY <1>1, <1>2, <1>4
<1>6. PICK w : w = q \o r
  OBVIOUS
<1>7. w \in Seq(Block) /\ Len(w) = Len(q) + Len(r)
  BY <1>3, <1>6
<1>8. ASSUME NEW i \in 1..Len(q) PROVE w[i] = q[i]
  BY <1>3, <1>6
<1>9. ASSUME NEW i \in (Len(q) + 1)..Len(w) PROVE i \in 1..Len(f) /\ w[i] = f[i]
  <2>1. i \in Nat /\ Len(q) < i /\ i <= Len(q) + Len(r)
    BY <1>1, <1>3, <1>7
  <2>2. i - Len(q) \in 1..Len(r) /\ Len(q) + (i - Len(q)) = i
    BY <1>1, <1>3, <2>1
  <2>3. w[i] = r[i - Len(q)]
    BY <1>1, <1>3, <1>6, <2>1
  <2>4. r[i - Len(q)] = f[i]
    BY <1>5, <2>2
  <2>5. i \in 1..Len(f)
    BY <1>1, <1>4, <2>1
  <2> QED
    BY <2>3, <2>4, <2>5
<1>10. Len(w) \in Nat /\ Len(w) >= Len(q)
  BY <1>1, <1>3, <1>7
<1> QED
  BY <1>2, <1>6, <1>7, <1>8, <1>9, <1>10 DEF Overlay

\* The numbers from n + 2 on are those past n + 1.
LEMMA Shifted ==
  ASSUME NEW n \in Nat, NEW m \in Nat, NEW l, l = n + 1, NEW i \in (n + 2)..m
  PROVE  i \in (l + 1)..m
  OBVIOUS

\* The file once block b is written after the blocks p.
Over(f, p, b) == Overlay(f, Append(p, b))

OverIs(w, f, p, b) ==
  /\ w \in Seq(Block) /\ Len(w) \in Nat /\ Len(w) >= Len(p) + 1
  /\ w[Len(p) + 1] = b
  /\ \A i \in 1..Len(p) : w[i] = p[i]
  /\ \A i \in (Len(p) + 2)..Len(w) : i \in 1..Len(f) /\ w[i] = f[i]

\* The blocks of p come first, then b, then what was in the file.
LEMMA Written ==
  ASSUME NEW f \in Seq(Block), NEW p \in Seq(Block), NEW b \in Block
  PROVE  OverIs(Over(f, p, b), f, p, b)
<1>1. PICK w : w = Over(f, p, b)
  OBVIOUS
<1>2. PICK q : q = Append(p, b)
  OBVIOUS
<1>3. q \in Seq(Block) /\ Len(q) = Len(p) + 1 /\ q[Len(p) + 1] = b /\ Len(p) \in Nat
  BY <1>2, AppendProperties
<1>4. \A i \in 1..Len(p) : q[i] = p[i]
  BY <1>2, AppendProperties
<1>5. /\ w \in Seq(Block) /\ Len(w) \in Nat /\ Len(w) >= Len(q)
      /\ \A i \in 1..Len(q) : w[i] = q[i]
      /\ \A i \in (Len(q) + 1)..Len(w) : i \in 1..Len(f) /\ w[i] = f[i]
  BY <1>1, <1>2, <1>3, Overwritten DEF Over
<1>6. ASSUME NEW i \in 1..Len(p) PROVE w[i] = p[i]
  <2>1. i \in 1..Len(q)
    BY <1>3
  <2> QED
    BY <1>4, <1>5, <2>1
<1>7. w[Len(p) + 1] = b
  <2>1. Len(p) + 1 \in 1..Len(q)
    BY <1>3
  <2> QED
    BY <1>3, <1>5, <2>1
<1>8. ASSUME NEW i \in (Len(p) + 2)..Len(w) PROVE i \in 1..Len(f) /\ w[i] = f[i]
  <2>1. i \in (Len(q) + 1)..Len(w)
    <3>1. Len(p) \in Nat /\ Len(w) \in Nat /\ Len(q) = Len(p) + 1
      BY <1>3, <1>5
    <3> QED
      BY <3>1, Zenon, Shifted
  <2> QED
    BY <1>5, <2>1
<1>9. Len(w) >= Len(p) + 1
  BY <1>3, <1>5
<1> QED
  BY <1>1, <1>5, <1>6, <1>7, <1>8, <1>9 DEF OverIs

\* What holds of the blocks up to n holds of any file that has the same ones.
LEMMA SameBlocks ==
  ASSUME NEW f \in Seq(Block), NEW w \in Seq(Block), NEW n \in Nat, n <= Len(f), n <= Len(w),
         \A i \in 1..n : w[i] = f[i]
  PROVE  /\ ValidPrefix(f, n) => ValidPrefix(w, n)
         /\ \A N \in 1..n : CommitAt(f, N) => CommitAt(w, N)
<1>1. ASSUME NEW N \in 0..n, ValidPrefix(f, N) PROVE ValidPrefix(w, N)
  <2>1. \A i \in 1..N : i \in 1..n /\ (i # 1 => i - 1 \in 1..n)
    OBVIOUS
  <2> QED
    BY <1>1, <2>1 DEF ValidPrefix
<1>2. ASSUME NEW N \in 1..n, CommitAt(f, N) PROVE CommitAt(w, N)
  <2>1. N \in 2..Len(w) /\ w[N] = f[N]
    BY <1>2 DEF CommitAt
  <2> QED
    BY <1>1, <1>2, <2>1 DEF CommitAt
<1> QED
  BY <1>1, <1>2

\* What WriteFrame makes of the file.
LEMMA WriteFrameFile ==
  ASSUME wal \in Seq(Block), commits \in Nat, NEW p \in Seq(Block), p # <<>>, NEW id \in Nat,
         NEW isCommit \in BOOLEAN, NEW kept \in Nat, NEW backfilled,
         WriteFrame(p, kept, backfilled, id, isCommit)
  PROVE  \E b \in Block :
           /\ b = [id |-> id, prev |-> p[Len(p)].id, tx |-> commits + 1, commit |-> isCommit]
           /\ OverIs(wal', wal, p, b)
           /\ mxFrame' = (IF isCommit THEN Len(p) + 1 ELSE kept)
           /\ spilled' = (IF isCommit THEN 0 ELSE Len(p) + 1 - kept)
           /\ nBackfill' = backfilled
           /\ commits' = (IF isCommit THEN commits + 1 ELSE commits)
           /\ lastId' = id /\ db' = db /\ readMark' = readMark
<1> DEFINE frame == [id |-> id, prev |-> p[Len(p)].id, tx |-> commits + 1, commit |-> isCommit]
<1>1. p[Len(p)] \in Block
  OBVIOUS
<1>2. frame \in Block
  BY <1>1, BlockFields DEF Block
<1>3. /\ wal' = Over(wal, p, frame)
      /\ mxFrame' = (IF isCommit THEN Len(Append(p, frame)) ELSE kept)
      /\ spilled' = (IF isCommit THEN 0 ELSE Len(Append(p, frame)) - kept)
      /\ nBackfill' = backfilled
      /\ commits' = (IF isCommit THEN commits + 1 ELSE commits)
      /\ lastId' = id /\ db' = db /\ readMark' = readMark
  BY DEF WriteFrame, Over, Overlay
<1>4. Len(Append(p, frame)) = Len(p) + 1
  BY <1>2, AppendProperties
<1> HIDE DEF frame
<1>5. OverIs(wal', wal, p, frame)
  BY <1>2, <1>3, Written
<1>6. mxFrame' = (IF isCommit THEN Len(p) + 1 ELSE kept)
  BY <1>3, <1>4, Zenon
<1>7. spilled' = (IF isCommit THEN 0 ELSE Len(p) + 1 - kept)
  BY <1>3, <1>4
<1> QED
  BY <1>2, <1>3, <1>5, <1>6, <1>7, Zenon DEF frame

\* A frame is written after the blocks p: the committed and the spilled ones of
\* the file, or a header alone.
LEMMA WriteFrameOK ==
  ASSUME SqliteTypeOK, SqliteOK, NEW p \in Seq(Block), p # <<>>, NEW id \in Nat,
         NEW isCommit \in BOOLEAN, NEW kept, NEW backfilled,
         WriteFrame(p, kept, backfilled, id, isCommit),
         p[1].prev = 0, \A i \in 2..Len(p) : p[i].prev # 0, ValidPrefix(p, Len(p)),
         p[Len(p)].id # 0,
         \/ /\ kept = mxFrame /\ backfilled = nBackfill /\ Len(p) = mxFrame + spilled
            /\ \A i \in 1..Len(p) : p[i] = wal[i]
         \/ /\ kept = 0 /\ backfilled = 0 /\ Len(p) = 1
            /\ p[1].tx = commits /\ db = 1..commits
            /\ \A c \in Connections : ~(readMark[c] > 0)
  PROVE  SqliteOK'
<1>1. PICK n \in Nat : n = Len(p)
  OBVIOUS
<1>2. p[n] \in Block /\ p[1] \in Block /\ n >= 1 /\ commits \in Nat /\ p[1].tx \in Nat
  <2>1. p[n] \in Block /\ p[1] \in Block /\ n >= 1
    BY <1>1
  <2> QED
    BY <2>1, BlockFields DEF SqliteTypeOK
<1>3. /\ p[1].prev = 0 /\ (\A i \in 2..n : p[i].prev # 0) /\ ValidPrefix(p, n)
      /\ p[n].id # 0
  BY <1>1
<1>4. \/ /\ kept = mxFrame /\ backfilled = nBackfill /\ n = mxFrame + spilled
         /\ \A i \in 1..n : p[i] = wal[i]
      \/ /\ kept = 0 /\ backfilled = 0 /\ n = 1
         /\ p[1].tx = commits /\ db = 1..commits
         /\ \A c \in Connections : ~(readMark[c] > 0)
  BY <1>1
<1>5. /\ wal \in Seq(Block) /\ mxFrame \in Nat /\ spilled \in Nat /\ nBackfill \in Nat
      /\ mxFrame + spilled <= Len(wal) /\ nBackfill <= mxFrame
      /\ readMark \in [Connections -> {NoRead} \cup Nat]
  BY DEF SqliteTypeOK
<1>6. PICK w : w = wal'
  OBVIOUS
<1>7. PICK frame \in Block :
        /\ frame = [id |-> id, prev |-> p[Len(p)].id, tx |-> commits + 1, commit |-> isCommit]
        /\ OverIs(wal', wal, p, frame)
        /\ mxFrame' = (IF isCommit THEN Len(p) + 1 ELSE kept)
        /\ spilled' = (IF isCommit THEN 0 ELSE Len(p) + 1 - kept)
        /\ nBackfill' = backfilled
        /\ commits' = (IF isCommit THEN commits + 1 ELSE commits)
        /\ lastId' = id /\ db' = db /\ readMark' = readMark
  <2>1. kept \in Nat
    BY <1>4, <1>5
  <2> QED
    BY <1>2, <1>5, <2>1, WriteFrameFile, Zenon
<1>8. /\ frame = [id |-> id, prev |-> p[n].id, tx |-> commits + 1, commit |-> isCommit]
      /\ OverIs(w, wal, p, frame)
      /\ mxFrame' = (IF isCommit THEN n + 1 ELSE kept)
      /\ spilled' = (IF isCommit THEN 0 ELSE n + 1 - kept)
      /\ nBackfill' = backfilled
      /\ commits' = (IF isCommit THEN commits + 1 ELSE commits)
      /\ lastId' = id /\ db' = db /\ readMark' = readMark
  BY <1>1, <1>6, <1>7
<1>9. /\ w \in Seq(Block) /\ Len(w) \in Nat /\ Len(w) >= n + 1
      /\ w[n + 1] = frame
      /\ \A i \in 1..n : w[i] = p[i]
      /\ \A i \in (n + 2)..Len(w) : i \in 1..Len(wal) /\ w[i] = wal[i]
  BY <1>1, <1>8 DEF OverIs
<1>10. frame.prev = p[n].id /\ frame.tx = commits + 1 /\ frame.commit = isCommit
  BY <1>8
<1>11. kept \in Nat /\ kept <= n /\ (kept = 0 \/ kept = mxFrame)
  BY <1>1, <1>2, <1>3, <1>4, <1>5 DEF SqliteTypeOK
<1>12. n <= Len(p) /\ n <= Len(w) /\ w \in Seq(Block)
  BY <1>1, <1>9
<1>13. \A i \in 1..n : w[i] = p[i]
  BY <1>9
<1>14. ValidPrefix(w, n + 1)
  <2>1. ValidPrefix(w, n)
    BY <1>3, <1>12, <1>13, SameBlocks
  <2>2. n + 1 # 1 /\ (n + 1) - 1 = n /\ n \in 1..n
    BY <1>1, <1>2, <1>3, <1>4, <1>5
  <2>3. w[n + 1].prev = w[n].id
    BY <1>10, <1>8, <1>9, <2>2
  <2>4. ASSUME NEW i \in 1..(n + 1) PROVE i \in 1..n \/ i = n + 1
    BY <1>1, <1>2, <1>3, <1>4, <1>5
  <2> QED
    BY <2>1, <2>2, <2>3, <2>4 DEF ValidPrefix
<1>15. w[1] = p[1] /\ w # <<>>
  BY <1>1, <1>2, <1>3, <1>4, <1>5, <1>8, <1>9
<1>16. isCommit => CommitAt(w, n + 1)
  <2>1. n + 1 \in 2..Len(w)
    BY <1>1, <1>2, <1>3, <1>4, <1>5, <1>8, <1>9
  <2> QED
    BY <1>10, <1>8, <1>9, <1>14, <2>1 DEF CommitAt
<1>17. kept # 0 => CommitAt(w, kept) /\ w[kept].tx = commits
  <2> SUFFICES ASSUME kept # 0 PROVE CommitAt(w, kept) /\ w[kept].tx = commits
    OBVIOUS
  <2>1. CommitAt(wal, kept) /\ wal[kept].tx = commits /\ kept \in 1..n
    BY <1>11 DEF SqliteOK, WalOK, SqliteTypeOK
  <2>2. n <= Len(wal) /\ \A i \in 1..n : w[i] = wal[i]
    BY <1>4, <1>5, <1>8, <1>9, <1>11 DEF SqliteTypeOK
  <2>3. CommitAt(w, kept)
    BY <1>5, <1>12, <2>1, <2>2, SameBlocks
  <2> QED
    BY <2>1, <2>2, <2>3
<1>18. kept = 0 => w[1].tx = commits
  <2> SUFFICES ASSUME kept = 0 PROVE p[1].tx = commits
    BY <1>15
  <2>1. CASE /\ kept = mxFrame /\ n = mxFrame + spilled
             /\ \A i \in 1..n : p[i] = wal[i]
    <3>1. wal # <<>> /\ mxFrame = 0
      BY <1>1, <1>2, <1>3, <1>4, <1>5, <2>1 DEF SqliteTypeOK
    <3>2. p[1] = wal[1]
      BY <1>1, <1>2, <1>3, <1>4, <1>5, <2>1
    <3> QED
      BY <3>1, <3>2 DEF SqliteOK, WalOK
  <2> QED
    BY <1>4, <2>1
<1>19. WalOK'
  <2>1. w # <<>> => w[1].prev = 0
    BY <1>3, <1>15
  <2>2. ASSUME NEW i \in 2..Len(w) PROVE w[i].prev # 0
    <3>1. CASE i \in 2..n
      <4>1. i \in 1..n
        BY <3>1
      <4> QED
        BY <1>3, <1>9, <3>1, <4>1
    <3>2. CASE i = n + 1
      BY <1>3, <1>10, <1>8, <1>9, <3>2
    <3>3. CASE i \in (n + 2)..Len(w)
      <4>1. i \in 1..Len(wal) /\ w[i] = wal[i]
        BY <1>9, <3>3
      <4>2. i \in 2..Len(wal)
        BY <2>2, <4>1
      <4> QED
        BY <4>1, <4>2 DEF SqliteOK, WalOK
    <3> QED
      BY <1>1, <1>2, <1>3, <1>4, <1>5, <3>1, <3>2, <3>3
  <2>3. mxFrame' + spilled' = n + 1
    BY <1>1, <1>2, <1>3, <1>4, <1>5, <1>8, <1>9, <1>11
  <2>4. ValidPrefix(w, mxFrame' + spilled')
    BY <1>14, <2>3
  <2>5. mxFrame' # 0 => CommitAt(w, mxFrame') /\ w[mxFrame'].tx = commits'
    <3>1. CASE isCommit
      <4>1. w[n + 1].tx = commits + 1
        BY <1>10, <1>8, <1>9
      <4> QED
        BY <1>8, <1>9, <1>16, <3>1, <4>1
    <3>2. CASE ~isCommit
      BY <1>8, <1>9, <1>17, <3>2
    <3> QED
      BY <3>1, <3>2
  <2>6. mxFrame' = 0 => w[1].tx = commits'
    BY <1>1, <1>2, <1>3, <1>4, <1>5, <1>8, <1>9, <1>18
  <2>7. spilled' # 0 => LET last == w[mxFrame' + spilled']
                        IN mxFrame' + spilled' >= 2 /\ ~last.commit /\ last.tx = commits' + 1
    <3> SUFFICES ASSUME ~isCommit PROVE n + 1 >= 2 /\ ~w[n + 1].commit /\ w[n + 1].tx = commits' + 1
      BY <1>8, <1>9, <2>3
    <3> QED
      BY <1>1, <1>2, <1>3, <1>4, <1>5, <1>10, <1>8, <1>9
  <2> QED
    BY <1>6, <2>1, <2>2, <2>4, <2>5, <2>6, <2>7 DEF WalOK
<1>20. DbOK'
  <2>1. PICK k \in 0..commits : db = 1..k
    BY DEF SqliteOK, DbOK
  <2>2. k \in 0..commits'
    BY <1>1, <1>2, <1>3, <1>4, <1>5, <1>8, <1>9
  <2>3. CASE kept = 0 /\ backfilled = 0 /\ p[1].tx = commits /\ db = 1..commits
    <3>1. mxFrame' = 0 => db = 1..commits'
      BY <1>1, <1>2, <1>3, <1>4, <1>5, <1>8, <1>9, <2>3
    <3> QED
      BY <1>8, <1>9, <1>6, <1>15, <2>1, <2>2, <2>3, <3>1 DEF DbOK
  <2>4. CASE /\ kept = mxFrame /\ backfilled = nBackfill /\ n = mxFrame + spilled
             /\ \A i \in 1..n : p[i] = wal[i]
    <3>1. mxFrame' = 0 => db = 1..commits'
      BY <1>1, <1>2, <1>3, <1>4, <1>5, <1>8, <1>9, <2>4 DEF SqliteOK, DbOK
    <3>2. n <= Len(wal) /\ nBackfill \in 0..n /\ wal # <<>> /\ \A i \in 1..n : w[i] = wal[i]
      BY <1>1, <1>2, <1>3, <1>4, <1>5, <1>8, <1>9, <2>4 DEF SqliteTypeOK
    <3>3. nBackfill # 0 => CommitAt(w, nBackfill) /\ 1..w[nBackfill].tx \subseteq db
      <4>1. nBackfill # 0 => CommitAt(wal, nBackfill) /\ 1..wal[nBackfill].tx \subseteq db
        BY DEF SqliteOK, DbOK
      <4>2. nBackfill # 0 => nBackfill \in 1..n
        BY <3>2
      <4>3. n <= Len(w)
        BY <1>1, <1>2, <1>3, <1>4, <1>5, <1>8, <1>9
      <4>4. nBackfill # 0 => CommitAt(w, nBackfill)
        BY <1>1, <1>2, <1>3, <1>4, <1>5, <1>8, <1>9, <3>2, <4>1, <4>2, <4>3, SameBlocks
      <4> QED
        BY <3>2, <4>1, <4>2, <4>4
    <3>4. 1..w[1].tx \subseteq db
      <4>1. w[1] = wal[1]
        BY <1>1, <1>2, <1>3, <1>4, <1>5, <3>2
      <4> QED
        BY <3>2, <4>1 DEF SqliteOK, DbOK
    <3> QED
      BY <1>8, <1>9, <1>6, <2>1, <2>2, <2>4, <3>1, <3>3, <3>4 DEF DbOK
  <2> QED
    BY <1>4, <2>3, <2>4
<1>21. MarksOK'
  <2> SUFFICES ASSUME NEW c \in Connections, readMark[c] > 0
               PROVE  readMark[c] <= mxFrame' /\ CommitAt(w, readMark[c])
    BY <1>8, <1>9, <1>6 DEF MarksOK
  <2>1. /\ kept = mxFrame /\ n = mxFrame + spilled
        /\ \A i \in 1..n : p[i] = wal[i]
    BY <1>4
  <2>2. readMark[c] <= mxFrame /\ CommitAt(wal, readMark[c]) /\ readMark[c] \in Nat
    BY DEF SqliteOK, MarksOK, SqliteTypeOK, NoRead
  <2>3. readMark[c] \in 1..n /\ n <= Len(wal) /\ n <= Len(w)
    BY <1>1, <1>2, <1>3, <1>4, <1>5, <1>8, <1>9, <2>1, <2>2 DEF SqliteTypeOK
  <2>4. \A i \in 1..n : w[i] = wal[i]
    BY <1>8, <1>9, <2>1
  <2>5. CommitAt(w, readMark[c])
    BY <1>1, <1>2, <1>3, <1>4, <1>5, <1>8, <1>9, <2>2, <2>3, <2>4, SameBlocks
  <2>6. readMark[c] <= mxFrame'
    BY <1>1, <1>2, <1>3, <1>4, <1>5, <1>8, <1>9, <2>1, <2>2, <2>3 DEF SqliteTypeOK
  <2> QED
    BY <2>5, <2>6
<1> QED
  BY <1>19, <1>20, <1>21 DEF SqliteOK

\* A header and a frame become part of the history.
LEMMA HistoryHeader ==
  ASSUME NEW K, NEW last \in Nat, NEW n \in Nat, History(K, last, n), NEW h,
         h = [id |-> last + 1, prev |-> 0, tx |-> n, commit |-> TRUE]
  PROVE  History(K \cup {h}, last + 1, n)
<1>1. h \in Block /\ h.id = last + 1 /\ h.prev = 0 /\ h.tx = n /\ h.commit = TRUE
  BY DEF Block
<1>2. ASSUME NEW b \in K
      PROVE  b \in Block /\ b.id \in 1..last /\ b.prev \in Nat /\ b.tx \in Nat /\ b.prev < b.id
  BY BlockFields DEF History
<1>3. ASSUME NEW b \in K PROVE b.id # h.id /\ h.prev # b.id /\ b.prev # h.id
  BY <1>1, <1>2
<1>4. h.prev # h.id
  BY <1>1
<1>5. ASSUME NEW b \in K \cup {h}
      PROVE  /\ b.id \in 1..(last + 1) /\ b.prev < b.id
             /\ b.prev = 0 => b.commit
             /\ b.commit => b.tx <= n
  <2>1. CASE b \in K
    BY <1>2, <2>1 DEF History
  <2>2. CASE b = h
    BY <1>1, <2>2
  <2> QED
    BY <2>1, <2>2
<1>6. ASSUME NEW b \in K \cup {h}, NEW c \in K \cup {h}
      PROVE  /\ b.id = c.id => b = c
             /\ c.prev = b.id => c.tx = TxAfter(b)
  BY <1>3, <1>4 DEF History
<1>7. K \cup {h} \subseteq Block
  BY <1>1, <1>2
<1> QED
  BY <1>5, <1>6, <1>7 DEF History

\* A frame of the next transaction adds to the history.
LEMMA HistoryFrame ==
  ASSUME NEW K, NEW last \in Nat, NEW n \in Nat, History(K, last, n), NEW isCommit \in BOOLEAN,
         NEW p \in K, TxAfter(p) = n + 1, NEW f,
         f = [id |-> last + 1, prev |-> p.id, tx |-> n + 1, commit |-> isCommit]
  PROVE  History(K \cup {f}, last + 1, IF isCommit THEN n + 1 ELSE n)
<1>1. ASSUME NEW b \in K
      PROVE  /\ b \in Block /\ b.id \in 1..last /\ b.prev \in Nat /\ b.tx \in Nat
             /\ b.prev < b.id /\ b.commit \in BOOLEAN
  BY BlockFields DEF History
<1>2. f \in Block /\ f.id = last + 1 /\ f.prev = p.id /\ f.tx = n + 1 /\ f.commit = isCommit
  BY <1>1 DEF Block
<1>3. ASSUME NEW b \in K PROVE b.id # f.id /\ b.prev # f.id
  BY <1>1, <1>2
<1>4. f.prev # f.id /\ f.prev # 0 /\ f.prev < f.id
  BY <1>1, <1>2
<1>5. ASSUME NEW b \in K \cup {f}
      PROVE  /\ b.id \in 1..(last + 1) /\ b.prev < b.id
             /\ b.prev = 0 => b.commit
             /\ b.commit => b.tx <= (IF isCommit THEN n + 1 ELSE n)
  <2>1. CASE b \in K
    <3>1. b.prev = 0 => b.commit
      BY <2>1 DEF History
    <3>2. b.commit => b.tx <= n
      BY <2>1 DEF History
    <3> QED
      BY <1>1, <2>1, <3>1, <3>2
  <2>2. CASE b = f
    BY <1>2, <1>4, <2>2
  <2> QED
    BY <2>1, <2>2
<1>6. ASSUME NEW b \in K \cup {f}, NEW c \in K \cup {f}
      PROVE  /\ b.id = c.id => b = c
             /\ c.prev = b.id => c.tx = TxAfter(b)
  <2>1. CASE b \in K /\ c \in K
    BY <2>1 DEF History
  <2>2. CASE b \in K /\ c = f
    <3>1. b.id # c.id
      BY <1>3, <2>2
    <3>2. c.prev = b.id => b = p
      BY <1>2, <2>2 DEF History
    <3> QED
      BY <1>2, <2>2, <3>1, <3>2
  <2>3. CASE b = f /\ c \in K
    BY <1>3, <2>3
  <2>4. CASE b = f /\ c = f
    BY <1>4, <2>4
  <2> QED
    BY <2>1, <2>2, <2>3, <2>4
<1>7. K \cup {f} \subseteq Block
  BY <1>1, <1>2
<1> QED
  BY <1>5, <1>6, <1>7 DEF History

\* A part of the history, and a history in which more has committed.
LEMMA HistoryPart ==
  ASSUME NEW K, NEW last, NEW n, History(K, last, n), NEW L, L \subseteq K
  PROVE  History(L, last, n)
  BY DEF History

\* The history goes on with what a step writes to the file.
GoesOn(K) == \E L : K \subseteq L /\ Blocks(wal') \subseteq L /\ History(L, lastId', commits')

\* A step that writes no block goes on with the history there is.
LEMMA GoesOnSame ==
  ASSUME NEW K, History(K, lastId, commits), Blocks(wal) \subseteq K,
         Blocks(wal') \subseteq Blocks(wal), lastId' = lastId, commits' = commits
  PROVE  GoesOn(K)
  BY DEF GoesOn

\* A frame that WriteFrame writes goes on with the history.
LEMMA WriteFrameHistory ==
  ASSUME SqliteTypeOK, NEW K, NEW last \in Nat, History(K, last, commits), NEW p \in Seq(Block),
         p # <<>>, Blocks(wal) \subseteq K, Blocks(p) \subseteq K, TxAfter(p[Len(p)]) = commits + 1,
         NEW isCommit \in BOOLEAN, NEW kept \in Nat, NEW backfilled,
         WriteFrame(p, kept, backfilled, last + 1, isCommit)
  PROVE  \E L : K \subseteq L /\ Blocks(wal') \subseteq L /\ History(L, lastId', commits')
<1>1. wal \in Seq(Block) /\ commits \in Nat /\ last + 1 \in Nat
  BY DEF SqliteTypeOK
<1>2. PICK b \in Block :
        /\ b = [id |-> last + 1, prev |-> p[Len(p)].id, tx |-> commits + 1, commit |-> isCommit]
        /\ OverIs(wal', wal, p, b)
        /\ mxFrame' = (IF isCommit THEN Len(p) + 1 ELSE kept)
        /\ spilled' = (IF isCommit THEN 0 ELSE Len(p) + 1 - kept)
        /\ nBackfill' = backfilled
        /\ commits' = (IF isCommit THEN commits + 1 ELSE commits)
        /\ lastId' = last + 1 /\ db' = db /\ readMark' = readMark
  BY <1>1, WriteFrameFile, Zenon
<1>3. p[Len(p)] \in K
  <2>1. Len(p) \in DOMAIN p
    OBVIOUS
  <2> QED
    BY <2>1 DEF Blocks
<1>4. History(K \cup {b}, lastId', commits')
  BY <1>1, <1>2, <1>3, HistoryFrame
<1>5. Blocks(wal') \subseteq K \cup {b}
  <2>1. PICK w : w = wal'
    OBVIOUS
  <2>2. PICK n \in Nat : n = Len(p)
    OBVIOUS
  <2>3. w \in Seq(Block) /\ Len(w) \in Nat /\ w[n + 1] = b
    BY <1>2, <2>1, <2>2 DEF OverIs
  <2>4. \A i \in 1..n : w[i] = p[i] /\ i \in DOMAIN p
    BY <1>2, <2>1, <2>2 DEF OverIs
  <2>5. \A i \in (n + 2)..Len(w) : w[i] = wal[i] /\ i \in DOMAIN wal
    BY <1>1, <1>2, <2>1, <2>2 DEF OverIs
  <2>6. \A i \in DOMAIN w : i \in 1..n \/ i = n + 1 \/ i \in (n + 2)..Len(w)
    BY <2>3
  <2>7. ASSUME NEW i \in DOMAIN w PROVE w[i] \in K \cup {b}
    BY <2>3, <2>4, <2>5, <2>6 DEF Blocks
  <2> QED
    BY <2>1, <2>7 DEF Blocks
<1> QED
  BY <1>4, <1>5

\* What is assumed before a step of SQLite and holds again after it.
SqliteInv(K) ==
  /\ SqliteTypeOK /\ SqliteOK
  /\ Blocks(wal) \subseteq K /\ History(K, lastId, commits)

\* The blocks of the file are linked.
LEMMA InvLinked ==
  ASSUME NEW K, SqliteInv(K)
  PROVE  Linked(wal, commits)
  BY HistoryLinks DEF SqliteInv

\* The committed and the spilled blocks, after which a transaction goes on.
LEMMA AppAppendOK ==
  ASSUME NEW K, SqliteInv(K), NEW isCommit \in BOOLEAN, AppAppend(isCommit)
  PROVE  SqliteOK' /\ GoesOn(K)
<1>1. PICK used \in Nat : used = mxFrame + spilled
  BY DEF SqliteInv, SqliteTypeOK
<1>2. used > 0 /\ used <= Len(wal) /\ wal \in Seq(Block) /\ mxFrame \in Nat /\ spilled \in Nat
  BY <1>1 DEF SqliteInv, SqliteTypeOK, AppAppend
<1>3. PICK p : p = SubSeq(wal, 1, used)
  OBVIOUS
<1>4. /\ p \in Seq(Block) /\ Len(p) = used /\ DOMAIN p = 1..used
      /\ \A i \in 1..used : p[i] = wal[i]
  BY <1>2, <1>3
<1>5. p # <<>>
  BY <1>2, <1>4
<1>6. WriteFrame(p, mxFrame, nBackfill, lastId + 1, isCommit)
  BY <1>1, <1>3 DEF AppAppend
<1>7. p[1].prev = 0 /\ \A i \in 2..used : p[i].prev # 0
  <2>1. 1 \in 1..used /\ wal # <<>> /\ \A i \in 2..used : i \in 1..used /\ i \in 2..Len(wal)
    BY <1>2
  <2>2. wal[1].prev = 0 /\ \A i \in 2..Len(wal) : wal[i].prev # 0
    BY <2>1 DEF SqliteInv, SqliteOK, WalOK
  <2> QED
    BY <1>4, <2>1, <2>2
<1>8. ValidPrefix(p, used)
  <2>1. ValidPrefix(wal, used)
    BY <1>1 DEF SqliteInv, SqliteOK, WalOK
  <2>2. used <= Len(p)
    BY <1>4
  <2> QED
    BY <1>2, <1>4, <2>1, <2>2, SameBlocks
<1>9. Blocks(p) \subseteq K
  <2>1. \A i \in 1..used : i \in DOMAIN wal
    BY <1>2
  <2> QED
    BY <1>4, <2>1 DEF Blocks, SqliteInv
<1>10. p[used] \in K /\ p[used] = wal[used] /\ p[used] \in Block
  BY <1>2, <1>4, <1>9 DEF Blocks
<1>11. p[used].id # 0
  BY <1>10 DEF SqliteInv, History
<1>12. TxAfter(p[used]) = commits + 1
  <2>1. CASE spilled = 0
    <3>1. used = mxFrame /\ mxFrame # 0
      BY <1>1, <1>2, <2>1
    <3>2. wal[used].commit /\ wal[used].tx = commits
      BY <3>1 DEF SqliteInv, SqliteOK, WalOK, CommitAt
    <3> QED
      BY <1>10, <3>2 DEF TxAfter
  <2>2. CASE spilled # 0
    <3>1. ~wal[used].commit /\ wal[used].tx = commits + 1
      BY <1>1, <2>2 DEF SqliteInv, SqliteOK, WalOK
    <3> QED
      BY <1>10, <3>1 DEF TxAfter
  <2> QED
    BY <2>1, <2>2
<1>13. lastId \in Nat /\ lastId + 1 \in Nat
  BY DEF SqliteInv, SqliteTypeOK
<1>14. /\ p[1].prev = 0 /\ (\A i \in 2..Len(p) : p[i].prev # 0) /\ ValidPrefix(p, Len(p))
       /\ p[Len(p)].id # 0 /\ TxAfter(p[Len(p)]) = commits + 1
  BY <1>4, <1>7, <1>8, <1>11, <1>12
<1>15. Len(p) = mxFrame + spilled /\ \A i \in 1..Len(p) : p[i] = wal[i]
  BY <1>1, <1>4
<1>16. SqliteOK'
  BY <1>4, <1>5, <1>6, <1>13, <1>14, <1>15, WriteFrameOK DEF SqliteInv
<1>17. GoesOn(K)
  <2>1. SqliteTypeOK /\ Blocks(wal) \subseteq K /\ History(K, lastId, commits)
    BY DEF SqliteInv
  <2>2. TxAfter(p[Len(p)]) = commits + 1
    BY <1>14
  <2> QED
    BY <1>2, <1>4, <1>5, <1>6, <1>9, <1>13, <2>1, <2>2, WriteFrameHistory DEF GoesOn
<1> QED
  BY <1>16, <1>17

\* One block, a header, after which a transaction begins the WAL again.
LEMMA BeginAgainOK ==
  ASSUME NEW K, SqliteTypeOK, SqliteOK, Blocks(wal) \subseteq K, NEW last \in Nat,
         History(K, last, commits), NEW h \in K, h.prev = 0, h.tx = commits, db = 1..commits,
         \A c \in Connections : ~(readMark[c] > 0),
         NEW isCommit \in BOOLEAN, WriteFrame(<<h>>, 0, 0, last + 1, isCommit)
  PROVE  SqliteOK' /\ GoesOn(K)
<1>1. h \in Block /\ h.id # 0 /\ h.commit
  BY DEF History
<1>2. PICK p : p = <<h>>
  OBVIOUS
<1>3. p \in Seq(Block) /\ Len(p) = 1 /\ p # <<>> /\ p[1] = h /\ DOMAIN p = {1}
  BY <1>1, <1>2
<1>4. WriteFrame(p, 0, 0, last + 1, isCommit) /\ last + 1 \in Nat
  BY <1>2
<1>5. /\ p[1].prev = 0 /\ (\A i \in 2..Len(p) : p[i].prev # 0)
      /\ p[Len(p)].id # 0 /\ TxAfter(p[Len(p)]) = commits + 1
  BY <1>1, <1>3 DEF TxAfter
<1>6. ValidPrefix(p, Len(p))
  BY <1>3 DEF ValidPrefix
<1>7. Blocks(p) \subseteq K
  BY <1>3 DEF Blocks
<1>8. SqliteOK'
  BY <1>3, <1>4, <1>5, <1>6, WriteFrameOK
<1>9. GoesOn(K)
  BY <1>3, <1>4, <1>5, <1>7, WriteFrameHistory DEF GoesOn
<1> QED
  BY <1>8, <1>9

\* All that is committed is in the database file, and no reader uses a frame.
LEMMA BackfilledAll ==
  ASSUME SqliteTypeOK, SqliteOK, mxFrame + spilled = 0 \/ Restartable
  PROVE  db = 1..commits /\ \A c \in Connections : ~(readMark[c] > 0)
<1>1. mxFrame \in Nat /\ spilled \in Nat /\ commits \in Nat
  BY DEF SqliteTypeOK
<1>2. CASE mxFrame = 0
  BY <1>2 DEF SqliteOK, DbOK, MarksOK, CommitAt, Restartable, SqliteTypeOK, NoRead
<1>3. CASE mxFrame # 0
  <2>1. Restartable
    BY <1>1, <1>3
  <2>2. nBackfill = mxFrame /\ \A c \in Connections : readMark[c] <= 0
    BY <2>1 DEF Restartable
  <2>3. 1..commits \subseteq db
    BY <1>3, <2>2 DEF SqliteOK, DbOK, WalOK
  <2>4. db = 1..commits
    BY <1>1, <2>3 DEF SqliteOK, DbOK
  <2>5. \A c \in Connections : ~(readMark[c] > 0)
    BY <2>2 DEF SqliteTypeOK, NoRead
  <2> QED
    BY <2>4, <2>5
<1> QED
  BY <1>2, <1>3

\* The WAL begins anew with a new header.
LEMMA AppRestartWalOK ==
  ASSUME NEW K, SqliteInv(K), NEW isCommit \in BOOLEAN, AppRestartWal(isCommit)
  PROVE  SqliteOK' /\ GoesOn(K)
<1>1. SqliteTypeOK /\ SqliteOK /\ Blocks(wal) \subseteq K /\ History(K, lastId, commits)
  BY DEF SqliteInv
<1>2. lastId \in Nat /\ commits \in Nat /\ lastId + 1 \in Nat /\ (lastId + 1) + 1 = lastId + 2
  BY <1>1 DEF SqliteTypeOK
<1>3. PICK h : h = [id |-> lastId + 1, prev |-> 0, tx |-> commits, commit |-> TRUE]
  OBVIOUS
<1>4. db = 1..commits /\ \A c \in Connections : ~(readMark[c] > 0)
  BY <1>1, BackfilledAll DEF AppRestartWal
<1>5. History(K \cup {h}, lastId + 1, commits)
  BY <1>1, <1>2, <1>3, HistoryHeader
<1>6. WriteFrame(<<h>>, 0, 0, (lastId + 1) + 1, isCommit)
  BY <1>2, <1>3 DEF AppRestartWal
<1>7. PICK L : L = K \cup {h}
  OBVIOUS
<1>8. /\ History(L, lastId + 1, commits) /\ h \in L /\ h.prev = 0 /\ h.tx = commits
      /\ Blocks(wal) \subseteq L
  BY <1>1, <1>3, <1>5, <1>7
<1>9. SqliteOK' /\ GoesOn(L)
  BY <1>1, <1>2, <1>4, <1>6, <1>8, BeginAgainOK
<1> QED
  BY <1>7, <1>9 DEF GoesOn

\* The WAL begins anew with the header it has.
LEMMA AppRewriteHeaderOK ==
  ASSUME NEW K, SqliteInv(K), NEW isCommit \in BOOLEAN, AppRewriteHeader(isCommit)
  PROVE  SqliteOK' /\ GoesOn(K)
<1>1. SqliteTypeOK /\ SqliteOK /\ Blocks(wal) \subseteq K /\ History(K, lastId, commits)
  BY DEF SqliteInv
<1>2. mxFrame + spilled = 0 /\ wal # <<>> /\ WriteFrame(<<wal[1]>>, 0, 0, lastId + 1, isCommit)
  BY DEF AppRewriteHeader
<1>3. lastId \in Nat /\ mxFrame = 0 /\ 1 \in DOMAIN wal
  BY <1>1, <1>2 DEF SqliteTypeOK
<1>4. db = 1..commits /\ \A c \in Connections : ~(readMark[c] > 0)
  BY <1>1, <1>2, BackfilledAll
<1>5. wal[1].prev = 0 /\ wal[1].tx = commits
  BY <1>1, <1>2, <1>3 DEF SqliteOK, WalOK
<1>6. wal[1] \in K
  BY <1>1, <1>3 DEF Blocks
<1> QED
  BY <1>1, <1>2, <1>3, <1>4, <1>5, <1>6, BeginAgainOK

\* A checkpoint copies from the WAL up to a commit, and takes the WAL away when
\* all of it is copied.
LEMMA WalCheckpointOK ==
  ASSUME NEW K, SqliteInv(K), NEW truncate \in BOOLEAN, WalCheckpoint(truncate), UNCHANGED readMark
  PROVE  SqliteOK' /\ GoesOn(K)
<1>1. /\ wal \in Seq(Block) /\ mxFrame \in Nat /\ spilled \in Nat /\ nBackfill \in Nat
      /\ mxFrame + spilled <= Len(wal) /\ nBackfill <= mxFrame
      /\ commits \in Nat /\ readMark \in [Connections -> {NoRead} \cup Nat]
  BY DEF SqliteInv, SqliteTypeOK
<1>2. WalOK /\ DbOK /\ MarksOK
  BY DEF SqliteInv, SqliteOK
<1>3. PICK done : done = Backfillable
  OBVIOUS
<1>4. PICK reset \in BOOLEAN :
        reset = (/\ truncate /\ spilled = 0 /\ done = mxFrame
                 /\ \A c \in Connections : readMark[c] <= 0)
  OBVIOUS
<1>5. /\ db' = db \cup {wal[i].tx : i \in 2..done}
      /\ wal' = (IF reset THEN <<>> ELSE wal)
      /\ mxFrame' = (IF reset THEN 0 ELSE mxFrame)
      /\ nBackfill' = (IF reset THEN 0 ELSE done)
      /\ spilled' = spilled /\ commits' = commits /\ lastId' = lastId /\ readMark' = readMark
  BY <1>3, <1>4 DEF WalCheckpoint
<1>6. done = nBackfill \/ done = mxFrame \/ \E c \in Connections : readMark[c] > 0 /\ done = readMark[c]
  BY <1>3 DEF Backfillable, UpTo, Connections
<1>7. done \in Nat /\ done <= mxFrame /\ (done # 0 => CommitAt(wal, done))
  <2>1. CASE done = nBackfill
    BY <1>1, <1>2, <2>1 DEF DbOK
  <2>2. CASE done = mxFrame
    BY <1>1, <1>2, <2>2 DEF WalOK
  <2>3. CASE \E c \in Connections : readMark[c] > 0 /\ done = readMark[c]
    BY <1>1, <1>2, <2>3 DEF MarksOK, NoRead
  <2> QED
    BY <1>6, <2>1, <2>2, <2>3
<1>8. PICK k \in 0..commits : db = 1..k
  BY <1>2 DEF DbOK
<1>9. ASSUME done = 0 PROVE DbOK'
  <2>1. db' = db
    <3>1. 2..done = {}
      BY <1>9
    <3> QED
      BY <1>5, <3>1
  <2>2. wal' # <<>> => 1..wal'[1].tx \subseteq db'
    BY <1>2, <1>5, <2>1 DEF DbOK
  <2>3. mxFrame' = 0 => db' = 1..commits
    BY <1>2, <1>4, <1>5, <1>9, <2>1 DEF DbOK
  <2>4. DbOK'
    <3>1. nBackfill' = 0
      BY <1>5, <1>9
    <3> QED
      BY <1>5, <1>8, <2>1, <2>2, <2>3, <3>1 DEF DbOK
  <2> QED
    BY <2>4
<1>10. ASSUME done # 0 PROVE DbOK'
  <2>1. CommitAt(wal, done) /\ done \in 2..Len(wal) /\ wal[done].commit
    BY <1>7, <1>10 DEF CommitAt
  <2>2. Linked(wal, commits)
    BY InvLinked
  <2>3. done \in 1..Len(wal) /\ ValidPrefix(wal, done)
    BY <2>1 DEF CommitAt
  <2>4. /\ {wal[i].tx : i \in 2..done} = (wal[1].tx + 1)..wal[done].tx
        /\ wal[1].tx <= wal[done].tx
    BY <1>1, <2>2, <2>3, Chain
  <2>5. wal[1].tx \in Nat /\ wal[done].tx \in Nat
    <3>1. wal[1] \in Block /\ wal[done] \in Block
      BY <1>1, <2>3
    <3> QED
      BY <3>1, BlockFields
  <2>6. wal[done].tx <= commits
    BY <2>1, <2>2, <2>3 DEF Linked
  <2>7. 1..wal[1].tx \subseteq 1..k
    BY <1>2, <1>8, <2>1 DEF DbOK
  <2>8. wal[1].tx <= k
    <3>1. wal[1].tx # 0 => wal[1].tx \in 1..wal[1].tx
      BY <2>5
    <3> QED
      BY <2>5, <2>7, <3>1
  <2>9. db' = (1..k) \cup ((wal[1].tx + 1)..wal[done].tx)
    BY <1>5, <1>8, <2>4
  <2>10. PICK m \in 0..commits : m >= k /\ m >= wal[done].tx /\ (m = k \/ m = wal[done].tx)
    <3>1. CASE k >= wal[done].tx
      BY <2>5, <3>1
    <3>2. CASE k < wal[done].tx
      BY <1>1, <2>5, <2>6, <3>2
    <3> QED
      BY <2>5, <3>1, <3>2
  <2>11. db' = 1..m
    BY <2>5, <2>8, <2>9, <2>10
  <2>12. 1..wal[done].tx \subseteq db' /\ 1..wal[1].tx \subseteq db'
    BY <2>4, <2>5, <2>10, <2>11
  <2>13. mxFrame' = 0 => db' = 1..commits
    <3> SUFFICES ASSUME mxFrame' = 0 PROVE m = commits
      BY <2>11
    <3>1. reset /\ done = mxFrame
      BY <1>1, <1>4, <1>5, <1>7, <1>10
    <3>2. wal[done].tx = commits
      BY <1>2, <1>10, <3>1 DEF WalOK
    <3> QED
      BY <1>1, <2>10, <3>2
  <2>14. nBackfill' # 0 => CommitAt(wal', nBackfill') /\ 1..wal'[nBackfill'].tx \subseteq db'
    BY <1>5, <2>1, <2>12
  <2>15. wal' # <<>> => 1..wal'[1].tx \subseteq db'
    BY <1>5, <2>12
  <2>16. DbOK'
    BY <1>5, <2>11, <2>13, <2>14, <2>15 DEF DbOK
  <2> QED
    BY <2>16
<1>11. DbOK'
  BY <1>9, <1>10
<1>12. WalOK'
  <2>1. CASE reset
    <3>1. wal' = <<>> /\ mxFrame' = 0 /\ spilled' = 0
      BY <1>4, <1>5, <2>1
    <3> QED
      BY <3>1 DEF WalOK, ValidPrefix
  <2>2. CASE ~reset
    BY <1>2, <1>5, <2>2 DEF WalOK
  <2> QED
    BY <2>1, <2>2
<1>13. MarksOK'
  <2>1. CASE reset
    <3>1. \A c \in Connections : readMark[c] <= 0
      BY <1>4, <2>1, Zenon
    <3>2. \A c \in Connections : ~(readMark[c] > 0)
      BY <1>1, <3>1 DEF NoRead
    <3> QED
      BY <1>5, <3>2 DEF MarksOK
  <2>2. CASE ~reset
    BY <1>2, <1>5, <2>2 DEF MarksOK
  <2> QED
    BY <2>1, <2>2
<1>14. GoesOn(K)
  <2>1. Blocks(wal') \subseteq Blocks(wal)
    BY <1>5 DEF Blocks
  <2> QED
    BY <1>5, <2>1, GoesOnSame DEF SqliteInv
<1> QED
  BY <1>11, <1>12, <1>13, <1>14 DEF SqliteOK

\* All frames that were spilled count, or none of them.
LEMMA FewerFrames ==
  ASSUME NEW m \in Nat, NEW n \in Nat, NEW k \in {0, n}
  PROVE  m + k \in 0..(m + n)
OBVIOUS

\* Steps that leave the files alone: a reader begins or ends, a transaction
\* rolls back, every process dies.
LEMMA FilesKeptOK ==
  ASSUME NEW K, SqliteInv(K), UNCHANGED <<wal, mxFrame, db, commits, lastId>>,
         spilled' \in {0, spilled}, nBackfill' \in {0, nBackfill},
         \A c \in Connections : readMark'[c] \in {NoRead, NewMark, readMark[c]}
  PROVE  SqliteOK' /\ GoesOn(K)
<1>1. SqliteTypeOK /\ WalOK /\ DbOK /\ MarksOK
  BY DEF SqliteInv, SqliteOK
<1>2. mxFrame \in Nat /\ spilled \in Nat
  BY <1>1 DEF SqliteTypeOK
<1>3. WalOK'
  <2>1. ValidPrefix(wal, mxFrame + spilled')
    <3>1. mxFrame + spilled' \in 0..(mxFrame + spilled)
      BY <1>2, FewerFrames
    <3> QED
      BY <1>1, <1>2, <3>1, ShorterPrefix DEF WalOK
  <2>2. spilled' # 0 => spilled' = spilled
    OBVIOUS
  <2> QED
    BY <1>1, <2>1, <2>2 DEF WalOK
<1>4. DbOK'
  BY <1>1 DEF DbOK
<1>5. MarksOK'
  <2> SUFFICES ASSUME NEW c \in Connections, readMark'[c] > 0
               PROVE  readMark'[c] <= mxFrame /\ CommitAt(wal, readMark'[c])
    BY DEF MarksOK
  <2>1. CASE readMark'[c] = readMark[c]
    BY <1>1, <2>1 DEF MarksOK
  <2>2. CASE readMark'[c] = NewMark
    <3>1. readMark'[c] = mxFrame /\ mxFrame # 0
      BY <1>2, <2>2 DEF NewMark
    <3> QED
      BY <1>1, <1>2, <3>1 DEF WalOK
  <2> QED
    BY <2>1, <2>2 DEF NoRead
<1>6. GoesOn(K)
  BY GoesOnSame DEF SqliteInv, Blocks
<1> QED
  BY <1>3, <1>4, <1>5, <1>6 DEF SqliteOK

\* A step of the application.
LEMMA AppOK ==
  ASSUME NEW K, SqliteInv(K), App
  PROVE  SqliteOK' /\ GoesOn(K)
<1>1. readMark \in [Connections -> {NoRead} \cup Nat]
  BY DEF SqliteInv, SqliteTypeOK
<1>2. ASSUME NEW c \in BOOLEAN, AppAppend(c) PROVE SqliteOK' /\ GoesOn(K)
  BY <1>2, AppAppendOK
<1>3. ASSUME NEW c \in BOOLEAN, AppRestartWal(c) PROVE SqliteOK' /\ GoesOn(K)
  BY <1>3, AppRestartWalOK
<1>4. ASSUME NEW c \in BOOLEAN, AppRewriteHeader(c) PROVE SqliteOK' /\ GoesOn(K)
  BY <1>4, AppRewriteHeaderOK
<1>5. CASE AppRollback
  BY <1>5, FilesKeptOK DEF AppRollback
<1>6. CASE AppReadBegin
  BY <1>1, <1>6, FilesKeptOK DEF AppReadBegin
<1>7. CASE AppReadEnd
  BY <1>1, <1>7, FilesKeptOK DEF AppReadEnd
<1>8. ASSUME NEW t \in BOOLEAN, AppCheckpoint(t) PROVE SqliteOK' /\ GoesOn(K)
  BY <1>8, WalCheckpointOK DEF AppCheckpoint
<1> QED
  BY <1>2, <1>3, <1>4, <1>5, <1>6, <1>7, <1>8 DEF App

\* The blocks that exist somewhere: in the file, in memory, in the bucket.
StoredBlocks(b) == UNION {Blocks(b[k]) : k \in {k \in DOMAIN b : k[1] = "wal"}}
Known == Blocks(wal) \cup Blocks(data) \cup StoredBlocks(bucket)

\* The invariant of the files and of all copies of their blocks.
HInv == SqliteOK /\ History(Known, lastId, commits)

-----------------------------------------------------------------------------
(* Every step is one of SQLite, and no step makes up a block. *)

\* A connection begins or ends to read, or goes on.
MarksMove == \A c \in Connections : readMark'[c] \in {NoRead, NewMark, readMark[c]}

FilesKept ==
  /\ UNCHANGED <<wal, mxFrame, db, commits, lastId>>
  /\ spilled' \in {0, spilled} /\ nBackfill' \in {0, nBackfill}
  /\ MarksMove

\* The manager begins or ends its read transaction, or goes on.
LEMMA PinMoves ==
  ASSUME TypeOK, NEW mark \in {NoRead, NewMark, readMark["waloy"]}, Pin(mark)
  PROVE  MarksMove
  BY DEF TypeOK, SqliteTypeOK, Pin, MarksMove, Connections

\* Nobody begins or ends to read.
LEMMA MarksStay ==
  ASSUME UNCHANGED readMark
  PROVE  MarksMove
  BY DEF MarksMove

\* A sync that returns moves the mark of the manager only.
LEMMA SyncReturnMoves ==
  ASSUME TypeOK, NEW c, NEW o, NEW mark \in {NoRead, NewMark, readMark["waloy"]},
         SyncReturn(c, o, mark)
  PROVE  MarksMove
  BY PinMoves DEF SyncReturn

\* The mark begin_read_transaction gives is a new one or none.
LEMMA MarksAfter ==
  MarksAfterBegin \subseteq {NoRead, NewMark, readMark["waloy"]}
  BY DEF MarksAfterBegin

\* A snapshot that returns moves the mark of the manager only.
LEMMA SnapshotReturnMoves ==
  ASSUME TypeOK, NEW o, SnapshotReturn(o)
  PROVE  MarksMove
<1>1. CASE UNCHANGED readMark
  BY <1>1, MarksStay
<1>2. CASE Pin(NoRead)
  BY <1>2, PinMoves
<1>3. CASE SyncReturn(api, "err", readMark["waloy"])
  BY <1>3, SyncReturnMoves
<1>4. ASSUME NEW mark \in MarksAfterBegin, NEW x, SyncReturn(api, x, mark)
      PROVE  MarksMove
  BY <1>4, MarksAfter, SyncReturnMoves
<1>5. ASSUME NEW mark \in MarksAfterBegin, Pin(mark)
      PROVE  MarksMove
  BY <1>5, MarksAfter, PinMoves
<1> QED
  BY <1>1, <1>2, <1>3, <1>4, <1>5 DEF SnapshotReturn

\* So does the first step of a sync.
LEMMA SyncMoves ==
  ASSUME TypeOK, NEW c, SyncWal(c)
  PROVE  MarksMove
<1>1. CASE \E o : SyncReturn(c, o, readMark["waloy"])
  BY <1>1, SyncReturnMoves
<1>2. CASE Recover(c)
  BY <1>2, PinMoves DEF Recover
<1>3. CASE UNCHANGED readMark
  BY <1>3, MarksStay
<1> QED
  BY <1>1, <1>2, <1>3 DEF SyncWal, ReadNewFrames

\* What a step is to SQLite.
LEMMA DatabaseStep ==
  ASSUME TypeOK, [Next]_vars
  PROVE  App \/ (CheckpointWal /\ WalCheckpoint(TRUE) /\ UNCHANGED readMark) \/ FilesKept
<1>1. CASE UNCHANGED sqliteFiles /\ MarksMove
  BY <1>1 DEF FilesKept, sqliteFiles
<1>2. CASE AppStep
  BY <1>2 DEF AppStep
<1>3. CASE New
  <2>1. MarksMove
    BY <1>3, PinMoves DEF New
  <2> QED
    BY <1>1, <1>3, <2>1 DEF New
<1>4. ASSUME NEW c, SyncWal(c) PROVE UNCHANGED sqliteFiles /\ MarksMove
  BY <1>4, SyncMoves DEF SyncWal
<1>5. ASSUME NEW o, PutSegment(o) \/ PutSegmentManifest(o) PROVE UNCHANGED sqliteFiles /\ MarksMove
  BY <1>5, SyncReturnMoves, MarksStay DEF PutSegment, PutSegmentManifest
<1>6. CASE CheckpointWal
  BY <1>1, <1>6, MarksStay DEF CheckpointWal
<1>7. CASE Snapshot \/ Compaction \/ Retention
  <2>1. UNCHANGED sqliteVars
    BY <1>7 DEF Snapshot, Compaction, Retention, Compact, CompactGet, CompactPut, CompactManifest,
                CompactDelete, EnforceRetention, RetentionNext, RetentionDelete
  <2> QED
    BY <1>1, <2>1, MarksStay DEF sqliteVars
<1>8. ASSUME NEW o, ReadDb(o) \/ PutSnapshot(o) \/ PutLatest(o) \/ PutSnapshotManifest(o)
      PROVE  UNCHANGED sqliteFiles /\ MarksMove
  BY <1>8, SnapshotReturnMoves, MarksStay DEF ReadDb, PutSnapshot, PutLatest, PutSnapshotManifest
<1>9. CASE Drop
  BY <1>1, <1>9, PinMoves DEF Drop
<1>10. CASE Crash
  BY <1>10 DEF Crash, SqliteCrash, FilesKept, MarksMove
<1>11. CASE UNCHANGED vars
  BY <1>1, <1>11, MarksStay DEF vars, sqliteVars
<1> QED
  BY <1>1, <1>2, <1>3, <1>4, <1>5, <1>6, <1>7, <1>8, <1>9, <1>10, <1>11
     DEF Next, Manager, Sync, TakeSnapshot

\* The blocks of an object are stored, and an object of known blocks adds none.
LEMMA ObjectBlocks ==
  ASSUME NEW b, NEW k \in DOMAIN b, k[1] = "wal"
  PROVE  Blocks(b[k]) \subseteq StoredBlocks(b)
  BY DEF StoredBlocks

\* An upload of known blocks stores known blocks.
LEMMA PutKnown ==
  ASSUME NEW o, NEW k, NEW v, PutObject(o, k, v), k[1] = "wal" => Blocks(v) \subseteq Known
  PROVE  StoredBlocks(bucket') \subseteq Known
<1>1. ASSUME NEW x \in DOMAIN bucket', x[1] = "wal"
      PROVE  Blocks(bucket'[x]) \subseteq Known
  <2>1. \/ x = k /\ bucket'[x] = v
        \/ x \in DOMAIN bucket /\ bucket'[x] = bucket[x]
    BY DEF PutObject
  <2>2. CASE x \in DOMAIN bucket /\ bucket'[x] = bucket[x]
    BY <1>1, <2>2, ObjectBlocks DEF Known
  <2> QED
    BY <1>1, <2>1, <2>2
<1> QED
  BY <1>1 DEF StoredBlocks

\* A deletion stores nothing.
LEMMA DeleteKnown ==
  ASSUME NEW o, NEW k, DeleteObject(o, k)
  PROVE  StoredBlocks(bucket') \subseteq Known
<1>1. ASSUME NEW x \in DOMAIN bucket', x[1] = "wal"
      PROVE  Blocks(bucket'[x]) \subseteq Known
  <2>1. x \in DOMAIN bucket /\ bucket'[x] = bucket[x]
    BY DEF DeleteObject
  <2> QED
    BY <1>1, <2>1, ObjectBlocks DEF Known
<1> QED
  BY <1>1 DEF StoredBlocks

\* Blocks cut from known ones, or put behind others.
LEMMA CutKnown ==
  ASSUME NEW s \in Seq(Block), NEW m \in Nat, NEW n \in Nat, m >= 1, n <= Len(s)
  PROVE  Blocks(SubSeq(s, m, n)) \subseteq Blocks(s)
<1>1. PICK c : c = SubSeq(s, m, n)
  OBVIOUS
<1>2. \A i \in DOMAIN c : m + i - 1 \in DOMAIN s /\ c[i] = s[m + i - 1]
  BY <1>1
<1> QED
  BY <1>1, <1>2 DEF Blocks

\* The blocks of two sequences together are those of either.
LEMMA JoinKnown ==
  ASSUME NEW s \in Seq(Block), NEW t \in Seq(Block)
  PROVE  Blocks(s \o t) \subseteq Blocks(s) \cup Blocks(t)
<1>1. PICK c : c = s \o t
  OBVIOUS
<1>2. ASSUME NEW i \in DOMAIN c PROVE c[i] \in Blocks(s) \cup Blocks(t)
  <2>1. CASE i <= Len(s)
    <3>1. i \in DOMAIN s /\ c[i] = s[i]
      BY <1>1, <2>1
    <3> QED
      BY <3>1 DEF Blocks
  <2>2. CASE ~(i <= Len(s))
    <3>1. i - Len(s) \in DOMAIN t /\ c[i] = t[i - Len(s)]
      BY <1>1, <2>2
    <3> QED
      BY <3>1 DEF Blocks
  <2> QED
    BY <2>1, <2>2
<1> QED
  BY <1>1, <1>2 DEF Blocks

\* What is in memory is kept or forgotten, or comes from known blocks.
DataKnown == Blocks(data') \subseteq Known
StoreKnown == StoredBlocks(bucket') \subseteq Known

\* What is in memory is kept or forgotten.
LEMMA KeepsData ==
  ASSUME data' = <<>> \/ data' = data
  PROVE  DataKnown
  BY DEF DataKnown, Blocks, Known

\* What is stored is kept.
LEMMA KeepsStore ==
  ASSUME UNCHANGED bucket
  PROVE  StoreKnown
  BY DEF StoreKnown, Known

\* A sync that returns forgets what it has read.
LEMMA SyncReturnData ==
  ASSUME NEW c, NEW o, NEW mark, SyncReturn(c, o, mark)
  PROVE  data' = <<>>
  BY DEF SyncReturn, Idle, ClearLocals

\* So does a snapshot.
LEMMA SnapshotReturnData ==
  ASSUME NEW o, SnapshotReturn(o)
  PROVE  data' = <<>>
  BY SyncReturnData DEF SnapshotReturn, Idle, ClearLocals

\* sync_wal reads blocks of the file.
LEMMA SyncWalKnown ==
  ASSUME TypeOK, NEW c, SyncWal(c)
  PROVE  DataKnown /\ StoreKnown
<1>1. StoreKnown
  BY KeepsStore DEF SyncWal
<1>2. CASE \E o : SyncReturn(c, o, readMark["waloy"])
  BY <1>1, <1>2, SyncReturnData, KeepsData
<1>3. CASE Recover(c)
  BY <1>1, <1>3, KeepsData DEF Recover, EnterSnapshot, syncLocals
<1>4. CASE Len(wal) > 1 /\ ~NothingNew /\ data' = NewFrames
  <2>1. wal \in Seq(Block) /\ wal_offset \in Nat
    BY DEF TypeOK, SqliteTypeOK, ManagerTypeOK
  <2>2. Blocks(SubSeq(wal, wal_offset + 1, Len(wal))) \subseteq Blocks(wal)
    <3>1. wal_offset + 1 \in Nat /\ wal_offset + 1 >= 1 /\ Len(wal) \in Nat /\ Len(wal) <= Len(wal)
      BY <2>1
    <3> QED
      BY <2>1, <3>1, CutKnown
  <2> QED
    BY <1>1, <1>4, <2>2 DEF DataKnown, NewFrames, Known
<1> QED
  BY <1>2, <1>3, <1>4 DEF SyncWal, ReadNewFrames

\* compact reads blocks of the bucket...
LEMMA CompactGetKnown ==
  ASSUME TypeOK, StepOK, CompactGet
  PROVE  DataKnown /\ StoreKnown
<1>1. StoreKnown
  BY KeepsStore DEF CompactGet
<1>2. CASE Idle
  BY <1>1, <1>2, KeepsData DEF Idle, ClearLocals
<1>3. CASE Stored(Head(todo)) /\ data' = data \o bucket[Head(todo)]
  <2>1. todo \in Seq(WalKeys) /\ todo # <<>>
    BY DEF TypeOK, CallTypeOK, StepOK, CompactGet
  <2>2. Head(todo) \in WalKeys
    BY <2>1
  <2>3. Head(todo) \in DOMAIN bucket /\ Head(todo)[1] = "wal"
    BY <1>3, <2>2 DEF Stored, WalKeys, WalKey
  <2>4. bucket[Head(todo)] \in Seq(Block) /\ data \in Seq(Block)
    BY <2>3 DEF TypeOK, CallTypeOK, BucketTypeOK, ObjectTypeOK
  <2>5. Blocks(bucket[Head(todo)]) \subseteq StoredBlocks(bucket)
    BY <2>3, ObjectBlocks
  <2> QED
    BY <1>1, <1>3, <2>4, <2>5, JoinKnown DEF DataKnown, Known
<1> QED
  BY <1>2, <1>3 DEF CompactGet

\* ... and stores blocks it has read.
LEMMA CompactPutKnown ==
  ASSUME TypeOK, StepOK, NEW o, CompactPut(o)
  PROVE  DataKnown /\ StoreKnown
<1>1. DataKnown
  BY KeepsData DEF CompactPut, Idle, ClearLocals, syncLocals
<1>2. data \in Seq(Block) /\ newSegments \in Seq(SegmentMeta) /\ maxSize \in Nat
  BY DEF TypeOK, CallTypeOK
<1>3. CompactOffset \in Nat /\ CompactEnd \in Nat /\ CompactEnd <= Len(data)
  <2>1. CompactOffset \in Nat
    <3>1. newSegments # <<>> => newSegments[Len(newSegments)] \in SegmentMeta
      BY <1>2
    <3> QED
      BY <3>1 DEF CompactOffset, SegmentMeta
  <2> QED
    BY <1>2, <2>1 DEF CompactEnd
<1>4. Blocks(SubSeq(data, CompactOffset + 1, CompactEnd)) \subseteq Blocks(data)
  <2>1. CompactOffset + 1 \in Nat /\ CompactOffset + 1 >= 1
    BY <1>3
  <2> QED
    BY <1>2, <1>3, <2>1, CutKnown
<1>5. StoreKnown
  BY <1>4, PutKnown DEF CompactPut, StoreKnown, Known
<1> QED
  BY <1>1, <1>5

\* No step makes up a block.
LEMMA NothingInvented ==
  ASSUME TypeOK, StepOK, [Next]_vars
  PROVE  DataKnown /\ StoreKnown
<1>1. CASE AppStep \/ UNCHANGED vars
  BY <1>1, KeepsData, KeepsStore DEF AppStep, vars, call, locals, syncLocals
<1>2. CASE New \/ Snapshot
  BY <1>2, KeepsData, KeepsStore DEF New, Snapshot, EnterSnapshot, syncLocals
<1>3. ASSUME NEW o, PutSegment(o) PROVE DataKnown /\ StoreKnown
  <2>1. StoreKnown
    BY <1>3, PutKnown DEF PutSegment, StoreKnown, Known
  <2> QED
    BY <1>3, <2>1, KeepsData, SyncReturnData DEF PutSegment, locals, syncLocals
<1>4. ASSUME NEW o, PutSegmentManifest(o) PROVE DataKnown /\ StoreKnown
  <2>1. StoreKnown
    BY <1>4, PutKnown DEF PutSegmentManifest, StoreKnown, ManifestKey
  <2> QED
    BY <1>4, <2>1, KeepsData, SyncReturnData DEF PutSegmentManifest
<1>5. CASE CheckpointWal
  BY <1>5, KeepsData, KeepsStore DEF CheckpointWal, EnterSnapshot, syncLocals, Idle, ClearLocals
<1>6. ASSUME NEW o, ReadDb(o) PROVE DataKnown /\ StoreKnown
  BY <1>6, KeepsData, KeepsStore, SnapshotReturnData DEF ReadDb, syncLocals
<1>7. ASSUME NEW o, PutSnapshot(o) PROVE DataKnown /\ StoreKnown
  <2>1. StoreKnown
    BY <1>7, PutKnown DEF PutSnapshot, StoreKnown, SnapshotKey
  <2> QED
    BY <1>7, <2>1, KeepsData, SnapshotReturnData DEF PutSnapshot, locals, syncLocals
<1>8. ASSUME NEW o, PutLatest(o) PROVE DataKnown /\ StoreKnown
  <2>1. StoreKnown
    BY <1>8, PutKnown DEF PutLatest, StoreKnown, LatestKey
  <2> QED
    BY <1>8, <2>1, KeepsData, SnapshotReturnData DEF PutLatest, locals, syncLocals
<1>9. ASSUME NEW o, PutSnapshotManifest(o) PROVE DataKnown /\ StoreKnown
  <2>1. StoreKnown
    BY <1>9, PutKnown DEF PutSnapshotManifest, StoreKnown, ManifestKey
  <2> QED
    BY <1>9, <2>1, KeepsData, SnapshotReturnData DEF PutSnapshotManifest
<1>10. CASE \E size \in SegmentSizes : Compact(size)
  BY <1>10, KeepsData, KeepsStore DEF Compact
<1>11. ASSUME NEW o, CompactManifest(o) PROVE DataKnown /\ StoreKnown
  <2>1. StoreKnown
    BY <1>11, PutKnown DEF CompactManifest, StoreKnown, ManifestKey
  <2> QED
    BY <1>11, <2>1, KeepsData DEF CompactManifest, syncLocals, Idle, ClearLocals
<1>12. ASSUME NEW o, CompactDelete(o) PROVE DataKnown /\ StoreKnown
  <2>1. StoreKnown
    BY <1>12, DeleteKnown DEF CompactDelete, StoreKnown
  <2> QED
    BY <1>12, <2>1, KeepsData DEF CompactDelete, syncLocals, Idle, ClearLocals
<1>13. ASSUME NEW cutoff, EnforceRetention(cutoff) PROVE DataKnown /\ StoreKnown
  BY <1>13, KeepsData, KeepsStore DEF EnforceRetention, syncLocals
<1>14. CASE RetentionNext
  BY <1>14, KeepsData, KeepsStore DEF RetentionNext, syncLocals, Idle, ClearLocals
<1>15. ASSUME NEW o, RetentionDelete(o) PROVE DataKnown /\ StoreKnown
  <2>1. StoreKnown
    BY <1>15, DeleteKnown DEF RetentionDelete, StoreKnown
  <2> QED
    BY <1>15, <2>1, KeepsData DEF RetentionDelete, syncLocals, Idle, ClearLocals
<1>16. CASE Drop \/ Crash
  BY <1>16, KeepsData, KeepsStore DEF Drop, Crash, Gone, Idle, ClearLocals
<1> QED
  BY <1>1, <1>2, <1>3, <1>4, <1>5, <1>6, <1>7, <1>8, <1>9, <1>10, <1>11, <1>12, <1>13, <1>14,
     <1>15, <1>16, SyncWalKnown, CompactGetKnown, CompactPutKnown
     DEF Next, Manager, Sync, TakeSnapshot, Compaction, Retention

\* The files and all copies of their blocks keep to one history, whatever fails.
LEMMA HNext ==
  ASSUME TypeOK, StepOK, HInv, [Next]_vars
  PROVE  HInv'
<1>1. SqliteInv(Known)
  BY DEF HInv, SqliteInv, Known, TypeOK
<1>2. SqliteOK' /\ GoesOn(Known)
  BY <1>1, DatabaseStep, AppOK, WalCheckpointOK, FilesKeptOK DEF FilesKept, MarksMove
<1>3. PICK L : Known \subseteq L /\ Blocks(wal') \subseteq L /\ History(L, lastId', commits')
  BY <1>2 DEF GoesOn
<1>4. Known' \subseteq L
  BY <1>3, NothingInvented DEF Known, DataKnown, StoreKnown
<1>5. PICK M : M = Known'
  OBVIOUS
<1>6. History(M, lastId', commits')
  BY <1>3, <1>4, <1>5, HistoryPart
<1> QED
  BY <1>2, <1>5, <1>6 DEF HInv

\* The history begins without a block.
LEMMA HInit ==
  ASSUME Init
  PROVE  HInv
<1>1. wal = <<>> /\ data = <<>> /\ DOMAIN bucket = {}
  BY DEF Init, SqliteInit
<1>2. Known = {}
  BY <1>1 DEF Known, Blocks, StoredBlocks
<1>3. SqliteOK
  BY DEF Init, SqliteInit, SqliteOK, WalOK, DbOK, MarksOK, ValidPrefix, NoRead
<1> QED
  BY <1>2, <1>3 DEF HInv, History

\* The blocks of the WAL, of what a call has in memory and of every segment in the
\* bucket belong to one history, and the WAL and the database file together hold
\* every committed transaction: whatever fails, crashes or checkpoints.
THEOREM OneHistory == Spec => []HInv
<1> DEFINE Inv == TypeOK /\ StepOK /\ HInv
<1>1. Init => Inv
  BY InitInv, HInit
<1>2. Inv /\ [Next]_vars => Inv'
  BY NextInv, HNext
<1>3. Inv => HInv
  OBVIOUS
<1> QED
  BY <1>1, <1>2, <1>3, PTL DEF Spec

-----------------------------------------------------------------------------
(* The database file changes with the generation only, and every object     *)
(* that is put belongs to the current one.                                  *)

Undisturbed == "ext_checkpoint" \notin Env

\* What is put is what snapshot() or sync_wal read, or a merged segment.
Put(x) ==
  \/ x[1] = "latest" /\ x[2] = 0
  \/ x[1] = "manifest" /\ x[2] = generation
  \/ x = SnapshotKey(generation) /\ step = "put_snapshot" /\ bucket'[x] = image
  \/ x = WalKey(generation, wal_index) /\ step = "put_segment" /\ bucket'[x] = data
  \/ x[1] = "wal" /\ x[2] = generation /\ step = "compact_put"

Untouched(x) == x \in DOMAIN bucket /\ bucket'[x] = bucket[x]

ObjectStep == \A x \in DOMAIN bucket' : Untouched(x) \/ Put(x)

GenerationStep ==
  \/ generation' = generation
  \/ generation' = generation + 1 /\ UNCHANGED bucket

DbStep ==
  \/ db' = db
  \/ /\ generation' = generation + 1 /\ UNCHANGED bucket
     /\ step' = "read_db" /\ image' = db'

\* What is read of the files, and when.
ReadStep ==
  /\ step' = "read_db" => (step = "read_db" /\ image' = image) \/ image' = db'
  /\ step' = "put_snapshot" => \/ step = "put_snapshot" /\ image' = image
                               \/ step = "read_db" /\ image' \in SUBSET db /\ image \subseteq image'
  /\ step' = "put_segment" => \/ step = "put_segment" /\ data' = data
                              \/ ~NothingNew /\ data' = NewFrames /\ db' = db

\* Nothing but the checkpoint of the manager changes the database file.
LEMMA DatabaseKept ==
  ASSUME TypeOK, Undisturbed, [Next]_vars
  PROVE  DbStep /\ commits' \in {commits, commits + 1}
<1>1. CASE App
  <2>1. ~AppCheckpoint(TRUE) /\ ~AppCheckpoint(FALSE)
    BY DEF Undisturbed, AppCheckpoint
  <2>2. UNCHANGED db /\ commits' \in {commits, commits + 1}
    BY <1>1, <2>1 DEF App, AppAppend, AppRestartWal, AppRewriteHeader, WriteFrame, AppRollback,
                      AppReadBegin, AppReadEnd
  <2> QED
    BY <2>2 DEF DbStep
<1>2. CASE CheckpointWal /\ WalCheckpoint(TRUE)
  BY <1>2 DEF CheckpointWal, NewGeneration, EnterSnapshot, sqliteFiles, WalCheckpoint,
              ImageAfterCheckpoint, DbStep
<1> QED
  BY <1>1, <1>2, DatabaseStep DEF FilesKept, DbStep

\* An upload puts one object.
LEMMA PutStep ==
  ASSUME NEW o, NEW k, NEW v, PutObject(o, k, v), bucket'[k] = v => Put(k)
  PROVE  ObjectStep
<1>1. ASSUME NEW x \in DOMAIN bucket' PROVE Untouched(x) \/ Put(x)
  <2>1. \/ x = k /\ bucket'[x] = v
        \/ x \in DOMAIN bucket /\ bucket'[x] = bucket[x]
    BY DEF PutObject
  <2> QED
    BY <2>1 DEF Untouched
<1> QED
  BY <1>1 DEF ObjectStep

\* A deletion puts none.
LEMMA DeleteStep ==
  ASSUME NEW o, NEW k, DeleteObject(o, k)
  PROVE  ObjectStep
  BY DEF DeleteObject, ObjectStep, Untouched

\* A step that leaves the bucket alone puts none.
LEMMA BucketStep ==
  ASSUME UNCHANGED bucket
  PROVE  ObjectStep
  BY DEF ObjectStep, Untouched

\* What is put belongs to the current generation, and its number goes up by one
\* in steps that leave the bucket alone.
LEMMA ObjectsStep ==
  ASSUME [Next]_vars
  PROVE  ObjectStep /\ GenerationStep
<1>1. CASE AppStep \/ UNCHANGED vars
  BY <1>1, BucketStep DEF AppStep, vars, tracking, GenerationStep
<1>2. CASE New \/ CheckpointWal \/ Snapshot
  BY <1>2, BucketStep DEF New, CheckpointWal, Snapshot, NewGeneration, tracking, GenerationStep
<1>3. ASSUME NEW c, SyncWal(c) PROVE ObjectStep /\ GenerationStep
  BY <1>3, BucketStep DEF SyncWal, Recover, ReadNewFrames, NewGeneration, tracking, GenerationStep
<1>4. ASSUME NEW o, PutSegment(o) PROVE ObjectStep /\ GenerationStep
  BY <1>4, PutStep DEF PutSegment, Put, GenerationStep
<1>5. ASSUME NEW o, PutSegmentManifest(o) \/ PutSnapshotManifest(o) \/ CompactManifest(o)
      PROVE  ObjectStep /\ GenerationStep
  <2>1. Put(ManifestKey(generation))
    BY DEF Put, ManifestKey
  <2> QED
    BY <1>5, <2>1, PutStep DEF PutSegmentManifest, PutSnapshotManifest, CompactManifest, tracking,
                               GenerationStep
<1>6. ASSUME NEW o, PutSnapshot(o) PROVE ObjectStep /\ GenerationStep
  BY <1>6, PutStep DEF PutSnapshot, Put, tracking, GenerationStep
<1>7. ASSUME NEW o, PutLatest(o) PROVE ObjectStep /\ GenerationStep
  <2>1. Put(LatestKey)
    BY DEF Put, LatestKey
  <2> QED
    BY <1>7, <2>1, PutStep DEF PutLatest, GenerationStep
<1>8. ASSUME NEW o, CompactPut(o) PROVE ObjectStep /\ GenerationStep
  <2>1. Put(WalKey(generation, CompactIndex))
    BY <1>8 DEF Put, WalKey, CompactPut
  <2> QED
    BY <1>8, <2>1, PutStep DEF CompactPut, GenerationStep
<1>9. ASSUME NEW o, ReadDb(o) \/ CompactDelete(o) \/ RetentionDelete(o)
      PROVE  ObjectStep /\ GenerationStep
  BY <1>9, BucketStep, DeleteStep
     DEF ReadDb, CompactDelete, RetentionDelete, tracking, GenerationStep
<1>10. CASE (\E size \in SegmentSizes : Compact(size)) \/ CompactGet
  BY <1>10, BucketStep DEF Compact, CompactGet, tracking, GenerationStep
<1>11. CASE (\E cutoff \in 1..(MaxGenerations + 1) : EnforceRetention(cutoff)) \/ RetentionNext
  BY <1>11, BucketStep DEF EnforceRetention, RetentionNext, tracking, GenerationStep
<1>12. CASE Drop \/ Crash
  BY <1>12, BucketStep DEF Drop, Crash, Gone, GenerationStep
<1> QED
  BY <1>1, <1>2, <1>3, <1>4, <1>5, <1>6, <1>7, <1>8, <1>9, <1>10, <1>11, <1>12
     DEF Next, Manager, Sync, TakeSnapshot, Compaction, Retention


\* Steps that begin or go on with none of the three reads.
LEMMA OtherRead ==
  ASSUME step' \notin {"read_db", "put_snapshot", "put_segment"}
  PROVE  ReadStep
  BY DEF ReadStep

\* What a snapshot and a sync have read is what was in the files.
LEMMA ReadsStep ==
  ASSUME [Next]_vars
  PROVE  ReadStep
<1>1. CASE AppStep \/ UNCHANGED vars
  BY <1>1 DEF AppStep, vars, call, locals, snapshotLocals, syncLocals, ReadStep
<1>2. CASE New \/ Snapshot
  BY <1>2 DEF New, Snapshot, EnterSnapshot, sqliteVars, sqliteFiles, ReadStep
<1>3. CASE CheckpointWal
  BY <1>3, OtherRead DEF CheckpointWal, EnterSnapshot, ImageAfterCheckpoint, Idle, ReadStep
<1>4. ASSUME NEW c, SyncWal(c) PROVE ReadStep
  <2>1. CASE \E o : SyncReturn(c, o, readMark["waloy"])
    BY <2>1, SyncReturnStep, OtherRead
  <2>2. CASE Recover(c)
    BY <1>4, <2>2 DEF SyncWal, Recover, EnterSnapshot, sqliteFiles, ReadStep
  <2>3. CASE ~NothingNew /\ data' = NewFrames /\ step' = "put_segment"
    BY <1>4, <2>3 DEF SyncWal, sqliteFiles, ReadStep
  <2> QED
    BY <1>4, <2>1, <2>2, <2>3 DEF SyncWal, ReadNewFrames
<1>5. ASSUME NEW o, PutSegment(o) \/ PutSegmentManifest(o) PROVE ReadStep
  BY <1>5, SyncReturnStep, OtherRead DEF PutSegment, PutSegmentManifest
<1>6. ASSUME NEW o, ReadDb(o) PROVE ReadStep
  <2>1. CASE SnapshotReturn(o)
    BY <2>1, SnapshotReturnAny, OtherRead
  <2>2. CASE step' = "put_snapshot" /\ \E x \in SUBSET db : image \subseteq x /\ image' = x
    BY <1>6, <2>2 DEF ReadDb, ReadStep
  <2> QED
    BY <1>6, <2>1, <2>2 DEF ReadDb
<1>7. ASSUME NEW o, PutSnapshot(o) \/ PutLatest(o) \/ PutSnapshotManifest(o) PROVE ReadStep
  BY <1>7, SnapshotReturnAny, OtherRead DEF PutSnapshot, PutLatest, PutSnapshotManifest
<1>8. CASE Compaction
  BY <1>8, OtherRead
     DEF Compaction, Compact, CompactGet, CompactPut, CompactManifest, CompactDelete, Idle
<1>9. CASE Retention
  BY <1>9, OtherRead DEF Retention, EnforceRetention, RetentionNext, RetentionDelete, Idle
<1>10. CASE Drop \/ Crash
  BY <1>10, OtherRead DEF Drop, Crash, Gone, Idle
<1> QED
  BY <1>1, <1>2, <1>3, <1>4, <1>5, <1>6, <1>7, <1>8, <1>9, <1>10
     DEF Next, Manager, Sync, TakeSnapshot

\* What sync_wal reads completes the database file.
LEMMA FramesComplete ==
  ASSUME SqliteTypeOK, SqliteOK, wal_offset \in Nat, ~NothingNew
  PROVE  NewFrames # <<>> /\ Complete(NewFrames, db)
<1>1. wal \in Seq(Block) /\ Len(wal) \in Nat /\ wal_offset < Len(wal) /\ mxFrame \in Nat /\ spilled \in Nat
  BY DEF SqliteTypeOK, NothingNew
<1>2. PICK f : f = NewFrames
  OBVIOUS
<1>3. Len(f) = Len(wal) - wal_offset /\ f \in Seq(Block) /\ \A i \in 1..Len(f) : f[i] = wal[wal_offset + i]
  BY <1>1, <1>2 DEF NewFrames
<1>4. f # <<>> /\ f[1] = wal[wal_offset + 1]
  BY <1>1, <1>3
<1>5. CASE wal_offset > 0
  <2>1. wal_offset + 1 \in 2..Len(wal)
    BY <1>1, <1>5
  <2>2. wal[wal_offset + 1].prev # 0
    BY <2>1 DEF SqliteOK, WalOK
  <2> QED
    BY <1>2, <1>4, <2>2 DEF Complete
<1>6. CASE wal_offset = 0
  <2>1. f = wal
    BY <1>1, <1>2, <1>6 DEF NewFrames
  <2>2. wal # <<>> /\ wal[1].prev = 0 /\ 1..wal[1].tx \subseteq db
    BY <1>4, <2>1 DEF SqliteOK, WalOK, DbOK
  <2>3. CASE mxFrame = 0
    BY <1>2, <1>4, <2>1, <2>2, <2>3 DEF SqliteOK, WalOK, DbOK, Complete
  <2>4. CASE mxFrame # 0
    <3>1. mxFrame \in 2..Len(wal) /\ CommitAt(wal, mxFrame) /\ wal[mxFrame].tx = commits
      BY <2>4 DEF SqliteOK, WalOK, CommitAt
    <3>2. db \subseteq 1..commits
      BY DEF SqliteOK, DbOK, SqliteTypeOK
    <3> QED
      BY <1>2, <1>4, <2>1, <2>2, <3>1, <3>2 DEF Complete
  <2> QED
    BY <2>3, <2>4
<1> QED
  BY <1>1, <1>5, <1>6


-----------------------------------------------------------------------------
(* Snapshots, and the blocks that complete them. *)

\* A snapshot holds the database after some transaction, that of the current
\* generation what the database file still holds; the blocks in memory complete
\* that file.
PagesOK ==
  /\ Fresh
  /\ \A g \in Generations : Stored(SnapshotKey(g)) =>
       \E n \in 0..commits : bucket[SnapshotKey(g)] = 1..n
  /\ Stored(SnapshotKey(generation)) => bucket[SnapshotKey(generation)] = db
  /\ step \in {"read_db", "put_snapshot"} => image = db
  /\ step = "put_segment" => data # <<>> /\ Complete(data, db)

\* The generations to come have no object.
LEMMA FreshNext ==
  ASSUME TypeOK, Fresh, ObjectStep, GenerationStep
  PROVE  Fresh'
<1>1. generation \in Nat /\ generation' \in Nat /\ generation' >= generation
  BY KeysAssumption DEF TypeOK, ManagerTypeOK, GenerationStep
<1>2. ASSUME NEW x \in DOMAIN bucket' PROVE x[2] <= generation'
  <2>1. CASE Untouched(x)
    <3>1. x \in Keys /\ x[2] <= generation
      BY <2>1 DEF Untouched, Fresh, TypeOK, BucketTypeOK
    <3>2. x[2] \in Nat
      BY <3>1, KeysAssumption
         DEF Keys, LatestKey, ManifestKey, SnapshotKey, WalKey, WalKeys, Generations
    <3> QED
      BY <1>1, <3>1, <3>2
  <2>2. CASE Put(x)
    <3>1. x[2] = 0 \/ x[2] = generation
      BY <2>2 DEF Put, SnapshotKey, WalKey
    <3> QED
      BY <1>1, <3>1
  <2> QED
    BY <1>2, <2>1, <2>2 DEF ObjectStep
<1> QED
  BY <1>2 DEF Fresh

\* Every step keeps the snapshots what they are said to be: the file changes with
\* the generation only.
LEMMA PagesNext ==
  ASSUME Undisturbed, TypeOK, HInv, PagesOK, [Next]_vars
  PROVE  PagesOK'
<1>1. ObjectStep /\ GenerationStep /\ ReadStep /\ DbStep
  BY ObjectsStep, ReadsStep, DatabaseKept
<1>2. Fresh'
  BY <1>1, FreshNext DEF PagesOK
<1>3. generation \in 0..MaxGenerations /\ commits \in Nat /\ wal_offset \in Nat /\ generation + 1 # generation
  BY KeysAssumption DEF TypeOK, ManagerTypeOK, SqliteTypeOK
<1>4. commits' \in Nat /\ commits <= commits'
  BY <1>3, DatabaseKept
<1>5. \E n \in 0..commits : db = 1..n
  BY DEF HInv, SqliteOK, DbOK
<1>6. ASSUME NEW g \in Nat, SnapshotKey(g) \in DOMAIN bucket'
      PROVE  \/ Untouched(SnapshotKey(g))
             \/ g = generation /\ step = "put_snapshot" /\ bucket'[SnapshotKey(g)] = image
  BY <1>1, <1>6 DEF ObjectStep, Put, SnapshotKey, WalKey
<1>7. ASSUME NEW g \in Generations, Stored(SnapshotKey(g))'
      PROVE  \E n \in 0..commits' : bucket'[SnapshotKey(g)] = 1..n
  <2>1. g \in Nat /\ SnapshotKey(g) \in DOMAIN bucket'
    BY <1>7 DEF Generations, Stored
  <2>2. \E n \in 0..commits : bucket'[SnapshotKey(g)] = 1..n
    <3>1. CASE Untouched(SnapshotKey(g))
      BY <1>7, <3>1 DEF Untouched, PagesOK, Stored
    <3>2. CASE step = "put_snapshot" /\ bucket'[SnapshotKey(g)] = image
      BY <1>5, <3>2 DEF PagesOK
    <3> QED
      BY <1>6, <2>1, <3>1, <3>2
  <2> QED
    BY <1>3, <1>4, <2>2
<1>8. ASSUME Stored(SnapshotKey(generation))'
      PROVE  bucket'[SnapshotKey(generation')] = db'
  <2>1. PICK g \in Nat : g = generation'
    BY <1>1, <1>3 DEF GenerationStep
  <2>2. SnapshotKey(g) \in DOMAIN bucket'
    BY <1>8, <2>1 DEF Stored, SnapshotKey
  <2>3. g = generation /\ db' = db
    <3>1. CASE generation' = generation
      BY <1>1, <1>3, <2>1, <3>1 DEF DbStep
    <3>2. CASE generation' = generation + 1 /\ UNCHANGED bucket
      <4>1. SnapshotKey(g)[2] = g
        BY DEF SnapshotKey
      <4>2. g <= generation
        BY <2>2, <3>2, <4>1 DEF PagesOK, Fresh
      <4> QED
        BY <1>3, <2>1, <3>2, <4>2
    <3> QED
      BY <1>1, <3>1, <3>2 DEF GenerationStep
  <2>4. bucket'[SnapshotKey(g)] = db
    BY <1>6, <2>2, <2>3 DEF PagesOK, Untouched, Stored
  <2> QED
    BY <2>1, <2>3, <2>4
<1>9. ASSUME step' \in {"read_db", "put_snapshot"} PROVE image' = db'
  <2>1. step' = "put_snapshot" => db' = db
    BY <1>1 DEF DbStep
  <2>2. CASE step' = "read_db"
    BY <1>1, <2>2 DEF ReadStep, PagesOK, DbStep
  <2>3. CASE step' = "put_snapshot"
    BY <1>1, <2>1, <2>3 DEF ReadStep, PagesOK
  <2> QED
    BY <1>9, <2>2, <2>3
<1>10. ASSUME step' = "put_segment" PROVE data' # <<>> /\ Complete(data', db')
  <2>1. db' = db
    BY <1>1, <1>10 DEF DbStep
  <2>2. CASE step = "put_segment" /\ data' = data
    BY <2>1, <2>2 DEF PagesOK
  <2>3. CASE ~NothingNew /\ data' = NewFrames
    BY <1>3, <2>1, <2>3, FramesComplete DEF HInv, TypeOK
  <2> QED
    BY <1>1, <1>10, <2>2, <2>3 DEF ReadStep
<1>11. (bucket[SnapshotKey(generation)])' = bucket'[SnapshotKey(generation')]
  BY DEF SnapshotKey
<1> QED
  BY <1>2, <1>7, <1>8, <1>9, <1>10, <1>11 DEF PagesOK

\* Every segment completes the snapshot of its generation, or the one that
\* generation may still get.
ObjectsOK ==
  \A k \in DOMAIN bucket : k[1] = "wal" =>
    /\ bucket[k] # <<>>
    /\ Stored(SnapshotKey(k[2])) => Complete(bucket[k], bucket[SnapshotKey(k[2])])
    /\ k[2] = generation => Complete(bucket[k], db)


\* Every step but those of compact keeps the segments complete: a segment that is
\* uploaded was read from the WAL of the database file its snapshot is read from.
LEMMA ObjectsNext ==
  ASSUME Undisturbed, TypeOK, HInv, PagesOK, ObjectsOK, [Next]_vars, step # "compact_put"
  PROVE  ObjectsOK'
<1>1. ObjectStep /\ GenerationStep /\ DbStep /\ PagesOK'
  BY ObjectsStep, DatabaseKept, PagesNext
<1>2. generation \in Nat /\ generation' \in Nat /\ generation + 1 # generation /\ ~(generation + 1 <= generation)
  BY <1>1, KeysAssumption DEF TypeOK, ManagerTypeOK, GenerationStep
<1>3. ASSUME NEW x \in DOMAIN bucket', x[1] = "wal"
      PROVE  /\ bucket'[x] # <<>>
             /\ SnapshotKey(x[2]) \in DOMAIN bucket' => Complete(bucket'[x], bucket'[SnapshotKey(x[2])])
             /\ x[2] = generation' => Complete(bucket'[x], db')
  <2>1. ASSUME Untouched(x), GenerationStep
        PROVE  x[2] = generation' => Complete(bucket[x], db')
    <3>1. CASE generation' = generation
      <4>1. db' = db
        BY <1>1, <1>2, <3>1 DEF DbStep
      <4> QED
        BY <1>3, <2>1, <3>1, <4>1 DEF Untouched, ObjectsOK
    <3>2. CASE generation' = generation + 1 /\ UNCHANGED bucket
      <4>1. x[2] <= generation
        BY <2>1 DEF Untouched, PagesOK, Fresh
      <4> QED
        BY <1>2, <3>2, <4>1
    <3> QED
      BY <2>1, <3>1, <3>2 DEF GenerationStep
  <2>2. bucket'[x] # <<>> /\ (x[2] = generation' => Complete(bucket'[x], db'))
    <3>1. CASE Untouched(x)
      BY <1>1, <1>3, <2>1, <3>1 DEF Untouched, ObjectsOK
    <3>2. CASE step = "put_segment" /\ bucket'[x] = data
      <4>1. data # <<>> /\ Complete(data, db)
        BY <3>2 DEF PagesOK
      <4>2. CASE UNCHANGED bucket
        BY <1>1, <1>3, <2>1, <4>2 DEF Untouched, ObjectsOK
      <4>3. CASE ~(UNCHANGED bucket)
        <5>1. db' = db
          BY <1>1, <4>3 DEF DbStep
        <5> QED
          BY <3>2, <4>1, <5>1
      <4> QED
        BY <4>2, <4>3
    <3> QED
      BY <1>1, <1>3, <3>1, <3>2 DEF ObjectStep, Put, SnapshotKey
  <2>3. ASSUME SnapshotKey(x[2]) \in DOMAIN bucket'
        PROVE  Complete(bucket'[x], bucket'[SnapshotKey(x[2])])
    <3>1. CASE x[2] = generation'
      <4>1. SnapshotKey(generation') \in DOMAIN bucket'
        BY <2>3, <3>1
      <4>2. bucket'[SnapshotKey(generation')] = db'
        BY <1>1, <4>1 DEF PagesOK, Stored, SnapshotKey
      <4> QED
        BY <2>2, <3>1, <4>2
    <3>2. CASE x[2] # generation'
      <4>1. Untouched(x) /\ Untouched(SnapshotKey(x[2]))
        <5>1. CASE UNCHANGED bucket
          BY <1>3, <2>3, <5>1 DEF Untouched
        <5>2. CASE generation' = generation
          <6>1. ~Put(x) /\ ~Put(SnapshotKey(x[2]))
            BY <1>3, <3>2, <5>2 DEF Put, SnapshotKey, WalKey
          <6> QED
            BY <1>1, <1>3, <2>3, <6>1 DEF ObjectStep
        <5> QED
          BY <1>1, <5>1, <5>2 DEF GenerationStep
      <4> QED
        BY <1>3, <4>1 DEF Untouched, ObjectsOK, Stored
    <3> QED
      BY <3>1, <3>2
  <2> QED
    BY <2>2, <2>3
<1>4. ASSUME NEW k \in DOMAIN bucket', k[1] = "wal"
      PROVE  (Stored(SnapshotKey(k[2])) => Complete(bucket[k], bucket[SnapshotKey(k[2])]))'
  BY <1>3, <1>4 DEF Stored, SnapshotKey
<1> QED
  BY <1>3, <1>4 DEF ObjectsOK

\* Without a call of compact no step of one runs.
Uncompacted == step \notin {"compact_get", "compact_put"}

\* Only a call of compact leads to its steps.
LEMMA UncompactedNext ==
  ASSUME "compact" \notin Calls, Uncompacted, [Next]_vars
  PROVE  Uncompacted'
<1>1. CASE AppStep \/ UNCHANGED vars
  BY <1>1 DEF AppStep, vars, call, Uncompacted
<1>2. CASE New \/ Snapshot \/ CheckpointWal
  BY <1>2 DEF New, Snapshot, CheckpointWal, EnterSnapshot, Idle, Uncompacted
<1>3. ASSUME NEW c, SyncWal(c) PROVE Uncompacted'
  BY <1>3, SyncReturnStep DEF SyncWal, Recover, ReadNewFrames, EnterSnapshot, Uncompacted
<1>4. ASSUME NEW o, PutSegment(o) \/ PutSegmentManifest(o) PROVE Uncompacted'
  BY <1>4, SyncReturnStep DEF PutSegment, PutSegmentManifest, Uncompacted
<1>5. ASSUME NEW o, ReadDb(o) \/ PutSnapshot(o) \/ PutLatest(o) \/ PutSnapshotManifest(o)
      PROVE  Uncompacted'
  BY <1>5, SnapshotReturnAny DEF ReadDb, PutSnapshot, PutLatest, PutSnapshotManifest, Uncompacted
<1>6. ASSUME NEW size, Compact(size) PROVE FALSE
  BY <1>6 DEF Compact, Call
<1>7. CASE CompactGet \/ (\E o \in Outcomes : CompactPut(o) \/ CompactManifest(o) \/ CompactDelete(o))
  BY <1>7 DEF CompactGet, CompactPut, CompactManifest, CompactDelete, Idle, Uncompacted
<1>8. CASE Retention
  BY <1>8 DEF Retention, EnforceRetention, RetentionNext, RetentionDelete, Idle, Uncompacted
<1>9. CASE Drop \/ Crash
  BY <1>9 DEF Drop, Crash, Gone, Idle, Uncompacted
<1> QED
  BY <1>1, <1>2, <1>3, <1>4, <1>5, <1>6, <1>7, <1>8, <1>9
     DEF Next, Manager, Sync, TakeSnapshot, Compaction


-----------------------------------------------------------------------------
(* What a restore reads. *)

SegmentsOf(g) == {bucket[k] : k \in {k \in DOMAIN bucket : k[1] = "wal" /\ k[2] = g}}

\* A listing gives the keys of stored segments.
LEMMA ListedIndexes ==
  ASSUME NEW g
  PROVE  StoredIndexes(g) \in Seq({i \in Indexes : Stored(WalKey(g, i))})
<1> DEFINE S == {i \in Indexes : Stored(WalKey(g, i))}
<1>1. PICK parts : parts = [n \in 1..(MaxIndex + 1) |->
                              IF Stored(WalKey(g, n - 1)) THEN <<n - 1>> ELSE <<>>]
  OBVIOUS
<1>2. ASSUME NEW n \in 1..(MaxIndex + 1) PROVE parts[n] \in Seq(S)
  <2>1. n - 1 \in Indexes
    BY <1>2, KeysAssumption DEF Indexes
  <2>2. CASE Stored(WalKey(g, n - 1))
    <3>1. n - 1 \in S
      BY <2>1, <2>2
    <3> HIDE DEF S
    <3>2. <<n - 1>> \in Seq(S)
      BY <3>1
    <3> QED
      BY <1>1, <1>2, <2>2, <3>2
  <2>3. CASE ~Stored(WalKey(g, n - 1))
    <3> HIDE DEF S
    <3>1. <<>> \in Seq(S)
      OBVIOUS
    <3> QED
      BY <1>1, <1>2, <2>3, <3>1
  <2> QED
    BY <2>2, <2>3
<1>3. parts \in Seq(Seq(S))
  <2> HIDE DEF S
  <2> QED
    BY <1>1, <1>2, KeysAssumption
<1>4. FlattenSeq(parts) \in Seq(S)
  <2> HIDE DEF S
  <2> QED
    BY <1>3, FlattenType
<1> QED
  BY <1>1, <1>4 DEF StoredIndexes

\* A restore asks for stored segments of the generation only.
LEMMA RestoredIndexes ==
  ASSUME TypeOK, NEW g, Restorable(g)
  PROVE  SegmentIndexes(g) \in Seq({i \in Indexes : Stored(WalKey(g, i))})
<1> DEFINE S == {i \in Indexes : Stored(WalKey(g, i))}
<1>1. CASE Stored(ManifestKey(g))
  <2>1. PICK m : m = bucket[ManifestKey(g)]
    OBVIOUS
  <2>2. m \in Seq(SegmentMeta)
    BY <1>1, <2>1 DEF Stored, TypeOK, BucketTypeOK, ObjectTypeOK, ManifestKey
  <2>3. \A n \in DOMAIN m : m[n].index \in S
    <3>1. ASSUME NEW n \in DOMAIN m PROVE m[n].index \in S
      <4>1. m[n] \in SegmentMeta
        BY <2>2, <3>1
      <4>2. m[n].index \in Indexes
        BY <4>1 DEF SegmentMeta
      <4>3. Stored(WalKey(g, m[n].index))
        BY <1>1, <2>1, <3>1 DEF Restorable, SegmentsStored
      <4> QED
        BY <4>2, <4>3
    <3> QED
      BY <3>1
  <2>4. [n \in DOMAIN m |-> m[n].index] \in Seq(S)
    <3> HIDE DEF S
    <3> QED
      BY <2>2, <2>3
  <2> QED
    BY <1>1, <2>1, <2>4 DEF SegmentIndexes
<1>2. CASE ~Stored(ManifestKey(g))
  BY <1>2, ListedIndexes DEF SegmentIndexes
<1> QED
  BY <1>1, <1>2

\* The WAL of a restore is put together from segments of the generation.
LEMMA RestoredParts ==
  ASSUME TypeOK, NEW g, Restorable(g)
  PROVE  \E parts \in Seq(SegmentsOf(g)) : RestoredWal(g) = FlattenSeq(parts)
<1>1. PICK indexes : indexes = SegmentIndexes(g)
  OBVIOUS
<1>2. indexes \in Seq({i \in Indexes : Stored(WalKey(g, i))})
  BY <1>1, RestoredIndexes
<1>3. PICK parts : parts = [n \in DOMAIN indexes |-> bucket[WalKey(g, indexes[n])]]
  OBVIOUS
<1>4. \A n \in DOMAIN indexes : parts[n] \in SegmentsOf(g)
  <2>1. ASSUME NEW n \in DOMAIN indexes PROVE parts[n] \in SegmentsOf(g)
    <3>1. Stored(WalKey(g, indexes[n]))
      BY <1>2, <2>1
    <3>2. WalKey(g, indexes[n])[1] = "wal" /\ WalKey(g, indexes[n])[2] = g
      BY DEF WalKey
    <3> QED
      BY <1>3, <3>1, <3>2 DEF SegmentsOf, Stored
  <2> QED
    BY <2>1
<1>5. parts \in Seq(SegmentsOf(g))
  BY <1>2, <1>3, <1>4
<1>6. RestoredWal(g) = FlattenSeq(parts)
  BY <1>1, <1>3 DEF RestoredWal
<1> QED
  BY <1>5, <1>6

\* Its blocks are blocks of the history.
LEMMA RestoredLinked ==
  ASSUME TypeOK, HInv, NEW g, Restorable(g)
  PROVE  RestoredWal(g) \in Seq(Block) /\ Linked(RestoredWal(g), commits)
<1>1. PICK parts \in Seq(SegmentsOf(g)) : RestoredWal(g) = FlattenSeq(parts)
  BY RestoredParts
<1>2. Known \subseteq Block
  BY DEF HInv, History
<1>3. SegmentsOf(g) \subseteq Seq(Known)
  <2>1. ASSUME NEW k \in DOMAIN bucket, k[1] = "wal" PROVE bucket[k] \in Seq(Known)
    <3>1. bucket[k] \in Seq(Block)
      BY <2>1 DEF TypeOK, BucketTypeOK, ObjectTypeOK
    <3>2. Blocks(bucket[k]) \subseteq Known
      BY <2>1, ObjectBlocks DEF Known
    <3>3. \A i \in DOMAIN bucket[k] : bucket[k][i] \in Known
      BY <3>2 DEF Blocks
    <3> QED
      BY <3>1, <3>3
  <2> QED
    BY <2>1 DEF SegmentsOf
<1>4. parts \in Seq(Seq(Known))
  BY <1>1, <1>3
<1>5. PICK w : w = RestoredWal(g)
  OBVIOUS
<1>6. w \in Seq(Known)
  BY <1>1, <1>4, <1>5, FlattenType
<1>7. w \in Seq(Block) /\ Blocks(w) \subseteq Known
  BY <1>2, <1>6 DEF Blocks
<1>8. Linked(w, commits)
  BY <1>7, HistoryLinks DEF HInv
<1> QED
  BY <1>5, <1>7, <1>8

\* Segments that complete the snapshot they are replayed on give the database
\* after some transaction.
LEMMA CompletedIsConsistent ==
  ASSUME TypeOK, HInv, PagesOK, Stored(LatestKey), Restorable(Latest),
         RestoredWal(Latest) = <<>> \/ Complete(RestoredWal(Latest), bucket[SnapshotKey(Latest)])
  PROVE  Consistent(bucket[SnapshotKey(Latest)], Replay(RestoredWal(Latest)))
<1>1. PICK g \in Generations : g = Latest
  BY DEF Stored, TypeOK, BucketTypeOK, ObjectTypeOK, LatestKey, Latest
<1>2. PICK k \in 0..commits : bucket[SnapshotKey(g)] = 1..k
  BY <1>1 DEF PagesOK, Restorable
<1>3. PICK w : w = RestoredWal(g)
  OBVIOUS
<1>4. w \in Seq(Block) /\ Linked(w, commits)
  BY <1>1, <1>3, RestoredLinked
<1>5. w = <<>> \/ Complete(w, 1..k)
  BY <1>1, <1>2, <1>3
<1>6. commits \in Nat
  BY DEF TypeOK, SqliteTypeOK
<1>7. \E n \in 0..commits : /\ (1..k) \cup Replay(w) = 1..n
                            /\ Replay(w) # {} => n \in Replay(w)
  BY <1>4, <1>5, <1>6, CompleteReplay
<1> QED
  BY <1>1, <1>2, <1>3, <1>7 DEF Consistent

\* It begins with a whole segment, which completes the snapshot.
LEMMA FirstCompletes ==
  ASSUME TypeOK, HInv, PagesOK, ObjectsOK, NEW g, Restorable(g)
  PROVE  RestoredWal(g) = <<>> \/ Complete(RestoredWal(g), bucket[SnapshotKey(g)])
<1>1. PICK parts \in Seq(SegmentsOf(g)) : RestoredWal(g) = FlattenSeq(parts)
  BY RestoredParts
<1>2. \A o \in SegmentsOf(g) : o \in Seq(Block) /\ o # <<>> /\ Complete(o, bucket[SnapshotKey(g)])
  BY DEF SegmentsOf, ObjectsOK, TypeOK, BucketTypeOK, ObjectTypeOK, Restorable
<1>3. CASE parts = <<>>
  BY <1>1, <1>3, FlattenEmpty
<1>4. CASE parts # <<>>
  <2>1. parts[1] \in SegmentsOf(g) /\ parts \in Seq(Seq(Block))
    BY <1>2, <1>4
  <2>2. Starts(FlattenSeq(parts), parts[1], Block)
    BY <1>4, <2>1, FlattenFirst
  <2>3. PICK w : w = FlattenSeq(parts)
    OBVIOUS
  <2>4. w \in Seq(Block)
    BY <2>1, <2>3, FlattenType
  <2>5. PICK o : o = parts[1]
    OBVIOUS
  <2>6. Complete(w, bucket[SnapshotKey(g)])
    BY <1>2, <2>1, <2>2, <2>3, <2>4, <2>5, CompleteLonger
  <2> QED
    BY <1>1, <2>3, <2>6
<1> QED
  BY <1>3, <1>4

\* Whatever fails, is cancelled or crashes, and with the generations retention
\* deletes (manager.rs:439-468): a restore gives the database as it was after
\* some transaction (README.md:206), if nothing but the manager checkpoints the
\* database and compact is not called.
THEOREM ConsistentWithoutCompaction ==
  ASSUME Undisturbed, "compact" \notin Calls
  PROVE  Spec => []RestoreIsConsistent
<1> DEFINE Inv == TypeOK /\ StepOK /\ HInv /\ PagesOK /\ ObjectsOK /\ Uncompacted
<1>1. Init => Inv
  <2>1. ASSUME Init PROVE PagesOK /\ ObjectsOK /\ Uncompacted
    <3>1. DOMAIN bucket = {}
      BY <2>1 DEF Init
    <3> QED
      BY <2>1, <3>1 DEF Init, PagesOK, ObjectsOK, Uncompacted, Fresh, Stored
  <2> QED
    BY <2>1, InitInv, HInit
<1>2. Inv /\ [Next]_vars => Inv'
  BY NextInv, HNext, PagesNext, ObjectsNext, UncompactedNext DEF IInv, Uncompacted
<1>3. Inv => RestoreIsConsistent
  BY FirstCompletes, CompletedIsConsistent DEF RestoreIsConsistent
<1> QED
  BY <1>1, <1>2, <1>3, PTL DEF Spec


-----------------------------------------------------------------------------
(* With compaction: what the segments of the manager hold together completes *)
(* the snapshot, and compaction changes nothing of that.                     *)

OwnGiven == running /\ step \notin BeforeReset => Own = <<>> \/ Complete(Own, db)

Given(w, pages) == w = <<>> \/ Complete(w, pages)

LatestGiven == Stored(LatestKey) => Given(RestoredWal(Latest), bucket[SnapshotKey(Latest)])

\* Until `latest` names it, a generation has a snapshot at most.
Unused ==
  running /\ step \in BeforeReset /\ ~Current =>
    \A k \in DOMAIN bucket : k[2] = generation => k[1] = "snapshot"

CInv == OwnGiven /\ LatestGiven /\ Unused

Sound == TypeOK /\ StepOK /\ RInv /\ SInv /\ HInv /\ PagesOK

\* There is nothing to show until the tracking is reset.
LEMMA OwnBefore ==
  ASSUME ~running' \/ step' \in BeforeReset
  PROVE  OwnGiven'
  BY DEF OwnGiven

\* What the segments hold together is the same, and so is the database file.
LEMMA OwnSame ==
  ASSUME OwnGiven, running, step \notin BeforeReset, Own' = Own, UNCHANGED db
  PROVE  OwnGiven'
<1>1. PICK w : w = Own
  OBVIOUS
<1>2. w = <<>> \/ Complete(w, db)
  BY <1>1 DEF OwnGiven
<1> QED
  BY <1>1, <1>2 DEF OwnGiven

\* So it is in a step that changes neither the segments nor their list.
LEMMA OwnQuiet ==
  ASSUME OwnGiven, running' => running, step' \in BeforeReset \/ step \notin BeforeReset,
         UNCHANGED <<bucket, generation, manifest, db>>
  PROVE  OwnGiven'
<1>1. Own' = Own
  BY DEF Own, Joined, Parts
<1> QED
  BY <1>1, OwnBefore, OwnSame

\* Nothing is listed after a snapshot.
LEMMA OwnNothing ==
  ASSUME manifest' = <<>>
  PROVE  OwnGiven'
<1>1. Joined(bucket', generation', <<>>) = <<>>
  BY JoinedNothing
<1>2. Own' = <<>>
  BY <1>1 DEF Own
<1> QED
  BY <1>2 DEF OwnGiven

\* The segment that is uploaded comes behind those before it.
LEMMA OwnLonger ==
  ASSUME TypeOK, TypeOK', StepOK, RInv, SInv, PagesOK, OwnGiven, PutSegment("ok")
  PROVE  OwnGiven'
<1>1. running /\ step = "put_segment" /\ UNCHANGED db
  BY DEF PutSegment, StepOK, sqliteFiles
<1>2. Own' = Own \o data
  BY PutSegmentS
<1>3. data # <<>> /\ Complete(data, db) /\ data \in Seq(Block)
  BY <1>1 DEF PagesOK, TypeOK, CallTypeOK
<1>4. Describes(manifest, bucket, generation) /\ manifest \in Seq(SegmentMeta) /\ SegmentsTyped(bucket)
  BY <1>1, BucketSegments DEF SInv, ManagerOK, TypeOK, ManagerTypeOK
<1>5. PICK w : w = Own
  OBVIOUS
<1>6. w \in Seq(Block)
  BY <1>4, <1>5, JoinedType DEF Own
<1>7. PICK v : v = w \o data
  OBVIOUS
<1>8. Complete(v, db)
  <2>1. CASE w = <<>>
    <3>1. v = data
      BY <1>3, <1>6, <1>7, <2>1
    <3> QED
      BY <1>3, <3>1
  <2>2. CASE w # <<>>
    <3>1. Complete(w, db)
      BY <1>1, <1>5, <2>2 DEF OwnGiven, BeforeReset
    <3>2. v \in Seq(Block) /\ Starts(v, w, Block)
      BY <1>3, <1>6, <1>7 DEF Starts
    <3> QED
      BY <1>6, <2>2, <3>1, <3>2, CompleteLonger
  <2> QED
    BY <2>1, <2>2
<1> QED
  BY <1>1, <1>2, <1>5, <1>7, <1>8 DEF OwnGiven

\* What the segments of the manager hold together goes on completing the file.
LEMMA OwnNext ==
  ASSUME NoFailures, Undisturbed, Sound, Sound', OwnGiven, [Next]_vars
  PROVE  OwnGiven'
<1>1. TypeOK /\ TypeOK' /\ StepOK /\ RInv /\ SInv /\ PagesOK
  BY DEF Sound
<1>2. DbStep
  BY <1>1, DatabaseKept
<1>3. generation + 1 # generation
  BY <1>1, KeysAssumption DEF TypeOK, ManagerTypeOK
<1>4. generation' = generation => db' = db
  BY <1>2, <1>3 DEF DbStep
<1>5. CASE AppStep \/ UNCHANGED vars
  BY <1>4, <1>5, OwnQuiet DEF AppStep, vars, tracking, call
<1>6. CASE New \/ Snapshot \/ CheckpointWal
  BY <1>6, OnlyOk, OwnBefore DEF New, Snapshot, CheckpointWal, EnterSnapshot, BeforeReset
<1>7. ASSUME NEW c, SyncWal(c) PROVE OwnGiven'
  <2>1. CASE Recover(c)
    BY <2>1, OwnBefore DEF Recover, EnterSnapshot, BeforeReset
  <2>2. CASE UNCHANGED <<generation, manifest>>
    BY <1>4, <1>7, <2>2, OwnQuiet DEF SyncWal, Call, BeforeReset
  <2> QED
    BY <1>7, <2>1, <2>2 DEF SyncWal, ReadNewFrames, tracking
<1>8. CASE PutSegmentManifest("ok")
  <2>1. /\ running /\ step = "put_segment_manifest" /\ UNCHANGED <<generation, manifest>>
        /\ PutObject("ok", ManifestKey(generation), manifest)
    BY <1>1, <1>8 DEF PutSegmentManifest, StepOK
  <2>2. Current
    BY <1>1, <2>1 DEF RInv, Base, Order
  <2>3. Own' = Own
    BY <1>1, <2>1, <2>2, PutManifestS
  <2> QED
    BY <1>4, <2>1, <2>3, OwnSame DEF BeforeReset
<1>9. CASE ReadDb("ok") \/ PutSnapshot("ok")
  BY <1>9, OwnBefore DEF ReadDb, PutSnapshot, BeforeReset
<1>10. CASE PutLatest("ok")
  BY <1>10, OwnNothing DEF PutLatest
<1>11. CASE PutSnapshotManifest("ok")
  <2>1. running /\ step = "put_snapshot_manifest" /\ manifest' = manifest
    BY <1>1, <1>11 DEF PutSnapshotManifest, StepOK, tracking
  <2>2. manifest = <<>>
    BY <1>1, <2>1 DEF SInv, ManagerOK
  <2> QED
    BY <2>1, <2>2, OwnNothing
<1>12. CASE Compaction \/ Retention
  <2>1. running /\ step \notin BeforeReset /\ UNCHANGED generation
    BY <1>1, <1>12 DEF Compaction, Retention, Compact, CompactGet, CompactPut, CompactManifest,
           CompactDelete, EnforceRetention, RetentionNext, RetentionDelete, Call, StepOK,
           tracking, BeforeReset
  <2>2. Own' = Own
    BY <1>1, <1>12, OwnKept
  <2> QED
    BY <1>4, <2>1, <2>2, OwnSame
<1>13. CASE Drop \/ Crash
  BY <1>13, OwnBefore DEF Drop, Crash, Gone
<1> QED
  BY <1>1, <1>5, <1>6, <1>7, <1>8, <1>9, <1>10, <1>11, <1>12, <1>13, OwnLonger, OnlyOk
     DEF Next, Manager, Sync, TakeSnapshot


\* A step that leaves the bucket alone leaves what a restore gives.
LEMMA GivenSame ==
  ASSUME LatestGiven, UNCHANGED bucket
  PROVE  LatestGiven'
<1>1. PICK b : b = bucket
  OBVIOUS
<1>2. bucket' = b
  BY <1>1
<1> QED
  BY <1>1, <1>2 DEF LatestGiven, RestoredWal, SegmentIndexes, StoredIndexes, Stored, Latest

\* Once the call has published its list, what the segments of the manager hold
\* is what a restore gives.
LEMMA GivenOwn ==
  ASSUME RInv', SInv', PagesOK', OwnGiven', running', step' \in Settled \cup {"compact_manifest"}
  PROVE  LatestGiven'
<1>1. /\ Stored(LatestKey)' /\ Latest' = generation' /\ RestoredWal(generation)' = Own'
  BY OwnIsRestoredNext
<1>2. SnapshotKey(generation') \in DOMAIN bucket'
  BY <1>1 DEF RInv, Base, LatestIsRestorable, Restorable, Stored, SnapshotKey
<1>3. bucket'[SnapshotKey(generation')] = db'
  BY <1>2 DEF PagesOK, Stored, SnapshotKey
<1>4. PICK w : w = Own'
  OBVIOUS
<1>5. w = <<>> \/ Complete(w, db')
  BY <1>4 DEF OwnGiven, BeforeReset, Settled
<1>6. PICK g : g = generation'
  OBVIOUS
<1>7. bucket'[LatestKey] = g /\ RestoredWal(g)' = w
  BY <1>1, <1>4, <1>6 DEF Latest
<1> QED
  BY <1>3, <1>5, <1>6, <1>7 DEF LatestGiven, Given, Latest

\* The restore of the latest backup has its manifest, its snapshot and the
\* segments it asks for where they were.
LEMMA GivenKept ==
  ASSUME LatestGiven, LatestIsRestorable, Stored(LatestKey),
         \A x \in DOMAIN bucket : x \in DOMAIN bucket',
         bucket'[LatestKey] = bucket[LatestKey],
         bucket'[SnapshotKey(Latest)] = bucket[SnapshotKey(Latest)],
         RestoredWal(Latest)' = RestoredWal(Latest)
  PROVE  LatestGiven'
<1>1. PICK g : g = Latest
  OBVIOUS
<1>2. PICK w : w = RestoredWal(g)
  OBVIOUS
<1>3. Latest' = g /\ RestoredWal(Latest)' = w
  BY <1>1, <1>2 DEF Latest
<1>4. bucket[SnapshotKey(Latest)]' = bucket'[SnapshotKey(g)]
  BY <1>3 DEF SnapshotKey
<1> QED
  BY <1>1, <1>2, <1>3, <1>4 DEF LatestGiven, Given


ReadKey(x, g) == x[1] \in {"wal", "manifest"} /\ x[2] = g

\* A restore reads what it read before if the segments and the manifest of its
\* generation are the same.
LEMMA RestoredSame ==
  ASSUME TypeOK, NEW g, Restorable(g),
         \A x \in DOMAIN bucket : x \in DOMAIN bucket' /\ (ReadKey(x, g) => bucket'[x] = bucket[x]),
         \A x \in DOMAIN bucket' : ReadKey(x, g) => x \in DOMAIN bucket
  PROVE  RestoredWal(g)' = RestoredWal(g)
<1>1. ReadKey(ManifestKey(g), g) /\ \A i : ReadKey(WalKey(g, i), g)
  BY DEF ReadKey, ManifestKey, WalKey
<1>2. /\ ManifestKey(g) \in DOMAIN bucket' <=> ManifestKey(g) \in DOMAIN bucket
      /\ \A i : WalKey(g, i) \in DOMAIN bucket' <=> WalKey(g, i) \in DOMAIN bucket
      /\ ManifestKey(g) \in DOMAIN bucket => bucket'[ManifestKey(g)] = bucket[ManifestKey(g)]
  BY <1>1
<1>3. PICK indexes : indexes = SegmentIndexes(g)
  OBVIOUS
<1>4. SegmentIndexes(g)' = indexes
  BY <1>2, <1>3 DEF SegmentIndexes, StoredIndexes, Stored
<1>5. \A n \in DOMAIN indexes : WalKey(g, indexes[n]) \in DOMAIN bucket
  <2>1. indexes \in Seq({i \in Indexes : Stored(WalKey(g, i))})
    BY <1>3, RestoredIndexes
  <2> QED
    BY <2>1 DEF Stored
<1>6. [n \in DOMAIN indexes |-> bucket'[WalKey(g, indexes[n])]]
        = [n \in DOMAIN indexes |-> bucket[WalKey(g, indexes[n])]]
  BY <1>1, <1>5
<1> QED
  BY <1>3, <1>4, <1>6 DEF RestoredWal

\* A generation that has no segment gives no WAL.
LEMMA RestoredNothing ==
  ASSUME NEW g, \A x \in DOMAIN bucket' : ~ReadKey(x, g)
  PROVE  RestoredWal(g)' = <<>>
<1>1. ReadKey(ManifestKey(g), g) /\ \A i : ReadKey(WalKey(g, i), g)
  BY DEF ReadKey, ManifestKey, WalKey
<1>2. ManifestKey(g) \notin DOMAIN bucket' /\ \A i : WalKey(g, i) \notin DOMAIN bucket'
  BY <1>1
<1>3. StoredIndexes(g)' = <<>>
  <2>1. PICK parts : parts = [n \in 1..(MaxIndex + 1) |-> <<>>]
    OBVIOUS
  <2>2. parts \in Seq({<<>>})
    BY <2>1, KeysAssumption
  <2>3. FlattenSeq(parts) = <<>>
    BY <2>2, FlattenNothing
  <2>4. [n \in 1..(MaxIndex + 1) |-> IF WalKey(g, n - 1) \in DOMAIN bucket' THEN <<n - 1>> ELSE <<>>]
          = parts
    BY <1>2, <2>1
  <2> QED
    BY <2>3, <2>4 DEF StoredIndexes, Stored
<1>4. SegmentIndexes(g)' = <<>>
  BY <1>2, <1>3 DEF SegmentIndexes, Stored
<1>5. PICK indexes : indexes = <<>>
  OBVIOUS
<1>6. [n \in DOMAIN indexes |-> bucket'[WalKey(g, indexes[n])]] = <<>>
  BY <1>5
<1> QED
  BY <1>4, <1>5, <1>6, FlattenEmpty DEF RestoredWal

\* A segment that is uploaded under a free index is not restored yet.
LEMMA GivenPutSegment ==
  ASSUME TypeOK, StepOK, RInv, SInv, TypeOK', LatestGiven, PutSegment("ok")
  PROVE  LatestGiven'
<1>1. /\ running /\ step = "put_segment" /\ generation' = generation
      /\ PutObject("ok", WalKey(generation, wal_index), data)
  BY DEF PutSegment, StepOK
<1>2. Current /\ Published
  BY <1>1 DEF RInv, Base, Order, SInv, ManagerOK, Settled
<1>3. PICK g : g = generation /\ g = Latest
  BY <1>2 DEF Current
<1>4. /\ \A x \in DOMAIN bucket : x \in DOMAIN bucket'
      /\ bucket'[LatestKey] = bucket[LatestKey] /\ bucket'[ManifestKey(g)] = bucket[ManifestKey(g)]
      /\ Stored(SnapshotKey(g)) => bucket'[SnapshotKey(g)] = bucket[SnapshotKey(g)]
  <2>1. PICK k : k = WalKey(generation, wal_index)
    OBVIOUS
  <2>2. k # LatestKey /\ k # ManifestKey(g) /\ k # SnapshotKey(g)
    BY <2>1, KeysDiffer
  <2>3. /\ DOMAIN bucket' = DOMAIN bucket \cup {k}
        /\ \A x \in DOMAIN bucket : x # k => bucket'[x] = bucket[x]
    BY <1>1, <2>1, PutStores
  <2>4. LatestKey \in DOMAIN bucket /\ ManifestKey(g) \in DOMAIN bucket
    BY <1>2, <1>3 DEF Current, Published, Stored
  <2> QED
    BY <2>2, <2>3, <2>4 DEF Stored
<1>5. RestoredWal(g)' = RestoredWal(g)
  <2>1. Stored(ManifestKey(g)) /\ Stored(ManifestKey(g))' /\ bucket[ManifestKey(g)] = manifest
    BY <1>2, <1>3, <1>4 DEF Published, Stored
  <2>2. Joined(bucket', g, manifest) = Joined(bucket, g, manifest)
    BY <1>3, PutSegmentS DEF Own
  <2>3. RestoredWal(g) = Joined(bucket, g, manifest)
    BY <2>1, RestoredIs
  <2>4. RestoredWal(g)' = Joined(bucket', g, manifest)
    BY <1>4, <2>1, RestoredIsNext
  <2> QED
    BY <2>2, <2>3, <2>4
<1>6. LatestIsRestorable /\ Stored(LatestKey) /\ Stored(SnapshotKey(g))
  BY <1>2, <1>3 DEF RInv, Base, Current, LatestIsRestorable, Restorable
<1>7. Latest' = g
  BY <1>3, <1>4 DEF Latest
<1>8. RestoredWal(Latest)' = RestoredWal(Latest)
  BY <1>3, <1>5, <1>7
<1> QED
  BY <1>3, <1>4, <1>6, <1>8, GivenKept

\* A snapshot of the latest generation is uploaded again as it was.
LEMMA GivenPutSnapshot ==
  ASSUME TypeOK, StepOK, RInv, PagesOK, LatestGiven, PutSnapshot("ok")
  PROVE  LatestGiven'
<1>1. step = "put_snapshot" /\ PutObject("ok", SnapshotKey(generation), image)
  BY DEF PutSnapshot
<1>2. LatestIsRestorable
  BY DEF RInv, Base
<1>3. /\ DOMAIN bucket' = DOMAIN bucket \cup {SnapshotKey(generation)}
      /\ bucket'[SnapshotKey(generation)] = image
      /\ \A x \in DOMAIN bucket : x # SnapshotKey(generation) => bucket'[x] = bucket[x]
  BY <1>1, PutStores
<1>4. CASE Stored(LatestKey)
  <2>1. PICK g : g = Latest
    OBVIOUS
  <2>2. Restorable(g) /\ Stored(SnapshotKey(g))
    BY <1>2, <1>4, <2>1 DEF LatestIsRestorable, Restorable
  <2>3. bucket'[SnapshotKey(g)] = bucket[SnapshotKey(g)]
    BY <1>1, <1>3, <2>2, KeysDiffer DEF PagesOK, Stored, SnapshotKey
  <2>4. ~ReadKey(SnapshotKey(generation), g)
    BY DEF ReadKey, SnapshotKey
  <2>5. RestoredWal(g)' = RestoredWal(g)
    BY <1>3, <2>2, <2>4, RestoredSame
  <2>6. bucket'[LatestKey] = bucket[LatestKey]
    BY <1>3, <1>4, KeysDiffer DEF Stored
  <2>7. RestoredWal(Latest)' = RestoredWal(Latest)
    BY <2>1, <2>5, <2>6 DEF Latest
  <2> QED
    BY <1>2, <1>3, <1>4, <2>1, <2>3, <2>6, <2>7, GivenKept
<1>5. CASE ~Stored(LatestKey)
  <2>1. ~Stored(LatestKey)'
    BY <1>3, <1>5, KeysDiffer DEF Stored
  <2> QED
    BY <2>1 DEF LatestGiven
<1> QED
  BY <1>4, <1>5

\* `latest` moves to a generation without segments, or stays.
LEMMA GivenPutLatest ==
  ASSUME TypeOK, StepOK, RInv, PagesOK, LatestGiven, Unused, PutLatest("ok")
  PROVE  LatestGiven'
<1>1. step = "put_latest" /\ running /\ PutObject("ok", LatestKey, generation)
  BY DEF PutLatest, StepOK
<1>2. /\ DOMAIN bucket' = DOMAIN bucket \cup {LatestKey}
      /\ bucket'[LatestKey] = generation
      /\ \A x \in DOMAIN bucket : x # LatestKey => bucket'[x] = bucket[x]
  BY <1>1, PutStores
<1>3. PICK g : g = generation
  OBVIOUS
<1>4. Latest' = g
  BY <1>2, <1>3 DEF Latest
<1>5. CASE Current
  <2>1. g = Latest /\ Stored(LatestKey) /\ bucket'[LatestKey] = bucket[LatestKey]
    BY <1>2, <1>3, <1>5 DEF Current, Latest
  <2>2. Restorable(g) /\ LatestIsRestorable /\ Stored(SnapshotKey(g))
    BY <2>1 DEF RInv, Base, LatestIsRestorable, Restorable
  <2>3. ~ReadKey(LatestKey, g)
    BY DEF ReadKey, LatestKey
  <2>4. RestoredWal(g)' = RestoredWal(g)
    BY <1>2, <2>2, <2>3, RestoredSame
  <2>5. RestoredWal(Latest)' = RestoredWal(Latest)
    BY <1>4, <2>1, <2>4
  <2>6. bucket'[SnapshotKey(g)] = bucket[SnapshotKey(g)]
    BY <1>2, <2>2, KeysDiffer DEF Stored
  <2> QED
    BY <1>2, <2>1, <2>2, <2>5, <2>6, GivenKept
<1>6. CASE ~Current
  <2>1. \A k \in DOMAIN bucket : k[2] = g => k[1] = "snapshot"
    BY <1>1, <1>3, <1>6 DEF Unused, BeforeReset
  <2>2. \A k \in DOMAIN bucket' : ~ReadKey(k, g)
    BY <1>2, <2>1 DEF ReadKey, LatestKey
  <2>3. RestoredWal(g)' = <<>>
    BY <2>2, RestoredNothing
  <2>4. RestoredWal(Latest)' = <<>>
    BY <1>4, <2>3
  <2> QED
    BY <2>4 DEF LatestGiven, Given
<1> QED
  BY <1>5, <1>6


\* Whatever step: what a restore replays completes the snapshot it gives.
LEMMA GivenNext ==
  ASSUME NoFailures, Sound, Sound', CInv, OwnGiven', [Next]_vars
  PROVE  LatestGiven'
<1>1. /\ TypeOK /\ TypeOK' /\ StepOK /\ StepOK' /\ RInv /\ RInv' /\ SInv /\ SInv' /\ PagesOK /\ PagesOK'
      /\ LatestGiven /\ Unused
  BY DEF Sound, CInv
<1>2. CASE AppStep \/ UNCHANGED vars \/ New \/ Snapshot \/ CheckpointWal \/ CompactGet \/ RetentionNext
             \/ Drop \/ Crash
  BY <1>1, <1>2, GivenSame
     DEF AppStep, vars, New, Snapshot, CheckpointWal, CompactGet, RetentionNext, Drop, Crash
<1>3. CASE (\E c : SyncWal(c)) \/ ReadDb("ok") \/ (\E size : Compact(size))
             \/ (\E cutoff : EnforceRetention(cutoff))
  BY <1>1, <1>3, GivenSame DEF SyncWal, ReadDb, Compact, EnforceRetention
<1>4. CASE PutSegmentManifest("ok") \/ PutSnapshotManifest("ok")
  <2>1. running' /\ step' \in {"idle", "wal_checkpoint"}
    BY <1>1, <1>4, SyncReturnStep, SnapshotReturnStep
       DEF PutSegmentManifest, PutSnapshotManifest, StepOK
  <2> QED
    BY <1>1, <2>1, GivenOwn DEF Settled
<1>5. CASE CompactPut("ok") \/ CompactManifest("ok") \/ CompactDelete("ok") \/ RetentionDelete("ok")
  <2>1. running'
    BY <1>1, <1>5 DEF CompactPut, CompactManifest, CompactDelete, RetentionDelete, StepOK
  <2>2. step' \in Settled \cup {"compact_manifest"}
    BY <1>5 DEF CompactPut, CompactManifest, CompactDelete, RetentionDelete, Idle, Settled
  <2> QED
    BY <1>1, <2>1, <2>2, GivenOwn
<1> QED
  BY <1>1, <1>2, <1>3, <1>4, <1>5, OnlyOk, GivenPutSegment, GivenPutSnapshot, GivenPutLatest
     DEF Next, Manager, Sync, TakeSnapshot, Compaction, Retention

\* A new generation has nothing in the bucket.
LEMMA UnusedNew ==
  ASSUME TypeOK, Fresh, NewGeneration, UNCHANGED bucket
  PROVE  Unused'
<1>1. generation \in Nat /\ generation' = generation + 1 /\ ~(generation + 1 <= generation)
  BY KeysAssumption DEF TypeOK, ManagerTypeOK, NewGeneration
<1>2. \A k \in DOMAIN bucket' : k[2] # generation'
  BY <1>1 DEF Fresh
<1> QED
  BY <1>2 DEF Unused

\* `latest` names the generation, or nothing is about to make it do so.
LEMMA UnusedAfter ==
  ASSUME ~running' \/ step' \notin BeforeReset \/ Current'
  PROVE  Unused'
  BY DEF Unused

\* The snapshot is still being read.
LEMMA UnusedQuiet ==
  ASSUME Unused, running' => running, step \in BeforeReset,
         UNCHANGED <<bucket, generation>>
  PROVE  Unused'
  BY DEF Unused, Current, Stored, Latest

\* Only its snapshot is uploaded before `latest` names a generation.
LEMMA UnusedNext ==
  ASSUME NoFailures, TypeOK, StepOK, RInv, Unused, [Next]_vars
  PROVE  Unused'
<1>1. Fresh /\ (running => Order)
  BY DEF RInv, Base
<1>2. CASE AppStep \/ UNCHANGED vars
  BY <1>2 DEF AppStep, vars, tracking, call, Unused, Current, Stored, Latest
<1>3. CASE New
  BY <1>1, <1>3, UnusedNew DEF New
<1>4. CASE CheckpointWal
  BY <1>1, <1>4, OnlyOk, UnusedNew DEF CheckpointWal
<1>5. ASSUME NEW c, SyncWal(c) PROVE Unused'
  <2>1. CASE Recover(c)
    BY <1>1, <1>5, <2>1, UnusedNew DEF SyncWal, Recover
  <2>2. CASE step' \in {"idle", "wal_checkpoint", "put_segment"}
    BY <2>2, UnusedAfter DEF BeforeReset
  <2> QED
    BY <1>5, <2>1, <2>2, SyncReturnStep DEF SyncWal, ReadNewFrames
<1>6. CASE PutSegment("ok") \/ PutSegmentManifest("ok")
  BY <1>6, UnusedAfter, SyncReturnStep DEF PutSegment, PutSegmentManifest, BeforeReset
<1>7. CASE Snapshot
  <2>1. Current
    BY <1>1, <1>7 DEF Snapshot, Call, Order
  <2>2. Current'
    BY <1>7, <2>1 DEF Snapshot, tracking, Current, Stored, Latest
  <2> QED
    BY <2>2, UnusedAfter
<1>8. CASE ReadDb("ok")
  BY <1>8, UnusedQuiet DEF ReadDb, tracking, BeforeReset
<1>9. CASE PutSnapshot("ok")
  <2>1. /\ step = "put_snapshot" /\ running' = running /\ generation' = generation
        /\ PutObject("ok", SnapshotKey(generation), image)
    BY <1>9 DEF PutSnapshot, tracking
  <2>2. /\ DOMAIN bucket' = DOMAIN bucket \cup {SnapshotKey(generation)}
        /\ \A x \in DOMAIN bucket : x # SnapshotKey(generation) => bucket'[x] = bucket[x]
    BY <2>1, PutStores
  <2>3. Current => Current'
    BY <2>1, <2>2, KeysDiffer DEF Current, Stored, Latest
  <2>4. SnapshotKey(generation)[1] = "snapshot"
    BY DEF SnapshotKey
  <2> QED
    BY <2>1, <2>2, <2>3, <2>4 DEF Unused, BeforeReset
<1>10. CASE PutLatest("ok") \/ PutSnapshotManifest("ok")
  BY <1>10, UnusedAfter, SnapshotReturnStep DEF PutLatest, PutSnapshotManifest, BeforeReset
<1>11. CASE Compaction \/ Retention
  <2>1. step' \notin BeforeReset
    BY <1>11 DEF Compaction, Retention, Compact, CompactGet, CompactPut, CompactManifest,
           CompactDelete, EnforceRetention, RetentionNext, RetentionDelete, Idle, BeforeReset
  <2> QED
    BY <2>1, UnusedAfter
<1>12. CASE Drop \/ Crash
  BY <1>12, UnusedAfter DEF Drop, Crash, Gone
<1> QED
  BY <1>2, <1>3, <1>4, <1>5, <1>6, <1>7, <1>8, <1>9, <1>10, <1>11, <1>12, OnlyOk
     DEF Next, Manager, Sync, TakeSnapshot

\* With compact and retention too, as long as no upload fails.
LEMMA AlwaysSound ==
  ASSUME NoFailures, Undisturbed
  PROVE  Spec => [](Sound /\ CInv)
<1> DEFINE Inv == TypeOK /\ StepOK /\ RInv /\ SInv /\ PInv
<1>1. Init => HInv /\ PagesOK /\ CInv
  <2>1. ASSUME Init PROVE PagesOK /\ CInv
    <3>1. DOMAIN bucket = {} /\ running = FALSE
      BY <2>1 DEF Init
    <3> QED
      BY <2>1, <3>1 DEF Init, PagesOK, CInv, OwnGiven, LatestGiven, Unused, Fresh, Stored
  <2> QED
    BY <2>1, HInit
<1>2. Inv /\ Inv' /\ HInv /\ PagesOK /\ CInv /\ [Next]_vars => (HInv /\ PagesOK /\ CInv)'
  <2> SUFFICES ASSUME Inv, Inv', HInv, PagesOK, CInv, [Next]_vars PROVE (HInv /\ PagesOK /\ CInv)'
    OBVIOUS
  <2>1. HInv' /\ PagesOK'
    BY HNext, PagesNext
  <2>2. Sound /\ Sound'
    BY <2>1 DEF Sound
  <2>3. OwnGiven'
    BY <2>2, OwnNext DEF CInv
  <2>4. LatestGiven'
    BY <2>2, <2>3, GivenNext
  <2>5. Unused'
    BY UnusedNext DEF CInv
  <2> QED
    BY <2>1, <2>3, <2>4, <2>5 DEF CInv
<1>3. Inv /\ HInv /\ PagesOK => Sound
  BY DEF Sound
<1> QED
  BY <1>1, <1>2, <1>3, AlwaysSInv, PTL DEF Spec

\* What is sound gives the database after some transaction.
LEMMA SoundIsConsistent ==
  Sound /\ CInv => RestoreIsConsistent
BY CompletedIsConsistent DEF Sound, RestoreIsConsistent, CInv, LatestGiven, Given

\* With compact and retention too, whatever crashes and whatever SQLite does, if no
\* upload fails and nothing but the manager checkpoints the database: a restore
\* gives the database as it was after some transaction (README.md:206).
THEOREM ConsistentWithCompaction ==
  ASSUME NoFailures, Undisturbed
  PROVE  Spec => []RestoreIsConsistent
BY AlwaysSound, SoundIsConsistent, PTL
================================================================================
