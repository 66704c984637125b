-------------------------- MODULE DataStoreProofs ---------------------------
(***************************************************************************)
(* Proofs about DataStore.tla, for every sequence of batch sizes, every    *)
(* limit and every set of failures.                                        *)
(***************************************************************************)
EXTENDS DataStore, TLAPS

(* Sequences with the same elements are the same.                          *)
LEMMA SeqEqual ==
  ASSUME NEW S, NEW s \in Seq(S), NEW t \in Seq(S),
         Len(s) = Len(t), \A i \in 1 .. Len(s) : s[i] = t[i]
  PROVE  s = t
  OBVIOUS

(* Concatenation, point by point.                                          *)
LEMMA Concat ==
  ASSUME NEW S, NEW s \in Seq(S), NEW t \in Seq(S)
  PROVE  /\ s \o t \in Seq(S)
         /\ Len(s \o t) = Len(s) + Len(t)
         /\ \A i \in 1 .. Len(s) : (s \o t)[i] = s[i]
         /\ \A i \in 1 .. Len(t) : (s \o t)[Len(s) + i] = t[i]
  OBVIOUS

(* The rows of a batch are a sequence of rows.                             *)
LEMMA RowsOfBatch ==
  ASSUME NEW b \in Batches
  PROVE  /\ Size[b] \in Nat \ {0}
         /\ RowsOf(b) \in Seq(Rows)
         /\ Len(RowsOf(b)) = Size[b]
         /\ \A k \in 1 .. Size[b] : RowsOf(b)[k] = [batch |-> b, part |-> k]
<1>1. Size[b] \in Nat \ {0}
  BY SizeAssumption DEF Batches
<1>2. RowsOf(b) \in [1 .. Size[b] -> Rows]
  BY <1>1 DEF RowsOf, Rows
<1>3. \A k \in 1 .. Size[b] : RowsOf(b)[k] = [batch |-> b, part |-> k]
  BY DEF RowsOf
<1> DEFINE r == RowsOf(b)
           m == Size[b]
<1> HIDE DEF r, m
<1>4. m \in Nat /\ r \in [1 .. m -> Rows]
  BY <1>1, <1>2 DEF r, m
<1>5. r \in Seq(Rows) /\ Len(r) = m
  BY <1>4
<1> QED
  BY <1>1, <1>3, <1>5 DEF r, m

(* A whole batch at the end of the table keeps every batch whole.          *)
LEMMA WholeBatch ==
  ASSUME committed \in Seq(Rows), BatchAtomic, NEW b \in Batches,
         committed' = committed \o RowsOf(b)
  PROVE  /\ committed' \in Seq(Rows)
         /\ BatchAtomic'
         /\ \E i \in 1 .. Len(committed') : committed'[i].batch = b
         /\ \A i \in 1 .. Len(committed') :
              committed'[i].batch = b
              \/ \E j \in 1 .. Len(committed) : committed'[i] = committed[j]
         /\ \A j \in 1 .. Len(committed) :
              j <= Len(committed') /\ committed'[j] = committed[j]
<1> DEFINE n == Len(committed)
           m == Size[b]
           new == committed \o RowsOf(b)
<1>1. m \in Nat \ {0} /\ n \in Nat /\ RowsOf(b) \in Seq(Rows) /\ Len(RowsOf(b)) = m
  BY RowsOfBatch
<1>2. \A k \in 1 .. m : RowsOf(b)[k] = [batch |-> b, part |-> k]
  BY RowsOfBatch
<1>3. /\ new \in Seq(Rows) /\ Len(new) = n + m
      /\ \A i \in 1 .. n : new[i] = committed[i]
      /\ \A k \in 1 .. m : new[n + k] = [batch |-> b, part |-> k]
  <2>1. committed \in Seq(Rows)
    OBVIOUS
  <2> DEFINE t == RowsOf(b)
  <2> HIDE DEF t
  <2>2. t \in Seq(Rows) /\ Len(t) = m
    BY <1>1 DEF t
  <2>3. /\ committed \o t \in Seq(Rows) /\ Len(committed \o t) = Len(committed) + Len(t)
        /\ \A i \in 1 .. Len(committed) : (committed \o t)[i] = committed[i]
        /\ \A k \in 1 .. Len(t) : (committed \o t)[Len(committed) + k] = t[k]
    BY <2>1, <2>2, SMTT(30)
  <2> QED
    BY <1>2, <2>2, <2>3, SMTT(30) DEF t
<1>4. ASSUME NEW i \in 1 .. n + m
      PROVE  i \in 1 .. n \/ \E k \in 1 .. m : i = n + k
  <2>1. CASE i <= n
    BY <2>1, <1>1
  <2>2. CASE i > n
    <3>1. i - n \in 1 .. m /\ i = n + (i - n)
      BY <2>2, <1>1
    <3> QED
      BY <3>1
  <2> QED
    BY <2>1, <2>2, <1>1
<1>5. ASSUME NEW i \in 1 .. n + m
      PROVE  /\ new[i].part \in 1 .. Size[new[i].batch] /\ new[i].part <= i
             /\ i - new[i].part + Size[new[i].batch] <= n + m
             /\ \A k \in 1 .. Size[new[i].batch] :
                  new[i - new[i].part + k] = [batch |-> new[i].batch, part |-> k]
  <2>1. CASE i \in 1 .. n
    <3> DEFINE c == committed[i].batch
               p == committed[i].part
    <3>1. c \in Batches
      <4>1. committed[i] \in Rows
        BY <2>1
      <4> QED
        BY <4>1 DEF Rows
    <3>2. Size[c] \in Nat
      BY <3>1, RowsOfBatch
    <3>3. /\ p \in 1 .. Size[c] /\ p <= i /\ i - p + Size[c] <= n
          /\ \A k \in 1 .. Size[c] : committed[i - p + k] = [batch |-> c, part |-> k]
      BY <2>1 DEF BatchAtomic, WholeFrom
    <3>4. new[i] = committed[i] /\ new[i].batch = c /\ new[i].part = p
      BY <2>1, <1>3
    <3> HIDE DEF c, p, new, n, m
    <3>5. \A k \in 1 .. Size[c] : i - p + k \in 1 .. n
      BY <1>1, <3>2, <3>3, <2>1
    <3>6. \A k \in 1 .. Size[c] : new[i - p + k] = [batch |-> c, part |-> k]
      BY <1>3, <3>3, <3>5
    <3>7. i - p + Size[c] <= n + m
      BY <1>1, <3>2, <3>3, <2>1
    <3> QED
      BY <3>3, <3>4, <3>6, <3>7
  <2>2. CASE \E k \in 1 .. m : i = n + k
    <3>1. PICK k \in 1 .. m : i = n + k
      BY <2>2
    <3>2. new[i] = [batch |-> b, part |-> k]
      BY <3>1, <1>3
    <3>3. new[i].batch = b /\ new[i].part = k
      BY <3>2
    <3>4. i - k = n /\ k <= i /\ n + m <= n + m
      BY <1>1, <3>1
    <3>5. \A j \in 1 .. m : new[n + j] = [batch |-> b, part |-> j]
      BY <1>3
    <3>6. new[i].part \in 1 .. Size[new[i].batch] /\ Size[new[i].batch] = m
      BY <3>3
    <3> HIDE DEF new, n, m
    <3> QED
      BY <3>3, <3>4, <3>5, <3>6
  <2> QED
    BY <1>4, <2>1, <2>2
<1>6. n + 1 \in 1 .. n + m /\ new[n + 1] = [batch |-> b, part |-> 1]
  <2>1. 1 \in 1 .. m /\ n + 1 \in 1 .. n + m
    BY <1>1
  <2>2. \A k \in 1 .. m : new[n + k] = [batch |-> b, part |-> k]
    BY <1>3
  <2> HIDE DEF n, m, new
  <2> QED
    BY <2>1, <2>2
<1>7. committed' = new /\ Len(committed') = n + m
  BY <1>3
<1> HIDE DEF new
<1>8. BatchAtomic'
  BY <1>5, <1>7 DEF BatchAtomic, WholeFrom
<1>9. \E i \in 1 .. Len(committed') : committed'[i].batch = b
  BY <1>6, <1>7
<1>10. ASSUME NEW i \in 1 .. n + m
       PROVE  new[i].batch = b \/ \E j \in 1 .. n : new[i] = committed[j]
  <2>1. CASE i \in 1 .. n
    BY <2>1, <1>3
  <2>2. ASSUME NEW k \in 1 .. m, i = n + k
        PROVE  new[i].batch = b
    <3>1. new[i] = [batch |-> b, part |-> k]
      BY <2>2, <1>3
    <3> QED
      BY <3>1
  <2> QED
    BY <1>4, <2>1, <2>2
<1>11. \A j \in 1 .. n : j <= n + m
  BY <1>1
<1> QED
  BY <1>3, <1>7, <1>8, <1>9, <1>10, <1>11


-----------------------------------------------------------------------------
(* The invariant.                                                          *)

LEMMA InitInv == Init => IndInv
<1> SUFFICES ASSUME Init PROVE IndInv
  OBVIOUS
<1> USE DEF Init
<1>1. TypeOK
  <2>1. << >> \in Seq(Rows) /\ Len(<< >>) = 0 /\ 0 <= Limit
    BY LimitAssumption
  <2> QED
    BY <2>1 DEF TypeOK, LoggerLocs, ReaderLocs
<1>2. Transaction
  BY DEF Transaction
<1>3. PastOnly
  BY DEF PastOnly, Durable
<1>4. NoneLeftOpen
  BY DEF NoneLeftOpen
<1>5. BatchAtomic
  BY DEF BatchAtomic
<1> QED
  BY <1>1, <1>2, <1>3, <1>4, <1>5 DEF IndInv

(* recent, the other process and start-up leave the rows, the transaction  *)
(* and the bookkeeping of calls alone.                                     *)
StartStep == Open \/ CreateTable \/ CreateTableFails

LEMMA ReaderInv ==
  ASSUME IndInv, StartStep \/ RecentStep \/ ExtLock \/ ExtUnlock \/ UNCHANGED vars
  PROVE  IndInv'
<1> USE DEF IndInv
<1>1. UNCHANGED <<file, insert>>
  BY DEF StartStep, Open, CreateTable, CreateTableFails, DbGoto, RecentStep, ReadStart,
         ReadRow, ReadDone, ReadFails, ReaderGoto, ExtLock, ExtUnlock, vars
<1>2. UNCHANGED <<committed, pending, inTx, undone, logger, batch, ok, acked, refused, lost>>
  BY <1>1 DEF file, insert, told
<1>3. Transaction' /\ PastOnly' /\ BatchAtomic'
  BY <1>2 DEF Transaction, PastOnly, BatchAtomic, WholeFrom, Durable
<1>4. NoneLeftOpen'
  BY <1>2 DEF NoneLeftOpen, Durable
<1>5. TypeOK'
  <2>1. ext' \in {"none", "reading", "writing"}
    BY DEF TypeOK, StartStep, Open, CreateTable, CreateTableFails, DbGoto, RecentStep,
           ReadStart, ReadRow, ReadDone, ReadFails, ReaderGoto, ExtLock, ExtUnlock, vars
  <2>3. db' \in {"closed", "open", "ready"} /\ table' \in BOOLEAN
    BY DEF TypeOK, StartStep, Open, CreateTable, CreateTableFails, DbGoto, RecentStep,
           ReadStart, ReadRow, ReadDone, ReadFails, ReaderGoto, ExtLock, ExtUnlock, vars,
           handle
  <2>2. /\ reader' \in ReaderLocs /\ cursor' \in Nat /\ floor' \in Nat
        /\ answer' \in Seq(Rows) /\ Len(answer') <= Limit
    <3>1. CASE ReadStart
      <4>1. << >> \in Seq(Rows) /\ Len(<< >>) = 0 /\ 0 <= Limit
        BY LimitAssumption
      <4> QED
        BY <3>1, <4>1 DEF ReadStart, ReaderGoto, TypeOK, ReaderLocs
    <3>2. CASE ReadRow
      <4>1. Visible \in Seq(Rows)
        BY Concat DEF TypeOK, Visible
      <4>2. PICK i \in 1 .. Len(Visible) :
              cursor' = i /\ answer' = Append(answer, Visible[i])
        BY <3>2 DEF ReadRow, NextRow
      <4>3. Visible[i] \in Rows /\ i \in Nat
        BY <4>1
      <4>4. Len(answer) < Limit /\ answer \in Seq(Rows) /\ Limit \in Nat
        BY <3>2, LimitAssumption DEF ReadRow, TypeOK
      <4>5. answer' \in Seq(Rows) /\ Len(answer') <= Limit
        BY <4>2, <4>3, <4>4
      <4> QED
        BY <3>2, <4>2, <4>3, <4>5 DEF ReadRow, ReaderGoto, TypeOK, ReaderLocs
    <3>3. CASE ReadDone
      BY <3>3 DEF ReadDone, ReaderGoto, TypeOK, ReaderLocs
    <3>4. CASE ReadFails
      <4>1. << >> \in Seq(Rows) /\ Len(<< >>) = 0 /\ 0 <= Limit
        BY LimitAssumption
      <4> QED
        BY <3>4, <4>1 DEF ReadFails, ReaderGoto, TypeOK, ReaderLocs
    <3>5. CASE StartStep \/ ExtLock \/ ExtUnlock \/ UNCHANGED vars
      BY <3>5 DEF StartStep, Open, CreateTable, CreateTableFails, ExtLock, ExtUnlock, vars,
         recent, TypeOK
    <3> QED
      BY <3>1, <3>2, <3>3, <3>4, <3>5 DEF RecentStep
  <2> QED
    BY <1>2, <2>1, <2>2, <2>3 DEF TypeOK
<1> QED
  BY <1>3, <1>4, <1>5


(* The steps of insert other than a COMMIT that works, one at a time.      *)
LEMMA InsertInv ==
  ASSUME IndInv, InsertStep \/ Close \/ Killed, ~Commit
  PROVE  IndInv'
<1> USE DEF IndInv
<1>1. committed' = committed
  BY DEF InsertStep, Prepare, PrepareFails, Begin, BeginFails, Step, StepBusy, StepFails,
         StepsDone, CommitBusy, CommitFails, Rollback, Return, Close, Killed, LoggerGoto,
         Undo, file
<1>2. BatchAtomic'
  BY <1>1 DEF BatchAtomic, WholeFrom
<1>0. batch \in Nat /\ (batch \in Batches => Size[batch] \in Nat)
  BY RowsOfBatch DEF TypeOK, Batches
<1>3. TypeOK'
  <2>1. reader' \in ReaderLocs /\ cursor' \in Nat /\ floor' \in Nat /\ ext' = ext
        /\ answer' \in Seq(Rows) /\ Len(answer') <= Limit
    <3>1. CASE InsertStep
      BY <3>1 DEF InsertStep, Prepare, PrepareFails, Begin, BeginFails, Step, StepBusy,
         StepFails, StepsDone, Commit, CommitBusy, CommitFails, Rollback, Return,
         LoggerGoto, recent, TypeOK
    <3>2. CASE Close \/ Killed
      <4>1. << >> \in Seq(Rows) /\ Len(<< >>) = 0 /\ 0 <= Limit
        BY LimitAssumption
      <4> QED
        BY <3>2, <4>1 DEF Close, DbGoto, Killed, TypeOK, ReaderLocs
    <3> QED
      BY <3>1, <3>2
  <2>2. pending' \in Seq(Rows)
    <3>1. CASE Step
      <4>1. batch \in Batches /\ Len(pending) < Size[batch] /\ pending \in Seq(Rows)
        BY <3>1 DEF Step, LoggerGoto, Transaction, TypeOK
      <4>2. Len(pending) + 1 \in 1 .. Size[batch]
        BY <4>1, RowsOfBatch
      <4>3. RowsOf(batch)[Len(pending) + 1] \in Rows
        BY <4>1, <4>2, RowsOfBatch
      <4> QED
        BY <3>1, <4>1, <4>3 DEF Step
    <3>2. CASE ~Step
      <4>1. pending' \in {pending, << >>}
        BY <3>2 DEF InsertStep, Prepare, PrepareFails, Begin, BeginFails, StepBusy,
           StepFails, StepsDone, CommitBusy, CommitFails, Rollback, Return, Undo, Close,
           Killed, file
      <4>2. << >> \in Seq(Rows)
        OBVIOUS
      <4> QED
        BY <4>1, <4>2 DEF TypeOK
    <3> QED
      BY <3>1, <3>2
  <2>3. inTx' \in BOOLEAN /\ undone' \in BOOLEAN /\ ok' \in BOOLEAN /\ lost' \in BOOLEAN
        /\ logger' \in LoggerLocs
        /\ batch' \in Batches \union {0}
        /\ acked' \in SUBSET Batches /\ refused' \in SUBSET Batches
    BY DEF InsertStep, Prepare, PrepareFails, Begin, BeginFails, Step, StepBusy,
           StepFails, StepsDone, CommitBusy, CommitFails, Rollback, Return, Undo, Close,
           DbGoto, Killed, LoggerGoto, file, insert, told, TypeOK, LoggerLocs, Transaction
  <2>4. db' \in {"closed", "open", "ready"} /\ table' \in BOOLEAN
    BY DEF InsertStep, Prepare, PrepareFails, Begin, BeginFails, Step, StepBusy,
           StepFails, StepsDone, CommitBusy, CommitFails, Rollback, Return, Close, DbGoto,
           Killed, LoggerGoto, handle, TypeOK
  <2> QED
    BY <1>1, <2>1, <2>2, <2>3, <2>4 DEF TypeOK
<1>4. Transaction'
  <2>1. CASE Prepare \/ PrepareFails
    BY <2>1 DEF Prepare, PrepareFails, LoggerGoto, file, Transaction
  <2>2. CASE Begin
    BY <2>2, <1>0 DEF Begin, LoggerGoto, file, Transaction
  <2>3. CASE BeginFails
    BY <2>3 DEF BeginFails, LoggerGoto, file, Transaction
  <2>4. CASE Step
    <3>1. /\ logger = "step" /\ logger' = "step" /\ Len(pending) < Size[batch]
          /\ pending' = Append(pending, RowsOf(batch)[Len(pending) + 1])
          /\ UNCHANGED <<inTx, batch, ok>>
      BY <2>4 DEF Step, LoggerGoto
    <3>2. /\ batch \in Batches /\ ok /\ inTx /\ pending \in Seq(Rows)
          /\ \A k \in 1 .. Len(pending) : pending[k] = RowsOf(batch)[k]
      BY <3>1 DEF Transaction, TypeOK
    <3>3. /\ Len(pending') = Len(pending) + 1
          /\ \A k \in 1 .. Len(pending') : pending'[k] = RowsOf(batch)[k]
      <4> DEFINE r == RowsOf(batch)
      <4> HIDE DEF r
      <4>1. pending' = Append(pending, r[Len(pending) + 1])
        BY <3>1 DEF r
      <4>2. \A k \in 1 .. Len(pending) : pending[k] = r[k]
        BY <3>2 DEF r
      <4>3. Len(pending') = Len(pending) + 1
            /\ \A k \in 1 .. Len(pending') : pending'[k] = r[k]
        BY <4>1, <4>2, <3>2
      <4> QED
        BY <4>3 DEF r
    <3>4. Len(pending') <= Size[batch]
      BY <1>0, <3>1, <3>2, <3>3
    <3>5. batch' = batch /\ inTx' /\ ok' /\ logger' = "step"
      BY <3>1, <3>2
    <3>6. \A k \in 1 .. Len(pending') : pending'[k] = RowsOf(batch')[k]
      BY <3>3, <3>5
    <3>7. Len(pending') <= Size[batch'] /\ batch' \in Batches
      BY <3>2, <3>4, <3>5
    <3> QED
      BY <3>5, <3>6, <3>7 DEF Transaction
  <2>5. CASE StepBusy
    BY <2>5 DEF StepBusy, LoggerGoto, file, Transaction
  <2>6. CASE StepFails
    <3>1. logger = "step" /\ logger' = "finish" /\ ~ok' /\ batch' = batch
      BY <2>6 DEF StepFails, LoggerGoto
    <3>2. UNCHANGED <<pending, inTx>> \/ pending' = << >>
      BY <2>6 DEF StepFails, Undo, file
    <3>3. inTx /\ batch \in Batches
      BY <3>1 DEF Transaction
    <3>4. ~inTx' => pending' = << >>
      BY <3>2, <3>3
    <3> QED
      BY <3>1, <3>3, <3>4 DEF Transaction
  <2>7. CASE StepsDone
    <3>1. /\ logger = "step" /\ logger' = "finish" /\ Len(pending) = Size[batch]
          /\ UNCHANGED <<pending, inTx, batch, ok>>
      BY <2>7 DEF StepsDone, LoggerGoto, file
    <3>2. /\ batch \in Batches /\ ok /\ inTx /\ pending \in Seq(Rows)
          /\ \A k \in 1 .. Len(pending) : pending[k] = RowsOf(batch)[k]
      BY <3>1 DEF Transaction, TypeOK
    <3>3. RowsOf(batch) \in Seq(Rows) /\ Len(RowsOf(batch)) = Size[batch]
      BY <3>2, RowsOfBatch
    <3>4. pending = RowsOf(batch)
      <4> DEFINE r == RowsOf(batch)
      <4> HIDE DEF r
      <4>1. r \in Seq(Rows) /\ Len(r) = Len(pending)
        BY <3>1, <3>3 DEF r
      <4>2. \A k \in 1 .. Len(pending) : pending[k] = r[k]
        BY <3>2 DEF r
      <4>3. pending = r
        BY <4>1, <4>2, <3>2, SeqEqual
      <4> QED
        BY <4>3 DEF r
    <3> QED
      BY <3>1, <3>2, <3>4 DEF Transaction, RowsOf
  <2>8. CASE CommitBusy
    BY <2>8 DEF CommitBusy, LoggerGoto, file, Transaction
  <2>9. CASE CommitFails
    BY <2>9 DEF CommitFails, Undo, LoggerGoto, file, Transaction
  <2>10. CASE Rollback
    BY <2>10 DEF Rollback, Undo, LoggerGoto, file, Transaction
  <2>11. CASE Return
    BY <2>11 DEF Return, LoggerGoto, file, Transaction
  <2>12. CASE Close \/ Killed
    BY <2>12 DEF Close, DbGoto, insert, Killed, file, told, Transaction
  <2> QED
    BY <2>1, <2>2, <2>3, <2>4, <2>5, <2>6, <2>7, <2>8, <2>9, <2>10, <2>11,
       <2>12 DEF InsertStep
<1>5. PastOnly'
  <2>1. CASE Prepare \/ PrepareFails
    <3>1. /\ logger = "idle" /\ logger' \in {"begin", "return"} /\ batch' = batch + 1
          /\ UNCHANGED refused
      BY <2>1 DEF Prepare, PrepareFails, LoggerGoto, told
    <3>2. \A i \in 1 .. Len(committed) : committed[i].batch \in Nat
      <4>1. \A i \in 1 .. Len(committed) : committed[i] \in Rows
        BY DEF TypeOK
      <4> QED
        BY <4>1 DEF Rows, Batches
    <3>3. \A i \in 1 .. Len(committed) : committed[i].batch < batch + 1
      BY <1>0, <3>2 DEF PastOnly
    <3>4. \A b \in refused : b \in Nat /\ b < batch + 1
      BY <1>0 DEF PastOnly, TypeOK, Batches
    <3>5. \A i \in 1 .. Len(committed) :
            committed[i].batch <= batch + 1 /\ committed[i].batch # batch + 1
      BY <1>0, <3>2, <3>3
    <3>6. \A b \in refused : b <= batch + 1 /\ b # batch + 1
      BY <1>0, <3>4
    <3> QED
      BY <1>1, <3>1, <3>5, <3>6 DEF PastOnly, Durable
  <2>2. CASE Begin
    BY <2>2, <1>1 DEF Begin, LoggerGoto, file, told, PastOnly, Durable
  <2>3. CASE BeginFails
    BY <2>3, <1>1 DEF BeginFails, LoggerGoto, file, told, PastOnly, Durable
  <2>4. CASE Step
    BY <2>4, <1>1 DEF Step, LoggerGoto, file, told, PastOnly, Durable
  <2>5. CASE StepBusy
    BY <2>5, <1>1 DEF StepBusy, LoggerGoto, file, told, PastOnly, Durable
  <2>6. CASE StepFails
    BY <2>6, <1>1 DEF StepFails, Undo, LoggerGoto, file, told, PastOnly, Durable
  <2>7. CASE StepsDone
    BY <2>7, <1>1 DEF StepsDone, LoggerGoto, file, told, PastOnly, Durable
  <2>8. CASE CommitBusy
    BY <2>8, <1>1 DEF CommitBusy, LoggerGoto, file, told, PastOnly, Durable
  <2>9. CASE CommitFails
    BY <2>9, <1>1 DEF CommitFails, Undo, LoggerGoto, file, told, PastOnly, Durable
  <2>10. CASE Rollback
    BY <2>10, <1>1 DEF Rollback, Undo, LoggerGoto, file, told, PastOnly, Durable
  <2>11. CASE Return
    BY <2>11, <1>0, <1>1 DEF Return, LoggerGoto, file, told, PastOnly, Durable
  <2>12. CASE Close \/ Killed
    BY <2>12, <1>1 DEF Close, DbGoto, insert, Killed, file, told, PastOnly, Durable
  <2> QED
    BY <2>1, <2>2, <2>3, <2>4, <2>5, <2>6, <2>7, <2>8, <2>9, <2>10, <2>11,
       <2>12 DEF InsertStep
<1>6. NoneLeftOpen'
  <2>1. CASE Prepare \/ PrepareFails
    BY <2>1, <1>1 DEF Prepare, PrepareFails, LoggerGoto, file, told, NoneLeftOpen, Durable
  <2>2. CASE Begin
    BY <2>2, <1>1 DEF Begin, LoggerGoto, file, told, NoneLeftOpen, Durable
  <2>3. CASE BeginFails
    BY <2>3, <1>1 DEF BeginFails, LoggerGoto, file, told, NoneLeftOpen, Durable
  <2>4. CASE Step
    BY <2>4, <1>1 DEF Step, LoggerGoto, file, told, NoneLeftOpen, Durable
  <2>5. CASE StepBusy
    BY <2>5, <1>1 DEF StepBusy, LoggerGoto, file, told, NoneLeftOpen, Durable
  <2>6. CASE StepFails
    BY <2>6, <1>1 DEF StepFails, Undo, LoggerGoto, file, told, NoneLeftOpen, Durable
  <2>7. CASE StepsDone
    BY <2>7, <1>1 DEF StepsDone, LoggerGoto, file, told, NoneLeftOpen, Durable
  <2>8. CASE CommitBusy
    BY <2>8, <1>1 DEF CommitBusy, LoggerGoto, file, told, NoneLeftOpen, Durable
  <2>9. CASE CommitFails
    BY <2>9, <1>1 DEF CommitFails, Undo, LoggerGoto, file, told, NoneLeftOpen, Durable
  <2>10. CASE Rollback
    BY <2>10, <1>1 DEF Rollback, Undo, LoggerGoto, file, told, NoneLeftOpen, Durable
  <2>11. CASE Return
    BY <2>11, <1>1 DEF Return, LoggerGoto, file, told, NoneLeftOpen, Durable
  <2>12. CASE Close \/ Killed
    BY <2>12, <1>1 DEF Close, DbGoto, insert, Killed, file, told, NoneLeftOpen, Durable
  <2> QED
    BY <2>1, <2>2, <2>3, <2>4, <2>5, <2>6, <2>7, <2>8, <2>9, <2>10, <2>11,
       <2>12 DEF InsertStep
<1> QED
  BY <1>2, <1>3, <1>4, <1>5, <1>6


(* A COMMIT that works moves exactly the batch of the call to the table.   *)
LEMMA CommitInv ==
  ASSUME IndInv, Commit
  PROVE  IndInv'
<1> USE DEF IndInv
<1>1. /\ logger = "finish" /\ logger' = "return" /\ ok
      /\ committed' = committed \o pending /\ pending' = << >> /\ inTx' = FALSE
      /\ UNCHANGED <<db, table, ext, reader, cursor, answer, floor, undone, batch, ok>>
      /\ UNCHANGED <<acked, refused, lost>>
  BY DEF Commit, LoggerGoto, handle, recent, told
<1>2. batch \in Batches /\ batch \in Nat /\ committed' = committed \o RowsOf(batch)
  BY <1>1 DEF Transaction, Batches
<1>3. committed \in Seq(Rows)
  BY DEF TypeOK
<1>4. /\ committed' \in Seq(Rows) /\ BatchAtomic'
      /\ \E i \in 1 .. Len(committed') : committed'[i].batch = batch
      /\ \A i \in 1 .. Len(committed') :
           committed'[i].batch = batch
           \/ \E j \in 1 .. Len(committed) : committed'[i] = committed[j]
  BY <1>2, <1>3, WholeBatch
<1>5. TypeOK'
  <2>1. << >> \in Seq(Rows)
    OBVIOUS
  <2> QED
    BY <1>1, <1>4, <2>1 DEF TypeOK, LoggerLocs
<1>6. Transaction'
  BY <1>1, <1>2 DEF Transaction
<1>7. PastOnly'
  <2>1. \A i \in 1 .. Len(committed') : committed'[i].batch <= batch
    <3>1. \A j \in 1 .. Len(committed) : committed[j].batch <= batch
      BY DEF PastOnly
    <3>2. batch <= batch
      BY <1>2
    <3> QED
      BY <1>4, <3>1, <3>2
  <2> QED
    BY <1>1, <2>1 DEF PastOnly
<1>8. NoneLeftOpen'
  BY <1>1, <1>4 DEF NoneLeftOpen, Durable
<1> QED
  BY <1>4, <1>5, <1>6, <1>7, <1>8

(* The invariant of DataStore.tla is inductive.                            *)
THEOREM Inductive == Spec => []IndInv
<1>1. IndInv /\ [Next]_vars => IndInv'
  <2> SUFFICES ASSUME IndInv, [Next]_vars PROVE IndInv'
    OBVIOUS
  <2>1. CASE Commit
    BY <2>1, CommitInv
  <2>2. CASE ~Commit /\ (InsertStep \/ Close \/ Killed)
    BY <2>2, InsertInv
  <2>3. CASE StartStep \/ RecentStep \/ ExtLock \/ ExtUnlock \/ UNCHANGED vars
    BY <2>3, ReaderInv
  <2> QED
    BY <2>1, <2>2, <2>3 DEF Next, LifeStep, StartStep
<1> QED
  BY <1>1, InitInv, PTL DEF Spec

(* The fields of data_store.cpp keep their types, and recent never returns *)
(* more rows than it was asked for.                                        *)
THEOREM TypeCorrect == Spec => []TypeOK
<1>1. IndInv => TypeOK
  BY DEF IndInv
<1> QED
  BY <1>1, Inductive, PTL

(* Whatever fails and whenever the program is killed: with a row the whole *)
(* batch is in the table, from its first part to its last.                 *)
THEOREM Atomic == Spec => []BatchAtomic
<1>1. IndInv => BatchAtomic
  BY DEF IndInv
<1> QED
  BY <1>1, Inductive, PTL

-----------------------------------------------------------------------------
(* Refinement.                                                             *)

LEMMA InitRefines == Init => Promise!Init
  BY DEF Init, Promise!Init

(* Commit stores, Return acknowledges or refuses, Prepare is the call; all *)
(* other steps of the code are invisible.                                  *)
LEMMA StepRefines ==
  ASSUME IndInv, [Next]_vars
  PROVE  [Promise!Next \/ lost']_(Promise!storeVars)
<1> USE DEF IndInv
<1>1. batch \in Batches => /\ batch \in Promise!Batches
                           /\ RowsOf(batch) = Promise!RowsOf(batch)
  BY DEF Batches, Promise!Batches, RowsOf, Promise!RowsOf
<1>2. Durable(batch) <=> Promise!Stored(batch)
  BY DEF Durable, Promise!Stored
<1>3. CASE Prepare \/ PrepareFails
  <2>1. Promise!Call
    BY <1>3 DEF Prepare, PrepareFails, LoggerGoto, file, told, Promise!Call, Batches,
        Promise!Batches
  <2> QED
    BY <2>1 DEF Promise!Next
<1>4. CASE Commit
  <2>1. logger = "finish" /\ ok /\ committed' = committed \o pending
        /\ UNCHANGED <<batch, acked, refused>>
    BY <1>4 DEF Commit, LoggerGoto, told
  <2>2. batch \in Batches /\ pending = RowsOf(batch) /\ batch \notin refused
        /\ ~Durable(batch)
    BY <2>1 DEF Transaction, PastOnly
  <2>3. Promise!Store
    BY <1>1, <1>2, <2>1, <2>2 DEF Promise!Store
  <2> QED
    BY <2>3 DEF Promise!Next
<1>5. CASE Return /\ ~lost
  <2>1. logger = "return" /\ UNCHANGED <<committed, batch>>
        /\ acked' = (IF ok THEN acked \union {batch} ELSE acked)
        /\ refused' = (IF ok THEN refused ELSE refused \union {batch})
    BY <1>5 DEF Return, LoggerGoto, file
  <2>2. CASE ok
    <3>1. Durable(batch)
      BY <1>5, <2>1, <2>2 DEF NoneLeftOpen
    <3>2. Promise!Acknowledge
      BY <1>2, <2>1, <2>2, <3>1 DEF Promise!Acknowledge
    <3> QED
      BY <3>2 DEF Promise!Next
  <2>3. CASE ~ok
    <3>1. batch \in Batches /\ ~Durable(batch)
      BY <2>1, <2>3 DEF PastOnly, Transaction
    <3>2. Promise!Refuse
      BY <1>1, <1>2, <2>1, <2>3, <3>1 DEF Promise!Refuse
    <3> QED
      BY <3>2 DEF Promise!Next
  <2> QED
    BY <2>2, <2>3
<1>6. CASE ~(Prepare \/ PrepareFails \/ Commit \/ Return)
  <2>1. UNCHANGED <<committed, batch, acked, refused>>
    BY <1>6 DEF Next, LifeStep, Open, CreateTable, CreateTableFails, Close, DbGoto,
       InsertStep, Begin, BeginFails, Step, StepBusy, StepFails, StepsDone, CommitBusy,
       CommitFails, Rollback, Undo, Killed, LoggerGoto, file, told, RecentStep, ReadStart,
       ReadRow, ReadDone, ReadFails, ReaderGoto, insert, ExtLock, ExtUnlock, vars
  <2> QED
    BY <2>1 DEF Promise!storeVars
<1>7. CASE Return /\ lost
  BY <1>7 DEF Return
<1> QED
  BY <1>3, <1>4, <1>5, <1>6, <1>7

(* Until a COMMIT fails, DataStore is the store of AtomicStore.tla: true    *)
(* from insert means stored for good, false means not stored, and batches  *)
(* enter the table whole and in the order of the calls, whatever else      *)
(* fails and however often the program is killed or closed and started.    *)
THEOREM KeepsPromise == Spec => PromiseUntilLost
<1>1. IndInv /\ [Next]_vars => [Promise!Next \/ lost']_(Promise!storeVars)
  BY StepRefines
<1> QED
  BY <1>1, InitRefines, Inductive, PTL DEF Spec, PromiseUntilLost
-----------------------------------------------------------------------------
(* recent.                                                                 *)

(* The table only grows, at its end.                                       *)
LEMMA TableGrows ==
  ASSUME IndInv, [Next]_vars
  PROVE  /\ Len(committed) \in Nat /\ Len(committed') \in Nat
         /\ Len(committed) <= Len(committed')
         /\ \A j \in 1 .. Len(committed) : committed'[j] = committed[j]
<1> USE DEF IndInv
<1>1. committed \in Seq(Rows)
  BY DEF TypeOK
<1>2. CASE Commit
  <2>1. batch \in Batches /\ committed' = committed \o RowsOf(batch)
    BY <1>2 DEF Commit, LoggerGoto, Transaction
  <2>2. RowsOf(batch) \in Seq(Rows)
    BY <2>1, RowsOfBatch
  <2> DEFINE r == RowsOf(batch)
  <2> HIDE DEF r
  <2>3. committed' = committed \o r /\ r \in Seq(Rows)
    BY <2>1, <2>2 DEF r
  <2> QED
    BY <1>1, <2>3, Concat
<1>3. CASE ~Commit
  <2>1. committed' = committed
    BY <1>3 DEF Next, LifeStep, Open, CreateTable, CreateTableFails, Close, DbGoto,
       InsertStep, Prepare, PrepareFails, Begin, BeginFails, Step,
       StepBusy, StepFails, StepsDone, CommitBusy, CommitFails, Rollback, Return,
       Undo, Killed, LoggerGoto, file, RecentStep, ReadStart, ReadRow, ReadDone, ReadFails,
       ReaderGoto, ExtLock, ExtUnlock, vars
  <2> QED
    BY <1>1, <2>1
<1> QED
  BY <1>2, <1>3

(* What insert has said true of is in the table, and stays there through   *)
(* every failure, kill and restart, until a COMMIT fails; TLC shows on     *)
(* DataStore_commit that the condition is needed.                          *)
THEOREM DurableUntilLost == Spec => [](lost \/ AckDurable)
<1> DEFINE P == lost \/ AckDurable
<1>1. Init => P
  BY DEF Init, AckDurable
<1>2. IndInv /\ P /\ [Next]_vars => P'
  <2> SUFFICES ASSUME IndInv, P, [Next]_vars, ~lost', NEW b \in acked'
               PROVE  Durable(b)'
    BY DEF AckDurable
  <2>1. ~lost /\ (b \in acked \/ (b = batch /\ logger = "return" /\ ok))
    BY DEF Next, LifeStep, Open, CreateTable, CreateTableFails, Close, DbGoto, InsertStep,
       Prepare, PrepareFails, Begin, BeginFails, Step, StepBusy, StepFails, StepsDone,
       Commit, CommitBusy, CommitFails, Rollback, Return, LoggerGoto, Killed, RecentStep,
       ReadStart, ReadRow, ReadDone, ReadFails, ReaderGoto, ExtLock, ExtUnlock, vars,
       insert, told
  <2>2. Durable(b)
    BY <2>1 DEF IndInv, NoneLeftOpen, AckDurable
  <2> QED
    BY <2>2, TableGrows DEF Durable
<1> QED
  BY <1>1, <1>2, Inductive, PTL DEF Spec

(* A batch that insert has said false of never gets into the table, under  *)
(* every failure and also after a COMMIT has failed: only the batch whose  *)
(* insert is under way is ever committed, and it has no outcome yet.       *)
THEOREM RefusalsHonest == Spec => []RefusedIsAbsent
<1>1. Init => RefusedIsAbsent
  BY DEF Init, RefusedIsAbsent
<1>2. IndInv /\ RefusedIsAbsent /\ [Next]_vars => RefusedIsAbsent'
  <2> SUFFICES ASSUME IndInv, RefusedIsAbsent, [Next]_vars, NEW b \in refused'
               PROVE  ~Durable(b)'
    BY DEF RefusedIsAbsent
  <2>1. CASE Commit
    <3>1. /\ b \in refused /\ batch \in Batches /\ batch \notin refused
          /\ committed' = committed \o RowsOf(batch)
      BY <2>1 DEF Commit, LoggerGoto, told, IndInv, Transaction, PastOnly
    <3>2. \A i \in 1 .. Len(committed') :
            committed'[i].batch = batch
            \/ \E j \in 1 .. Len(committed) : committed'[i] = committed[j]
      BY <3>1, WholeBatch DEF IndInv, TypeOK
    <3> QED
      BY <3>1, <3>2 DEF RefusedIsAbsent, Durable
  <2>2. CASE ~Commit
    <3>1. /\ committed' = committed
          /\ b \in refused \/ (b = batch /\ logger = "return" /\ ~ok)
      BY <2>2 DEF Next, LifeStep, Open, CreateTable, CreateTableFails, Close, DbGoto,
         InsertStep, Prepare, PrepareFails, Begin, BeginFails, Step, StepBusy, StepFails,
         StepsDone, CommitBusy, CommitFails, Rollback, Return, Undo, LoggerGoto, Killed,
         RecentStep, ReadStart, ReadRow, ReadDone, ReadFails, ReaderGoto, ExtLock,
         ExtUnlock, vars, file, insert, told
    <3>2. ~Durable(b)
      BY <3>1 DEF IndInv, PastOnly, RefusedIsAbsent
    <3> QED
      BY <3>1, <3>2 DEF Durable
  <2> QED
    BY <2>1, <2>2
<1> QED
  BY <1>1, <1>2, Inductive, PTL DEF Spec

(* What a statement sees: the table, then the open transaction.            *)
LEMMA VisibleRows ==
  ASSUME TypeOK
  PROVE  /\ Visible \in Seq(Rows) /\ Len(Visible) \in Nat
         /\ Len(committed) \in Nat /\ Len(pending) \in Nat
         /\ Len(Visible) = Len(committed) + Len(pending)
         /\ \A i \in 1 .. Len(committed) : Visible[i] = committed[i]
         /\ \A i \in 1 .. Len(pending) : Visible[Len(committed) + i] = pending[i]
<1>1. committed \in Seq(Rows) /\ pending \in Seq(Rows)
  BY DEF TypeOK
<1> QED
  BY <1>1, Concat DEF Visible

LEMMA RecentFrame ==
  ASSUME [Next]_vars
  PROVE  \/ UNCHANGED recent
         \/ ReadStart \/ ReadRow \/ ReadDone \/ ReadFails \/ Close \/ Killed
BY DEF Next, LifeStep, Open, CreateTable, CreateTableFails, InsertStep, Prepare, PrepareFails, Begin, BeginFails, Step, StepBusy,
       StepFails, StepsDone, Commit, CommitBusy, CommitFails, Rollback, Return, LoggerGoto,
       RecentStep, ExtLock, ExtUnlock, vars

(* Older orders the rows.                                                  *)
LEMMA OlderTransitive ==
  ASSUME NEW r \in Rows, NEW s \in Rows, NEW t \in Rows, Older(r, s), Older(s, t)
  PROVE  Older(r, t)
<1>1. /\ r.batch \in Nat /\ s.batch \in Nat /\ t.batch \in Nat
      /\ r.part \in Nat /\ s.part \in Nat /\ t.part \in Nat
  BY DEF Rows, Batches
<1> QED
  BY <1>1 DEF Older

(* What OrderInv says of the visible rows, v, and of an answer, a, read    *)
(* down to the row at c.                                                   *)
InOrder(v) == \A i, j \in 1 .. Len(v) : i < j => Older(v[i], v[j])
ReadTo(v, a, c) == a # << >> => c \in 1 .. Len(v) /\ a[Len(a)] = v[c]

(* More rows may become visible at the end.                                *)
LEMMA ReadToGrows ==
  ASSUME NEW v \in Seq(Rows), NEW w \in Seq(Rows), NEW a, NEW c,
         Len(v) <= Len(w), \A i \in 1 .. Len(v) : w[i] = v[i], ReadTo(v, a, c)
  PROVE  ReadTo(w, a, c)
<1> SUFFICES ASSUME a # << >> PROVE c \in 1 .. Len(w) /\ a[Len(a)] = w[c]
  BY DEF ReadTo
<1>1. c \in 1 .. Len(v) /\ a[Len(a)] = v[c]
  BY DEF ReadTo
<1> QED
  BY <1>1

LEMMA AppendInOrder ==
  ASSUME NEW v \in Seq(Rows), NEW r \in Rows, InOrder(v),
         \A i \in 1 .. Len(v) : Older(v[i], r)
  PROVE  InOrder(Append(v, r))
<1> DEFINE w == Append(v, r)
<1>1. /\ Len(v) \in Nat /\ Len(w) = Len(v) + 1 /\ w[Len(v) + 1] = r
      /\ \A i \in 1 .. Len(v) : w[i] = v[i]
  OBVIOUS
<1> HIDE DEF w
<1> SUFFICES ASSUME NEW i \in 1 .. Len(w), NEW j \in 1 .. Len(w), i < j
             PROVE  Older(w[i], w[j])
  BY DEF InOrder, w
<1>2. i \in 1 .. Len(v)
  BY <1>1
<1>3. CASE j \in 1 .. Len(v)
  BY <1>1, <1>2, <1>3 DEF InOrder
<1>4. CASE j = Len(v) + 1
  BY <1>1, <1>2, <1>4
<1> QED
  BY <1>1, <1>3, <1>4

(* The next row inserted is newer than all visible ones.                   *)
LEMMA StepIsNewest ==
  ASSUME IndInv, Step
  PROVE  /\ RowsOf(batch)[Len(pending) + 1] \in Rows
         /\ \A i \in 1 .. Len(Visible) :
              Older(Visible[i], RowsOf(batch)[Len(pending) + 1])
<1> USE DEF IndInv
<1> DEFINE p == Len(pending) + 1
           r == RowsOf(batch)[p]
<1>1. /\ logger = "step" /\ Len(pending) < Size[batch]
  BY DEF Step, LoggerGoto
<1>2. /\ batch \in Batches /\ batch \in Nat /\ ~Durable(batch) /\ pending \in Seq(Rows)
      /\ \A k \in 1 .. Len(pending) : pending[k] = RowsOf(batch)[k]
  BY <1>1 DEF Transaction, PastOnly, TypeOK, Batches
<1>3. Size[batch] \in Nat /\ p \in 1 .. Size[batch] /\ p \in Nat
  BY <1>1, <1>2, RowsOfBatch
<1>4. r = [batch |-> batch, part |-> p] /\ r \in Rows
  <2>1. r = [batch |-> batch, part |-> p]
    BY <1>2, <1>3, RowsOfBatch
  <2>2. p \in Nat \ {0}
    BY <1>3
  <2> QED
    BY <1>2, <2>1, <2>2 DEF Rows
<1>5. ASSUME NEW i \in 1 .. Len(committed)
      PROVE  Older(committed[i], r)
  <2>1. committed[i] \in Rows
    BY DEF TypeOK
  <2>2. committed[i].batch \in Nat
    BY <2>1 DEF Rows, Batches
  <2>3. committed[i].batch <= batch /\ committed[i].batch # batch
    BY <1>2 DEF PastOnly, Durable
  <2>4. committed[i].batch < batch
    BY <1>2, <2>2, <2>3
  <2> QED
    BY <1>4, <2>4 DEF Older
<1>6. ASSUME NEW k \in 1 .. Len(pending)
      PROVE  Older(pending[k], r)
  <2>1. k \in 1 .. Size[batch] /\ k < p
    BY <1>1, <1>2, <1>3
  <2>2. pending[k] = [batch |-> batch, part |-> k]
    BY <1>2, <2>1 DEF RowsOf
  <2> QED
    BY <1>4, <2>1, <2>2 DEF Older
<1> HIDE DEF r, p
<1>7. ASSUME NEW i \in 1 .. Len(Visible)
      PROVE  Older(Visible[i], r)
  <2>1. /\ Len(Visible) = Len(committed) + Len(pending)
        /\ Len(committed) \in Nat /\ Len(pending) \in Nat
    BY VisibleRows
  <2>2. CASE i <= Len(committed)
    <3>1. i \in 1 .. Len(committed)
      BY <2>1, <2>2
    <3>2. Visible[i] = committed[i]
      BY <3>1, VisibleRows
    <3> QED
      BY <1>5, <3>1, <3>2
  <2>3. CASE i > Len(committed)
    <3>1. /\ i - Len(committed) \in 1 .. Len(pending)
          /\ i = Len(committed) + (i - Len(committed))
      BY <2>1, <2>3
    <3>2. Visible[i] = pending[i - Len(committed)]
      BY <3>1, VisibleRows
    <3> QED
      BY <1>6, <3>1, <3>2
  <2> QED
    BY <2>1, <2>2, <2>3
<1> QED
  BY <1>4, <1>7 DEF r, p

(* What the steps do to the visible rows: only a rollback takes some away, *)
(* and under a running recent that is noted.                               *)
LEMMA VisibleStep ==
  ASSUME IndInv, [Next]_vars
  PROVE  \/ UNCHANGED Visible
         \/ Step /\ UNCHANGED recent
            /\ Visible' = Append(Visible, RowsOf(batch)[Len(pending) + 1])
         \/ Visible' = committed /\ (undone' \/ reader' # "rows")
<1>1. committed \in Seq(Rows) /\ pending \in Seq(Rows)
  BY DEF IndInv, TypeOK
<1>2. CASE Step
  <2> DEFINE r == RowsOf(batch)[Len(pending) + 1]
  <2>1. UNCHANGED <<committed, recent>> /\ pending' = Append(pending, r)
    BY <1>2 DEF Step, LoggerGoto
  <2> HIDE DEF r
  <2>2. committed \o Append(pending, r) = Append(committed \o pending, r)
    BY <1>1
  <2>3. Visible' = Append(Visible, r)
    BY <2>1, <2>2 DEF Visible
  <2> QED
    BY <1>2, <2>1, <2>3 DEF r
<1>3. CASE Commit
  <2>1. committed' = committed \o pending /\ pending' = << >>
    BY <1>3 DEF Commit
  <2>2. (committed \o pending) \o << >> = committed \o pending
    BY <1>1
  <2> QED
    BY <2>1, <2>2 DEF Visible
<1>4. CASE Undo /\ UNCHANGED recent
  <2>1. committed' = committed /\ pending' = << >> /\ reader' = reader
        /\ (pending = << >> \/ undone' \/ reader # "rows")
    BY <1>4 DEF Undo, recent
  <2>2. committed \o << >> = committed
    BY <1>1
  <2> QED
    BY <2>1, <2>2 DEF Visible
<1>5. CASE Close \/ Killed
  <2>1. committed' = committed /\ pending' = << >> /\ reader' = "idle"
    BY <1>5 DEF Close, Killed
  <2>2. committed \o << >> = committed
    BY <1>1
  <2> QED
    BY <2>1, <2>2 DEF Visible
<1>6. CASE UNCHANGED <<committed, pending>>
  BY <1>6 DEF Visible
<1>7. CASE LifeStep
  BY <1>5, <1>6, <1>7 DEF LifeStep, Open, CreateTable, CreateTableFails, file
<1>8. CASE InsertStep
  <2>1. StepFails \/ CommitFails \/ Rollback =>
          UNCHANGED file \/ (Undo /\ UNCHANGED recent)
    BY DEF StepFails, CommitFails, Rollback, LoggerGoto
  <2> QED
    BY <1>2, <1>3, <1>4, <1>6, <1>8, <2>1 DEF InsertStep, Prepare, PrepareFails, Begin,
       BeginFails, StepBusy, StepsDone, CommitBusy, Return, file
<1>9. CASE RecentStep \/ ExtLock \/ ExtUnlock \/ UNCHANGED vars
  BY <1>6, <1>9 DEF RecentStep, ReadStart, ReadRow, ReadDone, ReadFails, ReaderGoto,
     ExtLock, ExtUnlock, vars, file
<1> QED
  BY <1>5, <1>7, <1>8, <1>9 DEF Next

(* The order of an answer survives every step.                             *)
LEMMA OrderStep ==
  ASSUME IndInv, OrderInv, [Next]_vars
  PROVE  OrderInv'
<1>1. /\ Visible \in Seq(Rows) /\ answer \in Seq(Rows) /\ Len(Visible) \in Nat
      /\ cursor \in Nat
  BY VisibleRows DEF IndInv, TypeOK
<1>2. /\ InOrder(Visible) /\ NewestFirst
      /\ reader = "rows" /\ ~undone => ReadTo(Visible, answer, cursor)
  BY DEF OrderInv, Sorted, InOrder, ReadTo
<1>3. undone => undone'
  BY DEF Next, LifeStep, Open, CreateTable, CreateTableFails, Close, InsertStep, Prepare,
     PrepareFails, Begin, BeginFails, Step, StepBusy, StepFails, StepsDone, Commit,
     CommitBusy, CommitFails, Rollback, Undo, Return, Killed, LoggerGoto, file, RecentStep,
     ReadStart, ReadRow, ReadDone, ReadFails, ReaderGoto, ExtLock, ExtUnlock, vars
<1>4. InOrder(Visible') /\ Visible' \in Seq(Rows)
  <2>1. CASE UNCHANGED Visible
    BY <1>1, <1>2, <2>1
  <2>2. CASE Step /\ Visible' = Append(Visible, RowsOf(batch)[Len(pending) + 1])
    <3> DEFINE r == RowsOf(batch)[Len(pending) + 1]
    <3>1. r \in Rows /\ \A i \in 1 .. Len(Visible) : Older(Visible[i], r)
      BY <2>2, StepIsNewest
    <3> HIDE DEF r
    <3>2. InOrder(Append(Visible, r)) /\ Append(Visible, r) \in Seq(Rows)
      BY <1>1, <1>2, <3>1, AppendInOrder
    <3> QED
      BY <2>2, <3>2 DEF r
  <2>3. CASE Visible' = committed
    <3>1. /\ committed \in Seq(Rows) /\ Len(committed) <= Len(Visible)
          /\ Len(committed) \in Nat
          /\ \A i \in 1 .. Len(committed) : Visible[i] = committed[i]
      BY VisibleRows DEF IndInv, TypeOK
    <3>2. InOrder(committed)
      BY <1>1, <1>2, <3>1 DEF InOrder
    <3> QED
      BY <2>3, <3>1, <3>2
  <2> QED
    BY <2>1, <2>2, <2>3, VisibleStep
<1>5. /\ reader' = "rows" /\ ~undone' => ReadTo(Visible', answer', cursor')
      /\ NewestFirst'
  <2> SUFFICES ASSUME ~undone'
               PROVE  /\ reader' = "rows" => ReadTo(Visible', answer', cursor')
                      /\ NewestFirst'
    BY DEF NewestFirst
  <2>0. ~undone
    BY <1>3
  <2>1. CASE UNCHANGED recent
    <3>1. answer' = answer /\ cursor' = cursor /\ reader' = reader
      BY <2>1 DEF recent
    <3>2. NewestFirst'
      BY <1>2, <2>0, <3>1 DEF NewestFirst
    <3>3. ASSUME reader = "rows" PROVE ReadTo(Visible', answer, cursor)
      <4>1. /\ Len(Visible) <= Len(Visible')
            /\ \A i \in 1 .. Len(Visible) : Visible'[i] = Visible[i]
        <5>1. CASE UNCHANGED Visible
          BY <1>1, <5>1
        <5>2. CASE Step /\ Visible' = Append(Visible, RowsOf(batch)[Len(pending) + 1])
          BY <1>1, <5>2
        <5> QED
          BY <3>1, <3>3, <5>1, <5>2, VisibleStep
      <4> DEFINE v == Visible
                 w == Visible'
      <4>2. v \in Seq(Rows) /\ w \in Seq(Rows) /\ ReadTo(v, answer, cursor)
            /\ Len(v) <= Len(w) /\ \A i \in 1 .. Len(v) : w[i] = v[i]
        BY <1>1, <1>2, <1>4, <2>0, <3>3, <4>1
      <4> HIDE DEF v, w
      <4>3. ReadTo(w, answer, cursor)
        BY <4>2, ReadToGrows
      <4> QED
        BY <4>3 DEF w
    <3> QED
      BY <3>1, <3>2, <3>3
  <2>2. CASE ReadStart \/ ReadFails \/ Close \/ Killed
    <3>1. answer' = << >>
      BY <2>2 DEF ReadStart, ReadFails, Close, Killed
    <3> QED
      BY <3>1 DEF ReadTo, NewestFirst
  <2>3. CASE ReadDone
    <3>1. answer' = answer /\ reader' # "rows"
      BY <2>3 DEF ReadDone, ReaderGoto
    <3> QED
      BY <1>2, <2>0, <3>1 DEF NewestFirst
  <2>4. CASE ReadRow
    <3>1. UNCHANGED <<committed, pending>> /\ ReadTo(Visible, answer, cursor)
      BY <1>2, <2>0, <2>4 DEF ReadRow, ReaderGoto, file
    <3>2. PICK i \in NextRow : cursor' = i /\ answer' = Append(answer, Visible[i])
      BY <2>4 DEF ReadRow
    <3>3. i \in 1 .. Len(Visible) /\ (answer # << >> => i < cursor)
      BY <3>2 DEF NextRow
    <3> DEFINE v == Visible[i]
               n == Len(answer)
    <3>4. v \in Rows /\ Visible' = Visible
      BY <1>1, <3>1, <3>3 DEF Visible
    <3> HIDE DEF v
    <3>5. /\ n \in Nat /\ Len(answer') = n + 1 /\ answer'[n + 1] = v
          /\ \A j \in 1 .. n : answer'[j] = answer[j] /\ answer[j] \in Rows
      BY <1>1, <3>2, <3>4 DEF v
    <3>6. ReadTo(Visible', answer', cursor')
      BY <3>2, <3>3, <3>4, <3>5 DEF ReadTo, v
    <3>7. ASSUME NEW a \in 1 .. n
          PROVE  Older(v, answer[a])
      <4>1. answer # << >> /\ n \in 1 .. n
        BY <3>5, <3>7
      <4>2. cursor \in 1 .. Len(Visible) /\ answer[n] = Visible[cursor] /\ i < cursor
        BY <3>1, <3>3, <4>1 DEF ReadTo
      <4>3. Older(v, answer[n])
        BY <1>2, <3>3, <4>2 DEF InOrder, v
      <4>4. CASE a = n
        BY <4>3, <4>4
      <4>5. CASE a < n
        <5>1. Older(answer[n], answer[a])
          BY <1>2, <2>0, <4>1, <4>5 DEF NewestFirst
        <5>2. answer[n] \in Rows /\ answer[a] \in Rows
          BY <3>5, <4>1
        <5> QED
          BY <3>4, <4>3, <5>1, <5>2, OlderTransitive
      <4> QED
        BY <3>5, <4>4, <4>5
    <3>8. NewestFirst'
      <4> SUFFICES ASSUME NEW a \in 1 .. n + 1, NEW b \in 1 .. n + 1, a < b
                   PROVE  Older(answer'[b], answer'[a])
        BY <3>5 DEF NewestFirst
      <4>1. a \in 1 .. n /\ (b \in 1 .. n \/ b = n + 1)
        BY <3>5
      <4>2. CASE b = n + 1
        BY <3>5, <3>7, <4>1, <4>2
      <4>3. CASE b \in 1 .. n
        <5>1. Older(answer[b], answer[a])
          BY <1>2, <2>0, <4>1, <4>3 DEF NewestFirst
        <5> QED
          BY <3>5, <4>1, <4>3, <5>1
      <4> QED
        BY <4>1, <4>2, <4>3
    <3> QED
      BY <3>6, <3>8
  <2> QED
    BY <2>1, <2>2, <2>3, <2>4, RecentFrame
<1> QED
  BY <1>3, <1>4, <1>5 DEF OrderInv, Sorted, InOrder, ReadTo

(* The visible rows and the answer are in order.                           *)
LEMMA OrderAlways == Spec => []OrderInv
<1>1. Init => OrderInv
  <2> SUFFICES ASSUME Init PROVE OrderInv
    OBVIOUS
  <2>1. Visible = << >>
    BY DEF Visible, Init
  <2> QED
    BY <2>1 DEF Init, OrderInv, Sorted, NewestFirst
<1>2. IndInv /\ OrderInv /\ [Next]_vars => OrderInv'
  BY OrderStep
<1> QED
  BY <1>1, <1>2, Inductive, PTL DEF Spec

(* recent returns the newest rows first and none twice, in any             *)
(* interleaving with insert, unless a rollback takes rows back under it.   *)
THEOREM Ordered == Spec => []NewestFirst
<1>1. OrderInv => NewestFirst
  BY DEF OrderInv
<1> QED
  BY <1>1, OrderAlways, PTL

(* The next row is the oldest returned so far, and the newest one left:    *)
(* what was committed above it has been returned.                          *)
LEMMA ScanStep ==
  ASSUME IndInv, Sorted, ScanInv, [Next]_vars
  PROVE  ScanInv'
<1> USE DEF ScanInv
<1>1. /\ Len(committed) \in Nat /\ Len(committed') \in Nat /\ floor \in Nat
      /\ Len(committed) <= Len(committed') /\ floor <= Len(committed)
      /\ \A j \in 1 .. Len(committed) : committed'[j] = committed[j]
  BY TableGrows DEF IndInv, TypeOK, Passed
<1>2. \A j \in 1 .. floor : committed'[j] = committed[j]
  BY <1>1
<1>3. CASE UNCHANGED recent
  <2>1. UNCHANGED <<reader, cursor, answer, floor>>
    BY <1>3 DEF recent
  <2>2. floor' <= Len(committed')
    BY <1>1, <2>1
  <2> QED
    BY <1>2, <2>1, <2>2 DEF Passed, NothingSkipped, Returned, OlderThanAll
<1>4. CASE ReadStart
  <2>1. reader' = "rows" /\ answer' = << >> /\ floor' = Len(committed)
    BY <1>4 DEF ReadStart, ReaderGoto
  <2> QED
    BY <1>1, <2>1 DEF Passed, NothingSkipped
<1>5. CASE ReadFails \/ Close \/ Killed
  <2>1. reader' = "idle" /\ answer' = << >> /\ floor' = floor
    BY <1>5 DEF ReadFails, ReaderGoto, Close, Killed
  <2>2. floor' <= Len(committed')
    BY <1>1, <2>1
  <2> QED
    BY <2>1, <2>2 DEF Passed, NothingSkipped
<1>6. CASE ReadRow
  <2>1. /\ reader' = "rows" /\ floor' = floor /\ committed' = committed
    BY <1>6 DEF ReadRow, ReaderGoto, file
  <2>2. PICK i \in NextRow : cursor' = i /\ answer' = Append(answer, Visible[i])
    BY <1>6 DEF ReadRow
  <2>3. /\ answer \in Seq(Rows) /\ cursor \in Nat
        /\ Visible \in Seq(Rows) /\ Len(Visible) \in Nat
        /\ Len(committed) <= Len(Visible)
        /\ \A k \in 1 .. Len(committed) : Visible[k] = committed[k]
    BY VisibleRows DEF IndInv, TypeOK
  <2>4. /\ i \in 1 .. Len(Visible) /\ Visible[i] \in Rows
        /\ answer # << >> => i < cursor
        /\ \A j \in 1 .. Len(Visible) : (answer # << >> => j < cursor) => j <= i
    BY <2>2, <2>3 DEF NextRow
  <2>5. /\ Len(answer') = Len(answer) + 1 /\ Len(answer) \in Nat
        /\ \A j \in 1 .. Len(answer) : answer'[j] = answer[j]
        /\ answer'[Len(answer) + 1] = Visible[i]
    <3> DEFINE v == Visible[i]
    <3> HIDE DEF v
    <3>1. v \in Rows /\ answer' = Append(answer, v)
      BY <2>2, <2>4 DEF v
    <3>2. /\ Len(answer') = Len(answer) + 1 /\ Len(answer) \in Nat
          /\ \A j \in 1 .. Len(answer) : answer'[j] = answer[j]
          /\ answer'[Len(answer) + 1] = v
      BY <2>3, <3>1
    <3> QED
      BY <3>2 DEF v
  <2>6. ASSUME NEW k \in 1 .. floor
        PROVE  k \in 1 .. Len(Visible) /\ Visible[k] = committed[k]
    BY <1>1, <2>3
  <2>7. ASSUME NEW k \in 1 .. floor, k >= i
        PROVE  \E j \in 1 .. Len(answer') : answer'[j] = committed[k]
    <3>1. CASE k = i
      <4>1. Len(answer) + 1 \in 1 .. Len(answer')
        BY <2>5
      <4>2. answer'[Len(answer) + 1] = committed[k]
        BY <2>5, <2>6, <3>1
      <4> QED
        BY <4>1, <4>2
    <3>2. CASE k # i
      <4>1. answer # << >> /\ k >= cursor
        BY <2>3, <2>4, <2>6, <2>7, <3>2
      <4>2. PICK j \in 1 .. Len(answer) : answer[j] = committed[k]
        BY <4>1 DEF Passed, Returned
      <4>3. j \in 1 .. Len(answer')
        BY <2>5
      <4>4. answer'[j] = committed[k]
        BY <2>5, <4>2
      <4> QED
        BY <4>3, <4>4
    <3> QED
      BY <3>1, <3>2
  <2>8. ASSUME NEW k \in 1 .. floor, k < i, NEW j \in 1 .. Len(answer')
        PROVE  Older(committed[k], answer'[j])
    <3>1. CASE j \in 1 .. Len(answer)
      <4>1. answer # << >> /\ ~(k >= cursor)
        BY <2>3, <2>4, <2>5, <2>6, <2>8, <3>1
      <4>2. Older(committed[k], answer[j])
        BY <3>1, <4>1 DEF Passed, OlderThanAll
      <4> QED
        BY <2>5, <3>1, <4>2
    <3>2. CASE j = Len(answer) + 1
      <4>1. Older(Visible[k], Visible[i])
        BY <2>4, <2>6, <2>8 DEF Sorted
      <4>2. answer'[j] = Visible[i] /\ Visible[k] = committed[k]
        BY <2>5, <2>6, <3>2
      <4> QED
        BY <4>1, <4>2
    <3> QED
      BY <2>5, <3>1, <3>2
  <2>9. Passed'
    <3> SUFFICES ASSUME NEW k \in 1 .. floor
                 PROVE  IF k >= i
                        THEN \E j \in 1 .. Len(answer') : answer'[j] = committed[k]
                        ELSE \A j \in 1 .. Len(answer') : Older(committed[k], answer'[j])
      BY <1>1, <2>1, <2>2 DEF Passed, Returned, OlderThanAll
    <3>1. CASE k >= i
      BY <2>7, <3>1
    <3>2. CASE ~(k >= i)
      <4>1. k < i
        BY <2>4, <3>2
      <4> QED
        BY <2>8, <3>2, <4>1
    <3> QED
      BY <3>1, <3>2
  <2> QED
    BY <2>1, <2>9 DEF NothingSkipped
<1>7. CASE ReadDone
  <2>1. UNCHANGED <<committed, cursor, answer, floor>> /\ reader = "rows"
    BY <1>7 DEF ReadDone, ReaderGoto, file
  <2>2. Passed'
    BY <2>1 DEF Passed, Returned, OlderThanAll
  <2>3. ASSUME NEW k \in 1 .. floor
        PROVE  Returned(committed[k]) \/ (Len(answer) = Limit /\ OlderThanAll(committed[k]))
    <3>1. /\ Len(Visible) \in Nat /\ Len(committed) <= Len(Visible) /\ cursor \in Nat
          /\ answer \in Seq(Rows)
      BY VisibleRows DEF IndInv, TypeOK
    <3>2. CASE answer = << >>
      <4>1. OlderThanAll(committed[k])
        BY <3>2 DEF OlderThanAll
      <4>2. NextRow # {}
        <5> DEFINE n == Len(Visible)
        <5>1. n \in 1 .. Len(Visible) /\ \A j \in 1 .. Len(Visible) : j <= n
          BY <1>1, <3>1
        <5> HIDE DEF n
        <5> QED
          BY <3>2, <5>1 DEF NextRow
      <4> QED
        BY <1>7, <4>1, <4>2 DEF ReadDone
    <3>3. CASE answer # << >> /\ k >= cursor
      BY <3>3 DEF Passed
    <3>4. CASE answer # << >> /\ ~(k >= cursor)
      <4>1. OlderThanAll(committed[k])
        BY <3>4 DEF Passed
      <4>2. NextRow # {}
        <5> DEFINE n == IF cursor - 1 <= Len(Visible) THEN cursor - 1 ELSE Len(Visible)
        <5>1. /\ n \in 1 .. Len(Visible) /\ n < cursor
              /\ \A j \in 1 .. Len(Visible) : j < cursor => j <= n
          BY <1>1, <3>1, <3>4
        <5> HIDE DEF n
        <5> QED
          BY <3>4, <5>1 DEF NextRow
      <4> QED
        BY <1>7, <4>1, <4>2 DEF ReadDone
    <3> QED
      BY <3>2, <3>3, <3>4
  <2>4. NothingSkipped'
    BY <2>1, <2>3 DEF NothingSkipped, Returned, OlderThanAll
  <2> QED
    BY <2>2, <2>4
<1> QED
  BY <1>3, <1>4, <1>5, <1>6, <1>7, RecentFrame

(* Whatever fails while recent runs: of the rows that were committed when  *)
(* it started it returns the newest ones, all of them up to its limit.     *)
THEOREM Complete == Spec => []NothingSkipped
<1>1. Init => ScanInv
  BY DEF Init, ScanInv, Passed, NothingSkipped
<1>2. ScanInv => NothingSkipped
  BY DEF ScanInv
<1>3. OrderInv => Sorted
  BY DEF OrderInv
<1>4. IndInv /\ Sorted /\ ScanInv /\ [Next]_vars => ScanInv'
  BY ScanStep
<1> QED
  BY <1>1, <1>2, <1>3, <1>4, Inductive, OrderAlways, PTL DEF Spec

(* Nothing but COMMIT changes the table, and COMMIT adds a whole batch     *)
(* that is not in it: no row moves or changes, and no batch is stored      *)
(* twice, in any order of failures, kills and calls of insert.             *)
THEOREM StoredOnce == Spec => GrowsByBatches
<1>1. IndInv /\ [Next]_vars =>
        [committed' # committed =>
           /\ batch \in Batches \ refused /\ ~Durable(batch)
           /\ committed' = committed \o RowsOf(batch)]_vars
  <2> SUFFICES ASSUME IndInv, [Next]_vars, committed' # committed
               PROVE  /\ batch \in Batches \ refused /\ ~Durable(batch)
                      /\ committed' = committed \o RowsOf(batch)
    OBVIOUS
  <2>1. CASE Commit
    BY <2>1 DEF Commit, LoggerGoto, IndInv, Transaction, PastOnly
  <2>2. CASE ~Commit
    <3>1. committed' = committed
      BY <2>2 DEF Next, LifeStep, Open, CreateTable, CreateTableFails, Close, DbGoto,
         InsertStep, Prepare, PrepareFails, Begin, BeginFails, Step,
         StepBusy, StepFails, StepsDone, CommitBusy, CommitFails, Rollback, Return,
         Undo, Killed, LoggerGoto, file, RecentStep, ReadStart, ReadRow, ReadDone, ReadFails,
         ReaderGoto, ExtLock, ExtUnlock, vars
    <3> QED
      BY <3>1
  <2> QED
    BY <2>1, <2>2
<1> QED
  BY <1>1, Inductive, PTL DEF Spec, GrowsByBatches
=============================================================================
