----------------------- MODULE EvidenceLedger_proofs -----------------------
(***************************************************************************)
(* Proofs about EvidenceLedger, for any set of writers, events and blobs   *)
(* and any bounds, when the operator confirms that no writer is active     *)
(* while the reported lock file is still there (ConfirmsUnderLock).        *)
(***************************************************************************)
EXTENDS EvidenceLedger, SequenceTheorems, TLAPS

\* A record's previous hash stands for exactly the records before it.
PrevCountsRecords == \A i \in 1..Len(lines) : Len(lines[i].prev) = i - 1

\* Once the operator has confirmed, the lock is there and nobody can be active.
RecoverySafe == recovery = "confirmed" => lockFile /\ \A w \in Writers : pc[w] = "idle"

\* An open appender's cached tail is the tail of the file.
TailCached ==
    \A w \in Writers : pc[w] = "open" => ~torn /\ previous[w] = TailHash(lines)

\* A batch that is written and not synced is the end of the file.
BatchAtEnd ==
    \A w \in Writers : pc[w] = "written" =>
        /\ ~torn
        /\ Len(previous[w]) + Len(batch[w]) = Len(lines)
        /\ TailHash(lines) = previous[w] \o batch[w]
        /\ \A i \in 1..Len(batch[w]) :
              lines[Len(previous[w]) + i] = makeRecords(batch[w], previous[w])[i]

IInv ==
    /\ TypeOK
    /\ ChainNeverForks
    /\ PrevCountsRecords
    /\ SingleWriter
    /\ RecoverySafe
    /\ TailCached
    /\ BatchAtEnd
    /\ AcknowledgedRecordsDurable
    /\ RecordedBlobsExist

-----------------------------------------------------------------------------
\* A batch is a non-empty sequence of events.
LEMMA BatchType == \A b \in Batches : b \in Hash /\ Len(b) \in Nat \ {0}
  BY LedgerAssumption DEF Batches, Hash

\* The records built from a batch: their number, type, content and chaining.
LEMMA RecordsOfBatch ==
    ASSUME NEW b \in Hash, NEW tail \in Hash
    PROVE  LET rs == makeRecords(b, tail)
           IN  /\ rs \in Seq(Record)
               /\ Len(rs) = Len(b)
               /\ \A i \in 1..Len(b) : /\ rs[i] \in Record
                                       /\ rs[i].event = b[i]
                                       /\ rs[i].event \in Events
                                       /\ Len(rs[i].prev) = Len(tail) + i - 1
               /\ Len(b) > 0 => rs[1].prev = tail
               /\ \A i \in 2..Len(b) : rs[i].prev = RecordHash(rs[i - 1])
               /\ Len(b) > 0 => RecordHash(rs[Len(b)]) = tail \o b
<1> DEFINE rs == makeRecords(b, tail)
<1>1. /\ rs \in Seq(Record)
      /\ Len(rs) = Len(b)
      /\ \A i \in 1..Len(b) : /\ rs[i].event = b[i]
                              /\ rs[i].event \in Events
                              /\ rs[i].prev = tail \o SubSeq(b, 1, i - 1)
                              /\ rs[i] \in Record
                              /\ Len(rs[i].prev) = Len(tail) + i - 1
  <2>1. \A i \in 1..Len(b) : /\ b[i] \in Events
                             /\ SubSeq(b, 1, i - 1) \in Seq(Events)
                             /\ Len(SubSeq(b, 1, i - 1)) = i - 1
    BY DEF Hash
  <2>2. \A i \in 1..Len(b) : /\ tail \o SubSeq(b, 1, i - 1) \in Hash
                             /\ Len(tail \o SubSeq(b, 1, i - 1)) = Len(tail) + i - 1
    BY <2>1 DEF Hash
  <2>3. Len(b) \in Nat
    BY DEF Hash
  <2> QED  BY <2>1, <2>2, <2>3 DEF makeRecords, Record
<1>2. Len(b) > 0 => rs[1].prev = tail
  <2>1. Len(b) > 0 => rs[1].prev = tail \o SubSeq(b, 1, 0)
    BY DEF makeRecords, Hash
  <2>2. SubSeq(b, 1, 0) = <<>>
    BY DEF Hash
  <2>3. tail \o <<>> = tail
    BY DEF Hash
  <2> QED  BY <2>1, <2>2, <2>3
<1> HIDE DEF rs
<1>3. \A i \in 1..Len(b) : RecordHash(rs[i]) = tail \o SubSeq(b, 1, i)
  <2> TAKE i \in 1..Len(b)
  <2>1. RecordHash(rs[i]) = Append(tail \o SubSeq(b, 1, i - 1), b[i])
    BY <1>1 DEF RecordHash
  <2>2. Append(tail \o SubSeq(b, 1, i - 1), b[i]) = tail \o SubSeq(b, 1, i)
    BY DEF Hash
  <2> QED  BY <2>1, <2>2
<1>4. \A i \in 2..Len(b) : rs[i].prev = RecordHash(rs[i - 1])
  <2> TAKE i \in 2..Len(b)
  <2>1. i - 1 \in 1..Len(b) /\ i \in 1..Len(b)
    BY DEF Hash
  <2>2. rs[i].prev = tail \o SubSeq(b, 1, i - 1)
    BY <2>1, <1>1
  <2>3. RecordHash(rs[i - 1]) = tail \o SubSeq(b, 1, i - 1)
    BY <2>1, <1>3
  <2> QED  BY <2>2, <2>3
<1>5. Len(b) > 0 => RecordHash(rs[Len(b)]) = tail \o b
  <2>1. SubSeq(b, 1, Len(b)) = b
    BY DEF Hash
  <2>2. Len(b) \in Nat
    BY DEF Hash
  <2> QED  BY <1>3, <2>1, <2>2
<1> QED  BY <1>1, <1>2, <1>4, <1>5 DEF rs

\* The hash at the end of a good file stands for all of its records.
LEMMA TailOfChain ==
    ASSUME NEW ls \in Seq(Record),
           \A i \in 1..Len(ls) : Len(ls[i].prev) = i - 1
    PROVE  TailHash(ls) \in Hash /\ Len(TailHash(ls)) = Len(ls)
<1>1. CASE Len(ls) = 0
  <2>1. TailHash(ls) = <<>>
    BY <1>1 DEF TailHash, ExpectedPrevious
  <2> QED  BY <2>1, <1>1 DEF Hash
<1>2. CASE Len(ls) > 0
  <2>1. TailHash(ls) = Append(ls[Len(ls)].prev, ls[Len(ls)].event)
    BY <1>2 DEF TailHash, ExpectedPrevious, RecordHash
  <2>2. ls[Len(ls)] \in Record /\ Len(ls[Len(ls)].prev) = Len(ls) - 1
    BY <1>2
  <2>3. ls[Len(ls)].prev \in Seq(Events) /\ ls[Len(ls)].event \in Events
    BY <2>2 DEF Record, Hash
  <2> QED  BY <2>1, <2>2, <2>3 DEF Hash
<1> QED  BY <1>1, <1>2

\* A file whose records all extend the ones before them.
GoodFile(ls) ==
    /\ ls \in Seq(Record)
    /\ ChainOK(ls)
    /\ \A i \in 1..Len(ls) : Len(ls[i].prev) = i - 1

\* rs is the beginning of the records of batch b chained from tail.
BuiltOn(rs, b, tail) ==
    /\ rs \in Seq(Record)
    /\ Len(rs) <= Len(b)
    /\ \A i \in 1..Len(rs) : rs[i] = makeRecords(b, tail)[i]

\* new is ls followed by rs.
Follows(new, ls, rs) ==
    /\ Len(new) = Len(ls) + Len(rs)
    /\ \A i \in 1..Len(ls) : new[i] = ls[i]
    /\ \A i \in 1..Len(rs) : new[Len(ls) + i] = rs[i]

\* Appending the beginning of a batch built on the tail of a good file gives a
\* good file.
LEMMA ExtendChain ==
    ASSUME NEW ls, NEW b \in Hash, NEW rs,
           GoodFile(ls),
           BuiltOn(rs, b, TailHash(ls))
    PROVE  /\ GoodFile(ls \o rs)
           /\ Follows(ls \o rs, ls, rs)
           /\ Len(rs) = Len(b) /\ Len(b) > 0 => TailHash(ls \o rs) = TailHash(ls) \o b
<1> DEFINE k == Len(rs)
<1>0. /\ ls \in Seq(Record) /\ ChainOK(ls) /\ rs \in Seq(Record)
      /\ \A i \in 1..Len(ls) : Len(ls[i].prev) = i - 1
      /\ \A i \in 1..k : rs[i] = makeRecords(b, TailHash(ls))[i]
  BY DEF GoodFile, BuiltOn
<1> DEFINE new == ls \o rs
           tail == TailHash(ls)
           all == makeRecords(b, tail)
<1>1. tail \in Hash /\ Len(tail) = Len(ls)
  BY <1>0, TailOfChain
<1>2. /\ \A i \in 1..Len(b) : /\ all[i].event \in Events
                              /\ Len(all[i].prev) = Len(tail) + i - 1
      /\ Len(b) > 0 => all[1].prev = tail
      /\ \A i \in 2..Len(b) : all[i].prev = RecordHash(all[i - 1])
      /\ Len(b) > 0 => RecordHash(all[Len(b)]) = tail \o b
  BY <1>1, RecordsOfBatch
<1>3. /\ new \in Seq(Record)
      /\ Len(new) = Len(ls) + k
      /\ \A i \in 1..Len(ls) : new[i] = ls[i]
      /\ \A i \in 1..k : new[Len(ls) + i] = rs[i]
  <2>0. Len(new) = Len(ls) + Len(rs)
    BY <1>0, ConcatProperties
  <2>1. new \in Seq(Record)
    BY <1>0
  <2>2. \A i \in 1..Len(ls) : new[i] = ls[i]
    BY <1>0
  <2>3. ASSUME NEW i \in 1..k PROVE new[Len(ls) + i] = rs[i]
    BY <1>0
  <2> QED  BY <2>0, <2>1, <2>2, <2>3
<1>4. Len(b) \in Nat /\ Len(ls) \in Nat /\ k \in Nat /\ k <= Len(b)
  BY <1>0 DEF Hash, BuiltOn
<1>5. \A i \in 1..k : new[Len(ls) + i] = all[i]
  BY <1>0, <1>3
<1> HIDE DEF new, all, k
<1>6. \A i \in Len(ls) + 1 .. Len(new) :
          /\ i - Len(ls) \in 1..k
          /\ new[i] = all[i - Len(ls)]
  BY <1>3, <1>4, <1>5
<1>7. ChainOK(new)
  <2> SUFFICES ASSUME NEW i \in 1..Len(new)
               PROVE  new[i].event \in Events /\ new[i].prev = ExpectedPrevious(new, i)
    BY DEF ChainOK
  <2>1. CASE i \in 1..Len(ls)
    <3>1. new[i] = ls[i] /\ (i # 1 => i - 1 \in 1..Len(ls))
      BY <2>1, <1>3, <1>4
    <3>2. ExpectedPrevious(new, i) = ExpectedPrevious(ls, i)
      BY <3>1, <1>3 DEF ExpectedPrevious
    <3> QED  BY <2>1, <3>1, <3>2, <1>0 DEF ChainOK
  <2>2. CASE i = Len(ls) + 1
    <3>1. k > 0 /\ new[i] = all[1]
      BY <2>2, <1>3, <1>4, <1>6
    <3>2. ExpectedPrevious(new, i) = tail
      <4>1. CASE Len(ls) = 0
        BY <4>1, <2>2 DEF ExpectedPrevious, TailHash
      <4>2. CASE Len(ls) > 0
        <5>0. i # 1 /\ i - 1 = Len(ls) /\ Len(ls) \in 1..Len(ls)
          BY <4>2, <2>2, <1>4
        <5>1. new[i - 1] = ls[Len(ls)] /\ i # 1
          BY <5>0, <1>3
        <5> QED  BY <5>0, <5>1, <2>2, <4>2 DEF ExpectedPrevious, TailHash
      <4> QED  BY <4>1, <4>2, <1>4
    <3> QED  BY <3>1, <3>2, <1>2, <1>4
  <2>3. CASE i > Len(ls) + 1
    <3> DEFINE j == i - Len(ls)
    <3>1. j \in 2..k /\ new[i] = all[j] /\ j \in 2..Len(b) /\ j \in 1..Len(b)
      BY <2>3, <1>3, <1>4, <1>6
    <3>2. i - 1 \in Len(ls) + 1 .. Len(new) /\ i # 1 /\ (i - 1) - Len(ls) = j - 1
      BY <2>3, <1>3, <1>4
    <3>3. ExpectedPrevious(new, i) = RecordHash(all[j - 1])
      BY <3>2, <1>6 DEF ExpectedPrevious
    <3> QED  BY <3>1, <3>3, <1>2
  <2>4. i \in Nat /\ i >= 1
    BY <1>3, <1>4
  <2>5. i \in 1..Len(ls) \/ i = Len(ls) + 1 \/ i > Len(ls) + 1
    BY <2>4, <1>4
  <2> QED  BY <2>1, <2>2, <2>3, <2>5
<1>8. \A i \in 1..Len(new) : Len(new[i].prev) = i - 1
  <2> TAKE i \in 1..Len(new)
  <2>1. CASE i \in 1..Len(ls)
    BY <2>1, <1>3, <1>0
  <2>2. CASE i \in Len(ls) + 1 .. Len(new)
    <3>1. new[i] = all[i - Len(ls)] /\ i - Len(ls) \in 1..Len(b)
      BY <2>2, <1>6, <1>4
    <3>2. Len(new[i].prev) = Len(tail) + (i - Len(ls)) - 1
      BY <3>1, <1>2
    <3> QED  BY <3>2, <1>1, <1>4
  <2> QED  BY <2>1, <2>2, <1>3, <1>4
<1>9. ASSUME k = Len(b), k > 0 PROVE TailHash(new) = tail \o b
  <2>1. Len(new) # 0 /\ new[Len(new)] = all[Len(b)]
    BY <1>9, <1>3, <1>4, <1>6
  <2>2. TailHash(new) = RecordHash(new[Len(new)])
    BY <2>1, <1>3, <1>4 DEF TailHash, ExpectedPrevious
  <2> QED  BY <2>1, <2>2, <1>2, <1>9
<1> QED  BY <1>3, <1>7, <1>8, <1>9 DEF new, k, GoodFile, Follows

\* A prefix of a good file is a good file.
LEMMA PrefixOfChain ==
    ASSUME NEW ls \in Seq(Record),
           ChainOK(ls),
           NEW n \in 0..Len(ls)
    PROVE  /\ SubSeq(ls, 1, n) \in Seq(Record)
           /\ Len(SubSeq(ls, 1, n)) = n
           /\ \A i \in 1..n : SubSeq(ls, 1, n)[i] = ls[i]
           /\ ChainOK(SubSeq(ls, 1, n))
<1> DEFINE new == SubSeq(ls, 1, n)
<1>1. /\ new \in Seq(Record)
      /\ Len(new) = n
      /\ \A i \in 1..n : new[i] = ls[i]
  OBVIOUS
<1> HIDE DEF new
<1>2. ChainOK(new)
  <2> SUFFICES ASSUME NEW i \in 1..Len(new)
               PROVE  new[i].event \in Events /\ new[i].prev = ExpectedPrevious(new, i)
    BY DEF ChainOK
  <2>1. i \in 1..Len(ls) /\ new[i] = ls[i] /\ (i # 1 => i - 1 \in 1..n)
    BY <1>1
  <2>2. ExpectedPrevious(new, i) = ExpectedPrevious(ls, i)
    BY <2>1, <1>1 DEF ExpectedPrevious
  <2> QED  BY <2>1, <2>2 DEF ChainOK
<1> QED  BY <1>1, <1>2 DEF new

-----------------------------------------------------------------------------
\* The initial state satisfies the inductive invariant.
LEMMA InitInv == Init => IInv
<1> SUFFICES ASSUME Init PROVE IInv
  OBVIOUS
<1>1. TypeOK
  <2>1. lines \in Seq(Record) /\ Len(lines) = 0
    BY DEF Init
  <2>2. previous \in [Writers -> Hash] /\ batch \in [Writers -> Hash]
    BY DEF Init, Hash
  <2>3. synced \in 0..Len(lines)
    BY <2>1 DEF Init
  <2> QED  BY <2>1, <2>2, <2>3 DEF Init, TypeOK, PC, Recovery
<1>2. ChainNeverForks /\ PrevCountsRecords /\ RecordedBlobsExist
  BY DEF Init, ChainNeverForks, ChainOK, PrevCountsRecords, RecordedBlobsExist
<1>3. SingleWriter /\ RecoverySafe /\ TailCached /\ BatchAtEnd
  BY DEF Init, SingleWriter, Active, RecoverySafe, TailCached, BatchAtEnd
<1>4. AcknowledgedRecordsDurable
  BY DEF Init, AcknowledgedRecordsDurable
<1> QED  BY <1>1, <1>2, <1>3, <1>4 DEF IInv

\* The parts of the invariant that speak only about the file.
FileInv ==
    /\ lines \in Seq(Record)
    /\ synced \in 0..Len(lines)
    /\ ChainNeverForks
    /\ PrevCountsRecords
    /\ AcknowledgedRecordsDurable
    /\ RecordedBlobsExist

\* A step that leaves the file and what was acknowledged of it alone, and
\* forgets no blob, keeps what the invariant says of the file.
LEMMA FileUntouched ==
    ASSUME FileInv, UNCHANGED <<lines, synced, acked>>, blobs \subseteq blobs'
    PROVE  FileInv'
  BY DEF FileInv, ChainNeverForks, ChainOK, PrevCountsRecords,
         AcknowledgedRecordsDurable, RecordedBlobsExist, ExpectedPrevious

\* An append by the one open writer: what the file becomes.
LEMMA AppendToFile ==
    ASSUME IInv, NEW w \in Writers, pc[w] = "open", NEW b \in Hash, BlobsVerified(b),
           NEW rs, BuiltOn(rs, b, previous[w]),
           lines' = AppendedTo(lines, torn, rs),
           UNCHANGED <<synced, blobs, acked>>
    PROVE  /\ FileInv'
           /\ Follows(lines', lines, rs)
           /\ Len(previous[w]) = Len(lines)
           /\ Len(rs) = Len(b) /\ Len(b) > 0 => TailHash(lines') = previous[w] \o b
<1> DEFINE k == Len(rs)
<1>1. ~torn /\ previous[w] = TailHash(lines)
  BY DEF IInv, TailCached
<1>2. lines' = lines \o rs
  BY <1>1 DEF AppendedTo
<1>3. GoodFile(lines) /\ lines \in Seq(Record) /\ synced \in 0..Len(lines)
  BY DEF IInv, TypeOK, ChainNeverForks, PrevCountsRecords, GoodFile
<1>4. /\ GoodFile(lines')
      /\ Follows(lines', lines, rs)
      /\ Len(rs) = Len(b) /\ Len(b) > 0 => TailHash(lines') = previous[w] \o b
  BY <1>1, <1>2, <1>3, ExtendChain
<1>5. Len(previous[w]) = Len(lines) /\ previous[w] \in Hash
  BY <1>1, <1>3, TailOfChain DEF GoodFile
<1>6. /\ Len(lines) \in Nat /\ k \in Nat /\ Len(b) \in Nat /\ k <= Len(b)
      /\ Len(lines') = Len(lines) + k
      /\ \A i \in 1..Len(lines) : lines'[i] = lines[i]
      /\ \A i \in 1..k : lines'[Len(lines) + i] = rs[i]
  BY <1>3, <1>4 DEF Hash, BuiltOn, Follows
<1>7. AcknowledgedRecordsDurable'
  <2> SUFFICES ASSUME NEW r \in acked
               PROVE  Len(r.prev) < synced /\ synced <= Len(lines')
                      /\ lines'[Len(r.prev) + 1] = r
    BY DEF AcknowledgedRecordsDurable
  <2>1. Len(r.prev) < synced /\ synced <= Len(lines) /\ lines[Len(r.prev) + 1] = r
    BY DEF IInv, AcknowledgedRecordsDurable
  <2>2. r \in Record
    BY DEF IInv, TypeOK
  <2>3. Len(r.prev) \in Nat
    BY <2>2 DEF Record, Hash
  <2>4. Len(r.prev) + 1 \in 1..Len(lines)
    BY <2>1, <2>3, <1>3, <1>6
  <2>5. lines'[Len(r.prev) + 1] = r
    BY <2>1, <2>4, <1>6
  <2>6. synced <= Len(lines')
    BY <2>1, <1>3, <1>6
  <2> QED  BY <2>1, <2>5, <2>6
<1>8. RecordedBlobsExist'
  <2> SUFFICES ASSUME NEW i \in 1..Len(lines'), lines'[i].event \in Events
               PROVE  BlobOf[lines'[i].event] \subseteq blobs
    BY DEF RecordedBlobsExist
  <2>1. CASE i \in 1..Len(lines)
    BY <2>1, <1>6 DEF IInv, RecordedBlobsExist
  <2>2. CASE i \in Len(lines) + 1 .. Len(lines')
    <3> DEFINE j == i - Len(lines)
    <3>1. j \in 1..k /\ j \in 1..Len(b) /\ Len(lines) + j = i
      BY <2>2, <1>6
    <3> HIDE DEF j
    <3>2. lines'[i] = rs[j]
      <4>1. j \in 1..Len(rs)
        BY <3>1
      <4>2. lines'[Len(lines) + j] = rs[j]
        BY <4>1, <1>4 DEF Follows
      <4> QED  BY <3>1, <4>2
    <3>3. rs[j].event = b[j]
      BY <3>1, <1>5, RecordsOfBatch DEF BuiltOn
    <3> QED  BY <3>1, <3>2, <3>3 DEF BlobsVerified
  <2> QED  BY <2>1, <2>2, <1>6
<1>9. synced' \in 0..Len(lines')
  BY <1>3, <1>6
<1> QED  BY <1>4, <1>5, <1>7, <1>8, <1>9
         DEF FileInv, ChainNeverForks, PrevCountsRecords, GoodFile

\* Every step keeps the inductive invariant, when the operator confirms that
\* no writer is active while the reported lock file is still there.
LEMMA NextInv ==
    ASSUME ConfirmsUnderLock, IInv, [Next]_vars
    PROVE  IInv'
<1> USE DEF Active
<1>0. FileInv
  BY DEF IInv, TypeOK, FileInv
<1>1. ASSUME NEW d \in Blobs, PutBlob(d) PROVE IInv'
  <2>1. FileInv'
    BY <1>0, <1>1, FileUntouched DEF PutBlob
  <2> QED  BY <1>1, <2>1 DEF IInv, FileInv, PutBlob, TypeOK, SingleWriter, RecoverySafe,
              TailCached, BatchAtEnd, TailHash, ExpectedPrevious
<1>2. ASSUME NEW w \in Writers, acquireWriterLock(w) PROVE IInv'
  <2>1. FileInv'
    BY <1>0, <1>2, FileUntouched DEF acquireWriterLock
  <2>2. TypeOK'
    BY <1>2, <2>1 DEF IInv, TypeOK, FileInv, acquireWriterLock, PC
  <2>3. SingleWriter' /\ RecoverySafe'
    BY <1>2 DEF IInv, TypeOK, SingleWriter, RecoverySafe, acquireWriterLock
  <2>4. TailCached' /\ BatchAtEnd'
    BY <1>2 DEF IInv, TypeOK, TailCached, BatchAtEnd, acquireWriterLock, TailHash,
                ExpectedPrevious
  <2> QED  BY <2>1, <2>2, <2>3, <2>4 DEF IInv, FileInv
<1>3. ASSUME NEW w \in Writers, NewAppender(w) PROVE IInv'
  <2>1. FileInv'
    BY <1>0, <1>3, FileUntouched DEF NewAppender
  <2>2. TypeOK'
    <3>1. TailHash(lines) \in Hash
      BY TailOfChain DEF IInv, TypeOK, PrevCountsRecords
    <3> QED  BY <1>3, <2>1, <3>1 DEF IInv, TypeOK, FileInv, NewAppender, PC
  <2>3. SingleWriter' /\ RecoverySafe'
    BY <1>3 DEF IInv, TypeOK, SingleWriter, RecoverySafe, NewAppender
  <2>4. TailCached' /\ BatchAtEnd'
    BY <1>3 DEF IInv, TypeOK, TailCached, BatchAtEnd, NewAppender, TailAccepted,
                TailHash, ExpectedPrevious
  <2> QED  BY <2>1, <2>2, <2>3, <2>4 DEF IInv, FileInv
<1>4. ASSUME NEW w \in Writers, releaseWriterLockAfterError(w) PROVE IInv'
  <2>1. FileInv'
    BY <1>0, <1>4, FileUntouched DEF releaseWriterLockAfterError
  <2>2. TypeOK'
    BY <1>4, <2>1 DEF IInv, TypeOK, FileInv, releaseWriterLockAfterError, PC
  <2>3. SingleWriter' /\ RecoverySafe'
    BY <1>4 DEF IInv, TypeOK, SingleWriter, RecoverySafe, releaseWriterLockAfterError
  <2>4. TailCached' /\ BatchAtEnd'
    BY <1>4 DEF IInv, TypeOK, TailCached, BatchAtEnd, releaseWriterLockAfterError,
                TailHash, ExpectedPrevious
  <2> QED  BY <2>1, <2>2, <2>3, <2>4 DEF IInv, FileInv
<1>5. ASSUME NEW w \in Writers, NEW b \in Batches, WriteBatch(w, b) PROVE IInv'
  <2>0. b \in Hash /\ Len(b) > 0 /\ previous[w] \in Hash /\ pc[w] = "open"
    BY <1>5, BatchType DEF WriteBatch, AppenderUsable, IInv, TypeOK
  <2> DEFINE rs == makeRecords(b, previous[w])
  <2>1. BuiltOn(rs, b, previous[w]) /\ Len(rs) = Len(b)
    BY <2>0, RecordsOfBatch DEF BuiltOn, Hash
  <2> HIDE DEF rs
  <2>2. /\ FileInv'
        /\ Follows(lines', lines, rs)
        /\ Len(previous[w]) = Len(lines)
        /\ TailHash(lines') = previous[w] \o b
    BY <1>5, <2>0, <2>1, AppendToFile DEF WriteBatch, rs
  <2>3. TypeOK'
    BY <1>5, <2>0, <2>2 DEF IInv, TypeOK, FileInv, WriteBatch, PC
  <2>4. \A v \in Writers : v # w => pc[v] = "idle" /\ pc'[v] = "idle"
    BY <1>5, <2>0 DEF IInv, TypeOK, SingleWriter, WriteBatch
  <2>5. pc'[w] = "written" /\ batch'[w] = b /\ previous' = previous /\ ~torn'
    BY <1>5 DEF IInv, TypeOK, WriteBatch
  <2>6. SingleWriter' /\ RecoverySafe' /\ TailCached'
    BY <1>5, <2>0, <2>4, <2>5 DEF IInv, SingleWriter, RecoverySafe, TailCached, WriteBatch
  <2>7. BatchAtEnd'
    <3> SUFFICES ASSUME NEW v \in Writers, pc'[v] = "written"
                 PROVE  /\ ~torn'
                        /\ Len(previous'[v]) + Len(batch'[v]) = Len(lines')
                        /\ TailHash(lines') = previous'[v] \o batch'[v]
                        /\ \A i \in 1..Len(batch'[v]) :
                              lines'[Len(previous'[v]) + i]
                                = makeRecords(batch'[v], previous'[v])[i]
      BY DEF BatchAtEnd, TailHash, ExpectedPrevious, RecordHash, makeRecords
    <3>1. v = w
      BY <2>4
    <3>2. /\ Len(lines) + Len(b) = Len(lines')
          /\ \A i \in 1..Len(b) : lines'[Len(lines) + i] = rs[i]
      BY <2>1, <2>2 DEF Follows
    <3> QED  BY <3>1, <3>2, <2>2, <2>5 DEF rs
  <2> QED  BY <2>2, <2>3, <2>6, <2>7 DEF IInv, FileInv
<1>6. ASSUME NEW w \in Writers, NEW b \in Batches, WriteFails(w, b) PROVE IInv'
  <2>0. b \in Hash /\ Len(b) > 0 /\ previous[w] \in Hash /\ pc[w] = "open"
    BY <1>6, BatchType DEF WriteFails, AppenderUsable, IInv, TypeOK
  <2>1. PICK k \in 0..Len(b) - 1 :
            lines' = AppendedTo(lines, torn, SubSeq(makeRecords(b, previous[w]), 1, k))
    BY <1>6 DEF WriteFails
  <2> DEFINE all == makeRecords(b, previous[w])
             rs == SubSeq(all, 1, k)
  <2>2. all \in Seq(Record) /\ Len(all) = Len(b)
    BY <2>0, RecordsOfBatch
  <2> HIDE DEF all
  <2>3. rs \in Seq(Record) /\ Len(rs) = k /\ \A i \in 1..k : rs[i] = all[i]
    BY <2>0, <2>2
  <2> HIDE DEF rs
  <2>4. BuiltOn(rs, b, previous[w])
    BY <2>0, <2>3 DEF BuiltOn, all, Hash
  <2>5. FileInv'
    BY <1>6, <2>0, <2>1, <2>4, AppendToFile DEF WriteFails, rs, all
  <2>6. TypeOK'
    BY <1>6, <2>0, <2>5 DEF IInv, TypeOK, FileInv, WriteFails, PC
  <2>7. \A v \in Writers : v # w => pc[v] = "idle" /\ pc'[v] = "idle"
    BY <1>6, <2>0 DEF IInv, TypeOK, SingleWriter, WriteFails
  <2>8. pc'[w] = "failed"
    BY <1>6 DEF IInv, TypeOK, WriteFails
  <2>9. SingleWriter' /\ RecoverySafe' /\ TailCached' /\ BatchAtEnd'
    BY <1>6, <2>0, <2>7, <2>8
       DEF IInv, SingleWriter, RecoverySafe, TailCached, BatchAtEnd, WriteFails
  <2> QED  BY <2>5, <2>6, <2>9 DEF IInv, FileInv
<1>7. ASSUME NEW w \in Writers, SyncBatch(w) PROVE IInv'
  <2> DEFINE rs == makeRecords(batch[w], previous[w])
  <2>0. /\ pc[w] = "written"
        /\ batch[w] \in Hash /\ previous[w] \in Hash
        /\ Len(batch[w]) \in Nat /\ Len(previous[w]) \in Nat /\ Len(lines) \in Nat
    BY <1>7 DEF SyncBatch, IInv, TypeOK, Hash
  <2>1. /\ ~torn
        /\ Len(previous[w]) + Len(batch[w]) = Len(lines)
        /\ TailHash(lines) = previous[w] \o batch[w]
        /\ \A i \in 1..Len(batch[w]) : lines[Len(previous[w]) + i] = rs[i]
    BY <2>0 DEF IInv, BatchAtEnd
  <2>2. \A i \in 1..Len(batch[w]) :
            rs[i] \in Record /\ Len(rs[i].prev) = Len(previous[w]) + i - 1
    BY <2>0, RecordsOfBatch
  <2> HIDE DEF rs
  <2>3. acked' = acked \cup {rs[i] : i \in 1..Len(batch[w])}
    BY <1>7 DEF SyncBatch, rs
  <2>4. UNCHANGED <<lockFile, lines, torn, blobs, recovery>> /\ synced' = Len(lines)
    BY <1>7 DEF SyncBatch
  <2>5. TypeOK'
    <3>1. previous[w] \o batch[w] \in Hash
      BY <2>0 DEF Hash
    <3>2. acked' \in SUBSET Record
      BY <2>2, <2>3 DEF IInv, TypeOK
    <3>3. synced' \in 0..Len(lines')
      BY <2>0, <2>4
    <3>4. batch' \in [Writers -> Hash]
      BY <1>7 DEF IInv, TypeOK, SyncBatch, Hash
    <3> QED  BY <1>7, <2>4, <3>1, <3>2, <3>3, <3>4 DEF IInv, TypeOK, SyncBatch, PC
  <2>6. AcknowledgedRecordsDurable'
    <3> SUFFICES ASSUME NEW r \in acked'
                 PROVE  /\ Len(r.prev) < Len(lines)
                        /\ lines[Len(r.prev) + 1] = r
      BY <2>0, <2>4 DEF AcknowledgedRecordsDurable
    <3>1. CASE r \in acked
      <4>1. r \in Record
        BY <3>1 DEF IInv, TypeOK
      <4>2. Len(r.prev) \in Nat /\ synced \in 0..Len(lines)
        BY <4>1 DEF Record, Hash, IInv, TypeOK
      <4> QED  BY <3>1, <4>2, <2>0 DEF IInv, AcknowledgedRecordsDurable
    <3>2. CASE r \notin acked
      <4>1. PICK i \in 1..Len(batch[w]) : r = rs[i]
        BY <3>2, <2>3
      <4>2. Len(r.prev) = Len(previous[w]) + i - 1
        BY <4>1, <2>2
      <4>4. Len(r.prev) + 1 = Len(previous[w]) + i /\ Len(r.prev) < Len(lines)
        <5> DEFINE x == Len(r.prev)
                   p == Len(previous[w])
                   m == Len(batch[w])
        <5>1. x = p + i - 1 /\ p + m = Len(lines) /\ i \in 1..m /\ p \in Nat /\ m \in Nat
          BY <4>2, <2>0, <2>1
        <5> HIDE DEF x, p, m
        <5>2. x + 1 = p + i /\ x < Len(lines)
          BY <5>1
        <5> QED  BY <5>2 DEF x, p
      <4>3. lines[Len(previous[w]) + i] = r
        BY <4>1, <2>1
      <4> QED  BY <4>3, <4>4
    <3> QED  BY <3>1, <3>2
  <2>7. ChainNeverForks' /\ PrevCountsRecords' /\ RecordedBlobsExist'
    BY <2>4 DEF IInv, ChainNeverForks, ChainOK, ExpectedPrevious, PrevCountsRecords,
                RecordedBlobsExist
  <2>8. \A v \in Writers : v # w => pc[v] = "idle" /\ pc'[v] = "idle"
    BY <1>7, <2>0 DEF IInv, TypeOK, SingleWriter, SyncBatch
  <2>9. pc'[w] = "open" /\ previous'[w] = previous[w] \o batch[w]
    BY <1>7 DEF IInv, TypeOK, SyncBatch
  <2>10. SingleWriter' /\ RecoverySafe' /\ BatchAtEnd'
    BY <2>0, <2>4, <2>8, <2>9 DEF IInv, SingleWriter, RecoverySafe, BatchAtEnd
  <2>11. TailCached'
    BY <2>1, <2>4, <2>8, <2>9 DEF TailCached, TailHash, ExpectedPrevious
  <2> QED  BY <2>5, <2>6, <2>7, <2>10, <2>11 DEF IInv
<1>8. ASSUME NEW w \in Writers, SyncFails(w) PROVE IInv'
  <2>1. FileInv'
    BY <1>0, <1>8, FileUntouched DEF SyncFails
  <2>2. TypeOK'
    BY <1>8, <2>1 DEF IInv, TypeOK, FileInv, SyncFails, PC, Hash
  <2>3. SingleWriter' /\ RecoverySafe'
    BY <1>8 DEF IInv, TypeOK, SingleWriter, RecoverySafe, SyncFails
  <2>4. TailCached' /\ BatchAtEnd'
    BY <1>8 DEF IInv, TypeOK, TailCached, BatchAtEnd, SyncFails, TailHash, ExpectedPrevious
  <2> QED  BY <2>1, <2>2, <2>3, <2>4 DEF IInv, FileInv
<1>9. ASSUME NEW w \in Writers, Close(w) PROVE IInv'
  <2>1. FileInv'
    BY <1>0, <1>9, FileUntouched DEF Close
  <2>2. TypeOK'
    BY <1>9, <2>1 DEF IInv, TypeOK, FileInv, Close, PC
  <2>3. SingleWriter' /\ RecoverySafe'
    BY <1>9 DEF IInv, TypeOK, SingleWriter, RecoverySafe, Close
  <2>4. TailCached' /\ BatchAtEnd'
    BY <1>9 DEF IInv, TypeOK, TailCached, BatchAtEnd, Close, TailHash, ExpectedPrevious
  <2> QED  BY <2>1, <2>2, <2>3, <2>4 DEF IInv, FileInv
<1>10. ASSUME NEW w \in Writers, Crash(w) PROVE IInv'
  <2>1. FileInv'
    BY <1>0, <1>10, FileUntouched DEF Crash
  <2>2. TypeOK'
    BY <1>10, <2>1 DEF IInv, TypeOK, FileInv, Crash, PC, Hash
  <2>3. SingleWriter' /\ RecoverySafe'
    BY <1>10 DEF IInv, TypeOK, SingleWriter, RecoverySafe, Crash
  <2>4. TailCached' /\ BatchAtEnd'
    BY <1>10 DEF IInv, TypeOK, TailCached, BatchAtEnd, Crash, TailHash, ExpectedPrevious
  <2> QED  BY <2>1, <2>2, <2>3, <2>4 DEF IInv, FileInv
<1>11. ASSUME PowerLoss PROVE IInv'
  <2>1. PICK n \in synced..Len(lines) :
            /\ lines' = SubSeq(lines, 1, n)
            /\ torn' \in IF n = Len(lines) THEN {torn, FALSE} ELSE BOOLEAN
    BY <1>11 DEF PowerLoss
  <2>2. lines \in Seq(Record) /\ ChainOK(lines) /\ n \in 0..Len(lines) /\ n >= synced
        /\ synced \in Nat
    BY DEF IInv, TypeOK, ChainNeverForks
  <2>3. /\ lines' \in Seq(Record)
        /\ Len(lines') = n
        /\ \A i \in 1..n : lines'[i] = lines[i] /\ i \in 1..Len(lines)
        /\ ChainOK(lines')
    BY <2>1, <2>2, PrefixOfChain
  <2>4. UNCHANGED <<lockFile, synced, blobs, previous, acked>>
        /\ pc' = [w \in Writers |-> "idle"]
        /\ batch' = [w \in Writers |-> <<>>]
        /\ recovery' = "none"
    BY <1>11 DEF PowerLoss
  <2>5. TypeOK'
    <3>1. synced' \in 0..Len(lines')
      BY <2>2, <2>3, <2>4
    <3>2. torn' \in BOOLEAN
      BY <2>1 DEF IInv, TypeOK
    <3>3. batch' \in [Writers -> Hash]
      BY <2>4 DEF Hash
    <3> QED  BY <2>3, <2>4, <3>1, <3>2, <3>3 DEF IInv, TypeOK, PC, Recovery
  <2>6. PrevCountsRecords' /\ RecordedBlobsExist' /\ ChainNeverForks'
    BY <2>3, <2>4 DEF IInv, PrevCountsRecords, RecordedBlobsExist, ChainNeverForks
  <2>7. AcknowledgedRecordsDurable'
    <3> SUFFICES ASSUME NEW r \in acked
                 PROVE  Len(r.prev) < synced /\ synced <= n /\ lines'[Len(r.prev) + 1] = r
      BY <2>3, <2>4 DEF AcknowledgedRecordsDurable
    <3>1. Len(r.prev) < synced /\ lines[Len(r.prev) + 1] = r
      BY DEF IInv, AcknowledgedRecordsDurable
    <3>2. r \in Record
      BY DEF IInv, TypeOK
    <3>3. Len(r.prev) \in Nat
      BY <3>2 DEF Record, Hash
    <3>4. Len(r.prev) + 1 \in 1..n
      BY <3>1, <3>3, <2>2
    <3> QED  BY <3>1, <3>4, <2>2, <2>3
  <2>8. SingleWriter' /\ RecoverySafe' /\ TailCached' /\ BatchAtEnd'
    BY <2>4 DEF SingleWriter, RecoverySafe, TailCached, BatchAtEnd
  <2> QED  BY <2>5, <2>6, <2>7, <2>8 DEF IInv
<1>12. ASSUME ReportLock \/ ConfirmNoWriter \/ AbandonRecovery \/ ClearStaleWriterLock
       PROVE  IInv'
  <2> USE DEF ReportLock, ConfirmNoWriter, AbandonRecovery, ClearStaleWriterLock
  <2>1. FileInv'
    BY <1>0, <1>12, FileUntouched
  <2>2. TypeOK'
    BY <1>12, <2>1 DEF IInv, TypeOK, FileInv, Recovery
  <2>3. SingleWriter' /\ RecoverySafe'
    BY <1>12 DEF IInv, TypeOK, SingleWriter, RecoverySafe
  <2>4. TailCached' /\ BatchAtEnd'
    <3>1. UNCHANGED <<lines, torn, pc, previous, batch>>
      BY <1>12
    <3> QED  BY <3>1 DEF IInv, TailCached, BatchAtEnd, TailHash, ExpectedPrevious
  <2> QED  BY <2>1, <2>2, <2>3, <2>4 DEF IInv, FileInv
<1>13. CASE UNCHANGED vars
  <2>1. FileInv'
    BY <1>0, <1>13, FileUntouched DEF vars
  <2> QED  BY <1>13, <2>1 DEF vars, IInv, FileInv, TypeOK, SingleWriter, RecoverySafe,
              TailCached, BatchAtEnd, TailHash, ExpectedPrevious
<1> QED
  BY <1>1, <1>2, <1>3, <1>4, <1>5, <1>6, <1>7, <1>8, <1>9, <1>10, <1>11, <1>12, <1>13
     DEF Next, AppendStep

-----------------------------------------------------------------------------
\* The types are kept, and the file holds only well-formed records.
THEOREM LedgerTypeOK == ASSUME ConfirmsUnderLock PROVE Spec => []TypeOK
<1>1. Init => IInv
  BY InitInv
<1>2. IInv /\ [Next]_vars => IInv'
  BY NextInv
<1>3. IInv => TypeOK
  BY DEF IInv
<1> QED  BY <1>1, <1>2, <1>3, PTL DEF Spec

\* The hash chain never forks, whatever writers, failures and recoveries do.
THEOREM LedgerNeverForks == ASSUME ConfirmsUnderLock PROVE Spec => []ChainNeverForks
<1>1. Init => IInv
  BY InitInv
<1>2. IInv /\ [Next]_vars => IInv'
  BY NextInv
<1>3. IInv => ChainNeverForks
  BY DEF IInv
<1> QED  BY <1>1, <1>2, <1>3, PTL DEF Spec

\* What AppendBatch returned is in the file, at its place, below the last fsync.
THEOREM LedgerKeepsAcknowledged ==
    ASSUME ConfirmsUnderLock PROVE Spec => []AcknowledgedRecordsDurable
<1>1. Init => IInv
  BY InitInv
<1>2. IInv /\ [Next]_vars => IInv'
  BY NextInv
<1>3. IInv => AcknowledgedRecordsDurable
  BY DEF IInv
<1> QED  BY <1>1, <1>2, <1>3, PTL DEF Spec

\* No record, acknowledged, failed or cut off by a crash, refers to a blob that
\* PutBlob has not committed.
THEOREM LedgerBlobsExist == ASSUME ConfirmsUnderLock PROVE Spec => []RecordedBlobsExist
<1>1. Init => IInv
  BY InitInv
<1>2. IInv /\ [Next]_vars => IInv'
  BY NextInv
<1>3. IInv => RecordedBlobsExist
  BY DEF IInv
<1> QED  BY <1>1, <1>2, <1>3, PTL DEF Spec

\* At most one process is between acquireWriterLock and Close.
THEOREM LedgerSingleWriter == ASSUME ConfirmsUnderLock PROVE Spec => []SingleWriter
<1>1. Init => IInv
  BY InitInv
<1>2. IInv /\ [Next]_vars => IInv'
  BY NextInv
<1>3. IInv => SingleWriter
  BY DEF IInv
<1> QED  BY <1>1, <1>2, <1>3, PTL DEF Spec

\* A file that ends in a partial record is not extended by any process.
THEOREM LedgerTornTailFreezes ==
    ASSUME ConfirmsUnderLock PROVE Spec => TornTailFreezesLedger
<1>1. Init => IInv
  BY InitInv
<1>2. IInv /\ [Next]_vars => IInv'
  BY NextInv
<1>3. ASSUME IInv, [Next]_vars PROVE [torn => Len(lines') <= Len(lines)]_vars
  <2> SUFFICES ASSUME Next, torn PROVE Len(lines') <= Len(lines)
    BY <1>3
  <2>1. lines \in Seq(Record) /\ Len(lines) \in Nat
    BY <1>3 DEF IInv, TypeOK
  <2>2. \A w \in Writers : pc[w] # "open"
    BY <1>3 DEF IInv, TailCached
  <2>3. CASE PowerLoss
    <3>1. PICK n \in synced..Len(lines) : lines' = SubSeq(lines, 1, n)
      BY <2>3 DEF PowerLoss
    <3>2. n \in 0..Len(lines)
      BY <1>3 DEF IInv, TypeOK
    <3> QED  BY <3>1, <3>2, <2>1
  <2>4. CASE ~PowerLoss
    <3>1. lines' = lines
      BY <2>2, <2>4 DEF Next, PutBlob, acquireWriterLock, NewAppender,
         releaseWriterLockAfterError, AppendStep, WriteBatch, WriteFails, AppenderUsable,
         SyncBatch, SyncFails, Close, Crash, ReportLock, ConfirmNoWriter,
         AbandonRecovery, ClearStaleWriterLock
    <3> QED  BY <3>1, <2>1
  <2> QED  BY <2>3, <2>4
<1> QED  BY <1>1, <1>2, <1>3, PTL DEF Spec, TornTailFreezesLedger

-----------------------------------------------------------------------------
\* The events of a file that follows another extend that one's.
LEMMA EventsOfExtension ==
    ASSUME lines \in Seq(Record), lines' \in Seq(Record),
           NEW rs, Follows(lines', lines, rs), Len(rs) \in Nat
    PROVE  EventLog' \in Seq(Events) /\ Log!IsPrefixOf(EventLog, EventLog')
<1>1. EventLog \in Seq(Events) /\ Len(EventLog) = Len(lines)
  <2>1. \A i \in 1..Len(lines) : lines[i] \in Record
    OBVIOUS
  <2>2. \A i \in 1..Len(lines) : lines[i].event \in Events
    BY <2>1 DEF Record
  <2>3. Len(lines) \in Nat
    OBVIOUS
  <2> QED  BY <2>2, <2>3 DEF EventLog
<1>2. EventLog' \in Seq(Events) /\ Len(EventLog') = Len(lines')
  <2>1. \A i \in 1..Len(lines') : lines'[i] \in Record
    OBVIOUS
  <2>2. \A i \in 1..Len(lines') : lines'[i].event \in Events
    BY <2>1 DEF Record
  <2>3. Len(lines') \in Nat
    OBVIOUS
  <2> QED  BY <2>2, <2>3 DEF EventLog
<1>3. Len(lines) \in Nat /\ Len(lines') = Len(lines) + Len(rs)
  BY DEF Follows
<1>4. \A i \in 1..Len(lines) : EventLog'[i] = EventLog[i]
  BY <1>3 DEF EventLog, Follows
<1> QED  BY <1>1, <1>2, <1>3, <1>4 DEF Log!IsPrefixOf

\* The ledger file implements an append-only log whose committed prefix is
\* what an fsync has covered.
THEOREM LedgerImplementsAppendOnlyLog ==
    ASSUME ConfirmsUnderLock PROVE Spec => ImplementsAppendOnlyLog
<1>1. Init => IInv
  BY InitInv
<1>2. IInv /\ [Next]_vars => IInv'
  BY NextInv
<1>3. Init => Log!Init
  BY DEF Init, Log!Init, EventLog
<1>4. ASSUME IInv, IInv', [Next]_vars PROVE [Log!Next]_<<EventLog, synced>>
  <2>0. /\ lines \in Seq(Record) /\ Len(lines) \in Nat /\ synced \in 0..Len(lines)
        /\ lines' \in Seq(Record) /\ Len(lines') \in Nat
    BY <1>4 DEF IInv, TypeOK
  <2>1. CASE UNCHANGED <<lines, synced>>
    BY <2>1 DEF EventLog
  <2>2. ASSUME NEW w \in Writers, SyncBatch(w) PROVE Log!Next
    <3>1. lines' = lines /\ synced' = Len(lines)
      BY <2>2 DEF SyncBatch
    <3>2. Len(EventLog) = Len(lines)
      BY <2>0 DEF EventLog
    <3>3. synced' \in synced..Len(EventLog)
      BY <3>1, <3>2, <2>0
    <3> QED  BY <3>1, <3>3 DEF Log!Next, Log!Commit, EventLog
  <2>3. ASSUME NEW w \in Writers, NEW b \in Batches, WriteBatch(w, b) \/ WriteFails(w, b)
        PROVE  Log!Next
    <3>1. /\ pc[w] = "open" /\ b \in Hash /\ previous[w] \in Hash
          /\ synced' = synced
      BY <2>3, <1>4, BatchType DEF WriteBatch, WriteFails, AppenderUsable, IInv, TypeOK
    <3> DEFINE all == makeRecords(b, previous[w])
    <3>2. all \in Seq(Record) /\ Len(all) = Len(b) /\ Len(b) \in Nat
      BY <3>1, RecordsOfBatch DEF Hash
    <3>3. ~torn
      BY <3>1, <1>4 DEF IInv, TailCached
    <3>4. PICK rs \in Seq(Record) : lines' = lines \o rs
      <4> HIDE DEF all
      <4>1. CASE WriteBatch(w, b)
        BY <4>1, <3>2, <3>3 DEF WriteBatch, AppendedTo, all
      <4>2. CASE WriteFails(w, b)
        <5>1. PICK k \in 0..Len(b) - 1 : lines' = AppendedTo(lines, torn, SubSeq(all, 1, k))
          BY <4>2 DEF WriteFails, all
        <5>2. SubSeq(all, 1, k) \in Seq(Record)
          BY <3>2
        <5> QED  BY <5>1, <5>2, <3>3 DEF AppendedTo
      <4> QED  BY <2>3, <4>1, <4>2
    <3>5. Follows(lines', lines, rs) /\ Len(rs) \in Nat
      <4>1. Len(lines \o rs) = Len(lines) + Len(rs)
        BY <2>0, ConcatProperties
      <4>2. \A i \in 1..Len(lines) : (lines \o rs)[i] = lines[i]
        BY <2>0
      <4>3. ASSUME NEW i \in 1..Len(rs) PROVE (lines \o rs)[Len(lines) + i] = rs[i]
        BY <2>0
      <4> QED  BY <3>4, <4>1, <4>2, <4>3 DEF Follows
    <3>6. EventLog' \in Seq(Events) /\ Log!IsPrefixOf(EventLog, EventLog')
      BY <2>0, <3>5, EventsOfExtension
    <3> QED  BY <3>1, <3>6 DEF Log!Next, Log!Extend
  <2>4. ASSUME PowerLoss PROVE Log!Next
    <3>1. PICK n \in synced..Len(lines) : lines' = SubSeq(lines, 1, n)
      BY <2>4 DEF PowerLoss
    <3>2. n \in 0..Len(lines) /\ n >= synced /\ synced' = synced /\ n \in Nat
      BY <2>0, <2>4 DEF PowerLoss
    <3>3. Len(lines') = n /\ \A i \in 1..n : lines'[i] = lines[i] /\ i \in 1..Len(lines)
      BY <2>0, <3>1, <3>2
    <3>4. Len(EventLog) = Len(lines) /\ Len(EventLog') = n
      BY <2>0, <3>3 DEF EventLog
    <3>5. \A i \in 1..n : EventLog[i] = EventLog'[i]
      BY <3>3 DEF EventLog
    <3> QED  BY <3>2, <3>4, <3>5 DEF Log!Next, Log!Lose, Log!IsPrefixOf
  <2> QED
    BY <1>4, <2>1, <2>2, <2>3, <2>4 DEF Next, vars, PutBlob, acquireWriterLock, NewAppender,
       releaseWriterLockAfterError, AppendStep, SyncFails, Close, Crash,
       ReportLock, ConfirmNoWriter, AbandonRecovery, ClearStaleWriterLock
<1> QED  BY <1>1, <1>2, <1>3, <1>4, PTL DEF Spec, ImplementsAppendOnlyLog, Log!Spec
=============================================================================
