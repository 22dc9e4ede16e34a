---------------------------- MODULE OutboxProofs ----------------------------
(***************************************************************************)
(* What the outbox keeps, for any number of Enqueue calls and any faults:  *)
(* an event that was written is in the log or with the bus, unless it was  *)
(* written into a fragment or was behind the end of a scan when the log    *)
(* was replaced.  The one step that takes lines out of the log is the      *)
(* rename at the end of a flush, so the argument needs FlushCoversFile:    *)
(* what the flush read, and what it did not, still covers the log when it  *)
(* replaces it.                                                            *)
(***************************************************************************)
EXTENDS Outbox, SequenceLemmas, TLAPS

\* A written line is a new last line of the log, or merged with a fragment.
LEMMA WrittenLine ==
  ASSUME TypeOK, NEW e \in Events, WriteLine(e)
  PROVE  /\ overlong' \in SUBSET Events
         /\ torn' \in BOOLEAN
         /\ \/ file' = Append(file, e) /\ lost' = lost
            \/ file' = file /\ lost' = lost \cup {e}
BY DEF WriteLine, TypeOK

\* What the scan takes and what it does not make up the log.
LEMMA ScanCutsLog ==
  ASSUME TypeOK, NEW n \in 0..Len(file),
         records' = SubSeq(file, 1, n), unread' = SubSeq(file, n + 1, Len(file))
  PROVE  /\ records' \in Seq(Events) /\ Len(records') = n
         /\ \A i \in 1..n : records'[i] = file[i]
         /\ unread' \in Seq(Events) /\ Len(unread') = Len(file) - n
         /\ \A i \in 1..(Len(file) - n) : unread'[i] = file[n + i]
         /\ ToSet(file) = ToSet(records') \cup ToSet(unread')
BY PrefixProperties, SuffixProperties, CutToSet DEF TypeOK

-----------------------------------------------------------------------------
\* The variables keep their types and o.mu its discipline.
THEOREM TypeCorrect == Spec => []TypeOK
<1>1. Init => TypeOK
  BY OutboxAssumption, EmptySeq DEF Init, TypeOK, CallState, Nobody, Flush
<1>2. TypeOK /\ [Next]_vars => TypeOK'
  <2> SUFFICES ASSUME TypeOK, [Next]_vars PROVE TypeOK'
    OBVIOUS
  <2> USE OutboxAssumption DEF CallState, fileVars, flushVars, busVars
  <2> USE DEF Nobody, Flush
  <2>1. ASSUME NEW e \in Events, Enqueue(e) PROVE TypeOK'
    BY <2>1 DEF Enqueue, TypeOK
  <2>2. ASSUME NEW e \in Events, AppendLine(e) PROVE TypeOK'
    <3>1. /\ overlong' \in SUBSET Events /\ torn' \in BOOLEAN
          /\ file' \in Seq(Events) /\ lost' \in SUBSET Events
      <4>1. Append(file, e) \in Seq(Events)
        BY ToSetAppend DEF TypeOK
      <4>2. WriteLine(e)
        BY <2>2 DEF AppendLine
      <4> QED
        BY <4>1, <4>2, WrittenLine DEF TypeOK
    <3> QED
      BY <2>2, <3>1 DEF AppendLine, TypeOK
  <2>3. ASSUME NEW e \in Events, AppendFragment(e) PROVE TypeOK'
    BY <2>3 DEF AppendFragment, TypeOK
  <2>4. ASSUME NEW e \in Events, EnqueueReturns(e) PROVE TypeOK'
    BY <2>4 DEF EnqueueReturns, TypeOK
  <2>5. CASE StartFlush
    <3>1. records' \in Seq(Events) /\ unread' \in Seq(Events)
      BY <2>5, ScanCutsLog DEF StartFlush
    <3> QED
      BY <2>5, <3>1, EmptySeq DEF StartFlush, TypeOK
  <2>6. CASE PublishOk
    <3>1. Head(records) \in Events /\ Tail(records) \in Seq(Events)
      BY <2>6, ToSetHeadTail DEF PublishOk, TypeOK
    <3>2. delivered' \in SUBSET Events /\ again' \in BOOLEAN
      BY <2>6, <3>1 DEF PublishOk, BusGets, TypeOK
    <3> QED
      BY <2>6, <3>1, <3>2 DEF PublishOk, TypeOK
  <2>7. CASE PublishFails
    <3>1. Head(records) \in Events /\ Tail(records) \in Seq(Events)
      BY <2>7, ToSetHeadTail DEF PublishFails, TypeOK
    <3>2. Append(remaining, Head(records)) \in Seq(Events)
      BY <3>1, ToSetAppend DEF TypeOK
    <3>3. /\ delivered' \in SUBSET Events
          /\ again' \in BOOLEAN
          /\ faulted' \in BOOLEAN
      BY <2>7, <3>1 DEF PublishFails, BusGets, TypeOK
    <3> QED
      BY <2>7, <3>1, <3>2, <3>3 DEF PublishFails, TypeOK
  <2>8. CASE Rewrite
    <3>1. ToSet(unread) \subseteq Events
      BY DEF ToSet, TypeOK
    <3> QED
      BY <2>8, <3>1, EmptySeq DEF Rewrite, TypeOK
  <2>9. CASE RewriteFails
    BY <2>9 DEF RewriteFails, TypeOK
  <2>10. CASE Crash
    BY <2>10 DEF Crash, TypeOK
  <2>11. CASE Calm
    BY <2>11 DEF Calm, TypeOK
  <2>12. CASE UNCHANGED vars
    BY <2>12 DEF vars, TypeOK
  <2> QED
    BY <2>1, <2>2, <2>3, <2>4, <2>5, <2>6, <2>7, <2>8, <2>9, <2>10, <2>11,
       <2>12 DEF Next, EnqueueStep, FlushStep
<1> QED
  BY <1>1, <1>2, PTL DEF Spec

-----------------------------------------------------------------------------
\* What was written whole is in the log or with the bus, also before Enqueue
\* has returned: the crash-proof moment is the write, not the return.
WrittenIsKept ==
  \A e \in Events :
    call[e] \in {"writing", "acked"} /\ e \notin lost
      => e \in ToSet(file) \cup delivered

KeepInv == FlushCoversFile /\ WrittenIsKept

\* KeepInv is an invariant, whatever faults occur.
THEOREM KeepsWritten == Spec => []KeepInv
<1>1. Init => KeepInv
  BY DEF Init, KeepInv, FlushCoversFile, WrittenIsKept, Nobody, Flush
<1>2. TypeOK /\ KeepInv /\ [Next]_vars => KeepInv'
  <2> SUFFICES ASSUME TypeOK, KeepInv, [Next]_vars PROVE KeepInv'
    OBVIOUS
  <2> USE OutboxAssumption
      DEF KeepInv, FlushCoversFile, WrittenIsKept, fileVars, flushVars, busVars
  <2>1. ASSUME NEW e \in Events, Enqueue(e) PROVE KeepInv'
    BY <2>1 DEF Enqueue, TypeOK
  <2>2. ASSUME NEW e \in Events, AppendLine(e) PROVE KeepInv'
    <3>1. mu' # Flush
      BY <2>2 DEF AppendLine
    <3>2. \/ file' = Append(file, e) /\ lost' = lost
          \/ file' = file /\ lost' = lost \cup {e}
      BY <2>2, WrittenLine DEF AppendLine
    <3>3. \/ ToSet(file') = ToSet(file) \cup {e}
          \/ ToSet(file') = ToSet(file) /\ e \in lost'
      <4>1. ToSet(Append(file, e)) = ToSet(file) \cup {e}
        BY ToSetAppend DEF TypeOK
      <4> QED
        BY <3>2, <4>1
    <3>4. lost \subseteq lost' /\ delivered' = delivered
      BY <2>2, <3>2 DEF AppendLine
    <3>5. \A d \in Events : d # e => call'[d] = call[d]
      BY <2>2 DEF AppendLine, TypeOK
    <3> QED
      BY <3>1, <3>3, <3>4, <3>5
  <2>3. ASSUME NEW e \in Events, AppendFragment(e) PROVE KeepInv'
    BY <2>3 DEF AppendFragment, TypeOK
  <2>4. ASSUME NEW e \in Events, EnqueueReturns(e) PROVE KeepInv'
    BY <2>4 DEF EnqueueReturns, TypeOK, Nobody, Flush
  <2>5. CASE StartFlush
    <3>1. ToSet(file) = ToSet(records') \cup ToSet(unread')
      BY <2>5, ScanCutsLog DEF StartFlush
    <3> QED
      BY <2>5, <3>1 DEF StartFlush
  <2>6. CASE PublishOk
    <3>1. /\ Head(records) \in Events
          /\ ToSet(records) = {Head(records)} \cup ToSet(records')
      BY <2>6, ToSetHeadTail DEF PublishOk, TypeOK
    <3>2. delivered' = delivered \cup {Head(records)}
      BY <2>6 DEF PublishOk, BusGets
    <3> QED
      BY <2>6, <3>1, <3>2 DEF PublishOk
  <2>7. CASE PublishFails
    <3>1. /\ Head(records) \in Events
          /\ ToSet(records) = {Head(records)} \cup ToSet(records')
      BY <2>7, ToSetHeadTail DEF PublishFails, TypeOK
    <3>2. ToSet(remaining') = ToSet(remaining) \cup {Head(records)}
      BY <2>7, <3>1, ToSetAppend DEF PublishFails, TypeOK
    <3>3. delivered \subseteq delivered'
      BY <2>7 DEF PublishFails, BusGets
    <3> QED
      BY <2>7, <3>1, <3>2, <3>3 DEF PublishFails
  <2>8. CASE Rewrite
    <3>1. ToSet(file) \subseteq ToSet(remaining) \cup delivered \cup ToSet(unread)
      BY <2>8, ToSetEmpty DEF Rewrite
    <3> QED
      BY <2>8, <3>1 DEF Rewrite, Nobody, Flush
  <2>9. CASE RewriteFails
    BY <2>9 DEF RewriteFails, Nobody, Flush
  <2>10. CASE Crash
    BY <2>10 DEF Crash, Nobody, Flush
  <2>11. CASE Calm \/ UNCHANGED vars
    BY <2>11 DEF Calm, vars
  <2> QED
    BY <2>1, <2>2, <2>3, <2>4, <2>5, <2>6, <2>7, <2>8, <2>9, <2>10, <2>11
       DEF Next, EnqueueStep, FlushStep
<1> QED
  BY <1>1, <1>2, TypeCorrect, PTL DEF Spec

\* A flush can account for every line it is about to replace.
THEOREM FlushCovers == Spec => []FlushCoversFile
<1>1. KeepInv => FlushCoversFile
  BY DEF KeepInv
<1> QED
  BY <1>1, KeepsWritten, PTL

\* No acknowledged event is lost but by a fragment or behind the end of a scan.
THEOREM LossContained == Spec => []LossIsContained
<1>1. KeepInv => LossIsContained
  BY DEF KeepInv, WrittenIsKept, LossIsContained
<1> QED
  BY <1>1, KeepsWritten, PTL

-----------------------------------------------------------------------------
(***************************************************************************)
(* Order and duplicates.  A flush works on a snapshot of a log that nobody *)
(* writes meanwhile: it has gone through the log up to some line, what it  *)
(* carries forward is a selection of those lines, and the lines behind are *)
(* still to be published or were not reached by the scan.                  *)
(***************************************************************************)

\* The first k lines are dealt with; lines kept[1] < kept[2] < ... of them are
\* carried forward.
Split(k, n, kept) ==
  /\ \A i, j \in 1..n : i < j => kept[i] < kept[j]
  /\ Len(records) + Len(unread) = Len(file) - k
  /\ \A i \in 1..Len(records) : records[i] = file[k + i]
  /\ \A i \in 1..Len(unread) : unread[i] = file[k + Len(records) + i]
  /\ Len(remaining) = n
  /\ \A i \in 1..n : remaining[i] = file[kept[i]]

\* Events not yet written are nowhere, and no event is twice in the log.
Fresh ==
  /\ \A e \in Events : call[e] \in {"new", "waiting"} =>
       e \notin ToSet(file) /\ e \notin delivered
  /\ \A i, j \in 1..Len(file) : file[i] = file[j] => i = j

Snapshot ==
  mu = Flush =>
    \E k \in 0..Len(file) : \E n \in 0..k :
      \E kept \in [1..n -> 1..k] : Split(k, n, kept)

LogInv == Fresh /\ Snapshot

\* The positions of a selection are distinct.
LEMMA Increasing ==
  ASSUME NEW n \in Nat, NEW k \in Nat, NEW kept \in [1..n -> 1..k],
         \A i, j \in 1..n : i < j => kept[i] < kept[j]
  PROVE  \A i, j \in 1..n : kept[i] = kept[j] => i = j
<1> SUFFICES ASSUME NEW i \in 1..n, NEW j \in 1..n, kept[i] = kept[j]
             PROVE  i = j
  OBVIOUS
<1>1. kept[i] \in Nat /\ kept[j] \in Nat
  OBVIOUS
<1>2. ~(kept[i] < kept[j]) /\ ~(kept[j] < kept[i])
  BY <1>1
<1>3. ~(i < j) /\ ~(j < i)
  BY <1>2
<1> QED
  BY <1>3

\* What a flush that is about to publish holds: its next record is a line of
\* the log, and is neither among the records after it nor carried forward.
LEMMA NextRecord ==
  ASSUME TypeOK, LogInv, mu = Flush, records # <<>>
  PROVE  /\ Head(records) \in Events
         /\ Tail(records) \in Seq(Events)
         /\ Head(records) \in ToSet(file)
         /\ Head(records) \notin ToSet(Tail(records))
         /\ Head(records) \notin ToSet(remaining)
<1>1. PICK k \in 0..Len(file) : \E n \in 0..k :
        \E kept \in [1..n -> 1..k] : Split(k, n, kept)
  BY DEF LogInv, Snapshot
<1>2. PICK n \in 0..k : \E kept \in [1..n -> 1..k] : Split(k, n, kept)
  BY <1>1
<1>3. PICK kept \in [1..n -> 1..k] : Split(k, n, kept)
  BY <1>2
<1>4. /\ Len(file) \in Nat /\ Len(records) \in Nat
      /\ Len(unread) \in Nat /\ Len(remaining) \in Nat
  BY LenProperties DEF TypeOK
<1>5. /\ Head(records) \in Events /\ Tail(records) \in Seq(Events)
      /\ Len(Tail(records)) = Len(records) - 1
      /\ Head(records) = records[1]
      /\ \A i \in 1..Len(Tail(records)) : Tail(records)[i] = records[i + 1]
  BY HeadTailProperties DEF TypeOK
<1>6. Len(records) > 0
  BY <1>4, EmptySeq DEF TypeOK
<1>7. k + 1 \in 1..Len(file) /\ Head(records) = file[k + 1]
  BY <1>3, <1>4, <1>5, <1>6 DEF Split
<1>8. Head(records) \in ToSet(file)
  BY <1>7 DEF ToSet
<1>9. Head(records) \notin ToSet(Tail(records))
  <2> SUFFICES ASSUME NEW i \in 1..Len(Tail(records)),
                      Head(records) = Tail(records)[i]
               PROVE  FALSE
    BY DEF ToSet
  <2>1. i + 1 \in 1..Len(records) /\ Tail(records)[i] = records[i + 1]
    BY <1>4, <1>5
  <2>2. k + (i + 1) \in 1..Len(file) /\ records[i + 1] = file[k + (i + 1)]
    <3>1. Len(records) + Len(unread) = Len(file) - k
      BY <1>3 DEF Split
    <3>2. k + (i + 1) \in 1..Len(file)
      BY <1>4, <2>1, <3>1
    <3> QED
      BY <1>3, <2>1, <3>2 DEF Split
  <2>3. k + 1 = k + (i + 1)
    BY <1>7, <2>1, <2>2 DEF LogInv, Fresh
  <2> QED
    BY <2>3
<1>10. Head(records) \notin ToSet(remaining)
  <2> SUFFICES ASSUME NEW i \in 1..Len(remaining),
                      Head(records) = remaining[i]
               PROVE  FALSE
    BY DEF ToSet
  <2>1. i \in 1..n /\ remaining[i] = file[kept[i]]
    BY <1>3 DEF Split
  <2>2. kept[i] \in 1..k
    BY <2>1
  <2>3. kept[i] \in 1..Len(file)
    BY <1>4, <2>2
  <2>4. kept[i] = k + 1
    BY <1>7, <2>1, <2>3 DEF LogInv, Fresh
  <2> QED
    BY <2>2, <2>4
<1> QED
  BY <1>5, <1>8, <1>9, <1>10

\* After one more record the flush still holds a snapshot, whether the record
\* is carried forward or not.
LEMMA SnapshotMovesOn ==
  ASSUME TypeOK, LogInv, mu = Flush, records # <<>>,
         file' = file, unread' = unread, records' = Tail(records),
         \/ remaining' = remaining
         \/ remaining' = Append(remaining, Head(records))
  PROVE  Snapshot'
<1>1. PICK k \in 0..Len(file) : \E n \in 0..k :
        \E kept \in [1..n -> 1..k] : Split(k, n, kept)
  BY DEF LogInv, Snapshot
<1>2. PICK n \in 0..k : \E kept \in [1..n -> 1..k] : Split(k, n, kept)
  BY <1>1
<1>3. PICK kept \in [1..n -> 1..k] : Split(k, n, kept)
  BY <1>2
<1>4. /\ Len(file) \in Nat /\ Len(records) \in Nat
      /\ Len(unread) \in Nat /\ Len(remaining) \in Nat
  BY LenProperties DEF TypeOK
<1>5. /\ Head(records) \in Events
      /\ Len(Tail(records)) = Len(records) - 1
      /\ Head(records) = records[1]
      /\ \A i \in 1..Len(Tail(records)) : Tail(records)[i] = records[i + 1]
  BY HeadTailProperties DEF TypeOK
<1>6. Len(records) > 0
  BY <1>4, EmptySeq DEF TypeOK
<1>7. k + 1 \in 0..Len(file) /\ Head(records) = file[k + 1]
  BY <1>3, <1>4, <1>5, <1>6 DEF Split
<1>8. /\ Len(records') + Len(unread') = Len(file') - (k + 1)
      /\ \A i \in 1..Len(records') : records'[i] = file'[k + 1 + i]
      /\ \A i \in 1..Len(unread') :
           unread'[i] = file'[k + 1 + Len(records') + i]
  <2>1. Len(records') + Len(unread') = Len(file') - (k + 1)
    BY <1>3, <1>4, <1>5 DEF Split
  <2>2. ASSUME NEW i \in 1..Len(records')
        PROVE  records'[i] = file'[k + 1 + i]
    <3>1. i + 1 \in 1..Len(records) /\ records'[i] = records[i + 1]
      BY <1>4, <1>5
    <3>2. records[i + 1] = file[k + (i + 1)]
      BY <1>3, <3>1 DEF Split
    <3>3. k + (i + 1) = k + 1 + i
      BY <3>1, <1>4
    <3> QED
      BY <3>1, <3>2, <3>3
  <2>3. ASSUME NEW i \in 1..Len(unread')
        PROVE  unread'[i] = file'[k + 1 + Len(records') + i]
    <3>1. k + 1 + Len(records') + i = k + Len(records) + i
      BY <1>4, <1>5
    <3> QED
      BY <1>3, <3>1 DEF Split
  <2> QED
    BY <2>1, <2>2, <2>3
<1>9. CASE remaining' = remaining
  <2>1. n \in 0..k + 1 /\ kept \in [1..n -> 1..k + 1]
    BY <1>4
  <2>2. Split(k + 1, n, kept)'
    BY <1>3, <1>8, <1>9 DEF Split
  <2> QED
    BY <1>7, <2>1, <2>2 DEF Snapshot
<1>10. CASE remaining' = Append(remaining, Head(records))
  <2> DEFINE more == [i \in 1..n + 1 |-> IF i = n + 1 THEN k + 1 ELSE kept[i]]
  <2>1. \A i \in 1..n + 1 : i # n + 1 => i \in 1..n
    OBVIOUS
  <2>2. more \in [1..n + 1 -> 1..k + 1] /\ n + 1 \in 0..k + 1
    <3>1. \A i \in 1..n : kept[i] \in 1..k + 1
      BY <1>4
    <3> QED
      BY <2>1, <3>1, <1>4
  <2>3. /\ Len(remaining') = n + 1
        /\ \A i \in 1..n : remaining'[i] = remaining[i]
        /\ remaining'[n + 1] = Head(records)
    <3>1. Len(remaining) = n
      BY <1>3 DEF Split
    <3> QED
      BY <1>5, <1>10, <3>1, AppendProperties DEF TypeOK
  <2>4. \A i, j \in 1..n + 1 : i < j => more[i] < more[j]
    <3> SUFFICES ASSUME NEW i \in 1..n + 1, NEW j \in 1..n + 1, i < j
                 PROVE  more[i] < more[j]
      OBVIOUS
    <3>1. i \in 1..n /\ more[i] = kept[i] /\ kept[i] \in 1..k
      OBVIOUS
    <3>2. CASE j = n + 1
      BY <3>1, <3>2
    <3>3. CASE j # n + 1
      <4>1. j \in 1..n /\ more[j] = kept[j]
        BY <3>3
      <4> QED
        BY <1>3, <3>1, <4>1 DEF Split
    <3> QED
      BY <3>2, <3>3
  <2>5. \A i \in 1..n + 1 : remaining'[i] = file'[more[i]]
    <3> SUFFICES ASSUME NEW i \in 1..n + 1
                 PROVE  remaining'[i] = file'[more[i]]
      OBVIOUS
    <3>1. CASE i = n + 1
      BY <1>7, <2>3, <3>1
    <3>2. CASE i # n + 1
      BY <1>3, <2>1, <2>3, <3>2 DEF Split
    <3> QED
      BY <3>1, <3>2
  <2>6. Split(k + 1, n + 1, more)'
    BY <1>8, <2>3, <2>4, <2>5 DEF Split
  <2> HIDE DEF more
  <2> QED
    BY <1>7, <2>2, <2>6 DEF Snapshot
<1> QED
  BY <1>9, <1>10

\* What a flush that has published everything puts in place of the log: a
\* selection of the lines the scan reached.
Carries(k, n, kept) ==
  /\ \A i, j \in 1..n : i < j => kept[i] < kept[j]
  /\ Len(remaining) = n
  /\ \A i \in 1..n : remaining[i] = file[kept[i]]
  /\ unread = SubSeq(file, k + 1, Len(file))

LEMMA Carried ==
  ASSUME TypeOK, LogInv, mu = Flush, records = <<>>
  PROVE  \E k \in 0..Len(file) : \E n \in 0..k : \E kept \in [1..n -> 1..k] :
           Carries(k, n, kept)
<1>1. PICK k \in 0..Len(file) : \E n \in 0..k :
        \E kept \in [1..n -> 1..k] : Split(k, n, kept)
  BY DEF LogInv, Snapshot
<1>2. PICK n \in 0..k : \E kept \in [1..n -> 1..k] : Split(k, n, kept)
  BY <1>1
<1>3. PICK kept \in [1..n -> 1..k] : Split(k, n, kept)
  BY <1>2
<1>4. Len(file) \in Nat /\ Len(unread) \in Nat /\ Len(records) = 0
  BY LenProperties DEF TypeOK
<1>5. /\ Len(unread) = Len(file) - k
      /\ \A i \in 1..Len(unread) : unread[i] = file[k + i]
  <2>1. \A i \in 1..Len(unread) : k + Len(records) + i = k + i
    BY <1>4
  <2> QED
    BY <1>3, <1>4, <2>1 DEF Split
<1> DEFINE back == SubSeq(file, k + 1, Len(file))
<1>6. /\ back \in Seq(Events) /\ Len(back) = Len(file) - k
      /\ \A i \in 1..(Len(file) - k) : back[i] = file[k + i]
  BY SuffixProperties DEF TypeOK
<1> HIDE DEF back
<1>7. unread = back
  BY <1>5, <1>6, SeqEqual DEF TypeOK
<1> QED
  BY <1>3, <1>7 DEF Split, Carries, back

\* The log never holds an event twice, and a flush works on a snapshot of it.
THEOREM LogStructured == Spec => []LogInv
<1>1. Init => LogInv
  <2>1. Len(<<>>) = 0
    OBVIOUS
  <2> QED
    BY <2>1, ToSetEmpty
       DEF Init, LogInv, Fresh, Snapshot, Nobody, Flush
<1>2. TypeOK /\ LogInv /\ [Next]_vars => LogInv'
  <2> SUFFICES ASSUME TypeOK, LogInv, [Next]_vars PROVE LogInv'
    OBVIOUS
  <2> USE DEF fileVars, flushVars, busVars
  <2>1. ASSUME UNCHANGED <<file, delivered>>, mu' # Flush,
               \A e \in Events : call'[e] \in {"new", "waiting"} =>
                                  call[e] \in {"new", "waiting"}
        PROVE  LogInv'
    BY <2>1 DEF LogInv, Fresh, Snapshot
  <2>2. ASSUME NEW e \in Events, Enqueue(e) PROVE LogInv'
    <3>1. Fresh'
      BY <2>2 DEF Enqueue, LogInv, Fresh, TypeOK
    <3>2. Snapshot'
      BY <2>2 DEF Enqueue, LogInv, Snapshot, Split
    <3> QED
      BY <3>1, <3>2 DEF LogInv
  <2>3. ASSUME NEW e \in Events, AppendLine(e) PROVE LogInv'
    <3>1. mu' # Flush
      BY <2>3, OutboxAssumption DEF AppendLine
    <3>2. \A d \in Events : call'[d] \in {"new", "waiting"} =>
                             d # e /\ call[d] \in {"new", "waiting"}
      BY <2>3 DEF AppendLine, TypeOK
    <3>3. /\ delivered' = delivered
          /\ file' = Append(file, e) \/ file' = file
      BY <2>3, WrittenLine DEF AppendLine
    <3>4. CASE file' = file
      BY <2>1, <2>3, <3>1, <3>2, <3>3, <3>4 DEF AppendLine
    <3>5. CASE file' = Append(file, e)
      <4>1. file' = Append(file, e) /\ delivered' = delivered
        BY <3>3, <3>5
      <4>2. ToSet(file') = ToSet(file) \cup {e}
        BY <4>1, ToSetAppend DEF TypeOK
      <4>3. e \notin ToSet(file)
        BY <2>3 DEF AppendLine, LogInv, Fresh
      <4>4. PICK N \in Nat : N = Len(file)
        BY LenProperties DEF TypeOK
      <4>5. /\ Len(file') = N + 1
            /\ \A i \in 1..N : file'[i] = file[i] /\ file[i] # e
            /\ file'[N + 1] = e
        <5>1. \A i \in 1..N : file[i] \in ToSet(file)
          BY <4>4 DEF ToSet
        <5> QED
          BY <4>1, <4>3, <4>4, <5>1, AppendProperties DEF TypeOK
      <4>6. \A i, j \in 1..N : file[i] = file[j] => i = j
        BY <4>4 DEF LogInv, Fresh
      <4>7. \A i, j \in 1..Len(file') : file'[i] = file'[j] => i = j
        <5> SUFFICES ASSUME NEW i \in 1..N + 1, NEW j \in 1..N + 1,
                            file'[i] = file'[j]
                     PROVE  i = j
          BY <4>5
        <5>1. (i \in 1..N \/ i = N + 1) /\ (j \in 1..N \/ j = N + 1)
          OBVIOUS
        <5> QED
          BY <4>5, <4>6, <5>1
      <4>8. Fresh'
        BY <3>2, <4>1, <4>2, <4>7 DEF LogInv, Fresh
      <4> QED
        BY <3>1, <4>8 DEF LogInv, Snapshot
    <3> QED
      BY <3>3, <3>4, <3>5
  <2>4. ASSUME NEW e \in Events, AppendFragment(e) PROVE LogInv'
    BY <2>1, <2>4 DEF AppendFragment, TypeOK, Nobody, Flush
  <2>5. ASSUME NEW e \in Events, EnqueueReturns(e) PROVE LogInv'
    BY <2>1, <2>5 DEF EnqueueReturns, TypeOK, Nobody, Flush
  <2>6. CASE StartFlush
    <3>1. Fresh'
      BY <2>6 DEF StartFlush, LogInv, Fresh
    <3>2. Len(file) \in Nat /\ Len(<<>>) = 0 /\ 1..0 = {}
      BY LenProperties DEF TypeOK
    <3>3. PICK kept \in [1..0 -> 1..0] : TRUE
      <4>1. [i \in 1..0 |-> 1] \in [1..0 -> 1..0]
        BY <3>2
      <4> QED
        BY <4>1
    <3>4. Split(0, 0, kept)'
      <4>1. PICK n \in 0..Len(file) :
               /\ records' = SubSeq(file, 1, n)
               /\ unread' = SubSeq(file, n + 1, Len(file))
        BY <2>6 DEF StartFlush
      <4>2. remaining' = <<>> /\ file' = file
        BY <2>6 DEF StartFlush
      <4>3. /\ Len(records') = n
            /\ \A i \in 1..n : records'[i] = file[i]
            /\ Len(unread') = Len(file) - n
            /\ \A i \in 1..(Len(file) - n) : unread'[i] = file[n + i]
        BY <4>1, ScanCutsLog
      <4>4. \A i \in Nat : 0 + i = i /\ 0 + n + i = n + i
        OBVIOUS
      <4>5. /\ Len(records') + Len(unread') = Len(file') - 0
            /\ \A i \in 1..Len(records') : records'[i] = file'[0 + i]
            /\ \A i \in 1..Len(unread') : unread'[i] = file'[0 + Len(records') + i]
        BY <3>2, <4>2, <4>3, <4>4
      <4> QED
        BY <3>2, <4>2, <4>5 DEF Split
    <3>5. Snapshot'
      <4>1. 0 \in 0..Len(file') /\ 0 \in 0..0
        BY <2>6, <3>2 DEF StartFlush
      <4> QED
        BY <3>4, <4>1 DEF Snapshot
    <3> QED
      BY <3>1, <3>5 DEF LogInv
  <2>7. CASE PublishOk \/ PublishFails
    <3>1. /\ mu = Flush /\ records # <<>> /\ records' = Tail(records)
          /\ UNCHANGED <<file, unread, call>>
          /\ \/ remaining' = remaining
             \/ remaining' = Append(remaining, Head(records))
      BY <2>7 DEF PublishOk, PublishFails
    <3>2. Head(records) \in Events /\ Head(records) \in ToSet(file)
      BY <3>1, NextRecord
    <3>3. delivered' \subseteq delivered \cup {Head(records)}
      BY <2>7 DEF PublishOk, PublishFails, BusGets
    <3>4. Fresh'
      BY <3>1, <3>2, <3>3 DEF LogInv, Fresh
    <3>5. Snapshot'
      BY <3>1, SnapshotMovesOn
    <3> QED
      BY <3>4, <3>5 DEF LogInv
  <2>8. CASE Rewrite
    <3>1. PICK k \in 0..Len(file) : \E n \in 0..k :
             \E kept \in [1..n -> 1..k] : Carries(k, n, kept)
      BY <2>8, Carried DEF Rewrite
    <3>2. PICK n \in 0..k : \E kept \in [1..n -> 1..k] : Carries(k, n, kept)
      BY <3>1
    <3>3. PICK kept \in [1..n -> 1..k] : Carries(k, n, kept)
      BY <3>2
    <3>4. Len(file) \in Nat /\ n \in Nat /\ k \in Nat /\ 1..k \subseteq 1..Len(file)
      BY LenProperties DEF TypeOK
    <3>5. \A i, j \in 1..n : kept[i] = kept[j] => i = j
      BY <3>3, <3>4, Increasing DEF Carries
    <3>6. /\ \A i, j \in 1..Len(remaining) : remaining[i] = remaining[j] => i = j
          /\ ToSet(remaining) \subseteq ToSet(file)
      <4>1. \A i \in 1..n : kept[i] \in 1..Len(file) /\ remaining[i] = file[kept[i]]
        BY <3>3, <3>4 DEF Carries
      <4>2. /\ Len(remaining) = n
            /\ DOMAIN remaining = 1..n /\ DOMAIN file = 1..Len(file)
        BY <3>3 DEF Carries, TypeOK
      <4>3. \A i, j \in 1..Len(file) : file[i] = file[j] => i = j
        BY DEF LogInv, Fresh
      <4>4. \A i, j \in 1..n : remaining[i] = remaining[j] => i = j
        BY <3>5, <4>1, <4>3
      <4>5. ToSet(remaining) \subseteq ToSet(file)
        BY <4>1, <4>2 DEF ToSet
      <4> QED
        BY <4>2, <4>4, <4>5
    <3>7. /\ mu' # Flush /\ file' = remaining
          /\ UNCHANGED <<call, delivered>>
      BY <2>8 DEF Rewrite, Nobody, Flush
    <3>8. Fresh'
      BY <3>6, <3>7 DEF LogInv, Fresh
    <3> QED
      BY <3>7, <3>8 DEF LogInv, Snapshot
  <2>9. CASE RewriteFails
    BY <2>1, <2>9 DEF RewriteFails, Nobody, Flush
  <2>10. CASE Crash
    BY <2>1, <2>10 DEF Crash, TypeOK, Nobody, Flush
  <2>11. CASE Calm \/ UNCHANGED vars
    <3>1. UNCHANGED <<file, mu, call, flushVars, delivered>>
      BY <2>11 DEF Calm, vars
    <3>2. Fresh'
      BY <3>1 DEF LogInv, Fresh
    <3>3. Snapshot'
      BY <3>1 DEF LogInv, Snapshot, Split
    <3> QED
      BY <3>2, <3>3 DEF LogInv
  <2> QED
    BY <2>2, <2>3, <2>4, <2>5, <2>6, <2>7, <2>8, <2>9, <2>10, <2>11
       DEF Next, EnqueueStep, FlushStep
<1> QED
  BY <1>1, <1>2, TypeCorrect, PTL DEF Spec

-----------------------------------------------------------------------------
\* Until a fault justifies it, nothing the bus has is still to be published.
OnceInv ==
  ~faulted =>
    /\ ~again
    /\ ToSet(records) \cap delivered = {}
    /\ ToSet(remaining) \cap delivered = {}
    /\ mu # Flush => ToSet(file) \cap delivered = {}

\* A second delivery has a cause: a late acknowledgement, a failed rewrite or
\* a crash in the middle of a flush.
THEOREM DuplicatesJustified == Spec => []NoSpuriousDuplicate
<1>1. Init => OnceInv
  BY ToSetEmpty DEF Init, OnceInv
<1>2. TypeOK /\ LogInv /\ OnceInv /\ [Next]_vars => OnceInv'
  <2> SUFFICES ASSUME TypeOK, LogInv, OnceInv, [Next]_vars PROVE OnceInv'
    OBVIOUS
  <2> USE DEF fileVars, flushVars, busVars
  <2>1. ASSUME NEW e \in Events, Enqueue(e) PROVE OnceInv'
    BY <2>1 DEF Enqueue, OnceInv
  <2>2. ASSUME NEW e \in Events, AppendLine(e) PROVE OnceInv'
    <3>1. e \notin delivered
      BY <2>2 DEF AppendLine, LogInv, Fresh
    <3>2. ToSet(file') \subseteq ToSet(file) \cup {e}
      <4>1. file' = Append(file, e) \/ file' = file
        BY <2>2, WrittenLine DEF AppendLine
      <4> QED
        BY <4>1, ToSetAppend DEF TypeOK
    <3>3. /\ mu # Flush
          /\ UNCHANGED <<records, remaining, delivered, again, faulted>>
      BY <2>2 DEF AppendLine, Nobody, Flush
    <3> QED
      BY <3>1, <3>2, <3>3 DEF OnceInv
  <2>3. ASSUME NEW e \in Events, AppendFragment(e) \/ EnqueueReturns(e)
        PROVE  OnceInv'
    <3>1. mu # Flush
      BY <2>3, OutboxAssumption
         DEF AppendFragment, EnqueueReturns, Nobody, Flush
    <3> QED
      BY <2>3, <3>1 DEF AppendFragment, EnqueueReturns, OnceInv
  <2>4. CASE StartFlush
    <3>1. ToSet(file) = ToSet(records') \cup ToSet(unread')
      BY <2>4, ScanCutsLog DEF StartFlush
    <3> QED
      BY <2>4, <3>1, ToSetEmpty DEF StartFlush, OnceInv, Nobody, Flush
  <2>5. CASE PublishOk
    <3>1. /\ mu = Flush /\ records # <<>> /\ records' = Tail(records)
          /\ BusGets(Head(records))
          /\ UNCHANGED <<mu, remaining, faulted>>
      BY <2>5 DEF PublishOk
    <3>2. /\ Head(records) \in Events
          /\ Head(records) \notin ToSet(records')
          /\ Head(records) \notin ToSet(remaining)
      BY <3>1, NextRecord
    <3>3. ToSet(records) = {Head(records)} \cup ToSet(records')
      BY <3>1, ToSetHeadTail DEF TypeOK
    <3>4. delivered' = delivered \cup {Head(records)}
      BY <3>1 DEF BusGets
    <3>5. ~faulted => ~again'
      BY <3>1, <3>3 DEF BusGets, OnceInv
    <3> QED
      BY <3>1, <3>2, <3>3, <3>4, <3>5 DEF OnceInv
  <2>6. CASE PublishFails
    <3>1. /\ mu = Flush /\ mu' = mu /\ records # <<>>
          /\ records' = Tail(records)
          /\ remaining' = Append(remaining, Head(records))
          /\ UNCHANGED busVars \/ faulted' = TRUE
      BY <2>6 DEF PublishFails
    <3>2. /\ ToSet(records) = {Head(records)} \cup ToSet(records')
          /\ Head(records) \in Events
      BY <3>1, ToSetHeadTail DEF TypeOK
    <3>3. ToSet(remaining') = ToSet(remaining) \cup {Head(records)}
      BY <3>1, <3>2, ToSetAppend DEF TypeOK
    <3>4. CASE faulted' = TRUE
      BY <3>4 DEF OnceInv
    <3>5. CASE UNCHANGED busVars
      BY <3>1, <3>2, <3>3, <3>5 DEF OnceInv
    <3> QED
      BY <3>1, <3>4, <3>5
  <2>7. CASE Rewrite
    BY <2>7, ToSetEmpty DEF Rewrite, OnceInv
  <2>8. CASE RewriteFails
    BY <2>8 DEF RewriteFails, OnceInv
  <2>9. CASE Crash
    BY <2>9, ToSetEmpty DEF Crash, OnceInv
  <2>10. CASE Calm \/ UNCHANGED vars
    BY <2>10 DEF Calm, vars, OnceInv
  <2> QED
    BY <2>1, <2>2, <2>3, <2>4, <2>5, <2>6, <2>7, <2>8, <2>9, <2>10
       DEF Next, EnqueueStep, FlushStep
<1>3. OnceInv => NoSpuriousDuplicate
  BY DEF OnceInv, NoSpuriousDuplicate
<1> QED
  BY <1>1, <1>2, <1>3, TypeCorrect, LogStructured, PTL DEF Spec

-----------------------------------------------------------------------------
\* The outbox implements the durable queue: the write of a line accepts its
\* event, or spoils it, a return of nil acknowledges it, a publish delivers it,
\* the rename forgets what was delivered and cuts off what was not read, and
\* every other step of the outbox, faults included, is none of the queue's.
THEOREM OutboxImplementsQueue == Spec => ImplementsQueue
<1> DEFINE Acked == {e \in Events : call[e] = "acked"}
<1>1. Init => Queue!DQInit
  BY ToSetEmpty DEF Init, Queue!DQInit
<1>2. /\ TypeOK /\ KeepInv /\ LogInv /\ [Next]_vars
      => [Queue!DQNext]_(Queue!dqVars)
  <2> SUFFICES ASSUME TypeOK, KeepInv, LogInv, [Next]_vars
               PROVE  Queue!DQNext \/ UNCHANGED <<file, delivered, Acked, lost>>
    BY DEF Queue!dqVars
  <2> USE DEF fileVars, flushVars, busVars
  <2>1. ASSUME NEW e \in Events, AppendLine(e) PROVE Queue!DQNext
    <3>1. Acked' = Acked /\ delivered' = delivered
      BY <2>1 DEF AppendLine, TypeOK
    <3>2. CASE file' = Append(file, e) /\ lost' = lost
      <4>1. e \notin ToSet(file)
        BY <2>1 DEF AppendLine, LogInv, Fresh
      <4>2. Queue!Accept(e)
        BY <3>1, <3>2, <4>1 DEF Queue!Accept, ToSet, Queue!ToSet
      <4> QED
        BY <4>2 DEF Queue!DQNext
    <3>3. CASE file' = file /\ lost' = lost \cup {e}
      <4>1. Queue!Spoil(e)
        BY <3>1, <3>3 DEF Queue!Spoil
      <4> QED
        BY <4>1 DEF Queue!DQNext
    <3> QED
      BY <2>1, <3>2, <3>3, WrittenLine DEF AppendLine
  <2>2. ASSUME NEW e \in Events, EnqueueReturns(e) PROVE Queue!DQNext
    <3>1. call[e] = "writing"
      BY <2>2 DEF EnqueueReturns, TypeOK
    <3>2. e \in ToSet(file) \cup delivered \cup lost
      BY <3>1 DEF KeepInv, WrittenIsKept
    <3>3. Acked' = Acked \cup {e} /\ UNCHANGED <<file, delivered, lost>>
      BY <2>2 DEF EnqueueReturns, TypeOK
    <3>4. Queue!Acknowledge(e)
      BY <3>2, <3>3 DEF Queue!Acknowledge, ToSet, Queue!ToSet
    <3> QED
      BY <3>4 DEF Queue!DQNext
  <2>3. CASE PublishOk \/ PublishFails
    <3>1. /\ mu = Flush /\ records # <<>> /\ UNCHANGED <<file, call, lost>>
          /\ BusGets(Head(records)) \/ UNCHANGED delivered
      BY <2>3 DEF PublishOk, PublishFails
    <3>2. Head(records) \in Events /\ Head(records) \in ToSet(file)
      BY <3>1, NextRecord
    <3>3. CASE BusGets(Head(records))
      <4>1. Queue!Deliver(Head(records))
        BY <3>1, <3>2, <3>3 DEF BusGets, Queue!Deliver, ToSet, Queue!ToSet
      <4> QED
        BY <3>2, <4>1 DEF Queue!DQNext
    <3> QED
      BY <3>1, <3>3
  <2>4. CASE Rewrite
    <3>1. PICK k \in 0..Len(file) : \E n \in 0..k :
             \E kept \in [1..n -> 1..k] : Carries(k, n, kept)
      BY <2>4, Carried DEF Rewrite
    <3>2. PICK n \in 0..k : \E kept \in [1..n -> 1..k] : Carries(k, n, kept)
      BY <3>1
    <3>3. PICK kept \in [1..n -> 1..k] : Carries(k, n, kept)
      BY <3>2
    <3>4. kept \in Queue!Selections(k)
      <4>1. \A i, j \in 1..n : i < j => kept[i] < kept[j]
        BY <3>3 DEF Carries
      <4>2. kept \in {f \in [1..n -> 1..k] :
                       \A i, j \in 1..n : i < j => f[i] < f[j]}
        BY <4>1
      <4> QED
        BY <4>2, Zenon DEF Queue!Selections
    <3>5. file' = [i \in DOMAIN kept |-> file[kept[i]]]
      <4>1. file' = remaining /\ DOMAIN kept = 1..Len(remaining)
        BY <2>4, <3>3 DEF Rewrite, Carries
      <4>2. remaining = [i \in 1..Len(remaining) |-> remaining[i]]
        BY SeqDef, LenProperties DEF TypeOK
      <4> QED
        BY <3>3, <4>1, <4>2 DEF Carries
    <3>6. lost' = lost \cup ToSet(SubSeq(file, k + 1, Len(file)))
      BY <2>4, <3>3 DEF Rewrite, Carries
    <3>7. ToSet(SubSeq(file, 1, k)) \ ToSet(file') \subseteq delivered
      <4>1. ToSet(file) \subseteq ToSet(file') \cup delivered \cup ToSet(unread)
        BY <2>4, ToSetEmpty DEF Rewrite, KeepInv, FlushCoversFile
      <4>2. ToSet(SubSeq(file, 1, k)) \cap ToSet(unread) = {}
        BY <3>3, CutApart DEF Carries, LogInv, Fresh, TypeOK
      <4>3. ToSet(SubSeq(file, 1, k)) \subseteq ToSet(file)
        BY ToSetPrefix DEF TypeOK
      <4> QED
        BY <4>1, <4>2, <4>3
    <3>8. Queue!Forget(k, kept)
      BY <2>4, <3>5, <3>6, <3>7 DEF Rewrite, Queue!Forget, ToSet, Queue!ToSet
    <3> QED
      BY <3>4, <3>8 DEF Queue!DQNext
  <2>5. ASSUME \/ \E e \in Events : Enqueue(e) \/ AppendFragment(e)
               \/ StartFlush \/ RewriteFails \/ Crash \/ Calm
               \/ UNCHANGED vars
        PROVE  UNCHANGED <<file, delivered, Acked, lost>>
    <3>1. UNCHANGED <<file, delivered, lost>>
      BY <2>5 DEF Enqueue, AppendFragment, StartFlush, RewriteFails, Crash,
         Calm, vars
    <3>2. \A e \in Events : call'[e] = "acked" <=> call[e] = "acked"
      BY <2>5 DEF Enqueue, AppendFragment, StartFlush, RewriteFails, Crash,
         Calm, vars, TypeOK
    <3> QED
      BY <3>1, <3>2
  <2> QED
    BY <2>1, <2>2, <2>3, <2>4, <2>5 DEF Next, EnqueueStep, FlushStep
<1> QED
  BY <1>1, <1>2, TypeCorrect, KeepsWritten, LogStructured, PTL
     DEF Spec, ImplementsQueue, Queue!DQSpec
=============================================================================
