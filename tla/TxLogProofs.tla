---------------------------- MODULE TxLogProofs ----------------------------
(***************************************************************************)
(* Proofs about TxLog, and at the end about what Chat presents of its log, *)
(* for every set of contents, every lifetime, cap and bound.               *)
(*                                                                         *)
(* The difficulty is in the record that merge_tx seals of a transaction    *)
(* the log holds already: it takes the seq that the next new transaction   *)
(* will get, so two records of one seq can be in the host's hands, and a   *)
(* crash can leave only the wrong one.  The invariant says which record of *)
(* a transaction counts, and why fold may still rely on persist_log.       *)
(***************************************************************************)
EXTENDS Chat, RetainProofs, SequenceTheorems, TLAPS

\* The records in the host's hands, in the order in which they were returned.
All == records \o unsaved

\* Record j of rs is the one by which apply finds its seq for its transaction:
\* the state is past the seq, and no later record gives it to another one.
Owns(rs, j, next) ==
    /\ rs[j].seq < next
    /\ \A k \in 1 .. Len(rs) : k > j /\ rs[k].seq = rs[j].seq => rs[k].tx = rs[j].tx

\* t is in the snapshot, or one of the first n records of rs owns its seq for it.
Backed(t, rs, n, next, snap) ==
    \/ t \in ids(snap.log)
    \/ \E j \in 1 .. n : rs[j].tx = t /\ Owns(rs, j, next)

\* The clocks of the states do not run ahead.
ClockInv == st.ticked <= now /\ snapshot.ticked <= now

\* Seqs: a state has used none from its next_seq on, a record was sealed below
\* the limit and at most at next_seq, and the snapshot is behind the memory.
SeqInv ==
    /\ \A q \in Seqs : st.persist_log[q] # NoTx => q < st.next_seq
    /\ \A q \in Seqs : snapshot.persist_log[q] # NoTx => q < snapshot.next_seq
    /\ snapshot.next_seq <= st.next_seq
    /\ \A i \in 1 .. Len(All) : All[i].seq < MaxSeq /\ All[i].seq <= st.next_seq

\* Files and records agree with the memory about the time of a transaction.
TimeInv ==
    /\ \A i \in 1 .. Len(All) : st.log[All[i].tx] = All[i].wall
    /\ \A t \in ids(snapshot.log) : st.log[t] = snapshot.log[t]

\* What fold may drop: all that is neither acknowledged nor in persist_log has
\* expired, and the snapshot holds acknowledged transactions only.
FoldInv ==
    /\ \A t \in ids(st.log) :
        expired(t, now) \/ t \in watermark_of(st) \/ \E q \in Seqs : st.persist_log[q] = t
    /\ snapshot.last_ack # {} => ids(snapshot.log) \subseteq snapshot.last_ack

\* What the files give back: every transaction in memory, and every one of a
\* record from that record's position on, and every one that Truncate may drop.
FileInv ==
    /\ \A t \in ids(st.log) :
        expired(t, now) \/ Backed(t, All, Len(All), st.next_seq, snapshot)
    /\ \A i \in 1 .. Len(All) :
        expired(All[i].tx, now) \/ Backed(All[i].tx, All, i, st.next_seq, snapshot)
    /\ \A i \in 1 .. Len(All) :
        All[i].seq < snapshot.next_seq => expired(All[i].tx, now) \/ All[i].tx \in ids(snapshot.log)

\* The seqs of stored new transactions: the state, and a state that is loaded
\* from the files, is past them, and the unsaved records do not contradict.
FreshInv ==
    /\ \A f \in fresh :
        /\ f[1] < st.next_seq
        /\ f[1] < snapshot.next_seq \/ \E i \in 1 .. Len(records) : records[i].seq = f[1]
    /\ \A f \in fresh, i \in 1 .. Len(unsaved) :
        unsaved[i].seq = f[1] => st.persist_log[f[1]] = f[2]

\* A transaction that reached a file is in memory, or was when the engine ended,
\* and in a file until it has expired.
KeptInv == \A t \in stored : expired(t, now) \/ (t \in ids(st.log) /\ InFiles(t))

IInv ==
    /\ TypeOK
    /\ ClockInv
    /\ SeqInv
    /\ TimeInv
    /\ FoldInv
    /\ FileInv
    /\ FreshInv
    /\ KeptInv
    /\ SeqFresh

-----------------------------------------------------------------------------
(* Payloads and states *)

\* NoTx stands for no transaction.
LEMMA NoTxIsNone == NoTx \notin Payloads
BY TxLogAssumption DEF NoTx, Payloads

\* A lifetime is a number of seconds or Never.
LEMMA LivesType == Lives \subseteq {Never} \cup 0 .. Life
BY TxLogAssumption DEF Lives, Never

\* A payload that is sent now expires inside the range of Payloads.
LEMMA PayloadType ==
    ASSUME NEW n \in Names, NEW life \in Lives, NEW at \in Clock
    PROVE  payload(n, life, at) \in Payloads
<1>1. life = Never \/ life \in 0 .. Life
  BY LivesType
<1>2. MaxClock \in Nat /\ Life \in Nat
  BY TxLogAssumption
<1>3. CASE n \in Texts /\ life # Never
  <2>1. at + life \in 0 .. MaxClock + Life
    BY <1>1, <1>2, <1>3 DEF Clock
  <2> QED
    BY <1>3, <2>1 DEF payload, Payloads
<1>4. CASE ~(n \in Texts /\ life # Never)
  BY <1>4 DEF payload, Payloads, Names
<1> QED
  BY <1>3, <1>4

\* The preferences give a lifetime.
LEMMA DisappearType ==
    ASSUME NEW log
    PROVE  latest_disappear(log) \in Lives
<1>1. CASE latest(log, Prefs) = {}
  BY <1>1 DEF latest_disappear, Lives
<1>2. CASE latest(log, Prefs) # {}
  <2> DEFINE t == CHOOSE t \in latest(log, Prefs) : TRUE
  <2>1. t \in latest(log, Prefs)
    BY <1>2
  <2>2. t.name \in Prefs
    BY <2>1 DEF latest
  <2> QED
    BY <1>2, <2>2 DEF latest_disappear, Lives
<1> QED
  BY <1>1, <1>2

\* The fields of a state.
LEMMA StateFields ==
    ASSUME NEW s \in States
    PROVE  /\ s.row \in BOOLEAN /\ s.log \in Logs /\ s.persist_log \in PersistLogs
           /\ s.next_seq \in Seqs /\ s.last_ack \in SUBSET Payloads /\ s.ticked \in Clock
           /\ s.senders \in [Payloads -> Senders]
           /\ s.next_seq \in Nat /\ s.ticked \in Nat
BY TxLogAssumption DEF States, Seqs, Clock

\* insert of a new transaction.
LEMMA InsertFields ==
    ASSUME NEW s \in States, NEW t \in Payloads, NEW wall \in Clock, s.next_seq < MaxSeq
    PROVE  /\ insert(s, t, wall) \in States
           /\ insert(s, t, wall).log = [s.log EXCEPT ![t] = wall]
           /\ insert(s, t, wall).persist_log = [s.persist_log EXCEPT ![s.next_seq] = t]
           /\ insert(s, t, wall).next_seq = s.next_seq + 1
           /\ insert(s, t, wall).last_ack = s.last_ack
           /\ insert(s, t, wall).ticked = s.ticked
<1> DEFINE L == [s.log EXCEPT ![t] = wall]
           P == [s.persist_log EXCEPT ![s.next_seq] = t]
           n == s.next_seq + 1
<1>1. L \in Logs /\ P \in PersistLogs
  BY StateFields DEF Logs, PersistLogs
<1>2. n \in Seqs
  BY StateFields, TxLogAssumption DEF Seqs
<1>3. insert(s, t, wall) = [s EXCEPT !.log = L, !.persist_log = P, !.next_seq = n]
  BY DEF insert, States
<1> HIDE DEF L, P, n
<1>4. [s EXCEPT !.log = L, !.persist_log = P, !.next_seq = n] \in States
  BY <1>1, <1>2 DEF States
<1>5. /\ [s EXCEPT !.log = L, !.persist_log = P, !.next_seq = n].log = L
      /\ [s EXCEPT !.log = L, !.persist_log = P, !.next_seq = n].persist_log = P
      /\ [s EXCEPT !.log = L, !.persist_log = P, !.next_seq = n].next_seq = n
      /\ [s EXCEPT !.log = L, !.persist_log = P, !.next_seq = n].last_ack = s.last_ack
      /\ [s EXCEPT !.log = L, !.persist_log = P, !.next_seq = n].ticked = s.ticked
  BY DEF States
<1> QED
  BY <1>3, <1>4, <1>5 DEF L, P, n

\* remember_sender touches the senders only.
LEMMA SenderFields ==
    ASSUME NEW s \in States, NEW t \in Payloads, NEW who \in Senders
    PROVE  /\ remember_sender(s, t, who) \in States
           /\ remember_sender(s, t, who).log = s.log
           /\ remember_sender(s, t, who).persist_log = s.persist_log
           /\ remember_sender(s, t, who).next_seq = s.next_seq
           /\ remember_sender(s, t, who).last_ack = s.last_ack
           /\ remember_sender(s, t, who).ticked = s.ticked
BY DEF remember_sender, States

\* store_durable_last_ack touches the acknowledgement only.
LEMMA AckFields ==
    ASSUME NEW s \in States
    PROVE  /\ store_durable_last_ack(s) \in States
           /\ store_durable_last_ack(s).log = s.log
           /\ store_durable_last_ack(s).persist_log = s.persist_log
           /\ store_durable_last_ack(s).next_seq = s.next_seq
           /\ store_durable_last_ack(s).last_ack = ids(s.log)
           /\ store_durable_last_ack(s).ticked = s.ticked
<1>1. ids(s.log) \in SUBSET Payloads
  BY DEF ids
<1> QED
  BY <1>1 DEF store_durable_last_ack, States

\* An expired transaction stays expired.
LEMMA ExpiredLater ==
    ASSUME NEW t \in Payloads, NEW a \in Nat, NEW b \in Nat, a <= b, expired(t, a)
    PROVE  expired(t, b)
<1>1. t.expire_at \in Int
  BY TxLogAssumption DEF Payloads, Never
<1> QED
  BY <1>1 DEF expired

-----------------------------------------------------------------------------
(* Records in the host's hands *)

\* The types that the steps below use.
LEMMA Types ==
    ASSUME TypeOK
    PROVE  /\ All \in Seq(Records) /\ records \in Seq(Records) /\ unsaved \in Seq(Records)
           /\ st \in States /\ snapshot \in States /\ now \in Nat
           /\ \A i \in 1 .. Len(All) : All[i] \in Records
           /\ Len(All) = Len(records) + Len(unsaved)
           /\ \A i \in 1 .. Len(records) : All[i] = records[i]
           /\ \A i \in 1 .. Len(unsaved) : All[Len(records) + i] = unsaved[i]
BY TxLogAssumption DEF TypeOK, All, Clock

\* The fields of a record.
LEMMA RecordFields ==
    ASSUME NEW r \in Records
    PROVE  r.seq \in Seqs /\ r.seq \in Nat /\ r.tx \in Payloads /\ r.wall \in Clock
BY TxLogAssumption DEF Records, Seqs

\* A record that is handed to the host comes last.
LEMMA AllAppend ==
    ASSUME TypeOK, NEW r \in Records, records' = records, unsaved' = Append(unsaved, r)
    PROVE  /\ All' \in Seq(Records)
           /\ Len(All') = Len(All) + 1
           /\ \A i \in 1 .. Len(All) : All'[i] = All[i]
           /\ All'[Len(All) + 1] = r
BY DEF TypeOK, All

\* A record that is sealed from next on takes nothing from those that own their
\* seqs.
LEMMA OwnsAppend ==
    ASSUME NEW a \in Seq(Records), NEW b \in Seq(Records), Len(b) = Len(a) + 1,
           \A i \in 1 .. Len(a) : b[i] = a[i],
           NEW next \in Nat, NEW more \in Nat, next <= more, b[Len(a) + 1].seq >= next
    PROVE  \A j \in 1 .. Len(a) : Owns(a, j, next) => Owns(b, j, more)
<1> SUFFICES ASSUME NEW j \in 1 .. Len(a), Owns(a, j, next) PROVE Owns(b, j, more)
  OBVIOUS
<1>0. Len(a) \in Nat /\ Len(b) \in Nat
  OBVIOUS
<1>1. a[j] \in Records /\ b[j] = a[j] /\ a[j].seq < next
  BY DEF Owns
<1>2. a[j].seq \in Nat /\ b[j].seq < more
  BY <1>1, RecordFields
<1>3. ASSUME NEW k \in 1 .. Len(b), k > j, b[k].seq = b[j].seq PROVE b[k].tx = b[j].tx
  <2>1. k # Len(a) + 1
    BY <1>1, <1>2, <1>3
  <2>2. k \in 1 .. Len(a)
    BY <1>0, <2>1
  <2> QED
    BY <1>1, <1>3, <2>2 DEF Owns
<1> QED
  BY <1>2, <1>3 DEF Owns

\* So what is backed stays backed.
LEMMA BackedAppend ==
    ASSUME NEW a \in Seq(Records), NEW b \in Seq(Records), Len(b) = Len(a) + 1,
           \A i \in 1 .. Len(a) : b[i] = a[i],
           NEW next \in Nat, NEW more \in Nat, next <= more, b[Len(a) + 1].seq >= next,
           NEW t, NEW snap, NEW n \in 0 .. Len(a), NEW m \in n .. Len(b),
           Backed(t, a, n, next, snap)
    PROVE  Backed(t, b, m, more, snap)
<1>1. CASE t \in ids(snap.log)
  BY <1>1 DEF Backed
<1>2. CASE t \notin ids(snap.log)
  <2>1. PICK j \in 1 .. n : a[j].tx = t /\ Owns(a, j, next)
    BY <1>2 DEF Backed
  <2>2. j \in 1 .. Len(a) /\ j \in 1 .. m
    OBVIOUS
  <2>3. Owns(b, j, more)
    BY <2>1, <2>2, OwnsAppend
  <2> QED
    BY <2>1, <2>2, <2>3 DEF Backed
<1> QED
  BY <1>1, <1>2

-----------------------------------------------------------------------------
(* The kinds of steps *)

\* A new transaction enters the log and gets the next seq.
LEMMA NewTx ==
    ASSUME IInv, NEW t \in Payloads, NEW wall \in Clock, t \notin ids(st.log),
           st.next_seq < MaxSeq, st' \in States,
           st'.log = [st.log EXCEPT ![t] = wall],
           st'.persist_log = [st.persist_log EXCEPT ![st.next_seq] = t],
           st'.next_seq = st.next_seq + 1,
           st'.last_ack = st.last_ack \/ st'.last_ack = ids(st'.log),
           st'.ticked = st.ticked,
           unsaved' = Append(unsaved, [seq |-> st.next_seq, tx |-> t, wall |-> wall]),
           sent' \subseteq Senders \X Payloads,
           UNCHANGED <<engine, now, snapshot, records, crashes, stored, fresh>>
    PROVE  IInv'
<1> DEFINE r == [seq |-> st.next_seq, tx |-> t, wall |-> wall]
           n == Len(All)
<1>1. TypeOK /\ ClockInv /\ SeqInv /\ TimeInv /\ FoldInv /\ FileInv /\ FreshInv /\ KeptInv /\ SeqFresh
  BY DEF IInv
<1>2. /\ All \in Seq(Records) /\ n \in Nat /\ unsaved \in Seq(Records)
      /\ \A i \in 1 .. n : All[i] \in Records
      /\ st \in States /\ snapshot \in States
  BY <1>1, Types
<1>3. /\ st.next_seq \in Nat /\ st.next_seq \in Seqs /\ st.log \in Logs
      /\ st.persist_log \in PersistLogs /\ snapshot.next_seq \in Nat
      /\ st.next_seq + 1 \in Nat
  BY <1>2, StateFields
<1>4. r \in Records /\ r.seq = st.next_seq /\ r.tx = t /\ r.wall = wall
  BY <1>3 DEF Records
<1>5. /\ All' \in Seq(Records) /\ Len(All') = n + 1
      /\ \A i \in 1 .. n : All'[i] = All[i]
      /\ All'[n + 1] = r
  BY <1>1, <1>4, AllAppend
<1>6. \A i \in 1 .. Len(All') : i \in 1 .. n \/ i = n + 1
  BY <1>2, <1>5
<1>7. /\ st'.log[t] = wall
      /\ \A u \in Payloads : u # t => st'.log[u] = st.log[u]
      /\ ids(st'.log) = ids(st.log) \cup {t}
  <2>1. wall # Absent
    BY TxLogAssumption DEF Clock, Absent
  <2> QED
    BY <1>3, <2>1 DEF ids, Logs
<1>8. \A q \in Seqs : st'.persist_log[q] = IF q = st.next_seq THEN t ELSE st.persist_log[q]
  BY <1>3 DEF PersistLogs
<1>9. TypeOK'
  BY <1>1, <1>4 DEF TypeOK
<1>10. ClockInv'
  BY <1>1 DEF ClockInv
<1>11. SeqInv'
  <2>1. \A i \in 1 .. Len(All') : All'[i].seq < MaxSeq /\ All'[i].seq <= st'.next_seq
    <3>1. \A i \in 1 .. n : All[i].seq \in Nat
      BY <1>2, RecordFields
    <3>2. \A i \in 1 .. n : All[i].seq < MaxSeq /\ All[i].seq <= st.next_seq
      BY <1>1 DEF SeqInv
    <3>3. \A i \in 1 .. n : All[i].seq < MaxSeq /\ All[i].seq <= st.next_seq + 1
      BY <1>3, <3>1, <3>2
    <3>4. r.seq < MaxSeq /\ r.seq <= st.next_seq + 1
      BY <1>3, <1>4
    <3> HIDE DEF r, n
    <3>5. ASSUME NEW i \in 1 .. Len(All')
          PROVE  All'[i].seq < MaxSeq /\ All'[i].seq <= st'.next_seq
      <4>1. CASE i \in 1 .. n
        BY <1>5, <3>3, <4>1
      <4>2. CASE i = n + 1
        BY <1>5, <3>4, <4>2
      <4> QED BY <1>6, <4>1, <4>2
    <3> QED BY <3>5
  <2>2. \A q \in Seqs : st'.persist_log[q] # NoTx => q < st'.next_seq
    <3>1. \A q \in Seqs : q \in Nat
      BY DEF Seqs
    <3> QED
      BY <1>1, <1>3, <1>8, <3>1 DEF SeqInv
  <2>3. snapshot.next_seq <= st'.next_seq
    BY <1>1, <1>3 DEF SeqInv
  <2> QED
    BY <1>1, <2>1, <2>2, <2>3 DEF SeqInv
<1>12. TimeInv'
  <2>1. ASSUME NEW i \in 1 .. n PROVE st'.log[All[i].tx] = All[i].wall
    <3>1. All[i].tx \in Payloads /\ All[i].wall \in Clock /\ st.log[All[i].tx] = All[i].wall
      BY <1>1, <1>2, RecordFields DEF TimeInv
    <3>2. All[i].tx # t
      BY <3>1, TxLogAssumption DEF ids, Clock, Absent
    <3> QED
      BY <1>7, <3>1, <3>2
  <2>2. ASSUME NEW u \in ids(snapshot.log) PROVE st'.log[u] = snapshot.log[u]
    <3>1. u \in Payloads /\ snapshot.log[u] # Absent /\ st.log[u] = snapshot.log[u]
      BY <1>1 DEF TimeInv, ids
    <3>2. u # t
      BY <3>1 DEF ids
    <3> QED
      BY <1>7, <3>1, <3>2
  <2>3. ASSUME NEW i \in 1 .. Len(All') PROVE st'.log[All'[i].tx] = All'[i].wall
    <3> HIDE DEF r, n
    <3>1. CASE i \in 1 .. n
      BY <1>5, <2>1, <3>1
    <3>2. CASE i = n + 1
      BY <1>4, <1>5, <1>7, <3>2
    <3> QED BY <1>6, <3>1, <3>2
  <2>4. \A u \in ids(snapshot'.log) : st'.log[u] = snapshot'.log[u]
    BY <2>2
  <2> QED
    BY <2>3, <2>4 DEF TimeInv
<1>13. FoldInv'
  <2>1. ASSUME NEW u \in ids(st'.log)
        PROVE  expired(u, now) \/ u \in watermark_of(st') \/ \E q \in Seqs : st'.persist_log[q] = u
    <3>1. CASE u = t
      BY <1>3, <1>8, <3>1
    <3>2. CASE u # t /\ u \in watermark_of(st)
      BY <1>7, <3>2 DEF watermark_of
    <3>3. ASSUME NEW q \in Seqs, u # t, st.persist_log[q] = u
          PROVE  \E p \in Seqs : st'.persist_log[p] = u
      <4>1. u \in Payloads
        BY DEF ids
      <4>2. u # NoTx
        BY <4>1, NoTxIsNone
      <4>3. q < st.next_seq
        BY <1>1, <3>3, <4>2 DEF SeqInv
      <4>4. q # st.next_seq
        BY <1>3, <4>3
      <4> QED
        BY <1>8, <3>3, <4>4
    <3>4. u # t => u \in ids(st.log)
      BY <1>7
    <3> QED
      BY <1>1, <3>1, <3>2, <3>3, <3>4 DEF FoldInv
  <2> QED
    BY <1>1, <2>1 DEF FoldInv
<1>14. FileInv'
  <2>1. Owns(All', n + 1, st'.next_seq)
    BY <1>2, <1>3, <1>4, <1>5, <1>6 DEF Owns
  <2>2. Backed(t, All', n + 1, st'.next_seq, snapshot)
    <3>1. n + 1 \in 1 .. n + 1 /\ All'[n + 1].tx = t
      BY <1>2, <1>4, <1>5
    <3> QED
      BY <2>1, <3>1 DEF Backed
  <2>3. ASSUME NEW u, NEW i \in 0 .. n, NEW m \in i .. n + 1, Backed(u, All, i, st.next_seq, snapshot)
        PROVE  Backed(u, All', m, st'.next_seq, snapshot)
    <3>1. st.next_seq <= st'.next_seq /\ All'[n + 1].seq >= st.next_seq
      BY <1>3, <1>4, <1>5
    <3>2. st'.next_seq \in Nat /\ m \in i .. Len(All')
      BY <1>3, <1>5
    <3> QED
      BY <1>2, <1>3, <1>5, <2>3, <3>1, <3>2, BackedAppend
  <2>4. \A u \in ids(st'.log) : expired(u, now) \/ Backed(u, All', Len(All'), st'.next_seq, snapshot)
    <3>1. n \in 0 .. n /\ n + 1 \in n .. n + 1
      BY <1>2
    <3> QED
      BY <1>1, <1>5, <1>7, <2>2, <2>3, <3>1 DEF FileInv
  <2>5. \A i \in 1 .. Len(All') : expired(All'[i].tx, now) \/ Backed(All'[i].tx, All', i, st'.next_seq, snapshot)
    <3>1. \A i \in 1 .. n : i \in 0 .. n /\ i \in i .. n + 1
      BY <1>2
    <3>2. \A i \in 1 .. n : expired(All[i].tx, now) \/ Backed(All[i].tx, All, i, st.next_seq, snapshot)
      BY <1>1 DEF FileInv
    <3> HIDE DEF r, n
    <3>3. ASSUME NEW i \in 1 .. Len(All')
          PROVE  expired(All'[i].tx, now) \/ Backed(All'[i].tx, All', i, st'.next_seq, snapshot)
      <4>1. CASE i \in 1 .. n
        BY <1>5, <2>3, <3>1, <3>2, <4>1
      <4>2. CASE i = n + 1
        BY <1>4, <1>5, <2>2, <4>2
      <4> QED BY <1>6, <4>1, <4>2
    <3> QED BY <3>3
  <2>6. \A i \in 1 .. Len(All') : All'[i].seq < snapshot.next_seq =>
            expired(All'[i].tx, now) \/ All'[i].tx \in ids(snapshot.log)
    <3>1. ~(r.seq < snapshot.next_seq)
      BY <1>1, <1>3, <1>4 DEF SeqInv
    <3> QED
      BY <1>1, <1>5, <1>6, <3>1 DEF FileInv
  <2> QED
    BY <2>4, <2>5, <2>6 DEF FileInv
<1>15. FreshInv'
  <2>1. \A f \in fresh : f[1] \in Nat /\ f[1] \in Seqs
    BY <1>1, TxLogAssumption DEF TypeOK, Seqs
  <2>2. \A f \in fresh : f[1] < st'.next_seq /\ f[1] # st.next_seq
    BY <1>1, <1>3, <2>1 DEF FreshInv
  <2>3. ASSUME NEW f \in fresh, NEW i \in 1 .. Len(unsaved'), unsaved'[i].seq = f[1]
        PROVE  st'.persist_log[f[1]] = f[2]
    <3>1. Len(unsaved') = Len(unsaved) + 1 /\ unsaved'[Len(unsaved) + 1] = r
      BY <1>2
    <3>2. i # Len(unsaved) + 1
      BY <1>4, <2>2, <2>3, <3>1
    <3>3. i \in 1 .. Len(unsaved) /\ unsaved'[i] = unsaved[i]
      BY <1>2, <3>1, <3>2
    <3> QED
      BY <1>1, <1>8, <2>1, <2>2, <2>3, <3>3 DEF FreshInv
  <2> QED
    BY <1>1, <2>2, <2>3 DEF FreshInv
<1>16. KeptInv'
  BY <1>1, <1>7 DEF KeptInv, InFiles
<1>17. SeqFresh'
  BY <1>1 DEF SeqFresh
<1> QED
  BY <1>9, <1>10, <1>11, <1>12, <1>13, <1>14, <1>15, <1>16, <1>17 DEF IInv

\* A transaction that the log holds already is sealed again under the next seq.
LEMMA OldTx ==
    ASSUME IInv, NEW t \in ids(st.log), st.next_seq < MaxSeq, st' \in States,
           st'.log = st.log, st'.persist_log = st.persist_log, st'.next_seq = st.next_seq,
           st'.last_ack = st.last_ack, st'.ticked = st.ticked,
           unsaved' = Append(unsaved, [seq |-> st.next_seq, tx |-> t, wall |-> st.log[t]]),
           sent' \subseteq Senders \X Payloads,
           UNCHANGED <<engine, now, snapshot, records, crashes, stored, fresh>>
    PROVE  IInv'
<1> DEFINE r == [seq |-> st.next_seq, tx |-> t, wall |-> st.log[t]]
           n == Len(All)
<1>1. TypeOK /\ ClockInv /\ SeqInv /\ TimeInv /\ FoldInv /\ FileInv /\ FreshInv /\ KeptInv /\ SeqFresh
  BY DEF IInv
<1>2. /\ All \in Seq(Records) /\ n \in Nat /\ unsaved \in Seq(Records)
      /\ \A i \in 1 .. n : All[i] \in Records
      /\ st \in States /\ snapshot \in States
  BY <1>1, Types
<1>3. /\ st.next_seq \in Nat /\ st.next_seq \in Seqs /\ st.log \in Logs
      /\ snapshot.next_seq \in Nat
  BY <1>2, StateFields
<1>4. r \in Records /\ r.seq = st.next_seq /\ r.tx = t /\ r.wall = st.log[t]
  <2>1. t \in Payloads /\ st.log[t] \in Clock
    BY <1>3 DEF ids, Logs
  <2> QED
    BY <1>3, <2>1 DEF Records
<1>5. /\ All' \in Seq(Records) /\ Len(All') = n + 1
      /\ \A i \in 1 .. n : All'[i] = All[i]
      /\ All'[n + 1] = r
  BY <1>1, <1>4, AllAppend
<1>6. \A i \in 1 .. Len(All') : i \in 1 .. n \/ i = n + 1
  BY <1>2, <1>5
<1>9. TypeOK'
  BY <1>1, <1>4 DEF TypeOK
<1>10. ClockInv'
  BY <1>1 DEF ClockInv
<1>11. SeqInv'
  <2>1. \A i \in 1 .. Len(All') : All'[i].seq < MaxSeq /\ All'[i].seq <= st'.next_seq
    BY <1>1, <1>3, <1>4, <1>5, <1>6 DEF SeqInv
  <2> QED
    BY <1>1, <2>1 DEF SeqInv
<1>12. TimeInv'
  <2>1. ASSUME NEW i \in 1 .. Len(All') PROVE st'.log[All'[i].tx] = All'[i].wall
    <3>1. \A j \in 1 .. n : st.log[All[j].tx] = All[j].wall
      BY <1>1 DEF TimeInv
    <3> HIDE DEF r, n
    <3>2. CASE i \in 1 .. n
      BY <1>5, <3>1, <3>2
    <3>3. CASE i = n + 1
      BY <1>4, <1>5, <3>3
    <3> QED BY <1>6, <3>2, <3>3
  <2>2. \A u \in ids(snapshot'.log) : st'.log[u] = snapshot'.log[u]
    BY <1>1 DEF TimeInv
  <2> QED
    BY <2>1, <2>2 DEF TimeInv
<1>13. FoldInv'
  BY <1>1 DEF FoldInv, watermark_of
<1>14. FileInv'
  <2>3. ASSUME NEW u, NEW i \in 0 .. n, NEW m \in i .. n + 1, Backed(u, All, i, st.next_seq, snapshot)
        PROVE  Backed(u, All', m, st'.next_seq, snapshot)
    <3>1. st.next_seq <= st'.next_seq /\ All'[n + 1].seq >= st.next_seq
      BY <1>3, <1>4, <1>5
    <3>2. st'.next_seq \in Nat /\ m \in i .. Len(All')
      BY <1>3, <1>5
    <3> QED
      BY <1>2, <1>3, <1>5, <2>3, <3>1, <3>2, BackedAppend
  <2>4. \A u \in ids(st'.log) : expired(u, now) \/ Backed(u, All', Len(All'), st'.next_seq, snapshot)
    <3>1. n \in 0 .. n /\ n + 1 \in n .. n + 1
      BY <1>2
    <3> QED
      BY <1>1, <1>5, <2>3, <3>1 DEF FileInv
  <2>5. \A i \in 1 .. Len(All') : expired(All'[i].tx, now) \/ Backed(All'[i].tx, All', i, st'.next_seq, snapshot)
    <3>1. \A i \in 1 .. n : i \in 0 .. n /\ i \in i .. n + 1
      BY <1>2
    <3> QED
      BY <1>1, <1>4, <1>5, <1>6, <2>3, <2>4, <3>1 DEF FileInv
  <2>6. \A i \in 1 .. Len(All') : All'[i].seq < snapshot.next_seq =>
            expired(All'[i].tx, now) \/ All'[i].tx \in ids(snapshot.log)
    <3>1. ~(r.seq < snapshot.next_seq)
      BY <1>1, <1>3, <1>4 DEF SeqInv
    <3> QED
      BY <1>1, <1>5, <1>6, <3>1 DEF FileInv
  <2> QED
    BY <2>4, <2>5, <2>6 DEF FileInv
<1>15. FreshInv'
  <2>1. \A f \in fresh : f[1] \in Nat /\ f[1] < st.next_seq
    BY <1>1, TxLogAssumption DEF TypeOK, Seqs, FreshInv
  <2>3. ASSUME NEW f \in fresh, NEW i \in 1 .. Len(unsaved'), unsaved'[i].seq = f[1]
        PROVE  st'.persist_log[f[1]] = f[2]
    <3>1. Len(unsaved') = Len(unsaved) + 1 /\ unsaved'[Len(unsaved) + 1] = r
      BY <1>2
    <3>2. i # Len(unsaved) + 1
      BY <1>3, <1>4, <2>1, <2>3, <3>1
    <3>3. i \in 1 .. Len(unsaved) /\ unsaved'[i] = unsaved[i]
      BY <1>2, <3>1, <3>2
    <3> QED
      BY <1>1, <2>3, <3>3 DEF FreshInv
  <2> QED
    BY <1>1, <2>1, <2>3 DEF FreshInv
<1>16. KeptInv'
  BY <1>1 DEF KeptInv, InFiles
<1>17. SeqFresh'
  BY <1>1 DEF SeqFresh
<1> QED
  BY <1>9, <1>10, <1>11, <1>12, <1>13, <1>14, <1>15, <1>16, <1>17 DEF IInv

\* Time passes, or the acknowledged set becomes the whole log.
LEMMA Quiet ==
    ASSUME IInv, st' \in States,
           st'.log = st.log, st'.persist_log = st.persist_log, st'.next_seq = st.next_seq,
           st'.last_ack = st.last_ack \/ st'.last_ack = ids(st.log),
           now' \in Clock, now <= now', st'.ticked <= now',
           UNCHANGED <<engine, snapshot, records, unsaved, crashes, stored, sent, fresh>>
    PROVE  IInv'
<1>1. TypeOK /\ ClockInv /\ SeqInv /\ TimeInv /\ FoldInv /\ FileInv /\ FreshInv /\ KeptInv /\ SeqFresh
  BY DEF IInv
<1>2. now \in Nat /\ now' \in Nat /\ snapshot.ticked \in Nat /\ stored \subseteq Payloads
  BY <1>1, StateFields, TxLogAssumption DEF TypeOK, Clock
<1>3. \A t \in Payloads : expired(t, now) => expired(t, now')
  BY <1>2, ExpiredLater
<1>4. All' = All /\ \A i \in 1 .. Len(All) : All[i].tx \in Payloads
  BY <1>1, Types, RecordFields DEF All
<1>5. TypeOK' /\ ClockInv' /\ SeqInv' /\ TimeInv' /\ FreshInv' /\ SeqFresh'
  <2>1. TypeOK'
    BY <1>1 DEF TypeOK
  <2>2. ClockInv'
    BY <1>1, <1>2 DEF ClockInv
  <2>3. SeqInv'
    BY <1>1, <1>4 DEF SeqInv
  <2>4. TimeInv' /\ SeqFresh'
    BY <1>1, <1>4 DEF TimeInv, SeqFresh
  <2>5. FreshInv'
    BY <1>1, <1>4 DEF FreshInv
  <2> QED
    BY <2>1, <2>2, <2>3, <2>4, <2>5
<1>6. ids(st.log) \subseteq Payloads
  BY DEF ids
<1>7. FoldInv'
  BY <1>1, <1>3, <1>6 DEF FoldInv, watermark_of
<1>8. FileInv'
  BY <1>1, <1>3, <1>4, <1>6 DEF FileInv
<1>9. KeptInv'
  BY <1>1, <1>2, <1>3 DEF KeptInv, InFiles
<1> QED
  BY <1>5, <1>7, <1>8, <1>9 DEF IInv

-----------------------------------------------------------------------------
(* The calls *)

\* tick, open_row and ingest_ack
LEMMA QuietCalls ==
    ASSUME IInv, tick \/ open_row \/ ingest_ack
    PROVE  IInv' /\ st'.log = st.log
<1>1. /\ st \in States /\ now \in Clock /\ now \in Nat /\ MaxClock \in Nat
      /\ st.ticked <= now /\ st.ticked \in Nat
  BY StateFields, TxLogAssumption DEF IInv, TypeOK, ClockInv, Clock
<1>2. CASE tick
  <2>1. st' = [st EXCEPT !.ticked = now + 1] /\ now' = now + 1 /\ now' \in Clock
    BY <1>1, <1>2 DEF tick, Clock
  <2>2. /\ st' \in States /\ st'.log = st.log /\ st'.persist_log = st.persist_log
        /\ st'.next_seq = st.next_seq /\ st'.last_ack = st.last_ack /\ st'.ticked = now'
    BY <1>1, <2>1 DEF States
  <2>3. now <= now' /\ st'.ticked <= now'
    BY <1>1, <2>1, <2>2
  <2> QED
    BY <1>2, <2>1, <2>2, <2>3, Quiet DEF tick, host
<1>3. CASE open_row
  <2>1. st' = [st EXCEPT !.row = TRUE] /\ now' = now
    BY <1>3 DEF open_row
  <2>2. /\ st' \in States /\ st'.log = st.log /\ st'.persist_log = st.persist_log
        /\ st'.next_seq = st.next_seq /\ st'.last_ack = st.last_ack /\ st'.ticked = st.ticked
    BY <1>1, <2>1 DEF States
  <2> QED
    BY <1>1, <1>3, <2>1, <2>2, Quiet DEF open_row, host
<1>4. CASE ingest_ack
  <2>1. st' = store_durable_last_ack(st) /\ now' = now
    BY <1>4 DEF ingest_ack
  <2>2. /\ st' \in States /\ st'.log = st.log /\ st'.persist_log = st.persist_log
        /\ st'.next_seq = st.next_seq /\ st'.last_ack = ids(st.log) /\ st'.ticked = st.ticked
    BY <1>1, <2>1, AckFields
  <2> QED
    BY <1>1, <1>4, <2>1, <2>2, Quiet DEF ingest_ack, host
<1> QED
  BY <1>2, <1>3, <1>4

\* No step but a reload changes the time of a transaction.
Grows == \A t \in ids(st.log) : st'.log[t] = st.log[t]

\* mint_on
LEMMA MintOn ==
    ASSUME IInv, NEW name \in Names, NEW remembered \in BOOLEAN, mint_on(name, remembered)
    PROVE  IInv' /\ Grows
<1> DEFINE t == payload(name, latest_disappear(st.log), st.ticked)
           merged == merge_tx(st, t)
<1>1. st \in States /\ st.ticked \in Clock /\ st.next_seq < MaxSeq /\ st.log \in Logs
  BY StateFields DEF IInv, TypeOK, mint_on
<1>2. t \in Payloads
  BY <1>1, DisappearType, PayloadType
<1>3. /\ st' = IF remembered THEN remember_sender(merged.state, t, "Local") ELSE merged.state
      /\ unsaved' = Append(unsaved, merged.record)
      /\ sent' = sent \cup {<<"Local", t>>}
      /\ UNCHANGED <<engine, now, snapshot, records, crashes, stored, fresh>>
  BY DEF mint_on, host
<1>4. sent' \subseteq Senders \X Payloads
  BY <1>2, <1>3 DEF IInv, TypeOK, Senders
<1> HIDE DEF t
<1>5. CASE t \in ids(st.log)
  <2>1. merged.state = st
        /\ merged.record = [seq |-> st.next_seq, tx |-> t, wall |-> st.log[t]]
    BY <1>5 DEF merge_tx
  <2> HIDE DEF merged
  <2>2. /\ st' \in States /\ st'.log = st.log /\ st'.persist_log = st.persist_log
        /\ st'.next_seq = st.next_seq /\ st'.last_ack = st.last_ack /\ st'.ticked = st.ticked
    BY <1>1, <1>2, <1>3, <2>1, SenderFields DEF Senders
  <2>3. IInv'
    BY <1>1, <1>3, <1>4, <1>5, <2>1, <2>2, OldTx
  <2> QED
    BY <2>2, <2>3 DEF Grows
<1>6. CASE t \notin ids(st.log)
  <2> DEFINE s == insert(st, t, st.ticked)
  <2>1. merged.state = s
        /\ merged.record = [seq |-> st.next_seq, tx |-> t, wall |-> st.ticked]
    BY <1>6 DEF merge_tx
  <2>2. /\ s \in States /\ s.log = [st.log EXCEPT ![t] = st.ticked]
        /\ s.persist_log = [st.persist_log EXCEPT ![st.next_seq] = t]
        /\ s.next_seq = st.next_seq + 1 /\ s.last_ack = st.last_ack /\ s.ticked = st.ticked
    BY <1>1, <1>2, InsertFields
  <2> HIDE DEF merged, s
  <2>3. /\ st' \in States /\ st'.log = s.log /\ st'.persist_log = s.persist_log
        /\ st'.next_seq = s.next_seq /\ st'.last_ack = s.last_ack /\ st'.ticked = s.ticked
    BY <1>2, <1>3, <2>1, <2>2, SenderFields DEF Senders
  <2>4. IInv'
    BY <1>1, <1>2, <1>3, <1>4, <1>6, <2>1, <2>2, <2>3, NewTx
  <2> QED
    BY <1>1, <1>6, <2>2, <2>3, <2>4 DEF Grows, ids, Logs
<1> QED
  BY <1>5, <1>6

\* ingest_packet
LEMMA IngestPacket ==
    ASSUME IInv, NEW name \in Names, NEW life \in Lives, NEW wall \in Clock,
           NEW matches \in BOOLEAN, ingest_packet(name, life, wall, matches)
    PROVE  IInv' /\ Grows
<1> DEFINE t == payload(name, life, wall)
           s == insert(st, t, wall)
           merged == remember_sender(s, t, "Peer")
<1>1. st \in States /\ st.next_seq < MaxSeq /\ st.log \in Logs
  BY StateFields DEF IInv, TypeOK, ingest_packet
<1>2. t \in Payloads
  BY PayloadType
<1>3. /\ t \notin ids(st.log)
      /\ st' = IF matches THEN store_durable_last_ack(merged) ELSE merged
      /\ unsaved' = Append(unsaved, [seq |-> st.next_seq, tx |-> t, wall |-> wall])
      /\ sent' = sent \cup {<<"Peer", t>>}
      /\ UNCHANGED <<engine, now, snapshot, records, crashes, stored, fresh>>
  BY DEF ingest_packet, host
<1>4. sent' \subseteq Senders \X Payloads
  BY <1>2, <1>3 DEF IInv, TypeOK, Senders
<1> HIDE DEF t
<1>5. /\ s \in States /\ s.log = [st.log EXCEPT ![t] = wall]
      /\ s.persist_log = [st.persist_log EXCEPT ![st.next_seq] = t]
      /\ s.next_seq = st.next_seq + 1 /\ s.last_ack = st.last_ack /\ s.ticked = st.ticked
  BY <1>1, <1>2, InsertFields
<1> HIDE DEF s
<1>6. /\ merged \in States /\ merged.log = s.log /\ merged.persist_log = s.persist_log
      /\ merged.next_seq = s.next_seq /\ merged.last_ack = s.last_ack /\ merged.ticked = s.ticked
  BY <1>2, <1>5, SenderFields DEF Senders
<1> HIDE DEF merged
<1>7. /\ st' \in States /\ st'.log = s.log /\ st'.persist_log = s.persist_log
      /\ st'.next_seq = s.next_seq /\ st'.ticked = s.ticked
      /\ st'.last_ack = s.last_ack \/ st'.last_ack = ids(st'.log)
  BY <1>3, <1>6, AckFields
<1>8. IInv'
  BY <1>1, <1>2, <1>3, <1>4, <1>5, <1>7, NewTx
<1> QED
  BY <1>1, <1>3, <1>5, <1>7, <1>8 DEF Grows, ids, Logs

\* Save: the records in the host's hands stay the same.
LEMMA SaveInv ==
    ASSUME IInv, Save
    PROVE  IInv' /\ Grows
<1> DEFINE r == Head(unsaved)
<1>1. TypeOK /\ ClockInv /\ SeqInv /\ TimeInv /\ FoldInv /\ FileInv /\ FreshInv /\ KeptInv /\ SeqFresh
  BY DEF IInv
<1>2. /\ unsaved \in Seq(Records) /\ unsaved # <<>> /\ records \in Seq(Records)
      /\ records' = Append(records, r) /\ unsaved' = Tail(unsaved)
      /\ stored' = stored \cup {r.tx}
      /\ fresh' = IF st.persist_log[r.seq] = r.tx THEN fresh \cup {<<r.seq, r.tx>>} ELSE fresh
      /\ UNCHANGED <<engine, now, st, snapshot, crashes, sent>>
  BY <1>1 DEF Save, TypeOK
<1>3. /\ r \in Records /\ records' \in Seq(Records) /\ unsaved' \in Seq(Records)
      /\ 1 \in 1 .. Len(unsaved) /\ unsaved[1] = r
  BY <1>2
<1>4. r.seq \in Seqs /\ r.seq \in Nat /\ r.tx \in Payloads /\ r.wall \in Clock
  BY <1>3, RecordFields
<1>5. All' = All
  BY <1>2, <1>3 DEF All
<1>6. r.tx \in ids(st.log)
  <2>1. Len(records) + 1 \in 1 .. Len(All) /\ All[Len(records) + 1] = r
    BY <1>2, <1>3 DEF All
  <2>2. st.log[r.tx] = r.wall
    BY <1>1, <2>1 DEF TimeInv
  <2>3. r.wall # Absent
    BY <1>4, TxLogAssumption DEF Clock, Absent
  <2> QED
    BY <1>4, <2>2, <2>3 DEF ids
<1>7. /\ Len(records') = Len(records) + 1 /\ records'[Len(records) + 1] = r
      /\ \A i \in 1 .. Len(records) : records'[i] = records[i]
      /\ \A i \in 1 .. Len(unsaved') : i + 1 \in 1 .. Len(unsaved) /\ unsaved'[i] = unsaved[i + 1]
  BY <1>2, <1>3
<1>8. TypeOK'
  <2>1. fresh' \subseteq Seqs \X Payloads
    BY <1>1, <1>2, <1>4 DEF TypeOK
  <2> QED
    BY <1>1, <1>2, <1>3, <1>4, <2>1 DEF TypeOK
<1>9. ClockInv' /\ SeqInv' /\ TimeInv' /\ FoldInv' /\ FileInv'
  BY <1>1, <1>2, <1>5 DEF ClockInv, SeqInv, TimeInv, FoldInv, FileInv
<1>10. \A f \in fresh' : f \in fresh \/ (f = <<r.seq, r.tx>> /\ st.persist_log[r.seq] = r.tx)
  BY <1>2
<1>11. FreshInv'
  <2>1. ASSUME NEW f \in fresh'
        PROVE  /\ f[1] < st.next_seq
               /\ f[1] < snapshot.next_seq \/ \E i \in 1 .. Len(records') : records'[i].seq = f[1]
    <3>1. CASE f \in fresh
      <4>1. f[1] < st.next_seq
        BY <1>1, <3>1 DEF FreshInv
      <4>2. CASE f[1] < snapshot.next_seq
        BY <4>1, <4>2
      <4>3. ASSUME NEW i \in 1 .. Len(records), records[i].seq = f[1]
            PROVE  \E k \in 1 .. Len(records') : records'[k].seq = f[1]
        <5>1. i \in 1 .. Len(records') /\ records'[i].seq = f[1]
          BY <1>2, <1>7, <4>3
        <5> QED
          BY <5>1
      <4> QED
        BY <1>1, <3>1, <4>1, <4>2, <4>3 DEF FreshInv
    <3>2. CASE f = <<r.seq, r.tx>> /\ st.persist_log[r.seq] = r.tx
      <4>1. f[1] = r.seq /\ r.tx # NoTx
        BY <1>4, <3>2, NoTxIsNone
      <4>2. r.seq < st.next_seq
        BY <1>1, <1>4, <3>2, <4>1 DEF SeqInv
      <4>3. Len(records) + 1 \in 1 .. Len(records')
        BY <1>2, <1>7
      <4> QED
        BY <1>7, <4>1, <4>2, <4>3
    <3> QED
      BY <1>10, <3>1, <3>2
  <2>2. ASSUME NEW f \in fresh', NEW i \in 1 .. Len(unsaved'), unsaved'[i].seq = f[1]
        PROVE  st.persist_log[f[1]] = f[2]
    <3>1. CASE f \in fresh
      BY <1>1, <1>7, <2>2, <3>1 DEF FreshInv
    <3>2. CASE f = <<r.seq, r.tx>> /\ st.persist_log[r.seq] = r.tx
      BY <3>2
    <3> QED
      BY <1>10, <3>1, <3>2
  <2> QED
    BY <1>2, <2>1, <2>2 DEF FreshInv
<1>12. KeptInv'
  <2>1. ASSUME NEW t, t = r.tx PROVE InFiles(t)'
    <3>1. Len(records) + 1 \in 1 .. Len(records')
      BY <1>2, <1>7
    <3> QED
      BY <1>7, <2>1, <3>1 DEF InFiles
  <2>2. ASSUME NEW t, InFiles(t) PROVE InFiles(t)'
    <3>1. \A i \in 1 .. Len(records) : i \in 1 .. Len(records')
      BY <1>2, <1>7
    <3> QED
      BY <1>2, <1>7, <2>2, <3>1 DEF InFiles
  <2>3. ASSUME NEW t \in stored', ~expired(t, now) PROVE t \in ids(st.log) /\ InFiles(t)'
    <3>1. CASE t = r.tx
      BY <1>6, <2>1, <3>1
    <3>2. CASE t \in stored
      BY <1>1, <2>2, <2>3, <3>2 DEF KeptInv
    <3> QED
      BY <1>2, <3>1, <3>2
  <2> QED
    BY <1>2, <2>3 DEF KeptInv
<1>13. SeqFresh'
  <2>1. ASSUME NEW f \in fresh, f[1] = r.seq, st.persist_log[r.seq] = r.tx
        PROVE  f = <<r.seq, r.tx>>
    <3>1. f[2] = r.tx
      BY <1>1, <1>3, <2>1 DEF FreshInv
    <3>2. f = <<f[1], f[2]>>
      BY <1>1 DEF TypeOK
    <3> QED
      BY <2>1, <3>1, <3>2
  <2>2. <<r.seq, r.tx>>[1] = r.seq
    OBVIOUS
  <2>3. ASSUME NEW f \in fresh', NEW g \in fresh', f[1] = g[1] PROVE f = g
    BY <1>1, <1>10, <2>1, <2>2, <2>3 DEF SeqFresh
  <2> QED
    BY <2>3 DEF SeqFresh
<1> QED
  BY <1>2, <1>8, <1>9, <1>11, <1>12, <1>13 DEF IInv, Grows

\* What fold writes: the transactions of K at their times, and their seqs.
LEMMA FoldedFields ==
    ASSUME NEW s \in States, NEW K,
           K = {t \in ids(s.log) : tx_watermarked(s, t) /\ ~expired(t, s.ticked)}
    PROVE  /\ folded(s) \in States
           /\ folded(s).log = [t \in Payloads |-> IF t \in K THEN s.log[t] ELSE Absent]
           /\ folded(s).persist_log = [q \in Seqs |-> IF s.persist_log[q] \in K
                                                      THEN s.persist_log[q] ELSE NoTx]
           /\ folded(s).next_seq = s.next_seq /\ folded(s).last_ack = s.last_ack
           /\ folded(s).ticked = s.ticked
<1> DEFINE L == [t \in Payloads |-> IF t \in K THEN s.log[t] ELSE Absent]
           P == [q \in Seqs |-> IF s.persist_log[q] \in K THEN s.persist_log[q] ELSE NoTx]
           who == NewState.senders
<1>1. s.log \in Logs /\ s.persist_log \in PersistLogs
  BY StateFields
<1>2. L \in Logs
  BY <1>1 DEF Logs
<1>3. P \in PersistLogs
  BY <1>1 DEF PersistLogs
<1>4. who \in [Payloads -> Senders]
  BY DEF NewState, Senders
<1>5. folded(s) = [s EXCEPT !.log = L, !.persist_log = P, !.senders = who]
  BY DEF folded
<1> HIDE DEF L, P, who
<1>6. [s EXCEPT !.log = L, !.persist_log = P, !.senders = who] \in States
  BY <1>2, <1>3, <1>4 DEF States
<1>7. /\ [s EXCEPT !.log = L, !.persist_log = P, !.senders = who].log = L
      /\ [s EXCEPT !.log = L, !.persist_log = P, !.senders = who].persist_log = P
      /\ [s EXCEPT !.log = L, !.persist_log = P, !.senders = who].next_seq = s.next_seq
      /\ [s EXCEPT !.log = L, !.persist_log = P, !.senders = who].last_ack = s.last_ack
      /\ [s EXCEPT !.log = L, !.persist_log = P, !.senders = who].ticked = s.ticked
  BY DEF States
<1> QED
  BY <1>5, <1>6, <1>7 DEF L, P

\* fold: everything that has not expired is in the new snapshot.
LEMMA FoldStep ==
    ASSUME IInv, fold
    PROVE  IInv' /\ Grows
<1> DEFINE K == {t \in ids(st.log) : tx_watermarked(st, t) /\ ~expired(t, st.ticked)}
           n == Len(All)
<1>1. TypeOK /\ ClockInv /\ SeqInv /\ TimeInv /\ FoldInv /\ FileInv /\ FreshInv /\ KeptInv /\ SeqFresh
  BY DEF IInv
<1>2. /\ ~persist_outside_watermark(st) /\ snapshot' = folded(st)
      /\ stored' = stored \cup ids(snapshot'.log)
      /\ UNCHANGED <<engine, now, st, records, unsaved, crashes, sent, fresh>>
  BY DEF fold
<1>3. /\ st \in States /\ st.log \in Logs /\ st.next_seq \in Nat /\ st.ticked \in Nat /\ now \in Nat
      /\ \A i \in 1 .. n : All[i] \in Records
  BY <1>1, Types, StateFields
<1>4. /\ snapshot' \in States
      /\ snapshot'.log = [t \in Payloads |-> IF t \in K THEN st.log[t] ELSE Absent]
      /\ snapshot'.persist_log = [q \in Seqs |-> IF st.persist_log[q] \in K
                                                 THEN st.persist_log[q] ELSE NoTx]
      /\ snapshot'.next_seq = st.next_seq /\ snapshot'.last_ack = st.last_ack
      /\ snapshot'.ticked = st.ticked
  <2> HIDE DEF K
  <2> QED
    BY <1>2, <1>3, FoldedFields DEF K
<1>5. K \subseteq ids(st.log) /\ ids(st.log) \subseteq Payloads
  BY DEF ids
<1>6. ASSUME NEW t \in ids(st.log) PROVE expired(t, now) \/ t \in K
  <2>1. expired(t, st.ticked) => expired(t, now)
    BY <1>1, <1>3, <1>5, ExpiredLater DEF ClockInv
  <2>2. CASE t \in watermark_of(st)
    BY <2>1, <2>2 DEF tx_watermarked
  <2>3. ASSUME NEW q \in Seqs, st.persist_log[q] = t
        PROVE  expired(t, now) \/ t \in K
    <3>1. t # NoTx
      BY <1>5, NoTxIsNone
    <3>2. expired(t, st.ticked) \/ tx_watermarked(st, t)
      BY <1>2, <2>3, <3>1 DEF persist_outside_watermark
    <3> QED
      BY <2>1, <3>2
  <2> QED
    BY <1>1, <2>2, <2>3 DEF FoldInv
<1>7. ids(snapshot'.log) = K
  <2>1. \A t \in K : t \in Payloads /\ st.log[t] # Absent
    BY DEF ids
  <2> HIDE DEF K
  <2> QED
    BY <1>4, <2>1 DEF ids
<1>8. st.last_ack # {} => K \subseteq st.last_ack
  BY DEF tx_watermarked, watermark_of
<1>9. \A t \in K : snapshot'.log[t] = st.log[t]
  <2> HIDE DEF K
  <2> QED
    BY <1>4, <1>5
<1>10. \A i \in 1 .. n : All[i].tx \in ids(st.log)
  <2> TAKE i \in 1 .. n
  <2>1. st.log[All[i].tx] = All[i].wall /\ All[i].wall \in Clock /\ All[i].tx \in Payloads
    BY <1>1, <1>3, RecordFields DEF TimeInv
  <2> QED
    BY <2>1, TxLogAssumption DEF ids, Clock, Absent
<1> HIDE DEF K
<1>11. All' = All
  BY <1>2 DEF All
<1>12. TypeOK'
  BY <1>1, <1>2, <1>4, <1>5, <1>7 DEF TypeOK
<1>13. ClockInv'
  BY <1>1, <1>2, <1>4 DEF ClockInv
<1>14. SeqInv'
  <2>1. \A q \in Seqs : snapshot'.persist_log[q] # NoTx => q < snapshot'.next_seq
    BY <1>1, <1>4 DEF SeqInv
  <2>2. snapshot'.next_seq <= st.next_seq
    BY <1>3, <1>4
  <2> QED
    BY <1>1, <1>2, <1>11, <2>1, <2>2 DEF SeqInv
<1>15. TimeInv'
  BY <1>1, <1>2, <1>7, <1>9, <1>11 DEF TimeInv
<1>16. FoldInv'
  BY <1>1, <1>2, <1>4, <1>7, <1>8 DEF FoldInv
<1>17. FileInv'
  BY <1>2, <1>6, <1>7, <1>10, <1>11 DEF FileInv, Backed
<1>18. FreshInv'
  BY <1>1, <1>2, <1>4 DEF FreshInv
<1>19. KeptInv'
  <2>1. ASSUME NEW t \in stored', ~expired(t, now) PROVE t \in ids(st.log) /\ snapshot'.log[t] # Absent
    <3>1. t \in ids(st.log)
      BY <1>1, <1>2, <1>5, <1>7, <2>1 DEF KeptInv
    <3>2. t \in ids(snapshot'.log)
      BY <1>6, <1>7, <2>1, <3>1
    <3> QED
      BY <3>1, <3>2 DEF ids
  <2> QED
    BY <1>2, <2>1 DEF KeptInv, InFiles
<1>20. SeqFresh'
  BY <1>1, <1>2 DEF SeqFresh
<1> QED
  BY <1>2, <1>12, <1>13, <1>14, <1>15, <1>16, <1>17, <1>18, <1>19, <1>20 DEF IInv, Grows

\* Truncate: what is dropped is in the snapshot or has expired.
LEMMA TruncateStep ==
    ASSUME IInv, Truncate
    PROVE  IInv' /\ Grows
<1> DEFINE at == {i \in 1 .. Len(records) : records[i].seq >= snapshot.next_seq}
           m == Cardinality(at)
           n == Len(records)
           u == Len(unsaved)
<1>1. TypeOK /\ ClockInv /\ SeqInv /\ TimeInv /\ FoldInv /\ FileInv /\ FreshInv /\ KeptInv /\ SeqFresh
  BY DEF IInv
<1>2. records' = retain(records, at) /\ UNCHANGED <<engine, now, st, snapshot, unsaved, crashes, stored, sent, fresh>>
  BY DEF Truncate
<1>3. /\ records \in Seq(Records) /\ unsaved \in Seq(Records) /\ All \in Seq(Records)
      /\ Len(All) = n + u /\ n \in Nat /\ u \in Nat
      /\ \A i \in 1 .. n : All[i] = records[i] /\ records[i] \in Records
      /\ \A i \in 1 .. u : All[n + i] = unsaved[i]
      /\ \A i \in 1 .. n + u : All[i] \in Records
      /\ snapshot \in States
  BY <1>1, Types
<1>4. /\ snapshot.next_seq \in Nat
      /\ \A i \in 1 .. n : records[i].seq \in Nat
      /\ \A i \in 1 .. n + u : All[i].tx \in Payloads
  BY <1>3, StateFields, RecordFields
<1>5. at \in SUBSET (1 .. n)
  OBVIOUS
<1>6. \A i \in 1 .. n : i \notin at => records[i].seq < snapshot.next_seq
  BY <1>4
<1> HIDE DEF at
<1>7. m \in 0 .. n /\ \E f : ReadAlong(records, at, m, f, records')
  <2>1. records \in Seq(Records) /\ at \in SUBSET (1 .. Len(records))
    BY <1>3, <1>5
  <2> QED BY <1>2, <2>1, RetainedAlong
<1>8. PICK f \in [1 .. m -> at] :
            /\ records' = [k \in 1 .. m |-> records[f[k]]]
            /\ \A j, k \in 1 .. m : j < k => f[j] < f[k]
            /\ \A i \in at : \E k \in 1 .. m : f[k] = i
  <2> HIDE DEF m
  <2>1. PICK f : ReadAlong(records, at, m, f, records')
    BY <1>7
  <2> QED BY <2>1, Zenon DEF ReadAlong
<1>9. m \in Nat /\ m <= n
  BY <1>3, <1>7
<1> HIDE DEF m, n, u
<1>10. \A k \in 1 .. m : f[k] \in 1 .. n
  BY <1>5, <1>8
<1>11. records' \in Seq(Records) /\ Len(records') = m /\ \A k \in 1 .. m : records'[k] = records[f[k]]
  <2>1. \A k \in 1 .. m : records[f[k]] \in Records
    BY <1>3, <1>10
  <2> QED
    BY <1>8, <1>9, <2>1
<1> DEFINE g == [k \in 1 .. m + u |-> IF k <= m THEN f[k] ELSE n + (k - m)]
<1>12. /\ All' \in Seq(Records) /\ Len(All') = m + u
       /\ \A k \in 1 .. m : All'[k] = records'[k]
       /\ \A k \in 1 .. u : All'[m + k] = unsaved[k]
  <2>1. PICK a \in Seq(Records) : a = records' /\ Len(a) = m
    BY <1>11
  <2>2. PICK b \in Seq(Records) : b = unsaved /\ Len(b) = u
    BY <1>3 DEF u
  <2>3. /\ a \o b \in Seq(Records) /\ Len(a \o b) = Len(a) + Len(b)
        /\ \A k \in 1 .. Len(a) : (a \o b)[k] = a[k]
        /\ \A k \in 1 .. Len(b) : (a \o b)[Len(a) + k] = b[k]
    OBVIOUS
  <2>4. All' = a \o b
    BY <1>2, <2>1, <2>2 DEF All
  <2> QED BY <2>1, <2>2, <2>3, <2>4
<1>13. \A k \in 1 .. m + u : k \in 1 .. m \/ (k - m \in 1 .. u /\ k = m + (k - m) /\ k > m)
  BY <1>3, <1>9
<1>14. \A k \in 1 .. m + u : g[k] \in 1 .. n + u /\ All'[k] = All[g[k]]
  <2> TAKE k \in 1 .. m + u
  <2>1. CASE k \in 1 .. m
    <3>1. g[k] = f[k]
      BY <1>9, <2>1
    <3>2. f[k] \in 1 .. n + u
      BY <1>3, <1>10, <2>1
    <3> QED
      BY <1>3, <1>10, <1>11, <1>12, <2>1, <3>1, <3>2
  <2>2. CASE k - m \in 1 .. u /\ k = m + (k - m) /\ k > m
    <3>1. g[k] = n + (k - m)
      BY <1>9, <2>2
    <3>2. n + (k - m) \in 1 .. n + u
      BY <1>3, <1>9, <2>2
    <3>3. PICK i \in 1 .. u : i = k - m
      BY <2>2
    <3>4. All'[m + i] = unsaved[i] /\ All[n + i] = unsaved[i] /\ k = m + i
      BY <1>3, <1>12, <2>2, <3>3
    <3> QED
      BY <3>1, <3>2, <3>3, <3>4
  <2> QED
    BY <1>13, <2>1, <2>2
<1>15. ASSUME NEW j \in 1 .. m + u, NEW k \in 1 .. m + u, j < k PROVE g[j] < g[k]
  <2>1. CASE k <= m
    <3>1. j \in 1 .. m /\ k \in 1 .. m
      BY <1>9, <1>15, <2>1
    <3> QED
      BY <1>8, <1>15, <2>1, <3>1
  <2>2. CASE k > m /\ j <= m
    <3>1. j \in 1 .. m /\ f[j] \in 1 .. n
      BY <1>9, <1>10, <2>2
    <3>2. g[j] = f[j] /\ g[k] = n + (k - m)
      BY <1>9, <2>2
    <3> QED
      BY <1>3, <1>9, <2>2, <3>1, <3>2
  <2>3. CASE k > m /\ j > m
    <3>1. g[j] = n + (j - m) /\ g[k] = n + (k - m)
      BY <1>9, <2>3
    <3> QED
      BY <1>3, <1>9, <1>15, <3>1
  <2> QED
    BY <1>3, <1>9, <2>1, <2>2, <2>3
<1>16. ASSUME NEW i \in 1 .. n + u, \A k \in 1 .. m + u : g[k] # i
       PROVE  All[i].seq < snapshot.next_seq
  <2>1. i \in 1 .. n
    <3>1. CASE i > n
      <4> DEFINE k == m + (i - n)
      <4>1. k \in 1 .. m + u /\ k > m /\ n + (k - m) = i
        BY <1>3, <1>9, <3>1
      <4>2. g[k] = i
        BY <1>9, <4>1
      <4> QED
        BY <1>16, <4>1, <4>2
    <3> QED
      BY <1>3, <3>1
  <2>2. i \notin at
    <3> SUFFICES ASSUME i \in at PROVE FALSE
      OBVIOUS
    <3>1. PICK k \in 1 .. m : f[k] = i
      BY <1>8
    <3>2. k \in 1 .. m + u /\ g[k] = i
      BY <1>3, <1>9, <3>1
    <3> QED
      BY <1>16, <3>2
  <2> QED
    BY <1>3, <1>6, <2>1, <2>2
<1>17. \A k \in 1 .. m + u : g[k] \in Nat
  BY <1>3, <1>14
<1> HIDE DEF g
<1>18. ASSUME NEW j \in 1 .. m + u, Owns(All, g[j], st.next_seq) PROVE Owns(All', j, st.next_seq)
  <2>1. ASSUME NEW k \in 1 .. m + u, k > j, All'[k].seq = All'[j].seq PROVE All'[k].tx = All'[j].tx
    <3>1. g[k] > g[j]
      BY <1>15, <1>17, <2>1
    <3>2. g[k] \in 1 .. Len(All) /\ All'[k] = All[g[k]] /\ All'[j] = All[g[j]]
      BY <1>3, <1>14
    <3>3. All[g[k]].seq = All[g[j]].seq
      BY <2>1, <3>2
    <3>4. All[g[k]].tx = All[g[j]].tx
      BY <1>18, <3>1, <3>2, <3>3 DEF Owns
    <3> QED
      BY <3>2, <3>4
  <2> QED
    BY <1>12, <1>14, <1>18, <2>1 DEF Owns
<1>19. ASSUME NEW t, NEW i \in 1 .. n + u, NEW l \in 1 .. m + u, Backed(t, All, i, st.next_seq, snapshot),
              \A k \in 1 .. m + u : g[k] <= i => k <= l
       PROVE  expired(t, now) \/ Backed(t, All', l, st.next_seq, snapshot)
  <2>1. CASE t \in ids(snapshot.log)
    BY <2>1 DEF Backed
  <2>2. ASSUME NEW j \in 1 .. i, All[j].tx = t, Owns(All, j, st.next_seq)
        PROVE  expired(t, now) \/ Backed(t, All', l, st.next_seq, snapshot)
    <3>0. j \in 1 .. n + u
      BY <1>3
    <3>1. CASE \A k \in 1 .. m + u : g[k] # j
      <4>1. All[j].seq < snapshot.next_seq
        BY <1>16, <3>0, <3>1
      <4> QED
        BY <1>1, <1>3, <2>2, <3>0, <4>1 DEF FileInv, Backed
    <3>2. ASSUME NEW k \in 1 .. m + u, g[k] = j
          PROVE  Backed(t, All', l, st.next_seq, snapshot)
      <4>1. Owns(All', k, st.next_seq) /\ All'[k].tx = t
        BY <1>14, <1>18, <2>2, <3>2
      <4>2. k \in 1 .. l
        BY <1>3, <1>9, <1>19, <3>2
      <4> QED
        BY <4>1, <4>2 DEF Backed
    <3> QED
      BY <3>1, <3>2
  <2> QED
    BY <1>19, <2>1, <2>2 DEF Backed
<1> QED
  <2>1. TypeOK' /\ ClockInv' /\ FoldInv' /\ SeqFresh'
    BY <1>1, <1>2, <1>11 DEF TypeOK, ClockInv, FoldInv, SeqFresh
  <2>2. SeqInv'
    BY <1>1, <1>2, <1>3, <1>12, <1>14 DEF SeqInv
  <2>3. TimeInv'
    <3>1. \A k \in 1 .. m + u : st.log[All'[k].tx] = All'[k].wall
      <4> TAKE k \in 1 .. m + u
      <4>1. g[k] \in 1 .. Len(All) /\ All'[k] = All[g[k]]
        BY <1>3, <1>14
      <4>2. st.log[All[g[k]].tx] = All[g[k]].wall
        BY <1>1, <4>1 DEF TimeInv
      <4> QED
        BY <4>1, <4>2
    <3> QED
      BY <1>1, <1>2, <1>12, <3>1 DEF TimeInv
  <2>4. \A t \in ids(st.log) : expired(t, now) \/ Backed(t, All', m + u, st.next_seq, snapshot)
    <3> TAKE t \in ids(st.log)
    <3>1. CASE n + u = 0
      <4>1. t \in ids(snapshot.log) \/ expired(t, now)
        BY <1>1, <1>3, <3>1 DEF FileInv, Backed
      <4> QED
        BY <4>1 DEF Backed
    <3>2. CASE n + u # 0 /\ m + u # 0
      <4>1. n + u \in 1 .. n + u /\ m + u \in 1 .. m + u /\ \A k \in 1 .. m + u : k <= m + u
        BY <1>3, <1>9, <3>2
      <4> QED
        BY <1>1, <1>3, <1>19, <4>1 DEF FileInv
    <3>3. CASE n + u # 0 /\ m + u = 0
      <4>1. \A j \in 1 .. n + u : All[j].seq < snapshot.next_seq
        BY <1>3, <1>9, <1>16, <3>3
      <4> QED
        BY <1>1, <1>3, <4>1 DEF FileInv, Backed
    <3> QED
      BY <3>1, <3>2, <3>3
  <2>5. ASSUME NEW l \in 1 .. m + u
        PROVE  expired(All'[l].tx, now) \/ Backed(All'[l].tx, All', l, st.next_seq, snapshot)
    <3>1. \A k \in 1 .. m + u : g[k] <= g[l] => k <= l
      <4> TAKE k \in 1 .. m + u
      <4>1. l < k => g[l] < g[k]
        BY <1>15
      <4> QED
        BY <1>3, <1>9, <1>17, <4>1
    <3>2. g[l] \in 1 .. n + u /\ All'[l] = All[g[l]]
      BY <1>14
    <3>3. expired(All[g[l]].tx, now) \/ Backed(All[g[l]].tx, All, g[l], st.next_seq, snapshot)
      BY <1>1, <1>3, <3>2 DEF FileInv
    <3> QED
      BY <1>19, <3>1, <3>2, <3>3
  <2>6. FileInv'
    <3>1. ASSUME NEW k \in 1 .. m + u, All'[k].seq < snapshot.next_seq
          PROVE  expired(All'[k].tx, now) \/ All'[k].tx \in ids(snapshot.log)
      <4>1. g[k] \in 1 .. Len(All) /\ All'[k] = All[g[k]]
        BY <1>3, <1>14
      <4>2. All[g[k]].seq < snapshot.next_seq
        BY <3>1, <4>1
      <4>3. expired(All[g[k]].tx, now) \/ All[g[k]].tx \in ids(snapshot.log)
        BY <1>1, <4>1, <4>2 DEF FileInv
      <4> QED
        BY <4>1, <4>3
    <3> QED
      BY <1>2, <1>12, <2>4, <2>5, <3>1 DEF FileInv
  <2>7. FreshInv'
    <3>1. ASSUME NEW h \in fresh
          PROVE  h[1] < snapshot.next_seq \/ \E k \in 1 .. Len(records') : records'[k].seq = h[1]
      <4>1. ASSUME NEW i \in 1 .. n, records[i].seq = h[1]
            PROVE  h[1] < snapshot.next_seq \/ \E k \in 1 .. Len(records') : records'[k].seq = h[1]
        <5>1. CASE i \in at
          <6>1. PICK k \in 1 .. m : f[k] = i
            BY <1>8, <5>1
          <6>2. k \in 1 .. Len(records') /\ records'[k].seq = h[1]
            BY <1>11, <4>1, <6>1
          <6> QED
            BY <6>2
        <5>2. CASE i \notin at
          <6>1. records[i].seq < snapshot.next_seq
            BY <1>6, <5>2
          <6> QED
            BY <4>1, <6>1
        <5> QED
          BY <5>1, <5>2
      <4> QED
        BY <1>1, <4>1 DEF FreshInv, n
    <3> QED
      BY <1>1, <1>2, <3>1 DEF FreshInv
  <2>8. KeptInv'
    <3>1. ASSUME NEW t, InFiles(t), ~expired(t, now) PROVE InFiles(t)'
      <4>1. ASSUME NEW i \in 1 .. n, records[i].tx = t PROVE InFiles(t)'
        <5>1. CASE i \in at
          BY <1>8, <1>11, <4>1, <5>1 DEF InFiles
        <5>2. CASE i \notin at
          <6>1. i \in 1 .. n + u /\ All[i] = records[i] /\ records[i].seq < snapshot.next_seq
            BY <1>3, <1>6, <5>2
          <6>2. t \in ids(snapshot.log)
            BY <1>1, <1>3, <3>1, <4>1, <6>1 DEF FileInv
          <6> QED
            BY <1>2, <6>2 DEF InFiles, ids
        <5> QED
          BY <5>1, <5>2
      <4> QED
        BY <1>2, <3>1, <4>1 DEF InFiles, n
    <3> QED
      BY <1>1, <1>2, <3>1 DEF KeptInv
  <2> QED
    BY <1>2, <2>1, <2>2, <2>3, <2>6, <2>7, <2>8 DEF IInv, Grows

\* last_of finds the last position.
LEMMA LastOf ==
    ASSUME NEW n \in Nat, NEW hits \in SUBSET (1 .. n)
    PROVE  \/ hits = {} /\ last_of(hits) = 0
           \/ last_of(hits) \in hits /\ \A j \in hits : j <= last_of(hits)
<1>1. CASE hits = {}
  BY <1>1 DEF last_of
<1>2. CASE hits # {}
  <2>1. \E i \in hits : \A j \in hits : j <= i
    BY <1>2, LastPosition
  <2> QED
    BY <1>2, <2>1 DEF last_of
<1> QED
  BY <1>1, <1>2

\* What apply makes of a snapshot s and the records rs: each transaction and each
\* seq comes from its last record, or from s, and next_seq is behind all of them.
Applied(s, rs, a) ==
    /\ a \in States
    /\ a.last_ack = s.last_ack /\ a.ticked = s.ticked
    /\ a.next_seq >= s.next_seq
    /\ \A i \in 1 .. Len(rs) : rs[i].seq < a.next_seq
    /\ \A t \in Payloads :
         \/ a.log[t] = s.log[t] /\ \A i \in 1 .. Len(rs) : rs[i].tx # t
         \/ \E i \in 1 .. Len(rs) : rs[i].tx = t /\ a.log[t] = rs[i].wall
    /\ \A q \in Seqs :
         \/ a.persist_log[q] = s.persist_log[q] /\ \A i \in 1 .. Len(rs) : rs[i].seq # q
         \/ \E i \in 1 .. Len(rs) : /\ rs[i].seq = q /\ a.persist_log[q] = rs[i].tx
                                    /\ \A k \in 1 .. Len(rs) : rs[k].seq = q => k <= i

\* apply
LEMMA ApplyFields ==
    ASSUME NEW s \in States, NEW rs \in Seq(Records), \A i \in 1 .. Len(rs) : rs[i].seq < MaxSeq,
           NEW a, a = apply(s, rs)
    PROVE  Applied(s, rs, a)
<1> DEFINE of(t) == last_of({i \in 1 .. Len(rs) : rs[i].tx = t})
           at(q) == last_of({i \in 1 .. Len(rs) : rs[i].seq = q})
           behind == {s.next_seq} \cup {rs[i].seq + 1 : i \in 1 .. Len(rs)}
           L == [t \in Payloads |-> IF of(t) = 0 THEN s.log[t] ELSE rs[of(t)].wall]
           P == [q \in Seqs |-> IF at(q) = 0 THEN s.persist_log[q] ELSE rs[at(q)].tx]
           n == CHOOSE q \in behind : \A other \in behind : other <= q
           R == IF rs = <<>> THEN s.row ELSE TRUE
<1>1. /\ s.log \in Logs /\ s.persist_log \in PersistLogs /\ s.next_seq \in Nat /\ s.next_seq \in Seqs
      /\ Len(rs) \in Nat /\ MaxSeq \in Nat
      /\ \A i \in 1 .. Len(rs) : rs[i] \in Records
  BY StateFields, TxLogAssumption
<1>2. \A i \in 1 .. Len(rs) : rs[i].seq \in Nat /\ rs[i].tx \in Payloads /\ rs[i].wall \in Clock
  BY <1>1, RecordFields
<1>3. ASSUME NEW t
      PROVE  \/ of(t) = 0 /\ \A i \in 1 .. Len(rs) : rs[i].tx # t
             \/ of(t) \in 1 .. Len(rs) /\ rs[of(t)].tx = t
  <2> DEFINE hits == {i \in 1 .. Len(rs) : rs[i].tx = t}
  <2>1. hits \in SUBSET (1 .. Len(rs))
    OBVIOUS
  <2>2. hits = {} => \A i \in 1 .. Len(rs) : rs[i].tx # t
    OBVIOUS
  <2>3. last_of(hits) \in hits => last_of(hits) \in 1 .. Len(rs) /\ rs[last_of(hits)].tx = t
    OBVIOUS
  <2> HIDE DEF hits
  <2>4. \/ hits = {} /\ last_of(hits) = 0
        \/ last_of(hits) \in hits
    BY <1>1, <2>1, LastOf
  <2>5. of(t) = last_of(hits)
    BY DEF hits
  <2> HIDE DEF of
  <2> QED
    BY <2>2, <2>3, <2>4, <2>5
<1>4. ASSUME NEW q
      PROVE  \/ at(q) = 0 /\ \A i \in 1 .. Len(rs) : rs[i].seq # q
             \/ /\ at(q) \in 1 .. Len(rs) /\ rs[at(q)].seq = q
                /\ \A k \in 1 .. Len(rs) : rs[k].seq = q => k <= at(q)
  <2> DEFINE hits == {i \in 1 .. Len(rs) : rs[i].seq = q}
  <2>1. hits \in SUBSET (1 .. Len(rs))
    OBVIOUS
  <2>2. hits = {} => \A i \in 1 .. Len(rs) : rs[i].seq # q
    OBVIOUS
  <2>3. last_of(hits) \in hits => last_of(hits) \in 1 .. Len(rs) /\ rs[last_of(hits)].seq = q
    OBVIOUS
  <2>6. \A k \in 1 .. Len(rs) : rs[k].seq = q => k \in hits
    OBVIOUS
  <2> HIDE DEF hits
  <2>4. \/ hits = {} /\ last_of(hits) = 0
        \/ last_of(hits) \in hits /\ \A k \in hits : k <= last_of(hits)
    BY <1>1, <2>1, LastOf
  <2>5. at(q) = last_of(hits)
    BY DEF hits
  <2> HIDE DEF at
  <2> QED
    BY <2>2, <2>3, <2>4, <2>5, <2>6
<1>5. /\ n \in Seqs /\ n \in Nat /\ s.next_seq <= n
      /\ \A i \in 1 .. Len(rs) : rs[i].seq < n
  <2>1. \A i \in 1 .. Len(rs) : rs[i].seq + 1 \in 0 .. MaxSeq
    BY <1>1, <1>2
  <2>2. behind \in SUBSET (0 .. MaxSeq) /\ behind # {}
    BY <1>1, <2>1 DEF Seqs
  <2>3. s.next_seq \in behind /\ \A i \in 1 .. Len(rs) : rs[i].seq + 1 \in behind
    OBVIOUS
  <2> HIDE DEF behind
  <2>4. \E q \in behind : \A other \in behind : other <= q
    BY <1>1, <2>2, Greatest
  <2>5. n \in behind /\ \A other \in behind : other <= n
    BY <2>4
  <2>6. n \in 0 .. MaxSeq
    BY <2>2, <2>5
  <2> HIDE DEF n
  <2>7. \A i \in 1 .. Len(rs) : rs[i].seq + 1 <= n
    BY <2>3, <2>5
  <2> QED
    BY <1>1, <1>2, <2>3, <2>5, <2>6, <2>7 DEF Seqs
<1>6. a = [s EXCEPT !.row = R, !.log = L, !.persist_log = P, !.next_seq = n]
  BY DEF apply
<1> HIDE DEF of, at, n
<1>7. L \in Logs /\ P \in PersistLogs
  <2>1. L \in Logs
    BY <1>1, <1>2, <1>3 DEF Logs
  <2>2. P \in PersistLogs
    BY <1>1, <1>2, <1>4 DEF PersistLogs
  <2> QED
    BY <2>1, <2>2
<1>8. \A t \in Payloads :
        \/ L[t] = s.log[t] /\ \A i \in 1 .. Len(rs) : rs[i].tx # t
        \/ \E i \in 1 .. Len(rs) : rs[i].tx = t /\ L[t] = rs[i].wall
  <2> TAKE t \in Payloads
  <2>1. L[t] = IF of(t) = 0 THEN s.log[t] ELSE rs[of(t)].wall
    OBVIOUS
  <2> QED
    BY <1>1, <1>3, <2>1
<1>9. \A q \in Seqs :
        \/ P[q] = s.persist_log[q] /\ \A i \in 1 .. Len(rs) : rs[i].seq # q
        \/ \E i \in 1 .. Len(rs) : /\ rs[i].seq = q /\ P[q] = rs[i].tx
                                   /\ \A k \in 1 .. Len(rs) : rs[k].seq = q => k <= i
  <2> TAKE q \in Seqs
  <2>1. P[q] = IF at(q) = 0 THEN s.persist_log[q] ELSE rs[at(q)].tx
    OBVIOUS
  <2> QED
    BY <1>1, <1>4, <2>1
<1>11. R \in BOOLEAN
  BY DEF States
<1> HIDE DEF L, P, R
<1>10. /\ a \in States /\ a.log = L /\ a.persist_log = P /\ a.next_seq = n
       /\ a.last_ack = s.last_ack /\ a.ticked = s.ticked
  <2>1. [s EXCEPT !.row = R, !.log = L, !.persist_log = P, !.next_seq = n] \in States
    BY <1>5, <1>7, <1>11 DEF States
  <2>2. /\ [s EXCEPT !.row = R, !.log = L, !.persist_log = P, !.next_seq = n].log = L
        /\ [s EXCEPT !.row = R, !.log = L, !.persist_log = P, !.next_seq = n].persist_log = P
        /\ [s EXCEPT !.row = R, !.log = L, !.persist_log = P, !.next_seq = n].next_seq = n
        /\ [s EXCEPT !.row = R, !.log = L, !.persist_log = P, !.next_seq = n].last_ack = s.last_ack
        /\ [s EXCEPT !.row = R, !.log = L, !.persist_log = P, !.next_seq = n].ticked = s.ticked
    BY DEF States
  <2> QED
    BY <1>6, <2>1, <2>2
<1> QED
  BY <1>1, <1>5, <1>8, <1>9, <1>10 DEF Applied

\* reload: what the files give back is what the memory held, but for what has
\* expired and for what reached no file.
LEMMA ReloadStep ==
    ASSUME IInv, reload
    PROVE  IInv' /\ \A t \in ids(st'.log) : st'.log[t] = st.log[t]
<1> DEFINE n == Len(records)
<1>1. TypeOK /\ ClockInv /\ SeqInv /\ TimeInv /\ FoldInv /\ FileInv /\ FreshInv /\ KeptInv /\ SeqFresh
  BY DEF IInv
<1>2. /\ crashes < MaxCrashes /\ crashes' = crashes + 1 /\ st' = apply(snapshot, records)
      /\ unsaved' = <<>> /\ UNCHANGED <<engine, now, snapshot, records, stored, sent, fresh>>
  BY DEF reload, host
<1>3. /\ records \in Seq(Records) /\ All \in Seq(Records) /\ n \in Nat
      /\ \A i \in 1 .. n : i \in 1 .. Len(All) /\ All[i] = records[i] /\ records[i] \in Records
      /\ snapshot \in States /\ st \in States
  BY <1>1, Types
<1>4. /\ \A i \in 1 .. n : /\ records[i].seq \in Nat /\ records[i].seq \in Seqs
                           /\ records[i].tx \in Payloads /\ records[i].wall \in Clock
      /\ snapshot.next_seq \in Nat /\ MaxCrashes \in Nat
  BY <1>3, RecordFields, StateFields, TxLogAssumption
<1>5. \A i \in 1 .. n : records[i].seq < MaxSeq
  BY <1>1, <1>3 DEF SeqInv
<1>6. /\ st' \in States
      /\ st'.last_ack = snapshot.last_ack /\ st'.ticked = snapshot.ticked
      /\ st'.next_seq >= snapshot.next_seq
      /\ \A i \in 1 .. n : records[i].seq < st'.next_seq
      /\ \A t \in Payloads :
            \/ st'.log[t] = snapshot.log[t] /\ \A i \in 1 .. n : records[i].tx # t
            \/ \E i \in 1 .. n : records[i].tx = t /\ st'.log[t] = records[i].wall
      /\ \A q \in Seqs :
            \/ st'.persist_log[q] = snapshot.persist_log[q] /\ \A i \in 1 .. n : records[i].seq # q
            \/ \E i \in 1 .. n : /\ records[i].seq = q /\ st'.persist_log[q] = records[i].tx
                                 /\ \A k \in 1 .. n : records[k].seq = q => k <= i
  <2>1. snapshot \in States /\ records \in Seq(Records)
    BY <1>3
  <2>2. \A i \in 1 .. Len(records) : records[i].seq < MaxSeq
    BY <1>5
  <2>3. Applied(snapshot, records, apply(snapshot, records))
    BY <2>1, <2>2, ApplyFields, Zenon
  <2> QED
    BY <1>2, <2>3 DEF Applied
<1>7. st'.next_seq \in Nat
  BY <1>6, StateFields
<1>8. All' = records
  BY <1>2, <1>3 DEF All
<1>9. ASSUME NEW t \in ids(st'.log)
      PROVE  /\ t \in Payloads /\ st'.log[t] = st.log[t]
             /\ t \in ids(snapshot.log) \/ \E i \in 1 .. n : records[i].tx = t
  <2>1. t \in Payloads /\ st'.log[t] # Absent
    BY DEF ids
  <2>2. CASE st'.log[t] = snapshot.log[t]
    <3>1. t \in ids(snapshot.log)
      BY <2>1, <2>2 DEF ids
    <3> QED
      BY <1>1, <2>1, <2>2, <3>1 DEF TimeInv
  <2>3. ASSUME NEW i \in 1 .. n, records[i].tx = t, st'.log[t] = records[i].wall
        PROVE  st'.log[t] = st.log[t]
    BY <1>1, <1>3, <2>3 DEF TimeInv
  <2> QED
    BY <1>6, <2>1, <2>2, <2>3
<1>10. ASSUME NEW i \in 1 .. n
       PROVE  records[i].tx \in ids(st'.log) /\ st'.log[records[i].tx] = records[i].wall
  <2>1. PICK k \in 1 .. n : records[k].tx = records[i].tx /\ st'.log[records[i].tx] = records[k].wall
    BY <1>4, <1>6
  <2>2. st.log[records[k].tx] = records[k].wall /\ st.log[records[i].tx] = records[i].wall
    BY <1>1, <1>3 DEF TimeInv
  <2>3. records[i].wall # Absent
    BY <1>4, TxLogAssumption DEF Clock, Absent
  <2> QED
    BY <1>4, <2>1, <2>2, <2>3 DEF ids
<1>11. ASSUME NEW t \in ids(snapshot.log)
       PROVE  t \in ids(st'.log) /\ st'.log[t] = snapshot.log[t]
  <2>1. t \in Payloads /\ snapshot.log[t] # Absent
    BY DEF ids
  <2>2. ASSUME NEW i \in 1 .. n, records[i].tx = t, st'.log[t] = records[i].wall
        PROVE  st'.log[t] = snapshot.log[t]
    BY <1>1, <1>3, <2>2 DEF TimeInv
  <2>3. st'.log[t] = snapshot.log[t]
    BY <1>6, <2>1, <2>2
  <2> QED
    BY <2>1, <2>3 DEF ids
<1>12. ASSUME NEW i \in 1 .. n, NEW j \in 1 .. i, records[j].tx = records[i].tx,
              Owns(All, j, st.next_seq)
       PROVE  /\ Owns(records, j, st'.next_seq)
              /\ \E q \in Seqs : st'.persist_log[q] = records[i].tx
  <2>1. j \in 1 .. n
    BY <1>3
  <2>2. \A k \in 1 .. n : k > j /\ records[k].seq = records[j].seq => records[k].tx = records[j].tx
    BY <1>3, <1>12, <2>1 DEF Owns
  <2>3. PICK k \in 1 .. n : /\ records[k].seq = records[j].seq
                            /\ st'.persist_log[records[j].seq] = records[k].tx
                            /\ \A l \in 1 .. n : records[l].seq = records[j].seq => l <= k
    BY <1>4, <1>6, <2>1
  <2>4. k > j \/ k = j
    BY <1>3, <2>1, <2>3
  <2>5. records[k].tx = records[i].tx
    BY <1>12, <2>2, <2>3, <2>4
  <2> QED
    BY <1>4, <1>6, <2>1, <2>2, <2>3, <2>5 DEF Owns
<1>13. ASSUME NEW i \in 1 .. n
       PROVE  \/ expired(records[i].tx, now)
              \/ records[i].tx \in ids(snapshot.log)
              \/ \E j \in 1 .. i : records[j].tx = records[i].tx /\ Owns(All, j, st.next_seq)
  <2>1. expired(records[i].tx, now) \/ Backed(records[i].tx, All, i, st.next_seq, snapshot)
    BY <1>1, <1>3 DEF FileInv
  <2>2. \A j \in 1 .. i : j \in 1 .. n
    BY <1>3
  <2> QED
    BY <1>3, <2>1, <2>2 DEF Backed
<1>14. TypeOK'
  BY <1>1, <1>2, <1>4, <1>6 DEF TypeOK
<1>15. ClockInv'
  BY <1>1, <1>2, <1>6 DEF ClockInv
<1>16. SeqInv'
  <2>1. ASSUME NEW q \in Seqs, st'.persist_log[q] # NoTx PROVE q < st'.next_seq
    <3>1. CASE st'.persist_log[q] = snapshot.persist_log[q]
      <4>1. q < snapshot.next_seq
        BY <1>1, <2>1, <3>1 DEF SeqInv
      <4> QED
        BY <1>4, <1>6, <1>7, <4>1, TxLogAssumption DEF Seqs
    <3>2. ASSUME NEW i \in 1 .. n, records[i].seq = q PROVE q < st'.next_seq
      BY <1>6, <3>2
    <3> QED
      BY <1>6, <3>1, <3>2
  <2>2. \A i \in 1 .. n : records[i].seq < MaxSeq /\ records[i].seq <= st'.next_seq
    BY <1>4, <1>5, <1>6, <1>7
  <2>3. snapshot.next_seq <= st'.next_seq
    BY <1>4, <1>6, <1>7
  <2> QED
    BY <1>1, <1>2, <1>8, <2>1, <2>2, <2>3 DEF SeqInv
<1>17. TimeInv'
  BY <1>2, <1>8, <1>10, <1>11 DEF TimeInv
<1>18. FoldInv'
  <2>1. ASSUME NEW t \in ids(st'.log)
        PROVE  \/ expired(t, now) \/ t \in watermark_of(st')
               \/ \E q \in Seqs : st'.persist_log[q] = t
    <3>1. CASE st'.last_ack = {}
      BY <3>1 DEF watermark_of
    <3>2. CASE st'.last_ack # {} /\ t \in ids(snapshot.log)
      BY <1>1, <1>6, <3>2 DEF FoldInv, watermark_of
    <3>3. ASSUME NEW i \in 1 .. n, records[i].tx = t, t \notin ids(snapshot.log)
          PROVE  expired(t, now) \/ \E q \in Seqs : st'.persist_log[q] = t
      BY <1>12, <1>13, <3>3
    <3> QED
      BY <1>9, <3>1, <3>2, <3>3
  <2> QED
    BY <1>1, <1>2, <2>1 DEF FoldInv
<1>19. FileInv'
  <2>1. ASSUME NEW i \in 1 .. n, NEW m \in i .. n
        PROVE  expired(records[i].tx, now) \/ Backed(records[i].tx, records, m, st'.next_seq, snapshot)
    <3>1. \A j \in 1 .. i : j \in 1 .. m
      BY <1>3
    <3> QED
      BY <1>12, <1>13, <3>1 DEF Backed
  <2>2. ASSUME NEW t \in ids(st'.log)
        PROVE  expired(t, now) \/ Backed(t, records, n, st'.next_seq, snapshot)
    <3>1. CASE t \in ids(snapshot.log)
      BY <3>1 DEF Backed
    <3>2. ASSUME NEW i \in 1 .. n, records[i].tx = t
          PROVE  expired(t, now) \/ Backed(t, records, n, st'.next_seq, snapshot)
      <4>1. n \in i .. n
        BY <1>3
      <4> QED
        BY <2>1, <3>2, <4>1
    <3> QED
      BY <1>9, <3>1, <3>2
  <2>3. ASSUME NEW i \in 1 .. n
        PROVE  expired(records[i].tx, now) \/ Backed(records[i].tx, records, i, st'.next_seq, snapshot)
    <3>1. i \in i .. n
      BY <1>3
    <3> QED
      BY <2>1, <3>1
  <2>4. \A i \in 1 .. n : records[i].seq < snapshot.next_seq =>
                            expired(records[i].tx, now) \/ records[i].tx \in ids(snapshot.log)
    BY <1>1, <1>3 DEF FileInv
  <2> QED
    BY <1>2, <1>8, <2>2, <2>3, <2>4 DEF FileInv
<1>20. FreshInv'
  <2>1. ASSUME NEW f \in fresh PROVE f[1] < st'.next_seq
    <3>1. f[1] \in Nat
      BY <1>1, TxLogAssumption DEF TypeOK, Seqs
    <3>2. CASE f[1] < snapshot.next_seq
      BY <1>4, <1>6, <1>7, <3>1, <3>2
    <3>3. ASSUME NEW i \in 1 .. n, records[i].seq = f[1] PROVE f[1] < st'.next_seq
      BY <1>6, <3>3
    <3> QED
      BY <1>1, <3>2, <3>3 DEF FreshInv
  <2>2. 1 .. Len(unsaved') = {}
    BY <1>2
  <2> QED
    BY <1>1, <1>2, <2>1, <2>2 DEF FreshInv
<1>21. KeptInv'
  <2>1. ASSUME NEW t \in stored, ~expired(t, now) PROVE t \in ids(st'.log) /\ InFiles(t)
    <3>1. InFiles(t) /\ t \in Payloads
      BY <1>1, <2>1 DEF KeptInv, TypeOK
    <3>2. CASE snapshot.log[t] # Absent
      <4>1. t \in ids(snapshot.log)
        BY <3>1, <3>2 DEF ids
      <4> QED
        BY <1>11, <3>1, <4>1
    <3>3. ASSUME NEW i \in 1 .. n, records[i].tx = t PROVE t \in ids(st'.log)
      BY <1>10, <3>3
    <3> QED
      BY <3>1, <3>2, <3>3 DEF InFiles
  <2> QED
    BY <1>2, <2>1 DEF KeptInv, InFiles
<1>22. SeqFresh'
  BY <1>1, <1>2 DEF SeqFresh
<1> QED
  BY <1>9, <1>14, <1>15, <1>16, <1>17, <1>18, <1>19, <1>20, <1>21, <1>22 DEF IInv

\* reload_refused: the files, and what the dead process had, stay as they were.
LEMMA RefusedStep ==
    ASSUME IInv, reload_refused
    PROVE  IInv' /\ st' = st
<1>1. /\ crashes' = crashes + 1 /\ crashes < MaxCrashes /\ engine' = "refused"
      /\ UNCHANGED <<now, st, snapshot, records, unsaved, stored, sent, fresh>>
  BY DEF reload_refused
<1>2. All' = All
  BY <1>1 DEF All
<1>3. TypeOK'
  BY <1>1, TxLogAssumption DEF IInv, TypeOK
<1>4. ClockInv' /\ SeqInv' /\ TimeInv'
  BY <1>1, <1>2 DEF IInv, ClockInv, SeqInv, TimeInv
<1>5. FoldInv' /\ FileInv' /\ FreshInv'
  BY <1>1, <1>2 DEF IInv, FoldInv, FileInv, FreshInv
<1>6. KeptInv' /\ SeqFresh'
  BY <1>1 DEF IInv, KeptInv, SeqFresh, InFiles
<1> QED
  BY <1>1, <1>3, <1>4, <1>5, <1>6 DEF IInv

-----------------------------------------------------------------------------
(* The theorems *)

\* A new device has stored nothing.
LEMMA InitInv == Init => IInv
<1> SUFFICES ASSUME Init PROVE IInv
  OBVIOUS
<1>1. /\ now = 0 /\ st = NewState /\ snapshot = NewState /\ records = <<>> /\ unsaved = <<>>
      /\ engine = "running"
      /\ crashes = 0 /\ stored = {} /\ sent = {} /\ fresh = {}
  BY DEF Init
<1>2. 0 \in Clock /\ 0 \in Seqs /\ 0 \in 0 .. MaxCrashes
  BY TxLogAssumption DEF Clock, Seqs
<1>3. /\ NewState \in States /\ NewState.ticked = 0 /\ NewState.next_seq = 0
      /\ NewState.last_ack = {}
      /\ NewState.log = [t \in Payloads |-> Absent]
      /\ NewState.persist_log = [q \in Seqs |-> NoTx]
  BY <1>2 DEF NewState, States, Logs, PersistLogs, Senders
<1>4. ids(NewState.log) = {} /\ \A q \in Seqs : NewState.persist_log[q] = NoTx
  BY <1>3 DEF ids
<1>5. All = <<>> /\ Len(All) = 0 /\ 1 .. Len(All) = {}
  BY <1>1 DEF All
<1>6. TypeOK
  BY <1>1, <1>2, <1>3 DEF TypeOK
<1>7. ClockInv /\ SeqInv /\ TimeInv
  BY <1>1, <1>3, <1>4, <1>5 DEF ClockInv, SeqInv, TimeInv
<1>8. FoldInv /\ FileInv
  BY <1>1, <1>3, <1>4, <1>5 DEF FoldInv, FileInv
<1>9. FreshInv /\ KeptInv /\ SeqFresh
  BY <1>1 DEF FreshInv, KeptInv, SeqFresh
<1> QED
  BY <1>6, <1>7, <1>8, <1>9 DEF IInv

\* What a step may not do to the times in the log.
SameTimes == \A t \in ids(st.log) \cap ids(st'.log) : st'.log[t] = st.log[t]

\* Every step keeps the invariant and the times.
LEMMA StepInv == IInv /\ [Next]_vars => IInv' /\ (SameTimes \/ UNCHANGED vars)
<1> SUFFICES ASSUME IInv, [Next]_vars PROVE IInv' /\ (SameTimes \/ UNCHANGED vars)
  OBVIOUS
<1>1. CASE tick \/ open_row \/ ingest_ack
  BY <1>1, QuietCalls DEF SameTimes
<1>2. ASSUME NEW n \in Names, send(n) PROVE IInv' /\ SameTimes
  BY <1>2, MintOn DEF send, Grows, SameTimes
<1>3. ASSUME NEW n \in Names, set_conversation_prefs(n) PROVE IInv' /\ SameTimes
  BY <1>3, MintOn DEF set_conversation_prefs, Grows, SameTimes
<1>4. ASSUME NEW n \in Names, NEW life \in Lives, NEW wall \in Clock, NEW matches \in BOOLEAN,
             ingest_packet(n, life, wall, matches)
      PROVE  IInv' /\ SameTimes
  BY <1>4, IngestPacket DEF Grows, SameTimes
<1>5. CASE Save
  BY <1>5, SaveInv DEF Grows, SameTimes
<1>6. CASE fold
  BY <1>6, FoldStep DEF Grows, SameTimes
<1>7. CASE Truncate
  BY <1>7, TruncateStep DEF Grows, SameTimes
<1>8. CASE reload
  BY <1>8, ReloadStep DEF SameTimes
<1>10. CASE reload_refused
  BY <1>10, RefusedStep DEF SameTimes
<1>9. CASE UNCHANGED vars
  <2>1. UNCHANGED <<engine, now, st, snapshot, records, unsaved, crashes, stored, sent, fresh>>
    BY <1>9 DEF vars
  <2>2. All' = All
    BY <2>1 DEF All
  <2>3. TypeOK' /\ ClockInv' /\ SeqInv' /\ TimeInv'
    BY <2>1, <2>2 DEF IInv, TypeOK, ClockInv, SeqInv, TimeInv
  <2>4. FoldInv' /\ FileInv' /\ FreshInv'
    BY <2>1, <2>2 DEF IInv, FoldInv, FileInv, FreshInv
  <2>5. KeptInv' /\ SeqFresh'
    BY <2>1 DEF IInv, KeptInv, SeqFresh, InFiles
  <2> QED
    BY <1>9, <2>3, <2>4, <2>5 DEF IInv
<1> QED
  BY <1>1, <1>2, <1>3, <1>4, <1>5, <1>6, <1>7, <1>8, <1>9, <1>10 DEF Next

\* The invariant holds in every reachable state.
LEMMA Inductive == Spec => []IInv
<1>1. IInv /\ [Next]_vars => IInv'
  BY StepInv
<1> QED
  BY <1>1, InitInv, PTL DEF Spec

\* The memory, the snapshot and the records have their types after any history of
\* sends, receipts, folds, dropped records and crashes.
THEOREM TypeCorrect == Spec => []TypeOK
<1>1. IInv => TypeOK
  BY DEF IInv
<1> QED
  BY <1>1, Inductive, PTL

\* A transaction that reached a file stays in a file until it has expired, and in
\* memory as long as there is an engine, wherever the host stops between a record,
\* a fold and a dropped record.
THEOREM KeptAlways == Spec => []Kept
<1>1. IInv => Kept
  BY DEF IInv, KeptInv, Kept
<1> QED
  BY <1>1, Inductive, PTL

\* No two stored new transactions have one persist seq, although merge_tx seals
\* records of old transactions under the next seq and a crash forgets what was
\* not saved.
THEOREM SeqFreshAlways == Spec => []SeqFresh
<1>1. IInv => SeqFresh
  BY DEF IInv
<1> QED
  BY <1>1, Inductive, PTL

\* No step changes the time of a transaction the log holds; a reload brings it
\* back at the time it had.
THEOREM TimesStable == Spec => TimeStable
<1>1. IInv /\ [Next]_vars =>
        [\A t \in ids(st.log) \cap ids(st'.log) : st'.log[t] = st.log[t]]_vars
  BY StepInv DEF SameTimes
<1>2. Spec => []IInv /\ [][Next]_vars
  BY Inductive DEF Spec
<1> QED
  BY <1>1, <1>2, PTL DEF TimeStable
-----------------------------------------------------------------------------
(* The order of a log *)

\* The ids of different payloads differ: the expiry is below the factor of the
\* content's hash.
LEMMA TxIdUnique ==
    ASSUME NEW t \in Payloads, NEW u \in Payloads
    PROVE  tx_id(t) \in Int /\ (tx_id(t) = tx_id(u) => t = u)
<1> DEFINE K == MaxClock + Life + 2
<1>1. K \in Nat /\ K > 0
  BY TxLogAssumption
<1>2. PICK x \in Nat : x = t.expire_at + 1 /\ x < K
  BY TxLogAssumption DEF Payloads, Never
<1>3. PICK y \in Nat : y = u.expire_at + 1 /\ y < K
  BY TxLogAssumption DEF Payloads, Never
<1>4. t.name \in Names /\ u.name \in Names
  BY DEF Payloads, Names
<1>5. PICK g \in Nat : g = Hash(t.name)
  BY <1>4, ChatAssumption
<1>6. PICK h \in Nat : h = Hash(u.name)
  BY <1>4, ChatAssumption
<1>7. t.expire_at \in Int /\ u.expire_at \in Int
  BY TxLogAssumption DEF Payloads, Never
<1>8. tx_id(t) = g * K + x /\ tx_id(u) = h * K + y
  BY <1>1, <1>2, <1>3, <1>5, <1>6, <1>7 DEF tx_id
<1> HIDE DEF K
<1>9. ASSUME NEW a \in Nat, NEW b \in Nat, a < b PROVE a * K + K <= b * K
  <2>1. PICK c \in Nat : b = a + 1 + c
    <3>1. b - a - 1 \in Nat /\ b = a + 1 + (b - a - 1)
      BY <1>9
    <3> QED BY <3>1
  <2>2. b * K = a * K + K + c * K
    BY <1>1, <2>1
  <2>3. c * K >= 0 /\ c * K \in Nat /\ a * K \in Nat
    BY <1>1
  <2> QED BY <1>1, <2>2, <2>3
<1>10. g * K \in Nat /\ h * K \in Nat
  BY <1>1
<1>11. ASSUME tx_id(t) = tx_id(u) PROVE t = u
  <2>1. ~(g < h) /\ ~(h < g)
    BY <1>1, <1>2, <1>3, <1>8, <1>9, <1>10, <1>11
  <2>2. g = h /\ x = y
    BY <1>8, <1>10, <1>11, <2>1
  <2>3. t.name = u.name /\ t.expire_at = u.expire_at
    <3>1. t.name = u.name
      BY <1>4, <1>5, <1>6, <2>2, ChatAssumption
    <3>2. t.expire_at = u.expire_at
      BY <1>2, <1>3, <1>7, <2>2
    <3> QED BY <3>1, <3>2
  <2> QED BY <2>3 DEF Payloads
<1> QED
  BY <1>8, <1>10, <1>11

\* later is a strict total order.
LEMMA LaterOrders ==
    ASSUME NEW log \in Logs
    PROVE  /\ \A t \in Payloads : ~later(log, t, t)
           /\ \A t, u \in Payloads : t = u \/ later(log, t, u) \/ later(log, u, t)
           /\ \A t, u, v \in Payloads : later(log, t, u) /\ later(log, u, v) => later(log, t, v)
<1>1. \A t \in Payloads : log[t] \in Int
  BY TxLogAssumption DEF Logs, Clock, Absent
<1>2. \A t, u \in Payloads : tx_id(t) \in Int /\ (tx_id(t) = tx_id(u) => t = u)
  BY TxIdUnique
<1>3. \A t \in Payloads : ~later(log, t, t)
  BY <1>1, <1>2 DEF later
<1>4. \A t, u \in Payloads : t = u \/ later(log, t, u) \/ later(log, u, t)
  BY <1>1, <1>2 DEF later
<1>5. \A t, u, v \in Payloads : later(log, t, u) /\ later(log, u, v) => later(log, t, v)
  BY <1>1, <1>2 DEF later
<1> QED
  BY <1>3, <1>4, <1>5

-----------------------------------------------------------------------------
(* What trim_recent keeps *)

\* The items that come after t.
After(log, items, t) == {u \in items : later(log, u, t)}

\* A later item has fewer items after it.
LEMMA FewerAfter ==
    ASSUME NEW log \in Logs, NEW items \in SUBSET Payloads, IsFiniteSet(items),
           NEW t \in items, NEW u \in items
    PROVE  /\ IsFiniteSet(After(log, items, t)) /\ Cardinality(After(log, items, t)) \in Nat
           /\ Cardinality(After(log, items, t)) <= Cardinality(items)
           /\ later(log, u, t) =>
                Cardinality(After(log, items, u)) < Cardinality(After(log, items, t))
<1>1. /\ After(log, items, t) \in SUBSET items /\ After(log, items, u) \in SUBSET items
  BY DEF After
<1>2. /\ IsFiniteSet(After(log, items, t)) /\ IsFiniteSet(After(log, items, u))
      /\ Cardinality(After(log, items, t)) <= Cardinality(items)
  BY <1>1, FS_Subset
<1>3. Cardinality(After(log, items, t)) \in Nat /\ Cardinality(After(log, items, u)) \in Nat
  BY <1>2, FS_CardinalityType
<1>4. ASSUME later(log, u, t)
      PROVE  Cardinality(After(log, items, u)) < Cardinality(After(log, items, t))
  <2>1. After(log, items, u) \in SUBSET After(log, items, t)
    BY <1>4, LaterOrders DEF After
  <2>2. u \in After(log, items, t) /\ u \notin After(log, items, u)
    BY <1>4, LaterOrders DEF After
  <2>3. /\ Cardinality(After(log, items, u)) <= Cardinality(After(log, items, t))
        /\ Cardinality(After(log, items, u)) # Cardinality(After(log, items, t))
    BY <1>2, <2>1, <2>2, FS_Subset
  <2> QED BY <1>3, <2>3
<1> QED
  BY <1>2, <1>3, <1>4

\* Every nonempty set of items has a last and a first one.
LEMMA LastAndFirst ==
    ASSUME NEW log \in Logs, NEW items \in SUBSET Payloads, IsFiniteSet(items),
           NEW T \in SUBSET items, T # {}
    PROVE  /\ \E m \in T : \A u \in T : ~later(log, u, m)
           /\ \E w \in T : \A u \in T : ~later(log, w, u)
<1> DEFINE c(u) == Cardinality(After(log, items, u))
<1>1. PICK n \in Nat : n = Cardinality(items)
  BY FS_CardinalityType
<1>2. \A u \in items : c(u) \in 0 .. n
  BY <1>1, FewerAfter
<1>3. \A t, u \in items : later(log, u, t) => c(u) < c(t)
  BY FewerAfter
<1> HIDE DEF c
<1>4. \E w \in T : \A u \in T : ~later(log, w, u)
  <2> DEFINE C == {c(u) : u \in T}
  <2>1. C \in SUBSET (0 .. n) /\ C # {}
    BY <1>2
  <2>2. PICK x \in C : \A y \in C : y <= x
    <3> HIDE DEF C
    <3> QED BY <2>1, Greatest
  <2>3. PICK w \in T : x = c(w)
    BY <2>2
  <2>4. \A u \in T : c(u) <= c(w)
    BY <2>2, <2>3
  <2>5. \A u \in T : c(u) \in Nat
    BY <1>2
  <2>6. \A u \in T : ~(c(w) < c(u))
    BY <2>4, <2>5
  <2>7. ASSUME NEW u \in T, later(log, w, u) PROVE FALSE
    BY <1>3, <2>6, <2>7
  <2> QED BY <2>7
<1>5. \E m \in T : \A u \in T : ~later(log, u, m)
  <2> DEFINE C == {n - c(u) : u \in T}
  <2>1. C \in SUBSET (0 .. n) /\ C # {}
    BY <1>1, <1>2
  <2>2. PICK x \in C : \A y \in C : y <= x
    <3> HIDE DEF C
    <3> QED BY <2>1, Greatest
  <2>3. PICK m \in T : x = n - c(m)
    BY <2>2
  <2>4. \A u \in T : n - c(u) <= n - c(m)
    BY <2>2, <2>3
  <2>5. \A u \in T : c(u) \in Nat
    BY <1>2
  <2>6. \A u \in T : ~(c(u) < c(m))
    BY <1>1, <2>4, <2>5
  <2>7. ASSUME NEW u \in T, later(log, u, m) PROVE FALSE
    BY <1>3, <2>6, <2>7
  <2> QED BY <2>7
<1> QED
  BY <1>4, <1>5

\* An item that trim_recent leaves out has exactly HistoryCap kept items after it.
LEMMA TrimKeepsNewest ==
    ASSUME NEW log \in Logs, NEW items \in SUBSET Payloads, IsFiniteSet(items),
           NEW t \in items, t \notin trim_recent(log, items)
    PROVE  Cardinality({u \in trim_recent(log, items) : later(log, u, t)}) = HistoryCap
<1> DEFINE c(u) == Cardinality(After(log, items, u))
           T == {u \in items : ~(c(u) < HistoryCap)}
<1>1. trim_recent(log, items) = {u \in items : c(u) < HistoryCap}
  BY DEF trim_recent, After
<1>2. \A u \in items : c(u) \in Nat /\ IsFiniteSet(After(log, items, u))
  BY FewerAfter
<1>3. \A u, v \in items : later(log, v, u) => c(v) < c(u)
  BY FewerAfter
<1>4. HistoryCap \in Nat
  BY ChatAssumption
<1>5. PICK m \in T : \A u \in T : ~later(log, u, m)
  <2>1. T \in SUBSET items /\ T # {}
    BY <1>1
  <2> HIDE DEF T
  <2> QED BY <2>1, LastAndFirst
<1>6. c(m) = HistoryCap
  <2>1. CASE After(log, items, m) = {}
    BY <1>2, <1>4, <1>5, <2>1, FS_EmptySet
  <2>2. CASE After(log, items, m) # {}
    <3>1. After(log, items, m) \in SUBSET items
      BY DEF After
    <3>2. PICK w \in After(log, items, m) : \A u \in After(log, items, m) : ~later(log, w, u)
      BY <2>2, <3>1, LastAndFirst
    <3>3. w \in items /\ later(log, w, m) /\ m \in items
      BY <3>2 DEF After
    <3>4. After(log, items, w) = After(log, items, m) \ {w}
      <4>1. \A u \in items : later(log, u, w) => later(log, u, m) /\ u # w
        BY <3>3, LaterOrders
      <4>2. \A u \in items : later(log, u, m) /\ u # w => later(log, u, w)
        BY <3>2, <3>3, LaterOrders DEF After
      <4> QED BY <4>1, <4>2 DEF After
    <3>5. c(w) = c(m) - 1
      <4>1. PICK A : A = After(log, items, m)
        OBVIOUS
      <4>2. IsFiniteSet(A) /\ w \in A
        BY <1>2, <3>2, <3>3, <4>1
      <4>3. Cardinality(A \ {w}) = Cardinality(A) - 1
        BY <4>2, FS_RemoveElement
      <4> QED BY <3>4, <4>1, <4>3
    <3>6. c(w) < HistoryCap
      BY <1>5, <3>3
    <3> QED BY <1>2, <1>4, <1>5, <3>3, <3>5, <3>6
  <2> QED BY <2>1, <2>2
<1>7. t \in T /\ T \subseteq items
  BY <1>1
<1>8. m = t \/ later(log, m, t)
  BY <1>5, <1>7, LaterOrders
<1>9. {u \in trim_recent(log, items) : later(log, u, t)} = After(log, items, m)
  <2>1. ASSUME NEW u \in items, c(u) < HistoryCap, later(log, u, t) PROVE later(log, u, m)
    <3>1. ~later(log, m, u) /\ u # m
      BY <1>2, <1>3, <1>4, <1>6, <2>1, <1>7
    <3> QED BY <1>7, <3>1, LaterOrders
  <2>2. ASSUME NEW u \in items, later(log, u, m) PROVE c(u) < HistoryCap /\ later(log, u, t)
    <3>1. c(u) < HistoryCap
      BY <1>5, <2>2
    <3>2. later(log, u, t)
      BY <1>7, <1>8, <2>2, LaterOrders
    <3> QED BY <3>1, <3>2
  <2> HIDE DEF c
  <2>3. \A u : u \in {v \in trim_recent(log, items) : later(log, v, t)} <=> u \in After(log, items, m)
    BY <1>1, <2>1, <2>2 DEF After
  <2> QED BY <2>3
<1> QED
  BY <1>6, <1>9

-----------------------------------------------------------------------------
(* The log and its senders *)

\* The log is finite, every item in it has a sender who sent it or lost it in a
\* reload, and the folded file has no senders.
HInv ==
    /\ IsFiniteSet(ids(st.log))
    /\ \A t \in ids(st.log) : chat_item(t) =>
         <<st.senders[t], t>> \in sent \/ (st.senders[t] = "Handshake" /\ crashes > 0)
    /\ snapshot.senders = NewState.senders

\* Steps that leave log and senders alone, and do not make the folded file know one.
LEMMA SameItems ==
    ASSUME HInv, st'.log = st.log, st'.senders = st.senders, sent' = sent,
           crashes' = crashes \/ crashes' > 0,
           snapshot'.senders = NewState.senders
    PROVE  HInv'
BY DEF HInv, NewState, Payloads, ids, chat_item, Never, Absent, NoTx, Seqs

\* Between s and u nothing came but t.
OnlyNew(t, s, u) ==
    /\ ids(u.log) \subseteq ids(s.log) \cup {t}
    /\ \A v \in Payloads : v # t => u.senders[v] = s.senders[v]

\* Steps that bring the transaction t, from who.
LEMMA NewItem ==
    ASSUME HInv, NEW t \in Payloads, NEW who, OnlyNew(t, st, st'),
           st'.senders[t] = who \/ ~chat_item(t),
           sent' = sent \cup {<<who, t>>}, crashes' = crashes, snapshot' = snapshot
    PROVE  HInv'
<1>1. IsFiniteSet(ids(st'.log))
  <2>1. IsFiniteSet(ids(st.log) \cup {t})
    BY FS_AddElement DEF HInv
  <2> QED BY <2>1, FS_Subset DEF OnlyNew
<1>2. ASSUME NEW u \in ids(st'.log), chat_item(u)
      PROVE  <<st'.senders[u], u>> \in sent' \/ (st'.senders[u] = "Handshake" /\ crashes' > 0)
  <2>1. u \in Payloads /\ (u = t \/ u \in ids(st.log))
    BY DEF ids, OnlyNew
  <2>2. CASE u = t
    BY <1>2, <2>2
  <2>3. CASE u # t
    BY <1>2, <2>1, <2>3 DEF HInv, OnlyNew
  <2> QED BY <2>2, <2>3
<1>3. (ids(st.log))' = ids(st'.log)
  BY DEF ids, Payloads, Absent, Never
<1> QED
  BY <1>1, <1>2, <1>3 DEF HInv, chat_item, NewState, Payloads, Seqs, NoTx, Absent, Never

\* insert
LEMMA InsertItem ==
    ASSUME NEW s \in States, NEW t \in Payloads, NEW wall \in Clock, s.next_seq < MaxSeq,
           NEW u, u = insert(s, t, wall)
    PROVE  u \in States /\ OnlyNew(t, s, u)
<1>1. /\ u \in States
      /\ u.log = [s.log EXCEPT ![t] = wall]
      /\ u.persist_log = [s.persist_log EXCEPT ![s.next_seq] = t]
      /\ u.next_seq = s.next_seq + 1
      /\ u.last_ack = s.last_ack
      /\ u.ticked = s.ticked
  BY InsertFields
<1>2. u.senders = s.senders
  BY DEF insert, States
<1>3. s.log \in Logs
  BY StateFields
<1>4. ids(u.log) \subseteq ids(s.log) \cup {t}
  BY <1>1, <1>3 DEF ids, Logs
<1> QED
  BY <1>1, <1>2, <1>4 DEF OnlyNew

\* remember_sender
LEMMA RememberItem ==
    ASSUME NEW r \in States, NEW s \in States, NEW t \in Payloads, NEW who \in Senders,
           OnlyNew(t, r, s), NEW u, u = remember_sender(s, t, who)
    PROVE  u \in States /\ OnlyNew(t, r, u) /\ u.senders[t] = who
<1>1. u \in States /\ u.log = s.log
  BY SenderFields
<1>2. u.senders = [s.senders EXCEPT ![t] = who] /\ s.senders \in [Payloads -> Senders]
  BY DEF remember_sender, States
<1> QED
  BY <1>1, <1>2 DEF OnlyNew

\* store_durable_last_ack keeps the senders.
LEMMA AckSenders ==
    ASSUME NEW s \in States
    PROVE  store_durable_last_ack(s).senders = s.senders
BY DEF store_durable_last_ack, States

\* folded forgets them.
LEMMA FoldedSenders ==
    ASSUME NEW s \in States
    PROVE  folded(s).senders = NewState.senders
<1> DEFINE A == NewState.senders
<1> HIDE DEF A
<1> QED BY DEF folded, States, A

\* apply leaves those of the snapshot.
LEMMA AppliedSenders ==
    ASSUME NEW s \in States, NEW rs
    PROVE  apply(s, rs).senders = s.senders
BY DEF apply, States

\* mint_on of an item, whose sender is kept, or of preferences.
LEMMA MintItem ==
    ASSUME IInv, IInv', HInv, NEW name \in Names, NEW remembered \in BOOLEAN,
           mint_on(name, remembered), remembered \/ name \in Prefs
    PROVE  HInv'
<1> DEFINE t == payload(name, latest_disappear(st.log), st.ticked)
           merged == merge_tx(st, t)
<1>1. st \in States /\ st.ticked \in Clock /\ st.next_seq < MaxSeq /\ st.log \in Logs
  BY StateFields DEF IInv, TypeOK, mint_on
<1>2. t \in Payloads /\ t.name = name
  BY <1>1, DisappearType, PayloadType DEF payload
<1>3. /\ st' = IF remembered THEN remember_sender(merged.state, t, "Local") ELSE merged.state
      /\ sent' = sent \cup {<<"Local", t>>}
      /\ crashes' = crashes /\ snapshot' = snapshot
  BY DEF mint_on, host
<1>4. remembered \/ ~chat_item(t)
  BY <1>2, ChatAssumption DEF chat_item
<1> HIDE DEF t
<1>5. merged.state = st \/ merged.state = insert(st, t, st.ticked)
  BY DEF merge_tx
<1> DEFINE m == merged.state
<1> HIDE DEF merged, m
<1>6. m \in States /\ OnlyNew(t, st, m)
  <2>1. CASE m = st
    BY <1>1, <2>1 DEF OnlyNew
  <2>2. CASE m = insert(st, t, st.ticked)
    BY <1>1, <1>2, <2>2, InsertItem
  <2> QED BY <1>5, <2>1, <2>2 DEF m
<1>7. OnlyNew(t, st, st') /\ (st'.senders[t] = "Local" \/ ~chat_item(t))
  <2>1. CASE remembered
    <3>1. st' = remember_sender(m, t, "Local") /\ "Local" \in Senders
      BY <1>3, <2>1 DEF m, Senders
    <3> QED BY <1>1, <1>2, <1>6, <3>1, RememberItem
  <2>2. CASE ~remembered
    BY <1>3, <1>4, <1>6, <2>2 DEF m
  <2> QED BY <2>1, <2>2
<1> QED
  BY <1>2, <1>3, <1>7, NewItem

\* ingest_packet
LEMMA IngestItem ==
    ASSUME IInv, IInv', HInv, NEW name \in Names, NEW life \in Lives, NEW wall \in Clock,
           NEW matches \in BOOLEAN, ingest_packet(name, life, wall, matches)
    PROVE  HInv'
<1> DEFINE t == payload(name, life, wall)
           s == insert(st, t, wall)
           merged == remember_sender(s, t, "Peer")
<1>1. st \in States /\ st.next_seq < MaxSeq /\ st.log \in Logs
  BY StateFields DEF IInv, TypeOK, ingest_packet
<1>2. t \in Payloads
  BY PayloadType, LivesType
<1>3. /\ st' = merged \/ st' = store_durable_last_ack(merged)
      /\ sent' = sent \cup {<<"Peer", t>>}
      /\ crashes' = crashes /\ snapshot' = snapshot
  BY DEF ingest_packet, host
<1> HIDE DEF t
<1>4. s \in States /\ OnlyNew(t, st, s)
  BY <1>1, <1>2, InsertItem
<1> HIDE DEF s
<1>5. merged \in States /\ OnlyNew(t, st, merged) /\ merged.senders[t] = "Peer"
  <2>1. "Peer" \in Senders
    BY DEF Senders
  <2> QED BY <1>1, <1>2, <1>4, <2>1, RememberItem
<1> HIDE DEF merged
<1>6. st'.log = merged.log /\ st'.senders = merged.senders
  BY <1>3, <1>5, AckFields, AckSenders
<1>7. OnlyNew(t, st, st') /\ st'.senders[t] = "Peer"
  BY <1>5, <1>6 DEF OnlyNew
<1> QED
  BY <1>2, <1>3, <1>7, NewItem

\* reload: the senders are lost, and nothing is in the log that was not.
LEMMA ReloadItems ==
    ASSUME IInv, IInv', HInv, reload
    PROVE  HInv'
<1>1. /\ snapshot \in States /\ records \in Seq(Records) /\ st \in States
      /\ unsaved \in Seq(Records) /\ crashes \in Nat
  BY TxLogAssumption DEF IInv, TypeOK
<1>2. st' = apply(snapshot, records) /\ crashes' = crashes + 1 /\ snapshot' = snapshot
  BY DEF reload, host
<1>6. ids(st'.log) \in SUBSET ids(st.log)
  BY ReloadStep DEF ids
<1>7. IsFiniteSet(ids(st'.log))
  BY <1>6, FS_Subset DEF HInv
<1>8. st'.senders = NewState.senders
  BY <1>1, <1>2, AppliedSenders DEF HInv
<1>9. \A t \in Payloads : st'.senders[t] = "Handshake"
  BY <1>8 DEF NewState
<1>10. (ids(st.log))' = ids(st'.log)
  BY DEF ids, Payloads, Absent, Never
<1>11. crashes' > 0
  BY <1>1, <1>2
<1>12. snapshot'.senders = NewState.senders
  BY <1>2 DEF HInv
<1>13. \A t \in ids(st'.log) : t \in Payloads
  BY DEF ids
<1> QED
  BY <1>7, <1>9, <1>10, <1>11, <1>12, <1>13
     DEF HInv, NewState, Payloads, Seqs, NoTx, Absent, Never

\* Every step keeps the senders of the items.
LEMMA ItemsStep == IInv /\ IInv' /\ HInv /\ [Next]_vars => HInv'
<1> SUFFICES ASSUME IInv, IInv', HInv, [Next]_vars PROVE HInv'
  OBVIOUS
<1>0. st \in States /\ st' \in States /\ snapshot.senders = NewState.senders
  BY DEF IInv, TypeOK, HInv, States, Logs, PersistLogs, Payloads, Clock, Seqs, NoTx, Senders,
         Absent, Never
<1>1. CASE tick
  <2>1. st'.log = st.log /\ st'.senders = st.senders
    BY <1>0, <1>1 DEF tick, States
  <2> QED BY <1>0, <1>1, <2>1, SameItems DEF tick, host
<1>2. CASE open_row
  <2>1. st'.log = st.log /\ st'.senders = st.senders
    BY <1>0, <1>2 DEF open_row, States
  <2> QED BY <1>0, <1>2, <2>1, SameItems DEF open_row, host
<1>3. CASE ingest_ack
  <2>1. st'.log = st.log /\ st'.senders = st.senders
    BY <1>0, <1>3, AckFields, AckSenders DEF ingest_ack
  <2> QED BY <1>0, <1>3, <2>1, SameItems DEF ingest_ack, host
<1>4. ASSUME NEW n \in Names, send(n) PROVE HInv'
  BY <1>4, MintItem DEF send
<1>5. ASSUME NEW n \in Names, set_conversation_prefs(n) PROVE HInv'
  BY <1>5, MintItem DEF set_conversation_prefs
<1>6. ASSUME NEW n \in Names, NEW life \in Lives, NEW wall \in Clock, NEW matches \in BOOLEAN,
             ingest_packet(n, life, wall, matches)
      PROVE  HInv'
  BY <1>6, IngestItem
<1>7. CASE Save
  BY <1>0, <1>7, SameItems DEF Save
<1>8. CASE fold
  <2>1. snapshot'.senders = NewState.senders
    BY <1>0, <1>8, FoldedSenders DEF fold
  <2> QED BY <1>0, <1>8, <2>1, SameItems DEF fold
<1>9. CASE Truncate
  BY <1>0, <1>9, SameItems DEF Truncate
<1>10. CASE reload
  BY <1>10, ReloadItems
<1>12. CASE reload_refused
  <2>1. crashes \in Nat /\ crashes' = crashes + 1 /\ UNCHANGED <<st, snapshot, sent>>
    BY <1>12, TxLogAssumption DEF reload_refused, IInv, TypeOK
  <2>2. crashes' > 0
    BY <2>1
  <2> QED BY <1>0, <2>1, <2>2, SameItems
<1>11. CASE UNCHANGED vars
  BY <1>0, <1>11, SameItems DEF vars
<1> QED
  BY <1>1, <1>2, <1>3, <1>4, <1>5, <1>6, <1>7, <1>8, <1>9, <1>10, <1>11, <1>12 DEF Next

\* Nothing is in the log at first.
LEMMA ItemsInit == Init => HInv
<1> SUFFICES ASSUME Init PROVE HInv
  OBVIOUS
<1>1. ids(st.log) = {}
  BY DEF Init, NewState, ids
<1> QED
  BY <1>1, FS_EmptySet DEF Init, HInv

\* The senders' invariant holds in every reachable state.
LEMMA ItemsInvariant == Spec => [](IInv /\ HInv)
<1>1. IInv /\ HInv /\ [Next]_vars => HInv'
  BY ItemsStep, StepInv
<1>2. Spec => []IInv
  BY Inductive
<1> QED
  BY <1>1, <1>2, ItemsInit, PTL DEF Spec

-----------------------------------------------------------------------------
(* The history *)

\* What reached a file is shown until it expires or HistoryCap newer items are,
\* up to the first reload under the name of one who sent it, and nothing expired
\* (history, trim_recent, remember_sender), for every set of contents, every cap
\* and every bound.
THEOREM HistoryShowsAlways == Spec => []HistoryShows
<1>1. ASSUME IInv, HInv PROVE HistoryShows
  <2> DEFINE items == {t \in ids(st.log) : chat_item(t) /\ ~expired(t, st.ticked)}
             kept == trim_recent(st.log, items)
             item(t) == [tx |-> t, sender |-> st.senders[t], wall |-> st.log[t]]
             shown == history(st)
  <2>1. shown = {item(t) : t \in kept}
    BY DEF history
  <2>2. /\ st.log \in Logs /\ items \in SUBSET Payloads /\ IsFiniteSet(items)
        /\ kept \subseteq items /\ st.ticked \in Int
    <3>1. st.log \in Logs /\ st.ticked \in Nat
      BY <1>1, StateFields DEF IInv, TypeOK
    <3>2. items \in SUBSET ids(st.log) /\ items \in SUBSET Payloads
      BY DEF ids
    <3>3. kept \subseteq items
      BY DEF trim_recent
    <3> QED BY <1>1, <3>1, <3>2, <3>3, FS_Subset DEF HInv
  <2>3. \A t \in kept : item(t) \in shown /\ item(t).tx = t /\ item(t).sender = st.senders[t]
    BY <2>1
  <2>4. \A i \in shown : i.tx \in kept /\ i = item(i.tx)
    BY <2>1
  <2> HIDE DEF shown, item
  <2>5. ASSUME NEW t \in stored, chat_item(t), ~expired(t, st.ticked), ~expired(t, now),
               t \notin {i.tx : i \in shown}
        PROVE  Cardinality({i \in shown : later(st.log, i.tx, t)}) = HistoryCap
    <3> DEFINE newer == {u \in kept : later(st.log, u, t)}
               above == {i \in shown : later(st.log, i.tx, t)}
    <3>1. t \in items
      BY <1>1, <2>5 DEF IInv, KeptInv
    <3>2. t \notin kept
      BY <2>3, <2>5
    <3> HIDE DEF items
    <3>3. Cardinality(newer) = HistoryCap
      BY <2>2, <3>1, <3>2, TrimKeepsNewest
    <3>4. IsFiniteSet(newer)
      BY <2>2, FS_Subset
    <3>5. ExistsBijection(newer, above)
      <4> DEFINE f == [u \in newer |-> item(u)]
      <4> HIDE DEF kept
      <4>1. f \in [newer -> above]
        BY <2>3
      <4>2. \A u, v \in newer : f[u] = f[v] => u = v
        BY <2>3
      <4>3. \A i \in above : \E u \in newer : f[u] = i
        BY <2>4
      <4> HIDE DEF f
      <4>4. f \in Injection(newer, above)
        BY <4>1, <4>2 DEF Injection, IsInjective
      <4>5. f \in Surjection(newer, above)
        BY <4>1, <4>3 DEF Surjection
      <4> QED
        BY <4>4, <4>5 DEF ExistsBijection, Bijection
    <3> QED BY <3>3, <3>4, <3>5, FS_Bijection
  <2>6. ASSUME NEW i \in shown
        PROVE  /\ crashes = 0 => <<i.sender, i.tx>> \in sent
               /\ i.tx.expire_at = Never \/ i.tx.expire_at > st.ticked
    <3>1. i.tx \in items /\ i.sender = st.senders[i.tx]
      BY <2>2, <2>3, <2>4
    <3>2. i.tx \in Payloads /\ i.tx.expire_at \in Int
      BY <2>2, <3>1, TxLogAssumption DEF Payloads, Never
    <3>3. <<i.sender, i.tx>> \in sent \/ (i.sender = "Handshake" /\ crashes > 0)
      BY <1>1, <3>1 DEF HInv
    <3>4. i.tx.expire_at = Never \/ i.tx.expire_at > st.ticked
      BY <2>2, <3>1, <3>2 DEF expired
    <3> QED BY <3>3, <3>4
  <2> QED
    BY <2>5, <2>6 DEF HistoryShows, shown
<1> QED
  BY <1>1, ItemsInvariant, PTL
=============================================================================
