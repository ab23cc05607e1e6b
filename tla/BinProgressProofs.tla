--------------------------- MODULE BinProgressProofs ---------------------------
(***************************************************************************)
(* Proofs about BinProgress, for every list_from, retention, delay, number *)
(* of packets and number of reloads.                                       *)
(*                                                                         *)
(* WatermarkSound and LossOnlyIfLate are not inductive: a reload brings    *)
(* the folded progress back, so what they say must also hold of the        *)
(* snapshot, and a list under way must be known to hold what its bin held  *)
(* when it was read.  IInv adds exactly these parts.                       *)
(***************************************************************************)
EXTENDS BinProgress, TLAPS

\* The bins that a progress entry marks as complete, at or above list_from.
Done(mark, done) == {b \in Bins : b >= ListFrom /\ (b <= mark \/ b \in done)}

Start(mark) == IF mark = NoMark THEN ListFrom ELSE mark + 1

\* Complete bins were listed, and advance_progress left no run behind, in the
\* live entry and in the folded one.
ProgressInv ==
    /\ Done(watermark, completed) \subseteq listed
    /\ Start(watermark) \notin completed
    /\ Done(saved.watermark, saved.completed) \subseteq saved.listed
    /\ saved.listed \subseteq listed
    /\ Start(saved.watermark) \notin saved.completed

\* Nothing is posted beyond the bin after the current one.
ReachInv == \A p \in store : p.bin <= w + 1

\* A list under way holds its bin as it was when read.
SnapshotInv ==
    \A s \in fetched : \A p \in store :
        p.bin = s.bin => p \in s.got \cup late \cup omitted

\* What a complete bin holds was merged, came late, was omitted or swallowed,
\* live and folded.
MergedInv ==
    \A p \in store :
        /\ p.bin \in Done(watermark, completed)
              => p \in ingested \cup late \cup omitted \cup swallowed
        /\ p.bin \in Done(saved.watermark, saved.completed)
              => p \in saved.ingested \cup late \cup omitted \cup swallowed

IInv == TypeOK /\ ProgressInv /\ ReachInv /\ SnapshotInv /\ MergedInv

-----------------------------------------------------------------------------
\* What complete_list_bin establishes: the watermark stays a bin, only the
\* listed bin becomes complete, and the next bin to catch up on is not already
\* in completed.
LEMMA CompleteListBin ==
    ASSUME TypeOK, ProgressInv, NEW b \in Bins, complete_list_bin(b)
    PROVE  /\ watermark' \in Bins \cup {NoMark}
           /\ completed' \in SUBSET Bins
           /\ Done(watermark', completed') \subseteq Done(watermark, completed) \cup {b}
           /\ Start(watermark') \notin completed'
<1> USE BinAssumption
<1>1. CASE watermark # NoMark /\ b <= watermark
  <2>1. watermark' = watermark /\ completed' = completed
    BY <1>1 DEF complete_list_bin
  <2> QED
    BY <2>1 DEF TypeOK, ProgressInv
<1>2. CASE ~(watermark # NoMark /\ b <= watermark)
  <2> DEFINE done == completed \cup {b}
             next == catch_up_start
  <2>0. watermark \in Bins \cup {NoMark} /\ completed \in SUBSET Bins
        /\ w \in ListFrom .. MaxBin
    BY DEF TypeOK
  <2>1. next \in Nat /\ next = Start(watermark)
    BY <2>0 DEF catch_up_start, Start, Bins, NoMark
  <2>2. PICK top \in (next - 1) .. (w + 1) :
           /\ (next .. top) \subseteq done
           /\ (top + 1) \notin done
           /\ watermark' = IF top < next THEN watermark ELSE top
           /\ completed' = done \ (next .. top)
    BY <1>2 DEF complete_list_bin
  <2>3. top \in Int /\ top <= MaxBin + 1
    BY <2>0, <2>1, <2>2
  <2>4. watermark' \in Bins \cup {NoMark} /\ completed' \in SUBSET Bins
    <3>1. ~(top < next) => top \in Bins
      BY <2>1, <2>3 DEF Bins
    <3>2. watermark' \in Bins \cup {NoMark}
      BY <2>0, <2>2, <3>1
    <3>3. completed' \in SUBSET Bins
      BY <2>0, <2>2
    <3> QED BY <3>2, <3>3
  <2>5. Start(watermark') \notin completed'
    BY <2>0, <2>1, <2>2, <2>3 DEF Start, Bins, NoMark
  <2>6. ASSUME NEW c \in Done(watermark', completed')
        PROVE  c \in Done(watermark, completed) \cup {b}
    <3>1. c \in Bins /\ c >= ListFrom /\ (c <= watermark' \/ c \in completed')
      BY DEF Done
    <3>2. CASE c \in completed'
      BY <2>2, <3>1, <3>2 DEF Done
    <3>3. CASE c <= watermark'
      <4>1. CASE top < next
        BY <2>2, <3>1, <3>3, <4>1 DEF Done
      <4>2. CASE ~(top < next)
        <5>1. c <= top
          BY <2>2, <3>3, <4>2
        <5>2. CASE c < next
          BY <2>0, <2>1, <3>1, <5>2 DEF Done, Start, Bins, NoMark
        <5>3. CASE c >= next
          <6>1. c \in next .. top
            BY <2>1, <2>3, <3>1, <5>1, <5>3 DEF Bins
          <6> QED BY <2>2, <3>1, <6>1 DEF Done
        <5> QED BY <2>1, <3>1, <5>2, <5>3 DEF Bins
      <4> QED BY <4>1, <4>2
    <3> QED BY <3>1, <3>2, <3>3
  <2> QED BY <2>4, <2>5, <2>6
<1> QED BY <1>1, <1>2

\* What one list or one body may come to: some of it is merged, and the row has
\* a status.
LEMMA Opened ==
    ASSUME row \in Statuses, NEW got, NEW o \in opened(got)
    PROVE  o[1] \subseteq got /\ o[2] \in Statuses
<1>1. CASE row \in Live /\ got # {}
  <2>1. \/ o \in {<<got \ far, to>> : far \in SUBSET {p \in got : p.id \in Far}, to \in Live}
        \/ o \in {<<some, "failed">> : some \in SUBSET got}
    BY <1>1 DEF opened
  <2>2. CASE o \in {<<got \ far, to>> : far \in SUBSET {p \in got : p.id \in Far}, to \in Live}
    <3>1. PICK far \in SUBSET {p \in got : p.id \in Far}, to \in Live : o = <<got \ far, to>>
      BY <2>2
    <3> QED BY <3>1 DEF Live, Statuses
  <2>3. CASE o \in {<<some, "failed">> : some \in SUBSET got}
    <3>1. PICK some \in SUBSET got : o = <<some, "failed">>
      BY <2>3
    <3> QED BY <3>1 DEF Statuses
  <2> QED BY <2>1, <2>2, <2>3
<1>2. CASE ~(row \in Live /\ got # {})
  BY <1>2 DEF opened
<1> QED BY <1>1, <1>2

\* The first state, right after create_invite or receive_ticket, satisfies IInv.
LEMMA InitIInv == Init => IInv
<1> SUFFICES ASSUME Init PROVE IInv
  OBVIOUS
<1> USE BinAssumption
<1>1. TypeOK
  BY DEF Init, TypeOK, Bins, NoMark, Statuses
<1>2. Done(NoMark, {}) = {}
  BY DEF Done, Bins, NoMark
<1>3. ProgressInv
  BY <1>2 DEF Init, ProgressInv
<1>4. ReachInv /\ SnapshotInv /\ MergedInv
  BY DEF Init, ReachInv, SnapshotInv, MergedInv
<1> QED BY <1>1, <1>3, <1>4 DEF IInv

\* Every host call, post, fold and reload preserves IInv.
LEMMA NextIInv == IInv /\ [Next]_vars => IInv'
<1> SUFFICES ASSUME IInv, [Next]_vars PROVE IInv'
  OBVIOUS
<1> USE BinAssumption
<1>0. TypeOK /\ ProgressInv /\ ReachInv /\ SnapshotInv /\ MergedInv
  BY DEF IInv
<1>1. CASE Tick
  <2>1. TypeOK'
    BY <1>0, <1>1 DEF TypeOK, Tick, Statuses
  <2>2. ReachInv'
    BY <1>0, <1>1 DEF TypeOK, ReachInv, Tick, Packets, Bins
  <2>3. ProgressInv' /\ SnapshotInv' /\ MergedInv'
    BY <1>0, <1>1 DEF ProgressInv, SnapshotInv, MergedInv, Tick
  <2> QED BY <2>1, <2>2, <2>3 DEF IInv
<1>2. ASSUME NEW p \in Packets, Post(p) PROVE IInv'
  <2>1. TypeOK'
    BY <1>0, <1>2 DEF TypeOK, Post
  <2>2. ProgressInv'
    BY <1>0, <1>2 DEF ProgressInv, Post
  <2>3. ReachInv'
    BY <1>0, <1>2 DEF ReachInv, Post, TypeOK
  <2>4. SnapshotInv'
    BY <1>0, <1>2 DEF SnapshotInv, Post
  <2>5. MergedInv'
    <3>1. p.bin \in listed => p \in late'
      BY <1>2 DEF Post
    <3> QED BY <1>0, <1>2, <3>1 DEF MergedInv, ProgressInv, Post
  <2> QED BY <2>1, <2>2, <2>3, <2>4, <2>5 DEF IInv
<1>3. ASSUME NEW p \in Packets, IngestPacket(p) PROVE IInv'
  <2>1. PICK o \in opened({p}) : ingested' = ingested \cup o[1] /\ row' = o[2]
    BY <1>3 DEF IngestPacket
  <2>2. o[1] \subseteq {p} /\ o[2] \in Statuses
    BY <1>0, Opened DEF TypeOK
  <2>3. TypeOK'
    BY <1>0, <1>3, <2>1, <2>2 DEF TypeOK, IngestPacket
  <2>4. ProgressInv' /\ ReachInv' /\ SnapshotInv' /\ MergedInv'
    BY <1>0, <1>3, <2>1 DEF ProgressInv, ReachInv, SnapshotInv, MergedInv, IngestPacket
  <2> QED BY <2>3, <2>4 DEF IInv
<1>4. ASSUME NEW b \in Bins, Fetch(b) PROVE IInv'
  <2> DEFINE held == {p \in store : p.bin = b}
  <2>1. PICK got \in SUBSET held :
           /\ fetched' = fetched \cup {[bin |-> b, got |-> got]}
           /\ omitted' = omitted \cup (held \ got)
    BY <1>4 DEF Fetch
  <2>2. UNCHANGED <<w, row, watermark, completed, store, ingested, saved, crashes,
                    listed, late, swallowed>>
    BY <1>4 DEF Fetch
  <2>3. TypeOK'
    BY <1>0, <2>1, <2>2 DEF TypeOK
  <2>4. ProgressInv' /\ ReachInv' /\ MergedInv'
    BY <1>0, <2>1, <2>2 DEF ProgressInv, ReachInv, MergedInv
  <2>5. SnapshotInv'
    BY <1>0, <2>1, <2>2 DEF SnapshotInv
  <2> QED BY <2>3, <2>4, <2>5 DEF IInv
<1>5. ASSUME NEW s \in fetched, IngestList(s) PROVE IInv'
  <2>1. s \in [bin : Bins, got : SUBSET Packets]
    BY <1>0 DEF TypeOK
  <2>a. PICK o \in opened(s.got) :
           /\ ingested' = ingested \cup o[1]
           /\ swallowed' = swallowed \cup (s.got \ o[1])
           /\ row' = o[2]
    BY <1>5 DEF IngestList
  <2>b. o[1] \subseteq s.got /\ o[2] \in Statuses
    BY <1>0, Opened DEF TypeOK
  <2>2. /\ fetched' = fetched \ {s}
        /\ listed' = listed \cup {s.bin}
        /\ complete_list_bin(s.bin)
        /\ UNCHANGED <<w, store, saved, crashes, late, omitted>>
    BY <1>5 DEF IngestList
  <2>3. /\ watermark' \in Bins \cup {NoMark}
        /\ completed' \in SUBSET Bins
        /\ Done(watermark', completed') \subseteq Done(watermark, completed) \cup {s.bin}
        /\ Start(watermark') \notin completed'
    BY <1>0, <2>1, <2>2, CompleteListBin
  <2>4. TypeOK'
    BY <1>0, <2>1, <2>a, <2>b, <2>2, <2>3 DEF TypeOK
  <2>5. ProgressInv'
    BY <1>0, <2>2, <2>3 DEF ProgressInv
  <2>6. ReachInv' /\ SnapshotInv'
    BY <1>0, <2>2 DEF ReachInv, SnapshotInv
  <2>7. MergedInv'
    <3>1. s.got \subseteq (ingested \cup swallowed)'
      BY <2>a
    <3>2. \A p \in store : p.bin = s.bin => p \in (ingested \cup late \cup omitted \cup swallowed)'
      BY <1>0, <2>2, <3>1 DEF SnapshotInv
    <3> QED BY <1>0, <2>2, <2>3, <2>a, <3>2 DEF MergedInv
  <2> QED BY <2>4, <2>5, <2>6, <2>7 DEF IInv
<1>6. ASSUME NEW s \in fetched, RefuseList(s) PROVE IInv'
  <2>1. TypeOK'
    BY <1>0, <1>6 DEF TypeOK, RefuseList
  <2>2. ProgressInv' /\ ReachInv' /\ SnapshotInv' /\ MergedInv'
    BY <1>0, <1>6 DEF ProgressInv, ReachInv, SnapshotInv, MergedInv, RefuseList
  <2> QED BY <2>1, <2>2 DEF IInv
<1>7. CASE Fold
  <2>1. TypeOK'
    BY <1>0, <1>7 DEF TypeOK, Fold
  <2>2. ProgressInv' /\ ReachInv' /\ SnapshotInv' /\ MergedInv'
    BY <1>0, <1>7 DEF ProgressInv, ReachInv, SnapshotInv, MergedInv, Fold
  <2> QED BY <2>1, <2>2 DEF IInv
<1>8. CASE Reload
  <2>1. TypeOK'
    BY <1>0, <1>8 DEF TypeOK, Reload
  <2>2. ProgressInv' /\ ReachInv' /\ SnapshotInv'
    BY <1>0, <1>8 DEF ProgressInv, ReachInv, SnapshotInv, Reload
  <2>3. MergedInv'
    <3>1. Done(saved.watermark, saved.completed) \subseteq saved.listed
      BY <1>0 DEF ProgressInv
    <3>2. /\ watermark' = saved.watermark /\ completed' = saved.completed
          /\ saved' = saved /\ store' = store /\ saved.ingested \subseteq ingested'
          /\ late' = {p \in late : p.bin \in saved.listed}
          /\ omitted' = {p \in omitted : p.bin \in saved.listed}
          /\ swallowed' = {p \in swallowed : p.bin \in saved.listed}
      BY <1>8 DEF Reload
    <3> QED BY <1>0, <3>1, <3>2 DEF MergedInv
  <2> QED BY <2>1, <2>2, <2>3 DEF IInv
<1>10. CASE RowMoves
  <2>1. TypeOK'
    BY <1>0, <1>10 DEF TypeOK, RowMoves, Statuses
  <2>2. ProgressInv' /\ ReachInv' /\ SnapshotInv' /\ MergedInv'
    BY <1>0, <1>10 DEF ProgressInv, ReachInv, SnapshotInv, MergedInv, RowMoves
  <2> QED BY <2>1, <2>2 DEF IInv
<1>9. CASE UNCHANGED vars
  BY <1>0, <1>9 DEF vars, IInv, TypeOK, ProgressInv, ReachInv, SnapshotInv, MergedInv
<1> QED
  BY <1>1, <1>2, <1>3, <1>4, <1>5, <1>6, <1>7, <1>8, <1>9, <1>10 DEF Next

\* IInv holds in every reachable state.
THEOREM Inductive == Spec => []IInv
BY InitIInv, NextIInv, PTL DEF Spec

\* Type correctness of the progress entry, the store and the snapshots.
THEOREM TypeCorrect == Spec => []TypeOK
<1>1. IInv => TypeOK
  BY DEF IInv
<1> QED BY <1>1, Inductive, PTL

\* For every bound: no bin counts as complete (advance_progress,
\* complete_list_bin) unless it was handed to ingest_list, in whatever order
\* lists return and whichever fold a reload starts from.
THEOREM NoGap == Spec => []WatermarkSound
<1>1. IInv => WatermarkSound
  BY BinAssumption DEF IInv, TypeOK, ProgressInv, WatermarkSound, Done, Start,
     catch_up_start, bin_complete, Bins, NoMark
<1> QED BY <1>1, Inductive, PTL

\* For every bound: a packet that poll no longer asks for (the row not being
\* watermarked) was merged, or was posted after its bin had been read, was
\* omitted for its age, or did not open when its list was handed in.
THEOREM NoSilentLoss == Spec => []LossOnlyIfLate
<1>1. IInv => LossOnlyIfLate
  <2> SUFFICES ASSUME IInv, NEW p \in store,
                      p \notin ingested \cup late \cup omitted \cup swallowed,
                      p.bin >= ListFrom, row # "acked"
               PROVE  p.bin \in poll_list
    BY BinAssumption DEF LossOnlyIfLate, IInv, TypeOK, Packets, Bins
  <2>1. p.bin \in Bins /\ w \in ListFrom .. MaxBin /\ watermark \in Bins \cup {NoMark}
    BY DEF IInv, TypeOK, Packets
  <2>2. ~(p.bin <= watermark) /\ p.bin \notin completed
    BY <2>1 DEF IInv, MergedInv, Done
  <2>3. p.bin <= w + 1
    BY DEF IInv, ReachInv
  <2>4. p.bin \in catch_up_start .. (w + 1)
    BY BinAssumption, <2>1, <2>2, <2>3 DEF catch_up_start, Bins, NoMark
  <2>5. ~bin_complete(p.bin)
    BY <2>2 DEF bin_complete
  <2> QED BY <2>4, <2>5 DEF poll_list
<1> QED BY <1>1, Inductive, PTL

=============================================================================
