---------------------------- MODULE GroupProofs ----------------------------
(***************************************************************************)
(* Proofs about Group, for every set of contacts, every cap and every      *)
(* bound.                                                                  *)
(***************************************************************************)
EXTENDS Group, RetainProofs, FiniteSetTheorems, SequenceTheorems, TLAPS

\* Nobody is listed twice in members and pending together, nor beyond the cap.
Once(members, pending) ==
    /\ \A i, j \in 1 .. Len(members) : members[i].pk = members[j].pk => i = j
    /\ \A i, j \in 1 .. Len(pending) : pending[i] = pending[j] => i = j
    /\ \A i \in 1 .. Len(members), j \in 1 .. Len(pending) : members[i].pk # pending[j]
    /\ Len(members) + Len(pending) <= Cap

\* The tag keys of a member list are all minted by one person.
MintedBy(members, who) == \A i \in 1 .. Len(members) : members[i].send_tag_key.by = who

\* The owner's row, and a contact's: a contact knows its own key only.
OwnerRow(r) ==
    /\ Once(r.members, r.pending)
    /\ MintedBy(r.members, Owner)
    /\ r.kind # "panicked"
ContactRow(p, r) ==
    /\ r.kind # "panicked"
    /\ MintedBy(r.members, p)
    /\ \A i \in 1 .. Len(r.members) : r.members[i].pk = p
    /\ r.kind = "live" => Len(r.members) = 1

RowInv ==
    /\ OwnerRow(row[Owner])
    /\ faulty = Owner => OwnerRow(snap.row)
    /\ \A p \in Others : ContactRow(p, row[p]) /\ (faulty = p => ContactRow(p, snap.row))

\* What is posted comes from the owner's row, which lists the owner, under the
\* owner's key.
PostInv ==
    \A post \in posted : /\ Once(post.roster.members, <<>>)
                         /\ MintedBy(post.roster.members, Owner)
                         /\ post.key.by = Owner
                         /\ Owner \in pks(post.roster.members)

\* Before create_group the owner has no row, not even in the snapshot.
BeforeInv ==
    ~created => /\ posted = {}
                /\ row[Owner].kind = "none"
                /\ faulty = Owner => snap.row.kind = "none"

\* Without a reload the owner ignores its own posts, so its epoch is the highest.
EpochInv ==
    crashes = 0 =>
        /\ \A post \in posted : post.roster \in log
        /\ row[Owner].kind = "live" =>
            \A post \in posted : post.roster.epoch <= row[Owner].epoch

IInv ==
    /\ TypeOK
    /\ RowInv
    /\ PostInv
    /\ BeforeInv
    /\ EpochInv
    /\ EpochNamesRoster
    /\ AdmissionsAnswered

-----------------------------------------------------------------------------
(* Rows *)

\* The fields of a row.
LEMMA RowFields ==
    ASSUME NEW r \in Rows
    PROVE  /\ r.members \in Seq(Members) /\ r.pending \in Seq(Others)
           /\ Len(r.members) \in Nat /\ Len(r.pending) \in Nat
           /\ r.epoch \in 0 .. MaxEpoch /\ r.epoch \in Nat
           /\ \A i \in 1 .. Len(r.members) : r.members[i] \in Members
           /\ \A i \in 1 .. Len(r.pending) : r.pending[i] \in Others
<1>1. r.members \in Seq(Members) /\ r.pending \in Seq(Others) /\ r.epoch \in 0 .. MaxEpoch
  BY DEF Rows
<1>2. r.epoch \in Nat
  BY <1>1, GroupAssumption
<1> QED
  BY <1>1, <1>2

\* The fields of a member.
LEMMA MemberFields ==
    ASSUME NEW m \in Members
    PROVE  m.pk \in People /\ m.send_tag_key \in TagKeys /\ m.send_tag_key.by \in People
BY DEF Members, TagKeys

\* A row without lists, of any phase that has none.
LEMMA EmptyRows ==
    /\ NoRow \in Rows /\ NoRow.kind = "none" /\ NoRow.members = <<>> /\ NoRow.pending = <<>>
    /\ NoRow.epoch = 0
    /\ Offer \in Rows /\ Offer.kind = "offer" /\ Offer.members = <<>> /\ Offer.pending = <<>>
    /\ \A why \in Ends : /\ Failed(why) \in Rows /\ Failed(why).kind = "failed"
                         /\ Failed(why).members = <<>> /\ Failed(why).pending = <<>>
<1>0. <<>> \in Seq(Members) /\ <<>> \in Seq(Others)
  BY EmptySeq
<1>1. PICK m \in Seq(Members) : m = <<>>
  BY <1>0, Zenon
<1>2. PICK q \in Seq(Others) : q = <<>>
  BY <1>0, Zenon
<1>3. NoRow = [kind |-> "none", members |-> m, pending |-> q, epoch |-> 0, why |-> ""]
  BY <1>1, <1>2, Zenon DEF NoRow
<1>4. 0 \in 0 .. MaxEpoch
  BY GroupAssumption
<1>5. /\ NoRow \in Rows /\ NoRow.kind = "none" /\ NoRow.members = m /\ NoRow.pending = q
      /\ NoRow.epoch = 0
  BY <1>3, <1>4 DEF Rows, Kinds, Ends
<1>6. /\ Offer \in Rows /\ Offer.kind = "offer" /\ Offer.members = m /\ Offer.pending = q
  BY <1>5 DEF Offer, Rows, Kinds
<1>7. ASSUME NEW why \in Ends
      PROVE  /\ Failed(why) \in Rows /\ Failed(why).kind = "failed"
             /\ Failed(why).members = m /\ Failed(why).pending = q
  BY <1>5 DEF Failed, Rows, Kinds
<1> QED
  BY <1>1, <1>2, <1>5, <1>6, <1>7

\* A live row.
LEMMA LiveRow ==
    ASSUME NEW m \in Seq(Members), NEW q \in Seq(Others), NEW e \in 0 .. MaxEpoch
    PROVE  /\ Live(m, q, e) \in Rows /\ Live(m, q, e).kind = "live" /\ Live(m, q, e).members = m
           /\ Live(m, q, e).pending = q /\ Live(m, q, e).epoch = e
BY EmptyRows DEF Live, Rows, Kinds

\* Empty lists meet everything that is asked of lists.
LEMMA EmptyOnce ==
    ASSUME NEW r, r.members = <<>>, r.pending = <<>>, r.kind # "panicked"
    PROVE  OwnerRow(r) /\ \A p : r.kind # "live" => ContactRow(p, r)
<1>1. Len(r.members) = 0 /\ Len(r.pending) = 0 /\ 1 .. Len(r.members) = {} /\ 1 .. Len(r.pending) = {}
  OBVIOUS
<1> QED
  BY <1>1, GroupAssumption DEF OwnerRow, ContactRow, Once, MintedBy

\* EachPersonOnce, as the steps use it.
LEMMA OnceIs ==
    ASSUME NEW m \in Seq(Members), NEW q \in Seq(Others), Once(m, q)
    PROVE  LET all == [i \in 1 .. Len(m) |-> m[i].pk] \o q
           IN  IsInjective(all) /\ Len(all) <= Cap
<1> DEFINE names == [i \in 1 .. Len(m) |-> m[i].pk]
           all == names \o q
<1>1. PICK n \in Nat : n = Len(m)
  OBVIOUS
<1>2. PICK u \in Nat : u = Len(q)
  OBVIOUS
<1>3. \A i \in 1 .. n : m[i].pk \in People
  BY <1>1, MemberFields
<1>4. names \in Seq(People) /\ Len(names) = n /\ \A i \in 1 .. n : names[i] = m[i].pk
  BY <1>1, <1>3
<1>5. q \in Seq(People)
  BY DEF People
<1> HIDE DEF names
<1>6. /\ all \in Seq(People) /\ Len(all) = n + u /\ DOMAIN all = 1 .. n + u
      /\ \A i \in 1 .. n : all[i] = names[i]
      /\ \A i \in 1 .. u : all[n + i] = q[i]
  <2>1. /\ all \in Seq(People) /\ Len(all) = n + u
        /\ \A i \in 1 .. n + u : all[i] = IF i <= n THEN names[i] ELSE q[i - n]
    <3>1. /\ names \o q \in Seq(People) /\ Len(names \o q) = Len(names) + Len(q)
          /\ \A i \in 1 .. Len(names) + Len(q) :
                (names \o q)[i] = IF i <= Len(names) THEN names[i] ELSE q[i - Len(names)]
      BY <1>4, <1>5, ConcatProperties, Zenon
    <3> QED
      BY <1>2, <1>4, <3>1
  <2> HIDE DEF all
  <2>2. DOMAIN all = 1 .. n + u
    BY <2>1
  <2>3. \A i \in 1 .. n : i \in 1 .. n + u /\ i <= n
    OBVIOUS
  <2>4. \A i \in 1 .. u : n + i \in 1 .. n + u /\ ~(n + i <= n) /\ (n + i) - n = i
    OBVIOUS
  <2> QED
    BY <2>1, <2>2, <2>3, <2>4
<1>7. \A i \in 1 .. n + u : i \in 1 .. n \/ \E k \in 1 .. u : i = n + k
  <2> TAKE i \in 1 .. n + u
  <2>1. i \in 1 .. n \/ (i - n \in 1 .. u /\ i = n + (i - n))
    OBVIOUS
  <2> QED
    BY <2>1
<1> HIDE DEF all
<1>8. ASSUME NEW a \in 1 .. n + u, NEW b \in 1 .. n + u, all[a] = all[b] PROVE a = b
  <2>1. CASE a \in 1 .. n /\ b \in 1 .. n
    BY <1>1, <1>4, <1>6, <1>8, <2>1 DEF Once
  <2>2. ASSUME a \in 1 .. n, NEW k \in 1 .. u, b = n + k PROVE a = b
    BY <1>1, <1>2, <1>4, <1>6, <1>8, <2>2 DEF Once
  <2>3. ASSUME b \in 1 .. n, NEW k \in 1 .. u, a = n + k PROVE a = b
    BY <1>1, <1>2, <1>4, <1>6, <1>8, <2>3 DEF Once
  <2>4. ASSUME NEW j \in 1 .. u, NEW k \in 1 .. u, a = n + j, b = n + k PROVE a = b
    BY <1>2, <1>6, <1>8, <2>4 DEF Once
  <2> QED
    BY <1>7, <2>1, <2>2, <2>3, <2>4
<1>9. IsInjective(all)
  BY <1>6, <1>8 DEF IsInjective
<1>10. Len(all) <= Cap
  BY <1>1, <1>2, <1>6 DEF Once
<1> QED
  BY <1>9, <1>10 DEF all, names

\* add_group_member: a person who is on neither list.
LEMMA OnceAdd ==
    ASSUME NEW m \in Seq(Members), NEW q \in Seq(Others), Once(m, q), NEW p \in Others,
           ~(Len(m) + Len(q) >= Cap), p \notin Range(q), p \notin pks(m)
    PROVE  Append(q, p) \in Seq(Others) /\ Once(m, Append(q, p))
<1> DEFINE s == Append(q, p)
<1>1. PICK n \in Nat : n = Len(m)
  OBVIOUS
<1>2. PICK u \in Nat : u = Len(q)
  OBVIOUS
<1>3. /\ s \in Seq(Others) /\ Len(s) = u + 1 /\ s[u + 1] = p /\ \A i \in 1 .. u : s[i] = q[i]
  BY <1>2
<1>4. \A i \in 1 .. u + 1 : i \in 1 .. u \/ i = u + 1
  OBVIOUS
<1>5. \A i \in 1 .. u : q[i] # p
  <2>1. DOMAIN q = 1 .. u
    BY <1>2
  <2> QED
    BY <2>1 DEF Range
<1>6. \A i \in 1 .. n : m[i].pk # p
  BY <1>1 DEF pks
<1> HIDE DEF s
<1>7. \A i, j \in 1 .. u + 1 : s[i] = s[j] => i = j
  BY <1>2, <1>3, <1>4, <1>5 DEF Once
<1>8. \A i \in 1 .. n, j \in 1 .. u + 1 : m[i].pk # s[j]
  BY <1>1, <1>2, <1>3, <1>4, <1>6 DEF Once
<1>9. n + (u + 1) <= Cap
  BY <1>1, <1>2, GroupAssumption
<1> QED
  BY <1>1, <1>3, <1>7, <1>8, <1>9 DEF Once, s

\* note_accept: the first of the pending moves to the members.
LEMMA OnceAdmit ==
    ASSUME NEW m \in Seq(Members), NEW q \in Seq(Others), Once(m, q), q # <<>>,
           NEW x \in Members, x.pk = Head(q),
           NEW t, t = retain(q, {i \in 1 .. Len(q) : q[i] # Head(q)})
    PROVE  Append(m, x) \in Seq(Members) /\ t \in Seq(Others) /\ Once(Append(m, x), t)
<1> DEFINE at == {i \in 1 .. Len(q) : q[i] # Head(q)}
           ms == Append(m, x)
<1>1. PICK n \in Nat : n = Len(m)
  OBVIOUS
<1>2. PICK u \in Nat : u = Len(q)
  OBVIOUS
<1>3. 1 \in 1 .. u /\ Head(q) = q[1]
  BY <1>2
<1>4. at \in SUBSET (1 .. u) /\ 1 \notin at /\ \A i \in at : q[i] # x.pk
  BY <1>2, <1>3
<1>5. t = retain(q, at)
  OBVIOUS
<1> HIDE DEF at
<1>6. t \in Seq(Others) /\ Len(t) \in Nat /\ Picked(q, at, t)
  BY <1>2, <1>4, <1>5, RetainedSeq
<1>7. PICK v \in Nat : v = Len(t)
  BY <1>6
<1>8. v < u
  BY <1>2, <1>3, <1>4, <1>5, <1>7, RetainedShorter
<1>9. \A j \in 1 .. v : \E i \in at : t[j] = q[i]
  BY <1>6, <1>7 DEF Picked
<1>10. /\ ms \in Seq(Members) /\ Len(ms) = n + 1 /\ ms[n + 1] = x /\ \A i \in 1 .. n : ms[i] = m[i]
  BY <1>1
<1>11. \A i \in 1 .. n + 1 : i \in 1 .. n \/ i = n + 1
  OBVIOUS
<1> HIDE DEF ms
<1>12. \A i \in 1 .. n : m[i].pk # x.pk
  BY <1>1, <1>2, <1>3 DEF Once
<1>13. \A i, j \in 1 .. n + 1 : ms[i].pk = ms[j].pk => i = j
  BY <1>1, <1>10, <1>11, <1>12 DEF Once
<1>14. ASSUME NEW j \in 1 .. v, NEW k \in 1 .. v, t[j] = t[k] PROVE j = k
  <2>1. ASSUME NEW y \in 1 .. v, NEW z \in 1 .. v, y < z PROVE t[y] # t[z]
    <3>1. PICK a \in at, b \in at : a < b /\ t[y] = q[a] /\ t[z] = q[b]
      BY <1>6, <1>7, <2>1 DEF Picked
    <3>2. a \in 1 .. u /\ b \in 1 .. u /\ a # b
      BY <1>4, <3>1
    <3> QED
      BY <1>2, <3>1, <3>2 DEF Once
  <2> QED
    BY <1>14, <2>1
<1>15. \A i \in 1 .. n + 1, j \in 1 .. v : ms[i].pk # t[j]
  <2> SUFFICES ASSUME NEW i \in 1 .. n + 1, NEW j \in 1 .. v PROVE ms[i].pk # t[j]
    OBVIOUS
  <2>1. PICK a \in at : t[j] = q[a]
    BY <1>9
  <2>2. a \in 1 .. u /\ q[a] # x.pk
    BY <1>4
  <2> QED
    BY <1>1, <1>2, <1>10, <1>11, <2>1, <2>2 DEF Once
<1>16. (n + 1) + v <= Cap
  BY <1>1, <1>2, <1>8, GroupAssumption DEF Once
<1> QED
  BY <1>6, <1>7, <1>10, <1>13, <1>14, <1>15, <1>16 DEF Once, ms

\* kick_group_member: whoever stays is on the list once.
LEMMA OnceKick ==
    ASSUME NEW m \in Seq(Members), NEW q \in Seq(Others), Once(m, q),
           NEW at \in SUBSET (1 .. Len(m)), NEW ms, ms = retain(m, at)
    PROVE  /\ ms \in Seq(Members) /\ Once(ms, q)
           /\ \A k \in 1 .. Len(ms) : \E i \in 1 .. Len(m) : ms[k] = m[i]
<1>1. PICK n \in Nat : n = Len(m)
  OBVIOUS
<1>2. PICK u \in Nat : u = Len(q)
  OBVIOUS
<1>3. ms \in Seq(Members) /\ Len(ms) \in Nat /\ Picked(m, at, ms)
  BY RetainedSeq
<1>4. PICK v \in Nat : v = Len(ms)
  BY <1>3
<1>5. v <= n
  BY <1>1, <1>4, RetainedShorter
<1>6. \A j \in 1 .. v : \E i \in 1 .. n : ms[j] = m[i]
  BY <1>1, <1>3, <1>4 DEF Picked
<1>7. ASSUME NEW j \in 1 .. v, NEW k \in 1 .. v, ms[j].pk = ms[k].pk PROVE j = k
  <2>1. ASSUME NEW x \in 1 .. v, NEW y \in 1 .. v, x < y PROVE ms[x].pk # ms[y].pk
    <3>1. PICK a \in at, b \in at : a < b /\ ms[x] = m[a] /\ ms[y] = m[b]
      BY <1>3, <1>4, <2>1 DEF Picked
    <3>2. a \in 1 .. n /\ b \in 1 .. n /\ a # b
      BY <1>1, <3>1
    <3> QED
      BY <1>1, <3>1, <3>2 DEF Once
  <2> QED
    BY <1>7, <2>1
<1>8. \A i \in 1 .. v, j \in 1 .. u : ms[i].pk # q[j]
  BY <1>1, <1>2, <1>6 DEF Once
<1>9. v + u <= Cap
  BY <1>1, <1>2, <1>5, GroupAssumption DEF Once
<1> QED
  BY <1>1, <1>2, <1>3, <1>4, <1>6, <1>7, <1>8, <1>9 DEF Once

-----------------------------------------------------------------------------
(* Steps *)

\* EndIsFinal of one step.
FinalStep ==
    \A d \in People : row[d].kind = "failed" /\ crashes' = crashes => row'[d].kind = "failed"

\* The members of a list other than the owner, and the contacts whose answers
\* the owner ingested.
Admitted(members) == pks(members) \ {Owner}
Heard == {p \in Others : answer[p] = "heard"}

\* Only contacts are admitted, and there are finitely many of them.
LEMMA AdmittedFinite ==
    ASSUME NEW m \in Seq(Members)
    PROVE  /\ Admitted(m) \in SUBSET Others /\ IsFiniteSet(Admitted(m))
           /\ Cardinality(Admitted(m)) \in Nat
<1>1. \A i \in 1 .. Len(m) : m[i].pk \in People
  BY MemberFields
<1>2. Admitted(m) \in SUBSET Others
  BY <1>1 DEF Admitted, pks, People
<1>3. IsFiniteSet(Admitted(m))
  BY <1>2, FS_Subset, GroupAssumption
<1> QED
  BY <1>2, <1>3, FS_CardinalityType

\* Fewer members, fewer admitted.
LEMMA AdmittedFewer ==
    ASSUME NEW m \in Seq(Members), NEW s \in Seq(Members), Admitted(s) \subseteq Admitted(m)
    PROVE  Cardinality(Admitted(s)) <= Cardinality(Admitted(m))
BY AdmittedFinite, FS_Subset

\* One more member.
LEMMA AdmittedMore ==
    ASSUME NEW m \in Seq(Members), NEW x \in Members
    PROVE  Cardinality(Admitted(Append(m, x))) <= Cardinality(Admitted(m)) + 1
<1> DEFINE s == Append(m, x)
<1>1. PICK n \in Nat : n = Len(m)
  OBVIOUS
<1>2. s \in Seq(Members) /\ Len(s) = n + 1 /\ s[n + 1] = x /\ \A i \in 1 .. n : s[i] = m[i]
  BY <1>1
<1>3. \A i \in 1 .. n + 1 : i \in 1 .. n \/ i = n + 1
  OBVIOUS
<1> HIDE DEF s
<1>4. \A i \in 1 .. n + 1 : s[i].pk \in pks(m) \cup {x.pk}
  BY <1>1, <1>2, <1>3 DEF pks
<1>5. Admitted(s) \subseteq Admitted(m) \cup {x.pk}
  BY <1>2, <1>4 DEF Admitted, pks
<1>6. IsFiniteSet(Admitted(m)) /\ Cardinality(Admitted(m)) \in Nat /\ Cardinality(Admitted(s)) \in Nat
  BY <1>2, AdmittedFinite
<1>7. /\ IsFiniteSet(Admitted(m) \cup {x.pk})
      /\ Cardinality(Admitted(m) \cup {x.pk}) = Cardinality(Admitted(m))
            \/ Cardinality(Admitted(m) \cup {x.pk}) = Cardinality(Admitted(m)) + 1
  BY <1>6, FS_AddElement
<1>8. Cardinality(Admitted(s)) <= Cardinality(Admitted(m) \cup {x.pk})
  BY <1>5, <1>7, FS_Subset
<1>9. Cardinality(Admitted(s)) <= Cardinality(Admitted(m)) + 1
  BY <1>6, <1>7, <1>8
<1> QED
  BY <1>9 DEF s

\* The answers ingested are finitely many.
LEMMA HeardFinite == IsFiniteSet(Heard) /\ Cardinality(Heard) \in Nat
<1>1. Heard \in SUBSET Others
  BY DEF Heard
<1>2. IsFiniteSet(Heard)
  BY <1>1, FS_Subset, GroupAssumption
<1> QED
  BY <1>2, FS_CardinalityType

\* What called leaves in last.
LEMMA CalledBy ==
    ASSUME TypeOK, NEW d, NEW from \in People, called(d, from)
    PROVE  last' \in People
BY DEF TypeOK, called

\* A call on a contact's device, or the ingestion of an invitation: only the
\* contact's row changes.
LEMMA ContactStep ==
    ASSUME IInv, NEW p \in Others, NEW r \in Rows, ContactRow(p, r),
           row' = [row EXCEPT ![p] = r], row[p].kind = "failed" => r.kind = "failed",
           UNCHANGED <<created, posted, log, faulty, snap, crashes>>,
           inbox' \in [Others -> Nat], answer' \in [Others -> {"none", "sent", "heard"}],
           Heard' = Heard, last' \in People
    PROVE  IInv' /\ FinalStep
<1>1. p \in People /\ p # Owner /\ Owner \in People /\ row \in [People -> Rows]
  BY GroupAssumption DEF People, IInv, TypeOK
<1>2. /\ row' \in [People -> Rows] /\ row'[p] = r /\ row'[Owner] = row[Owner]
      /\ \A d \in People : d # p => row'[d] = row[d]
  BY <1>1
<1>3. TypeOK'
  BY <1>2 DEF IInv, TypeOK
<1>4. RowInv'
  <2>1. OwnerRow(row'[Owner]) /\ (faulty = Owner => OwnerRow(snap.row))
    BY <1>2 DEF IInv, RowInv
  <2>2. ASSUME NEW q \in Others PROVE ContactRow(q, row'[q]) /\ (faulty = q => ContactRow(q, snap.row))
    BY <1>2 DEF IInv, RowInv, People
  <2> QED
    BY <2>1, <2>2 DEF RowInv
<1>5. PostInv' /\ BeforeInv' /\ EpochInv' /\ EpochNamesRoster'
  BY <1>2 DEF IInv, PostInv, BeforeInv, EpochInv, EpochNamesRoster
<1>6. AdmissionsAnswered'
  BY <1>2 DEF IInv, AdmissionsAnswered, Heard
<1>7. FinalStep
  BY <1>2 DEF FinalStep
<1> QED
  BY <1>3, <1>4, <1>5, <1>6, <1>7 DEF IInv

\* A call on the owner's device that posts nothing: the owner's row changes,
\* to no later epoch than before, and admits nobody.
LEMMA OwnerStep ==
    ASSUME IInv, NEW r \in Rows, OwnerRow(r), row' = [row EXCEPT ![Owner] = r],
           row[Owner].kind = "failed" => r.kind = "failed",
           Admitted(r.members) \subseteq Admitted(row[Owner].members),
           r.kind = "live" => posted = {} \/ (row[Owner].kind = "live" /\ r.epoch = row[Owner].epoch),
           created' = TRUE, UNCHANGED <<answer, posted, log, faulty, snap, crashes>>,
           inbox' \in [Others -> Nat], last' \in People
    PROVE  IInv' /\ FinalStep
<1>1. Owner \notin Others /\ Owner \in People /\ row \in [People -> Rows]
  BY GroupAssumption DEF People, IInv, TypeOK
<1>2. /\ row' \in [People -> Rows] /\ row'[Owner] = r
      /\ \A d \in People : d # Owner => row'[d] = row[d]
  BY <1>1
<1>3. TypeOK'
  BY <1>2 DEF IInv, TypeOK
<1>4. RowInv'
  <2>1. OwnerRow(row'[Owner]) /\ (faulty = Owner => OwnerRow(snap.row))
    BY <1>2 DEF IInv, RowInv
  <2>2. ASSUME NEW q \in Others PROVE ContactRow(q, row'[q]) /\ (faulty = q => ContactRow(q, snap.row))
    BY <1>1, <1>2 DEF IInv, RowInv, People
  <2> QED
    BY <2>1, <2>2 DEF RowInv
<1>5. PostInv' /\ BeforeInv' /\ EpochNamesRoster'
  BY DEF IInv, PostInv, BeforeInv, EpochNamesRoster
<1>6. EpochInv'
  BY <1>2 DEF IInv, EpochInv
<1>7. AdmissionsAnswered'
  <2>1. r.members \in Seq(Members) /\ row[Owner].members \in Seq(Members)
    BY <1>1, RowFields
  <2>2. Cardinality(Admitted(r.members)) <= Cardinality(Admitted(row[Owner].members))
    BY <2>1, AdmittedFewer
  <2>3. Cardinality(Admitted(r.members)) \in Nat /\ Cardinality(Admitted(row[Owner].members)) \in Nat
    BY <2>1, AdmittedFinite
  <2>4. Cardinality(Heard) \in Nat
    BY HeardFinite
  <2>5. crashes = 0 => Cardinality(Admitted(row[Owner].members)) <= Cardinality(Heard)
    BY DEF IInv, AdmissionsAnswered, Admitted, Heard
  <2>6. crashes = 0 => Cardinality(Admitted(r.members)) <= Cardinality(Heard)
    BY <2>2, <2>3, <2>4, <2>5
  <2> QED
    BY <1>2, <2>6 DEF AdmissionsAnswered, Admitted, Heard
<1>8. FinalStep
  BY <1>2 DEF FinalStep
<1> QED
  BY <1>3, <1>4, <1>5, <1>6, <1>7, <1>8 DEF IInv

\* What post_roster of an owner's row puts into the log and on the channels.
LEMMA PostRoster ==
    ASSUME NEW r \in Rows, OwnerRow(r), post_roster(r)
    PROVE  /\ roster(r) \in Rosters /\ log' = log \cup {roster(r)}
           /\ posted \subseteq posted'
           /\ \A post \in posted' : \/ post \in posted
                                    \/ /\ post \in [roster : Rosters, key : TagKeys]
                                       /\ post.roster = roster(r) /\ post.key.by = Owner
                                       /\ Owner \in pks(r.members)
<1>1. r.members \in Seq(Members) /\ r.epoch \in 0 .. MaxEpoch
  BY RowFields
<1>2. roster(r) \in Rosters
  BY <1>1 DEF roster, Rosters
<1>3. \A k \in group_route(r, Owner) : k \in TagKeys /\ k.by = Owner /\ Owner \in pks(r.members)
  <2> SUFFICES ASSUME NEW i \in 1 .. Len(r.members), r.members[i].pk = Owner
               PROVE  r.members[i].send_tag_key \in TagKeys /\ r.members[i].send_tag_key.by = Owner
    BY DEF group_route, pks
  <2>1. r.members[i] \in Members
    BY <1>1
  <2> QED
    BY <2>1, MemberFields DEF OwnerRow, MintedBy
<1>4. \A k \in group_route(r, Owner) :
        LET post == [roster |-> roster(r), key |-> k]
        IN  /\ post \in [roster : Rosters, key : TagKeys] /\ post.roster = roster(r)
            /\ post.key.by = Owner /\ Owner \in pks(r.members)
  BY <1>2, <1>3
<1> QED
  BY <1>2, <1>4 DEF post_roster

\* Once without anybody pending, as a roster lists the members.
LEMMA OnceRoster ==
    ASSUME NEW m \in Seq(Members), NEW q \in Seq(Others), Once(m, q)
    PROVE  Once(m, <<>>)
<1>1. PICK n \in Nat : n = Len(m)
  OBVIOUS
<1>2. PICK u \in Nat : u = Len(q)
  OBVIOUS
<1>3. PICK e \in Seq(Others) : e = <<>>
  BY EmptySeq, Zenon
<1>4. Len(e) = 0 /\ 1 .. 0 = {}
  BY <1>3
<1>5. n + 0 <= Cap
  BY <1>1, <1>2, GroupAssumption DEF Once
<1>6. Once(m, e)
  BY <1>1, <1>4, <1>5 DEF Once
<1> QED
  BY <1>3, <1>6

\* A call on the owner's device that posts: the new row has the next epoch.
LEMMA PostStep ==
    ASSUME IInv, NEW r \in Rows, OwnerRow(r), r.kind = "live", row[Owner].kind = "live",
           r.epoch = row[Owner].epoch + 1, row' = [row EXCEPT ![Owner] = r], post_roster(r),
           UNCHANGED <<created, inbox, faulty, snap, crashes>>,
           answer' \in [Others -> {"none", "sent", "heard"}], last' \in People,
           crashes = 0 => Cardinality(Admitted(r.members)) <= Cardinality(Heard')
    PROVE  IInv' /\ FinalStep
<1>1. Owner \notin Others /\ Owner \in People /\ row \in [People -> Rows] /\ row[Owner] \in Rows
  BY GroupAssumption DEF People, IInv, TypeOK
<1>2. /\ row' \in [People -> Rows] /\ row'[Owner] = r
      /\ \A d \in People : d # Owner => row'[d] = row[d]
  BY <1>1
<1> DEFINE New(post) == /\ post \in [roster : Rosters, key : TagKeys]
                        /\ post.roster = roster(r) /\ post.key.by = Owner
                        /\ Owner \in pks(r.members)
<1>3. /\ roster(r) \in Rosters /\ log' = log \cup {roster(r)}
      /\ \A post \in posted' : post \in posted \/ New(post)
  BY PostRoster
<1>4. roster(r).epoch = r.epoch /\ roster(r).members = r.members
  BY DEF roster
<1>5. TypeOK'
  BY <1>2, <1>3 DEF IInv, TypeOK
<1>6. RowInv'
  <2>1. OwnerRow(row'[Owner]) /\ (faulty = Owner => OwnerRow(snap.row))
    BY <1>2 DEF IInv, RowInv
  <2>2. ASSUME NEW q \in Others PROVE ContactRow(q, row'[q]) /\ (faulty = q => ContactRow(q, snap.row))
    BY <1>1, <1>2 DEF IInv, RowInv, People
  <2> QED
    BY <2>1, <2>2 DEF RowInv
<1>7. PostInv'
  <2>1. Once(r.members, <<>>)
    <3>1. r.members \in Seq(Members) /\ r.pending \in Seq(Others)
      BY RowFields
    <3> QED
      BY <3>1, OnceRoster DEF OwnerRow
  <2> QED
    BY <1>3, <1>4, <2>1 DEF IInv, PostInv, OwnerRow
<1>8. BeforeInv'
  BY <1>2 DEF IInv, BeforeInv
<1>9. crashes = 0 => \A post \in posted : post.roster.epoch < r.epoch
  <2>1. row[Owner].epoch \in Nat
    BY <1>1, RowFields
  <2>2. \A post \in posted : post.roster.epoch \in Int
    BY GroupAssumption DEF IInv, TypeOK, Rosters
  <2> QED
    BY <2>1, <2>2 DEF IInv, EpochInv
<1>10. r.epoch \in Nat /\ \A post \in posted : post.roster.epoch \in Int
  BY RowFields, GroupAssumption DEF IInv, TypeOK, Rosters
<1>11. EpochInv'
  <2>1. crashes = 0 => \A post \in posted' : post.roster \in log' /\ post.roster.epoch <= r.epoch
    BY <1>3, <1>4, <1>9, <1>10 DEF IInv, EpochInv
  <2> QED
    BY <1>2, <2>1 DEF EpochInv
<1>12. EpochNamesRoster'
  <2> SUFFICES ASSUME crashes = 0, NEW a \in posted', NEW b \in posted',
                      a.roster.epoch = b.roster.epoch
               PROVE  a.roster = b.roster
    BY DEF EpochNamesRoster
  <2>1. CASE a \in posted /\ b \in posted
    BY <2>1 DEF IInv, EpochNamesRoster
  <2>2. CASE a \in posted /\ New(b)
    BY <1>4, <1>9, <1>10, <2>2
  <2>3. CASE New(a) /\ b \in posted
    BY <1>4, <1>9, <1>10, <2>3
  <2>4. CASE New(a) /\ New(b)
    BY <2>4
  <2> QED
    BY <1>3, <2>1, <2>2, <2>3, <2>4
<1>13. AdmissionsAnswered'
  BY <1>2 DEF AdmissionsAnswered, Admitted, Heard
<1>14. FinalStep
  BY <1>2 DEF FinalStep
<1> QED
  BY <1>5, <1>6, <1>7, <1>8, <1>11, <1>12, <1>13, <1>14 DEF IInv

-----------------------------------------------------------------------------
(* Actions *)

\* A member as the code mints it, and the row of somebody who is alone in it.
LEMMA MintedMember ==
    ASSUME NEW p \in People, NEW by \in People, NEW at \in 0 .. MaxEpoch
    PROVE  /\ member(p, by, at) \in Members /\ member(p, by, at).pk = p
           /\ member(p, by, at).send_tag_key.by = by
BY DEF member, Members, TagKeys

\* A list of one member.
LEMMA OneMember ==
    ASSUME NEW x \in Members
    PROVE  /\ <<x>> \in Seq(Members) /\ Len(<<x>>) = 1 /\ <<x>>[1] = x
           /\ \A i \in 1 .. Len(<<x>>) : <<x>>[i] = x
OBVIOUS

\* create_group: the contacts named are on no list yet.
LEMMA CreateGroup ==
    ASSUME IInv, NEW peers \in Contacts, create_group(peers)
    PROVE  IInv' /\ FinalStep
<1> DEFINE x == member(Owner, Owner, 0)
<1>1. /\ 0 \in 0 .. MaxEpoch /\ Owner \in People /\ Owner \notin Others /\ Cap \in Nat
      /\ row \in [People -> Rows] /\ inbox \in [Others -> Nat]
  BY GroupAssumption DEF People, IInv, TypeOK
<1>2. x \in Members /\ x.pk = Owner /\ x.send_tag_key.by = Owner
  BY <1>1, MintedMember
<1> HIDE DEF x
<1>3. PICK m \in Seq(Members) : m = <<x>>
  BY <1>2, OneMember
<1>4. Len(m) = 1 /\ m[1] = x /\ \A i \in 1 .. Len(m) : m[i] = x
  BY <1>2, <1>3, OneMember
<1>5. /\ peers \in Seq(Others) /\ Len(peers) \in 1 .. Cap - 1
      /\ \A i, j \in 1 .. Len(peers) : peers[i] = peers[j] => i = j
  <2>1. peers \in Seq(Others) /\ IsInjective(peers)
    BY DEF Contacts, SeqOf
  <2>2. DOMAIN peers = 1 .. Len(peers)
    BY <2>1
  <2> QED
    BY <2>1, <2>2 DEF IsInjective, create_group
<1>6. PICK r \in Rows : r = Live(m, peers, 0)
  BY <1>1, <1>5, LiveRow
<1>7. r.kind = "live" /\ r.members = m /\ r.pending = peers /\ r.epoch = 0
  BY <1>1, <1>5, <1>6, LiveRow
<1>8. OwnerRow(r)
  <2>1. PICK u \in Nat : u = Len(peers)
    BY <1>5
  <2>2. 1 + u <= Cap
    BY <1>1, <1>5, <2>1
  <2>3. \A i, j \in 1 .. Len(m) : i = j
    BY <1>4
  <2>4. \A i \in 1 .. Len(m), j \in 1 .. Len(peers) : m[i].pk # peers[j]
    BY <1>1, <1>2, <1>4, <1>5
  <2>5. Once(m, peers)
    BY <1>4, <1>5, <2>1, <2>2, <2>3, <2>4 DEF Once
  <2>6. MintedBy(m, Owner)
    BY <1>2, <1>4 DEF MintedBy
  <2> QED
    BY <1>7, <2>5, <2>6 DEF OwnerRow
<1>9. row' = [row EXCEPT ![Owner] = r]
  BY <1>3, <1>6 DEF create_group, x
<1>10. Admitted(r.members) \subseteq Admitted(row[Owner].members)
  BY <1>2, <1>4, <1>7 DEF Admitted, pks
<1>11. posted = {} /\ row[Owner].kind = "none"
  BY DEF IInv, BeforeInv, create_group
<1>12. inbox' \in [Others -> Nat]
  BY <1>1 DEF create_group
<1>13. last' \in People
  BY <1>1, CalledBy DEF create_group, IInv
<1> QED
  BY <1>8, <1>9, <1>10, <1>11, <1>12, <1>13, OwnerStep DEF create_group

\* add_group_member: one more person is pending.
LEMMA AddGroupMember ==
    ASSUME IInv, NEW p \in Others, add_group_member(p)
    PROVE  IInv' /\ FinalStep
<1>1. /\ Owner \in People /\ row \in [People -> Rows] /\ inbox \in [Others -> Nat]
  BY DEF People, IInv, TypeOK
<1>2. PICK m \in Seq(Members) : m = row[Owner].members
  BY <1>1, RowFields
<1>3. PICK q \in Seq(Others) : q = row[Owner].pending
  BY <1>1, RowFields
<1>4. /\ Once(m, q) /\ MintedBy(m, Owner) /\ row[Owner].kind # "panicked"
  BY <1>2, <1>3 DEF IInv, RowInv, OwnerRow
<1>5. ~(Len(m) + Len(q) >= Cap) /\ p \notin Range(q) /\ p \notin pks(m)
  BY <1>2, <1>3 DEF add_group_member, add_refused
<1>6. Append(q, p) \in Seq(Others) /\ Once(m, Append(q, p))
  BY <1>4, <1>5, OnceAdd
<1>7. PICK s \in Seq(Others) : s = Append(q, p)
  BY <1>6
<1>8. PICK r \in Rows : r = [row[Owner] EXCEPT !.pending = s]
  BY <1>1, <1>7 DEF Rows
<1>9. /\ r.members = m /\ r.pending = s /\ r.kind = row[Owner].kind /\ r.epoch = row[Owner].epoch
  BY <1>1, <1>2, <1>8 DEF Rows
<1>10. row' = [row EXCEPT ![Owner] = r]
  BY <1>1, <1>3, <1>7, <1>8 DEF add_group_member
<1>11. OwnerRow(r)
  BY <1>4, <1>6, <1>7, <1>9 DEF OwnerRow
<1>12. inbox' \in [Others -> Nat]
  BY <1>1 DEF add_group_member
<1>13. last' \in People
  BY <1>1, CalledBy DEF add_group_member, IInv
<1>14. created' = TRUE
  BY DEF add_group_member, IInv, TypeOK, BeforeInv
<1> QED
  BY <1>2, <1>9, <1>10, <1>11, <1>12, <1>13, <1>14, OwnerStep DEF add_group_member

\* kick_group_member: fewer members, of the next epoch.
LEMMA KickGroupMember ==
    ASSUME IInv, NEW p \in People, kick_group_member(p)
    PROVE  IInv' /\ FinalStep
<1>1. /\ Owner \in People /\ row \in [People -> Rows] /\ row[Owner] \in Rows
      /\ answer \in [Others -> {"none", "sent", "heard"}]
  BY DEF People, IInv, TypeOK
<1>2. PICK m \in Seq(Members) : m = row[Owner].members
  BY <1>1, RowFields
<1>3. PICK q \in Seq(Others) : q = row[Owner].pending
  BY <1>1, RowFields
<1> DEFINE e == row[Owner].epoch + 1
           at == {i \in 1 .. Len(m) : m[i].pk # p}
           ms == retain(m, at)
<1>4. /\ Once(m, q) /\ MintedBy(m, Owner)
  BY <1>2, <1>3 DEF IInv, RowInv, OwnerRow
<1>5. /\ ms \in Seq(Members) /\ Once(ms, q)
      /\ \A k \in 1 .. Len(ms) : \E i \in 1 .. Len(m) : ms[k] = m[i]
  <2>1. at \in SUBSET (1 .. Len(m))
    OBVIOUS
  <2> HIDE DEF at
  <2> QED
    BY <1>4, <2>1, OnceKick
<1>6. e \in 0 .. MaxEpoch
  BY <1>1, RowFields, GroupAssumption DEF kick_group_member
<1>7. /\ row' = [row EXCEPT ![Owner] = Live(ms, q, e)] /\ post_roster(Live(ms, q, e))
      /\ row[Owner].kind = "live"
  BY <1>2, <1>3, Zenon DEF kick_group_member
<1> HIDE DEF ms, e
<1>8. PICK r \in Rows : r = Live(ms, q, e)
  BY <1>5, <1>6, LiveRow
<1>9. r.kind = "live" /\ r.members = ms /\ r.pending = q /\ r.epoch = e
  BY <1>5, <1>6, <1>8, LiveRow
<1>10. OwnerRow(r)
  BY <1>4, <1>5, <1>9 DEF OwnerRow, MintedBy
<1>11. last' \in People
  BY <1>1, CalledBy DEF kick_group_member, IInv
<1>12. Admitted(ms) \subseteq Admitted(m)
  BY <1>5 DEF Admitted, pks
<1>13. Cardinality(Admitted(ms)) <= Cardinality(Admitted(m))
  BY <1>5, <1>12, AdmittedFewer
<1>14. Cardinality(Admitted(ms)) \in Nat /\ Cardinality(Admitted(m)) \in Nat /\ Cardinality(Heard) \in Nat
  BY <1>5, AdmittedFinite, HeardFinite
<1>15. crashes = 0 => Cardinality(Admitted(m)) <= Cardinality(Heard)
  BY <1>2 DEF IInv, AdmissionsAnswered, Admitted, Heard
<1>16. crashes = 0 => Cardinality(Admitted(ms)) <= Cardinality(Heard)
  BY <1>13, <1>14, <1>15
<1>17. Heard' = Heard /\ UNCHANGED <<created, inbox, answer, faulty, snap, crashes>>
  BY DEF kick_group_member, Heard
<1> QED
  BY <1>1, <1>7, <1>8, <1>9, <1>10, <1>11, <1>16, <1>17, PostStep DEF e

\* leave_group: the row ends, of the owner's device and of a contact's.
LEMMA LeaveGroup ==
    ASSUME IInv, NEW d \in People, leave_group(d)
    PROVE  IInv' /\ FinalStep
<1>1. /\ Owner \in People /\ row \in [People -> Rows] /\ inbox \in [Others -> Nat]
      /\ answer \in [Others -> {"none", "sent", "heard"}]
  BY DEF People, IInv, TypeOK
<1>2. PICK r \in Rows : /\ r = Failed("Left") /\ r.kind = "failed"
                        /\ r.members = <<>> /\ r.pending = <<>>
  BY EmptyRows DEF Ends
<1>3. row' = [row EXCEPT ![d] = r] /\ UNCHANGED <<created, inbox, answer, posted, log, faulty, snap, crashes>>
  BY <1>2 DEF leave_group
<1>4. last' \in People
  BY CalledBy DEF leave_group, IInv
<1>5. OwnerRow(r) /\ \A p : ContactRow(p, r)
  BY <1>2, EmptyOnce
<1>6. CASE d = Owner
  <2>1. Admitted(r.members) \subseteq Admitted(row[Owner].members)
    <3>1. 1 .. Len(r.members) = {}
      BY <1>2
    <3> QED
      BY <3>1 DEF Admitted, pks
  <2>2. created' = TRUE
    BY <1>6 DEF leave_group, IInv, TypeOK, BeforeInv
  <2> QED
    BY <1>1, <1>2, <1>3, <1>4, <1>5, <1>6, <2>1, <2>2, OwnerStep
<1>7. CASE d \in Others
  <2>1. Heard' = Heard
    BY <1>3 DEF Heard
  <2> QED
    BY <1>1, <1>2, <1>3, <1>4, <1>5, <1>7, <2>1, ContactStep
<1> QED
  BY <1>6, <1>7 DEF People

\* accept_group: the contact knows itself only.
LEMMA AcceptGroup ==
    ASSUME IInv, NEW p \in Others, accept_group(p)
    PROVE  IInv' /\ FinalStep
<1> DEFINE x == member(p, p, 0)
<1>1. /\ 0 \in 0 .. MaxEpoch /\ p \in People /\ row \in [People -> Rows] /\ inbox \in [Others -> Nat]
      /\ answer \in [Others -> {"none", "sent", "heard"}]
  BY GroupAssumption DEF People, IInv, TypeOK
<1>2. x \in Members /\ x.pk = p /\ x.send_tag_key.by = p
  BY <1>1, MintedMember
<1> HIDE DEF x
<1>3. PICK m \in Seq(Members) : m = <<x>>
  BY <1>2, OneMember
<1>4. Len(m) = 1 /\ \A i \in 1 .. Len(m) : m[i] = x
  BY <1>2, <1>3, OneMember
<1>5. PICK q \in Seq(Others) : q = <<>>
  BY EmptySeq, Zenon
<1>6. PICK r \in Rows : r = Live(m, q, 0)
  BY <1>1, LiveRow
<1>7. r.kind = "live" /\ r.members = m
  BY <1>1, <1>6, LiveRow
<1>8. ContactRow(p, r)
  BY <1>2, <1>4, <1>7 DEF ContactRow, MintedBy
<1>9. row' = [row EXCEPT ![p] = r]
  BY <1>3, <1>5, <1>6, Zenon DEF accept_group, x
<1>10. answer' \in [Others -> {"none", "sent", "heard"}] /\ Heard' = Heard
  BY <1>1 DEF accept_group, Heard
<1>11. last' \in People
  BY <1>1, CalledBy DEF accept_group, IInv
<1> QED
  BY <1>1, <1>7, <1>8, <1>9, <1>10, <1>11, ContactStep DEF accept_group

\* reject_group and drop_offer: the offer ends.
LEMMA RejectGroup ==
    ASSUME IInv, NEW p \in Others, reject_group(p) \/ drop_offer(p)
    PROVE  IInv' /\ FinalStep
<1>1. /\ p \in People /\ row \in [People -> Rows] /\ inbox \in [Others -> Nat]
      /\ answer \in [Others -> {"none", "sent", "heard"}]
  BY DEF People, IInv, TypeOK
<1>2. PICK r \in Rows : /\ row' = [row EXCEPT ![p] = r] /\ r.kind # "live" /\ r.kind # "panicked"
                        /\ r.members = <<>> /\ r.pending = <<>>
  BY EmptyRows DEF Ends, reject_group, drop_offer
<1>3. row[p].kind = "offer" /\ UNCHANGED <<created, inbox, answer, posted, log, faulty, snap, crashes>>
  BY DEF reject_group, drop_offer
<1>4. last' \in People
  BY <1>1, CalledBy DEF reject_group, drop_offer, IInv
<1>5. ContactRow(p, r)
  BY <1>2, EmptyOnce
<1>6. Heard' = Heard
  BY <1>3 DEF Heard
<1> QED
  BY <1>1, <1>2, <1>3, <1>4, <1>5, <1>6, ContactStep

\* ingest_invite: an offer, for a contact without a row.
LEMMA IngestInvite ==
    ASSUME IInv, NEW p \in Others, ingest_invite(p)
    PROVE  IInv' /\ FinalStep
<1>1. /\ p \in People /\ Owner \in People /\ row \in [People -> Rows] /\ row[p] \in Rows
      /\ inbox \in [Others -> Nat] /\ answer \in [Others -> {"none", "sent", "heard"}]
  BY DEF People, IInv, TypeOK
<1>2. inbox' \in [Others -> Nat] /\ UNCHANGED <<created, answer, posted, log, faulty, snap, crashes>>
  BY <1>1 DEF ingest_invite
<1>3. PICK r : r = note_invite(row[p]) /\ row' = [row EXCEPT ![p] = r]
  BY <1>1 DEF ingest_invite
<1>4. /\ r \in Rows /\ ContactRow(p, r) /\ (row[p].kind = "failed" => r.kind = "failed")
  <2>1. CASE row[p].kind # "none"
    BY <1>1, <1>3, <2>1 DEF note_invite, IInv, RowInv
  <2>2. CASE row[p].kind = "none"
    <3>1. r = Offer
      BY <1>3, <2>2 DEF note_invite
    <3>2. Offer \in Rows /\ Offer.kind = "offer" /\ Offer.members = <<>> /\ Offer.pending = <<>>
      BY EmptyRows
    <3>3. ContactRow(p, Offer)
      BY <3>2, EmptyOnce
    <3> QED
      BY <2>2, <3>1, <3>2, <3>3
  <2> QED
    BY <2>1, <2>2
<1>5. last' \in People
  BY <1>1, CalledBy DEF ingest_invite, IInv
<1>6. Heard' = Heard
  BY <1>2 DEF Heard
<1> QED
  BY <1>1, <1>2, <1>3, <1>4, <1>5, <1>6, ContactStep

\* ingest_accept: nothing but the answer, or one admission for one answer.
LEMMA IngestAccept ==
    ASSUME IInv, NEW p \in Others, ingest_accept(p)
    PROVE  IInv' /\ FinalStep
<1>1. /\ p \in People /\ Owner \in People /\ row \in [People -> Rows] /\ row[Owner] \in Rows
      /\ answer \in [Others -> {"none", "sent", "heard"}] /\ TypeOK
  BY DEF People, IInv, TypeOK
<1>2. /\ answer' \in [Others -> {"none", "sent", "heard"}] /\ Heard' = Heard \cup {p} /\ p \notin Heard
      /\ UNCHANGED <<created, inbox, faulty, snap, crashes>>
  BY <1>1 DEF ingest_accept, Heard
<1>3. /\ Cardinality(Heard) \in Nat /\ Cardinality(Heard') = Cardinality(Heard) + 1
  BY <1>2, HeardFinite, FS_AddElement
<1>4. last' \in People
  BY <1>1, CalledBy DEF ingest_accept
<1>5. CASE ~(row[Owner].kind = "live" /\ row[Owner].pending # <<>>)
  <2>1. UNCHANGED <<row, posted, log>>
    BY <1>5 DEF ingest_accept
  <2>2. TypeOK'
    BY <1>2, <1>4, <2>1 DEF TypeOK, IInv
  <2>3. RowInv' /\ PostInv' /\ BeforeInv' /\ EpochInv' /\ EpochNamesRoster'
    BY <1>2, <2>1 DEF IInv, RowInv, PostInv, BeforeInv, EpochInv, EpochNamesRoster
  <2>4. AdmissionsAnswered'
    <3>1. PICK m \in Seq(Members) : m = row[Owner].members
      BY <1>1, RowFields
    <3>2. Cardinality(Admitted(m)) \in Nat
      BY AdmittedFinite
    <3>3. crashes = 0 => Cardinality(Admitted(m)) <= Cardinality(Heard)
      BY <3>1 DEF IInv, AdmissionsAnswered, Admitted, Heard
    <3>4. crashes = 0 => Cardinality(Admitted(m)) <= Cardinality(Heard')
      BY <1>3, <3>2, <3>3
    <3> QED
      BY <1>2, <2>1, <3>1, <3>4 DEF AdmissionsAnswered, Admitted, Heard
  <2>5. FinalStep
    BY <2>1 DEF FinalStep
  <2> QED
    BY <2>2, <2>3, <2>4, <2>5 DEF IInv
<1>6. CASE row[Owner].kind = "live" /\ row[Owner].pending # <<>>
  <2>1. PICK m \in Seq(Members) : m = row[Owner].members
    BY <1>1, RowFields
  <2>2. PICK q \in Seq(Others) : q = row[Owner].pending
    BY <1>1, RowFields
  <2> DEFINE e == row[Owner].epoch + 1
             x == member(Head(q), Owner, e)
             t == retain(q, {i \in 1 .. Len(q) : q[i] # Head(q)})
             ms == Append(m, x)
  <2>3. /\ row[Owner].epoch < MaxEpoch /\ row' = [row EXCEPT ![Owner] = Live(ms, t, e)]
        /\ post_roster(Live(ms, t, e))
    BY <1>6, <2>1, <2>2, Zenon DEF ingest_accept, note_accept
  <2>4. e \in 0 .. MaxEpoch
    BY <1>1, <2>3, RowFields, GroupAssumption
  <2>5. Head(q) \in People /\ q # <<>>
    BY <1>6, <2>2 DEF People
  <2>6. x \in Members /\ x.pk = Head(q) /\ x.send_tag_key.by = Owner
    <3> HIDE DEF e
    <3> QED
      BY <1>1, <2>4, <2>5, MintedMember
  <2>7. /\ Once(m, q) /\ MintedBy(m, Owner)
    BY <2>1, <2>2 DEF IInv, RowInv, OwnerRow
  <2> HIDE DEF x, e
  <2>8. ms \in Seq(Members) /\ t \in Seq(Others) /\ Once(ms, t)
    BY <2>5, <2>6, <2>7, OnceAdmit
  <2>9. MintedBy(ms, Owner)
    <3>1. PICK n \in Nat : n = Len(m)
      OBVIOUS
    <3>2. /\ Len(ms) = n + 1 /\ ms[n + 1] = x /\ \A i \in 1 .. n : ms[i] = m[i]
      BY <2>6, <3>1
    <3>3. \A i \in 1 .. n + 1 : i \in 1 .. n \/ i = n + 1
      OBVIOUS
    <3> HIDE DEF ms
    <3> QED
      BY <2>6, <2>7, <3>1, <3>2, <3>3 DEF MintedBy
  <2>10. Cardinality(Admitted(ms)) <= Cardinality(Admitted(m)) + 1
    BY <2>6, AdmittedMore
  <2> HIDE DEF ms, t
  <2>11. PICK r \in Rows : r = Live(ms, t, e)
    BY <2>4, <2>8, LiveRow
  <2>12. r.kind = "live" /\ r.members = ms /\ r.pending = t /\ r.epoch = e
    BY <2>4, <2>8, <2>11, LiveRow
  <2>13. OwnerRow(r)
    BY <2>8, <2>9, <2>12 DEF OwnerRow
  <2>14. Cardinality(Admitted(ms)) \in Nat /\ Cardinality(Admitted(m)) \in Nat
    BY <2>8, AdmittedFinite
  <2>15. crashes = 0 => Cardinality(Admitted(m)) <= Cardinality(Heard)
    BY <2>1 DEF IInv, AdmissionsAnswered, Admitted, Heard
  <2>16. crashes = 0 => Cardinality(Admitted(ms)) <= Cardinality(Heard')
    BY <1>3, <2>10, <2>14, <2>15
  <2> QED
    BY <1>2, <1>4, <1>6, <2>3, <2>11, <2>12, <2>13, <2>16, PostStep DEF e
<1> QED
  BY <1>5, <1>6

\* After a reload only the lists themselves are still promised.
LEMMA ReloadedStep ==
    ASSUME IInv, NEW d \in People, NEW r \in Rows, row' = [row EXCEPT ![d] = r],
           d = Owner => OwnerRow(r), d \in Others => ContactRow(d, r),
           d = Owner /\ ~created => r.kind = "none",
           crashes' = crashes => row[d].kind # "failed",
           crashes' \in 0 .. MaxCrashes, crashes' # 0,
           UNCHANGED <<created, posted, faulty, snap>>, log' \subseteq Rosters,
           inbox' \in [Others -> Nat], answer' \in [Others -> {"none", "sent", "heard"}],
           last' \in People
    PROVE  IInv' /\ FinalStep
<1>1. Owner \notin Others /\ Owner \in People /\ row \in [People -> Rows]
  BY GroupAssumption DEF People, IInv, TypeOK
<1>2. /\ row' \in [People -> Rows] /\ row'[d] = r
      /\ \A c \in People : c # d => row'[c] = row[c]
  BY <1>1
<1>3. TypeOK'
  BY <1>2 DEF IInv, TypeOK
<1>4. RowInv'
  <2>1. OwnerRow(row'[Owner]) /\ (faulty = Owner => OwnerRow(snap.row))
    BY <1>1, <1>2 DEF IInv, RowInv
  <2>2. ASSUME NEW q \in Others PROVE ContactRow(q, row'[q]) /\ (faulty = q => ContactRow(q, snap.row))
    BY <1>2 DEF IInv, RowInv, People
  <2> QED
    BY <2>1, <2>2 DEF RowInv
<1>5. PostInv' /\ EpochInv' /\ EpochNamesRoster' /\ AdmissionsAnswered'
  BY DEF IInv, PostInv, EpochInv, EpochNamesRoster, AdmissionsAnswered
<1>6. BeforeInv'
  BY <1>1, <1>2 DEF IInv, BeforeInv
<1>7. FinalStep
  BY <1>2 DEF FinalStep
<1> QED
  BY <1>3, <1>4, <1>5, <1>6, <1>7 DEF IInv

\* ingest_roster: of no contact, whose keys are its own, and of the owner
\* only when a reload lost the roster from its log.
LEMMA IngestRoster ==
    ASSUME IInv, NEW d \in People, NEW post \in posted, ingest_roster(d, post)
    PROVE  IInv' /\ FinalStep
<1>1. /\ Owner \in People /\ row \in [People -> Rows] /\ Owner \notin Others /\ row[d] \in Rows
      /\ post \in [roster : Rosters, key : TagKeys] /\ crashes \in 0 .. MaxCrashes
      /\ inbox \in [Others -> Nat] /\ answer \in [Others -> {"none", "sent", "heard"}]
      /\ log \subseteq Rosters
  BY GroupAssumption DEF People, IInv, TypeOK
<1>2. row[d].kind = "live" /\ post.key \in keys(row[d].members)
  BY DEF ingest_roster, group_match
<1>3. d = Owner
  <2>1. SUFFICES ASSUME d \in Others PROVE FALSE
    BY DEF People
  <2>2. post.key.by = d
    BY <1>2, <2>1 DEF keys, IInv, RowInv, ContactRow, MintedBy
  <2>3. post.key.by = Owner
    BY DEF IInv, PostInv
  <2> QED
    BY <1>1, <2>1, <2>2, <2>3
<1>4. crashes # 0 /\ created
  BY <1>3 DEF ingest_roster, IInv, EpochInv, BeforeInv
<1> DEFINE ros == post.roster
<1>5. ros \in Rosters /\ ros.members \in Seq(Members) /\ ros.epoch \in 0 .. MaxEpoch
  BY <1>1 DEF Rosters
<1>6. Once(ros.members, <<>>) /\ MintedBy(ros.members, Owner) /\ Owner \in pks(ros.members)
  BY DEF IInv, PostInv
<1>7. PICK q \in Seq(Others) : q = <<>>
  BY EmptySeq, Zenon
<1> HIDE DEF ros
<1>8. PICK r : /\ r = IF note_roster(row[d], d, ros).kind = "failed" THEN Panicked
                     ELSE note_roster(row[d], d, ros)
               /\ row' = [row EXCEPT ![d] = r]
  BY <1>1 DEF ingest_roster, ros
<1>9. r \in Rows /\ OwnerRow(r)
  <2>1. note_roster(row[d], d, ros) = Live(ros.members, q, ros.epoch)
    BY <1>2, <1>3, <1>6, <1>7, Zenon DEF note_roster
  <2>2. LET l == Live(ros.members, q, ros.epoch)
        IN  l \in Rows /\ l.members = ros.members /\ l.pending = q /\ l.kind = "live"
    BY <1>5, LiveRow
  <2>3. r = Live(ros.members, q, ros.epoch)
    BY <1>8, <2>1, <2>2
  <2> QED
    BY <1>6, <1>7, <2>2, <2>3 DEF OwnerRow
<1>10. last' \in People
  BY <1>1, CalledBy DEF ingest_roster, IInv
<1>11. /\ UNCHANGED <<created, inbox, answer, posted, faulty, snap, crashes>> /\ log' \subseteq Rosters
  BY <1>1, <1>5 DEF ingest_roster, ros
<1> QED
  BY <1>1, <1>2, <1>3, <1>4, <1>8, <1>9, <1>10, <1>11, ReloadedStep

\* fold: the snapshot is the row as it is.
LEMMA FoldStep ==
    ASSUME IInv, NEW d \in People, fold(d)
    PROVE  IInv' /\ FinalStep
<1>1. /\ row \in [People -> Rows] /\ log \subseteq Rosters /\ d = faulty
      /\ UNCHANGED <<row, created, inbox, answer, posted, log, faulty, crashes>>
  BY DEF IInv, TypeOK, fold
<1>2. snap'.row = row[d] /\ snap'.log \subseteq Rosters
  BY <1>1 DEF fold
<1>3. last' \in People
  BY CalledBy DEF fold, IInv
<1>4. TypeOK'
  BY <1>1, <1>2, <1>3 DEF IInv, TypeOK
<1>5. RowInv' /\ BeforeInv'
  BY <1>1, <1>2 DEF IInv, RowInv, BeforeInv
<1>6. PostInv' /\ EpochInv' /\ EpochNamesRoster' /\ AdmissionsAnswered'
  BY <1>1 DEF IInv, PostInv, EpochInv, EpochNamesRoster, AdmissionsAnswered
<1>7. FinalStep
  BY <1>1 DEF FinalStep
<1> QED
  BY <1>4, <1>5, <1>6, <1>7 DEF IInv

\* reload: the row of the snapshot, whose end becomes Left.
LEMMA ReloadStep ==
    ASSUME IInv, NEW d \in People, reload(d)
    PROVE  IInv' /\ FinalStep
<1>1. /\ Owner \in People /\ Owner \notin Others /\ row \in [People -> Rows] /\ snap.row \in Rows
      /\ crashes \in 0 .. MaxCrashes /\ last \in People /\ MaxCrashes \in Nat
      /\ inbox \in [Others -> Nat] /\ answer \in [Others -> {"none", "sent", "heard"}]
      /\ log \subseteq Rosters /\ snap.log \subseteq Rosters
  BY GroupAssumption DEF People, IInv, TypeOK
<1>2. crashes' \in 0 .. MaxCrashes /\ crashes' # 0 /\ crashes' # crashes
  BY <1>1 DEF reload
<1>3. inbox' \in [Others -> Nat]
  BY <1>1 DEF reload, People
<1>4. answer' \in [Others -> {"none", "sent", "heard"}]
  BY <1>1 DEF reload, People
<1>5. PICK r : r = parse_group(snap.row) /\ row' = [row EXCEPT ![d] = r]
  BY DEF reload
<1>6. /\ OwnerRow(snap.row) \/ d # Owner
      /\ d \in Others => ContactRow(d, snap.row)
      /\ d = Owner /\ ~created => snap.row.kind = "none"
  BY DEF IInv, RowInv, BeforeInv, reload
<1>7. /\ r \in Rows /\ (d = Owner => OwnerRow(r)) /\ (d \in Others => ContactRow(d, r))
      /\ d = Owner /\ ~created => r.kind = "none"
  <2>1. CASE snap.row.kind # "failed"
    BY <1>1, <1>5, <1>6, <2>1 DEF parse_group
  <2>2. CASE snap.row.kind = "failed"
    <3>1. r = Failed("Left")
      BY <1>5, <2>2 DEF parse_group
    <3>2. r \in Rows /\ r.kind = "failed" /\ r.members = <<>> /\ r.pending = <<>>
      BY <3>1, EmptyRows DEF Ends
    <3>3. OwnerRow(r) /\ \A p : ContactRow(p, r)
      BY <3>2, EmptyOnce
    <3> QED
      BY <1>6, <2>2, <3>2, <3>3
  <2> QED
    BY <2>1, <2>2
<1>8. last' \in People
  BY DEF reload
<1>9. UNCHANGED <<created, posted, faulty, snap>> /\ log' \subseteq Rosters
  BY <1>1 DEF reload
<1> QED
  BY <1>2, <1>3, <1>4, <1>5, <1>7, <1>8, <1>9, ReloadedStep

-----------------------------------------------------------------------------
(* Theorems *)

\* Nothing is listed, posted or snapshotted at first.
LEMMA InitIInv == ASSUME Init PROVE IInv
<1>1. /\ NoRow \in Rows /\ NoRow.kind = "none" /\ NoRow.members = <<>> /\ NoRow.pending = <<>>
  BY EmptyRows
<1>2. OwnerRow(NoRow) /\ \A p : ContactRow(p, NoRow)
  BY <1>1, EmptyOnce
<1>3. /\ Owner \in People /\ \A d \in People : row[d] = NoRow
      /\ snap.row = NoRow /\ snap.log = {} /\ row \in [People -> Rows]
  BY <1>1 DEF Init, People
<1>4. TypeOK
  <2>1. /\ created \in BOOLEAN /\ inbox \in [Others -> Nat] /\ answer \in [Others -> {"none", "sent", "heard"}]
        /\ posted = {} /\ log = {}
    BY DEF Init
  <2>2. faulty \in People /\ last \in People /\ crashes \in 0 .. MaxCrashes
    BY GroupAssumption DEF Init
  <2>3. snap.row \in Rows /\ snap.log \subseteq Rosters /\ row \in [People -> Rows]
    BY <1>1, <1>3
  <2> QED
    BY <2>1, <2>2, <2>3 DEF TypeOK
<1>5. RowInv
  BY <1>2, <1>3 DEF RowInv, People
<1>6. PostInv /\ BeforeInv /\ EpochInv /\ EpochNamesRoster
  BY <1>1, <1>3 DEF Init, PostInv, BeforeInv, EpochInv, EpochNamesRoster
<1>7. AdmissionsAnswered
  <2>1. pks(row[Owner].members) \ {Owner} = {}
    <3>1. 1 .. Len(row[Owner].members) = {}
      BY <1>1, <1>3
    <3> QED
      BY <3>1 DEF pks
  <2>2. {p \in Others : answer[p] = "heard"} = {}
    BY DEF Init
  <2>3. Cardinality({}) = 0
    BY FS_EmptySet
  <2> QED
    BY <2>1, <2>2, <2>3 DEF AdmissionsAnswered
<1> QED
  BY <1>4, <1>5, <1>6, <1>7 DEF IInv

\* Every step keeps the inductive invariant, and ends no end.
LEMMA StepIInv == ASSUME IInv, [Next]_vars PROVE IInv' /\ (Next => FinalStep)
<1>1. CASE UNCHANGED vars
  <2>1. IInv'
    BY <1>1 DEF vars, IInv, TypeOK, RowInv, PostInv, BeforeInv, EpochInv, EpochNamesRoster,
                AdmissionsAnswered
  <2>2. FinalStep
    BY <1>1 DEF vars, FinalStep
  <2> QED
    BY <2>1, <2>2
<1>2. ASSUME NEW peers \in Contacts, create_group(peers) PROVE IInv' /\ FinalStep
  BY <1>2, CreateGroup
<1>3. ASSUME NEW p \in Others, add_group_member(p) PROVE IInv' /\ FinalStep
  BY <1>3, AddGroupMember
<1>4. ASSUME NEW p \in Others, accept_group(p) PROVE IInv' /\ FinalStep
  BY <1>4, AcceptGroup
<1>5. ASSUME NEW p \in Others, reject_group(p) \/ drop_offer(p) PROVE IInv' /\ FinalStep
  BY <1>5, RejectGroup
<1>6. ASSUME NEW p \in Others, ingest_invite(p) PROVE IInv' /\ FinalStep
  BY <1>6, IngestInvite
<1>7. ASSUME NEW p \in Others, ingest_accept(p) PROVE IInv' /\ FinalStep
  BY <1>7, IngestAccept
<1>8. ASSUME NEW d \in People, kick_group_member(d) PROVE IInv' /\ FinalStep
  BY <1>8, KickGroupMember
<1>9. ASSUME NEW d \in People, leave_group(d) PROVE IInv' /\ FinalStep
  BY <1>9, LeaveGroup
<1>10. ASSUME NEW d \in People, NEW post \in posted, ingest_roster(d, post) PROVE IInv' /\ FinalStep
  BY <1>10, IngestRoster
<1>11. ASSUME NEW d \in People, fold(d) PROVE IInv' /\ FinalStep
  BY <1>11, FoldStep
<1>12. ASSUME NEW d \in People, reload(d) PROVE IInv' /\ FinalStep
  BY <1>12, ReloadStep
<1> QED
  BY <1>1, <1>2, <1>3, <1>4, <1>5, <1>6, <1>7, <1>8, <1>9, <1>10, <1>11, <1>12 DEF Next

\* The inductive invariant holds in every state.
LEMMA Inductive == Spec => []IInv
<1>1. Init => IInv
  BY InitIInv
<1>2. IInv /\ [Next]_vars => IInv'
  BY StepIInv
<1> QED
  BY <1>1, <1>2, PTL DEF Spec

\* Type correctness of every row, mailbox and roster (GroupPhase, GroupLive).
THEOREM TypeCorrect == Spec => []TypeOK
<1>1. IInv => TypeOK
  BY DEF IInv
<1> QED
  BY <1>1, Inductive, PTL

\* The owner's row lists nobody twice and never more than the cap, whatever
\* old rosters a reload brings back (create_group, add_group_member,
\* note_accept, kick_group_member, note_roster).
THEOREM EachPersonOnceAlways == Spec => []EachPersonOnce
<1>1. ASSUME IInv PROVE EachPersonOnce
  <2>1. row[Owner].members \in Seq(Members) /\ row[Owner].pending \in Seq(Others)
    BY <1>1, RowFields DEF IInv, TypeOK, People
  <2>2. Once(row[Owner].members, row[Owner].pending)
    BY <1>1 DEF IInv, RowInv, OwnerRow
  <2> QED
    BY <2>1, <2>2, OnceIs DEF EachPersonOnce
<1> QED
  BY <1>1, Inductive, PTL

\* While no device is reloaded, an epoch names one member list
\* (kick_group_member, note_accept).
THEOREM EpochNamesRosterAlways == Spec => []EpochNamesRoster
<1>1. IInv => EpochNamesRoster
  BY DEF IInv
<1> QED
  BY <1>1, Inductive, PTL

\* While no device is reloaded, the owner admits no more people than have
\* accepted (note_accept).
THEOREM AdmissionsAnsweredAlways == Spec => []AdmissionsAnswered
<1>1. IInv => AdmissionsAnswered
  BY DEF IInv
<1> QED
  BY <1>1, Inductive, PTL

\* No device finds a roster that leaves it out, so no ingestion panics, reloads
\* included (accept_fragment, note_roster, group_route, group_match).
THEOREM NoPanicAlways == Spec => []NoPanic
<1>1. ASSUME IInv PROVE NoPanic
  BY <1>1 DEF IInv, RowInv, OwnerRow, ContactRow, NoPanic, People
<1> QED
  BY <1>1, Inductive, PTL

\* A device that rejected, left or was removed is not offered the group again
\* unless it is reloaded (note_invite, note_roster).
THEOREM EndIsFinalAlways == Spec => EndIsFinal
<1>1. IInv /\ [Next]_vars =>
        [\A d \in People : /\ row[d].kind = "failed"
                           /\ crashes' = crashes
                           => row'[d].kind = "failed"]_vars
  BY StepIInv DEF FinalStep
<1>2. Spec => []IInv /\ [][Next]_vars
  BY Inductive DEF Spec
<1> QED
  BY <1>1, <1>2, PTL DEF EndIsFinal
=============================================================================
