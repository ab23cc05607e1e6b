--------------------------------- MODULE TxLog ---------------------------------
(***************************************************************************)
(* The transaction log of one established conversation and its persistence *)
(* on one device: the engine's state in memory, the folded snapshot and    *)
(* the log of sealed records that the host keeps, and the host's crashes.  *)
(*                                                                         *)
(* A transaction's id is a MAC of its payload, so a transaction is its     *)
(* payload.  A record is identified by its seq, which is its nonce under   *)
(* the DEK.  The row of the conversation has no record of its own: fold    *)
(* saves it, and the row of a child that spawn_child made comes back too   *)
(* when apply meets the TxConfirm of its handshake.                        *)
(***************************************************************************)
EXTENDS Integers, Sequences, Retain

CONSTANTS
    Texts,      \* contents of TxText and TxMedia, which carry expire_at
    Marks,      \* contents of TxRead, TxDelivered, TxEdit, TxRemove and TxReaction
    Prefs,      \* contents of TxPrefs
    DisappearAfter(_),  \* their disappear_after
    Hash(_),    \* orders contents as their ids are ordered
    Life,       \* disappear_after of the defaults
    MaxSeq,     \* the limit of PersistSeq, which persist_record and fold refuse
    MaxClock,   \* bound on the clocks of both devices
    MaxLog,     \* bound on the records in the host's hands
    MaxCrashes  \* bound on the reloads

ASSUME TxLogAssumption ==
    /\ \A p \in Prefs : DisappearAfter(p) \in {-1} \cup 0 .. Life
    /\ {Life, MaxSeq, MaxClock, MaxLog, MaxCrashes} \subseteq Nat
    /\ {} \notin Texts \cup Marks \cup Prefs       \* the name of NoTx

Clock == 0 .. MaxClock
Seqs == 0 .. MaxSeq
Never == -1

Names == Texts \cup Marks \cup Prefs
Lives == {Life} \cup {DisappearAfter(p) : p \in Prefs}

(* text_payload puts the time of expiry into the payload: the same text sent *)
(* in another second is another transaction.                                 *)
Payloads == [name : Texts, expire_at : {Never} \cup (0 .. MaxClock + Life)] \cup
            [name : Marks \cup Prefs, expire_at : {Never}]

payload(n, life, at) ==
    [name |-> n, expire_at |-> IF n \in Texts /\ life # Never THEN at + life ELSE Never]

expired(t, at) == t.expire_at # Never /\ t.expire_at <= at

(* A log and a persist_log are partial functions. *)
Absent == -1
NoTx == [name |-> {}, expire_at |-> Never]
Logs == [Payloads -> Clock \cup {Absent}]            \* hlc.wall_ms; hlc.counter is 0
PersistLogs == [Seqs -> Payloads \cup {NoTx}]
ids(log) == {t \in Payloads : log[t] # Absent}

\* Bodies in the order of their time, then of their id, which depends on the
\* whole payload.
tx_id(t) == Hash(t.name) * (MaxClock + Life + 2) + t.expire_at + 1
later(log, t, u) == log[t] > log[u] \/ (log[t] = log[u] /\ tx_id(t) > tx_id(u))

\* latest_wire, latest_marker, latest_disappear, latest_online: the newest body
\* with one of the contents, whoever sent it.
latest(log, K) ==
    LET of == {t \in ids(log) : t.name \in K}
    IN  {t \in of : \A u \in of : u = t \/ later(log, t, u)}

\* expire_at: the preferences that were set last, or the defaults.
latest_disappear(log) ==
    IF latest(log, Prefs) = {} THEN Life ELSE DisappearAfter((CHOOSE t \in latest(log, Prefs) : TRUE).name)

(* chat_senders; Handshake stands for Actor::handshake, which is shown for a *)
(* body without a sender.                                                    *)
Senders == {"Local", "Peer", "Handshake"}

Records == [seq : Seqs, tx : Payloads, wall : Clock]

VARIABLES
    now,        \* the host's clock
    st,         \* EngineState: row, log, persist_log, next_seq, last_ack, ticked, chat_senders
    snapshot,   \* the folded file
    records,    \* the host's log file
    unsaved,    \* records that were returned and not yet appended
    engine,     \* "running", or "refused" once a reload ended in an error
    crashes,
    stored,     \* history: transactions that reached a file
    sent,       \* history: who sent what
    fresh       \* history: <<seq, tx>> of the stored records of new transactions

host == <<snapshot, records, engine>>
vars == <<now, st, snapshot, records, unsaved, engine, crashes, stored, sent, fresh>>

States == [row : BOOLEAN, log : Logs, persist_log : PersistLogs, next_seq : Seqs,
           last_ack : SUBSET Payloads, ticked : Clock, senders : [Payloads -> Senders]]

NewState == [row |-> FALSE, log |-> [t \in Payloads |-> Absent],
             persist_log |-> [q \in Seqs |-> NoTx], next_seq |-> 0, last_ack |-> {}, ticked |-> 0,
             senders |-> [t \in Payloads |-> "Handshake"]]

-----------------------------------------------------------------------------
(* helpers.rs *)

\* The watermark: what the peer last acknowledged, or everything before the
\* first acknowledgement.
watermark_of(s) == IF s.last_ack = {} THEN ids(s.log) ELSE s.last_ack

tx_watermarked(s, t) == t \in ids(s.log) \cap watermark_of(s)

\* Mutant: whatever is in the log may be folded.
persist_outside_watermark_never(s) == FALSE

\* A transaction that was persisted, has not expired and is not acknowledged.
persist_outside_watermark(s) ==
    \E q \in Seqs : LET t == s.persist_log[q]
                    IN  /\ t # NoTx
                        /\ t \in ids(s.log)
                        /\ ~expired(t, s.ticked)
                        /\ ~tx_watermarked(s, t)

\* store_durable_last_ack, of a packet whose set_xor is that of the local set.
store_durable_last_ack(s) == [s EXCEPT !.last_ack = ids(s.log)]

(* vault.rs, live.rs *)

\* Mutant: next_seq moves past the limit.
insert_skips(s, t, wall) ==
    [s EXCEPT !.log[t] = wall, !.persist_log[s.next_seq] = t, !.next_seq = @ + 2]

\* persist_record, persist_log, next_seq and insert_body of a new transaction.
insert(s, t, wall) ==
    [s EXCEPT !.log[t] = wall, !.persist_log[s.next_seq] = t, !.next_seq = @ + 1]

\* Mutant: a transaction that is minted again takes the new time.
merge_tx_restamps(s, t) ==
    IF t \in ids(s.log)
    THEN [state |-> [s EXCEPT !.log[t] = s.ticked],
          record |-> [seq |-> s.next_seq, tx |-> t, wall |-> s.ticked]]
    ELSE [state |-> insert(s, t, s.ticked),
          record |-> [seq |-> s.next_seq, tx |-> t, wall |-> s.ticked]]

\* merge_tx: a payload that is in the log already is not stored again, but a
\* record of it is sealed under the next seq, which stays where it is.
merge_tx(s, t) ==
    IF t \in ids(s.log)
    THEN [state |-> s, record |-> [seq |-> s.next_seq, tx |-> t, wall |-> s.log[t]]]
    ELSE [state |-> insert(s, t, s.ticked),
          record |-> [seq |-> s.next_seq, tx |-> t, wall |-> s.ticked]]

\* chat_senders after finish_chat or accept_fragment.
remember_sender(s, t, who) == [s EXCEPT !.senders[t] = who]

(* persist.rs *)

\* The snapshot holds the watermarked transactions that have not expired, and
\* no senders.
folded(s) ==
    LET kept == {t \in ids(s.log) : tx_watermarked(s, t) /\ ~expired(t, s.ticked)}
    IN  [s EXCEPT !.log = [t \in Payloads |-> IF t \in kept THEN s.log[t] ELSE Absent],
                  !.persist_log = [q \in Seqs |-> IF s.persist_log[q] \in kept
                                                  THEN s.persist_log[q] ELSE NoTx],
                  !.senders = NewState.senders]

\* The last of the positions hits, 0 if there is none.
last_of(hits) == IF hits = {} THEN 0 ELSE CHOOSE i \in hits : \A j \in hits : j <= i

\* Mutant: apply leaves next_seq alone.
apply_keeps_seq(s, rs) ==
    LET of(t) == last_of({i \in 1 .. Len(rs) : rs[i].tx = t})
        at(q) == last_of({i \in 1 .. Len(rs) : rs[i].seq = q})
    IN  [s EXCEPT !.row = IF rs = <<>> THEN s.row ELSE TRUE,
                  !.log = [t \in Payloads |-> IF of(t) = 0 THEN s.log[t] ELSE rs[of(t)].wall],
                  !.persist_log = [q \in Seqs |-> IF at(q) = 0 THEN s.persist_log[q]
                                                  ELSE rs[at(q)].tx]]

\* apply of each record in turn: a record replaces what the log holds of its
\* transaction and of its seq, and next_seq moves behind it.  A record that was
\* applied found the row, the snapshot's or one that a TxConfirm spawned.
apply(s, rs) ==
    LET of(t) == last_of({i \in 1 .. Len(rs) : rs[i].tx = t})
        at(q) == last_of({i \in 1 .. Len(rs) : rs[i].seq = q})
        behind == {s.next_seq} \cup {rs[i].seq + 1 : i \in 1 .. Len(rs)}
    IN  [s EXCEPT !.row = IF rs = <<>> THEN s.row ELSE TRUE,
                  !.log = [t \in Payloads |-> IF of(t) = 0 THEN s.log[t] ELSE rs[of(t)].wall],
                  !.persist_log = [q \in Seqs |-> IF at(q) = 0 THEN s.persist_log[q]
                                                  ELSE rs[at(q)].tx],
                  !.next_seq = CHOOSE q \in behind : \A other \in behind : other <= q]

-----------------------------------------------------------------------------
Init ==
    /\ now = 0
    /\ st = NewState
    /\ snapshot = NewState
    /\ records = <<>>
    /\ unsaved = <<>>
    /\ engine = "running"
    /\ crashes = 0
    /\ stored = {}
    /\ sent = {}
    /\ fresh = {}

\* There is a state to call the engine with.
Running == engine = "running"

tick ==
    /\ Running
    /\ now < MaxClock
    /\ now' = now + 1
    /\ st' = [st EXCEPT !.ticked = now + 1]
    /\ UNCHANGED <<host, unsaved, crashes, stored, sent, fresh>>

\* put_dm_inviter, put_dm_invitee or spawn_child: the conversation gets its row.
open_row ==
    /\ Running
    /\ ~st.row
    /\ st' = [st EXCEPT !.row = TRUE]
    /\ UNCHANGED <<now, host, unsaved, crashes, stored, sent, fresh>>

Room == Len(records) + Len(unsaved) < MaxLog

\* mint_on and mutate_on of a content; remembered: the call keeps
\* its sender.
mint_on(n, remembered) ==
    LET t == payload(n, latest_disappear(st.log), st.ticked)
        merged == merge_tx(st, t)
    IN  /\ Running
        /\ st.row
        /\ Room
        /\ st.next_seq < MaxSeq
        /\ st' = IF remembered THEN remember_sender(merged.state, t, "Local") ELSE merged.state
        /\ unsaved' = Append(unsaved, merged.record)
        /\ sent' = sent \cup {<<"Local", t>>}
        /\ UNCHANGED <<now, host, crashes, stored, fresh>>

\* send_text, send_media, edit_message, remove_message, send_reaction,
\* send_read and send_delivered: finish_chat remembers the sender.
send(n) == n \in Texts \cup Marks /\ mint_on(n, TRUE)

\* set_conversation_prefs of a direct message.
set_conversation_prefs(n) == n \in Prefs /\ mint_on(n, FALSE)

\* accept_fragment of the peer's transaction at its own time and with its own
\* preferences.  matches: the packet is durable and names the set that is now
\* the local one.
ingest_packet(n, life, wall, matches) ==
    LET t == payload(n, life, wall)
        merged == remember_sender(insert(st, t, wall), t, "Peer")
    IN  /\ Running
        /\ st.row
        /\ Room
        /\ st.next_seq < MaxSeq
        /\ t \notin ids(st.log)
        /\ st' = IF matches THEN store_durable_last_ack(merged) ELSE merged
        /\ unsaved' = Append(unsaved, [seq |-> st.next_seq, tx |-> t, wall |-> wall])
        /\ sent' = sent \cup {<<"Peer", t>>}
        /\ UNCHANGED <<now, host, crashes, stored, fresh>>

\* A durable PacketXorAck that names the local set.
ingest_ack ==
    /\ Running
    /\ ids(st.log) # {}
    /\ st' = store_durable_last_ack(st)
    /\ st' # st
    /\ UNCHANGED <<now, host, unsaved, crashes, stored, sent, fresh>>

\* The host appends the records in the order in which it got them.
Save ==
    /\ Running
    /\ unsaved # <<>>
    /\ LET r == Head(unsaved)
       IN  /\ records' = Append(records, r)
           /\ stored' = stored \cup {r.tx}
           /\ fresh' = IF st.persist_log[r.seq] = r.tx THEN fresh \cup {<<r.seq, r.tx>>}
                       ELSE fresh
    /\ unsaved' = Tail(unsaved)
    /\ UNCHANGED <<now, st, snapshot, engine, crashes, sent>>

\* fold; the host replaces the folded file.
fold ==
    /\ Running
    /\ st.next_seq < MaxSeq
    /\ ~persist_outside_watermark(st)
    /\ snapshot' = folded(st)
    /\ stored' = stored \cup ids(snapshot'.log)
    /\ UNCHANGED <<now, st, records, unsaved, engine, crashes, sent, fresh>>

\* The host drops the records that the folded file covers, after it wrote it.
Truncate ==
    /\ Running
    /\ records' = retain(records, {i \in 1 .. Len(records) : records[i].seq >= snapshot.next_seq})
    /\ records' # records
    /\ UNCHANGED <<now, st, snapshot, unsaved, engine, crashes, stored, sent, fresh>>

\* insert_body takes a transaction of the conversation only if its row is there:
\* in the snapshot for certain, else only if a TxConfirm was replayed before.
applicable == records = <<>> \/ snapshot.row

\* The process dies and is started again: apply_folded, then apply of the log.
reload ==
    /\ Running
    /\ crashes < MaxCrashes
    /\ crashes' = crashes + 1
    /\ st' = apply(snapshot, records)
    /\ unsaved' = <<>>
    /\ UNCHANGED <<now, host, stored, sent, fresh>>

\* The same where nothing brings the row of the first record back: apply returns
\* WrongPhase, now and at each later start, since the files stay as they are.
\* Nobody calls the engine any more; st and unsaved are what the dead process had.
reload_refused ==
    /\ Running
    /\ crashes < MaxCrashes
    /\ ~applicable
    /\ crashes' = crashes + 1
    /\ engine' = "refused"
    /\ UNCHANGED <<now, st, snapshot, records, unsaved, stored, sent, fresh>>

Next ==
    \/ tick
    \/ open_row
    \/ \E n \in Names : send(n)
    \/ \E n \in Names : set_conversation_prefs(n)
    \/ \E n \in Names, life \in Lives, wall \in Clock, matches \in BOOLEAN :
            ingest_packet(n, life, wall, matches)
    \/ ingest_ack
    \/ Save
    \/ fold
    \/ Truncate
    \/ reload
    \/ reload_refused

Spec == Init /\ [][Next]_vars

-----------------------------------------------------------------------------
(* Properties. *)

TypeOK ==
    /\ now \in Clock
    /\ st \in States
    /\ snapshot \in States
    /\ records \in Seq(Records)
    /\ unsaved \in Seq(Records)
    /\ engine \in {"running", "refused"}
    /\ crashes \in 0 .. MaxCrashes
    /\ stored \subseteq Payloads
    /\ sent \subseteq Senders \X Payloads
    /\ fresh \subseteq Seqs \X Payloads

InFiles(t) == snapshot.log[t] # Absent \/ \E i \in 1 .. Len(records) : records[i].tx = t

\* A transaction that reached a file is in a file until it has expired, and in
\* memory too while there is an engine, across folds, dropped records and crashes
\* between any two of them (fold's persist_outside_watermark, apply_folded,
\* apply).  A crash before the first fold of the row ends the engine.
Kept ==
    \A t \in stored :
        expired(t, now) \/ (InFiles(t) /\ (Running => t \in ids(st.log)))

\* The persist seq under which a new transaction was stored is never given to
\* another new one, whatever a crash forgot (apply's next_seq).
SeqFresh == \A a, b \in fresh : a[1] = b[1] => a = b

\* An item of the history never moves: nothing changes the time of a transaction
\* the log holds (merge_tx and accept_fragment of a payload that is there
\* already, apply over the snapshot).
TimeStable ==
    [][\A t \in ids(st.log) \cap ids(st'.log) : st'.log[t] = st.log[t]]_vars

\* protocol.md, Persist tx record: "`seq` is unique for that DEK."
SeqUnique ==
    \A i, j \in 1 .. Len(records) : records[i].seq = records[j].seq => records[i].tx = records[j].tx

=============================================================================
