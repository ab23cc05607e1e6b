-------------------------------- MODULE Chat --------------------------------
(***************************************************************************)
(* What a host is shown of a conversation: the history that dm_view and    *)
(* the group view compute from the log, on the states of TxLog.            *)
(***************************************************************************)
EXTENDS TxLog, FiniteSets

CONSTANT HistoryCap   \* HISTORY_CAP

\* Contents of different kinds differ, and so do the ids of different contents.
ASSUME ChatAssumption ==
    /\ HistoryCap \in Nat
    /\ Prefs \cap (Texts \cup Marks) = {}
    /\ \A m, n \in Names : Hash(m) \in Nat /\ (Hash(m) = Hash(n) => m = n)

\* The bodies that are items of a history.
chat_item(t) == t.name \in Texts \cup Marks

\* Mutant: the oldest items are kept.
trim_recent_oldest(log, items) ==
    {t \in items : Cardinality({u \in items : later(log, t, u)}) < HistoryCap}

\* The HistoryCap newest items.
trim_recent(log, items) ==
    {t \in items : Cardinality({u \in items : later(log, u, t)}) < HistoryCap}

\* history at the last tick, as a set of items: later orders them.
history(s) ==
    LET items == {t \in ids(s.log) : chat_item(t) /\ ~expired(t, s.ticked)}
    IN  {[tx |-> t, sender |-> s.senders[t], wall |-> s.log[t]] : t \in trim_recent(s.log, items)}

\* What reached a file is shown, as long as there is an engine, until it expires
\* or HISTORY_CAP newer items are; what has expired is not shown; and up to the
\* first reload, which loses chat_senders, an item is shown under the name of one
\* who sent it: across repeated payloads of both parties, folds, dropped records
\* and reloads (history, trim_recent, remember_sender).
HistoryShows ==
    LET shown == history(st)
    IN  Running =>
        /\ \A t \in stored :
            chat_item(t) /\ ~expired(t, st.ticked) /\ ~expired(t, now) =>
                \/ t \in {i.tx : i \in shown}
                \/ Cardinality({i \in shown : later(st.log, i.tx, t)}) = HistoryCap
        /\ \A i \in shown :
            /\ crashes = 0 => <<i.sender, i.tx>> \in sent
            /\ i.tx.expire_at = Never \/ i.tx.expire_at > st.ticked
=============================================================================
