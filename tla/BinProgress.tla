------------------------------ MODULE BinProgress ------------------------------
(***************************************************************************)
(* Catch-up listing of one invite tag on one durable channel.              *)
(*                                                                         *)
(* Packets are posted under a tag derived from the ticket secret and an    *)
(* hour number (a time bin).  A device that was away lists the bins it has *)
(* missed; EngineState.bin_progress remembers which bins need no further   *)
(* listing.  One instance of this module is one BinKey: the entries of     *)
(* bin_progress for other channels or tickets never read or write this one.*)
(*                                                                         *)
(* Handing a snapshot to the engine takes two steps, as it does in a host: *)
(* the mapper's list is read first, ingest_list is called later, and both  *)
(* the clock and the store may have moved in between.                      *)
(*                                                                         *)
(* Of the conversation row only its status matters here: poll stops naming *)
(* the bins of a row whose intro is watermarked, a failed row merges       *)
(* nothing but still completes bins, and an expired one makes ingest_list  *)
(* return an error.  Handshake models how the status comes about.          *)
(***************************************************************************)
EXTENDS Integers, FiniteSets

CONSTANTS
    ListFrom,   \* time_bin(now) of create_invite or receive_ticket
    MaxBin,     \* bound: the clock stops in this bin
    Hours,      \* bound: the bins in which the host ticks
    Ttl,        \* a store may omit bodies of bins below w - Ttl (71 in the docs)
    Ids,        \* packets posted within one bin are told apart by these
    Far,        \* those sealed beyond the first SKIP_AHEAD + 1 chain positions
    Unruly,     \* those open_and_merge may refuse with an error (Equivocation)
    MaxDelay,   \* bound: hours a host may take to get a sealed packet posted
    MaxPosts,   \* bound on the number of packets posted
    MaxFetched, \* bound on the number of lists under way at once
    MaxCrashes  \* bound on the number of reloads

ASSUME BinAssumption ==
    /\ ListFrom \in Nat
    /\ MaxBin \in Nat
    /\ ListFrom <= MaxBin
    /\ Hours \subseteq Nat
    /\ Ttl \in Nat
    /\ Far \subseteq Ids
    /\ Unruly \subseteq Ids
    /\ MaxDelay \in Nat
    /\ MaxPosts \in Nat
    /\ MaxFetched \in Nat
    /\ MaxCrashes \in Nat

NoMark == -1    \* BinProgress.watermark = None

Bins == 0 .. (MaxBin + 1)
Packets == [bin : Bins, id : Ids]

\* What poll and open_and_merge ask of the row: neither failed nor
\* watermarked, intro_watermarked, failed, failed with InviteExpired.
Statuses == {"open", "acked", "failed", "expired"}
Live == {"open", "acked"}

VARIABLES
    w,          \* time_bin of the ticked now
    row,        \* status of the conversation row
    watermark,  \* BinProgress.watermark
    completed,  \* BinProgress.completed
    store,      \* packets the durable channel holds under this tag
    fetched,    \* list results in the host's hands, not yet ingested
    ingested,   \* packets the engine has merged
    saved,      \* what the last fold wrote: row, progress, merged packets; and listed
    crashes,
    listed,     \* history: bins handed to ingest_list, as far as no crash undid it
    late,       \* history: packets posted after a snapshot of their bin was read
    omitted,    \* history: packets a list left out because of their age
    swallowed   \* history: packets of a completed list that did not open

vars == <<w, row, watermark, completed, store, fetched, ingested, saved, crashes,
          listed, late, omitted, swallowed>>

-----------------------------------------------------------------------------
(* Pure helpers, with the names they have in helpers.rs. *)

\* First bin that catch-up has not passed.
catch_up_start == IF watermark = NoMark THEN ListFrom ELSE watermark + 1

\* The live window around the current bin; the subtraction saturates at 0.
listen_bins == {b \in {w - 1, w, w + 1} : b >= 0}

bin_complete(b) == (watermark # NoMark /\ b <= watermark) \/ b \in completed

\* Mutant: poll asks only for bins above the newest completed one.
poll_list_newest ==
    IF row = "acked" THEN {}
    ELSE {b \in catch_up_start .. (w + 1) : \A c \in completed : b > c} \cup listen_bins

\* poll.list for this tag: incomplete catch-up bins and the live window, unless
\* the row has not failed and its intro is watermarked.
poll_list ==
    IF row = "acked" THEN {}
    ELSE {b \in catch_up_start .. (w + 1) : ~bin_complete(b)} \cup listen_bins

\* Bins handshake_hits accepts for this tag; any other is UnknownTag.
handshake_hits == (catch_up_start .. (w + 1)) \cup listen_bins

\* Mutant: advance_progress leaves the watermark on the bin after the run.
complete_list_bin_overshoots(b) ==
    LET done == completed \cup {b}
        next == catch_up_start
    IN  \E top \in (next - 1) .. (w + 1) :
           /\ (next .. top) \subseteq done
           /\ (top + 1) \notin done
           /\ watermark' = IF top < next THEN watermark ELSE top + 1
           /\ completed' = done \ (next .. top)

\* Mutant: the watermark jumps to the listed bin, over any gap below it.
complete_list_bin_jumps(b) ==
    /\ watermark' = IF b > watermark THEN b ELSE watermark
    /\ completed' = {c \in completed : c > b}

\* complete_list_bin followed by advance_progress: the bin is recorded, and the
\* watermark moves over the contiguous run of completed bins that starts at
\* catch_up_start.  top is the last bin of that run.
complete_list_bin(b) ==
    IF watermark # NoMark /\ b <= watermark
    THEN UNCHANGED <<watermark, completed>>
    ELSE LET done == completed \cup {b}
             next == catch_up_start
         IN  \E top \in (next - 1) .. (w + 1) :
                /\ (next .. top) \subseteq done
                /\ (top + 1) \notin done
                /\ watermark' = IF top < next THEN watermark ELSE top
                /\ completed' = done \ (next .. top)

-----------------------------------------------------------------------------
Init ==
    /\ w = ListFrom
    /\ row = "open"
    /\ watermark = NoMark
    /\ completed = {}
    /\ store = {}
    /\ fetched = {}
    /\ ingested = {}
    /\ saved = [row |-> "open", watermark |-> NoMark, completed |-> {}, ingested |-> {},
                listed |-> {}]
    /\ crashes = 0
    /\ listed = {}
    /\ late = {}
    /\ omitted = {}
    /\ swallowed = {}

\* The host ticks a later hour, possibly many hours after the last one; a row
\* that has not failed and is not confirmed may expire.
Tick ==
    /\ \E n \in Hours : n > w /\ n <= MaxBin /\ w' = n
    /\ row' \in {row} \cup (IF row \in Live THEN {"expired"} ELSE {})
    /\ UNCHANGED <<watermark, completed, store, fetched, ingested, saved,
                   crashes, listed, late, omitted, swallowed>>

\* The row is moved by what this channel does not show: packets of the other
\* channels, an acknowledgement of another actor, the user's own calls.
RowMoves ==
    /\ row \in Live
    /\ row' \in {"open", "acked", "failed"} \ {row}
    /\ UNCHANGED <<w, watermark, completed, store, fetched, ingested, saved,
                   crashes, listed, late, omitted, swallowed>>

\* The other party's packet reaches the store.  Its bin was fixed when it was
\* sealed; the post may be retried for hours, and clocks may differ by one bin.
Post(p) ==
    /\ p \notin store
    /\ Cardinality(store) < MaxPosts
    /\ p.bin \in (w - MaxDelay) .. (w + 1)
    /\ store' = store \cup {p}
    /\ late' = IF p.bin \in listed \/ \E s \in fetched : s.bin = p.bin
               THEN late \cup {p} ELSE late
    /\ UNCHANGED <<w, row, watermark, completed, fetched, ingested, saved, crashes,
                   listed, omitted, swallowed>>

\* The mapper's list of one polled bin.  At most one list of a bin is under way.
Fetch(b) ==
    /\ b \in poll_list
    /\ Cardinality(fetched) < MaxFetched
    /\ \A s \in fetched : s.bin # b
    /\ LET held == {p \in store : p.bin = b} IN
       \E got \in IF b < w - Ttl THEN SUBSET held ELSE {held} :
          /\ fetched' = fetched \cup {[bin |-> b, got |-> got]}
          /\ omitted' = omitted \cup (held \ got)
    /\ UNCHANGED <<w, row, watermark, completed, store, ingested, saved, crashes,
                   listed, late, swallowed>>

\* What open_and_merge may make of the bodies of one list (ingest_known_body
\* swallows UnknownTag and passes on any other error): the packets merged, and
\* the status the row gets if it changes.
\*  - A failed row answers UnknownTag to each body.
\*  - Every body within reach of the joined chain opens; whether a later one
\*    does depends on the receive chain and the cached keys.
\*  - A merge may complete the intro or an acknowledgement; it may fail the row,
\*    and then the bodies after it are swallowed.
opened(got) ==
    IF row \in Live /\ got # {}
    THEN {<<got \ far, to>> : far \in SUBSET {p \in got : p.id \in Far}, to \in Live}
         \cup {<<some, "failed">> : some \in SUBSET got}
    ELSE {<<{}, row>>}

\* open_and_merge returns an error other than UnknownTag for one of the bodies.
may_abort(got) ==
    \/ row = "expired" /\ got # {}
    \/ row \in Live /\ \E p \in got : p.id \in Unruly

\* ingest_list of a snapshot read earlier, while its bin is still accepted.  The
\* bin is completed whatever the bodies came to, unless one is an error.
IngestList(s) ==
    /\ s \in fetched
    /\ s.bin \in handshake_hits
    /\ ~(row = "expired" /\ s.got # {})
    /\ fetched' = fetched \ {s}
    /\ \E o \in opened(s.got) :
          /\ ingested' = ingested \cup o[1]
          /\ swallowed' = swallowed \cup (s.got \ o[1])
          /\ row' = o[2]
    /\ listed' = listed \cup {s.bin}
    /\ complete_list_bin(s.bin)
    /\ UNCHANGED <<w, store, saved, crashes, late, omitted>>

\* ingest_list returns an error: the bin is no longer accepted (UnknownTag), or
\* a body is refused and the whole call with it.  The host drops the list.
RefuseList(s) ==
    /\ s \in fetched
    /\ s.bin \notin handshake_hits \/ may_abort(s.got)
    /\ fetched' = fetched \ {s}
    /\ UNCHANGED <<w, row, watermark, completed, store, ingested, saved, crashes,
                   listed, late, omitted, swallowed>>

\* ingest_packet of a body that listen yields; it completes no bin.  An error,
\* or a body that does not open, leaves everything as it was.
IngestPacket(p) ==
    /\ p \in store \ ingested
    /\ p.bin \in listen_bins
    /\ row \in Live
    /\ \E o \in opened({p}) : ingested' = ingested \cup o[1] /\ row' = o[2]
    /\ UNCHANGED <<w, watermark, completed, store, fetched, saved, crashes,
                   listed, late, omitted, swallowed>>

\* fold writes the row, the progress and the merged transactions in one snapshot.
Fold ==
    /\ saved' = [row |-> row, watermark |-> watermark, completed |-> completed,
                 ingested |-> ingested, listed |-> listed]
    /\ UNCHANGED <<w, row, watermark, completed, store, fetched, ingested, crashes,
                   listed, late, omitted, swallowed>>

\* The process dies and reloads: apply_folded of the snapshot, then apply of the
\* log records the host managed to append (some of what was ingested since).  A
\* list taken since the fold is forgotten, and what it missed no longer counts.
Reload ==
    /\ crashes < MaxCrashes
    /\ crashes' = crashes + 1
    /\ row' = saved.row
    /\ watermark' = saved.watermark
    /\ completed' = saved.completed
    /\ \E logged \in SUBSET ingested : ingested' = saved.ingested \cup logged
    /\ fetched' = {}
    /\ listed' = saved.listed
    /\ late' = {p \in late : p.bin \in saved.listed}
    /\ omitted' = {p \in omitted : p.bin \in saved.listed}
    /\ swallowed' = {p \in swallowed : p.bin \in saved.listed}
    /\ UNCHANGED <<w, store, saved>>

Next ==
    \/ Tick
    \/ RowMoves
    \/ \E p \in Packets : Post(p) \/ IngestPacket(p)
    \/ \E b \in Bins : Fetch(b)
    \/ \E s \in fetched : IngestList(s) \/ RefuseList(s)
    \/ Fold
    \/ Reload

Spec == Init /\ [][Next]_vars

\* The host keeps cycling: it lists every bin that poll names time and again,
\* a few at a time, and hands every snapshot in.  Nothing obliges the clock, the
\* peer, the row, listen or fold to move.
Fairness ==
    /\ \A b \in Bins : SF_vars(Fetch(b))
    /\ \A b \in Bins : WF_vars(\E s \in fetched : s.bin = b /\ (IngestList(s) \/ RefuseList(s)))

FairSpec == Spec /\ Fairness

-----------------------------------------------------------------------------
(* Properties. *)

TypeOK ==
    /\ w \in ListFrom .. MaxBin
    /\ row \in Statuses
    /\ watermark \in Bins \cup {NoMark}
    /\ completed \in SUBSET Bins
    /\ store \in SUBSET Packets
    /\ fetched \in SUBSET [bin : Bins, got : SUBSET Packets]
    /\ ingested \in SUBSET Packets
    /\ saved \in [row : Statuses, watermark : Bins \cup {NoMark},
                  completed : SUBSET Bins, ingested : SUBSET Packets,
                  listed : SUBSET Bins]
    /\ crashes \in 0 .. MaxCrashes
    /\ listed \in SUBSET Bins
    /\ late \in SUBSET Packets
    /\ omitted \in SUBSET Packets
    /\ swallowed \in SUBSET Packets

\* BinProgress.watermark (advance_progress) is the greatest bin such that every
\* bin from list_from to it was handed to ingest_list in full, and a bin counts
\* as completed only if it was: no bin is skipped by a gap, in whatever order
\* lists return, also after a reload from an older fold.
WatermarkSound ==
    /\ \A b \in Bins : bin_complete(b) /\ b >= ListFrom => b \in listed
    /\ catch_up_start \notin completed

\* A packet at or above list_from that the engine has not merged is still in a
\* bin that poll lists, also in a row that failed or expired and after a list
\* that ended in an error, unless
\*  - it was posted after this device had read that bin, or the store left it
\*    out of a list because it was older than the retention (and no crash since
\*    has undone that list);
\*  - a list of its bin was taken although it did not open (it was sealed too
\*    far along the chain, or the row had failed);
\*  - the intro of the row is watermarked, and poll names none of its bins.
LossOnlyIfLate ==
    \A p \in store :
        \/ p \in ingested \cup late \cup omitted \cup swallowed
        \/ p.bin < ListFrom
        \/ row = "acked"
        \/ p.bin \in poll_list

\* While the host keeps listing what poll names, a packet at or above list_from
\* within reach of the joined chain, posted before its bin was first read, is
\* merged or left out for its age, unless the row fails, expires or has its
\* intro watermarked, or a body of the same bin makes ingest_list fail.
CatchesUp ==
    \A p \in {q \in Packets : q.bin >= ListFrom /\ q.id \notin Far} :
        p \in store \ late
            ~> \/ p \in ingested \cup omitted
               \/ row # "open"
               \/ \E q \in store : q.bin = p.bin /\ q.id \in Unruly

=============================================================================
