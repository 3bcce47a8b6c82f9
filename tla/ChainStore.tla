----------------------------- MODULE ChainStore -----------------------------
(***************************************************************************)
(* The content-addressed, append-only chain: event files named after their *)
(* digest, HEAD, and the advisory lock that serialises writers.            *)
(*                                                                         *)
(* A revision is the digest of a record that names its predecessor's       *)
(* revision; without collisions it identifies the whole chain below it, so *)
(* a revision is the sequence of payloads of its chain and << >> is the    *)
(* revision "" of an empty store.  An action is one system call that       *)
(* changes a file or a directory; what a writer reads under the lock       *)
(* nobody else changes.  Temporary files, which no reader looks at, are    *)
(* written and synced with the call that publishes them.                   *)
(*                                                                         *)
(* The store is a directory with HEAD and events/ in it; append creates    *)
(* both, and syncs the entry of one that it created itself.  An entry that *)
(* is made and not synced is there until the power fails, and may then     *)
(* take with it all that is below.                                         *)
(***************************************************************************)
EXTENDS Naturals, Sequences, SequencesExt, FiniteSets

CONSTANTS
    Writers,     \* processes that append
    Payloads,    \* payloads of records
    MaxLength,   \* bound of the model on the length of the chain
    MaxKills,    \* bound of the model on kills of writers
    MaxLosses,   \* bound of the model on power losses
    MaxErrors,   \* bound of the model on failing fsyncs
    None         \* nobody holds the lock

ASSUME ChainBounds == {MaxLength, MaxKills, MaxLosses, MaxErrors} \subseteq Nat
ASSUME ChainNone == None \notin Writers

VARIABLES
    links,      \* whether the filesystem has hard links
    event,      \* the event file of a revision, as processes see it
    diskEvent,  \* and what a power loss leaves of it
    head,       \* HEAD, as processes see it
    diskHead,   \* and the HEAD that is durable as far as the store's directory is
    dirs,       \* the entries of the store's directory and of events/
    lock,       \* the holder of LOCK
    pc,         \* a writer: where it is in append,
    expected,   \* expected_revision
    payload,    \* and the record
    acked,      \* history: revisions returned by an append that moved HEAD
    retried,    \* history: and by one that found HEAD there already
    wiped,      \* history: directories whose entry a power loss took
    budget      \* kills, losses and errors so far

files == <<event, diskEvent, head, diskHead, dirs>>
calls == <<expected, payload>>
history == <<acked, retried, wiped>>
vars == <<links, event, diskEvent, head, diskHead, dirs, lock, pc, expected, payload,
          acked, retried, wiped, budget>>

Revisions == UNION {[1 .. n -> Payloads] : n \in 1 .. MaxLength}

\* A file is published by link and unlink, or where that is not supported,
\* created, written and synced: what it goes through, in this order.
FileStates == {"absent", "linked", "partial", "cached", "whole"}

\* An entry is made by mkdir, durable when the directory it is in was synced.
Directories == {"store", "events"}
EntryStates == {"absent", "made", "durable"}

ChainInit ==
    /\ links \in BOOLEAN
    /\ dirs = [d \in Directories |-> "absent"]
    /\ event = [r \in Revisions |-> "absent"]
    /\ diskEvent = event
    /\ head = << >> /\ diskHead = << >>
    /\ lock = None
    /\ pc = [w \in Writers |-> "idle"]
    /\ expected = [w \in Writers |-> << >>]
    /\ payload \in [Writers -> Payloads]
    /\ acked = {} /\ retried = {} /\ wiped = {}
    /\ budget = [kills |-> 0, losses |-> 0, errors |-> 0]

-----------------------------------------------------------------------------
\* The revision a writer is about to append.
Candidate(w) == Append(expected[w], payload[w])

\* open_no_follow refuses a file with a second link, record_from_bytes and the
\* comparison of bytes one that is not whole.
Readable(r) == event[r] \in {"cached", "whole"}

LoadsChain(h) == \A n \in 1 .. Len(h) : Readable(SubSeq(h, 1, n))

Goto(w, point) == pc' = [pc EXCEPT ![w] = point]

\* Mutant: a path out of append that forgets the lock.
LeaveHolding(w, point) == Goto(w, point) /\ UNCHANGED lock

\* append returns or raises, and its finally releases the lock.
Leave(w, point) == Goto(w, point) /\ lock' = None

\* The caller reads HEAD without the lock and passes it on.
ReadHead(w) ==
    /\ pc[w] \in {"idle", "stale"} /\ Len(head) < MaxLength
    /\ expected' = [expected EXCEPT ![w] = head]
    /\ \E p \in Payloads :
          /\ pc[w] = "stale" => p = payload[w]
          /\ payload' = [payload EXCEPT ![w] = p]
    /\ Goto(w, "append")
    /\ UNCHANGED <<links, files, lock, history, budget>>

\* A caller that saw append fail calls it again with the same arguments, or
\* turns to something else; one that lost the compare-and-swap reads HEAD
\* again, or gives up after its attempts.
Retry(w) ==
    /\ \/ pc[w] = "failed" /\ Goto(w, "append")
       \/ pc[w] \in {"failed", "stale"} /\ Goto(w, "idle")
    /\ UNCHANGED <<links, files, lock, calls, history, budget>>

\* mkdir_all_sync: one mkdir after the other, and a sync of the parent by the
\* writer whose mkdir succeeded.  A directory that exists is used as it is,
\* whether or not its maker is alive and has come to the sync.
MakeStore(w) ==
    /\ pc[w] = "append" /\ dirs["store"] = "absent"
    /\ dirs' = [dirs EXCEPT !["store"] = "made"]
    /\ Goto(w, "parent")
    /\ UNCHANGED <<links, event, diskEvent, head, diskHead, lock, calls, history, budget>>

SyncParent(w) ==
    /\ pc[w] = "parent"
    /\ dirs' = [dirs EXCEPT !["store"] = "durable"]
    /\ Goto(w, "append")
    /\ UNCHANGED <<links, event, diskEvent, head, diskHead, lock, calls, history, budget>>

MakeEvents(w) ==
    /\ pc[w] = "append" /\ dirs["store"] # "absent" /\ dirs["events"] = "absent"
    /\ dirs' = [dirs EXCEPT !["events"] = "made"]
    /\ Goto(w, "entry")
    /\ UNCHANGED <<links, event, diskEvent, head, diskHead, lock, calls, history, budget>>

\* The store's directory holds the entries of events/ and of HEAD.
SyncStore(w) ==
    /\ pc[w] = "entry"
    /\ dirs' = [dirs EXCEPT !["events"] = "durable"]
    /\ diskHead' = head
    /\ Goto(w, "append")
    /\ UNCHANGED <<links, event, diskEvent, head, lock, calls, history, budget>>

Made == "absent" \notin {dirs[d] : d \in Directories}

\* Mutant: contention is not noticed.
AcquireAnyway(w) ==
    /\ pc[w] = "append" /\ Made
    /\ lock' = w /\ Goto(w, "check")
    /\ UNCHANGED <<links, files, calls, history, budget>>

AcquireStoreLock(w) ==
    /\ pc[w] = "append" /\ Made
    /\ IF lock = None
       THEN lock' = w /\ Goto(w, "check")
       ELSE UNCHANGED lock /\ Goto(w, "failed")
    /\ UNCHANGED <<links, files, calls, history, budget>>

-----------------------------------------------------------------------------
\* HEAD already names this record, and the chain below it is intact.
ExactRetry(w) ==
    /\ pc[w] = "check" /\ head = Candidate(w)
    /\ IF LoadsChain(head)
       THEN retried' = retried \cup {head} /\ Leave(w, "idle")
       ELSE UNCHANGED retried /\ Leave(w, "failed")
    /\ UNCHANGED <<links, files, calls, acked, wiped, budget>>

\* Mutant: an unconditional append.
HeadIsIgnored(w) == TRUE

\* The compare of the compare-and-swap.
HeadMatches(w) == head = expected[w]

CheckHead(w) ==
    /\ pc[w] = "check" /\ head # Candidate(w)
    /\ IF ~HeadMatches(w) THEN Leave(w, "stale")
       ELSE IF ~LoadsChain(head) THEN Leave(w, "failed")
       ELSE Goto(w, "publish") /\ UNCHANGED lock
    /\ UNCHANGED <<links, files, calls, history, budget>>

Becomes(w, state) == event' = [event EXCEPT ![Candidate(w)] = state]

\* _publish: link, or O_EXCL create, never replaces a file that exists.
PublishNew(w) ==
    /\ pc[w] = "publish" /\ event[Candidate(w)] = "absent"
    /\ IF links THEN Becomes(w, "linked") /\ Goto(w, "unlink")
                ELSE Becomes(w, "partial") /\ Goto(w, "copy")
    /\ UNCHANGED <<links, diskEvent, head, diskHead, dirs, lock, calls, history, budget>>

\* The file of an earlier attempt must hold these very bytes.
PublishExisting(w) ==
    /\ pc[w] = "publish" /\ event[Candidate(w)] # "absent"
    /\ IF Readable(Candidate(w))
       THEN Goto(w, "sync") /\ UNCHANGED lock
       ELSE Leave(w, "failed")
    /\ UNCHANGED <<links, files, calls, history, budget>>

UnlinkTemporary(w) ==
    /\ pc[w] = "unlink"
    /\ Becomes(w, "whole")
    /\ Goto(w, "sync")
    /\ UNCHANGED <<links, diskEvent, head, diskHead, dirs, lock, calls, history, budget>>

\* _publish_by_copy: all bytes written, then the file synced.
CopyBytes(w) ==
    /\ pc[w] = "copy"
    /\ Becomes(w, "cached")
    /\ Goto(w, "syncfile")
    /\ UNCHANGED <<links, diskEvent, head, diskHead, dirs, lock, calls, history, budget>>

SyncCopy(w) ==
    /\ pc[w] = "syncfile"
    /\ Becomes(w, "whole")
    /\ Goto(w, "sync")
    /\ UNCHANGED <<links, diskEvent, head, diskHead, dirs, lock, calls, history, budget>>

\* Mutant: HEAD is written before the directory is synced.
SyncEventsSkipped(w) ==
    /\ pc[w] = "sync"
    /\ Goto(w, "replace")
    /\ UNCHANGED <<links, files, lock, calls, history, budget>>

\* The entries of events/ become durable; the bytes are if the file was synced.
SyncEvents(w) ==
    /\ pc[w] = "sync"
    /\ diskEvent' = [r \in Revisions |-> IF event[r] = "cached" THEN "partial" ELSE event[r]]
    /\ Goto(w, "replace")
    /\ UNCHANGED <<links, event, head, diskHead, dirs, lock, calls, history, budget>>

\* write_atomic: the rename, and the sync of its directory.
ReplaceHead(w) ==
    /\ pc[w] = "replace"
    /\ head' = Candidate(w)
    /\ Goto(w, "synchead")
    /\ UNCHANGED <<links, event, diskEvent, diskHead, dirs, lock, calls, history, budget>>

SyncHead(w) ==
    /\ pc[w] = "synchead"
    /\ diskHead' = head
    /\ dirs' = [dirs EXCEPT !["events"] = "durable"]
    /\ acked' = acked \cup {head}
    /\ Leave(w, "idle")
    /\ UNCHANGED <<links, event, diskEvent, head, calls, retried, wiped, budget>>

-----------------------------------------------------------------------------
(***************************************************************************)
(* Failures: an fsync that fails raises ChainSyncError; a killed writer    *)
(* loses its lock; a power loss keeps any part of what was not synced.     *)
(***************************************************************************)
SyncFails(w) ==
    /\ budget.errors < MaxErrors
    /\ pc[w] \in {"parent", "entry", "publish", "syncfile", "sync", "replace", "synchead"}
    /\ budget' = [budget EXCEPT !.errors = @ + 1]
    /\ IF pc[w] = "syncfile" THEN Becomes(w, "absent") ELSE UNCHANGED event
    /\ Goto(w, "failed")
    /\ lock' = IF lock = w THEN None ELSE lock
    /\ UNCHANGED <<links, diskEvent, head, diskHead, dirs, calls, history>>

Kill(w) ==
    /\ budget.kills < MaxKills /\ pc[w] \notin {"idle", "stale", "failed"}
    /\ budget' = [budget EXCEPT !.kills = @ + 1]
    /\ Goto(w, "failed")
    /\ lock' = IF lock = w THEN None ELSE lock
    /\ UNCHANGED <<links, files, calls, history>>

\* What a power loss may make of a file: the state it had at the last sync of
\* its directory, the one it has now, or one in between.
Survives(r, state) ==
    \/ state = diskEvent[r]
    \/ state = event[r] /\ state # "cached"
    \/ state = "linked" /\ links /\ diskEvent[r] = "absent" /\ event[r] = "whole"
    \/ state \in {"partial", "whole"} /\ event[r] = "cached"

Unsettled == {r \in Revisions : diskEvent[r] # event[r]}

\* The store's entry was not durable and is gone, with everything in it.
StoreLost ==
    /\ dirs["store"] = "made"
    /\ dirs' = [d \in Directories |-> "absent"] /\ wiped' = wiped \cup {"store"}
    /\ head' = << >> /\ event' = [r \in Revisions |-> "absent"]

HeadSurvives == \E n \in Len(diskHead) .. Len(head) : head' = SubSeq(head, 1, n)

\* events/ is gone with its files; HEAD has an entry of its own.
EventsLost ==
    /\ dirs["events"] = "made"
    /\ dirs' = [d \in Directories |-> IF d = "events" THEN "absent" ELSE "durable"]
    /\ wiped' = wiped \cup {"events"}
    /\ HeadSurvives /\ event' = [r \in Revisions |-> "absent"]

EntriesSurvive ==
    /\ dirs' = [d \in Directories |-> IF dirs[d] = "made" THEN "durable" ELSE dirs[d]]
    /\ UNCHANGED wiped
    /\ HeadSurvives
    /\ \E f \in [Unsettled -> FileStates] :
          /\ \A r \in Unsettled : Survives(r, f[r])
          /\ event' = [r \in Revisions |-> IF r \in Unsettled THEN f[r] ELSE event[r]]

PowerLoss ==
    /\ budget.losses < MaxLosses
    /\ budget' = [budget EXCEPT !.losses = @ + 1]
    /\ StoreLost \/ EventsLost \/ EntriesSurvive
    /\ diskEvent' = event' /\ diskHead' = head'
    /\ lock' = None
    /\ pc' = [w \in Writers |-> IF pc[w] = "idle" THEN "idle" ELSE "failed"]
    /\ UNCHANGED <<links, calls, acked, retried>>

ChainNext ==
    \/ \E w \in Writers :
          \/ ReadHead(w) \/ Retry(w)
          \/ MakeStore(w) \/ SyncParent(w) \/ MakeEvents(w) \/ SyncStore(w)
          \/ AcquireStoreLock(w)
          \/ ExactRetry(w) \/ CheckHead(w)
          \/ PublishNew(w) \/ PublishExisting(w)
          \/ UnlinkTemporary(w) \/ CopyBytes(w) \/ SyncCopy(w)
          \/ SyncEvents(w) \/ ReplaceHead(w) \/ SyncHead(w)
          \/ SyncFails(w) \/ Kill(w)
    \/ PowerLoss

ChainSpec == ChainInit /\ [][ChainNext]_vars

-----------------------------------------------------------------------------
(***************************************************************************)
(* Properties.                                                             *)
(***************************************************************************)
\* Values of the files and of the writers' locals; a writer that is past the
\* lock holds it.
ChainTypeOK ==
    /\ event \in [Revisions -> FileStates]
    /\ diskEvent \in [Revisions -> FileStates]
    /\ head \in Revisions \cup {<< >>} /\ diskHead \in Revisions \cup {<< >>}
    /\ dirs \in [Directories -> EntryStates]
    /\ lock \in Writers \cup {None}
    /\ \A w \in Writers :
          /\ pc[w] \in {"idle", "stale", "failed", "append", "parent", "entry"} <=> lock # w
          /\ Candidate(w) \in Revisions \cup [1 .. MaxLength + 1 -> Payloads]
    /\ acked \cup retried \subseteq Revisions
    /\ wiped \subseteq Directories

\* The contract of the commit sequence: HEAD never names a chain that cannot
\* be loaded, whichever writer died between the publication of an event, the
\* sync of its directory and the rename, and whatever a power loss left of
\* them.  There are two exceptions, both after a power loss.  Without hard
\* links an event an earlier writer had copied and not synced was accepted by
\* its bytes in the cache; and events/ may be gone whose entry was never
\* synced, because its maker died before and mkdir_all_sync does not sync a
\* directory it finds.
HeadLoads ==
    "events" \notin wiped /\ (links \/ budget.losses = 0) => LoadsChain(head)

\* No append that moved HEAD is ever lost, forked off or overtaken: what it
\* returned stays in the chain HEAD names (HeadLoads says that it loads)
\* through other writers, kills, failing syncs and power losses.  Only one thing takes it away: a power loss while the
\* entry of the store's own directory is unsynced, which it stays for good
\* when the first append died, or its sync failed, between mkdir and fsync.
\* A retry that found HEAD in place is not covered by a sync of its own and
\* holds until the power fails.
AckedStays ==
    /\ "store" \notin wiped => \A r \in acked : IsPrefix(r, head)
    /\ budget.losses = 0 => \A r \in retried : IsPrefix(r, head)

\* What no power loss can take: nothing before the store's entry is durable.
SafeHead == IF dirs["store"] = "durable" THEN diskHead ELSE << >>

Log == INSTANCE AppendLog WITH log <- head, stable <- SafeHead

\* The store implements AppendLog, whose log is the chain HEAD names and whose
\* stable part is the HEAD whose directory was synced, once that directory's
\* own entry is: HEAD moves by one record at a time and goes back only in a
\* power loss, and then not behind what was durable.
LogRefined == Log!LogSpec
=============================================================================
