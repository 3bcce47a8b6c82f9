----------------------------- MODULE ChainProofs -----------------------------
(***************************************************************************)
(* Proofs about ChainStore, for every number of writers and payloads and   *)
(* every bound on lengths, kills, losses and errors.                       *)
(***************************************************************************)
EXTENDS ChainStore, SequenceTheorems, TLAPS

\* Chains, the empty one included.
Chain == {h \in Seq(Payloads) : Len(h) <= MaxLength}

LEMMA ChainOfRevisions == Revisions \cup {<< >>} = Chain
<1>1. MaxLength \in Nat
  BY ChainBounds
<1>2. \A r \in Revisions : r \in Chain
  BY <1>1 DEF Revisions, Chain
<1>3. \A h \in Chain : h \in Revisions \/ h = << >>
  <2> SUFFICES ASSUME NEW h \in Chain, h # << >> PROVE h \in Revisions
    OBVIOUS
  <2>1. h \in Seq(Payloads) /\ Len(h) <= MaxLength
    BY DEF Chain
  <2>2. Len(h) \in 1 .. MaxLength /\ h \in [1 .. Len(h) -> Payloads]
    BY <1>1, <2>1, EmptySeq, LenProperties
  <2> QED
    BY <2>2 DEF Revisions
<1>4. << >> \in Chain
  BY <1>1, EmptySeq DEF Chain
<1> QED
  BY <1>2, <1>3, <1>4

-----------------------------------------------------------------------------
(***************************************************************************)
(* The inductive invariant.                                                *)
(***************************************************************************)
\* Where a writer needs no store, where it does not hold the lock, and where
\* it does.
Before == {"idle", "stale", "failed", "append"}

Outside == Before \cup {"parent", "entry"}

Places == Outside \cup {"check", "publish", "unlink", "copy", "syncfile", "sync", "replace", "synchead"}

\* Locals of the writers: a chain that still has room for the record.
Locals ==
    /\ links \in BOOLEAN
    /\ budget \in [kills : Nat, losses : Nat, errors : Nat]
    /\ pc \in [Writers -> Places]
    /\ expected \in [Writers -> Chain] /\ payload \in [Writers -> Payloads]
    /\ \A w \in Writers : pc[w] # "idle" => Len(expected[w]) < MaxLength

\* HEAD is what the holder of the lock found, until it moves it.
Held ==
    \A w \in Writers :
        /\ pc[w] \in {"publish", "unlink", "copy", "syncfile", "sync", "replace"} => head = expected[w]
        /\ pc[w] = "synchead" => head = Candidate(w)

\* Nothing is in a store that is not there.
Entries ==
    /\ dirs["store"] = "absent" => head = << >> /\ dirs["events"] = "absent"
    /\ \A w \in Writers : pc[w] \notin Before => dirs["store"] # "absent"

\* What is durable is a part of what is seen, and holds what was acknowledged
\* as long as the store's directory itself was not lost.
Durable ==
    /\ IsPrefix(diskHead, head)
    /\ "store" \notin wiped => \A r \in acked : IsPrefix(r, diskHead)
    /\ budget.losses = 0 => \A r \in retried : IsPrefix(r, head)

\* With hard links no file is ever seen in part.
Linked ==
    links =>
        /\ \A r \in Revisions : {event[r], diskEvent[r]} \subseteq {"absent", "linked", "whole"}
        /\ \A w \in Writers : pc[w] \notin {"copy", "syncfile"}

\* An event is whole before HEAD names it, and with hard links on disk too.
Published ==
    /\ \A w \in Writers : pc[w] \in {"sync", "replace"} => Readable(Candidate(w))
    /\ links => \A w \in Writers : pc[w] = "replace" => diskEvent[Candidate(w)] = "whole"
    /\ links /\ "events" \notin wiped => \A n \in 1 .. Len(head) : diskEvent[SubSeq(head, 1, n)] = "whole"

ChainInv ==
    /\ ChainTypeOK /\ Locals /\ Held /\ Entries /\ Durable /\ Linked /\ Published /\ HeadLoads

-----------------------------------------------------------------------------
(***************************************************************************)
(* Chains and their parts.                                                 *)
(***************************************************************************)
LEMMA PartOf ==
  ASSUME NEW h \in Seq(Payloads), NEW n \in 0 .. Len(h)
  PROVE  /\ SubSeq(h, 1, n) \in Seq(Payloads) /\ Len(SubSeq(h, 1, n)) = n
         /\ \A i \in 1 .. n : SubSeq(h, 1, n)[i] = h[i]
<1>1. n \in Int /\ \A i \in 1 .. n : h[i] \in Payloads
  BY ElementOfSeq
<1> QED
  BY <1>1, SubSeqProperties

LEMMA PrefixIs ==
  ASSUME NEW s \in Seq(Payloads), NEW t \in Seq(Payloads)
  PROVE  IsPrefix(s, t) <=> Len(s) <= Len(t) /\ \A i \in 1 .. Len(s) : s[i] = t[i]
<1>1. SubSeq(s, 1, Len(s)) = s
  BY SubSeqFull
<1>2. ASSUME Len(s) <= Len(t)
      PROVE  SubSeq(t, 1, Len(s)) \in Seq(Payloads) /\ Len(SubSeq(t, 1, Len(s))) = Len(s)
             /\ \A i \in 1 .. Len(s) : SubSeq(t, 1, Len(s))[i] = t[i]
  <2>1. Len(s) \in 0 .. Len(t)
    BY <1>2, LenProperties
  <2> QED
    BY <2>1, PartOf
<1>3. ASSUME Len(s) <= Len(t), \A i \in 1 .. Len(s) : s[i] = t[i]
      PROVE  s = SubSeq(t, 1, Len(s))
  BY <1>2, <1>3, SeqEqual
<1>4. ASSUME Len(s) <= Len(t), s = SubSeq(t, 1, Len(s))
      PROVE  \A i \in 1 .. Len(s) : s[i] = t[i]
  BY <1>2, <1>4
<1> QED
  BY <1>1, <1>3, <1>4 DEF IsPrefix

LEMMA PrefixOrder ==
  ASSUME NEW s \in Seq(Payloads), NEW t \in Seq(Payloads), NEW u \in Seq(Payloads),
         IsPrefix(s, t), IsPrefix(t, u)
  PROVE  IsPrefix(s, u)
  BY PrefixIs, LenProperties

LEMMA PrefixSelf == ASSUME NEW s \in Seq(Payloads) PROVE IsPrefix(s, s)
  BY PrefixIs, LenProperties

LEMMA PrefixEmpty ==
  ASSUME NEW s \in Seq(Payloads)
  PROVE  << >> \in Seq(Payloads) /\ Len(<< >>) = 0 /\ IsPrefix(<< >>, s)
<1> DEFINE e == << >>
<1>1. e \in Seq(Payloads) /\ Len(e) = 0
  BY EmptySeq
<1> HIDE DEF e
<1>2. Len(e) <= Len(s) /\ \A i \in 1 .. Len(e) : e[i] = s[i]
  BY <1>1, LenProperties
<1>3. IsPrefix(e, s)
  BY <1>1, <1>2, PrefixIs
<1> QED
  BY <1>1, <1>3 DEF e

LEMMA PrefixGrows ==
  ASSUME NEW s \in Seq(Payloads), NEW t \in Seq(Payloads), NEW p \in Payloads, IsPrefix(s, t)
  PROVE  IsPrefix(s, Append(t, p))
<1> DEFINE u == Append(t, p)
<1>1. u \in Seq(Payloads) /\ Len(u) = Len(t) + 1 /\ \A i \in 1 .. Len(t) : u[i] = t[i]
  BY AppendProperties
<1> HIDE DEF u
<1>2. /\ Len(s) \in Nat /\ Len(t) \in Nat /\ Len(s) <= Len(t)
      /\ \A i \in 1 .. Len(s) : s[i] = t[i]
  BY PrefixIs, LenProperties
<1>3. Len(s) <= Len(u) /\ \A i \in 1 .. Len(s) : s[i] = u[i]
  BY <1>1, <1>2
<1> QED
  BY <1>1, <1>3, PrefixIs DEF u

\* A power loss cuts a chain, not below what is durable.
LEMMA PrefixCut ==
  ASSUME NEW s \in Seq(Payloads), NEW t \in Seq(Payloads), IsPrefix(s, t), NEW n \in Len(s) .. Len(t)
  PROVE  /\ SubSeq(t, 1, n) \in Seq(Payloads) /\ Len(SubSeq(t, 1, n)) = n
         /\ IsPrefix(s, SubSeq(t, 1, n)) /\ IsPrefix(SubSeq(t, 1, n), t)
<1>1. n \in 0 .. Len(t) /\ Len(s) <= n /\ n <= Len(t)
  BY LenProperties
<1> DEFINE u == SubSeq(t, 1, n)
<1>2. u \in Seq(Payloads) /\ Len(u) = n /\ \A i \in 1 .. n : u[i] = t[i]
  BY <1>1, PartOf
<1> HIDE DEF u
<1>3. Len(s) \in Nat /\ Len(t) \in Nat /\ \A i \in 1 .. Len(s) : s[i] = t[i]
  BY PrefixIs, LenProperties
<1>4. Len(s) <= Len(u) /\ Len(u) <= Len(t) /\ \A i \in 1 .. Len(s) : s[i] = u[i]
  BY <1>1, <1>2, <1>3
<1>5. IsPrefix(s, u)
  BY <1>2, <1>4, PrefixIs
<1>6. IsPrefix(u, t)
  BY <1>2, <1>4, PrefixIs
<1> QED
  BY <1>2, <1>5, <1>6 DEF u

LEMMA PartOfPart ==
  ASSUME NEW h \in Seq(Payloads), NEW n \in 0 .. Len(h), NEW m \in 0 .. n
  PROVE  SubSeq(SubSeq(h, 1, n), 1, m) = SubSeq(h, 1, m)
<1> DEFINE s == SubSeq(h, 1, n)
<1>1. s \in Seq(Payloads) /\ Len(s) = n /\ \A i \in 1 .. n : s[i] = h[i]
  BY PartOf
<1> HIDE DEF s
<1>2. m \in 0 .. Len(h) /\ m \in 0 .. Len(s)
  BY <1>1, LenProperties
<1>3. /\ SubSeq(s, 1, m) \in Seq(Payloads) /\ Len(SubSeq(s, 1, m)) = m
      /\ \A i \in 1 .. m : SubSeq(s, 1, m)[i] = s[i]
  BY <1>1, <1>2, PartOf
<1>4. /\ SubSeq(h, 1, m) \in Seq(Payloads) /\ Len(SubSeq(h, 1, m)) = m
      /\ \A i \in 1 .. m : SubSeq(h, 1, m)[i] = h[i]
  BY <1>2, PartOf
<1>5. \A i \in 1 .. m : SubSeq(s, 1, m)[i] = SubSeq(h, 1, m)[i]
  BY <1>1, <1>3, <1>4
<1> QED
  BY <1>3, <1>4, <1>5, SeqEqual DEF s

LEMMA PartOfAppend ==
  ASSUME NEW h \in Seq(Payloads), NEW p \in Payloads
  PROVE  /\ Append(h, p) \in Seq(Payloads) /\ Len(Append(h, p)) = Len(h) + 1 /\ Len(h) \in Nat
         /\ SubSeq(Append(h, p), 1, Len(h) + 1) = Append(h, p)
         /\ \A n \in 0 .. Len(h) : SubSeq(Append(h, p), 1, n) = SubSeq(h, 1, n)
<1> DEFINE a == Append(h, p)
<1>1. /\ a \in Seq(Payloads) /\ Len(a) = Len(h) + 1 /\ Len(h) \in Nat
      /\ \A i \in 1 .. Len(h) : a[i] = h[i]
  BY AppendProperties, LenProperties
<1> HIDE DEF a
<1>2. SubSeq(a, 1, Len(h) + 1) = a
  BY <1>1, SubSeqFull
<1>3. ASSUME NEW n \in 0 .. Len(h) PROVE SubSeq(a, 1, n) = SubSeq(h, 1, n)
  <2>1. n \in 0 .. Len(a)
    BY <1>1
  <2>2. /\ SubSeq(a, 1, n) \in Seq(Payloads) /\ Len(SubSeq(a, 1, n)) = n
        /\ \A i \in 1 .. n : SubSeq(a, 1, n)[i] = a[i]
    BY <1>1, <2>1, PartOf
  <2>3. /\ SubSeq(h, 1, n) \in Seq(Payloads) /\ Len(SubSeq(h, 1, n)) = n
        /\ \A i \in 1 .. n : SubSeq(h, 1, n)[i] = h[i]
    BY PartOf
  <2>4. \A i \in 1 .. n : SubSeq(a, 1, n)[i] = SubSeq(h, 1, n)[i]
    BY <1>1, <2>2, <2>3
  <2> QED
    BY <2>2, <2>3, <2>4, SeqEqual
<1> QED
  BY <1>1, <1>2, <1>3 DEF a

-----------------------------------------------------------------------------
(***************************************************************************)
(* Steps.                                                                  *)
(***************************************************************************)
\* What a step may do to HEAD and to what is durable of it.
Extended == (\E p \in Payloads : head' = Append(head, p)) /\ UNCHANGED SafeHead
Settled == IsPrefix(SafeHead, SafeHead') /\ IsPrefix(SafeHead', head) /\ UNCHANGED head
Lost == SafeHead' = head' /\ IsPrefix(SafeHead, head') /\ IsPrefix(head', head)

LEMMA CandidateTyped ==
  ASSUME NEW e \in Chain, NEW p \in Payloads
  PROVE  /\ Append(e, p) \in Revisions \cup [1 .. MaxLength + 1 -> Payloads]
         /\ Len(e) < MaxLength => Append(e, p) \in Revisions
         /\ e \in Seq(Payloads) /\ Append(e, p) \in Seq(Payloads) /\ Len(Append(e, p)) = Len(e) + 1
<1>1. /\ MaxLength \in Nat /\ e \in Seq(Payloads) /\ Len(e) \in Nat /\ Len(e) <= MaxLength
      /\ Append(e, p) \in Seq(Payloads) /\ Len(Append(e, p)) = Len(e) + 1
  BY ChainBounds, PartOfAppend DEF Chain
<1>2. ASSUME Len(e) < MaxLength PROVE Append(e, p) \in Revisions
  <2>1. Append(e, p) \in Chain /\ Append(e, p) # << >>
    BY <1>1, <1>2, AppendProperties DEF Chain
  <2> QED
    BY <2>1, ChainOfRevisions
<1>3. ASSUME Len(e) = MaxLength PROVE Append(e, p) \in [1 .. MaxLength + 1 -> Payloads]
  BY <1>1, <1>3, LenProperties
<1> QED
  BY <1>1, <1>2, <1>3

\* What the invariant says of the chains in play.
LEMMA ChainsTyped ==
  ASSUME ChainInv
  PROVE  /\ head \in Chain /\ diskHead \in Chain /\ acked \subseteq Chain /\ retried \subseteq Chain
         /\ head \in Seq(Payloads) /\ diskHead \in Seq(Payloads) /\ Len(head) \in Nat
         /\ acked \subseteq Seq(Payloads) /\ retried \subseteq Seq(Payloads)
         /\ \A n \in 1 .. Len(head) : SubSeq(head, 1, n) \in Revisions
<1>1. head \in Chain /\ diskHead \in Chain /\ acked \subseteq Chain /\ retried \subseteq Chain
  BY ChainOfRevisions DEF ChainInv, ChainTypeOK
<1>2. /\ head \in Seq(Payloads) /\ diskHead \in Seq(Payloads) /\ Len(head) \in Nat
      /\ Len(head) <= MaxLength /\ MaxLength \in Nat
      /\ acked \subseteq Seq(Payloads) /\ retried \subseteq Seq(Payloads)
  BY <1>1, LenProperties, ChainBounds DEF Chain
<1>3. ASSUME NEW n \in 1 .. Len(head) PROVE SubSeq(head, 1, n) \in Revisions
  <2>1. SubSeq(head, 1, n) \in Seq(Payloads) /\ Len(SubSeq(head, 1, n)) = n
    BY <1>2, PartOf
  <2>2. SubSeq(head, 1, n) \in Chain /\ SubSeq(head, 1, n) # << >>
    BY <1>2, <2>1, EmptySeq DEF Chain
  <2> QED
    BY <2>2, ChainOfRevisions
<1> QED
  BY <1>1, <1>2, <1>3

\* A writer past the lock is the only one, and its record is a new one: no
\* part of the chain it appends to.
LEMMA Alone ==
  ASSUME ChainInv, NEW w \in Writers, pc[w] \notin Outside
  PROVE  /\ lock = w /\ \A v \in Writers : v # w => pc[v] \in Outside
         /\ Candidate(w) \in Revisions
         /\ head = expected[w] => \A n \in 1 .. Len(head) : SubSeq(head, 1, n) # Candidate(w)
<1>1. lock = w /\ \A v \in Writers : v # w => pc[v] \in Outside
  BY DEF ChainInv, ChainTypeOK, Outside, Before
<1>2. expected[w] \in Chain /\ payload[w] \in Payloads /\ Len(expected[w]) < MaxLength
  BY DEF ChainInv, Locals, Outside, Before
<1>3. /\ Candidate(w) \in Revisions /\ Candidate(w) \in Seq(Payloads)
      /\ Len(Candidate(w)) = Len(expected[w]) + 1
  BY <1>2, CandidateTyped DEF Candidate
<1>4. ASSUME head = expected[w], NEW n \in 1 .. Len(head) PROVE SubSeq(head, 1, n) # Candidate(w)
  <2>1. Len(SubSeq(head, 1, n)) = n
    BY ChainsTyped, PartOf
  <2> QED
    BY <1>3, <1>4, <2>1, ChainsTyped
<1> QED
  BY <1>1, <1>3, <1>4

\* The steps of a writer that move neither HEAD nor what is durable.
LEMMA WriterStep ==
  ASSUME ChainInv, NEW w \in Writers, UNCHANGED <<links, diskEvent, head, diskHead, acked, wiped>>,
         budget' \in [kills : Nat, losses : Nat, errors : Nat], budget'.losses = budget.losses,
         NEW point \in Places \ {"replace", "synchead"}, pc' = [pc EXCEPT ![w] = point],
         lock' \in Writers \cup {None}, \A v \in Writers : v # w => (lock' = v <=> lock = v),
         point \in Outside <=> lock' # w,
         UNCHANGED dirs \/ (dirs' \in [Directories -> EntryStates] /\ dirs'["store"] # "absent"),
         point \notin Before => dirs'["store"] # "absent",
         expected' \in [Writers -> Chain], payload' \in [Writers -> Payloads],
         \A v \in Writers : v # w => expected'[v] = expected[v] /\ payload'[v] = payload[v],
         point # "idle" => Len(expected'[w]) < MaxLength,
         point \in {"publish", "unlink", "copy", "syncfile", "sync"}
            => head = expected[w] /\ UNCHANGED calls,
         event' \in [Revisions -> FileStates],
         \A r \in Revisions : event'[r] # event[r] =>
            pc[w] \in {"publish", "unlink", "copy", "syncfile"} /\ r = Candidate(w),
         links => point \notin {"copy", "syncfile"}
                  /\ \A r \in Revisions : event'[r] \in {"absent", "linked", "whole"},
         point = "sync" => event'[Candidate(w)] \in {"cached", "whole"},
         retried' \subseteq Revisions, retried' \subseteq retried \cup {head}
  PROVE  ChainInv'
<1> USE DEF ChainInv
<1>1. \A v \in Writers : /\ pc'[v] = IF v = w THEN point ELSE pc[v]
                         /\ v # w => Candidate(v)' = Candidate(v)
  BY DEF Locals, Candidate
<1>2. Locals'
  BY <1>1 DEF Locals
<1>3. ChainTypeOK'
  <2>1. \A v \in Writers : Candidate(v)' \in Revisions \cup [1 .. MaxLength + 1 -> Payloads]
    BY CandidateTyped DEF Candidate
  <2>2. \A v \in Writers : pc'[v] \in Outside <=> lock' # v
    BY <1>1 DEF ChainTypeOK, Outside, Before
  <2> QED
    BY <2>1, <2>2 DEF ChainTypeOK, Outside, Before
<1>4. Held' /\ Entries'
  <2>1. ASSUME NEW v \in Writers
        PROVE  /\ pc'[v] \in {"publish", "unlink", "copy", "syncfile", "sync", "replace"}
                     => head = expected'[v]
               /\ pc'[v] = "synchead" => head = Candidate(v)'
    <3>1. CASE v = w
      BY <1>1, <3>1 DEF calls
    <3>2. CASE v # w
      BY <1>1, <3>2 DEF Held
    <3> QED
      BY <3>1, <3>2
  <2>2. Entries'
    BY <1>1 DEF Entries
  <2> QED
    BY <2>1, <2>2 DEF Held
<1>5. Durable'
  BY ChainsTyped, PrefixSelf DEF Durable
<1>6. Linked'
  BY <1>1 DEF Linked
<1>7. \A n \in 1 .. Len(head) : event'[SubSeq(head, 1, n)] = event[SubSeq(head, 1, n)]
  <2>1. CASE pc[w] \in {"publish", "unlink", "copy", "syncfile"}
    <3>1. head = expected[w] /\ pc[w] \notin Outside
      BY <2>1 DEF Held, Outside, Before
    <3>2. ASSUME NEW n \in 1 .. Len(head) PROVE event'[SubSeq(head, 1, n)] = event[SubSeq(head, 1, n)]
      <4>1. SubSeq(head, 1, n) # Candidate(w) /\ SubSeq(head, 1, n) \in Revisions
        BY <3>1, Alone, ChainsTyped
      <4> QED
        BY <4>1
    <3> QED
      BY <3>2
  <2>2. CASE pc[w] \notin {"publish", "unlink", "copy", "syncfile"}
    BY <2>2, ChainsTyped
  <2> QED
    BY <2>1, <2>2
<1>8. HeadLoads'
  <2>1. LoadsChain(head) => LoadsChain(head)'
    BY <1>7 DEF LoadsChain, Readable
  <2> QED
    BY <2>1 DEF HeadLoads
<1>9. Published'
  <2>1. ASSUME NEW v \in Writers, pc'[v] \in {"sync", "replace"} PROVE Readable(Candidate(v))'
    <3>1. CASE v = w
      <4>1. point = "sync" /\ Candidate(w)' = Candidate(w)
        BY <1>1, <2>1, <3>1 DEF Candidate, calls
      <4> QED
        BY <3>1, <4>1 DEF Readable
    <3>2. CASE v # w
      <4>1. pc[v] \in {"sync", "replace"} /\ Candidate(v)' = Candidate(v) /\ pc[v] \notin Outside
        BY <1>1, <2>1, <3>2 DEF Outside, Before
      <4>2. pc[w] \in Outside /\ Candidate(v) \in Revisions /\ Readable(Candidate(v))
        BY <3>2, <4>1, Alone DEF Published
      <4>3. event'[Candidate(v)] = event[Candidate(v)]
        BY <4>2 DEF Outside, Before
      <4> QED
        BY <4>1, <4>2, <4>3 DEF Readable
    <3> QED
      BY <3>1, <3>2
  <2>2. ASSUME links, NEW v \in Writers, pc'[v] = "replace" PROVE diskEvent[Candidate(v)'] = "whole"
    BY <1>1, <2>2 DEF Published
  <2> QED
    BY <2>1, <2>2 DEF Published
<1> QED
  BY <1>2, <1>3, <1>4, <1>5, <1>6, <1>8, <1>9

\* No store at all satisfies the invariant.
LEMMA ChainStart == ChainInit => ChainInv
<1> SUFFICES ASSUME ChainInit PROVE ChainInv
  OBVIOUS
<1> USE DEF ChainInit
<1>1. << >> \in Chain /\ << >> \in Seq(Payloads) /\ Len(<< >>) = 0
  BY ChainOfRevisions, EmptySeq
<1>2. IsPrefix(<< >>, << >>)
  BY <1>1, PrefixSelf
<1>3. ChainTypeOK
  <2>1. \A w \in Writers : Candidate(w) \in Revisions \cup [1 .. MaxLength + 1 -> Payloads]
    BY <1>1, CandidateTyped DEF Candidate
  <2> QED
    BY <2>1, ChainNone DEF ChainTypeOK, FileStates, EntryStates, Directories
<1>4. Locals
  BY <1>1 DEF Locals, Places, Outside, Before
<1>5. Held /\ Entries /\ Linked /\ Published
  BY <1>1 DEF Held, Entries, Linked, Published, Outside, Before, Directories
<1>6. Durable /\ HeadLoads
  BY <1>1, <1>2 DEF Durable, HeadLoads, LoadsChain
<1> QED
  BY <1>3, <1>4, <1>5, <1>6 DEF ChainInv

\* An entry that is durable stays so while the power is on.
StoreStays == dirs["store"] = "durable" => dirs'["store"] = "durable"

\* A writer's own steps up to the sync of events/, and its ends.
LEMMA WriterSteps ==
  ASSUME ChainInv, NEW w \in Writers,
         \/ ReadHead(w) \/ Retry(w) \/ MakeStore(w) \/ SyncParent(w) \/ MakeEvents(w)
         \/ AcquireStoreLock(w) \/ ExactRetry(w) \/ CheckHead(w)
         \/ PublishNew(w) \/ PublishExisting(w) \/ UnlinkTemporary(w) \/ CopyBytes(w)
         \/ SyncCopy(w) \/ SyncFails(w) \/ Kill(w)
  PROVE  ChainInv' /\ UNCHANGED <<head, diskHead>> /\ StoreStays
<1> USE DEF files, calls, history, Goto, Leave, Becomes, Places, Outside, Before
<1>0. dirs \in [Directories -> EntryStates] /\ "store" \in Directories /\ "events" \in Directories
      /\ "made" \in EntryStates /\ "durable" \in EntryStates
  BY DEF ChainInv, ChainTypeOK, Directories, EntryStates
<1>a. UNCHANGED <<head, diskHead>> /\ StoreStays
  BY <1>0 DEF ReadHead, Retry, MakeStore, SyncParent, MakeEvents, AcquireStoreLock, ExactRetry, CheckHead,
     PublishNew, PublishExisting, UnlinkTemporary, CopyBytes, SyncCopy, SyncFails, Kill, StoreStays
<1> SUFFICES ChainInv'
  BY <1>a
<1>1. /\ pc \in [Writers -> Places] /\ lock \in Writers \cup {None} /\ None \notin Writers
      /\ expected \in [Writers -> Chain] /\ payload \in [Writers -> Payloads]
      /\ budget \in [kills : Nat, losses : Nat, errors : Nat]
      /\ event \in [Revisions -> FileStates] /\ retried \subseteq Revisions
      /\ \A v \in Writers : pc[v] # "idle" => Len(expected[v]) < MaxLength
      /\ \A v \in Writers : pc[v] \in Outside <=> lock # v
      /\ dirs \in [Directories -> EntryStates] /\ (pc[w] \notin Before => dirs["store"] # "absent")
  BY ChainNone DEF ChainInv, ChainTypeOK, Locals, Entries
<1>2. links => /\ pc[w] \notin {"copy", "syncfile"}
               /\ \A r \in Revisions : event[r] \in {"absent", "linked", "whole"}
  BY DEF ChainInv, Linked
<1>3. pc[w] \notin Outside => Candidate(w) \in Revisions
  BY Alone
<1>4. pc[w] \in {"publish", "unlink", "copy", "syncfile", "sync", "replace"} => head = expected[w]
  BY DEF ChainInv, Held
<1>5. head \in Chain
  BY ChainsTyped
<1>6. CASE ReadHead(w)
  <2>1. PICK p \in Payloads : payload' = [payload EXCEPT ![w] = p]
    BY <1>6 DEF ReadHead
  <2>2. /\ expected' \in [Writers -> Chain] /\ payload' \in [Writers -> Payloads]
        /\ \A v \in Writers : v # w => expected'[v] = expected[v] /\ payload'[v] = payload[v]
        /\ Len(expected'[w]) < MaxLength
    BY <1>1, <1>5, <1>6, <2>1 DEF ReadHead
  <2>3. /\ UNCHANGED <<links, event, diskEvent, head, diskHead, dirs, lock, acked, retried, wiped, budget>>
        /\ pc' = [pc EXCEPT ![w] = "append"] /\ lock # w
    BY <1>1, <1>6 DEF ReadHead
  <2> QED
    BY <1>1, <1>2, <2>2, <2>3, WriterStep
<1>7. CASE Retry(w)
  <2>1. ASSUME NEW point \in {"append", "idle"}, Goto(w, point) PROVE ChainInv'
    BY <1>1, <1>2, <1>7, <2>1, WriterStep DEF Retry
  <2> QED
    BY <1>7, <2>1 DEF Retry
<1>18. CASE MakeStore(w)
  <2>1. dirs' \in [Directories -> EntryStates] /\ dirs'["store"] # "absent"
    BY <1>0, <1>18 DEF MakeStore
  <2> QED
    BY <1>1, <1>2, <1>18, <2>1, WriterStep DEF MakeStore
<1>19. CASE SyncParent(w)
  <2>1. dirs' \in [Directories -> EntryStates] /\ dirs'["store"] # "absent"
    BY <1>0, <1>19 DEF SyncParent
  <2> QED
    BY <1>1, <1>2, <1>19, <2>1, WriterStep DEF SyncParent
<1>20. CASE MakeEvents(w)
  <2>1. dirs' \in [Directories -> EntryStates] /\ dirs'["store"] # "absent"
    BY <1>0, <1>20 DEF MakeEvents, Directories
  <2> QED
    BY <1>1, <1>2, <1>20, <2>1, WriterStep DEF MakeEvents
<1>8. CASE AcquireStoreLock(w)
  <2>3. dirs["store"] # "absent"
    BY <1>0, <1>8 DEF AcquireStoreLock, Made
  <2>1. CASE lock = None
    BY <1>1, <1>2, <1>8, <2>1, <2>3, WriterStep DEF AcquireStoreLock
  <2>2. CASE lock # None
    BY <1>1, <1>2, <1>8, <2>2, WriterStep DEF AcquireStoreLock
  <2> QED
    BY <1>8, <2>1, <2>2 DEF AcquireStoreLock
<1>9. CASE ExactRetry(w)
  <2>1. CASE LoadsChain(head)
    BY <1>1, <1>2, <1>3, <1>9, <2>1, WriterStep DEF ExactRetry
  <2>2. CASE ~LoadsChain(head)
    BY <1>1, <1>2, <1>9, <2>2, WriterStep DEF ExactRetry
  <2> QED
    BY <1>9, <2>1, <2>2 DEF ExactRetry
<1>10. CASE CheckHead(w)
  <2>1. CASE HeadMatches(w) /\ LoadsChain(head)
    BY <1>1, <1>2, <1>10, <2>1, WriterStep DEF CheckHead, HeadMatches
  <2>2. ASSUME NEW point \in {"stale", "failed"}, Leave(w, point) PROVE ChainInv'
    BY <1>1, <1>2, <1>10, <2>2, WriterStep, ZenonT(60) DEF CheckHead
  <2> QED
    BY <1>10, <2>1, <2>2 DEF CheckHead
<1>11. CASE PublishNew(w)
  <2>1. CASE links
    <3>1. /\ event' \in [Revisions -> FileStates] /\ pc' = [pc EXCEPT ![w] = "unlink"]
          /\ \A r \in Revisions : event'[r] # event[r] => /\ pc[w] = "publish" /\ r = Candidate(w)
                                                        /\ event'[r] = "linked"
          /\ UNCHANGED <<links, diskEvent, head, diskHead, dirs, lock, calls, history, budget>>
          /\ pc[w] = "publish"
      BY <1>1, <1>3, <1>11, <2>1 DEF PublishNew, FileStates
    <3>2. \A r \in Revisions : event'[r] \in {"absent", "linked", "whole"}
      BY <1>2, <2>1, <3>1
    <3> QED
      BY <1>1, <1>4, <2>1, <3>1, <3>2, WriterStep
  <2>2. CASE ~links
    <3>1. /\ event' \in [Revisions -> FileStates] /\ pc' = [pc EXCEPT ![w] = "copy"]
          /\ \A r \in Revisions : event'[r] # event[r] => pc[w] = "publish" /\ r = Candidate(w)
          /\ UNCHANGED <<links, diskEvent, head, diskHead, dirs, lock, calls, history, budget>>
          /\ pc[w] = "publish"
      BY <1>1, <1>3, <1>11, <2>2 DEF PublishNew, FileStates
    <3> QED
      BY <1>1, <1>4, <2>2, <3>1, WriterStep
  <2> QED
    BY <1>11, <2>1, <2>2 DEF PublishNew
<1>12. CASE PublishExisting(w)
  <2>1. CASE Readable(Candidate(w))
    BY <1>1, <1>2, <1>4, <1>12, <2>1, WriterStep DEF PublishExisting, Readable, Candidate
  <2>2. CASE ~Readable(Candidate(w))
    BY <1>1, <1>2, <1>12, <2>2, WriterStep DEF PublishExisting
  <2> QED
    BY <1>12, <2>1, <2>2 DEF PublishExisting
<1>13. CASE UnlinkTemporary(w)
  BY <1>1, <1>2, <1>3, <1>4, <1>13, WriterStep DEF UnlinkTemporary, FileStates, Candidate
<1>14. CASE CopyBytes(w)
  BY <1>1, <1>2, <1>3, <1>4, <1>14, WriterStep DEF CopyBytes, FileStates
<1>15. CASE SyncCopy(w)
  BY <1>1, <1>2, <1>3, <1>4, <1>15, WriterStep DEF SyncCopy, FileStates, Candidate
<1>16. CASE SyncFails(w)
  <2>1. budget' \in [kills : Nat, losses : Nat, errors : Nat] /\ budget'.losses = budget.losses
    BY <1>1, <1>16 DEF SyncFails
  <2>2. /\ event' \in [Revisions -> FileStates]
        /\ \A r \in Revisions : event'[r] # event[r] =>
              pc[w] = "syncfile" /\ r = Candidate(w) /\ event'[r] = "absent"
    BY <1>1, <1>16 DEF SyncFails, FileStates
  <2>3. /\ pc' = [pc EXCEPT ![w] = "failed"] /\ lock' \in Writers \cup {None} /\ lock' # w
        /\ \A v \in Writers : v # w => (lock' = v <=> lock = v)
        /\ UNCHANGED <<links, diskEvent, head, diskHead, dirs, expected, payload, acked, retried, wiped>>
        /\ Len(expected[w]) < MaxLength
    BY <1>1, <1>16 DEF SyncFails
  <2>4. links => \A r \in Revisions : event'[r] \in {"absent", "linked", "whole"}
    BY <1>2, <2>2
  <2> QED
    BY <1>1, <2>1, <2>2, <2>3, <2>4, WriterStep, ZenonT(60)
<1>17. CASE Kill(w)
  <2>1. budget' \in [kills : Nat, losses : Nat, errors : Nat] /\ budget'.losses = budget.losses
    BY <1>1, <1>17 DEF Kill
  <2>2. /\ pc' = [pc EXCEPT ![w] = "failed"] /\ lock' \in Writers \cup {None} /\ lock' # w
        /\ \A v \in Writers : v # w => (lock' = v <=> lock = v)
        /\ UNCHANGED <<links, event, diskEvent, head, diskHead, dirs, expected, payload, acked, retried, wiped>>
        /\ Len(expected[w]) < MaxLength
    BY <1>1, <1>17 DEF Kill
  <2> QED
    BY <1>1, <1>2, <2>1, <2>2, WriterStep
<1> QED
  BY <1>6, <1>7, <1>8, <1>9, <1>10, <1>11, <1>12, <1>13, <1>14, <1>15, <1>16, <1>17, <1>18, <1>19,
     <1>20

\* With hard links a file that can be read is whole.
LEMMA WholeIfLinked ==
  ASSUME ChainInv, links, NEW r \in Revisions, Readable(r)
  PROVE  event[r] = "whole"
  BY DEF ChainInv, Linked, Readable

\* The sync of events/: with hard links the event of the record, and every
\* event of the chain, is now on the disk as it is seen.
LEMMA SyncEventsStep ==
  ASSUME ChainInv, NEW w \in Writers, SyncEvents(w)
  PROVE  ChainInv' /\ UNCHANGED <<head, diskHead, dirs>>
<1> USE DEF SyncEvents, ChainInv, Goto, calls, history
<1>1. /\ pc[w] = "sync" /\ \A v \in Writers : pc'[v] = IF v = w THEN "replace" ELSE pc[v]
      /\ pc' \in [Writers -> Places]
      /\ \A v \in Writers : Candidate(v)' = Candidate(v)
  BY DEF Locals, Places, Candidate
<1>2. lock = w /\ (\A v \in Writers : v # w => pc[v] \in Outside) /\ Candidate(w) \in Revisions
  BY <1>1, Alone DEF Outside, Before
<1>3. /\ diskEvent' \in [Revisions -> FileStates]
      /\ \A r \in Revisions : links => diskEvent'[r] = event[r]
  BY DEF ChainTypeOK, FileStates, Linked
<1>4. ChainTypeOK'
  BY <1>1, <1>3 DEF ChainTypeOK, Outside, Before
<1>5. Locals' /\ Durable'
  BY <1>1 DEF Locals, Durable
<1>6. Held' /\ Entries'
  BY <1>1 DEF Held, Entries, Outside, Before
<1>7. Linked'
  BY <1>1, <1>3 DEF Linked
<1>8. HeadLoads'
  BY DEF HeadLoads, LoadsChain, Readable
<1>9. Published'
  <2>1. Readable(Candidate(w))
    BY <1>1 DEF Published
  <2>2. ASSUME NEW v \in Writers, pc'[v] \in {"sync", "replace"}
        PROVE  v = w /\ Readable(Candidate(v))'
    BY <1>1, <1>2, <2>1, <2>2 DEF Outside, Before, Readable
  <2>3. links => diskEvent'[Candidate(w)] = "whole"
    BY <1>2, <1>3, <2>1, WholeIfLinked
  <2>4. ASSUME links, "events" \notin wiped, NEW n \in 1 .. Len(head) PROVE diskEvent'[SubSeq(head, 1, n)] = "whole"
    <3>1. SubSeq(head, 1, n) \in Revisions
      BY ChainsTyped
    <3>2. Readable(SubSeq(head, 1, n))
      BY <2>4 DEF HeadLoads, LoadsChain
    <3> QED
      BY <1>3, <2>4, <3>1, <3>2, WholeIfLinked
  <2> QED
    BY <1>1, <2>2, <2>3, <2>4 DEF Published
<1> QED
  BY <1>4, <1>5, <1>6, <1>7, <1>8, <1>9

\* HEAD moves to the record, whose event is whole and, with hard links, on
\* the disk.
LEMMA ReplaceHeadStep ==
  ASSUME ChainInv, NEW w \in Writers, ReplaceHead(w)
  PROVE  ChainInv' /\ head' = Append(head, payload[w]) /\ payload[w] \in Payloads
         /\ UNCHANGED <<diskHead, dirs>>
<1> USE DEF ReplaceHead, ChainInv, Goto, calls, history
<1>1. /\ pc[w] = "replace" /\ \A v \in Writers : pc'[v] = IF v = w THEN "synchead" ELSE pc[v]
      /\ pc' \in [Writers -> Places]
      /\ \A v \in Writers : Candidate(v)' = Candidate(v)
  BY DEF Locals, Places, Candidate
<1>2. lock = w /\ (\A v \in Writers : v # w => pc[v] \in Outside) /\ Candidate(w) \in Revisions
  BY <1>1, Alone DEF Outside, Before
<1>3. head = expected[w] /\ head' = Append(head, payload[w]) /\ payload[w] \in Payloads
  BY <1>1 DEF Held, Candidate, Locals
<1>4. /\ head \in Seq(Payloads) /\ diskHead \in Seq(Payloads)
      /\ acked \subseteq Seq(Payloads) /\ retried \subseteq Seq(Payloads)
  BY ChainsTyped
<1>5. /\ Len(head') = Len(head) + 1 /\ Len(head) \in Nat
      /\ SubSeq(head', 1, Len(head) + 1) = Candidate(w)
      /\ \A n \in 0 .. Len(head) : SubSeq(head', 1, n) = SubSeq(head, 1, n)
  BY <1>3, <1>4, PartOfAppend
<1>6. \A n \in 1 .. Len(head') : \/ SubSeq(head', 1, n) = Candidate(w)
                                 \/ n \in 1 .. Len(head) /\ SubSeq(head', 1, n) = SubSeq(head, 1, n)
  BY <1>5
<1>7. ChainTypeOK'
  BY <1>1, <1>2 DEF ChainTypeOK, Outside, Before
<1>8. Locals' /\ Entries' /\ Linked'
  BY <1>1 DEF Locals, Entries, Linked, Outside, Before
<1>9. Held'
  <2> SUFFICES ASSUME NEW v \in Writers
               PROVE  /\ pc'[v] \in {"publish", "unlink", "copy", "syncfile", "sync", "replace"}
                            => head' = expected'[v]
                      /\ pc'[v] = "synchead" => head' = Candidate(v)'
    BY DEF Held
  <2> QED
    BY <1>1, <1>2 DEF Outside, Before
<1>10. Durable'
  BY <1>3, <1>4, PrefixGrows DEF Durable
<1>11. Readable(Candidate(w)) /\ (links => diskEvent[Candidate(w)] = "whole")
  BY <1>1 DEF Published
<1>12. HeadLoads'
  BY <1>6, <1>11 DEF HeadLoads, LoadsChain, Readable
<1>13. Published'
  <2>1. \A v \in Writers : pc'[v] \notin {"sync", "replace"}
    BY <1>1, <1>2 DEF Outside, Before
  <2>2. links /\ "events" \notin wiped => \A n \in 1 .. Len(head') : diskEvent[SubSeq(head', 1, n)] = "whole"
    BY <1>6, <1>11 DEF Published
  <2> QED
    BY <2>1, <2>2 DEF Published
<1> QED
  BY <1>3, <1>7, <1>8, <1>9, <1>10, <1>12, <1>13

\* What append returns is durable.
LEMMA SyncHeadStep ==
  ASSUME ChainInv, NEW w \in Writers, SyncHead(w)
  PROVE  ChainInv' /\ diskHead' = head /\ UNCHANGED head /\ StoreStays
<1> USE DEF SyncHead, ChainInv, Goto, Leave, calls
<1>1. /\ pc[w] = "synchead" /\ \A v \in Writers : pc'[v] = IF v = w THEN "idle" ELSE pc[v]
      /\ pc' \in [Writers -> Places]
      /\ \A v \in Writers : Candidate(v)' = Candidate(v)
  BY DEF Locals, Places, Outside, Before, Candidate
<1>2. lock = w /\ lock' = None /\ (\A v \in Writers : v # w => pc[v] \in Outside)
      /\ Candidate(w) \in Revisions /\ head = Candidate(w)
  BY <1>1, Alone DEF Outside, Before, Held
<1>7. dirs' \in [Directories -> EntryStates] /\ dirs'["store"] = dirs["store"]
  BY DEF ChainTypeOK, Directories, EntryStates
<1>3. ChainTypeOK'
  BY <1>1, <1>2, <1>7, ChainNone DEF ChainTypeOK, Outside, Before
<1>4. Locals' /\ Linked' /\ Held' /\ Entries' /\ Published'
  BY <1>1, <1>7 DEF Locals, Linked, Held, Entries, Published, Readable, Outside, Before
<1>5. Durable'
  <2>1. ASSUME "store" \notin wiped, NEW r \in acked PROVE IsPrefix(r, head)
    BY <2>1, ChainsTyped, PrefixOrder DEF Durable
  <2> QED
    BY <2>1, ChainsTyped, PrefixSelf DEF Durable
<1>6. HeadLoads'
  BY DEF HeadLoads, LoadsChain, Readable
<1> QED
  BY <1>3, <1>4, <1>5, <1>6, <1>7 DEF StoreStays

\* The sync of the store's directory by the maker of events/.
LEMMA SyncStoreStep ==
  ASSUME ChainInv, NEW w \in Writers, SyncStore(w)
  PROVE  ChainInv' /\ diskHead' = head /\ UNCHANGED head /\ StoreStays
<1> USE DEF SyncStore, ChainInv, Goto, calls, history
<1>1. /\ pc[w] = "entry" /\ \A v \in Writers : pc'[v] = IF v = w THEN "append" ELSE pc[v]
      /\ pc' \in [Writers -> Places]
      /\ \A v \in Writers : Candidate(v)' = Candidate(v)
  BY DEF Locals, Places, Outside, Before, Candidate
<1>2. dirs' \in [Directories -> EntryStates] /\ dirs'["store"] = dirs["store"]
  BY DEF ChainTypeOK, Directories, EntryStates
<1>3. ChainTypeOK'
  BY <1>1, <1>2 DEF ChainTypeOK
<1>4. Locals' /\ Linked' /\ Held' /\ Entries' /\ Published'
  BY <1>1, <1>2 DEF Locals, Linked, Held, Entries, Published, Readable, Outside, Before
<1>5. Durable'
  <2>1. ASSUME "store" \notin wiped, NEW r \in acked PROVE IsPrefix(r, head)
    BY <2>1, ChainsTyped, PrefixOrder DEF Durable
  <2> QED
    BY <2>1, ChainsTyped, PrefixSelf DEF Durable
<1>6. HeadLoads'
  BY DEF HeadLoads, LoadsChain, Readable
<1> QED
  BY <1>2, <1>3, <1>4, <1>5, <1>6 DEF StoreStays

\* What is left of HEAD, of the entries and of the events after a power loss.
LEMMA PowerLossLeaves ==
  ASSUME ChainInv, PowerLoss
  PROVE  /\ StoreLost \/ \E n \in Len(diskHead) .. Len(head) : head' = SubSeq(head, 1, n)
         /\ dirs' \in [Directories -> EntryStates] /\ wiped \subseteq wiped' /\ wiped' \subseteq Directories
         /\ StoreLost => "store" \in wiped' /\ dirs["store"] = "made" /\ dirs'["store"] = "absent" /\ head' = << >>
         /\ dirs'["store"] = "absent" => dirs'["events"] = "absent"
         /\ ~StoreLost => dirs'["store"] = IF dirs["store"] = "absent" THEN "absent" ELSE "durable"
         /\ event' \in [Revisions -> FileStates]
         /\ \A r \in Revisions :
               \/ event'[r] = "absent"
               \/ event'[r] = event[r] /\ diskEvent[r] = event[r]
               \/ Survives(r, event'[r])
         /\ ~StoreLost /\ "events" \notin wiped' => \A r \in Revisions :
               \/ event'[r] = event[r] /\ diskEvent[r] = event[r]
               \/ Survives(r, event'[r])
<1> USE DEF ChainInv, ChainTypeOK, Directories, EntryStates
<1>1. CASE StoreLost
  BY <1>1 DEF StoreLost, FileStates
<1>2. CASE ~StoreLost /\ EventsLost
  <2>1. dirs["store"] # "absent"
    <3> SUFFICES ASSUME dirs["store"] = "absent" PROVE FALSE
      OBVIOUS
    <3> QED
      BY <1>2 DEF EventsLost, Entries
  <2> QED
    BY <1>2, <2>1 DEF EventsLost, HeadSurvives, FileStates
<1>3. CASE ~StoreLost /\ EntriesSurvive
  <2>1. PICK f \in [Unsettled -> FileStates] :
           /\ \A r \in Unsettled : Survives(r, f[r])
           /\ event' = [r \in Revisions |-> IF r \in Unsettled THEN f[r] ELSE event[r]]
    BY <1>3 DEF EntriesSurvive
  <2>2. event' \in [Revisions -> FileStates]
    BY <2>1
  <2>3. \A r \in Revisions : \/ event'[r] = event[r] /\ diskEvent[r] = event[r]
                             \/ Survives(r, event'[r])
    BY <2>1 DEF Unsettled
  <2> QED
    BY <1>3, <2>2, <2>3 DEF EntriesSurvive, HeadSurvives, Entries
<1> QED
  BY <1>1, <1>2, <1>3 DEF PowerLoss

\* A power loss: HEAD falls back to no less than what was durable, if the
\* store is still there, and with hard links and events/ still there every
\* event it then names was on the disk.
LEMMA PowerLossStep ==
  ASSUME ChainInv, PowerLoss
  PROVE  ChainInv' /\ Lost
<1> USE DEF ChainInv
<1>1. /\ StoreLost \/ \E n \in Len(diskHead) .. Len(head) : head' = SubSeq(head, 1, n)
      /\ dirs' \in [Directories -> EntryStates] /\ wiped \subseteq wiped' /\ wiped' \subseteq Directories
      /\ StoreLost => "store" \in wiped' /\ dirs["store"] = "made" /\ dirs'["store"] = "absent" /\ head' = << >>
      /\ dirs'["store"] = "absent" => dirs'["events"] = "absent"
      /\ ~StoreLost => dirs'["store"] = IF dirs["store"] = "absent" THEN "absent" ELSE "durable"
      /\ event' \in [Revisions -> FileStates]
  BY PowerLossLeaves
<1>2. PICK n \in 0 .. Len(head) :
         /\ head' = SubSeq(head, 1, n)
         /\ ~StoreLost => n \in Len(diskHead) .. Len(head)
  <2>1. << >> = SubSeq(head, 1, 0) /\ 0 \in 0 .. Len(head)
    BY ChainsTyped, SubSeqEmpty
  <2>2. Len(diskHead) .. Len(head) \subseteq 0 .. Len(head)
    <3>1. Len(diskHead) \in Nat /\ Len(head) \in Nat
      BY ChainsTyped, LenProperties
    <3> QED
      BY <3>1
  <2>3. CASE StoreLost
    BY <1>1, <2>1, <2>3
  <2>4. CASE ~StoreLost
    <3>1. PICK m \in Len(diskHead) .. Len(head) : head' = SubSeq(head, 1, m)
      BY <1>1, <2>4
    <3> QED
      BY <2>2, <3>1
  <2> QED
    BY <2>3, <2>4
<1>3. /\ diskEvent' = event' /\ diskHead' = head' /\ lock' = None
      /\ pc' = [w \in Writers |-> IF pc[w] = "idle" THEN "idle" ELSE "failed"]
      /\ UNCHANGED <<links, expected, payload, acked, retried>>
      /\ budget' \in [kills : Nat, losses : Nat, errors : Nat] /\ budget'.losses # 0
  <2>1. budget \in [kills : Nat, losses : Nat, errors : Nat]
    BY DEF Locals
  <2>2. budget' = [budget EXCEPT !.losses = @ + 1]
    BY DEF PowerLoss
  <2>3. budget' \in [kills : Nat, losses : Nat, errors : Nat] /\ budget'.losses # 0
    BY <2>1, <2>2
  <2> QED
    BY <2>3 DEF PowerLoss, calls
<1>4. /\ head \in Seq(Payloads) /\ diskHead \in Seq(Payloads) /\ IsPrefix(diskHead, head)
      /\ acked \subseteq Seq(Payloads) /\ Len(head) \in Nat /\ Len(diskHead) \in Nat
  BY ChainsTyped, LenProperties DEF Durable
<1>5. /\ head' \in Seq(Payloads) /\ Len(head') = n /\ n \in 0 .. Len(head)
      /\ IsPrefix(head', head) /\ (~StoreLost => IsPrefix(diskHead, head'))
  <2>1. << >> \in Seq(Payloads) /\ Len(<< >>) = 0 /\ IsPrefix(<< >>, head)
    BY <1>4, PrefixEmpty
  <2>2. CASE StoreLost
    <3>1. head' = << >>
      BY <1>1, <2>2
    <3>2. n \in Nat /\ n <= Len(head) /\ head' = SubSeq(head, 1, n)
      BY <1>2, <1>4
    <3>3. Len(head') = n
      BY <1>4, <3>2, PartOf
    <3> QED
      BY <1>2, <2>1, <2>2, <3>1, <3>3
  <2>3. CASE ~StoreLost
    BY <1>2, <1>4, <2>3, PrefixCut
  <2> QED
    BY <2>2, <2>3
<1>6. \A m \in 1 .. n : m \in 1 .. Len(head) /\ SubSeq(head', 1, m) = SubSeq(head, 1, m)
  <2>1. \A m \in 1 .. n : m \in 1 .. Len(head) /\ m \in 0 .. n
    BY <1>4, <1>5
  <2> QED
    BY <1>2, <1>4, <2>1, PartOfPart
<1>8. ASSUME links, NEW r \in Revisions
      PROVE  /\ event'[r] \in {"absent", "linked", "whole"}
             /\ ~StoreLost /\ "events" \notin wiped' /\ event[r] = "whole" /\ diskEvent[r] = "whole"
                   => event'[r] = "whole"
  <2>1. {event[r], diskEvent[r]} \subseteq {"absent", "linked", "whole"}
    BY <1>8 DEF Linked
  <2>2. /\ \/ event'[r] = "absent"
           \/ event'[r] = event[r] /\ diskEvent[r] = event[r]
           \/ Survives(r, event'[r])
        /\ ~StoreLost /\ "events" \notin wiped' =>
              \/ event'[r] = event[r] /\ diskEvent[r] = event[r]
              \/ Survives(r, event'[r])
    BY PowerLossLeaves
  <2> QED
    BY <2>1, <2>2 DEF Survives
<1>9. ASSUME links, "events" \notin wiped', NEW m \in 1 .. n PROVE event'[SubSeq(head', 1, m)] = "whole"
  <2>1. SubSeq(head, 1, m) \in Revisions /\ m \in 1 .. Len(head)
    BY <1>6, ChainsTyped
  <2>2. diskEvent[SubSeq(head, 1, m)] = "whole" /\ Readable(SubSeq(head, 1, m))
    BY <1>1, <1>9, <2>1 DEF Published, HeadLoads, LoadsChain
  <2>3. ~StoreLost
    <3> SUFFICES ASSUME StoreLost PROVE FALSE
      OBVIOUS
    <3>1. n = 0
      BY <1>1, <1>5, EmptySeq
    <3> QED
      BY <1>9, <3>1
  <2> QED
    BY <1>6, <1>8, <1>9, <2>1, <2>2, <2>3, WholeIfLinked
<1>10. ChainTypeOK'
  <2>1. Len(head) <= MaxLength /\ MaxLength \in Nat
    BY ChainBounds, ChainsTyped DEF Chain
  <2>2. head' \in Chain
    BY <1>4, <1>5, <2>1 DEF Chain
  <2>3. head' \in Revisions \cup {<< >>}
    BY <2>2, ChainOfRevisions
  <2>4. \A w \in Writers : Candidate(w)' = Candidate(w)
    BY <1>3 DEF Candidate
  <2> QED
    BY <1>1, <1>3, <2>3, <2>4, ChainNone DEF ChainTypeOK
<1>11. Locals' /\ Held' /\ Linked'
  BY <1>3, <1>8 DEF Locals, Held, Linked, Places, Outside, Before
<1>15. Entries'
  <2>1. ASSUME ~StoreLost, dirs["store"] = "absent" PROVE head' = << >>
    <3>1. head = << >> /\ Len(head) = 0
      BY <2>1, EmptySeq DEF Entries
    <3> QED
      BY <1>5, <3>1, EmptySeq
  <2> QED
    BY <1>1, <1>3, <2>1 DEF Entries, Before
<1>12. Durable'
  <2>1. ASSUME "store" \notin wiped', NEW r \in acked PROVE IsPrefix(r, head')
    <3>1. ~StoreLost /\ "store" \notin wiped
      BY <1>1, <2>1
    <3> QED
      BY <1>4, <1>5, <2>1, <3>1, PrefixOrder DEF Durable
  <2> QED
    BY <1>3, <1>5, <2>1, PrefixSelf DEF Durable
<1>13. HeadLoads'
  BY <1>3, <1>5, <1>9 DEF HeadLoads, LoadsChain, Readable
<1>14. Published'
  BY <1>3, <1>5, <1>9 DEF Published
<1>16. Lost
  <2>1. SafeHead' = head'
    BY <1>1, <1>3, <1>15 DEF SafeHead, Entries
  <2>2. IsPrefix(SafeHead, head')
    <3>1. CASE StoreLost
      BY <1>1, <1>5, <3>1, PrefixSelf DEF SafeHead
    <3>2. CASE ~StoreLost
      <4>1. IsPrefix(<< >>, head')
        BY <1>5, PrefixEmpty
      <4> QED
        BY <1>5, <3>2, <4>1 DEF SafeHead
    <3> QED
      BY <3>1, <3>2
  <2> QED
    BY <1>5, <2>1, <2>2 DEF Lost
<1> QED
  BY <1>10, <1>11, <1>12, <1>13, <1>14, <1>15, <1>16

LEMMA ChainStutter == ASSUME ChainInv, UNCHANGED vars PROVE ChainInv'
<1> USE DEF vars, ChainInv
<1>1. \A w \in Writers : Candidate(w)' = Candidate(w)
  BY DEF Candidate
<1>2. ChainTypeOK' /\ Locals' /\ Held' /\ Entries'
  BY <1>1 DEF ChainTypeOK, Locals, Held, Entries
<1>3. Durable' /\ Linked'
  BY DEF Durable, Linked
<1>4. Published' /\ HeadLoads'
  BY <1>1 DEF Published, HeadLoads, LoadsChain, Readable
<1> QED
  BY <1>2, <1>3, <1>4

\* With the power on, what is durable only grows.
LEMMA SafeHeadGrows ==
  ASSUME ChainInv, ChainInv', UNCHANGED head, IsPrefix(diskHead, diskHead'), StoreStays
  PROVE  Settled
<1>1. /\ head \in Seq(Payloads) /\ diskHead \in Seq(Payloads) /\ diskHead' \in Seq(Payloads)
      /\ << >> \in Seq(Payloads)
  BY ChainOfRevisions, ChainsTyped, EmptySeq DEF ChainInv, ChainTypeOK, Chain
<1>2. IsPrefix(<< >>, << >>) /\ IsPrefix(<< >>, diskHead') /\ IsPrefix(<< >>, head)
  BY <1>1, PrefixEmpty
<1>3. IsPrefix(diskHead', head)
  BY DEF ChainInv, Durable
<1>4. CASE dirs["store"] = "durable"
  BY <1>3, <1>4 DEF StoreStays, SafeHead, Settled
<1>5. CASE dirs["store"] # "durable"
  BY <1>2, <1>3, <1>5 DEF SafeHead, Settled
<1> QED
  BY <1>4, <1>5

LEMMA ChainStep ==
  ASSUME ChainInv, [ChainNext]_vars
  PROVE  ChainInv' /\ (Extended \/ Settled \/ Lost)
<1>0. IsPrefix(diskHead, diskHead) /\ IsPrefix(diskHead, head)
  BY ChainsTyped, PrefixSelf DEF ChainInv, Durable
<1>1. ASSUME NEW w \in Writers,
             \/ ReadHead(w) \/ Retry(w) \/ MakeStore(w) \/ SyncParent(w) \/ MakeEvents(w)
             \/ AcquireStoreLock(w) \/ ExactRetry(w) \/ CheckHead(w)
             \/ PublishNew(w) \/ PublishExisting(w) \/ UnlinkTemporary(w) \/ CopyBytes(w)
             \/ SyncCopy(w) \/ SyncFails(w) \/ Kill(w)
      PROVE  ChainInv' /\ Settled
  <2>1. ChainInv' /\ UNCHANGED <<head, diskHead>> /\ StoreStays
    BY <1>1, WriterSteps
  <2> QED
    BY <1>0, <2>1, SafeHeadGrows
<1>2. ASSUME NEW w \in Writers, SyncEvents(w) PROVE ChainInv' /\ Settled
  <2>1. ChainInv' /\ UNCHANGED <<head, diskHead>> /\ StoreStays
    BY <1>2, SyncEventsStep DEF StoreStays
  <2> QED
    BY <1>0, <2>1, SafeHeadGrows
<1>3. ASSUME NEW w \in Writers, ReplaceHead(w) PROVE ChainInv' /\ Extended
  BY <1>3, ReplaceHeadStep DEF Extended, SafeHead
<1>4. ASSUME NEW w \in Writers, SyncHead(w) \/ SyncStore(w) PROVE ChainInv' /\ Settled
  <2>1. ChainInv' /\ diskHead' = head /\ UNCHANGED head /\ StoreStays
    BY <1>4, SyncHeadStep, SyncStoreStep
  <2> QED
    BY <1>0, <2>1, SafeHeadGrows
<1>5. CASE PowerLoss
  BY <1>5, PowerLossStep
<1>6. CASE UNCHANGED vars
  <2>1. ChainInv' /\ UNCHANGED <<head, diskHead, dirs>>
    BY <1>6, ChainStutter DEF vars
  <2> QED
    BY <1>0, <2>1, SafeHeadGrows DEF StoreStays
<1> QED
  BY <1>1, <1>2, <1>3, <1>4, <1>5, <1>6 DEF ChainNext

-----------------------------------------------------------------------------
(***************************************************************************)
(* Theorems.                                                               *)
(***************************************************************************)
\* The inductive invariant holds in every reachable state of the store.
THEOREM ChainInvariant == ChainSpec => []ChainInv
<1>1. ChainInv /\ [ChainNext]_vars => ChainInv'
  BY ChainStep
<1> QED
  BY ChainStart, <1>1, PTL DEF ChainSpec

\* Files, HEAD, lock and the writers' locals keep their types, and who is
\* past the lock holds it.
THEOREM ChainTypeCorrect == ChainSpec => []ChainTypeOK
<1>1. ChainInv => ChainTypeOK
  BY DEF ChainInv
<1> QED
  BY ChainInvariant, <1>1, PTL

\* The commit sequence of _append_locked keeps its contract: the chain HEAD
\* names can be loaded after any interleaving of writers, kills, failing
\* syncs and power losses, with hard links and as long as no power loss took
\* an events/ whose entry was unsynced; without hard links, until the power
\* fails.
THEOREM HeadLoadsHolds == ChainSpec => []HeadLoads
<1>1. ChainInv => HeadLoads
  BY DEF ChainInv
<1> QED
  BY ChainInvariant, <1>1, PTL

\* What append returned stays in the chain: a revision acknowledged by a
\* writer that moved HEAD through everything but the loss of the whole store,
\* which only a power loss over an unsynced entry of its directory is; one
\* acknowledged by an exact retry until the power fails.
THEOREM AckedStaysHolds == ChainSpec => []AckedStays
<1>1. ChainInv => AckedStays
  <2> SUFFICES ASSUME ChainInv PROVE AckedStays
    OBVIOUS
  <2>1. ASSUME "store" \notin wiped, NEW r \in acked PROVE IsPrefix(r, head)
    <3>1. IsPrefix(r, diskHead) /\ IsPrefix(diskHead, head)
      BY <2>1 DEF ChainInv, Durable
    <3> QED
      BY <3>1, ChainsTyped, PrefixOrder
  <2> QED
    BY <2>1 DEF ChainInv, Durable, AckedStays
<1> QED
  BY ChainInvariant, <1>1, PTL

\* The files, their directories and the lock implement an append-only log
\* with a durable prefix: the rename of HEAD extends it by one record, a sync
\* of a directory settles a part of it, a power loss takes back what was not
\* settled, and no other step of append shows.
THEOREM LogImplemented == ChainSpec => LogRefined
<1>1. ChainInit => Log!LogStart
  BY DEF ChainInit, SafeHead, Log!LogStart
<1>2. ChainInv /\ [ChainNext]_vars => [Log!Extend \/ Log!Settle \/ Log!Lose]_(Log!logVars)
  <2> SUFFICES ASSUME ChainInv, [ChainNext]_vars
               PROVE  Log!Extend \/ Log!Settle \/ Log!Lose
    OBVIOUS
  <2>1. Extended => Log!Extend
    BY DEF Extended, Log!Extend
  <2>2. Settled => Log!Settle
    BY DEF Settled, Log!Settle, IsPrefix, Log!IsPrefix
  <2>3. Lost => Log!Lose
    BY DEF Lost, Log!Lose, IsPrefix, Log!IsPrefix
  <2> QED
    BY ChainStep, <2>1, <2>2, <2>3
<1> QED
  BY <1>1, <1>2, ChainInvariant, PTL DEF ChainSpec, LogRefined, Log!LogSpec
=============================================================================
