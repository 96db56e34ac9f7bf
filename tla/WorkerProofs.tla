----------------------------- MODULE WorkerProofs -----------------------------
(***************************************************************************)
(* Machine-checked proofs about what the UI thread leaves to other threads *)
(* and what is done with processes.                                        *)
(*                                                                         *)
(* config.ini (SettingsStore.tla): the store implements the durable        *)
(* register, for any number of changes and lives.                          *)
(*                                                                         *)
(* The action executor (ActionExecutor.tla): where each job is, for lanes  *)
(* of any capacity and any number of actions and processes.                *)
(*                                                                         *)
(* What is inferred of a process from its table (ProcessFacts.tla), and    *)
(* what a command does to it (ProcessActions.tla), for any processes.  The *)
(* application's members and the descendants of a process are recursive    *)
(* functions: what is reached is followed by induction on the generations. *)
(*                                                                         *)
(* The menu of a row and its dialogs (RowMenu.tla), for any processes.     *)
(***************************************************************************)
EXTENDS SettingsStore, ActionExecutor, ProcessFacts, ProcessActions, RowMenu,
        SequenceTheorems, FiniteSetTheorems, WellFoundedInduction, TLAPS

-----------------------------------------------------------------------------
(* Settings: the inductive invariant.                                       *)

\* What is stored, as the register sees it.
StoredId == IF Usable(disk) THEN disk.id ELSE 0

\* A snapshot on its way to the file: newer than the one there.
Between(f, lo, hi) == f \in Snapshots /\ lo < f.id /\ f.id <= hi
OnItsWay(f) == Between(f, StoredId, ids)

\* The messages of the channel that carry a snapshot.
Carries(m) == m.msg \in {"write", "force"}
Messages == [msg : {"write", "force"}, f : Snapshots] \cup [msg : {"flush", "shutdown"}, f : {None}]

DataTyped ==
    /\ disk \in Snapshots \cup {Absent, Unusable}
    /\ mem \in AllSettings /\ ids \in Nat
    /\ tmp \in Temporaries \cup {None}
    /\ saving \in Snapshots \cup {None} /\ pending \in Snapshots \cup {None}
    /\ queue \in Seq(Messages)

\* The rename comes last, so the data of config.ini is on the disk. (replace_file)
RenamedIsSynced == synced = TRUE

\* An unusable file is still there only if putting it aside failed. (set_aside)
AsideOrTold == life # "off" /\ disk = Unusable => lost = TRUE

\* What is being written, coalesced and queued is approved, and newer than
\* the file; what is coalesced is older than what is queued, and the queue
\* is in order. (SettingsWriter, settings_writer_loop)
InOrder ==
    /\ StoredId <= ids
    /\ Busy => OnItsWay(saving) /\ tmp # None /\ tmp.s = saving
    /\ pending # None => OnItsWay(pending) /\ saving = None
    /\ \A i \in 1..Len(queue) : Carries(queue[i]) =>
         /\ OnItsWay(queue[i].f)
         /\ Busy => saving.id < queue[i].f.id
         /\ pending # None => pending.id < queue[i].f.id
    /\ \A i, j \in 1..Len(queue) : (i < j /\ Carries(queue[i]) /\ Carries(queue[j])) => queue[i].f.id < queue[j].f.id

StoreInv == DataTyped /\ RenamedIsSynced /\ InOrder

-----------------------------------------------------------------------------
(* Lemmas about the data.                                                   *)

\* What the user interface offers is read back as it was written. (from_ini_text)
LEMMA ReadBack == ASSUME NEW v \in Shown PROVE ReadValues(v) = v
  BY DEF Shown, Usual, Least, Most, ReadValues, Clamp, Within

LEMMA FromIniTyped == ASSUME NEW s \in AllSettings PROVE FromIni(s) \in AllSettings
  BY ReadBack DEF AllSettings, FromIni, Default

LEMMA DefaultTyped == Default \in AllSettings
  BY DEF AllSettings, Default, Shown

\* A snapshot is neither a missing file nor no snapshot.
LEMMA Distinct ==
    ASSUME NEW f \in Snapshots
    PROVE  f # None /\ f # Absent /\ f # Unusable /\ Usable(f)
  BY SnapshotAssumption DEF Usable

\* The head and the tail of the channel.
LEMMA HeadTail ==
    ASSUME NEW q \in Seq(Messages), q # <<>>
    PROVE  Head(q) \in Messages /\ Tail(q) \in Seq(Messages)
           /\ Head(q) = q[1] /\ Len(Tail(q)) = Len(q) - 1 /\ Len(q) \in Nat \ {0}
           /\ \A i \in 1..Len(Tail(q)) : Tail(q)[i] = q[i + 1]
  OBVIOUS

\* A message at the end of the channel: everything else stays where it is.
LEMMA AtTheEnd ==
    ASSUME NEW q \in Seq(Messages), NEW m \in Messages
    PROVE  /\ Append(q, m) \in Seq(Messages) /\ Len(Append(q, m)) = Len(q) + 1 /\ Len(q) \in Nat
           /\ Append(q, m)[Len(q) + 1] = m
           /\ \A i \in 1..Len(q) : Append(q, m)[i] = q[i]
  OBVIOUS

-----------------------------------------------------------------------------
(* The steps that touch the channel only at its end.                        *)

FileKept == UNCHANGED <<disk, synced, tmp, pending, saving>>

\* A snapshot is approved: it is newer than everything else. (SettingsWriter::enqueue)
LEMMA ApprovedKeeps ==
    ASSUME StoreInv, NEW s \in AllSettings, NEW k \in {"write", "force"}, Approved(s, k), mem' \in AllSettings, FileKept
    PROVE  StoreInv'
  <1> DEFINE m == [msg |-> k, f |-> [id |-> ids + 1, s |-> s]]
  <1>1. m \in Messages /\ m.f \in Snapshots /\ m.f.id = ids + 1 /\ ids \in Nat
    BY DEF StoreInv, DataTyped, Messages, Snapshots
  <1>2. queue \in Seq(Messages) /\ queue' = Append(queue, m) /\ ids' = ids + 1
    BY DEF StoreInv, DataTyped, Approved
  <1> HIDE DEF m
  <1>3. queue' \in Seq(Messages) /\ Len(queue') = Len(queue) + 1 /\ Len(queue) \in Nat
        /\ queue'[Len(queue) + 1] = m /\ \A i \in 1..Len(queue) : queue'[i] = queue[i]
    BY <1>1, <1>2, AtTheEnd
  <1>4. DataTyped'
    BY <1>1, <1>2, <1>3 DEF StoreInv, DataTyped, FileKept
  <1>5. StoredId \in Nat /\ StoredId' = StoredId /\ StoredId <= ids
    BY DEF StoreInv, DataTyped, InOrder, FileKept, StoredId, Usable, Snapshots
  <1>6. \A f : Between(f, StoredId, ids) => Between(f, StoredId, ids') /\ f.id \in Nat /\ f.id <= ids
    BY <1>1, <1>2, <1>5 DEF Between, Snapshots
  <1>7. Between(m.f, StoredId, ids')
    BY <1>1, <1>2, <1>5 DEF Between
  <1>8. InOrder'
    <2>1. (StoredId <= ids)'
      BY <1>1, <1>2, <1>5
    <2>2. (Busy => OnItsWay(saving) /\ tmp # None /\ tmp.s = saving)' /\ (pending # None => OnItsWay(pending) /\ saving = None)'
      BY <1>5, <1>6 DEF StoreInv, InOrder, FileKept, Busy, OnItsWay
    <2>3. ASSUME NEW i \in 1..Len(queue'), Carries(queue'[i])
          PROVE  /\ Between(queue'[i].f, StoredId, ids')
                 /\ Busy => saving.id < queue'[i].f.id
                 /\ pending # None => pending.id < queue'[i].f.id
      <3>1. CASE i \in 1..Len(queue)
        BY <1>3, <1>6, <2>3, <3>1 DEF StoreInv, InOrder, OnItsWay
      <3>2. CASE i = Len(queue) + 1
        BY <1>1, <1>3, <1>6, <1>7, <3>2 DEF StoreInv, InOrder, OnItsWay
      <3> QED BY <1>3, <3>1, <3>2
    <2>4. ASSUME NEW i \in 1..Len(queue'), NEW j \in 1..Len(queue'), i < j, Carries(queue'[i]), Carries(queue'[j])
          PROVE  queue'[i].f.id < queue'[j].f.id
      <3>1. i \in 1..Len(queue) /\ queue'[i] = queue[i]
        BY <1>3, <2>4
      <3>2. queue[i].f.id \in Nat /\ queue[i].f.id <= ids
        BY <1>6, <2>4, <3>1 DEF StoreInv, InOrder, OnItsWay
      <3>3. CASE j \in 1..Len(queue)
        BY <1>3, <2>4, <3>1, <3>3 DEF StoreInv, InOrder
      <3>4. CASE j = Len(queue) + 1
        BY <1>1, <1>3, <3>1, <3>2, <3>4
      <3> QED BY <1>3, <3>3, <3>4
    <2> QED BY <1>5, <2>1, <2>2, <2>3, <2>4 DEF InOrder, Carries, OnItsWay, Busy, FileKept
  <1> QED BY <1>4, <1>8 DEF StoreInv, RenamedIsSynced, FileKept

\* A message without a snapshot. (flush, shutdown)
LEMMA PostedKeeps ==
    ASSUME StoreInv, NEW k \in {"flush", "shutdown"}, Posted(k), mem' \in AllSettings, ids' = ids, FileKept
    PROVE  StoreInv'
  <1> DEFINE m == [msg |-> k, f |-> None]
  <1>1. m \in Messages /\ ~Carries(m)
    BY DEF Messages, Carries
  <1>2. queue \in Seq(Messages) /\ queue' = Append(queue, m)
    BY DEF StoreInv, DataTyped, Posted
  <1> HIDE DEF m
  <1>3. queue' \in Seq(Messages) /\ Len(queue') = Len(queue) + 1 /\ Len(queue) \in Nat
        /\ queue'[Len(queue) + 1] = m /\ \A i \in 1..Len(queue) : queue'[i] = queue[i]
    BY <1>1, <1>2, AtTheEnd
  <1>4. DataTyped'
    BY <1>3 DEF StoreInv, DataTyped, FileKept
  <1>5. \A i \in 1..Len(queue') : Carries(queue'[i]) => i \in 1..Len(queue) /\ queue'[i] = queue[i]
    BY <1>1, <1>3
  <1>6. InOrder'
    BY <1>5 DEF StoreInv, InOrder, FileKept, Busy, OnItsWay, Between, StoredId, Usable, Carries
  <1> QED BY <1>4, <1>6 DEF StoreInv, RenamedIsSynced, FileKept

\* Nothing of the store changes.
LEMMA QuietKeeps ==
    ASSUME StoreInv, FileKept, UNCHANGED <<queue, ids>>, mem' \in AllSettings
    PROVE  StoreInv'
  BY DEF StoreInv, DataTyped, RenamedIsSynced, InOrder, FileKept, Busy, OnItsWay, Between, StoredId, Usable, Carries

-----------------------------------------------------------------------------
(* The invariant is inductive.                                              *)

LEMMA InitStore == SettingsInit => StoreInv
  <1> SUFFICES ASSUME SettingsInit PROVE StoreInv
    OBVIOUS
  <1>1. disk \in Snapshots \cup {Absent, Unusable} /\ StoredId = 0
    BY DEF SettingsInit, Snapshots, AllSettings, Shown, StoredId, Usable
  <1> QED BY <1>1, DefaultTyped DEF SettingsInit, StoreInv, DataTyped, RenamedIsSynced, InOrder, Busy

\* Loading may put an unusable file aside; what is stored stays as it was. (Settings::load)
LEMMA StartKeeps == ASSUME StoreInv, Start PROVE StoreInv' /\ StoredId' = StoredId
  <1>1. disk' \in Snapshots \cup {Absent, Unusable} /\ StoredId' = StoredId /\ synced' = synced
    BY Distinct DEF StoreInv, DataTyped, Start, SetAside, StoredId, Usable
  <1>2. mem' \in AllSettings
    BY FromIniTyped, DefaultTyped DEF StoreInv, DataTyped, Start, Usable, Snapshots
  <1> QED BY <1>1, <1>2 DEF StoreInv, DataTyped, RenamedIsSynced, InOrder, Start, Busy, OnItsWay, Carries, writerVars

\* The user interface approves snapshots, and nothing else. (save_settings)
LEMMA UiKeeps == ASSUME StoreInv, Ui PROVE StoreInv' /\ FileKept /\ ids' \in {ids, ids + 1}
  <1>1. mem \in AllSettings
    BY DEF StoreInv, DataTyped
  <1>2. FileKept
    BY DEF Ui, UserChanges, UserRemembers, UserResizes, UserSwitchesSave, UserResets, UserClosesDialog, Changed, FileKept, diskVars
  <1>3. mem' \in AllSettings
    BY <1>1, DefaultTyped DEF Ui, UserChanges, UserRemembers, UserResizes, UserSwitchesSave, UserResets, UserClosesDialog, AllSettings, Shown
  <1>4. Approved(mem', "write") \/ Approved(mem', "force") \/ UNCHANGED <<queue, ids>>
    BY DEF Ui, UserChanges, UserRemembers, UserResizes, UserSwitchesSave, UserResets, UserClosesDialog, SaveSettings
  <1>5. CASE Approved(mem', "write")
    BY <1>2, <1>3, <1>5, ApprovedKeeps DEF Approved
  <1>6. CASE Approved(mem', "force")
    BY <1>2, <1>3, <1>6, ApprovedKeeps DEF Approved
  <1>7. CASE UNCHANGED <<queue, ids>>
    BY <1>2, <1>3, <1>7, QuietKeeps
  <1> QED BY <1>4, <1>5, <1>6, <1>7

\* A clean exit: a last snapshot, a flush, the shutdown message. (TaskManApp::shutdown)
LEMMA ExitKeeps == ASSUME StoreInv, Exit PROVE StoreInv' /\ FileKept /\ ids' \in {ids, ids + 1}
  <1>1. FileKept /\ mem' = mem /\ mem \in AllSettings
    BY DEF Exit, UserExits, FlushTimeout, DropWriter, FileKept, diskVars, writerVars, StoreInv, DataTyped
  <1>2. CASE UserExits /\ mem.gate
    <2> DEFINE w == [msg |-> "write", f |-> [id |-> ids + 1, s |-> mem]]
               e == [msg |-> "flush", f |-> None]
    <2>1. queue \in Seq(Messages) /\ w \in Messages /\ e \in Messages /\ w.f \in Snapshots /\ w.f.id = ids + 1
          /\ ids \in Nat /\ Carries(w) /\ ~Carries(e)
      BY <1>1 DEF StoreInv, DataTyped, Messages, Snapshots, Carries
    <2>2. queue' = queue \o <<w, e>> /\ ids' = ids + 1
      BY <1>2 DEF UserExits, Shutdown
    <2> HIDE DEF w, e
    <2>3. queue' \in Seq(Messages) /\ Len(queue') = Len(queue) + 2 /\ Len(queue) \in Nat
          /\ queue'[Len(queue) + 1] = w /\ queue'[Len(queue) + 2] = e
          /\ \A i \in 1..Len(queue) : queue'[i] = queue[i]
      BY <2>1, <2>2
    <2>4. StoredId \in Nat /\ StoredId' = StoredId /\ StoredId <= ids
      BY <1>1 DEF StoreInv, DataTyped, InOrder, FileKept, StoredId, Usable, Snapshots
    <2>5. \A f : Between(f, StoredId, ids) => Between(f, StoredId, ids') /\ f.id \in Nat /\ f.id <= ids
      BY <2>1, <2>2, <2>4 DEF Between, Snapshots
    <2>6. \A i \in 1..Len(queue') : Carries(queue'[i]) =>
             \/ i \in 1..Len(queue) /\ queue'[i] = queue[i] /\ Carries(queue[i]) /\ Between(queue[i].f, StoredId, ids)
             \/ i = Len(queue) + 1 /\ queue'[i] = w
      BY <2>1, <2>3 DEF StoreInv, InOrder, OnItsWay
    <2>7. DataTyped'
      BY <1>1, <2>1, <2>2, <2>3 DEF StoreInv, DataTyped, FileKept
    <2>8. /\ StoredId' <= ids'
          /\ Busy' => Between(saving', StoredId', ids') /\ tmp' # None /\ tmp'.s = saving'
          /\ pending' # None => Between(pending', StoredId', ids') /\ saving' = None
      BY <1>1, <2>1, <2>2, <2>4, <2>5 DEF StoreInv, InOrder, FileKept, Busy, OnItsWay
    <2>9. ASSUME NEW i \in 1..Len(queue'), Carries(queue'[i])
          PROVE  /\ Between(queue'[i].f, StoredId, ids')
                 /\ Busy => saving.id < queue'[i].f.id
                 /\ pending # None => pending.id < queue'[i].f.id
      <3>1. CASE i \in 1..Len(queue) /\ queue'[i] = queue[i]
        BY <2>5, <2>9, <3>1 DEF StoreInv, InOrder, OnItsWay
      <3>2. CASE queue'[i] = w
        BY <2>1, <2>2, <2>4, <2>5, <3>2 DEF StoreInv, InOrder, OnItsWay, Between
      <3> QED BY <2>6, <2>9, <3>1, <3>2
    <2>10. ASSUME NEW i \in 1..Len(queue'), NEW j \in 1..Len(queue'), i < j, Carries(queue'[i]), Carries(queue'[j])
           PROVE  queue'[i].f.id < queue'[j].f.id
      <3>1. i \in 1..Len(queue) /\ queue'[i] = queue[i] /\ Between(queue[i].f, StoredId, ids)
        BY <2>3, <2>6, <2>10
      <3>2. CASE j \in 1..Len(queue) /\ queue'[j] = queue[j]
        BY <2>10, <3>1, <3>2 DEF StoreInv, InOrder
      <3>3. CASE queue'[j] = w
        BY <2>1, <2>5, <3>1, <3>3
      <3> QED BY <2>6, <2>10, <3>2, <3>3
    <2>11. InOrder'
      BY <1>1, <2>4, <2>8, <2>9, <2>10 DEF InOrder, Carries, OnItsWay, Busy, FileKept
    <2> QED BY <1>1, <2>2, <2>7, <2>11 DEF StoreInv, RenamedIsSynced, FileKept
  <1>3. CASE (UserExits /\ ~mem.gate) \/ DropWriter
    <2>1. (Posted("flush") \/ Posted("shutdown")) /\ ids' = ids
      BY <1>3 DEF UserExits, Shutdown, DropWriter
    <2> QED BY <1>1, <2>1, PostedKeeps
  <1>4. CASE FlushTimeout
    BY <1>1, <1>4, QuietKeeps DEF FlushTimeout, writerVars
  <1> QED BY <1>2, <1>3, <1>4 DEF Exit

\* The first message leaves the channel.
LEMMA Received ==
    ASSUME StoreInv, queue # <<>>, queue' = Tail(queue)
    PROVE  /\ Head(queue) \in Messages /\ queue' \in Seq(Messages)
           /\ 1 \in 1..Len(queue) /\ queue[1] = Head(queue)
           /\ \A i \in 1..Len(queue') : i + 1 \in 1..Len(queue) /\ queue'[i] = queue[i + 1]
  BY HeadTail DEF StoreInv, DataTyped

\* A channel that lost at most its first message is as much in order.
Shortened ==
    /\ queue' \in Seq(Messages)
    /\ \E d \in {0, 1} : \A i \in 1..Len(queue') : i + d \in 1..Len(queue) /\ queue'[i] = queue[i + d]

LEMMA ShortenedOrder ==
    ASSUME StoreInv, Shortened
    PROVE  /\ \A i \in 1..Len(queue') : Carries(queue'[i]) =>
                /\ Between(queue'[i].f, StoredId, ids)
                /\ Busy => saving.id < queue'[i].f.id
                /\ pending # None => pending.id < queue'[i].f.id
           /\ \A i, j \in 1..Len(queue') : (i < j /\ Carries(queue'[i]) /\ Carries(queue'[j])) => queue'[i].f.id < queue'[j].f.id
  <1>1. PICK d \in {0, 1} : \A i \in 1..Len(queue') : i + d \in 1..Len(queue) /\ queue'[i] = queue[i + d]
    BY DEF Shortened
  <1>2. \A i, j \in 1..Len(queue') : i < j => i + d < j + d
    BY <1>1
  <1> QED BY <1>1, <1>2 DEF StoreInv, InOrder, OnItsWay

\* A save begins with what was coalesced. (save_forced)
LEMMA SaveKeeps ==
    ASSUME StoreInv, ~Busy, pending # None, NEW upto, SaveForced(pending, upto), pending' = None, Shortened, WriterKeeps
    PROVE  StoreInv'
  <1>1. pending \in Snapshots /\ Between(pending, StoredId, ids)
    BY DEF StoreInv, DataTyped, InOrder, OnItsWay
  <1>2. StoredId' = StoredId /\ ids' = ids /\ saving' = pending /\ tmp'.s = pending /\ tmp' \in Temporaries
    BY <1>1 DEF SaveForced, WriterKeeps, StoredId, Usable, Temporaries
  <1>3. DataTyped'
    BY <1>1, <1>2 DEF StoreInv, DataTyped, Shortened, WriterKeeps
  <1>4. tmp' # None
    BY <1>2, SnapshotAssumption
  <1>5. InOrder'
    BY <1>1, <1>2, <1>4, ShortenedOrder DEF StoreInv, InOrder, OnItsWay, Busy, Carries
  <1> QED BY <1>3, <1>5 DEF StoreInv, RenamedIsSynced, WriterKeeps

\* Nothing was coalesced: nothing is saved.
LEMMA NothingKeeps ==
    ASSUME StoreInv, ~Busy, pending = None, pending' = None, saving' = saving, tmp' = tmp, Shortened, WriterKeeps
    PROVE  StoreInv'
  <1>1. StoredId' = StoredId /\ ids' = ids
    BY DEF WriterKeeps, StoredId, Usable
  <1>2. DataTyped'
    BY DEF StoreInv, DataTyped, Shortened, WriterKeeps
  <1>3. InOrder'
    BY <1>1, ShortenedOrder DEF StoreInv, InOrder, OnItsWay, Busy, Carries
  <1> QED BY <1>2, <1>3 DEF StoreInv, RenamedIsSynced, WriterKeeps

\* Within the window the newest snapshot replaces the pending one. (settings_writer_loop)
LEMMA CoalesceKeeps ==
    ASSUME StoreInv, ~Busy, queue # <<>>, queue' = Tail(queue), Carries(Head(queue)), Coalesce(Head(queue)), WriterKeeps
    PROVE  StoreInv'
  <1>1. Shortened
    BY Received DEF Shortened
  <1>2. Between(Head(queue).f, StoredId, ids) /\ Head(queue).f \in Snapshots /\ pending' = Head(queue).f
    BY Received DEF StoreInv, InOrder, OnItsWay, Between, Coalesce
  <1>3. \A i \in 1..Len(queue') : Carries(queue'[i]) => pending'.id < queue'[i].f.id
    BY Received, <1>2 DEF StoreInv, InOrder
  <1>4. StoredId' = StoredId /\ ids' = ids /\ saving' = saving /\ tmp' = tmp /\ saving = None
    BY DEF WriterKeeps, StoredId, Usable, Coalesce, NothingSaved, Busy
  <1>5. DataTyped'
    BY <1>1, <1>2, <1>4 DEF StoreInv, DataTyped, Shortened, WriterKeeps
  <1>6. InOrder'
    BY <1>1, <1>2, <1>3, <1>4, ShortenedOrder DEF StoreInv, InOrder, OnItsWay, Busy, Carries
  <1> QED BY <1>5, <1>6 DEF StoreInv, RenamedIsSynced, WriterKeeps

LEMMA ReceiveKeeps == ASSUME StoreInv, WriterReceives PROVE StoreInv'
  <1>1. ~Busy /\ queue # <<>> /\ queue' = Tail(queue) /\ WriterKeeps
    BY DEF WriterReceives
  <1>2. Shortened
    BY <1>1, Received DEF Shortened
  <1>3. Head(queue).msg \in {"write", "force", "flush", "shutdown"}
    BY <1>1, Received DEF Messages
  <1>4. CASE Head(queue).msg \in {"write", "force"}
    BY <1>1, <1>4, CoalesceKeeps DEF WriterReceives, Carries
  <1>5. CASE Head(queue).msg \in {"flush", "shutdown"} /\ pending = None
    BY <1>1, <1>2, <1>5, NothingKeeps DEF WriterReceives, LastSave, Busy
  <1>6. CASE Head(queue).msg \in {"flush", "shutdown"} /\ pending # None
    <2>1. pending' = None /\ (SaveForced(pending, "reply") \/ SaveForced(pending, "end"))
      BY <1>6 DEF WriterReceives, LastSave
    <2> QED BY <1>1, <1>2, <1>6, <2>1, SaveKeeps
  <1> QED BY <1>3, <1>4, <1>5, <1>6

LEMMA WindowKeeps == ASSUME StoreInv, WindowCloses PROVE StoreInv'
  <1>1. Shortened
    BY DEF StoreInv, DataTyped, WindowCloses, Shortened
  <1> QED BY <1>1, SaveKeeps DEF WindowCloses, WriteCoalesced

\* Each step of replace_file: only the rename touches what is stored, and it
\* stores the snapshot that is being saved.
LEMMA SavesKeeps ==
    ASSUME StoreInv, WriterSaves
    PROVE  StoreInv' /\ StoredId' \in {StoredId} \cup (StoredId + 1)..ids /\ ids' = ids
  <1>1. UNCHANGED <<pending, queue, mem, ids>> /\ StoredId \in Nat /\ ids \in Nat /\ StoredId <= ids
    BY DEF StoreInv, DataTyped, InOrder, WriterSaves, StoredId, Usable, Snapshots
  <1>2. CASE Written \/ Synced
    <2>1. UNCHANGED <<saving, disk, synced>> /\ saving \in Snapshots /\ tmp \in Temporaries /\ tmp.s = saving
      BY <1>2 DEF StoreInv, DataTyped, InOrder, Written, Synced, Busy
    <2>2. tmp' \in Temporaries /\ tmp'.s = saving
      BY <1>2, <2>1 DEF Written, Synced, Temporaries
    <2>3. StoredId' = StoredId /\ tmp' # None
      BY <2>1, <2>2, SnapshotAssumption DEF StoredId, Usable
    <2> QED BY <1>1, <2>1, <2>2, <2>3 DEF StoreInv, DataTyped, RenamedIsSynced, InOrder, OnItsWay, Busy, Carries
  <1>3. CASE Renamed
    <2>1. disk' = saving /\ saving \in Snapshots /\ Between(saving, StoredId, ids) /\ saving' = None /\ tmp' = None
      BY <1>3 DEF StoreInv, DataTyped, InOrder, OnItsWay, Renamed, Busy
    <2>2. tmp.synced \in BOOLEAN /\ tmp.synced /\ synced' = tmp.synced
      BY <1>3 DEF StoreInv, DataTyped, InOrder, Renamed, Busy, Temporaries
    <2>3. synced' = TRUE
      BY <2>2
    <2>4. StoredId' = saving.id /\ StoredId' \in {StoredId} \cup (StoredId + 1)..ids
      BY <1>1, <2>1, Distinct DEF StoredId, Between, Snapshots
    <2>5. DataTyped'
      BY <1>1, <2>1 DEF StoreInv, DataTyped
    <2>6. \A k \in 1..Len(queue) : Carries(queue[k]) => Between(queue[k].f, StoredId', ids)
      BY <1>1, <1>3, <2>4 DEF StoreInv, InOrder, OnItsWay, Between, Renamed
    <2>7. InOrder'
      BY <1>1, <1>3, <2>1, <2>4, <2>6 DEF StoreInv, InOrder, OnItsWay, Busy, Carries, Renamed
    <2> QED BY <1>1, <2>3, <2>4, <2>5, <2>7 DEF StoreInv, RenamedIsSynced
  <1>4. CASE SaveFails
    BY <1>1, <1>4 DEF StoreInv, DataTyped, RenamedIsSynced, InOrder, OnItsWay, StoredId, Usable, Busy, Carries, SaveFails
  <1> QED BY <1>2, <1>3, <1>4 DEF WriterSaves

LEMMA GoesOnKeeps == ASSUME StoreInv, WriterGoesOn PROVE StoreInv'
  BY QuietKeeps DEF WriterGoesOn, FileKept, StoreInv, DataTyped

\* The process ends: what is queued and coalesced is gone, the file is not,
\* and a power loss cannot tear it, as its data was synced.
LEMMA EndKeeps ==
    ASSUME StoreInv, Gone \/ Killed \/ PowerLoss
    PROVE  StoreInv' /\ UNCHANGED <<disk, ids, bad>>
  <1>1. UNCHANGED <<disk, ids, bad>> /\ synced' = TRUE
    BY DEF StoreInv, RenamedIsSynced, Gone, Killed, PowerLoss, Restartable
  <1>2. queue' = <<>> /\ pending' = None /\ saving' = None /\ mem' = Default /\ tmp' \in {tmp, None}
    BY DEF Gone, Killed, PowerLoss, Restartable
  <1>3. DataTyped'
    BY <1>1, <1>2, DefaultTyped DEF StoreInv, DataTyped
  <1> QED BY <1>1, <1>2, <1>3 DEF StoreInv, RenamedIsSynced, InOrder, StoredId, Usable, Busy

\* Every step of the program keeps the invariant.
LEMMA StoreStep == StoreInv /\ [SettingsNext]_setVars => StoreInv'
  <1> SUFFICES ASSUME StoreInv, [SettingsNext]_setVars PROVE StoreInv'
    OBVIOUS
  <1>1. CASE Start
    BY <1>1, StartKeeps
  <1>2. CASE Ui
    BY <1>2, UiKeeps
  <1>3. CASE Exit
    BY <1>3, ExitKeeps
  <1>4. CASE Writer
    BY <1>4, ReceiveKeeps, WindowKeeps, SavesKeeps, GoesOnKeeps DEF Writer
  <1>5. CASE Gone \/ Killed \/ PowerLoss
    BY <1>5, EndKeeps
  <1>6. CASE UNCHANGED setVars
    BY <1>6, QuietKeeps DEF setVars, diskVars, writerVars, FileKept, StoreInv, DataTyped
  <1> QED BY <1>1, <1>2, <1>3, <1>4, <1>5, <1>6 DEF SettingsNext

THEOREM StoreSound == SettingsSpec => []StoreInv
  BY InitStore, StoreStep, PTL DEF SettingsSpec

-----------------------------------------------------------------------------
(* The refinement: a step approves a snapshot, stores a newer one, puts an  *)
(* unusable file aside, or is none of the register's concern.               *)

LEMMA RegisterStep ==
    ASSUME StoreInv, [SettingsNext]_setVars
    PROVE  [Register!RegisterNext]_(Register!regVars)
  <1> USE DEF Register!RegisterNext, Register!regVars
  <1>0. StoredId \in Nat /\ ids \in Nat
    BY DEF StoreInv, DataTyped, StoredId, Usable, Snapshots
  <1>1. CASE Start
    <2>1. UNCHANGED ids /\ StoredId' = StoredId
      BY <1>1, StartKeeps DEF Start
    <2>2. UNCHANGED bad \/ (bad' = Unusable /\ StoredId = 0)
      BY <1>1 DEF Start, SetAside, StoredId, Usable
    <2> QED BY <2>1, <2>2, SnapshotAssumption DEF Register!PutAside, StoredId
  <1>2. CASE Ui \/ Exit
    <2>1. ids' \in {ids, ids + 1} /\ UNCHANGED disk
      BY <1>2, UiKeeps, ExitKeeps DEF FileKept
    <2>2. UNCHANGED bad
      BY <1>2 DEF Ui, UserChanges, UserRemembers, UserResizes, UserSwitchesSave, UserResets, UserClosesDialog, Changed, Exit, UserExits, FlushTimeout, DropWriter, diskVars
    <2> QED BY <2>1, <2>2 DEF Register!Approve, Usable
  <1>3. CASE WriterReceives \/ WindowCloses \/ WriterGoesOn
    <2>1. UNCHANGED <<disk, bad, ids>>
      BY <1>3 DEF WriterReceives, WindowCloses, WriterGoesOn, WriterKeeps
    <2> QED BY <2>1 DEF Usable
  <1>4. CASE WriterSaves
    <2>1. ids' = ids /\ bad' = bad /\ StoredId' \in {StoredId} \cup (StoredId + 1)..ids
      BY <1>4, SavesKeeps DEF WriterSaves
    <2>2. StoredId' = StoredId \/ StoredId' \in (StoredId + 1)..ids
      BY <1>0, <2>1
    <2> QED BY <2>1, <2>2 DEF Register!Store, StoredId
  <1>5. CASE Gone \/ Killed \/ PowerLoss
    <2>1. UNCHANGED <<disk, bad, ids>>
      BY <1>5, EndKeeps
    <2> QED BY <2>1 DEF Usable
  <1>6. CASE UNCHANGED setVars
    BY <1>6 DEF setVars, diskVars, Usable
  <1> QED BY <1>1, <1>2, <1>3, <1>4, <1>5, <1>6 DEF SettingsNext, Writer

\* config.ini implements the register: what it holds is a snapshot the user
\* approved, it never goes back to an older one, and it is given up only by
\* being put aside: for any number of changes, lives, kills and power losses.
THEOREM StoreIsRegister == SettingsSpec => StoreImplementsRegister
  <1>1. SettingsInit => Register!RegisterInit
    BY InitStore DEF SettingsInit, Register!RegisterInit, StoreInv, StoredId, Usable
  <1> QED BY <1>1, StoreSound, RegisterStep, PTL DEF SettingsSpec, StoreImplementsRegister, Register!RegisterSpec

\* A power loss does not tear the file, nor does anything else. (replace_file)
THEOREM FileSurvives == SettingsSpec => NeverTorn
  <1>1. ASSUME StoreInv, [SettingsNext]_setVars PROVE [disk' = Unusable => disk = Unusable]_setVars
    <2>1. CASE Start
      BY <2>1, SnapshotAssumption DEF Start, SetAside
    <2>2. CASE WriterSaves
      <3>1. CASE Renamed
        BY <1>1, <3>1, Distinct DEF StoreInv, DataTyped, InOrder, Busy, Renamed
      <3> QED BY <2>2, <3>1 DEF WriterSaves, Written, Synced, SaveFails
    <2>3. CASE Ui \/ Exit
      BY <1>1, <2>3, UiKeeps, ExitKeeps DEF FileKept
    <2>4. CASE Gone \/ Killed \/ PowerLoss
      BY <1>1, <2>4, EndKeeps
    <2> QED BY <1>1, <2>1, <2>2, <2>3, <2>4 DEF SettingsNext, Writer, WriterReceives, WindowCloses, WriterGoesOn, WriterKeeps
  <1> QED BY <1>1, StoreSound, PTL DEF SettingsSpec, NeverTorn

\* Nothing the user interface offers is refused or changed when it is read
\* back. (from_ini_text, the ranges of the controls)
THEOREM SavedIsShown == SettingsSpec => RestartShowsSaved
  <1>1. ASSUME StoreInv, [SettingsNext]_setVars
        PROVE  [life = "off" /\ life' = "up" /\ Usable(disk) =>
                  mem' = [disk.s EXCEPT !.size = IF disk.s.rem THEN @ ELSE Default.size]]_setVars
    <2> SUFFICES ASSUME life = "off", life' = "up", Usable(disk)
                 PROVE  mem' = [disk.s EXCEPT !.size = IF disk.s.rem THEN @ ELSE Default.size]
      OBVIOUS
    <2>1. Start
      BY <1>1 DEF SettingsNext, setVars, Ui, UserChanges, UserRemembers, UserResizes, UserSwitchesSave, UserResets, UserClosesDialog, Changed,
           Exit, UserExits, FlushTimeout, DropWriter, Writer, WriterReceives, WindowCloses, WriterSaves, WriterGoesOn,
           Gone, Killed, PowerLoss, Restartable
    <2>2. disk.s \in AllSettings /\ mem' = FromIni(disk.s)
      BY <1>1, <2>1 DEF StoreInv, DataTyped, Usable, Start, Snapshots
    <2>3. ReadValues(disk.s.val) = disk.s.val
      BY <2>2, ReadBack DEF AllSettings
    <2> QED BY <2>2, <2>3 DEF FromIni, AllSettings
  <1> QED BY <1>1, StoreSound, PTL DEF SettingsSpec, RestartShowsSaved

-----------------------------------------------------------------------------
(* The clean exit.                                                          *)

\* A snapshot that is stored, being saved, coalesced or queued, and the newest.
Held(f) ==
    /\ f \in Snapshots
    /\ f \in {disk, saving, pending} \/ \E i \in 1..Len(queue) : Carries(queue[i]) /\ queue[i].f = f
Newest(f) == Held(f) /\ \A g : Held(g) => g.id <= f.id

\* The shutdown message is the last of the channel, and once the writer has
\* taken it nothing is left to save but what it is saving. (SettingsWriter::drop)
Leaving == life \in {"flushing", "dropping", "joining", "gone"}
Ending == then \in {"end", "ended"}
Orderly ==
    /\ \A i \in 1..Len(queue) : queue[i].msg = "shutdown" => i = Len(queue) /\ life = "joining" /\ ~Ending
    /\ Ending => queue = <<>> /\ pending = None /\ life \in {"joining", "gone"}
    /\ life = "off" => queue = <<>> /\ pending = None /\ saving = None /\ then = "loop"
    /\ life = "gone" => then = "ended" /\ ~Busy

\* Unless something failed, the newest snapshot has the autosave switch as it is,
SwitchHeld == ~lost /\ life # "off" => IF \E f : Held(f) THEN \A f : Newest(f) => f.s.gate = mem.gate ELSE mem.gate
\* and after the last save of an exit, everything as it is.
ExitHeld == ~lost /\ Leaving /\ mem.gate => \E f : Newest(f) /\ f.s = mem

ExitInv == Orderly /\ SwitchHeld /\ ExitHeld

LEMMA HeldOld == ASSUME StoreInv PROVE \A f : Held(f) => f.id \in Nat /\ f.id <= ids
  <1> SUFFICES ASSUME NEW f, Held(f) PROVE f.id \in Nat /\ f.id <= ids
    OBVIOUS
  <1>1. f \in Snapshots /\ f.id \in Nat /\ f # None
    BY Distinct DEF Held, Snapshots
  <1>2. CASE f = disk
    BY <1>1, <1>2, Distinct DEF StoreInv, InOrder, StoredId
  <1>3. CASE f \in {saving, pending}
    BY <1>1, <1>3 DEF StoreInv, InOrder, OnItsWay, Between, Busy, DataTyped
  <1>4. CASE \E i \in 1..Len(queue) : Carries(queue[i]) /\ queue[i].f = f
    BY <1>1, <1>4 DEF StoreInv, InOrder, OnItsWay, Between
  <1> QED BY <1>1, <1>2, <1>3, <1>4 DEF Held

\* A snapshot that leaves for a newer one is not missed.
LEMMA NewestStays ==
    ASSUME StoreInv, \A f : Held(f)' => Held(f), \A g : Held(g) => Held(g)' \/ \E h : Held(h)' /\ g.id < h.id
    PROVE  (\A f : Newest(f)' <=> Newest(f)) /\ ((\E f : Held(f)') <=> \E f : Held(f))
  <1>1. \A f : Held(f) => f.id \in Nat
    BY HeldOld
  <1>2. ASSUME NEW f, Newest(f)' PROVE Newest(f)
    BY <1>1, <1>2 DEF Newest
  <1>3. ASSUME NEW f, Newest(f) PROVE Newest(f)'
    BY <1>1, <1>3 DEF Newest
  <1> QED BY <1>2, <1>3

\* One that is approved is newer than any other.
LEMMA NewestApproved ==
    ASSUME StoreInv, NEW n \in Snapshots, n.id = ids + 1, \A f : Held(f)' <=> (Held(f) \/ f = n)
    PROVE  (\A f : Newest(f)' <=> f = n) /\ \E f : Held(f)'
  <1>1. ids \in Nat /\ \A f : Held(f) => f.id \in Nat /\ f.id <= ids
    BY HeldOld DEF StoreInv, DataTyped
  <1>2. ASSUME NEW f, Newest(f)' PROVE f = n
    BY <1>1, <1>2 DEF Newest
  <1>3. Newest(n)'
    BY <1>1 DEF Newest
  <1> QED BY <1>2, <1>3

LEMMA InitExit == SettingsInit => ExitInv
  BY DEF SettingsInit, ExitInv, Orderly, SwitchHeld, ExitHeld, Leaving, Ending, Busy

\* After loading there is nothing but the file and what was read from it.
LEMMA StartExit == ASSUME StoreInv, ExitInv, Start PROVE ExitInv'
  <1>1. Orderly' /\ ~Leaving' /\ queue' = <<>> /\ saving' = None /\ pending' = None
    BY DEF Start, writerVars, ExitInv, Orderly, Ending, Leaving, Busy
  <1>2. \A f : Held(f)' <=> f \in Snapshots /\ f = disk'
    BY <1>1, SnapshotAssumption DEF Held
  <1>3. SwitchHeld'
    <2> SUFFICES ASSUME ~lost' PROVE IF Usable(disk') THEN disk'.s.gate = mem'.gate ELSE mem'.gate
      BY <1>2, Distinct, StartKeeps DEF SwitchHeld, Newest, StoreInv, DataTyped, Usable
    <2> QED BY SnapshotAssumption DEF Start, SetAside, Usable, FromIni, Default
  <1> QED BY <1>1, <1>3 DEF ExitInv, ExitHeld

\* A snapshot is approved with the switch as it is, and at the exit as a whole.
LEMMA ApproveExit ==
    ASSUME StoreInv, ExitInv, Orderly', NEW n \in Snapshots, n.id = ids + 1, \A f : Held(f)' <=> (Held(f) \/ f = n),
           n.s.gate = mem'.gate, Leaving' => n.s = mem'
    PROVE  ExitInv'
  BY NewestApproved DEF ExitInv, SwitchHeld, ExitHeld

\* The user interface: a step that approves nothing leaves the switch alone.
LEMMA UiExit == ASSUME StoreInv, ExitInv, Ui PROVE ExitInv'
  <1> USE DEF Ui, UserChanges, UserRemembers, UserResizes, UserSwitchesSave, UserResets, UserClosesDialog, Changed
  <1>1. FileKept /\ life' = "up" /\ life = "up" /\ UNCHANGED <<then, lost>> /\ mem \in AllSettings
    BY UiKeeps DEF StoreInv, DataTyped
  <1>2. mem' \in AllSettings
    BY <1>1, DefaultTyped DEF AllSettings, Shown
  <1>3. \/ Approved(mem', "write") \/ Approved(mem', "force")
        \/ UNCHANGED <<queue, ids>> /\ mem'.gate = mem.gate
    BY <1>1, DefaultTyped DEF SaveSettings, AllSettings
  <1>4. CASE Approved(mem', "write") \/ Approved(mem', "force")
    <2> DEFINE n == [id |-> ids + 1, s |-> mem']
    <2>1. PICK m : queue' = Append(queue, m) /\ m.f = n /\ Carries(m) /\ m \in Messages /\ m.msg # "shutdown"
      BY <1>2, <1>4 DEF Approved, Carries, StoreInv, DataTyped, Messages, Snapshots
    <2>2. n \in Snapshots /\ n.id = ids + 1 /\ n.s = mem'
      BY <1>2 DEF StoreInv, DataTyped, Snapshots
    <2> HIDE DEF n
    <2>3. /\ Len(queue') = Len(queue) + 1 /\ Len(queue) \in Nat /\ queue'[Len(queue) + 1] = m
          /\ \A i \in 1..Len(queue) : queue'[i] = queue[i]
      BY <2>1, AtTheEnd DEF StoreInv, DataTyped
    <2>4. \A i \in 1..Len(queue') : queue'[i] = m \/ (i \in 1..Len(queue) /\ queue'[i] = queue[i])
      BY <2>3
    <2>5. \A f : Held(f)' <=> (Held(f) \/ f = n)
      BY <1>1, <2>1, <2>2, <2>3, <2>4 DEF Held, FileKept, Carries
    <2>6. Orderly'
      BY <1>1, <2>1, <2>4 DEF ExitInv, Orderly, FileKept, Ending
    <2> QED BY <1>1, <2>2, <2>5, <2>6, ApproveExit DEF Leaving
  <1>5. CASE UNCHANGED <<queue, ids>> /\ mem'.gate = mem.gate
    <2>1. \A f : Held(f)' <=> Held(f)
      BY <1>1, <1>5 DEF Held, FileKept, Carries
    <2> QED BY <1>1, <1>5, <2>1, NewestStays DEF ExitInv, SwitchHeld, ExitHeld, Orderly, FileKept, Ending, Leaving, Busy
  <1> QED BY <1>3, <1>4, <1>5

\* The exit: the last snapshot holds everything as it is.
LEMMA ExitExit == ASSUME StoreInv, ExitInv, Exit PROVE ExitInv'
  <1>1. /\ FileKept /\ mem' = mem /\ mem \in AllSettings /\ UNCHANGED <<then, lost>> /\ ~Ending
        /\ life \in {"up", "flushing", "dropping"} /\ queue \in Seq(Messages)
    BY DEF Exit, UserExits, FlushTimeout, DropWriter, FileKept, diskVars, writerVars, StoreInv, DataTyped, ExitInv, Orderly
  <1>2. CASE UserExits /\ mem.gate
    <2> DEFINE n == [id |-> ids + 1, s |-> mem]
               w == [msg |-> "write", f |-> n]
               e == [msg |-> "flush", f |-> None]
    <2>1. queue' = queue \o <<w, e>> /\ Carries(w) /\ ~Carries(e) /\ w.f = n /\ w.msg # "shutdown" /\ e.msg # "shutdown"
      BY <1>2 DEF UserExits, Shutdown, Carries
    <2>2. n \in Snapshots /\ n.id = ids + 1 /\ n.s = mem'
      BY <1>1 DEF StoreInv, DataTyped, Snapshots
    <2> HIDE DEF n, w, e
    <2>3. /\ Len(queue') = Len(queue) + 2 /\ Len(queue) \in Nat /\ queue'[Len(queue) + 1] = w /\ queue'[Len(queue) + 2] = e
          /\ \A i \in 1..Len(queue) : queue'[i] = queue[i]
      BY <1>1, <2>1
    <2>4. \A i \in 1..Len(queue') : queue'[i] \in {w, e} \/ (i \in 1..Len(queue) /\ queue'[i] = queue[i])
      BY <2>3
    <2>5. \A f : Held(f)' <=> (Held(f) \/ f = n)
      BY <1>1, <2>1, <2>2, <2>3, <2>4 DEF Held, FileKept, Carries
    <2>6. Orderly'
      BY <1>1, <1>2, <2>1, <2>4 DEF ExitInv, Orderly, FileKept, Ending, UserExits
    <2> QED BY <1>1, <2>2, <2>5, <2>6, ApproveExit
  <1>3. CASE (UserExits /\ ~mem.gate) \/ DropWriter
    <2>1. PICK m : queue' = Append(queue, m) /\ m \in Messages /\ ~Carries(m) /\ (m.msg = "shutdown" => life' = "joining")
      BY <1>3 DEF UserExits, Shutdown, DropWriter, Posted, Messages, Carries
    <2>2. /\ Len(queue') = Len(queue) + 1 /\ Len(queue) \in Nat /\ queue'[Len(queue) + 1] = m
          /\ \A i \in 1..Len(queue) : queue'[i] = queue[i]
      BY <1>1, <2>1, AtTheEnd
    <2>3. \A i \in 1..Len(queue') : (queue'[i] = m /\ i = Len(queue')) \/ (i \in 1..Len(queue) /\ queue'[i] = queue[i])
      BY <2>2
    <2>4. \A f : Held(f)' <=> Held(f)
      BY <1>1, <2>1, <2>2, <2>3 DEF Held, FileKept
    <2>5. Orderly'
      BY <1>1, <1>3, <2>1, <2>3 DEF ExitInv, Orderly, FileKept, Ending, UserExits, DropWriter
    <2>6. Leaving' /\ (Leaving \/ ~mem.gate)
      BY <1>3 DEF UserExits, DropWriter, Leaving
    <2> QED BY <1>1, <1>3, <2>4, <2>5, <2>6, NewestStays DEF ExitInv, SwitchHeld, ExitHeld
  <1>4. CASE FlushTimeout
    <2>1. \A f : Held(f)' <=> Held(f)
      BY <1>4 DEF Held, FlushTimeout, diskVars, writerVars
    <2>2. Orderly' /\ Leaving
      BY <1>4 DEF ExitInv, Orderly, FlushTimeout, writerVars, Ending, Busy, Leaving
    <2> QED BY <1>1, <1>4, <2>1, <2>2, NewestStays DEF ExitInv, SwitchHeld, ExitHeld
  <1> QED BY <1>2, <1>3, <1>4 DEF Exit

\* The writer takes a message: a coalesced snapshot gives way to a newer one.
LEMMA ReceiveExit == ASSUME StoreInv, ExitInv, WriterReceives PROVE ExitInv'
  <1>1. /\ ~Busy /\ queue # <<>> /\ queue' = Tail(queue) /\ then = "loop" /\ life \notin {"off", "gone"}
        /\ UNCHANGED <<disk, mem, ids, lost, life>>
    BY DEF WriterReceives, WriterKeeps
  <1>2. /\ Head(queue) \in Messages /\ 1 \in 1..Len(queue) /\ queue[1] = Head(queue)
        /\ \A i \in 1..Len(queue') : i + 1 \in 1..Len(queue) /\ queue'[i] = queue[i + 1]
        /\ \A i \in 1..Len(queue) : i = 1 \/ (i - 1 \in 1..Len(queue') /\ queue[i] = queue'[i - 1])
        /\ Len(queue') = Len(queue) - 1 /\ Len(queue) \in Nat /\ (Len(queue') = 0 => queue' = <<>>)
    BY <1>1, HeadTail DEF StoreInv, DataTyped
  <1>3. CASE Carries(Head(queue))
    <2> PICK n : n = Head(queue).f
      OBVIOUS
    <2>1. pending' = n /\ saving' = saving /\ UNCHANGED then /\ saving = None
      BY <1>1, <1>3 DEF WriterReceives, Coalesce, NothingSaved, Carries, Busy
    <2>2. Orderly'
      <3>1. ~Ending' /\ ~Ending /\ life' \notin {"off", "gone"}
        BY <1>1, <2>1 DEF Ending
      <3>2. ASSUME NEW i \in 1..Len(queue'), queue'[i].msg = "shutdown" PROVE i = Len(queue') /\ life' = "joining"
        <4>1. i + 1 \in 1..Len(queue) /\ queue[i + 1].msg = "shutdown"
          BY <1>2, <3>2
        <4>2. i + 1 = Len(queue) /\ life = "joining"
          BY <4>1 DEF ExitInv, Orderly
        <4>3. i = Len(queue')
          BY <1>2, <4>2
        <4> QED BY <1>1, <4>2, <4>3
      <3> QED BY <3>1, <3>2 DEF Orderly, Ending
    <2>3. \A f : Held(f)' => Held(f)
      BY <1>1, <1>2, <1>3, <2>1 DEF Held, Carries
    <2>4. Held(n)' /\ (pending # None => pending.id < n.id)
      BY <1>1, <1>2, <1>3, <2>1 DEF StoreInv, InOrder, OnItsWay, Between, Held, Carries
    <2>5. ASSUME NEW g, Held(g) PROVE Held(g)' \/ \E h : Held(h)' /\ g.id < h.id
      <3>1. CASE g = pending
        BY <2>4, <2>5, <3>1, Distinct DEF Held
      <3>2. CASE g \in {disk, saving}
        BY <1>1, <2>1, <2>5, <3>2 DEF Held
      <3>3. CASE \E i \in 1..Len(queue) : Carries(queue[i]) /\ queue[i].f = g
        BY <1>2, <2>1, <2>5, <3>3 DEF Held, Carries
      <3> QED BY <2>5, <3>1, <3>2, <3>3 DEF Held
    <2> QED BY <1>1, <2>2, <2>3, <2>5, NewestStays DEF ExitInv, SwitchHeld, ExitHeld, Leaving
  <1>4. CASE ~Carries(Head(queue))
    <2>1. pending' = None /\ saving' = pending /\ then' \in {"loop", "reply", "end"} \cup {then}
      BY <1>1, <1>2, <1>4 DEF WriterReceives, SaveForced, LastSave, Carries, Messages, Busy
    <2>2. Orderly'
      <3>1. CASE Head(queue).msg = "flush"
        <4>1. ~Ending' /\ ~Ending
          BY <1>1, <3>1 DEF WriterReceives, SaveForced, Ending
        <4>2. ASSUME NEW i \in 1..Len(queue'), queue'[i].msg = "shutdown" PROVE i = Len(queue') /\ life' = "joining"
          <5>1. i + 1 \in 1..Len(queue) /\ queue[i + 1].msg = "shutdown"
            BY <1>2, <4>2
          <5>2. i + 1 = Len(queue) /\ life = "joining"
            BY <5>1 DEF ExitInv, Orderly
          <5>3. i = Len(queue')
            BY <1>2, <5>2
          <5> QED BY <1>1, <5>2, <5>3
        <4> QED BY <1>1, <4>1, <4>2 DEF Orderly, Ending
      <3>2. CASE Head(queue).msg = "shutdown"
        <4>1. 1 = Len(queue) /\ life = "joining" /\ queue' = <<>>
          BY <1>2, <3>2 DEF ExitInv, Orderly
        <4> QED BY <1>1, <2>1, <4>1 DEF Orderly, Ending
      <3> QED BY <1>2, <1>4, <3>1, <3>2 DEF Messages, Carries
    <2>3. \A f : Held(f)' <=> Held(f)
      BY <1>1, <1>2, <1>4, <2>1, Distinct DEF Held, Busy, Carries
    <2> QED BY <1>1, <2>2, <2>3, NewestStays DEF ExitInv, SwitchHeld, ExitHeld, Leaving
  <1> QED BY <1>3, <1>4

LEMMA WindowExit == ASSUME StoreInv, ExitInv, WindowCloses PROVE ExitInv'
  <1>1. /\ UNCHANGED <<disk, mem, ids, lost, life, queue>> /\ saving' = pending /\ pending' = None /\ saving = None
        /\ then = "loop" /\ then' = "loop"
    BY DEF WindowCloses, WriteCoalesced, SaveForced, WriterKeeps, Busy
  <1>2. \A f : Held(f)' <=> Held(f)
    BY <1>1, Distinct DEF Held, Carries
  <1>3. Orderly'
    BY <1>1 DEF ExitInv, Orderly, Ending, Busy
  <1> QED BY <1>1, <1>2, <1>3, NewestStays DEF ExitInv, SwitchHeld, ExitHeld, Leaving

\* The rename replaces the stored snapshot by a newer one; a save that fails is told of.
LEMMA SavesExit == ASSUME StoreInv, ExitInv, WriterSaves PROVE ExitInv'
  <1>1. UNCHANGED <<pending, queue, mem, ids, life, then>> /\ life # "off" /\ Busy /\ life # "gone"
    BY DEF WriterSaves, Written, Synced, Renamed, SaveFails, ExitInv, Orderly
  <1>2. Orderly'
    BY <1>1 DEF ExitInv, Orderly, Ending
  <1>3. CASE Written \/ Synced
    <2>1. UNCHANGED <<saving, disk, lost>>
      BY <1>3 DEF Written, Synced
    <2>2. \A f : Held(f)' <=> Held(f)
      BY <1>1, <2>1 DEF Held, Carries
    <2> QED BY <1>1, <1>2, <2>1, <2>2, NewestStays DEF ExitInv, SwitchHeld, ExitHeld, Leaving
  <1>4. CASE Renamed
    <2> PICK n : n = saving
      OBVIOUS
    <2>1. disk' = n /\ saving' = None /\ lost' = lost /\ Between(n, StoredId, ids) /\ n = saving
      BY <1>1, <1>4 DEF StoreInv, InOrder, OnItsWay, Renamed
    <2>2. \A f : Held(f)' => Held(f)
      BY <1>1, <2>1, Distinct DEF Held, Carries
    <2>3. \A g : Held(g) => Held(g)' \/ (Held(n)' /\ g.id < n.id)
      BY <1>1, <2>1, Distinct DEF Held, Carries, Between, StoredId
    <2> QED BY <1>1, <1>2, <2>1, <2>2, <2>3, NewestStays DEF ExitInv, SwitchHeld, ExitHeld, Leaving
  <1>5. CASE SaveFails
    BY <1>1, <1>2, <1>5 DEF SaveFails, ExitInv, SwitchHeld, ExitHeld
  <1> QED BY <1>2, <1>3, <1>4, <1>5 DEF WriterSaves

LEMMA GoesOnExit == ASSUME StoreInv, ExitInv, WriterGoesOn PROVE ExitInv'
  <1>1. /\ UNCHANGED <<disk, queue, pending, saving, mem, lost>> /\ ~Busy /\ then \in {"reply", "end"}
        /\ then' = (IF then = "reply" THEN "loop" ELSE "ended")
        /\ life' = (IF then = "end" THEN "gone" ELSE IF life = "flushing" THEN "dropping" ELSE life)
    BY DEF WriterGoesOn
  <1>4. life # "off" /\ life' # "off" /\ (Leaving' <=> Leaving) /\ (then = "end" => life \in {"joining", "gone"})
    BY <1>1 DEF ExitInv, Orderly, Ending, Leaving
  <1>2. \A f : Held(f)' <=> Held(f)
    BY <1>1 DEF Held, Carries
  <1>3. Orderly'
    BY <1>1, <1>4 DEF ExitInv, Orderly, Ending, Busy
  <1> QED BY <1>1, <1>2, <1>3, <1>4, NewestStays DEF ExitInv, SwitchHeld, ExitHeld

LEMMA EndExit == ASSUME StoreInv, ExitInv, Gone \/ Killed \/ PowerLoss PROVE ExitInv'
  BY DEF Gone, Killed, PowerLoss, Restartable, ExitInv, Orderly, SwitchHeld, ExitHeld, Leaving, Ending, Busy

LEMMA QuietExit == ASSUME ExitInv, UNCHANGED setVars PROVE ExitInv'
  BY DEF setVars, diskVars, writerVars, ExitInv, Orderly, SwitchHeld, ExitHeld, Leaving, Ending, Busy, Newest, Held, Carries

THEOREM ExitSound == SettingsSpec => []ExitInv
  <1>1. StoreInv /\ ExitInv /\ [SettingsNext]_setVars => ExitInv'
    BY StartExit, UiExit, ExitExit, ReceiveExit, WindowExit, SavesExit, GoesOnExit, EndExit, QuietExit DEF SettingsNext, Writer
  <1> QED BY <1>1, InitExit, StoreSound, PTL DEF SettingsSpec

\* When the process is gone, the only snapshot there is is the stored one.
LEMMA OnlyStored ==
    ASSUME StoreInv, ExitInv, life = "gone"
    PROVE  \A f : Held(f) <=> Usable(disk) /\ f = disk
  <1>1. queue = <<>> /\ pending = None /\ saving = None
    BY DEF ExitInv, Orderly, Ending, Busy
  <1> QED BY <1>1, Distinct, SnapshotAssumption DEF Held, StoreInv, DataTyped, Usable

\* After a clean exit with the switch on, where no write failed, the file holds
\* the settings as they were, also the size of the window that no save of its own
\* recorded. (TaskManApp::shutdown, SettingsWriter::drop)
THEOREM ExitSaves == SettingsSpec => []CleanExitSaves
  <1>1. StoreInv /\ ExitInv => CleanExitSaves
    BY OnlyStored DEF CleanExitSaves, ExitInv, ExitHeld, Newest, Leaving
  <1> QED BY <1>1, StoreSound, ExitSound, PTL

\* The autosave switch itself survives a clean exit whichever way it was turned.
\* (save_settings_forced)
THEOREM SwitchSaved == SettingsSpec => []SwitchSurvives
  <1>1. ASSUME StoreInv, ExitInv, life = "gone", ~lost
        PROVE  IF Usable(disk) THEN disk.s.gate = mem.gate ELSE mem.gate
    <2>1. \A f : Held(f) <=> Usable(disk) /\ f = disk
      BY <1>1, OnlyStored
    <2>2. Usable(disk) => Newest(disk)
      BY <1>1, <2>1, HeldOld DEF Newest
    <2> QED BY <1>1, <2>1, <2>2 DEF ExitInv, SwitchHeld
  <1>2. StoreInv /\ ExitInv => SwitchSurvives
    BY <1>1 DEF SwitchSurvives
  <1> QED BY <1>2, StoreSound, ExitSound, PTL

-----------------------------------------------------------------------------
(* The unusable file, and the types of the rest.                            *)

LEMMA AsideStep ==
    ASSUME StoreInv, ExitInv, AsideOrTold, [SettingsNext]_setVars
    PROVE  AsideOrTold' /\ [disk = Unusable /\ disk' # disk => bad' = Unusable \/ lost]_setVars
  <1>1. CASE Start
    BY <1>1, SnapshotAssumption DEF AsideOrTold, Start, SetAside
  <1>2. CASE WriterSaves
    <2>1. life' = life /\ life # "off" /\ (lost' = lost \/ lost' = TRUE)
      BY <1>2 DEF WriterSaves, Written, Synced, Renamed, SaveFails
    <2>2. disk' = disk \/ disk' \in Snapshots
      BY <1>2 DEF WriterSaves, Written, Synced, Renamed, SaveFails, StoreInv, DataTyped, InOrder, Busy
    <2> QED BY <2>1, <2>2, SnapshotAssumption DEF AsideOrTold
  <1>3. CASE Ui \/ Exit
    <2>1. disk' = disk /\ lost' = lost /\ life # "off"
      BY <1>3, UiKeeps, ExitKeeps DEF FileKept, Ui, UserChanges, UserRemembers, UserResizes, UserSwitchesSave, UserResets,
           UserClosesDialog, Changed, Exit, UserExits, FlushTimeout, DropWriter
    <2> QED BY <2>1 DEF AsideOrTold
  <1>4. CASE Gone \/ Killed \/ PowerLoss
    BY <1>4, EndKeeps DEF AsideOrTold, Gone, Killed, PowerLoss, Restartable
  <1>5. CASE WriterReceives \/ WindowCloses \/ WriterGoesOn
    <2>1. disk' = disk /\ lost' = lost /\ (life' = "off" <=> life = "off")
      BY <1>5 DEF WriterReceives, WindowCloses, WriterGoesOn, WriterKeeps, ExitInv, Orderly
    <2> QED BY <2>1 DEF AsideOrTold
  <1>6. CASE UNCHANGED setVars
    BY <1>6 DEF setVars, diskVars, AsideOrTold
  <1> QED BY <1>1, <1>2, <1>3, <1>4, <1>5, <1>6 DEF SettingsNext, Writer

\* A file that could not be read is not overwritten before it is kept aside,
\* unless keeping it failed. (load_from, set_aside)
THEOREM UnusableAside == SettingsSpec => UnusableKept
  <1>1. SettingsInit => AsideOrTold
    BY DEF SettingsInit, AsideOrTold
  <1>2. AsideOrTold /\ StoreInv /\ ExitInv /\ [SettingsNext]_setVars => AsideOrTold'
    BY AsideStep
  <1>3. AsideOrTold /\ StoreInv /\ ExitInv /\ [SettingsNext]_setVars => [disk = Unusable /\ disk' # disk => bad' = Unusable \/ lost]_setVars
    BY AsideStep
  <1> QED BY <1>1, <1>2, <1>3, StoreSound, ExitSound, PTL DEF SettingsSpec, UnusableKept

Phases ==
    /\ life \in {"off", "up", "flushing", "dropping", "joining", "gone"} /\ lives \in 0..MaxLives
    /\ changes \in 0..MaxChanges /\ then \in {"loop", "reply", "end", "ended"} /\ bad \in {Absent, Unusable}
    /\ tmp # None => (tmp.s.id <= ids /\ (tmp.synced => tmp.whole))

LEMMA PhasesStep == StoreInv /\ Phases /\ [SettingsNext]_setVars => Phases'
  <1> SUFFICES ASSUME StoreInv, Phases, [SettingsNext]_setVars PROVE Phases'
    OBVIOUS
  <1> USE SettingsAssumption
  <1>0. ids \in Nat /\ (tmp # None => tmp.s.id \in Nat)
    BY DEF StoreInv, DataTyped, Temporaries, Snapshots
  <1>1. CASE Start
    BY <1>1 DEF Phases, Start, SetAside, writerVars
  <1>2. CASE Ui
    <2>1. tmp' = tmp /\ ids' \in {ids, ids + 1}
      BY <1>2, UiKeeps DEF FileKept
    <2>2. tmp' # None => tmp'.s.id <= ids'
      BY <1>0, <2>1 DEF Phases
    <2> QED BY <1>2, <2>1, <2>2 DEF Phases, Ui, UserChanges, UserRemembers, UserResizes, UserSwitchesSave, UserResets, UserClosesDialog, Changed, diskVars
  <1>3. CASE Exit
    <2>1. tmp' = tmp /\ ids' \in {ids, ids + 1}
      BY <1>3, ExitKeeps DEF FileKept
    <2>2. tmp' # None => tmp'.s.id <= ids'
      BY <1>0, <2>1 DEF Phases
    <2> QED BY <1>3, <2>1, <2>2 DEF Phases, Exit, UserExits, FlushTimeout, DropWriter, diskVars, writerVars
  <1>4. CASE WriterReceives \/ WindowCloses
    <2>1. /\ UNCHANGED <<bad, lives, changes, life, ids>> /\ then' \in {then, "loop", "reply", "end"}
          /\ tmp' = tmp \/ (pending # None /\ tmp' = [s |-> pending, whole |-> FALSE, synced |-> FALSE])
      <3>1. WriterReceives => Head(queue).msg \in {"write", "force", "flush", "shutdown"}
        BY HeadTail DEF WriterReceives, StoreInv, DataTyped, Messages
      <3> QED BY <1>4, <3>1 DEF WriterReceives, WindowCloses, WriterKeeps, WriteCoalesced, SaveForced, Coalesce, NothingSaved, LastSave
    <2>2. pending # None => pending.id <= ids
      BY DEF StoreInv, InOrder, OnItsWay, Between
    <2> QED BY <2>1, <2>2 DEF Phases
  <1>5. CASE WriterSaves
    <2>1. UNCHANGED <<bad, lives, changes, life, ids, then>>
      BY <1>5 DEF WriterSaves
    <2>2. tmp' \in {tmp, None} \/ (Busy /\ tmp \in Temporaries /\ tmp'.s = tmp.s /\ (tmp'.synced => tmp'.whole))
      BY <1>5 DEF WriterSaves, Written, Synced, Renamed, SaveFails, StoreInv, DataTyped, InOrder, Phases, Temporaries
    <2> QED BY <2>1, <2>2, SnapshotAssumption DEF Phases
  <1>6. CASE WriterGoesOn
    BY <1>6 DEF Phases, WriterGoesOn
  <1>7. CASE Gone \/ Killed \/ PowerLoss
    BY <1>7 DEF Phases, Gone, Killed, PowerLoss, Restartable
  <1>8. CASE UNCHANGED setVars
    BY <1>8 DEF setVars, diskVars, writerVars, Phases
  <1> QED BY <1>1, <1>2, <1>3, <1>4, <1>5, <1>6, <1>7, <1>8 DEF SettingsNext, Writer

THEOREM SettingsTyped == SettingsSpec => []SettingsTypeOK
  <1>1. SettingsInit => Phases
    BY SettingsAssumption DEF SettingsInit, Phases
  <1>2. StoreInv /\ Phases => SettingsTypeOK
    <2> SUFFICES ASSUME StoreInv, Phases PROVE SettingsTypeOK
      OBVIOUS
    <2>1. disk \in {Absent, Unusable} \/ (disk.id \in 0..ids /\ disk.s.val \in Shown)
      BY DEF StoreInv, DataTyped, InOrder, StoredId, Usable, Snapshots, AllSettings
    <2>2. tmp = None \/ (tmp.s.id \in 0..ids /\ tmp.synced \in BOOLEAN /\ (tmp.synced => tmp.whole))
      BY DEF StoreInv, DataTyped, Phases, Temporaries, Snapshots
    <2>3. Busy => pending = None /\ tmp # None
      BY DEF StoreInv, InOrder, Busy
    <2> QED BY <2>1, <2>2, <2>3 DEF SettingsTypeOK, Phases
  <1> QED BY <1>1, <1>2, PhasesStep, StoreSound, PTL DEF SettingsSpec

\* What the settings promise: the file is never torn, an unusable one is kept
\* aside, a clean exit leaves the newest values and the switch, and a restart
\* shows them; for any number of changes, lives, failed writes and power losses.
THEOREM SettingsAreKept == SettingsSpec => SettingsKept
  BY SettingsTyped, ExitSaves, SwitchSaved, FileSurvives, UnusableAside, SavedIsShown, PTL DEF SettingsKept

-----------------------------------------------------------------------------
(* Executor: the inductive invariant.                                       *)

\* The jobs a lane holds, in its queue or running.
On(l) == Range(lanes[l]) \cup ({running[l]} \ {NoJob})
OnLane(j) == \E l \in Lane : j \in On(l)
HasResult(p) == \E i \in 1..Len(results) : results[i].p = p

Jobs == Procs \cup (Nat \ {0})
Given == {<<>>, <<"ok">>, <<"partial">>, <<"failed">>, <<"refused">>}
Actions == [kind : Kinds, out : Outcomes \cup {"open", "refused"}, toasts : Given, refresh : BOOLEAN]
Results == [p : Procs, ok : BOOLEAN]

LanesTyped ==
    /\ lanes \in Seq(Seq(Jobs)) /\ Len(lanes) \in 0..2
    /\ running \in [Lane -> Jobs \cup {NoJob}]
ActsTyped == act \in Seq(Actions)
RulesTyped ==
    /\ alive \subseteq Procs /\ unborn \subseteq Procs /\ snap \subseteq Procs /\ toQueue \subseteq Procs
    /\ applied \subseteq Procs /\ rInflight \subseteq Procs
    /\ failures \in [Procs -> 0..3] /\ results \in Seq(Results) /\ tried \in [Procs -> Nat]

\* A job is at one place only. (try_queue, the workers' loop)
NoRepeat(q) == \A i, k \in 1..Len(q) : q[i] = q[k] => i = k
JobsApart ==
    /\ \A l \in Lane : Len(lanes[l]) <= Cap /\ running[l] \notin Range(lanes[l]) /\ NoRepeat(lanes[l])
    /\ \A l, m \in Lane : l # m => On(l) \cap On(m) = {}
LanesInv == LanesTyped /\ JobsApart

\* An action is held by a lane until its toast, and the toast is true. (run_action,
\* apply_batch)
Answer(a, held) ==
    /\ a.toasts = <<>> <=> held
    /\ a.out = "open" => a.toasts = <<>>
    /\ a.toasts = <<"ok">> => a.out = "all"
ActionsHeld ==
    /\ \A j : OnLane(j) /\ j \notin Procs => j \in 1..Len(act)
    /\ \A i \in 1..Len(act) : Answer(act[i], OnLane(i))

\* One change of the core service is on its way, and the flag says so.
\* (dispatch_core_service_change)
CoreOpen(i) == act[i].kind = "core" /\ act[i].out = "open"
CoreOne ==
    /\ inflight = TRUE <=> \E i \in 1..Len(act) : CoreOpen(i)
    /\ \A i, k \in 1..Len(act) : CoreOpen(i) /\ CoreOpen(k) => i = k

\* A rule is to be queued, or held by a lane, or has its result, and only the first of
\* these before it was applied. (apply_saved_process_rules)
RuleState(p) ==
    /\ p \in unborn => ~OnLane(p) /\ p \notin snap /\ tried[p] = 0
    /\ p \in toQueue => p \in snap /\ ~HasResult(p) /\ ~OnLane(p)
    /\ HasResult(p) => ~OnLane(p)
    /\ OnLane(p) /\ (p \in snap \/ p \in alive) => p \in rInflight
    /\ p \in rInflight => OnLane(p) \/ HasResult(p)
    /\ OnLane(p) \/ p \in toQueue => tried[p] = 0
    /\ tried[p] <= 1
    /\ p \in alive /\ tried[p] = 1 => p \in applied \/ SucceededIn(p)
RulesOnce == alive \cap unborn = {} /\ \A p \in Procs : RuleState(p)

ExecInv ==
    /\ LanesInv /\ ActsTyped /\ ActionsHeld /\ inflight \in BOOLEAN /\ CoreOne /\ RulesTyped /\ RulesOnce
    /\ wedged \subseteq Lane /\ next \in 0..1

-----------------------------------------------------------------------------
(* Lemmas about queues.                                                     *)

LEMMA QueueAdds ==
    ASSUME NEW S, NEW q \in Seq(S), NEW j \in S, NoRepeat(q), j \notin Range(q)
    PROVE  /\ Append(q, j) \in Seq(S) /\ Len(Append(q, j)) = Len(q) + 1 /\ NoRepeat(Append(q, j))
           /\ Range(Append(q, j)) = Range(q) \cup {j}
<1> DEFINE r == Append(q, j)
           n == Len(q)
<1>1. /\ r \in Seq(S) /\ Len(r) = n + 1 /\ n \in Nat /\ r[n + 1] = j
      /\ \A i \in 1..n : r[i] = q[i]
      BY AppendProperties, LenProperties
<1>2. Range(q) = {q[i] : i \in 1..n}
      BY RangeEquality
<1>3. Range(r) = {r[i] : i \in 1..(n + 1)}
      BY <1>1, RangeEquality
<1>4. \A i \in 1..n : q[i] # j
      BY <1>2
<1>5. NoRepeat(r)
  <2> HIDE DEF r, n
  <2>1. \A i, k \in 1..n : q[i] = q[k] => i = k
        BY DEF NoRepeat, n
  <2> QED BY <1>1, <1>4, <2>1 DEF NoRepeat
<1>6. Range(r) = Range(q) \cup {j}
  <2> HIDE DEF r, n
  <2>1. 1..(n + 1) = (1..n) \cup {n + 1}
        BY <1>1
  <2> QED BY <1>1, <1>2, <1>3, <2>1
<1> QED BY <1>1, <1>5, <1>6

LEMMA QueueGives ==
    ASSUME NEW S, NEW q \in Seq(S), q # <<>>, NoRepeat(q)
    PROVE  /\ Head(q) \in S /\ Tail(q) \in Seq(S) /\ Len(Tail(q)) <= Len(q) /\ NoRepeat(Tail(q))
           /\ Head(q) \notin Range(Tail(q)) /\ Range(q) = Range(Tail(q)) \cup {Head(q)}
<1> DEFINE r == Tail(q)
           n == Len(q)
           h == Head(q)
<1>1. /\ h \in S /\ r \in Seq(S) /\ Len(r) = n - 1 /\ n \in Nat /\ n # 0 /\ h = q[1]
      /\ \A i \in 1..(n - 1) : r[i] = q[i + 1]
      BY HeadTailProperties, LenProperties, EmptySeq
<1>2. Range(q) = {q[i] : i \in 1..n}
      BY RangeEquality
<1>3. Range(r) = {r[i] : i \in 1..(n - 1)}
      BY <1>1, RangeEquality
<1>4. \A i, k \in 1..n : q[i] = q[k] => i = k
      BY DEF NoRepeat
<1> HIDE DEF r, n, h
<1>5. NoRepeat(r)
      BY <1>1, <1>4 DEF NoRepeat
<1>6. h \notin Range(r)
      BY <1>1, <1>3, <1>4
<1>7. Range(q) = Range(r) \cup {h}
  <2>1. ASSUME NEW i \in 1..n, i # 1 PROVE \E k \in 1..(n - 1) : q[i] = r[k]
    <3>1. i - 1 \in 1..(n - 1) /\ (i - 1) + 1 = i
          BY <1>1, <2>1
    <3>2. r[i - 1] = q[(i - 1) + 1]
          BY <1>1, <3>1
    <3>3. q[i] = r[i - 1]
          BY <3>1, <3>2
    <3> QED BY <3>1, <3>3
  <2>2. \A i \in 1..(n - 1) : i + 1 \in 1..n /\ r[i] = q[i + 1]
        BY <1>1
  <2>3. 1 \in 1..n
        BY <1>1
  <2>4. Range(q) \subseteq Range(r) \cup {h}
    <3> SUFFICES ASSUME NEW i \in 1..n PROVE q[i] \in Range(r) \cup {h}
        BY <1>2
    <3>1. CASE i = 1
          BY <1>1, <3>1
    <3>2. CASE i # 1
          BY <1>3, <2>1, <3>2
    <3> QED BY <3>1, <3>2
  <2>5. h \in Range(q)
        BY <1>1, <1>2, <2>3
  <2>6. Range(r) \subseteq Range(q)
        BY <1>2, <1>3, <2>2
  <2> QED BY <2>4, <2>5, <2>6
<1> QED BY <1>1, <1>5, <1>6, <1>7 DEF r, n, h

\* What a lane holds when one queue, or one running job, changes.
LEMMA LanesSame ==
    ASSUME LanesTyped, NEW l \in Lane, NEW q \in Seq(Jobs), lanes' = [lanes EXCEPT ![l] = q]
    PROVE  /\ lanes' \in Seq(Seq(Jobs)) /\ Len(lanes') = Len(lanes) /\ Lane' = Lane
           /\ lanes'[l] = q /\ \A m \in Lane \ {l} : lanes'[m] = lanes[m]
<1>1. l \in 1..Len(lanes)
      BY DEF Lane, N
<1>2. /\ [lanes EXCEPT ![l] = q] \in Seq(Seq(Jobs)) /\ Len([lanes EXCEPT ![l] = q]) = Len(lanes)
      /\ \A m \in 1..Len(lanes) : [lanes EXCEPT ![l] = q][m] = IF m = l THEN q ELSE lanes[m]
      BY <1>1, ExceptSeq DEF LanesTyped
<1> QED BY <1>1, <1>2 DEF Lane, N

\* Queueing a job no lane holds. (try_queue)
LEMMA JobQueued ==
    ASSUME LanesInv, next \in 0..1, NEW j \in Jobs, ~OnLane(j), TryQueue(j)
    PROVE  /\ LanesInv' /\ Lane' = Lane /\ next' \in 0..1
           /\ HasRoom => \A k : OnLane(k)' <=> (OnLane(k) \/ k = j)
           /\ ~HasRoom => UNCHANGED <<lanes, running>>
<1> USE ExecutorAssumption DEF LanesInv
<1>1. N \in 0..2 /\ (N > 0 => First \in Lane /\ Second \in Lane)
  <2>1. N \in 0..2
        BY DEF LanesTyped, N
  <2>2. CASE N = 0
        BY <2>2
  <2>3. CASE N = 1
    <3>1. next % 1 = 0 /\ (next + 1) % 1 = 0
          OBVIOUS
    <3> QED BY <2>3, <3>1 DEF First, Second, Lane
  <2>4. CASE N = 2
    <3>1. next % 2 \in 0..1 /\ (next + 1) % 2 \in 0..1
          OBVIOUS
    <3> QED BY <2>4, <3>1 DEF First, Second, Lane
  <2> QED BY <2>1, <2>2, <2>3, <2>4
<1>2. next' \in 0..1
  <2>1. CASE N = 0
        BY <2>1 DEF TryQueue
  <2>2. CASE N = 1
        BY <2>2 DEF TryQueue
  <2>3. CASE N = 2
        BY <2>3 DEF TryQueue
  <2> QED BY <1>1, <2>1, <2>2, <2>3
<1>3. CASE ~HasRoom
  <2>1. UNCHANGED <<lanes, running>>
        BY <1>3 DEF TryQueue
  <2> QED BY <1>2, <1>3, <2>1 DEF LanesTyped, JobsApart, Lane, N, On
<1>4. CASE HasRoom
  <2>1. PICK l \in Lane : Room(l) /\ lanes' = [lanes EXCEPT ![l] = Append(lanes[l], j)] /\ running' = running
        BY <1>1, <1>4 DEF TryQueue, HasRoom
  <2>2. lanes[l] \in Seq(Jobs) /\ NoRepeat(lanes[l]) /\ j \notin Range(lanes[l]) /\ Len(lanes[l]) < Cap
    <3>1. lanes[l] \in Seq(Jobs)
          BY ElementOfSeq DEF LanesTyped, Lane, N
    <3> QED BY <2>1, <3>1 DEF JobsApart, OnLane, On, Room
  <2>3. /\ Append(lanes[l], j) \in Seq(Jobs) /\ Len(Append(lanes[l], j)) = Len(lanes[l]) + 1
        /\ NoRepeat(Append(lanes[l], j)) /\ Range(Append(lanes[l], j)) = Range(lanes[l]) \cup {j}
        BY <2>2, QueueAdds
  <2>4. /\ lanes' \in Seq(Seq(Jobs)) /\ Len(lanes') = Len(lanes) /\ Lane' = Lane
        /\ lanes'[l] = Append(lanes[l], j) /\ \A m \in Lane \ {l} : lanes'[m] = lanes[m]
        BY <2>1, <2>3, LanesSame
  <2>5. LanesTyped'
        BY <2>1, <2>4 DEF LanesTyped
  <2>6. j # NoJob
        BY DEF Jobs
  <2>7. On(l)' = On(l) \cup {j} /\ \A m \in Lane \ {l} : On(m)' = On(m)
        BY <2>1, <2>3, <2>4 DEF On
  <2>8. \A k : OnLane(k)' <=> (OnLane(k) \/ k = j)
        BY <2>4, <2>7 DEF OnLane
  <2>9. Len(lanes'[l]) <= Cap
        BY <2>2, <2>3, <2>4, LenProperties
  <2>10. running[l] \notin Range(lanes'[l])
        BY <2>3, <2>4, <2>6 DEF JobsApart, OnLane, On
  <2>11. \A m \in Lane : Len(lanes'[m]) <= Cap /\ running[m] \notin Range(lanes'[m]) /\ NoRepeat(lanes'[m])
        BY <2>3, <2>4, <2>9, <2>10 DEF JobsApart
  <2>12. \A k, m \in Lane : k # m => On(k)' \cap On(m)' = {}
        BY <2>7 DEF JobsApart, OnLane
  <2>13. JobsApart'
        BY <2>1, <2>4, <2>11, <2>12 DEF JobsApart, NoRepeat
  <2> QED BY <1>2, <1>4, <2>4, <2>5, <2>8, <2>13
<1> QED BY <1>3, <1>4

\* A worker takes a job: it is held as before. (the workers' loop)
LEMMA JobTaken ==
    ASSUME LanesInv, NEW l \in Lane, Take(l)
    PROVE  LanesInv' /\ Lane' = Lane /\ \A k : OnLane(k)' <=> OnLane(k)
<1> USE ExecutorAssumption DEF LanesInv
<1>1. /\ running[l] = NoJob /\ lanes[l] # <<>> /\ running' = [running EXCEPT ![l] = Head(lanes[l])]
      /\ lanes' = [lanes EXCEPT ![l] = Tail(lanes[l])]
      BY DEF Take
<1>2. lanes[l] \in Seq(Jobs) /\ NoRepeat(lanes[l])
  <2>1. lanes[l] \in Seq(Jobs)
        BY ElementOfSeq DEF LanesTyped, Lane, N
  <2> QED BY <2>1 DEF JobsApart
<1>3. /\ Head(lanes[l]) \in Jobs /\ Tail(lanes[l]) \in Seq(Jobs) /\ Len(Tail(lanes[l])) <= Len(lanes[l])
      /\ NoRepeat(Tail(lanes[l])) /\ Head(lanes[l]) \notin Range(Tail(lanes[l]))
      /\ Range(lanes[l]) = Range(Tail(lanes[l])) \cup {Head(lanes[l])}
      BY <1>1, <1>2, QueueGives
<1>4. /\ lanes' \in Seq(Seq(Jobs)) /\ Len(lanes') = Len(lanes) /\ Lane' = Lane
      /\ lanes'[l] = Tail(lanes[l]) /\ \A m \in Lane \ {l} : lanes'[m] = lanes[m]
      BY <1>1, <1>3, LanesSame
<1>5. running'[l] = Head(lanes[l]) /\ \A m \in Lane \ {l} : running'[m] = running[m]
      BY <1>1 DEF LanesTyped
<1>6. LanesTyped'
      BY <1>1, <1>3, <1>4 DEF LanesTyped
<1>7. Head(lanes[l]) # NoJob
      BY <1>3 DEF Jobs
<1>8. \A m \in Lane : On(m)' = On(m)
      BY <1>1, <1>3, <1>4, <1>5, <1>7 DEF On
<1>9. \A k : OnLane(k)' <=> OnLane(k)
      BY <1>4, <1>8 DEF OnLane
<1>10. Len(lanes'[l]) <= Cap
      BY <1>2, <1>3, <1>4, LenProperties DEF JobsApart
<1>11. \A m \in Lane : Len(lanes'[m]) <= Cap /\ running'[m] \notin Range(lanes'[m]) /\ NoRepeat(lanes'[m])
      BY <1>3, <1>4, <1>5, <1>10 DEF JobsApart
<1>12. JobsApart'
      BY <1>4, <1>8, <1>11 DEF JobsApart, NoRepeat
<1> QED BY <1>4, <1>6, <1>9, <1>12

\* A worker is done with its job, which nobody holds any more. (the workers' loop)
LEMMA JobDone ==
    ASSUME LanesInv, NEW l \in Lane, running[l] # NoJob, running' = [running EXCEPT ![l] = NoJob], lanes' = lanes
    PROVE  /\ LanesInv' /\ Lane' = Lane /\ running[l] \in Jobs /\ OnLane(running[l])
           /\ \A k : OnLane(k)' <=> (OnLane(k) /\ k # running[l])
<1> USE ExecutorAssumption DEF LanesInv
<1>1. Lane' = Lane /\ running[l] \in Jobs
      BY DEF Lane, N, LanesTyped
<1>2. running'[l] = NoJob /\ \A m \in Lane \ {l} : running'[m] = running[m]
      BY DEF LanesTyped
<1>3. LanesTyped'
      BY <1>1 DEF LanesTyped
<1>4. On(l)' = On(l) \ {running[l]} /\ \A m \in Lane \ {l} : On(m)' = On(m)
      BY <1>2 DEF On, JobsApart
<1>5. running[l] \in On(l)
      BY DEF On
<1>6. \A k : OnLane(k)' <=> (OnLane(k) /\ k # running[l])
      BY <1>1, <1>4, <1>5 DEF OnLane, JobsApart
<1>7. NoJob \notin Range(lanes[l])
  <2>1. lanes[l] \in Seq(Jobs)
        BY ElementOfSeq DEF LanesTyped, Lane, N
  <2>2. Range(lanes[l]) \subseteq Jobs
        BY <2>1, RangeOfSeq
  <2> QED BY <2>2 DEF Jobs
<1>8. JobsApart'
      BY <1>1, <1>2, <1>4, <1>7 DEF JobsApart, NoRepeat
<1> QED BY <1>1, <1>3, <1>5, <1>6, <1>8 DEF OnLane

-----------------------------------------------------------------------------
(* The executor's steps.                                                    *)

LEMMA ExecCases ==
    ASSUME [ExecNext]_execVars
    PROVE  \/ \E l \in Lane : Take(l) \/ Wedge(l) \/ Perform(l) \/ Report(l) \/ RunRule(l)
           \/ Tick \/ (\E p \in Procs : QueueRule(p) \/ ProcessStarts(p) \/ ProcessExits(p))
           \/ (\E k \in Kinds : Submit(k)) \/ UNCHANGED execVars
<1>1. CASE \E l \in Lane : Worker(l) \/ Wedge(l)
  BY <1>1, Zenon DEF Worker
<1>2. CASE Frame
  BY <1>2, Zenon DEF Frame
<1>3. CASE \E k \in Kinds : Submit(k)
  BY <1>3, Zenon
<1>4. CASE \E p \in Procs : ProcessStarts(p) \/ ProcessExits(p)
  BY <1>4, Zenon
<1>5. CASE UNCHANGED execVars
  BY <1>5, Zenon
<1> QED BY <1>1, <1>2, <1>3, <1>4, <1>5, Zenon DEF ExecNext

\* What a step does to the lanes. (try_queue, the workers' loop)
LEMMA LanesStep ==
    ASSUME ExecInv, [ExecNext]_execVars
    PROVE  LanesInv' /\ wedged' \subseteq Lane' /\ next' \in 0..1 /\ Lane' = Lane
<1> USE ExecutorAssumption DEF ExecInv
<1>k. ASSUME UNCHANGED <<lanes, running>>, wedged' \subseteq Lane, next' \in 0..1
      PROVE  LanesInv' /\ wedged' \subseteq Lane' /\ next' \in 0..1 /\ Lane' = Lane
  <2>1. Lane' = Lane /\ lanes' = lanes /\ running' = running
    BY <1>k DEF Lane, N
  <2>2. LanesTyped'
    BY <2>1 DEF LanesInv, LanesTyped
  <2>3. \A l : On(l)' = On(l)
    BY <2>1, Zenon DEF On
  <2>4. JobsApart'
    BY <2>1, <2>3 DEF LanesInv, JobsApart
  <2> QED BY <1>k, <2>1, <2>2, <2>4 DEF LanesInv
<1>1. ASSUME NEW l \in Lane, Take(l) PROVE LanesInv' /\ wedged' \subseteq Lane' /\ next' \in 0..1 /\ Lane' = Lane
  <2>1. UNCHANGED <<wedged, next>>
        BY <1>1 DEF Take
  <2> QED BY <1>1, <2>1, JobTaken
<1>2. ASSUME NEW l \in Lane, Wedge(l) \/ Perform(l) PROVE LanesInv' /\ wedged' \subseteq Lane' /\ next' \in 0..1 /\ Lane' = Lane
      BY <1>2, <1>k DEF Wedge, Perform, laneVars
<1>3. ASSUME NEW l \in Lane, Report(l) \/ RunRule(l) PROVE LanesInv' /\ wedged' \subseteq Lane' /\ next' \in 0..1 /\ Lane' = Lane
  <2>1. running[l] # NoJob /\ running' = [running EXCEPT ![l] = NoJob] /\ UNCHANGED <<lanes, wedged, next>>
        BY <1>3 DEF Report, RunRule
  <2> QED BY <2>1, JobDone
<1>4. CASE Tick \/ \E p \in Procs : ProcessStarts(p) \/ ProcessExits(p)
      BY <1>4, <1>k DEF Tick, ProcessStarts, ProcessExits, laneVars
<1>5. ASSUME NEW p \in Procs, QueueRule(p) PROVE LanesInv' /\ wedged' \subseteq Lane' /\ next' \in 0..1 /\ Lane' = Lane
  <2>1. p \in Jobs /\ ~OnLane(p) /\ TryQueue(p) /\ wedged' = wedged
        BY <1>5 DEF QueueRule, TryQueue, Jobs, RulesOnce, RuleState
  <2> QED BY <2>1, JobQueued
<1>6. ASSUME NEW k \in Kinds, Submit(k) PROVE LanesInv' /\ wedged' \subseteq Lane' /\ next' \in 0..1 /\ Lane' = Lane
  <2>1. Len(act) \in Nat
        BY LenProperties DEF ActsTyped
  <2> DEFINE n == Len(act)
             j == n + 1
  <2>2. j \in Jobs /\ j \notin Procs /\ j \notin 1..n
        BY <2>1 DEF Jobs
  <2>3. ~OnLane(j) /\ TryQueue(j) /\ wedged' = wedged
        BY <1>6, <2>2 DEF Submit, TryQueue, ActionsHeld
  <2> HIDE DEF j
  <2> QED BY <2>2, <2>3, JobQueued
<1>7. CASE UNCHANGED execVars
      BY <1>7, <1>k DEF execVars, laneVars
<1> QED BY <1>1, <1>2, <1>3, <1>4, <1>5, <1>6, <1>7, ExecCases

\* One action changes. (apply_batch, run_action)
LEMMA ActChanges ==
    ASSUME ActsTyped, NEW i \in 1..Len(act), NEW a \in Actions, act' = [act EXCEPT ![i] = a]
    PROVE  /\ ActsTyped' /\ Len(act') = Len(act) /\ act'[i] = a
           /\ \A k \in 1..Len(act) : k # i => act'[k] = act[k]
  BY ExceptSeq DEF ActsTyped

\* Every action gets one toast, and the flag follows the change of the core service.
\* (run_action, apply_batch, finish_core_service_change)
LEMMA ActionsStep ==
    ASSUME ExecInv, [ExecNext]_execVars
    PROVE  ActsTyped' /\ ActionsHeld' /\ inflight' \in BOOLEAN /\ CoreOne'
<1> USE ExecutorAssumption DEF ExecInv
<1> DEFINE Goal == ActsTyped' /\ ActionsHeld' /\ inflight' \in BOOLEAN /\ CoreOne'
           n == Len(act)
<1>0. n \in Nat
      BY LenProperties DEF ActsTyped
<1>t. \A i \in 1..n : act[i] \in Actions
      BY ElementOfSeq DEF ActsTyped
<1>p. \A i \in 1..n : i \notin Procs
      BY <1>0
<1>k. ASSUME UNCHANGED <<act, inflight>>, \A j : j \notin Procs => (OnLane(j)' <=> OnLane(j))
      PROVE  Goal
  <2>1. ActsTyped' /\ inflight' \in BOOLEAN
        BY <1>k DEF ActsTyped
  <2>2. ActionsHeld'
    <3>1. \A j : OnLane(j)' /\ j \notin Procs => j \in 1..Len(act')
          BY <1>k DEF ActionsHeld
    <3>2. ASSUME NEW i \in 1..n PROVE Answer(act[i], OnLane(i)')
      <4>1. OnLane(i)' <=> OnLane(i)
            BY <1>k, <1>p
      <4>2. Answer(act[i], OnLane(i))
            BY DEF ActionsHeld
      <4> QED BY <4>1, <4>2 DEF Answer
    <3> QED BY <1>k, <3>1, <3>2 DEF ActionsHeld, Answer
  <2>3. CoreOne'
        BY <1>k DEF CoreOne, CoreOpen
  <2> QED BY <2>1, <2>2, <2>3
<1>1. ASSUME NEW l \in Lane, Take(l) PROVE Goal
  <2>1. \A j : OnLane(j)' <=> OnLane(j)
        BY <1>1, JobTaken
  <2>2. UNCHANGED <<act, inflight>>
        BY <1>1 DEF Take
  <2> QED BY <1>k, <2>1, <2>2
<1>2. ASSUME NEW l \in Lane, Wedge(l) PROVE Goal
      BY <1>2, <1>k DEF Wedge, OnLane, Lane, N, On
<1>3. ASSUME NEW l \in Lane, RunRule(l) PROVE Goal
  <2>1. /\ running[l] # NoJob /\ running' = [running EXCEPT ![l] = NoJob] /\ UNCHANGED <<lanes, act, inflight>>
        /\ running[l] \in Procs
        BY <1>3 DEF RunRule, IsRule
  <2>2. \A j : OnLane(j)' <=> (OnLane(j) /\ j # running[l])
        BY <2>1, JobDone
  <2> QED BY <1>k, <2>1, <2>2
<1>4. CASE Tick \/ \E p \in Procs : ProcessStarts(p) \/ ProcessExits(p)
      BY <1>4, <1>k DEF Tick, ProcessStarts, ProcessExits, laneVars, OnLane, Lane, N, On
<1>5. ASSUME NEW p \in Procs, QueueRule(p) PROVE Goal
  <2>1. p \in Jobs /\ ~OnLane(p) /\ TryQueue(p) /\ UNCHANGED <<act, inflight>>
        BY <1>5 DEF QueueRule, Jobs, RulesOnce, RuleState
  <2>2. \A j : j # p => (OnLane(j)' <=> OnLane(j))
    <3>1. CASE HasRoom
          BY <2>1, <3>1, JobQueued
    <3>2. CASE ~HasRoom
      <4>1. UNCHANGED <<lanes, running>>
            BY <2>1, <3>2, JobQueued
      <4> QED BY <4>1 DEF OnLane, Lane, N, On
    <3> QED BY <3>1, <3>2
  <2> QED BY <1>k, <2>1, <2>2
<1>6. CASE UNCHANGED execVars
      BY <1>6, <1>k DEF execVars, laneVars, OnLane, Lane, N, On
<1>7. ASSUME NEW k \in Kinds, Submit(k) PROVE Goal
  <2>0. PICK j : j = n + 1
        OBVIOUS
  <2> DEFINE r == IF HasRoom THEN Asked(k) ELSE [Asked(k) EXCEPT !.out = "refused", !.toasts = <<"refused">>]
  <2>1. /\ j \in Jobs /\ j \notin Procs /\ j \notin 1..n /\ j \in 1..j
        /\ \A i \in 1..j : i \in 1..n \/ i = j
        /\ \A i \in 1..n : i \in 1..j
        BY <1>0, <2>0 DEF Jobs
  <2>2. ~OnLane(j)
        BY <2>1 DEF ActionsHeld
  <2>3. TryQueue(j) /\ act' = Append(act, r) /\ (k = "core" => ~inflight)
        BY <1>7, <2>0 DEF Submit
  <2>4. /\ r.kind = k /\ r \in Actions
        /\ HasRoom => r.out = "open" /\ r.toasts = <<>>
        /\ ~HasRoom => r.out = "refused" /\ r.toasts = <<"refused">>
        BY DEF Asked, Actions, Given, Outcomes
  <2> HIDE DEF r
  <2>5. /\ act' \in Seq(Actions) /\ Len(act') = j /\ act'[j] = r
        /\ \A i \in 1..n : act'[i] = act[i]
        BY <2>0, <2>3, <2>4, AppendProperties DEF ActsTyped
  <2>6. /\ HasRoom => \A i : OnLane(i)' <=> (OnLane(i) \/ i = j)
        /\ ~HasRoom => \A i : OnLane(i)' <=> OnLane(i)
    <3>1. CASE HasRoom
          BY <2>1, <2>2, <2>3, <3>1, JobQueued
    <3>2. CASE ~HasRoom
      <4>1. UNCHANGED <<lanes, running>>
            BY <2>1, <2>2, <2>3, <3>2, JobQueued
      <4> QED BY <3>2, <4>1 DEF OnLane, Lane, N, On
    <3> QED BY <3>1, <3>2
  <2>7. \A i \in 1..n : OnLane(i)' <=> OnLane(i)
        BY <2>1, <2>6
  <2>8. HasRoom => OnLane(j)'
        BY <2>6
  <2>9. ~HasRoom => ~OnLane(j)'
        BY <2>2, <2>6
  <2>10. ActionsHeld'
    <3>1. ASSUME NEW i, OnLane(i)', i \notin Procs PROVE i \in 1..j
      <4>1. i = j \/ OnLane(i)
            BY <2>6, <3>1
      <4>2. OnLane(i) => i \in 1..n
            BY <3>1 DEF ActionsHeld
      <4> QED BY <2>1, <4>1, <4>2
    <3>2. ASSUME NEW i \in 1..n PROVE Answer(act'[i], OnLane(i)')
      <4>1. Answer(act[i], OnLane(i))
            BY DEF ActionsHeld
      <4> QED BY <2>5, <2>7, <4>1 DEF Answer
    <3>3. Answer(act'[j], OnLane(j)')
      <4>1. <<"refused">> # <<"ok">> /\ <<"refused">> # <<>> /\ <<>> # <<"ok">>
            OBVIOUS
      <4>2. CASE HasRoom
            BY <2>4, <2>5, <2>8, <4>1, <4>2 DEF Answer
      <4>3. CASE ~HasRoom
            BY <2>4, <2>5, <2>9, <4>1, <4>3 DEF Answer
      <4> QED BY <4>2, <4>3
    <3>4. \A i \in 1..j : Answer(act'[i], OnLane(i)')
          BY <2>1, <3>2, <3>3
    <3> QED BY <2>5, <3>1, <3>4 DEF ActionsHeld, Answer
  <2>11. /\ k = "core" /\ HasRoom => inflight' = TRUE
         /\ k = "core" /\ ~HasRoom => inflight' = FALSE
         /\ k # "core" => inflight' = inflight
         BY <1>7 DEF Submit, ActionRefused
  <2>12. inflight' \in BOOLEAN
         BY <2>11
  <2>13. \A i \in 1..n : CoreOpen(i)' <=> CoreOpen(i)
         BY <2>5 DEF CoreOpen
  <2>14. CoreOpen(j)' <=> (k = "core" /\ HasRoom)
    <3>1. CASE HasRoom
          BY <2>4, <2>5, <3>1 DEF CoreOpen
    <3>2. CASE ~HasRoom
          BY <2>4, <2>5, <3>2 DEF CoreOpen
    <3> QED BY <3>1, <3>2
  <2>15. k = "core" => \A i \in 1..n : ~CoreOpen(i)
         BY <2>3 DEF CoreOne
  <2>16. CoreOne'
    <3>1. inflight' = TRUE <=> \E i \in 1..j : CoreOpen(i)'
      <4>1. CASE k = "core" /\ HasRoom
            BY <2>1, <2>11, <2>14, <4>1
      <4>2. CASE k = "core" /\ ~HasRoom
            BY <2>1, <2>11, <2>13, <2>14, <2>15, <4>2
      <4>3. CASE k # "core"
        <5>1. inflight = TRUE <=> \E i \in 1..n : CoreOpen(i)
              BY DEF CoreOne
        <5> QED BY <2>1, <2>11, <2>13, <2>14, <4>3, <5>1
      <4> QED BY <4>1, <4>2, <4>3
    <3>2. \A i, m \in 1..j : CoreOpen(i)' /\ CoreOpen(m)' => i = m
      <4>1. \A i, m \in 1..n : CoreOpen(i) /\ CoreOpen(m) => i = m
            BY DEF CoreOne
      <4> QED BY <2>1, <2>13, <2>14, <2>15, <4>1
    <3> QED BY <2>5, <3>1, <3>2 DEF CoreOne
  <2> QED BY <2>5, <2>10, <2>12, <2>16 DEF ActsTyped
<1>8. ASSUME NEW l \in Lane, Perform(l) PROVE Goal
  <2> DEFINE j == running[l]
  <2>1. j # NoJob /\ j \notin Procs /\ act[j].out = "open" /\ UNCHANGED <<lanes, running>>
        BY <1>8 DEF Perform, IsRule, laneVars
  <2>2. OnLane(j)
        BY <2>1 DEF OnLane, On
  <2>3. j \in 1..n
        BY <2>1, <2>2 DEF ActionsHeld
  <2> HIDE DEF j
  <2>4. PICK out \in Outcomes : act' = [act EXCEPT ![j].out = out]
        BY <1>8 DEF Perform, j
  <2> DEFINE a == [act[j] EXCEPT !.out = out]
  <2>5. /\ a \in Actions /\ a.kind = act[j].kind /\ a.out = out /\ a.toasts = act[j].toasts
        /\ act' = [act EXCEPT ![j] = a]
        BY <1>t, <2>3, <2>4 DEF Actions
  <2> HIDE DEF a
  <2>6. /\ ActsTyped' /\ Len(act') = n /\ act'[j] = a
        /\ \A i \in 1..n : i # j => act'[i] = act[i]
        BY <2>3, <2>5, ActChanges
  <2>7. \A i : OnLane(i)' <=> OnLane(i)
        BY <2>1 DEF OnLane, Lane, N, On
  <2>8. act[j].toasts = <<>>
        BY <2>1, <2>3 DEF ActionsHeld, Answer
  <2>9. ActionsHeld'
    <3>1. ASSUME NEW i \in 1..n PROVE Answer(act'[i], OnLane(i)')
      <4>1. Answer(act[i], OnLane(i))
            BY DEF ActionsHeld
      <4>2. CASE i # j
            BY <2>6, <2>7, <4>1, <4>2 DEF Answer
      <4>3. CASE i = j
        <5>1. <<>> # <<"ok">>
              OBVIOUS
        <5> QED BY <2>2, <2>5, <2>6, <2>7, <2>8, <4>3, <5>1 DEF Answer
      <4> QED BY <4>2, <4>3
    <3>2. \A i : OnLane(i)' /\ i \notin Procs => i \in 1..Len(act')
          BY <2>6, <2>7 DEF ActionsHeld
    <3> QED BY <2>6, <3>1, <3>2 DEF ActionsHeld, Answer
  <2>10. \A i \in 1..n : CoreOpen(i)' <=> (CoreOpen(i) /\ i # j)
        BY <2>5, <2>6 DEF CoreOpen, Outcomes
  <2>11. CoreOpen(j) <=> act[j].kind = "core"
        BY <2>1 DEF CoreOpen
  <2>12. inflight' = (inflight /\ act[j].kind # "core")
        BY <1>8 DEF Perform, j
  <2>13. inflight' \in BOOLEAN /\ (inflight' = TRUE <=> (inflight = TRUE /\ act[j].kind # "core"))
        BY <2>12
  <2>14. CoreOne'
        BY <2>3, <2>6, <2>10, <2>11, <2>13 DEF CoreOne
  <2> QED BY <2>6, <2>9, <2>13, <2>14
<1>9. ASSUME NEW l \in Lane, Report(l) PROVE Goal
  <2> DEFINE j == running[l]
             b == act[j]
             a == [b EXCEPT !.toasts = b.toasts \o Toasts(b.out), !.refresh = b.kind = "batch" /\ b.out = "all"]
  <2>1. /\ j # NoJob /\ j \notin Procs /\ b.out \in Outcomes /\ inflight' = inflight
        /\ running' = [running EXCEPT ![l] = NoJob] /\ lanes' = lanes
        BY <1>9 DEF Report, IsRule
  <2>2. OnLane(j) /\ \A k : OnLane(k)' <=> (OnLane(k) /\ k # j)
        BY <2>1, JobDone
  <2>3. j \in 1..n
        BY <2>1, <2>2 DEF ActionsHeld
  <2> HIDE DEF j
  <2>4. b \in Actions /\ b.toasts = <<>>
        BY <1>t, <2>2, <2>3 DEF ActionsHeld, Answer
  <2>5. act' = [act EXCEPT ![j] = a]
        BY <1>9, <2>3, <2>4 DEF Report, j, Actions
  <2>6. /\ a.kind = b.kind /\ a.out = b.out /\ a.toasts = Toasts(b.out) /\ a.refresh = (b.kind = "batch" /\ b.out = "all")
    <3>1. <<>> \o Toasts(b.out) = Toasts(b.out)
          BY DEF Toasts
    <3> QED BY <2>4, <3>1 DEF Actions
  <2>7. /\ Toasts(b.out) \in Given /\ Toasts(b.out) # <<>> /\ (Toasts(b.out) = <<"ok">> => b.out = "all")
        BY <2>1 DEF Toasts, ToastOf, Given, Outcomes
  <2>8. a \in Actions
        BY <2>4, <2>6, <2>7 DEF Actions
  <2> HIDE DEF a
  <2>9. /\ ActsTyped' /\ Len(act') = n /\ act'[j] = a
        /\ \A i \in 1..n : i # j => act'[i] = act[i]
        BY <2>3, <2>5, <2>8, ActChanges
  <2>10. ActionsHeld'
    <3>1. ASSUME NEW i \in 1..n PROVE Answer(act'[i], OnLane(i)')
      <4>1. Answer(act[i], OnLane(i))
            BY DEF ActionsHeld
      <4>2. CASE i # j
            BY <2>2, <2>9, <4>1, <4>2 DEF Answer
      <4>3. CASE i = j
        <5>1. b.out # "open"
              BY <2>1 DEF Outcomes
        <5> QED BY <2>2, <2>6, <2>7, <2>9, <4>3, <5>1 DEF Answer
      <4> QED BY <4>2, <4>3
    <3>2. \A i : OnLane(i)' /\ i \notin Procs => i \in 1..Len(act')
          BY <2>2, <2>9 DEF ActionsHeld
    <3> QED BY <2>9, <3>1, <3>2 DEF ActionsHeld, Answer
  <2>11. \A i \in 1..n : CoreOpen(i)' <=> CoreOpen(i)
        BY <2>6, <2>9 DEF CoreOpen
  <2>12. CoreOne' /\ inflight' \in BOOLEAN
        BY <2>1, <2>9, <2>11 DEF CoreOne
  <2> QED BY <2>9, <2>10, <2>12
<1> QED BY <1>1, <1>2, <1>3, <1>4, <1>5, <1>6, <1>7, <1>8, <1>9, ExecCases

\* A result is appended. (run, the process rule results)
LEMMA ResultAdded ==
    ASSUME results \in Seq(Results), NEW p \in Procs, NEW ok \in BOOLEAN,
           results' = Append(results, [p |-> p, ok |-> ok])
    PROVE  /\ results' \in Seq(Results)
           /\ \A q : HasResult(q)' <=> (HasResult(q) \/ q = p)
           /\ \A q : SucceededIn(q) => SucceededIn(q)'
           /\ ok => SucceededIn(p)'
<1> DEFINE r == [p |-> p, ok |-> ok]
           n == Len(results)
<1>1. r \in Results /\ r.p = p /\ r.ok = ok
      BY DEF Results
<1> HIDE DEF r
<1>2. /\ results' \in Seq(Results) /\ Len(results') = n + 1 /\ n \in Nat /\ results'[n + 1] = r
      /\ \A i \in 1..n : results'[i] = results[i]
      BY <1>1, AppendProperties, LenProperties DEF r
<1>3. \A i \in 1..(n + 1) : i \in 1..n \/ i = n + 1
      BY <1>2
<1>4. n + 1 \in 1..(n + 1) /\ \A i \in 1..n : i \in 1..(n + 1)
      BY <1>2
<1>5. ASSUME NEW q PROVE HasResult(q)' <=> (HasResult(q) \/ q = p)
  <2>1. HasResult(q)' <=> \E i \in 1..(n + 1) : results'[i].p = q
        BY <1>2 DEF HasResult
  <2>2. HasResult(q) <=> \E i \in 1..n : results[i].p = q
        BY DEF HasResult
  <2> HIDE DEF n
  <2> QED BY <1>1, <1>2, <1>3, <1>4, <2>1, <2>2
<1>6. ASSUME NEW q, SucceededIn(q) PROVE SucceededIn(q)'
  <2>1. PICK i \in 1..n : results[i].p = q /\ results[i].ok
        BY <1>6 DEF SucceededIn
  <2>2. i \in 1..Len(results') /\ results'[i] = results[i]
        BY <1>2, <1>4
  <2> QED BY <2>1, <2>2 DEF SucceededIn
<1>7. ASSUME ok PROVE SucceededIn(p)'
  <2>1. n + 1 \in 1..Len(results') /\ results'[n + 1] = r
        BY <1>2, <1>4
  <2> QED BY <1>1, <1>7, <2>1 DEF SucceededIn
<1> QED BY <1>2, <1>5, <1>6, <1>7

\* The results of a snapshot are counted. (apply_saved_process_rules)
LEMMA FailuresCounted == ASSUME RulesTyped, NEW p \in Procs PROVE FailuresOf(p) \in Nat /\ FailuresOf(p) - failures[p] \in Nat
<1> DEFINE C == {i \in 1..Len(results) : results[i].p = p /\ ~results[i].ok}
<1>1. Len(results) \in Nat
      BY LenProperties DEF RulesTyped
<1>2. IsFiniteSet(1..Len(results))
      BY <1>1, FS_Interval
<1>3. Cardinality(C) \in Nat
      BY <1>2, FS_Subset, FS_CardinalityType
<1> HIDE DEF C
<1>4. FailuresOf(p) = failures[p] + Cardinality(C)
      BY DEF FailuresOf, C
<1>5. failures[p] \in 0..3
      BY DEF RulesTyped
<1> QED BY <1>3, <1>4, <1>5

\* A process has one attempt of its rule at a time, and its rule is applied once.
\* (apply_saved_process_rules)
LEMMA RulesStep == ASSUME ExecInv, [ExecNext]_execVars PROVE RulesTyped' /\ RulesOnce'
<1> USE ExecutorAssumption
<1> DEFINE Goal == RulesTyped' /\ RulesOnce'
<1>0. /\ LanesInv /\ RulesTyped /\ alive \cap unborn = {} /\ next \in 0..1
      /\ \A p \in Procs : RuleState(p)
      BY DEF ExecInv, RulesOnce
<1>k. ASSUME UNCHANGED ruleVars, \A p \in Procs : OnLane(p)' <=> OnLane(p) PROVE Goal
  <2>1. RulesTyped'
        BY <1>0, <1>k DEF ruleVars, RulesTyped
  <2>2. \A p : (HasResult(p)' <=> HasResult(p)) /\ (SucceededIn(p)' <=> SucceededIn(p))
        BY <1>k DEF ruleVars, HasResult, SucceededIn
  <2>3. ASSUME NEW p \in Procs PROVE RuleState(p)'
    <3>1. RuleState(p)
          BY <1>0
    <3> QED BY <1>k, <2>2, <3>1 DEF ruleVars, RuleState
  <2> QED BY <1>0, <1>k, <2>1, <2>3 DEF ruleVars, RulesOnce
<1>1. ASSUME NEW l \in Lane, Take(l) PROVE Goal
  <2>1. \A j : OnLane(j)' <=> OnLane(j)
        BY <1>0, <1>1, JobTaken
  <2> QED BY <1>1, <1>k, <2>1 DEF Take
<1>2. ASSUME NEW l \in Lane, Wedge(l) \/ Perform(l) PROVE Goal
  <2>1. UNCHANGED <<lanes, running, ruleVars>>
        BY <1>2 DEF Wedge, Perform, laneVars
  <2>2. \A j : OnLane(j)' <=> OnLane(j)
        BY <2>1 DEF OnLane, Lane, N, On
  <2> QED BY <1>k, <2>1, <2>2
<1>3. ASSUME NEW l \in Lane, Report(l) PROVE Goal
  <2>1. /\ running[l] # NoJob /\ running' = [running EXCEPT ![l] = NoJob] /\ lanes' = lanes /\ UNCHANGED ruleVars
        /\ running[l] \notin Procs
        BY <1>3 DEF Report, IsRule
  <2>2. \A j : OnLane(j)' <=> (OnLane(j) /\ j # running[l])
        BY <1>0, <2>1, JobDone
  <2> QED BY <1>k, <2>1, <2>2
<1>4. ASSUME NEW k \in Kinds, Submit(k) PROVE Goal
  <2>1. Len(act) \in Nat
        BY LenProperties DEF ExecInv, ActsTyped
  <2>2. PICK j : j = Len(act) + 1
        OBVIOUS
  <2>3. j \in Jobs /\ j \notin Procs /\ j \notin 1..Len(act)
        BY <2>1, <2>2 DEF Jobs
  <2>4. ~OnLane(j) /\ TryQueue(j) /\ UNCHANGED ruleVars
        BY <1>4, <2>2, <2>3 DEF Submit, ExecInv, ActionsHeld
  <2>5. \A p \in Procs : OnLane(p)' <=> OnLane(p)
    <3>1. CASE HasRoom
          BY <1>0, <2>3, <2>4, <3>1, JobQueued
    <3>2. CASE ~HasRoom
      <4>1. UNCHANGED <<lanes, running>>
            BY <1>0, <2>3, <2>4, <3>2, JobQueued
      <4> QED BY <4>1 DEF OnLane, Lane, N, On
    <3> QED BY <3>1, <3>2
  <2> QED BY <1>k, <2>4, <2>5
<1>5. CASE UNCHANGED execVars
  <2>1. UNCHANGED <<lanes, running, ruleVars>>
        BY <1>5 DEF execVars, laneVars
  <2>2. \A j : OnLane(j)' <=> OnLane(j)
        BY <2>1 DEF OnLane, Lane, N, On
  <2> QED BY <1>k, <2>1, <2>2
<1>6. ASSUME NEW p \in Procs, ProcessStarts(p) PROVE Goal
  <2>1. /\ p \in unborn /\ unborn' = unborn \ {p} /\ alive' = alive \cup {p}
        /\ UNCHANGED <<lanes, running, snap, toQueue, applied, rInflight, failures, results, tried>>
        BY <1>6 DEF ProcessStarts, laneVars
  <2>2. \A q : /\ OnLane(q)' <=> OnLane(q)
               /\ HasResult(q)' <=> HasResult(q)
               /\ SucceededIn(q)' <=> SucceededIn(q)
        BY <2>1 DEF OnLane, Lane, N, On, HasResult, SucceededIn
  <2>3. ASSUME NEW q \in Procs PROVE RuleState(q)'
    <3>1. RuleState(q)
          BY <1>0
    <3> QED BY <2>1, <2>2, <3>1 DEF RuleState
  <2> QED BY <1>0, <2>1, <2>3 DEF RulesTyped, RulesOnce
<1>7. ASSUME NEW p \in Procs, ProcessExits(p) PROVE Goal
  <2>1. /\ alive' = alive \ {p}
        /\ UNCHANGED <<lanes, running, unborn, snap, toQueue, applied, rInflight, failures, results, tried>>
        BY <1>7 DEF ProcessExits, laneVars
  <2>2. \A q : /\ OnLane(q)' <=> OnLane(q)
               /\ HasResult(q)' <=> HasResult(q)
               /\ SucceededIn(q)' <=> SucceededIn(q)
        BY <2>1 DEF OnLane, Lane, N, On, HasResult, SucceededIn
  <2>3. ASSUME NEW q \in Procs PROVE RuleState(q)'
    <3>1. RuleState(q)
          BY <1>0
    <3> QED BY <2>1, <2>2, <3>1 DEF RuleState
  <2> QED BY <1>0, <2>1, <2>3 DEF RulesTyped, RulesOnce
<1>8. ASSUME NEW p \in Procs, QueueRule(p) PROVE Goal
  <2>1. /\ p \in toQueue /\ toQueue' = toQueue \ {p} /\ TryQueue(p)
        /\ UNCHANGED <<alive, unborn, snap, applied, failures, tried>>
        BY <1>8 DEF QueueRule
  <2>2. RuleState(p) /\ p \in Jobs /\ ~OnLane(p) /\ ~HasResult(p)
        BY <1>0, <2>1 DEF RuleState, Jobs
  <2>3. CASE HasRoom
    <3>1. rInflight' = rInflight \cup {p} /\ results' = results
          BY <1>8, <2>3 DEF QueueRule
    <3>2. \A q : OnLane(q)' <=> (OnLane(q) \/ q = p)
          BY <1>0, <2>1, <2>2, <2>3, JobQueued
    <3>3. \A q : (HasResult(q)' <=> HasResult(q)) /\ (SucceededIn(q)' <=> SucceededIn(q))
          BY <3>1 DEF HasResult, SucceededIn
    <3>4. ASSUME NEW q \in Procs PROVE RuleState(q)'
      <4>1. RuleState(q)
            BY <1>0
      <4>2. CASE q = p
            BY <2>1, <2>2, <3>1, <3>2, <3>3, <4>2 DEF RuleState
      <4>3. CASE q # p
            BY <2>1, <3>1, <3>2, <3>3, <4>1, <4>3 DEF RuleState
      <4> QED BY <4>2, <4>3
    <3> QED BY <1>0, <2>1, <3>1, <3>4 DEF RulesTyped, RulesOnce
  <2>4. CASE ~HasRoom
    <3>1. rInflight' = rInflight /\ results' = Append(results, [p |-> p, ok |-> FALSE])
          BY <1>8, <2>4 DEF QueueRule, RuleRefused
    <3>2. \A q : OnLane(q)' <=> OnLane(q)
      <4>1. UNCHANGED <<lanes, running>>
            BY <1>0, <2>1, <2>2, <2>4, JobQueued
      <4> QED BY <4>1 DEF OnLane, Lane, N, On
    <3>3. /\ results' \in Seq(Results)
          /\ \A q : HasResult(q)' <=> (HasResult(q) \/ q = p)
          /\ \A q : SucceededIn(q) => SucceededIn(q)'
          BY <1>0, <3>1, ResultAdded DEF RulesTyped
    <3>4. ASSUME NEW q \in Procs PROVE RuleState(q)'
      <4>1. RuleState(q)
            BY <1>0
      <4>2. CASE q = p
            BY <2>1, <2>2, <3>1, <3>2, <3>3, <4>2 DEF RuleState
      <4>3. CASE q # p
            BY <2>1, <3>1, <3>2, <3>3, <4>1, <4>3 DEF RuleState
      <4> QED BY <4>2, <4>3
    <3> QED BY <1>0, <2>1, <3>1, <3>3, <3>4 DEF RulesTyped, RulesOnce
  <2> QED BY <2>3, <2>4
<1>9. ASSUME NEW l \in Lane, RunRule(l) PROVE Goal
  <2>1. PICK p \in Procs : p = running[l]
        BY <1>9 DEF RunRule, IsRule
  <2>2. /\ running[l] # NoJob /\ running' = [running EXCEPT ![l] = NoJob] /\ lanes' = lanes
        /\ UNCHANGED <<alive, unborn, snap, toQueue, applied, rInflight, failures>>
        BY <1>9 DEF RunRule
  <2>3. PICK ok \in BOOLEAN : /\ results' = Append(results, [p |-> p, ok |-> ok])
                              /\ tried' = [tried EXCEPT ![p] = IF ok THEN @ + 1 ELSE @]
        BY <1>9, <2>1 DEF RunRule
  <2>4. OnLane(p) /\ \A q : OnLane(q)' <=> (OnLane(q) /\ q # p)
        BY <1>0, <2>1, <2>2, JobDone
  <2>5. RuleState(p) /\ tried[p] = 0
        BY <1>0, <2>4 DEF RuleState
  <2>6. /\ results' \in Seq(Results)
        /\ \A q : HasResult(q)' <=> (HasResult(q) \/ q = p)
        /\ \A q : SucceededIn(q) => SucceededIn(q)'
        /\ ok => SucceededIn(p)'
        BY <1>0, <2>3, ResultAdded DEF RulesTyped
  <2>7. /\ \A q \in Procs : q # p => tried'[q] = tried[q]
        /\ tried'[p] \in 0..1 /\ (tried'[p] = 1 => ok) /\ tried' \in [Procs -> Nat]
        BY <1>0, <2>3, <2>5 DEF RulesTyped
  <2>8. ASSUME NEW q \in Procs PROVE RuleState(q)'
    <3>1. RuleState(q)
          BY <1>0
    <3>2. CASE q = p
          BY <2>2, <2>4, <2>5, <2>6, <2>7, <3>2 DEF RuleState
    <3>3. CASE q # p
          BY <2>2, <2>4, <2>6, <2>7, <3>1, <3>3 DEF RuleState
    <3> QED BY <3>2, <3>3
  <2> QED BY <1>0, <2>2, <2>6, <2>7, <2>8 DEF RulesTyped, RulesOnce
<1>10. CASE Tick
  <2>1. /\ snap' = alive /\ results' = <<>> /\ Len(results') = 0
        /\ applied' = (applied \cap alive) \cup {p \in Procs : SucceededIn(p)}
        /\ rInflight' = {p \in alive : p \in rInflight /\ ~HasResult(p)}
        /\ UNCHANGED <<lanes, running, alive, unborn, tried>>
        BY <1>10 DEF Tick, Known, Drained, HasResult, laneVars
  <2>2. \A p \in toQueue' : p \in alive /\ p \notin applied' /\ p \notin rInflight'
        BY <1>10 DEF Tick
  <2>3. \A q : OnLane(q)' <=> OnLane(q)
        BY <2>1 DEF OnLane, Lane, N, On
  <2>4. \A q : ~HasResult(q)'
        BY <2>1 DEF HasResult
  <2>5. failures' \in [Procs -> 0..3]
    <3>1. \A p \in Procs : FailuresOf(p) \in Nat /\ FailuresOf(p) - failures[p] \in Nat
          BY <1>0, FailuresCounted
    <3> QED BY <1>10, <3>1 DEF Tick
  <2>6. RulesTyped'
        BY <1>0, <2>1, <2>2, <2>5, EmptySeq DEF RulesTyped
  <2>7. ASSUME NEW q \in Procs PROVE RuleState(q)'
    <3>1. RuleState(q) /\ tried[q] \in Nat
          BY <1>0 DEF RulesTyped
    <3>2. OnLane(q) /\ q \in alive => q \in rInflight'
          BY <2>1, <3>1 DEF RuleState
    <3>3. q \in alive /\ tried[q] = 1 => q \in applied'
          BY <2>1, <3>1 DEF RuleState
    <3>4. q \in toQueue' => ~OnLane(q) /\ tried[q] = 0
          BY <2>2, <3>1, <3>2, <3>3 DEF RuleState
    <3>5. q \in rInflight' => OnLane(q)
          BY <2>1, <3>1 DEF RuleState
    <3>6. q \in unborn => q \notin alive
          BY <1>0
    <3> QED BY <2>1, <2>2, <2>3, <2>4, <3>1, <3>2, <3>3, <3>4, <3>5, <3>6 DEF RuleState
  <2> QED BY <1>0, <2>1, <2>6, <2>7 DEF RulesOnce
<1> QED BY <1>1, <1>2, <1>3, <1>4, <1>5, <1>6, <1>7, <1>8, <1>9, <1>10, ExecCases

LEMMA ExecBegins == ExecInit => ExecInv
<1> SUFFICES ASSUME ExecInit PROVE ExecInv
    OBVIOUS
<1> USE ExecutorAssumption
<1>1. PICK n \in 0..2 : lanes = [l \in 1..n |-> <<>>] /\ running = [l \in 1..n |-> NoJob]
      BY DEF ExecInit
<1>2. \A S : <<>> \in Seq(S)
      BY EmptySeq
<1>3. lanes \in Seq(Seq(Jobs)) /\ Len(lanes) = n
  <2>1. lanes \in [1..n -> Seq(Jobs)]
        BY <1>1, <1>2
  <2>2. lanes \in Seq(Seq(Jobs))
        BY <2>1, SeqDef
  <2>3. DOMAIN lanes = 1..n /\ DOMAIN lanes = 1..Len(lanes) /\ Len(lanes) \in Nat
        BY <2>1, <2>2, LenProperties
  <2> QED BY <2>2, <2>3
<1>4. LanesTyped
      BY <1>1, <1>3 DEF LanesTyped, Lane, N
<1>5. \A l \in Lane : lanes[l] = <<>> /\ running[l] = NoJob /\ On(l) = {} /\ Range(lanes[l]) = {} /\ Len(lanes[l]) = 0
  <2>1. Range(<<>>) = {} /\ Len(<<>>) = 0
        BY DEF Range
  <2> QED BY <1>1, <1>3, <2>1 DEF Lane, N, On
<1>6. JobsApart
      BY <1>5 DEF JobsApart, NoRepeat
<1>7. \A j : ~OnLane(j)
      BY <1>5 DEF OnLane
<1>8. Len(act) = 0 /\ ActsTyped /\ ActionsHeld
      BY <1>2, <1>7 DEF ExecInit, ActsTyped, ActionsHeld
<1>9. CoreOne
      BY <1>8 DEF ExecInit, CoreOne
<1>10. RulesTyped
      BY <1>2 DEF ExecInit, RulesTyped
<1>11. Len(results) = 0
      BY DEF ExecInit
<1>12. RulesOnce
      BY <1>7, <1>11 DEF ExecInit, RulesOnce, RuleState, HasResult
<1>13. wedged \subseteq Lane /\ next \in 0..1
      BY DEF ExecInit
<1>14. inflight \in BOOLEAN
      BY Zenon DEF ExecInit
<1> QED BY <1>4, <1>6, <1>8, <1>9, <1>10, <1>12, <1>13, <1>14 DEF ExecInv, LanesInv

\* A set of at most one element.
LEMMA AtMostOne == ASSUME NEW S, \A x, y \in S : x = y PROVE Cardinality(S) <= 1 /\ (S # {} => Cardinality(S) = 1)
<1>1. CASE S = {}
      BY <1>1, FS_EmptySet
<1>2. ASSUME NEW x \in S PROVE Cardinality(S) = 1
  <2>1. S = {x}
        OBVIOUS
  <2> QED BY <2>1, FS_Singleton
<1> QED BY <1>1, <1>2

\* Every job that was accepted or refused has one toast, the flag of a core service
\* change is up exactly while one is on its way, and a process has neither two attempts
\* of its rule at a time nor its rule applied twice. (try_queue, run_action,
\* dispatch_core_service_change, apply_saved_process_rules)
THEOREM ExecutorIsSafe == ExecSpec => []ExecutorSafe
<1>1. ExecInv /\ [ExecNext]_execVars => ExecInv'
      BY LanesStep, ActionsStep, RulesStep DEF ExecInv
<1>2. ExecInv => ExecutorSafe
  <2> SUFFICES ASSUME ExecInv PROVE ExecutorSafe
      OBVIOUS
  <2> USE ExecutorAssumption
  <2>h. \A j : j # NoJob => (OnLane(j) <=> (Queued(j) \/ Runs(j)))
        BY DEF OnLane, On, Queued, Runs
  <2>1. ExecTypeOK
    <3>1. ASSUME NEW l \in Lane PROVE running[l] \in {NoJob} \cup Procs \cup 1..Len(act)
      <4>1. running[l] # NoJob => OnLane(running[l])
            BY DEF OnLane, On
      <4> QED BY <4>1 DEF ExecInv, ActionsHeld
    <3>2. \A i \in 1..Len(act) : act[i].kind \in Kinds
      <4>1. \A i \in 1..Len(act) : act[i] \in Actions
            BY ElementOfSeq DEF ExecInv, ActsTyped
      <4> QED BY <4>1 DEF Actions
    <3> QED BY <3>1, <3>2 DEF ExecInv, LanesInv, JobsApart, RulesTyped, ExecTypeOK
  <2>2. OneToast
    <3> SUFFICES ASSUME NEW i \in 1..Len(act)
                 PROVE  /\ Len(act[i].toasts) = IF Queued(i) \/ Runs(i) THEN 0 ELSE 1
                        /\ act[i].toasts = <<"ok">> => act[i].out = "all"
        BY DEF OneToast
    <3>1. act[i] \in Actions /\ Answer(act[i], OnLane(i))
          BY ElementOfSeq DEF ExecInv, ActsTyped, ActionsHeld
    <3>2. act[i].toasts \in Given
          BY <3>1 DEF Actions
    <3>3. Len(act[i].toasts) = IF act[i].toasts = <<>> THEN 0 ELSE 1
      <4>1. Len(<<>>) = 0 /\ \A x : Len(<<x>>) = 1 /\ <<x>> # <<>>
            OBVIOUS
      <4>2. CASE act[i].toasts = <<>>
            BY <4>1, <4>2
      <4>3. CASE act[i].toasts # <<>>
        <5>1. \E x : act[i].toasts = <<x>>
              BY <3>2, <4>3 DEF Given
        <5> QED BY <4>1, <4>3, <5>1
      <4> QED BY <4>2, <4>3
    <3>4. Len(act) \in Nat
          BY LenProperties DEF ExecInv, ActsTyped
    <3>5. i # NoJob
          BY <3>4
    <3> QED BY <2>h, <3>1, <3>3, <3>5 DEF Answer
  <2>3. CoreFlagExact
    <3> DEFINE open == {i \in 1..Len(act) : act[i].kind = "core" /\ act[i].out = "open"}
    <3>1. \A x, y \in open : x = y
          BY DEF ExecInv, CoreOne, CoreOpen
    <3>2. inflight \in BOOLEAN /\ (inflight = TRUE <=> open # {})
          BY DEF ExecInv, CoreOne, CoreOpen
    <3>3. Cardinality(open) <= 1
          BY <3>1, AtMostOne
    <3> HIDE DEF open
    <3>4. inflight = (open # {})
          BY <3>2
    <3> QED BY <3>3, <3>4 DEF CoreFlagExact, open
  <2>4. RuleOnce
    <3> SUFFICES ASSUME NEW p \in Procs
                 PROVE  LET ways == Cardinality({l \in Lane : p \in Range(lanes[l]) \/ running[l] = p}) IN
                        /\ ways <= 1
                        /\ p \in snap /\ ways = 1 => p \in rInflight
                        /\ p \in snap /\ p \in rInflight => ways = 1 \/ \E i \in 1..Len(results) : results[i].p = p
        BY DEF RuleOnce
    <3> DEFINE W == {l \in Lane : p \in Range(lanes[l]) \/ running[l] = p}
    <3>1. W = {l \in Lane : p \in On(l)}
          BY DEF On
    <3>2. \A x, y \in W : x = y
          BY <3>1 DEF ExecInv, LanesInv, JobsApart
    <3>3. OnLane(p) <=> W # {}
          BY <3>1 DEF OnLane
    <3> HIDE DEF W
    <3>4. Cardinality(W) <= 1 /\ (W # {} => Cardinality(W) = 1)
          BY <3>2, AtMostOne
    <3>5. W = {} => Cardinality(W) = 0
          BY FS_EmptySet
    <3>6. RuleState(p)
          BY DEF ExecInv, RulesOnce
    <3>7. /\ Cardinality(W) <= 1
          /\ p \in snap /\ Cardinality(W) = 1 => p \in rInflight
          /\ p \in snap /\ p \in rInflight => Cardinality(W) = 1 \/ HasResult(p)
          BY <3>3, <3>4, <3>5, <3>6 DEF RuleState
    <3> QED BY <3>7 DEF W, HasResult
  <2>5. AppliedOnce
        BY DEF ExecInv, RulesOnce, RuleState, AppliedOnce
  <2> QED BY <2>1, <2>2, <2>3, <2>4, <2>5 DEF ExecutorSafe
<1> QED BY <1>1, <1>2, ExecBegins, PTL DEF ExecSpec

-----------------------------------------------------------------------------
(* Induction over the natural numbers, and functions defined by it.         *)

LEMMA LessIsWellFounded == IsWellFoundedOn({ss \in Nat \X Nat : ss[1] < ss[2]}, Nat)
  BY NatLessThanWellFounded DEF OpToRel

LEMMA LeastNumber ==
    ASSUME NEW T \in SUBSET Nat, T # {}
    PROVE  \E x \in T : \A y \in T : ~(y < x)
  <1> DEFINE R == {ss \in Nat \X Nat : ss[1] < ss[2]}
  <1>1. \A y, x \in Nat : y < x => <<y, x>> \in R
    OBVIOUS
  <1>2. IsWellFoundedOn(R, Nat)
    BY LessIsWellFounded
  <1> HIDE DEF R
  <1>3. PICK x \in T : \A y \in T : ~(<<y, x>> \in R)
    BY <1>2, WFMin
  <1>4. \A y \in T : ~(y < x)
    BY <1>1, <1>3
  <1> QED BY <1>4

LEMMA NumberInduction ==
    ASSUME NEW Top \in Nat, NEW T, 0 \in T, \A n \in Nat : n < Top /\ n \in T => n + 1 \in T
    PROVE  \A n \in 0 .. Top : n \in T
  <1> DEFINE Left == {n \in 0 .. Top : n \notin T}
  <1> SUFFICES ASSUME Left # {} PROVE FALSE
    OBVIOUS
  <1>1. Left \in SUBSET Nat
    OBVIOUS
  <1> HIDE DEF Left
  <1>2. PICK x \in Left : \A y \in Left : ~(y < x)
    BY <1>1, LeastNumber
  <1> USE DEF Left
  <1>3. x \in Nat /\ x <= Top /\ x \notin T /\ x # 0
    BY <1>2
  <1>4. x - 1 \in Nat /\ x - 1 < Top /\ x - 1 < x /\ (x - 1) + 1 = x
    BY <1>3
  <1>5. x - 1 \in T
    BY <1>2, <1>4
  <1> QED BY <1>3, <1>4, <1>5

\* f counts the steps of F from first on.
Iterates(f, Top, S, first, F) ==
    f \in [0 .. Top -> S] /\ \A i \in 0 .. Top : f[i] = IF i = 0 THEN first ELSE F[f[i - 1]]

\* A function defined by iterating a step exists.
LEMMA IterationExists ==
    ASSUME NEW Top \in Nat, NEW S, NEW first \in S, NEW F \in [S -> S]
    PROVE  \E f : Iterates(f, Top, S, first, F)
  <1> DEFINE Steps(f, m) == \A i \in 0 .. m : f[i] = IF i = 0 THEN first ELSE F[f[i - 1]]
             T == {m \in Nat : \E f \in [0 .. m -> S] : Steps(f, m)}
  <1>1. 0 \in T
    <2> DEFINE f0 == [i \in 0 .. 0 |-> first]
    <2>1. f0 \in [0 .. 0 -> S] /\ Steps(f0, 0)
      OBVIOUS
    <2> QED BY <2>1
  <1>2. ASSUME NEW m \in Nat, m \in T PROVE m + 1 \in T
    <2>1. PICK f \in [0 .. m -> S] : Steps(f, m)
      BY <1>2
    <2> DEFINE g == [i \in 0 .. (m + 1) |-> IF i <= m THEN f[i] ELSE F[f[m]]]
    <2>2. f[m] \in S /\ F[f[m]] \in S
      BY <2>1
    <2>3. g \in [0 .. (m + 1) -> S]
      BY <2>1, <2>2
    <2>4. ASSUME NEW i \in 0 .. (m + 1) PROVE g[i] = IF i = 0 THEN first ELSE F[g[i - 1]]
      <3>1. CASE i = 0
        BY <3>1, <2>1
      <3>2. CASE i # 0 /\ i <= m
        <4>1. i \in 0 .. m /\ i - 1 \in 0 .. m /\ i - 1 \in 0 .. (m + 1) /\ i - 1 <= m
          BY <3>2
        <4>2. g[i] = f[i] /\ g[i - 1] = f[i - 1]
          BY <4>1, <3>2
        <4> QED BY <4>1, <4>2, <3>2, <2>1
      <3>3. CASE i = m + 1
        <4>1. i - 1 = m /\ m \in 0 .. (m + 1) /\ i # 0 /\ ~(i <= m)
          BY <3>3
        <4>2. g[i] = F[f[m]] /\ g[m] = f[m]
          BY <4>1
        <4> QED BY <4>1, <4>2
      <3> QED BY <3>1, <3>2, <3>3
    <2>5. Steps(g, m + 1)
      BY <2>4
    <2> HIDE DEF g
    <2> QED BY <2>3, <2>5
  <1> HIDE DEF T
  <1>3. Top \in T
    BY <1>1, <1>2, NumberInduction
  <1> QED BY <1>3 DEF T, Iterates

-----------------------------------------------------------------------------
(* What is concluded of a process: the walk down from the applications.     *)

Size == Cardinality(FPids)

\* One generation further down: neither into a system image nor another root.
Downward(bs, kinds, roots, reached) ==
    reached \cup {k \in FPids \ roots : /\ kinds[k] # "system"
                                        /\ \E p \in reached : kinds[p] # "system" /\ Begot(bs, p, k)}

\* reached after n generations (the function in Members)
IsReach(bs, kinds, roots, reach) ==
    reach = [n \in 0 .. Size |-> IF n = 0 THEN roots ELSE Downward(bs, kinds, roots, reach[n - 1])]

LEMMA SizeIsNat == Size \in Nat
  BY FactsAssumption, FS_CardinalityType DEF Size

LEMMA ReachExists ==
    ASSUME NEW bs, NEW kinds, NEW roots
    PROVE  \E reach : IsReach(bs, kinds, roots, reach)
  <1> DEFINE S == SUBSET (roots \cup FPids)
             F == [x \in S |-> Downward(bs, kinds, roots, x)]
  <1>1. F \in [S -> S]
    BY DEF Downward
  <1>2. roots \in S
    OBVIOUS
  <1> HIDE DEF S, F
  <1>3. PICK f \in [0 .. Size -> S] : \A i \in 0 .. Size : f[i] = IF i = 0 THEN roots ELSE F[f[i - 1]]
    <2>1. \E f : Iterates(f, Size, S, roots, F)
      BY <1>1, <1>2, SizeIsNat, IterationExists
    <2> QED BY <2>1 DEF Iterates
  <1>4. ASSUME NEW i \in 0 .. Size
        PROVE  f[i] = IF i = 0 THEN roots ELSE Downward(bs, kinds, roots, f[i - 1])
    <2>1. CASE i = 0
      BY <1>3, <2>1
    <2>2. CASE i # 0
      <3>1. i - 1 \in 0 .. Size
        BY <2>2, SizeIsNat
      <3>2. f[i - 1] \in S
        BY <3>1, <1>3
      <3>3. F[f[i - 1]] = Downward(bs, kinds, roots, f[i - 1])
        BY <3>2 DEF F
      <3> QED BY <2>2, <3>3, <1>3
    <2> QED BY <2>1, <2>2
  <1>5. f = [n \in 0 .. Size |-> IF n = 0 THEN roots ELSE Downward(bs, kinds, roots, f[n - 1])]
    BY <1>3, <1>4
  <1> QED BY <1>5 DEF IsReach

LEMMA MembersAreReached ==
    ASSUME NEW bs, NEW kinds, NEW roots
    PROVE  \E reach : /\ IsReach(bs, kinds, roots, reach)
                      /\ Members(bs, kinds, roots) = {p \in reach[Size] : kinds[p] # "system"}
  <1> DEFINE r == CHOOSE reach : IsReach(bs, kinds, roots, reach)
  <1>1. IsReach(bs, kinds, roots, r)
    BY ReachExists, Zenon
  <1>2. Members(bs, kinds, roots) = {p \in r[Size] : kinds[p] # "system"}
    BY Zenon DEF Members, IsReach, Downward, Size
  <1> HIDE DEF r
  <1> QED BY <1>1, <1>2

\* Whoever is reached stays so; and who is not a root was reached from somebody that
\* begot it and is no system image.
LEMMA ReachGrows ==
    ASSUME NEW bs, NEW kinds, NEW roots, NEW reach, IsReach(bs, kinds, roots, reach)
    PROVE  /\ reach[0] = roots
           /\ \A n \in 1 .. Size : reach[n] = Downward(bs, kinds, roots, reach[n - 1])
           /\ \A n \in 0 .. Size : reach[n] \subseteq reach[Size]
  <1>1. reach[0] = roots /\ \A n \in 1 .. Size : reach[n] = Downward(bs, kinds, roots, reach[n - 1])
    BY SizeIsNat DEF IsReach
  <1>2. \A n \in 1 .. Size : reach[n - 1] \subseteq reach[n]
    BY <1>1 DEF Downward
  <1> DEFINE T == {n \in Nat : n <= Size => reach[Size - n] \subseteq reach[Size]}
  <1>3. 0 \in T
    BY SizeIsNat
  <1>4. ASSUME NEW n \in Nat, n < Size, n \in T PROVE n + 1 \in T
    <2>1. Size - n \in 1 .. Size /\ (Size - n) - 1 = Size - (n + 1)
      BY <1>4, SizeIsNat
    <2>2. reach[Size - (n + 1)] \subseteq reach[Size - n]
      BY <1>2, <2>1
    <2> QED BY <1>4, <2>2, SizeIsNat
  <1> HIDE DEF T
  <1>5. \A n \in 0 .. Size : n \in T
    BY <1>3, <1>4, SizeIsNat, NumberInduction
  <1>6. ASSUME NEW n \in 0 .. Size PROVE reach[n] \subseteq reach[Size]
    <2>1. Size - n \in 0 .. Size /\ Size - (Size - n) = n
      BY SizeIsNat
    <2> QED BY <1>5, <2>1 DEF T
  <1> QED BY <1>1, <1>6

LEMMA MemberHasStarter ==
    ASSUME NEW bs, NEW kinds, NEW roots, NEW k \in Members(bs, kinds, roots), k \notin roots
    PROVE  \E q \in Members(bs, kinds, roots) : Begot(bs, q, k)
  <1>1. PICK reach : /\ IsReach(bs, kinds, roots, reach)
                     /\ Members(bs, kinds, roots) = {p \in reach[Size] : kinds[p] # "system"}
    BY MembersAreReached
  <1> DEFINE T == {n \in Nat : n <= Size /\ k \in reach[n]}
  <1>2. Size \in T
    BY <1>1, SizeIsNat
  <1>3. T \in SUBSET Nat
    OBVIOUS
  <1>4. PICK n \in T : \A y \in T : ~(y < n)
    BY <1>2, <1>3, LeastNumber
  <1>5. n \in Nat /\ n <= Size /\ k \in reach[n] /\ n # 0
    BY <1>1, <1>4, ReachGrows
  <1>6. n \in 1 .. Size /\ n - 1 \in Nat /\ n - 1 <= Size /\ n - 1 < n /\ n - 1 \in 0 .. Size
    BY <1>5, SizeIsNat
  <1>7. k \notin reach[n - 1]
    BY <1>4, <1>6
  <1>8. k \in Downward(bs, kinds, roots, reach[n - 1])
    BY <1>1, <1>5, <1>6, ReachGrows
  <1>9. PICK p \in reach[n - 1] : kinds[p] # "system" /\ Begot(bs, p, k)
    BY <1>7, <1>8 DEF Downward
  <1>10. p \in reach[Size]
    BY <1>1, <1>6, <1>9, ReachGrows
  <1> QED BY <1>1, <1>9, <1>10

-----------------------------------------------------------------------------
(* What is concluded of a process: the category.                            *)

\* The verdict is the one on these processes.
CategoryInv == verdict # Unsaid => topic = "category" /\ verdict = Refined(beings)

LEMMA NoMemberIsSystem ==
    ASSUME NEW bs, NEW kinds, NEW roots, NEW p \in Members(bs, kinds, roots)
    PROVE  kinds[p] # "system"
  BY MembersAreReached

LEMMA CategoryInvHolds == FactsSpec => []CategoryInv
  <1>1. FactsInit => CategoryInv
    BY DEF FactsInit, CategoryInv
  <1>2. CategoryInv /\ [FactsNext]_factsVars => CategoryInv'
    <2> SUFFICES ASSUME CategoryInv, [FactsNext]_factsVars PROVE CategoryInv'
      OBVIOUS
    <2>1. CASE Categorise
      BY <2>1 DEF Categorise, CategoryInv
    <2>2. CASE UNCHANGED <<topic, beings, verdict>>
      BY <2>2 DEF CategoryInv
    <2> QED BY <2>1, <2>2 DEF FactsNext, OwnerTick, Reconfigured, Restarted, factsVars
  <1> QED BY <1>1, <1>2, PTL DEF FactsSpec

LEMMA CategoryFollows ==
    CategoryInv => NoForeignSystem /\ SystemIsABoundary
  <1> SUFFICES ASSUME CategoryInv, verdict # Unsaid PROVE NoForeignSystem /\ SystemIsABoundary
    BY DEF NoForeignSystem, SystemIsABoundary
  <1> DEFINE kinds == [p \in FPids |-> Classify(beings[p].sort)]
             roots == AppTops(beings)
             apps  == Members(beings, kinds, roots)
  <1>1. verdict = [cats |-> [p \in FPids |-> IF p \in apps THEN "app" ELSE kinds[p]], roots |-> roots]
    BY DEF CategoryInv, Refined
  <1>2. ASSUME NEW p \in apps PROVE kinds[p] # "system"
    BY NoMemberIsSystem
  <1>3. ASSUME NEW p \in apps, p \notin roots PROVE \E q \in apps : Begot(beings, q, p)
    BY <1>3, MemberHasStarter
  <1>4. ASSUME NEW p \in FPids PROVE kinds[p] = Classify(beings[p].sort)
    OBVIOUS
  <1> HIDE DEF apps, kinds, roots
  <1>5. verdict.roots = roots /\ \A p \in FPids : verdict.cats[p] = IF p \in apps THEN "app" ELSE kinds[p]
    BY <1>1
  <1>6. NoForeignSystem
    BY <1>4, <1>5 DEF NoForeignSystem, Classify
  <1>7. ASSUME NEW p \in FPids, Classify(beings[p].sort) = "system" PROVE verdict.cats[p] = "system"
    BY <1>2, <1>4, <1>5, <1>7
  <1>8. ASSUME NEW p \in FPids, verdict.cats[p] = "app", ~beings[p].sort.window, p \notin verdict.roots
        PROVE  \E q \in FPids : verdict.cats[q] = "app" /\ Begot(beings, q, p)
    <2>1. p \in apps
      BY <1>4, <1>5, <1>8 DEF Classify
    <2>2. PICK q \in apps : Begot(beings, q, p)
      BY <1>3, <1>5, <1>8, <2>1
    <2>3. q \in FPids
      BY <2>2 DEF Begot
    <2> QED BY <1>5, <2>2, <2>3
  <1> QED BY <1>6, <1>7, <1>8 DEF SystemIsABoundary

-----------------------------------------------------------------------------
(* What is concluded of a process: its owner.                               *)

OtherFacts == [account : Accounts, readable : BOOLEAN, core : BOOLEAN, verified : BOOLEAN,
               sameImage : BOOLEAN, window : BOOLEAN, child : BOOLEAN]

\* The two processes: a service host is no core image, and a verified core image runs as
\* SYSTEM and shares no image with it.
WorldInv ==
    topic = "owner" =>
        /\ world \in [configured : Accounts, host : Facts, other : OtherFacts]
        /\ ~world.host.core
        /\ world.other.core /\ world.other.verified => world.other.account = "SYSTEM" /\ ~world.other.sameImage

\* A published account is out of date no longer than the cached one is old.
CacheInv ==
    /\ outdated \in Nat /\ configs.age \in Nat
    /\ configs = [account |-> configs.account, age |-> configs.age]
    /\ outdated <= configs.age /\ configs.age <= ConfigTtl + 1

LEMMA WorldInit == FactsInit => WorldInv
  <1> SUFFICES ASSUME FactsInit, topic = "owner" PROVE WorldInv
    BY DEF WorldInv
  <1>1. world \in Worlds /\ Sound(world)
    BY DEF FactsInit
  <1>2. PICK h \in {f \in Facts : ~f.core}, o \in Facts, s \in BOOLEAN, w \in BOOLEAN, c \in BOOLEAN :
           world = [configured |-> h.account, host |-> h,
                    other |-> [account |-> o.account, readable |-> o.readable, core |-> o.core,
                               verified |-> o.verified, sameImage |-> s, window |-> w, child |-> c]]
    BY <1>1 DEF Worlds
  <1> DEFINE other == [account |-> o.account, readable |-> o.readable, core |-> o.core,
                       verified |-> o.verified, sameImage |-> s, window |-> w, child |-> c]
  <1>3. other \in OtherFacts
    BY DEF Facts, OtherFacts
  <1>4. h \in Facts /\ ~h.core /\ h.account \in Accounts
    BY DEF Facts
  <1>5. world = [configured |-> h.account, host |-> h, other |-> other]
    BY <1>2
  <1> HIDE DEF other
  <1>6. world \in [configured : Accounts, host : Facts, other : OtherFacts] /\ world.host = h
    BY <1>3, <1>4, <1>5
  <1> QED BY <1>1, <1>4, <1>6 DEF WorldInv, Sound

LEMMA WorldStep == WorldInv /\ [FactsNext]_factsVars => WorldInv'
  <1> SUFFICES ASSUME WorldInv, [FactsNext]_factsVars PROVE WorldInv'
    OBVIOUS
  <1>1. CASE UNCHANGED <<topic, world>>
    BY <1>1 DEF WorldInv
  <1>2. CASE Reconfigured
    <2>1. PICK account \in Accounts : world' = [world EXCEPT !.configured = account]
      BY <1>2 DEF Reconfigured
    <2>2. topic = "owner" /\ topic' = "owner"
      BY <1>2 DEF Reconfigured
    <2>3. world \in [configured : Accounts, host : Facts, other : OtherFacts]
      BY <2>2 DEF WorldInv
    <2>4. /\ world' \in [configured : Accounts, host : Facts, other : OtherFacts]
          /\ world'.host = world.host /\ world'.other = world.other
      BY <2>1, <2>3
    <2> QED BY <2>2, <2>4 DEF WorldInv
  <1>3. CASE Restarted
    <2> DEFINE own == IF world.other.child /\ world.other.sameImage THEN world.configured ELSE world.other.account
               host == [world.host EXCEPT !.account = world.configured]
               other == [world.other EXCEPT !.account = own]
    <2>1. topic = "owner" /\ topic' = "owner"
      BY <1>3 DEF Restarted
    <2>2. /\ world \in [configured : Accounts, host : Facts, other : OtherFacts]
          /\ world.host \in Facts /\ world.other \in OtherFacts /\ world.configured \in Accounts
      BY <2>1 DEF WorldInv
    <2>3. world' = [world EXCEPT !.host = host, !.other = other]
      BY <1>3, <2>2 DEF Restarted
    <2>4. own \in Accounts
      BY <2>2 DEF OtherFacts
    <2>5. host \in Facts /\ host.core = world.host.core
      BY <2>2 DEF Facts
    <2>6. /\ other \in OtherFacts /\ other.account = own /\ other.core = world.other.core
          /\ other.verified = world.other.verified /\ other.sameImage = world.other.sameImage
      <3> HIDE DEF own
      <3> QED BY <2>2, <2>4 DEF OtherFacts
    <2>7. ~world.other.sameImage => own = world.other.account
      OBVIOUS
    <2> HIDE DEF own, host, other
    <2>8. /\ world' \in [configured : Accounts, host : Facts, other : OtherFacts]
          /\ world'.host = host /\ world'.other = other
      BY <2>2, <2>3, <2>5, <2>6
    <2> QED BY <2>1, <2>5, <2>6, <2>7, <2>8 DEF WorldInv
  <1> QED BY <1>1, <1>2, <1>3 DEF FactsNext, Categorise, OwnerTick, factsVars

\* A tick ages the cached account, and reads it again when it is too old: an account
\* that is not the configured one was read before the change, at most that long ago.
LEMMA TickCache == ASSUME WorldInv, CacheInv, OwnerTick PROVE CacheInv'
  <1>1. PICK answers \in BOOLEAN :
          LET aged   == [configs EXCEPT !.age = IF @ > ConfigTtl THEN @ ELSE @ + 1]
              cache  == IF answers THEN CatalogRead(aged, world.configured) ELSE
                        IF aged.age > ConfigTtl THEN [account |-> Unsaid, age |-> 0] ELSE aged
              acct == IF answers THEN cache.account ELSE Unsaid
              host   == Owner(world.host, acct)
          IN  /\ configs' = cache
              /\ outdated' = IF world.host.readable \/ host \in {Unsaid, world.configured} THEN 0
                             ELSE IF outdated > ConfigTtl + 1 THEN outdated ELSE outdated + 1
    BY DEF OwnerTick
  <1> DEFINE age   == IF configs.age > ConfigTtl THEN configs.age ELSE configs.age + 1
             aged  == [configs EXCEPT !.age = IF @ > ConfigTtl THEN @ ELSE @ + 1]
             cache == IF answers THEN CatalogRead(aged, world.configured) ELSE
                      IF aged.age > ConfigTtl THEN [account |-> Unsaid, age |-> 0] ELSE aged
             host  == Owner(world.host, IF answers THEN cache.account ELSE Unsaid)
  <1>2. /\ configs' = cache
        /\ outdated' = IF world.host.readable \/ host \in {Unsaid, world.configured} THEN 0
                       ELSE IF outdated > ConfigTtl + 1 THEN outdated ELSE outdated + 1
    BY <1>1
  <1>3. /\ outdated \in Nat /\ configs.age \in Nat /\ outdated <= configs.age /\ configs.age <= ConfigTtl + 1
        /\ configs = [account |-> configs.account, age |-> configs.age]
        /\ ConfigTtl \in Nat
    BY FactsAssumption DEF CacheInv
  <1>4. aged = [account |-> configs.account, age |-> age]
    BY <1>3
  <1>5. age \in Nat /\ age <= ConfigTtl + 1 /\ (age <= ConfigTtl => age = configs.age + 1)
    BY <1>3
  <1> HIDE DEF aged, age
  <1>6. aged.age = age /\ aged.account = configs.account
    BY <1>4
  <1>7. \/ cache = aged /\ (answers => age <= ConfigTtl)
        \/ cache = [account |-> world.configured, age |-> 0] /\ answers
        \/ cache = [account |-> Unsaid, age |-> 0]
    BY <1>5, <1>6, <1>3 DEF CatalogRead
  <1>8. topic = "owner" /\ ~world.host.core
    BY DEF OwnerTick, WorldInv
  <1>9. ASSUME ~world.host.readable
        PROVE  host = IF answers THEN cache.account ELSE Unsaid
    BY <1>8, <1>9 DEF Owner, RoleAccount
  <1> HIDE DEF cache, host
  <1>10. CASE world.host.readable \/ host \in {Unsaid, world.configured}
    <2>1. outdated' = 0
      BY <1>2, <1>10
    <2>2. cache.age \in Nat /\ cache.age <= ConfigTtl + 1 /\ cache = [account |-> cache.account, age |-> cache.age]
      BY <1>3, <1>4, <1>5, <1>7
    <2> QED BY <1>2, <2>1, <2>2 DEF CacheInv
  <1>11. CASE ~world.host.readable /\ host \notin {Unsaid, world.configured}
    <2>1. answers /\ cache.account \notin {Unsaid, world.configured}
      BY <1>9, <1>11
    <2>2. cache = aged /\ age <= ConfigTtl
      BY <1>7, <2>1
    <2>3. outdated' = outdated + 1
      BY <1>2, <1>3, <1>11
    <2>4. configs' = [account |-> configs.account, age |-> configs.age + 1]
      BY <1>2, <1>4, <1>5, <2>2
    <2> QED BY <1>3, <1>5, <2>2, <2>3, <2>4 DEF CacheInv
  <1> QED BY <1>10, <1>11

\* What is published of the two processes is read from the token, known of a verified
\* core image, or inherited by a child of the same image; whoever bears a service account
\* is shown elevated.
LEMMA TickOwner ==
    ASSUME WorldInv, OwnerTick
    PROVE  NoInventedOwner' /\ AccountMeansElevated'
  <1>1. PICK acct, given :
          LET host  == Owner(world.host, acct)
              own   == Owner(world.other, Unsaid)
              final == Inherited(world, given, own)
          IN  stated' = [host  |-> [user |-> host, elevated |-> ElevatedLast(world.host, host, host)],
                         other |-> [user |-> final, elevated |-> ElevatedLast(world.other, own, final)]]
    BY DEF OwnerTick
  <1> DEFINE host  == Owner(world.host, acct)
             own   == Owner(world.other, Unsaid)
             final == Inherited(world, given, own)
             hostUp == ElevatedLast(world.host, host, host)
             otherUp == ElevatedLast(world.other, own, final)
  <1>2. /\ topic = "owner" /\ world' = world /\ topic' = topic
        /\ world \in [configured : Accounts, host : Facts, other : OtherFacts]
        /\ world.host \in Facts /\ world.other \in OtherFacts
        /\ world.other.core /\ world.other.verified => world.other.account = "SYSTEM" /\ ~world.other.sameImage
    BY DEF OwnerTick, WorldInv
  <1>3. /\ world.host.account \in Accounts /\ world.other.account \in Accounts
        /\ world.host.readable \in BOOLEAN /\ world.other.readable \in BOOLEAN
    BY <1>2 DEF Facts, OtherFacts
  <1>4. Unsaid \notin {"SYSTEM", "SERVICE", "user", "yes", "no"}
    BY FactsAssumption
  <1>5. host # Unsaid /\ Privileged(host) => hostUp = "yes"
    <2>1. CASE world.host.readable
      BY <1>4, <2>1 DEF Owner, ElevatedLast, Elevation
    <2>2. CASE ~world.host.readable
      <3> HIDE DEF host
      <3> QED BY <1>4, <2>2 DEF ElevatedLast, Elevation
    <2> QED BY <2>1, <2>2
  <1>6. world.other.readable => own = world.other.account /\ final = own
    BY <1>3, <1>4 DEF Owner, Inherited, Accounts
  <1>7. final # Unsaid /\ Privileged(final) => otherUp = "yes"
    <2>1. CASE world.other.readable
      <3> HIDE DEF own, final
      <3> QED BY <1>4, <1>6, <2>1 DEF ElevatedLast, Elevation
    <2>2. CASE ~world.other.readable
      <3> HIDE DEF own, final
      <3> QED BY <1>4, <2>2 DEF ElevatedLast, Elevation
    <2> QED BY <2>1, <2>2
  <1>8. final # Unsaid /\ ~world.other.sameImage => final = world.other.account
    BY <1>2, <1>4 DEF Owner, Inherited, RoleAccount
  <1>9. stated' = [host |-> [user |-> host, elevated |-> hostUp], other |-> [user |-> final, elevated |-> otherUp]]
    BY <1>1
  <1> HIDE DEF host, own, final, hostUp, otherUp
  <1>10. /\ stated'.host = [user |-> host, elevated |-> hostUp]
         /\ stated'.other = [user |-> final, elevated |-> otherUp]
    BY <1>9
  <1>11. /\ stated'.host.user = host /\ stated'.host.elevated = hostUp
         /\ stated'.other.user = final /\ stated'.other.elevated = otherUp
    BY <1>10
  <1>12. NoInventedOwner'
    BY <1>2, <1>8, <1>11 DEF NoInventedOwner
  <1>13. AccountMeansElevated'
    BY <1>5, <1>7, <1>11 DEF AccountMeansElevated
  <1> QED BY <1>12, <1>13

LEMMA OwnerInit == FactsInit => CacheInv /\ NoInventedOwner /\ AccountMeansElevated
  <1> SUFFICES ASSUME FactsInit PROVE CacheInv /\ NoInventedOwner /\ AccountMeansElevated
    OBVIOUS
  <1>1. configs = [account |-> Unsaid, age |-> 0] /\ outdated = 0 /\ ConfigTtl \in Nat
    BY FactsAssumption DEF FactsInit
  <1>2. CacheInv
    BY <1>1 DEF CacheInv
  <1>3. stated = [host |-> [user |-> Unsaid, elevated |-> Unsaid], other |-> [user |-> Unsaid, elevated |-> Unsaid]]
    BY DEF FactsInit
  <1>4. stated.host.user = Unsaid /\ stated.other.user = Unsaid
    BY <1>3
  <1> QED BY <1>2, <1>4 DEF NoInventedOwner, AccountMeansElevated

\* A restart or a new configuration does not take back what was published of a process
\* that shares no image with the host.
LEMMA OwnerStep ==
    WorldInv /\ CacheInv /\ NoInventedOwner /\ AccountMeansElevated /\ [FactsNext]_factsVars
      => CacheInv' /\ NoInventedOwner' /\ AccountMeansElevated'
  <1> SUFFICES ASSUME WorldInv, CacheInv, NoInventedOwner, AccountMeansElevated, [FactsNext]_factsVars
               PROVE  CacheInv' /\ NoInventedOwner' /\ AccountMeansElevated'
    OBVIOUS
  <1>1. CASE OwnerTick
    BY <1>1, TickCache, TickOwner
  <1>2. CASE UNCHANGED <<topic, world, configs, stated, outdated>>
    BY <1>2 DEF CacheInv, NoInventedOwner, AccountMeansElevated
  <1>3. CASE Reconfigured \/ Restarted
    <2>1. /\ topic = "owner" /\ topic' = topic /\ configs' = configs /\ stated' = stated /\ outdated' = outdated
      BY <1>3 DEF Reconfigured, Restarted
    <2>2. CacheInv' /\ AccountMeansElevated'
      BY <2>1 DEF CacheInv, AccountMeansElevated
    <2>3. world \in [configured : Accounts, host : Facts, other : OtherFacts] /\ world.other \in OtherFacts
      BY <2>1 DEF WorldInv
    <2>4. /\ world'.other.sameImage = world.other.sameImage
          /\ ~world.other.sameImage => world'.other.account = world.other.account
      <3>1. CASE Reconfigured
        <4>1. PICK account \in Accounts : world' = [world EXCEPT !.configured = account]
          BY <3>1 DEF Reconfigured
        <4>2. world'.other = world.other
          BY <4>1, <2>3
        <4> QED BY <4>2
      <3>2. CASE Restarted
        <4> DEFINE own == IF world.other.child /\ world.other.sameImage THEN world.configured ELSE world.other.account
                   other == [world.other EXCEPT !.account = own]
        <4>1. world'.other = other
          BY <3>2, <2>3 DEF Restarted
        <4>2. ~world.other.sameImage => own = world.other.account
          OBVIOUS
        <4> HIDE DEF own
        <4>3. other.sameImage = world.other.sameImage /\ other.account = own
          BY <2>3 DEF OtherFacts
        <4> QED BY <4>1, <4>2, <4>3
      <3> QED BY <1>3, <3>1, <3>2
    <2>5. NoInventedOwner'
      BY <2>1, <2>4 DEF NoInventedOwner
    <2> QED BY <2>2, <2>5
  <1> QED BY <1>1, <1>2, <1>3 DEF FactsNext, Categorise, factsVars

\* What the sampler concludes of a process it can hardly look into is sound, for every
\* forest of processes, with reused and cyclic parent PIDs, and for every pair of a
\* service host and its child, whatever is reconfigured and restarted and whichever
\* enumeration of the services fails.
THEOREM FactsAreSound == FactsSpec => []FactsSound
  <1>1. FactsInit => WorldInv /\ CacheInv /\ NoInventedOwner /\ AccountMeansElevated
    BY WorldInit, OwnerInit
  <1>2. /\ WorldInv /\ CacheInv /\ NoInventedOwner /\ AccountMeansElevated /\ [FactsNext]_factsVars
          => WorldInv' /\ CacheInv' /\ NoInventedOwner' /\ AccountMeansElevated'
    BY WorldStep, OwnerStep
  <1>3. CacheInv => OwnerSettles
    BY FactsAssumption DEF CacheInv, OwnerSettles
  <1>4. CategoryInv /\ CacheInv /\ NoInventedOwner /\ AccountMeansElevated => FactsSound
    BY <1>3, CategoryFollows DEF FactsSound
  <1> QED BY <1>1, <1>2, <1>4, CategoryInvHolds, PTL DEF FactsSpec

-----------------------------------------------------------------------------
(* What is done to a process: the inductive invariant.                      *)

\* Every process is somebody's PID at most once, has a number nobody had before it, and
\* descends from whoever it names as its parent and is older.
ProcessesTold ==
    /\ IsFiniteSet(past) /\ sec \in Nat
    /\ DOMAIN proc = AllPids
    /\ \A q \in AllPids : proc[q] # NoProc => proc[q] \in past /\ proc[q].pid = q
    /\ \A p \in past : p.id \in Nat /\ p.id <= Cardinality(past) /\ p.pid \in AllPids /\ p.sec \in Nat
    /\ \A c \in past : \A q \in AllPids : proc[q] # NoProc /\ ChildOf(c, proc[q]) =>
          proc[q].id \in c.above /\ proc[q].above \subseteq c.above

Holding == {"list", "snap", "verify", "act", "kids"}

\* The handle is of a process the row can stand for, which may be changed if it is to be.
\* (open_process_verified)
HandleMeant ==
    step \in Holding =>
        /\ handle \in past /\ handle # NoProc /\ handle.pid = ask.pid
        /\ Matches(handle, ask.start)
        /\ Destructive(ask.op) => ~handle.critical
        /\ SlowsSelf(ask.op) => ask.pid # GuiPid

\* Where an operation can be, and what the service has let through. (checked_target)
StepsTold ==
    /\ ask.pid \in AllPids /\ (ask.start = NoStart \/ ask.start \in Nat)
    /\ side \in {"local", "service"} /\ trouble \in BOOLEAN
    /\ step = "list" => ask.op = "tree"
    /\ step = "kids" => ask.op = "tree"
    /\ step = "act" => ask.op # "tree" /\ ask.op # "modules"
    /\ step = "verify" => ask.op \in {"tree", "modules", "unload"}
    /\ step = "snap" => ask.op \in {"modules", "unload"}
    /\ step \in {"idle", "route"} => side = "local"
    /\ step = "check" => side = "service"
    /\ side = "service" => ask.start # NoStart
    /\ side = "service" /\ step \in Holding \cup {"open"} /\ Targeted(ask.op) => ask.pid \notin Protected
    /\ step # "done" => outcome = "none"
    /\ step \notin {"kids", "done"} => hits = {}
    /\ refused => step = "done" /\ hits = {}

\* The children still to end are of the tree, and one that is not to be ended any more is
\* not there, or spared. (kill_process_excluding)
TreeTold ==
    /\ step = "kids" \/ (step = "verify" /\ ask.op = "tree" /\ StillThere(handle)) =>
          \A k \in kids : \E p \in past : k = Key(p) /\ handle.id \in p.above
    /\ step \in {"verify", "kids"} /\ ask.op = "tree" =>
          \A p \in listed : /\ p \in past /\ p # NoProc
                            /\ \/ trouble \/ Key(p) \in kids
                               \/ p.pid \in {Own, GuiPid} \/ proc[p.pid] # p

\* The modules that were listed are those of the handle's process. (verify_pid_still_refers_to)
ModulesTold == step = "verify" /\ ask.op = "modules" /\ StillThere(handle) => seen = handle

ActionInv ==
    /\ ProcessesTold /\ HandleMeant /\ StepsTold /\ TreeTold /\ ModulesTold
    /\ OnlyMeant /\ CriticalSafe /\ SelfSafe /\ RefusalStands /\ ShownMeant

-----------------------------------------------------------------------------
(* What is done to a process: the tree.                                     *)

Grown(S) == S \cup {c \in ActAlive : \E p \in S : ChildOf(c, p)}

\* reached after n generations (the function in Descendants)
IsKin(root, reach) ==
    reach = [n \in 0 .. Cardinality(AllPids) |-> IF n = 0 THEN {root} ELSE Grown(reach[n - 1])]

LEMMA PidsAreFew == Cardinality(AllPids) \in Nat
  <1>1. IsFiniteSet(Pids) /\ IsFiniteSet({GuiPid}) /\ IsFiniteSet({SvcPid})
    BY ActionAssumption, FS_Singleton
  <1>2. IsFiniteSet(Pids \cup {GuiPid, SvcPid})
    <2>1. IsFiniteSet((Pids \cup {GuiPid}) \cup {SvcPid})
      BY <1>1, FS_Union
    <2>2. (Pids \cup {GuiPid}) \cup {SvcPid} = Pids \cup {GuiPid, SvcPid}
      OBVIOUS
    <2> QED BY <2>1, <2>2
  <1> QED BY <1>2, FS_CardinalityType DEF AllPids

LEMMA KinExists == ASSUME NEW root PROVE \E reach : IsKin(root, reach)
  <1> DEFINE Top == Cardinality(AllPids)
             S == SUBSET ({root} \cup ActAlive)
             F == [x \in S |-> Grown(x)]
  <1>1. F \in [S -> S]
    BY DEF Grown
  <1>2. {root} \in S
    OBVIOUS
  <1>3. Top \in Nat
    BY PidsAreFew
  <1> HIDE DEF S, F, Top
  <1>4. PICK f \in [0 .. Top -> S] : \A i \in 0 .. Top : f[i] = IF i = 0 THEN {root} ELSE F[f[i - 1]]
    <2>1. \E f : Iterates(f, Top, S, {root}, F)
      BY <1>1, <1>2, <1>3, IterationExists
    <2> QED BY <2>1 DEF Iterates
  <1>5. ASSUME NEW i \in 0 .. Top
        PROVE  f[i] = IF i = 0 THEN {root} ELSE Grown(f[i - 1])
    <2>1. CASE i = 0
      BY <1>4, <2>1
    <2>2. CASE i # 0
      <3>1. i - 1 \in 0 .. Top
        BY <1>3, <2>2
      <3>2. f[i - 1] \in S
        BY <3>1, <1>4
      <3>3. F[f[i - 1]] = Grown(f[i - 1])
        BY <3>2 DEF F
      <3> QED BY <2>2, <3>3, <1>4
    <2> QED BY <2>1, <2>2
  <1>6. f = [n \in 0 .. Top |-> IF n = 0 THEN {root} ELSE Grown(f[n - 1])]
    BY <1>4, <1>5
  <1> QED BY <1>6 DEF IsKin, Top

LEMMA DescendantsAreKin ==
    ASSUME NEW root
    PROVE  \E reach : IsKin(root, reach) /\ Descendants(root) = reach[Cardinality(AllPids)] \ {root}
  <1> DEFINE r == CHOOSE reach : IsKin(root, reach)
  <1>1. IsKin(root, r)
    BY KinExists, Zenon
  <1>2. Descendants(root) = r[Cardinality(AllPids)] \ {root}
    BY Zenon DEF Descendants, IsKin, Grown
  <1> HIDE DEF r
  <1> QED BY <1>1, <1>2

\* Who is found below a process that is still there descends from it: nobody in between
\* can have been born before it. (descendants)
LEMMA DescendantsDescend ==
    ASSUME ProcessesTold, NEW root, NEW d \in Descendants(root)
    PROVE  /\ d \in past /\ d # NoProc
           /\ root # NoProc /\ root \in past /\ StillThere(root) => root.id \in d.above
  <1> DEFINE Top == Cardinality(AllPids)
             there == root # NoProc /\ root \in past /\ StillThere(root)
  <1>1. PICK reach : IsKin(root, reach) /\ Descendants(root) = reach[Top] \ {root}
    BY DescendantsAreKin
  <1>2. Top \in Nat
    BY PidsAreFew
  <1> HIDE DEF Top
  <1>3. /\ reach[0] = {root}
        /\ \A n \in Nat : n < Top => reach[n + 1] = Grown(reach[n])
    <2>1. \A n \in 0 .. Top : reach[n] = IF n = 0 THEN {root} ELSE Grown(reach[n - 1])
      BY <1>1 DEF IsKin, Top
    <2>2. reach[0] = {root}
      BY <1>2, <2>1
    <2>3. ASSUME NEW n \in Nat, n < Top PROVE reach[n + 1] = Grown(reach[n])
      <3>1. n + 1 \in 0 .. Top /\ n + 1 # 0 /\ (n + 1) - 1 = n
        BY <1>2, <2>3
      <3> QED BY <2>1, <3>1
    <2> QED BY <2>2, <2>3
  <1>4. \A c \in ActAlive : c \in past /\ c # NoProc /\ proc[c.pid] = c /\ c.pid \in AllPids
    BY DEF ActAlive, ProcessesTold
  <1> DEFINE Fine(x) == /\ x = root \/ x \in ActAlive
                        /\ there => x \in ActAlive /\ (x = root \/ root.id \in x.above)
             T == {n \in Nat : \A x \in reach[n] : Fine(x)}
  <1>5. there => root \in ActAlive
    BY DEF ActAlive, StillThere, ProcessesTold
  <1>6. 0 \in T
    BY <1>3, <1>5
  <1>7. ASSUME NEW n \in Nat, n < Top, n \in T PROVE n + 1 \in T
    <2>1. ASSUME NEW x \in reach[n + 1] PROVE Fine(x)
      <3>1. reach[n + 1] = reach[n] \cup {c \in ActAlive : \E p \in reach[n] : ChildOf(c, p)}
        BY <1>3, <1>7 DEF Grown
      <3>2. CASE x \in reach[n]
        BY <1>7, <3>2
      <3>3. CASE x \in ActAlive /\ \E p \in reach[n] : ChildOf(x, p)
        <4>1. PICK p \in reach[n] : ChildOf(x, p)
          BY <3>3
        <4>2. Fine(p)
          BY <1>7
        <4>3. there => root.id \in x.above
          <5> SUFFICES ASSUME there PROVE root.id \in x.above
            OBVIOUS
          <5>1. p \in ActAlive /\ (p = root \/ root.id \in p.above)
            BY <4>2
          <5>2. proc[p.pid] = p /\ p # NoProc /\ p.pid \in AllPids /\ x \in past
            BY <1>4, <3>3, <5>1
          <5>3. p.id \in x.above /\ p.above \subseteq x.above
            BY <4>1, <5>2 DEF ProcessesTold
          <5> QED BY <5>1, <5>3
        <4> QED BY <3>3, <4>3
      <3> QED BY <3>1, <3>2, <3>3
    <2> QED BY <2>1
  <1> HIDE DEF T
  <1>8. Top \in T
    BY <1>2, <1>6, <1>7, NumberInduction
  <1>9. d \in reach[Top] /\ d # root
    BY <1>1
  <1>10. Fine(d)
    BY <1>8, <1>9 DEF T
  <1> QED BY <1>4, <1>9, <1>10

-----------------------------------------------------------------------------
(* What is done to a process: the machine.                                  *)

\* A process that is gone does not come back.
NoneReturns == \A p \in past : p # NoProc /\ proc'[p.pid] = p => proc[p.pid] = p

LEMMA ProcessEnds ==
    ASSUME ProcessesTold, NEW q \in AllPids, proc' = [proc EXCEPT ![q] = NoProc],
           past' = past, sec' = sec
    PROVE  ProcessesTold' /\ NoneReturns
  <1>1. \A x \in AllPids : proc'[x] = IF x = q THEN NoProc ELSE proc[x]
    BY DEF ProcessesTold
  <1>2. \A x \in AllPids : proc'[x] # NoProc => proc'[x] = proc[x]
    BY <1>1
  <1>3. DOMAIN proc' = AllPids
    BY DEF ProcessesTold
  <1>4. NoneReturns
    BY <1>2 DEF ProcessesTold, NoneReturns
  <1>5. \A x \in AllPids : proc'[x] # NoProc => proc'[x] \in past /\ proc'[x].pid = x
    BY <1>2 DEF ProcessesTold
  <1>6. \A c \in past : \A x \in AllPids : proc'[x] # NoProc /\ ChildOf(c, proc'[x]) =>
          proc'[x].id \in c.above /\ proc'[x].above \subseteq c.above
    BY <1>2 DEF ProcessesTold
  <1> QED BY <1>3, <1>4, <1>5, <1>6 DEF ProcessesTold

LEMMA BirthKeeps ==
    ASSUME ProcessesTold, NEW q, NEW up \in AllPids, Starts(q, up)
    PROVE  ProcessesTold' /\ NoneReturns /\ past \subseteq past'
  <1>1. PICK n : n = Process(Cardinality(past) + 1, q, sec, up, up = SvcPid,
                              proc[up].above \cup {proc[up].id})
    OBVIOUS
  <1>2. /\ proc' = [proc EXCEPT ![q] = n] /\ past' = past \cup {n} /\ sec' = sec
        /\ proc[q] = NoProc /\ proc[up] # NoProc /\ q \in AllPids /\ q # up
    BY <1>1 DEF Starts, AllPids
  <1>3. /\ n.id = Cardinality(past) + 1 /\ n.pid = q /\ n.sec = sec /\ n.parent = up
        /\ n.above = proc[up].above \cup {proc[up].id}
    BY <1>1 DEF Process
  <1>4. Cardinality(past) \in Nat
    BY FS_CardinalityType DEF ProcessesTold
  <1>5. n \notin past
    BY <1>3, <1>4 DEF ProcessesTold
  <1>6. IsFiniteSet(past') /\ Cardinality(past') = Cardinality(past) + 1
    BY <1>2, <1>5, FS_AddElement DEF ProcessesTold
  <1>7. \A x \in AllPids : proc'[x] = IF x = q THEN n ELSE proc[x]
    BY <1>2 DEF ProcessesTold
  <1>8. DOMAIN proc' = AllPids
    BY <1>2 DEF ProcessesTold
  <1>9. \A x \in AllPids : proc'[x] # NoProc => proc'[x] \in past' /\ proc'[x].pid = x
    BY <1>2, <1>3, <1>7 DEF ProcessesTold
  <1>10. \A p \in past' : /\ p.id \in Nat /\ p.id <= Cardinality(past') /\ p.pid \in AllPids
                          /\ p.sec \in Nat
    <2> TAKE p \in past'
    <2>1. CASE p = n
      BY <1>2, <1>3, <1>4, <1>6, <2>1 DEF ProcessesTold
    <2>2. CASE p \in past
      BY <1>4, <1>6, <2>2 DEF ProcessesTold
    <2> QED BY <1>2, <2>1, <2>2
  <1>11. ASSUME NEW c \in past', NEW x \in AllPids, proc'[x] # NoProc, ChildOf(c, proc'[x])
         PROVE  proc'[x].id \in c.above /\ proc'[x].above \subseteq c.above
    <2>1. CASE c = n /\ x # q
      <3>1. proc'[x] = proc[x] /\ proc[x].pid = x
        BY <1>7, <1>11, <2>1 DEF ProcessesTold
      <3>2. x = up
        BY <1>3, <1>11, <2>1, <3>1 DEF ChildOf
      <3> QED BY <1>3, <2>1, <3>1, <3>2
    <2>2. CASE c \in past /\ x # q
      BY <1>7, <1>11, <2>2 DEF ProcessesTold
    <2>3. CASE x = q
      <3>1. proc'[x] = n
        BY <1>7, <2>3
      <3>2. c.id >= n.id /\ c.pid # n.pid
        BY <1>11, <3>1 DEF ChildOf
      <3>3. c \in past
        BY <1>2, <3>2
      <3> QED BY <1>3, <1>4, <3>2, <3>3 DEF ProcessesTold
    <2> QED BY <1>2, <2>1, <2>2, <2>3
  <1>12. NoneReturns
    <2> SUFFICES ASSUME NEW p \in past, p # NoProc, proc'[p.pid] = p PROVE proc[p.pid] = p
      BY DEF NoneReturns
    <2>1. p.pid \in AllPids
      BY DEF ProcessesTold
    <2> QED BY <1>5, <1>7, <2>1
  <1>13. sec' \in Nat
    BY <1>2 DEF ProcessesTold
  <1> QED BY <1>2, <1>6, <1>8, <1>9, <1>10, <1>11, <1>12, <1>13 DEF ProcessesTold

\* What was concluded of the operation stays so when the machine moves on.
LEMMA MeantStays ==
    ASSUME past \subseteq past', ask' = ask
    PROVE  /\ Meant \subseteq Meant' /\ Below \subseteq Below'
           /\ \A p : (Same(p, Meant) => Same(p, Meant')) /\ (Same(p, Below) => Same(p, Below'))
  <1>1. Meant \subseteq Meant'
    BY DEF Meant
  <1>2. Below \subseteq Below'
    BY <1>1 DEF Below
  <1> QED BY <1>1, <1>2 DEF Same

LEMMA MachineMoves ==
    ASSUME ActionInv, ProcessesTold', NoneReturns, past \subseteq past', step # "done",
           UNCHANGED <<ask, step, side, work, refused>>
    PROVE  ActionInv'
  <1> USE DEF work
  <1>1. HandleMeant'
    BY DEF ActionInv, HandleMeant
  <1>2. StepsTold'
    BY DEF ActionInv, StepsTold
  <1>3. step \in Holding => (StillThere(handle)' => StillThere(handle))
    BY DEF ActionInv, HandleMeant, StillThere, NoneReturns
  <1>4. TreeTold'
    <2>1. ASSUME step = "kids" \/ (step = "verify" /\ ask.op = "tree" /\ StillThere(handle)'), NEW k \in kids
          PROVE  \E p \in past' : k = Key(p) /\ handle.id \in p.above
      BY <1>3, <2>1 DEF ActionInv, TreeTold, Holding
    <2>2. ASSUME step \in {"verify", "kids"} /\ ask.op = "tree", NEW p \in listed
          PROVE  /\ p \in past' /\ p # NoProc
                 /\ trouble \/ Key(p) \in kids \/ p.pid \in {Own, GuiPid} \/ proc'[p.pid] # p
      BY <2>2 DEF ActionInv, TreeTold, NoneReturns
    <2>3. Own' = Own
      BY DEF Own
    <2> QED BY <2>1, <2>2, <2>3 DEF TreeTold
  <1>5. ModulesTold'
    BY <1>3 DEF ActionInv, ModulesTold, Holding
  <1>6. OnlyMeant'
    BY MeantStays DEF ActionInv, OnlyMeant
  <1>7. ShownMeant'
    BY MeantStays DEF ActionInv, ShownMeant
  <1> QED BY <1>1, <1>2, <1>4, <1>5, <1>6, <1>7
          DEF ActionInv, CriticalSafe, SelfSafe, RefusalStands

LEMMA MachineInv ==
    ASSUME ActionInv,
           \/ \E q \in Pids, up \in AllPids : Starts(q, up)
           \/ \E q \in Pids : Exits(q)
           \/ SecondPasses
    PROVE  ActionInv'
  <1>1. CASE \E q \in Pids, up \in AllPids : Starts(q, up)
    <2>1. PICK q \in Pids, up \in AllPids : Starts(q, up)
      BY <1>1
    <2>2. step # "done" /\ UNCHANGED <<ask, step, side, work, refused>>
      BY <2>1 DEF Starts, MachineOnly
    <2>3. ProcessesTold' /\ NoneReturns /\ past \subseteq past'
      BY <2>1, BirthKeeps DEF ActionInv
    <2> QED BY <2>2, <2>3, MachineMoves
  <1>2. CASE \E q \in Pids : Exits(q)
    <2>1. PICK q \in Pids : Exits(q)
      BY <1>2
    <2>2. /\ step # "done" /\ UNCHANGED <<ask, step, side, work, refused>>
          /\ proc' = [proc EXCEPT ![q] = NoProc] /\ past' = past /\ sec' = sec /\ q \in AllPids
      BY <2>1 DEF Exits, MachineOnly, AllPids
    <2>3. ProcessesTold' /\ NoneReturns /\ past \subseteq past'
      BY <2>2, ProcessEnds DEF ActionInv
    <2> QED BY <2>2, <2>3, MachineMoves
  <1>3. CASE SecondPasses
    <2>1. /\ step # "done" /\ UNCHANGED <<ask, step, side, work, refused>>
          /\ proc' = proc /\ past' = past /\ sec' = sec + 1
      BY <1>3 DEF SecondPasses, MachineOnly
    <2>2. ProcessesTold' /\ NoneReturns /\ past \subseteq past'
      BY <2>1 DEF ActionInv, ProcessesTold, NoneReturns
    <2> QED BY <2>1, <2>2, MachineMoves
  <1> QED BY <1>1, <1>2, <1>3

-----------------------------------------------------------------------------
(* What is done to a process: the operation.                                *)

LEMMA Unhit ==
    ASSUME ActionInv, UNCHANGED <<machine, ask, hits>>
    PROVE  ProcessesTold' /\ OnlyMeant' /\ CriticalSafe' /\ SelfSafe'
  <1>1. Meant' = Meant /\ Below' = Below
    BY DEF Meant, Below, machine
  <1>2. ProcessesTold'
    BY DEF machine, ActionInv, ProcessesTold
  <1>3. OnlyMeant'
    BY <1>1 DEF ActionInv, OnlyMeant, Same
  <1> QED BY <1>2, <1>3 DEF ActionInv, CriticalSafe, SelfSafe

\* An operation that fails has done nothing, and only a read goes on.
LEMMA FailsInv ==
    ASSUME ActionInv, step \in {"check", "open", "list", "snap", "verify", "act"},
           NEW how \in {"failed", "gone", "refused"}, Fails(how),
           UNCHANGED <<machine, ask, handle, kids, listed, trouble, seen, hits>>,
           \/ refused' = refused
           \/ refused' = TRUE /\ Targeted(ask.op)
    PROVE  ActionInv'
  <1>1. /\ step' \in {"open", "done"} /\ outcome' # "ok" /\ (step' # "done" => outcome' = "none")
        /\ side' \in {"local", "service"} /\ (side' = "service" => side = "service")
        /\ step' = "open" => side' = "local" /\ MayRetry(ask.op)
    BY DEF Fails, Ends, ActionInv, StepsTold
  <1>2. hits = {} /\ ~refused /\ ask' = ask /\ hits' = hits
    BY DEF ActionInv, StepsTold
  <1>3. Targeted(ask.op) => ~MayRetry(ask.op)
    BY DEF Targeted, MayRetry
  <1>4. StepsTold'
    BY <1>1, <1>2, <1>3 DEF ActionInv, StepsTold, Holding
  <1>5. HandleMeant' /\ TreeTold' /\ ModulesTold' /\ ShownMeant'
    BY <1>1 DEF HandleMeant, Holding, TreeTold, ModulesTold, ShownMeant
  <1>6. RefusalStands'
    BY <1>2 DEF RefusalStands
  <1> QED BY <1>4, <1>5, <1>6, Unhit DEF ActionInv

LEMMA AsksInv ==
    ASSUME ActionInv, NEW op, NEW q \in AllPids, NEW known, Asks(op, q, known)
    PROVE  ActionInv'
  <1>1. /\ step = "idle" /\ step' = "route" /\ UNCHANGED <<machine, side, work, refused>>
        /\ ask'.pid = q /\ (ask'.start = NoStart \/ ask'.start = proc[q].sec) /\ proc[q] \in past
    BY DEF Asks, ActionInv, ProcessesTold
  <1>2. hits' = {} /\ ~refused' /\ side' = "local" /\ outcome' = "none" /\ trouble' \in BOOLEAN
    BY <1>1 DEF ActionInv, StepsTold, work
  <1>3. StepsTold'
    BY <1>1, <1>2 DEF StepsTold, ActionInv, ProcessesTold, Holding
  <1>4. ProcessesTold'
    BY <1>1 DEF ActionInv, ProcessesTold, machine
  <1>5. HandleMeant' /\ TreeTold' /\ ModulesTold' /\ ShownMeant'
    BY <1>1, <1>2 DEF HandleMeant, Holding, TreeTold, ModulesTold, ShownMeant
  <1> QED BY <1>2, <1>3, <1>4, <1>5
          DEF ActionInv, OnlyMeant, CriticalSafe, SelfSafe, RefusalStands

LEMMA RouteInv == ASSUME ActionInv, NEW up, Route(up) PROVE ActionInv'
  <1>1. /\ step = "route" /\ step' \in {"done", "check", "open"}
        /\ UNCHANGED <<machine, ask, handle, kids, listed, trouble, seen, hits, refused>>
        /\ outcome' # "ok" /\ (step' # "done" => outcome' = outcome)
        /\ step' = "check" => side' = "service" /\ ask.start # NoStart
        /\ step' # "check" => side' = "local"
    BY DEF Route, Ends, ActionInv, StepsTold
  <1>2. StepsTold'
    BY <1>1 DEF ActionInv, StepsTold, Holding
  <1>3. HandleMeant' /\ TreeTold' /\ ModulesTold' /\ ShownMeant'
    BY <1>1 DEF HandleMeant, Holding, TreeTold, ModulesTold, ShownMeant
  <1>4. RefusalStands'
    BY <1>1 DEF ActionInv, StepsTold, RefusalStands
  <1> QED BY <1>1, <1>2, <1>3, <1>4, Unhit DEF ActionInv

LEMMA CheckInv == ASSUME ActionInv, Check PROVE ActionInv'
  <1>1. step = "check" /\ UNCHANGED <<machine, ask, handle, kids, listed, trouble, seen, hits>>
    BY DEF Check
  <1>2. CASE Targeted(ask.op) /\ Fails("refused") /\ refused' = TRUE
    BY <1>1, <1>2, FailsInv
  <1>3. CASE /\ Targeted(ask.op) => ask.pid \notin Protected
             /\ step' = "open" /\ UNCHANGED <<side, outcome, refused>>
    <2>1. StepsTold'
      BY <1>1, <1>3 DEF ActionInv, StepsTold, Holding
    <2>2. HandleMeant' /\ TreeTold' /\ ModulesTold' /\ ShownMeant'
      BY <1>1, <1>3 DEF HandleMeant, Holding, TreeTold, ModulesTold, ShownMeant, ActionInv, StepsTold
    <2>3. RefusalStands'
      BY <1>1, <1>3 DEF ActionInv, StepsTold, RefusalStands
    <2> QED BY <1>1, <2>1, <2>2, <2>3, Unhit DEF ActionInv
  <1> QED BY <1>2, <1>3 DEF Check

LEMMA OpenInv == ASSUME ActionInv, Open PROVE ActionInv'
  <1>1. /\ step = "open"
        /\ UNCHANGED <<machine, ask, kids, listed, trouble, seen, hits, refused>>
    BY DEF Open
  <1>2. CASE \E how \in {"failed", "gone", "refused"} : Fails(how) /\ UNCHANGED handle
    <2>1. PICK how \in {"failed", "gone", "refused"} : Fails(how) /\ UNCHANGED handle
      BY <1>2
    <2> QED BY <1>1, <2>1, FailsInv
  <1>3. CASE /\ ~(SlowsSelf(ask.op) /\ ask.pid = Own) /\ proc[ask.pid] # NoProc
             /\ Matches(proc[ask.pid], ask.start)
             /\ ~(Destructive(ask.op) /\ Barred(proc[ask.pid]))
             /\ handle' = proc[ask.pid] /\ UNCHANGED <<side, outcome>>
             /\ step' = IF ask.op = "tree" THEN "list" ELSE IF ask.op \in ListsModules THEN "snap" ELSE "act"
    <2>1. /\ step' \in {"list", "snap", "act"}
          /\ step' = "list" => ask.op = "tree"
          /\ step' = "snap" => ask.op \in {"modules", "unload"}
          /\ step' = "act" => ask.op # "tree" /\ ask.op # "modules"
      BY <1>3 DEF ListsModules, Unloads
    <2>2. /\ handle' \in past /\ handle' # NoProc /\ handle'.pid = ask.pid
          /\ Matches(handle', ask.start) /\ (Destructive(ask.op) => ~handle'.critical)
      BY <1>3 DEF ActionInv, ProcessesTold, StepsTold, Barred
    <2>3. SlowsSelf(ask.op) => ask.pid # GuiPid
      <3>1. SlowsSelf(ask.op) => Targeted(ask.op)
        BY DEF SlowsSelf, Targeted, Schedules, Unloads, Inspects
      <3>2. side = "service" /\ SlowsSelf(ask.op) => ask.pid # GuiPid
        BY <1>1, <3>1 DEF ActionInv, StepsTold, Protected
      <3>3. side # "service" /\ SlowsSelf(ask.op) => ask.pid # GuiPid
        BY <1>3 DEF Own
      <3> QED BY <3>2, <3>3
    <2>4. HandleMeant'
      BY <1>1, <2>2, <2>3 DEF HandleMeant, machine
    <2>5. StepsTold'
      BY <1>1, <1>3, <2>1 DEF ActionInv, StepsTold, Holding
    <2>6. TreeTold' /\ ModulesTold' /\ ShownMeant'
      BY <1>1, <1>3, <2>1 DEF TreeTold, ModulesTold, ShownMeant, ActionInv, StepsTold
    <2>7. RefusalStands'
      BY <1>1, <1>3 DEF ActionInv, StepsTold, RefusalStands
    <2> QED BY <1>1, <2>4, <2>5, <2>6, <2>7, Unhit DEF ActionInv
  <1> QED BY <1>2, <1>3 DEF Open

\* What was opened is what the row stands for.
LEMMA HandleIsMeant ==
    ASSUME ActionInv, step \in Holding
    PROVE  /\ ask.start # NoStart => handle \in Meant /\ Same(handle, Meant)
           /\ handle \in past /\ handle # NoProc /\ handle.pid = ask.pid /\ handle.pid \in AllPids
  <1>1. ask.start # NoStart => handle \in Meant
    BY DEF ActionInv, HandleMeant, Matches, Meant
  <1> QED BY <1>1 DEF ActionInv, HandleMeant, StepsTold, Same

LEMMA HitInv ==
    ASSUME ActionInv, step \in Holding, NEW p, Hit(p), past' = past, ask' = ask,
           ask.start # NoStart => Same(p, Meant) \/ (ask.op = "tree" /\ Same(p, Below)),
           ~p.critical, p.pid = GuiPid => ~SlowsSelf(ask.op) /\ (ask.op = "tree" => ask.pid = GuiPid)
    PROVE  OnlyMeant' /\ CriticalSafe' /\ SelfSafe' /\ \A h \in hits' : h.by = "service" => ask.start # NoStart
  <1>1. PICK new : new = [p |-> p, op |-> ask.op, by |-> side] /\ hits' = hits \cup {new}
    BY DEF Hit
  <1>2. new.p = p /\ new.op = ask.op /\ new.by = side
    BY <1>1
  <1>3. Meant' = Meant /\ Below' = Below
    BY DEF Meant, Below
  <1>4. OnlyMeant'
    BY <1>1, <1>2, <1>3 DEF ActionInv, OnlyMeant, Same
  <1>5. CriticalSafe'
    BY <1>1, <1>2 DEF ActionInv, CriticalSafe
  <1>6. SelfSafe'
    BY <1>1, <1>2 DEF ActionInv, SelfSafe
  <1>7. \A h \in hits' : h.by = "service" => ask.start # NoStart
    BY <1>1, <1>2 DEF ActionInv, RefusalStands, StepsTold
  <1> QED BY <1>4, <1>5, <1>6, <1>7

LEMMA ActInv == ASSUME ActionInv, Act PROVE ActionInv'
  <1>1. step = "act" /\ UNCHANGED <<past, sec, ask, handle, kids, listed, trouble, refused>>
    BY DEF Act
  <1>2. /\ hits = {} /\ ~refused /\ step \in Holding /\ ask.op # "tree" /\ ask.op # "modules"
        /\ Destructive(ask.op) => ~handle.critical
        /\ SlowsSelf(ask.op) => ask.pid # GuiPid
        /\ side \in {"local", "service"} /\ (side = "service" => ask.start # NoStart)
    BY <1>1 DEF ActionInv, StepsTold, Holding, HandleMeant
  <1>3. Meant' = Meant /\ Below' = Below
    BY <1>1 DEF Meant, Below
  <1>4. CASE Fails("failed") /\ UNCHANGED <<proc, hits, seen>>
    BY <1>1, <1>4, FailsInv DEF machine
  <1>5. ASSUME Ends("ok"), UNCHANGED side,
               ask.op \in Reads => seen' = handle, ProcessesTold',
               OnlyMeant', CriticalSafe', SelfSafe', \A h \in hits' : h.by = "service" => ask.start # NoStart
        PROVE  ActionInv'
    <2>1. step' = "done" /\ outcome' = "ok" /\ side' = side
      BY <1>5 DEF Ends
    <2>2. StepsTold'
      BY <1>1, <1>2, <2>1 DEF ActionInv, StepsTold, Holding
    <2>3. HandleMeant' /\ TreeTold' /\ ModulesTold'
      BY <2>1 DEF HandleMeant, Holding, TreeTold, ModulesTold
    <2>4. ShownMeant'
      BY <1>1, <1>2, <1>3, <1>5, HandleIsMeant DEF ShownMeant, Same
    <2>5. RefusalStands'
      BY <1>1, <1>2, <1>5 DEF RefusalStands
    <2> QED BY <1>5, <2>2, <2>3, <2>4, <2>5 DEF ActionInv
  <1>6. CASE /\ ask.op \in Reads /\ UNCHANGED <<proc, hits>> /\ seen' = handle
             /\ Ends("ok") /\ UNCHANGED side
    <2>1. ProcessesTold' /\ OnlyMeant' /\ CriticalSafe' /\ SelfSafe'
      BY <1>1, <1>6, Unhit DEF machine
    <2> QED BY <1>2, <1>5, <1>6, <2>1
  <1>7. CASE /\ ask.op \notin Reads /\ Hit(handle)
             /\ proc' = IF ask.op \in {"kill"} \cup RestartsShell THEN [proc EXCEPT ![handle.pid] = NoProc] ELSE proc
             /\ Ends("ok") /\ UNCHANGED side
    <2>1. ProcessesTold'
      <3>1. CASE proc' = proc
        BY <1>1, <3>1 DEF ActionInv, ProcessesTold
      <3>2. CASE proc' = [proc EXCEPT ![handle.pid] = NoProc]
        BY <1>1, <1>2, <3>2, HandleIsMeant, ProcessEnds DEF ActionInv
      <3> QED BY <1>7, <3>1, <3>2
    <2>2. ~handle.critical /\ handle.pid = ask.pid
      BY <1>2, <1>7, HandleIsMeant DEF Destructive
    <2>3. OnlyMeant' /\ CriticalSafe' /\ SelfSafe' /\ \A h \in hits' : h.by = "service" => ask.start # NoStart
      BY <1>1, <1>2, <1>7, <2>2, HandleIsMeant, HitInv
    <2> QED BY <1>5, <1>7, <2>1, <2>3
  <1>8. CASE ask.op = "kill" /\ Ends("ok") /\ UNCHANGED <<side, proc, hits, seen>>
    <2>1. ProcessesTold' /\ OnlyMeant' /\ CriticalSafe' /\ SelfSafe'
      BY <1>1, <1>8, Unhit DEF machine
    <2>2. ask.op \notin Reads
      BY <1>8 DEF Reads, Inspects, ReadsMask, Dumps
    <2> QED BY <1>2, <1>5, <1>8, <2>1, <2>2
  <1> QED BY <1>4, <1>6, <1>7, <1>8 DEF Act

LEMMA ListInv == ASSUME ActionInv, List PROVE ActionInv'
  <1>1. step = "list" /\ UNCHANGED <<machine, ask, handle, trouble, seen, hits, refused>>
    BY DEF List
  <1>2. CASE Fails("failed") /\ UNCHANGED <<kids, listed>>
    BY <1>1, <1>2, FailsInv
  <1>3. CASE /\ kids' = {Key(p) : p \in Descendants(handle)} /\ listed' = Descendants(handle)
             /\ step' = "verify" /\ UNCHANGED <<outcome, side>>
    <2>1. StepsTold'
      BY <1>1, <1>3 DEF ActionInv, StepsTold, Holding
    <2>2. HandleMeant'
      BY <1>1, <1>3 DEF ActionInv, HandleMeant, Holding, machine
    <2>3. \A d \in Descendants(handle) : /\ d \in past /\ d # NoProc
                                         /\ StillThere(handle) => handle.id \in d.above
      BY <1>1, HandleIsMeant, DescendantsDescend DEF ActionInv, Holding
    <2>4. StillThere(handle)' = StillThere(handle) /\ past' = past
      BY <1>1 DEF StillThere, machine
    <2>5. TreeTold'
      BY <1>1, <1>3, <2>3, <2>4 DEF TreeTold
    <2>6. ModulesTold' /\ ShownMeant'
      BY <1>1, <1>3 DEF ModulesTold, ShownMeant, ActionInv, StepsTold
    <2>7. RefusalStands'
      BY <1>1, <1>3 DEF ActionInv, StepsTold, RefusalStands
    <2> QED BY <1>1, <2>1, <2>2, <2>5, <2>6, <2>7, Unhit DEF ActionInv
  <1> QED BY <1>2, <1>3 DEF List

LEMMA SnapInv == ASSUME ActionInv, Snap PROVE ActionInv'
  <1>1. step = "snap" /\ UNCHANGED <<machine, ask, handle, kids, listed, trouble, hits, refused>>
    BY DEF Snap
  <1>2. CASE Fails("failed") /\ UNCHANGED seen
    BY <1>1, <1>2, FailsInv
  <1>3. CASE seen' = proc[ask.pid] /\ step' = "verify" /\ UNCHANGED <<outcome, side>>
    <2>1. StepsTold'
      BY <1>1, <1>3 DEF ActionInv, StepsTold, Holding
    <2>2. HandleMeant'
      BY <1>1, <1>3 DEF ActionInv, HandleMeant, Holding, machine
    <2>3. handle.pid = ask.pid
      BY <1>1 DEF ActionInv, HandleMeant, Holding
    <2>4. ModulesTold'
      BY <1>1, <1>3, <2>3 DEF ModulesTold, StillThere, machine
    <2>5. TreeTold' /\ ShownMeant'
      BY <1>1, <1>3 DEF TreeTold, ShownMeant, ActionInv, StepsTold
    <2>6. RefusalStands'
      BY <1>1, <1>3 DEF ActionInv, StepsTold, RefusalStands
    <2> QED BY <1>1, <2>1, <2>2, <2>4, <2>5, <2>6, Unhit DEF ActionInv
  <1> QED BY <1>2, <1>3 DEF Snap

LEMMA VerifyInv == ASSUME ActionInv, Verify PROVE ActionInv'
  <1>1. /\ step = "verify" /\ ask.op \in {"tree", "modules", "unload"}
        /\ UNCHANGED <<machine, ask, handle, kids, listed, trouble, seen, hits, refused>>
    BY DEF Verify, ActionInv, StepsTold
  <1>2. CASE ~StillThere(handle)
    <2>1. Fails("gone")
      BY <1>2 DEF Verify, StillRefers
    <2> QED BY <1>1, <2>1, FailsInv
  <1>3. CASE StillThere(handle) /\ ask.op # "modules"
    <2>1. /\ step' = IF ask.op = "tree" THEN "kids" ELSE "act"
          /\ UNCHANGED <<outcome, side>>
      BY <1>1, <1>3 DEF Verify, StillRefers
    <2>2. StepsTold'
      BY <1>1, <1>3, <2>1 DEF ActionInv, StepsTold, Holding
    <2>3. HandleMeant'
      BY <1>1, <2>1 DEF ActionInv, HandleMeant, Holding, machine
    <2>4. ModulesTold' /\ ShownMeant'
      BY <1>1, <2>1 DEF ModulesTold, ShownMeant, ActionInv, StepsTold
    <2>5. TreeTold'
      BY <1>1, <1>3, <2>1 DEF ActionInv, TreeTold, Own, machine
    <2>6. RefusalStands'
      BY <1>1, <2>1 DEF ActionInv, StepsTold, RefusalStands
    <2> QED BY <1>1, <2>2, <2>3, <2>4, <2>5, <2>6, Unhit DEF ActionInv
  <1>4. CASE StillThere(handle) /\ ask.op = "modules"
    <2>1. step' = "done" /\ outcome' = "ok" /\ side' = side
      BY <1>1, <1>4 DEF Verify, StillRefers, Ends
    <2>2. StepsTold'
      BY <1>1, <2>1 DEF ActionInv, StepsTold, Holding
    <2>3. HandleMeant' /\ TreeTold' /\ ModulesTold'
      BY <2>1 DEF HandleMeant, Holding, TreeTold, ModulesTold
    <2>4. seen = handle
      BY <1>1, <1>4 DEF ActionInv, ModulesTold
    <2>5. Meant' = Meant
      BY <1>1 DEF Meant, machine
    <2>6. ShownMeant'
      BY <1>1, <2>4, <2>5, HandleIsMeant DEF ShownMeant, Same, Holding
    <2>7. RefusalStands'
      BY <1>1 DEF ActionInv, StepsTold, RefusalStands
    <2> QED BY <1>1, <2>2, <2>3, <2>6, <2>7, Unhit DEF ActionInv
  <1> QED BY <1>2, <1>3, <1>4

LEMMA EndChildInv == ASSUME ActionInv, NEW k, EndChild(k) PROVE ActionInv'
  <1>1. /\ step = "kids" /\ k \in kids /\ kids' = kids \ {k}
        /\ UNCHANGED <<past, sec, ask, step, side, handle, listed, seen, outcome, refused>>
    BY DEF EndChild
  <1>2. ask.op = "tree" /\ step \in Holding /\ ~refused
    BY <1>1 DEF ActionInv, StepsTold, Holding
  <1>3. Own' = Own /\ Spared = {Own, GuiPid}
    BY <1>1 DEF Own, Spared
  <1>4. PICK d \in past : k = Key(d) /\ handle.id \in d.above
    BY <1>1 DEF ActionInv, TreeTold
  <1>5. /\ d.pid = k.pid /\ d.sec = k.sec /\ k.pid \in AllPids /\ k.sec \in Nat /\ k.sec # NoStart
        /\ \A p : Key(p) = k => p.pid = k.pid /\ p.sec = k.sec
    BY <1>4, ActionAssumption DEF ActionInv, ProcessesTold, Key
  <1>6. ASSUME ProcessesTold', NoneReturns, trouble' \in BOOLEAN,
               trouble => trouble',
               trouble' \/ k.pid \in Spared \/ \A p \in listed : Key(p) = k => proc'[p.pid] # p,
               OnlyMeant', CriticalSafe', SelfSafe', \A h \in hits' : h.by = "service" => ask.start # NoStart
        PROVE  ActionInv'
    <2>1. StepsTold'
      BY <1>1, <1>2, <1>6 DEF ActionInv, StepsTold
    <2>2. HandleMeant'
      BY <1>1 DEF ActionInv, HandleMeant
    <2>3. \A x \in kids' : \E p \in past' : x = Key(p) /\ handle.id \in p.above
      BY <1>1 DEF ActionInv, TreeTold
    <2>4. ASSUME NEW p \in listed
          PROVE  /\ p \in past /\ p # NoProc
                 /\ trouble' \/ Key(p) \in kids' \/ p.pid \in {Own, GuiPid} \/ proc'[p.pid] # p
      <3>1. /\ p \in past /\ p # NoProc
            /\ trouble \/ Key(p) \in kids \/ p.pid \in {Own, GuiPid} \/ proc[p.pid] # p
        BY <1>1, <1>2 DEF ActionInv, TreeTold
      <3>2. CASE Key(p) = k
        BY <1>3, <1>5, <1>6, <3>1, <3>2
      <3>3. CASE Key(p) # k
        BY <1>1, <1>6, <3>1, <3>3 DEF NoneReturns
      <3> QED BY <3>2, <3>3
    <2>5. TreeTold'
      BY <1>1, <1>3, <2>3, <2>4 DEF TreeTold
    <2>6. ModulesTold' /\ ShownMeant'
      BY <1>1 DEF ModulesTold, ShownMeant, ActionInv, StepsTold
    <2>7. RefusalStands'
      BY <1>1, <1>2, <1>6 DEF RefusalStands
    <2> QED BY <1>6, <2>1, <2>2, <2>5, <2>6, <2>7 DEF ActionInv
  <1>7. CASE /\ UNCHANGED <<proc, hits>>
             /\ trouble' = TRUE \/ (trouble' = trouble /\ (k.pid \in Spared \/ proc[k.pid] = NoProc \/ ~Matches(proc[k.pid], k.sec)))
    <2>1. ProcessesTold' /\ OnlyMeant' /\ CriticalSafe' /\ SelfSafe'
      BY <1>1, <1>7, Unhit DEF machine
    <2>2. NoneReturns
      BY <1>7 DEF NoneReturns
    <2>3. trouble' \in BOOLEAN /\ (trouble => trouble')
      BY <1>7 DEF ActionInv, StepsTold
    <2>4. trouble' \/ k.pid \in Spared \/ \A p \in listed : Key(p) = k => proc'[p.pid] # p
      <3> SUFFICES ASSUME ~trouble', k.pid \notin Spared, NEW p \in listed, Key(p) = k, proc'[p.pid] = p
                   PROVE  FALSE
        OBVIOUS
      <3>1. p # NoProc /\ p.pid = k.pid /\ p.sec = k.sec
        BY <1>1, <1>2, <1>5 DEF ActionInv, TreeTold
      <3> QED BY <1>7, <3>1 DEF Matches
    <2>5. \A h \in hits' : h.by = "service" => ask.start # NoStart
      BY <1>7 DEF ActionInv, RefusalStands
    <2> QED BY <1>6, <2>1, <2>2, <2>3, <2>4, <2>5
  <1>8. CASE /\ k.pid \notin Spared /\ proc[k.pid] # NoProc /\ Matches(proc[k.pid], k.sec)
             /\ ~Barred(proc[k.pid]) /\ Hit(proc[k.pid])
             /\ proc' = [proc EXCEPT ![k.pid] = NoProc] /\ UNCHANGED trouble
    <2>1. ProcessesTold' /\ NoneReturns
      BY <1>1, <1>5, <1>8, ProcessEnds DEF ActionInv
    <2>2. trouble' \in BOOLEAN /\ (trouble => trouble')
      BY <1>8 DEF ActionInv, StepsTold
    <2>3. proc'[k.pid] = NoProc
      BY <1>5, <1>8 DEF ActionInv, ProcessesTold
    <2>4. \A p \in listed : Key(p) = k => proc'[p.pid] # p
      BY <1>1, <1>2, <1>5, <2>3 DEF ActionInv, TreeTold
    <2>5. PICK p \in past : p = proc[k.pid] /\ p.pid = k.pid
      BY <1>5, <1>8 DEF ActionInv, ProcessesTold
    <2>6. Key(p) = Key(d)
      BY <1>4, <1>5, <1>8, <2>5 DEF Matches, Key
    <2>7. ask.start # NoStart => Same(p, Below)
      BY <1>2, <1>4, <2>6, HandleIsMeant DEF Below, Same
    <2>8. p.pid # GuiPid /\ ~p.critical
      BY <1>3, <1>8, <2>5 DEF Barred
    <2>9. Hit(p)
      BY <1>8, <2>5
    <2>10. OnlyMeant' /\ CriticalSafe' /\ SelfSafe' /\ \A h \in hits' : h.by = "service" => ask.start # NoStart
      BY <1>1, <1>2, <2>7, <2>8, <2>9, HitInv
    <2> QED BY <1>6, <2>1, <2>2, <2>4, <2>10
  <1>9. PICK p : p = proc[k.pid]
    OBVIOUS
  <1>10. IF k.pid \in Spared THEN UNCHANGED <<proc, hits, trouble>>
         ELSE IF p = NoProc THEN UNCHANGED <<proc, hits, trouble>>
         ELSE IF ~Matches(p, k.sec) THEN UNCHANGED <<proc, hits, trouble>>
         ELSE \/ ~Barred(p) /\ Hit(p) /\ proc' = [proc EXCEPT ![k.pid] = NoProc] /\ UNCHANGED trouble
              \/ trouble' = TRUE /\ UNCHANGED <<proc, hits>>
    BY <1>9 DEF EndChild, Noted
  <1> QED BY <1>7, <1>8, <1>9, <1>10

\* The processes of the tree are gone when the root is and nothing went wrong.
LEMMA EndRootInv ==
    ASSUME ActionInv, EndRoot
    PROVE  /\ ActionInv'
           /\ outcome' = "ok" => \A p \in listed : p.pid \in {Own, GuiPid} \/ proc'[p.pid] # p
  <1>1. /\ step = "kids" /\ kids = {} /\ step' = "done"
        /\ UNCHANGED <<past, sec, ask, side, handle, kids, listed, trouble, seen, refused>>
    BY DEF EndRoot, Ends
  <1>2. /\ ask.op = "tree" /\ step \in Holding /\ ~refused
        /\ SlowsSelf(ask.op) = FALSE /\ Destructive(ask.op) /\ ask.op \notin Reads
    BY <1>1 DEF ActionInv, StepsTold, Holding, SlowsSelf, Schedules, Unloads, Destructive, Reads,
                Inspects, ReadsMask, Dumps
  <1>5. /\ ProcessesTold' /\ NoneReturns /\ OnlyMeant' /\ CriticalSafe' /\ SelfSafe'
        /\ \A h \in hits' : h.by = "service" => ask.start # NoStart
    <2>1. UNCHANGED <<proc, hits>> \/ (Hit(handle) /\ proc' = [proc EXCEPT ![handle.pid] = NoProc])
      BY DEF EndRoot
    <2>2. CASE UNCHANGED <<proc, hits>>
      <3>1. NoneReturns
        BY <2>2 DEF NoneReturns
      <3>2. \A h \in hits' : h.by = "service" => ask.start # NoStart
        BY <2>2 DEF ActionInv, RefusalStands
      <3>3. UNCHANGED <<machine, ask, hits>>
        BY <1>1, <2>2 DEF machine
      <3> QED BY <3>1, <3>2, <3>3, Unhit
    <2>3. CASE Hit(handle) /\ proc' = [proc EXCEPT ![handle.pid] = NoProc]
      <3>1. ProcessesTold' /\ NoneReturns
        BY <1>1, <1>2, <2>3, HandleIsMeant, ProcessEnds DEF ActionInv
      <3>2. ~handle.critical /\ handle.pid = ask.pid
        BY <1>2 DEF ActionInv, HandleMeant
      <3>3. OnlyMeant' /\ CriticalSafe' /\ SelfSafe' /\ \A h \in hits' : h.by = "service" => ask.start # NoStart
        BY <1>1, <1>2, <2>3, <3>2, HandleIsMeant, HitInv
      <3> QED BY <3>1, <3>3
    <2> QED BY <2>1, <2>2, <2>3
  <1>6. StepsTold'
    BY <1>1, <1>2 DEF ActionInv, StepsTold, Holding
  <1>7. HandleMeant' /\ TreeTold' /\ ModulesTold'
    BY <1>1 DEF HandleMeant, Holding, TreeTold, ModulesTold
  <1>8. ShownMeant'
    BY <1>1, <1>2 DEF ShownMeant
  <1>9. RefusalStands'
    BY <1>1, <1>2, <1>5 DEF RefusalStands
  <1>10. ASSUME outcome' = "ok", NEW p \in listed
         PROVE  p.pid \in {Own, GuiPid} \/ proc'[p.pid] # p
    <2>1. ~trouble
      BY <1>10 DEF EndRoot, Ends
    <2>2. p \in past /\ p # NoProc /\ (p.pid \in {Own, GuiPid} \/ proc[p.pid] # p)
      BY <1>1, <1>2, <2>1 DEF ActionInv, TreeTold
    <2> QED BY <1>5, <2>2 DEF NoneReturns
  <1> QED BY <1>5, <1>6, <1>7, <1>8, <1>9, <1>10 DEF ActionInv

LEMMA ActionInitInv == ASSUME ActionInit PROVE ActionInv
  <1>1. PICK shell \in Pids :
          LET svc == Process(1, SvcPid, 0, SvcPid, FALSE, {})
              top == Process(2, shell, 0, SvcPid, FALSE, {1})
              gui == Process(3, GuiPid, 0, shell, FALSE, {1, 2})
          IN  /\ past = {svc, top, gui}
              /\ proc = [q \in AllPids |-> CASE q = SvcPid -> svc [] q = GuiPid -> gui [] q = shell -> top [] OTHER -> NoProc]
    BY DEF ActionInit
  <1>2. PICK svc : svc = Process(1, SvcPid, 0, SvcPid, FALSE, {})
    OBVIOUS
  <1>3. PICK top : top = Process(2, shell, 0, SvcPid, FALSE, {1})
    OBVIOUS
  <1>4. PICK gui : gui = Process(3, GuiPid, 0, shell, FALSE, {1, 2})
    OBVIOUS
  <1>5. /\ svc.id = 1 /\ svc.pid = SvcPid /\ svc.sec = 0 /\ svc.parent = SvcPid /\ svc.above = {}
        /\ top.id = 2 /\ top.pid = shell /\ top.sec = 0 /\ top.parent = SvcPid /\ top.above = {1}
        /\ gui.id = 3 /\ gui.pid = GuiPid /\ gui.sec = 0 /\ gui.parent = shell /\ gui.above = {1, 2}
    BY <1>2, <1>3, <1>4 DEF Process
  <1>6. /\ SvcPid # GuiPid /\ SvcPid # shell /\ GuiPid # shell
        /\ SvcPid \in AllPids /\ GuiPid \in AllPids /\ shell \in AllPids
    BY ActionAssumption DEF AllPids
  <1>7. /\ past = {svc, top, gui}
        /\ proc = [q \in AllPids |-> CASE q = SvcPid -> svc [] q = GuiPid -> gui [] q = shell -> top [] OTHER -> NoProc]
    BY <1>1, <1>2, <1>3, <1>4
  <1>8. DOMAIN proc = AllPids
    BY <1>7
  <1>9. proc[SvcPid] = svc /\ proc[GuiPid] = gui /\ proc[shell] = top
    BY <1>6, <1>7
  <1>10. \A q \in AllPids : proc[q] # NoProc => q \in {SvcPid, GuiPid, shell}
    BY <1>7
  <1>11. IsFiniteSet(past) /\ Cardinality(past) = 3
    <2>1. svc # top /\ svc # gui /\ top # gui
      BY <1>5
    <2>2. IsFiniteSet({svc}) /\ Cardinality({svc}) = 1
      BY FS_Singleton
    <2>3. IsFiniteSet({svc} \cup {top}) /\ Cardinality({svc} \cup {top}) = 2
      <3>1. top \notin {svc}
        BY <2>1
      <3>2. /\ IsFiniteSet({svc} \cup {top})
            /\ Cardinality({svc} \cup {top}) = Cardinality({svc}) + 1
        BY <2>2, <3>1, FS_AddElement, Zenon
      <3> QED BY <2>2, <3>2
    <2>4. IsFiniteSet(({svc} \cup {top}) \cup {gui}) /\ Cardinality(({svc} \cup {top}) \cup {gui}) = 3
      BY <2>1, <2>3, FS_AddElement
    <2>5. ({svc} \cup {top}) \cup {gui} = past
      BY <1>7
    <2> QED BY <2>4, <2>5
  <1>12. ASSUME NEW c \in past, NEW q \in AllPids, proc[q] # NoProc, ChildOf(c, proc[q])
         PROVE  proc[q].id \in c.above /\ proc[q].above \subseteq c.above
    <2>1. proc[q] \in {svc, top, gui} /\ c \in {svc, top, gui}
      BY <1>7, <1>9, <1>10, <1>12
    <2>2. c.parent = proc[q].pid /\ c.pid # proc[q].pid /\ c.id >= proc[q].id
      BY <1>12 DEF ChildOf
    <2>3. \/ c = top /\ proc[q] = svc
          \/ c = gui /\ proc[q] = top
      BY <1>5, <1>6, <2>1, <2>2
    <2> QED BY <1>5, <2>3
  <1>13. \A p \in past : p.id \in Nat /\ p.id <= Cardinality(past) /\ p.pid \in AllPids /\ p.sec \in Nat
    BY <1>5, <1>6, <1>7, <1>11
  <1>14. /\ sec = 0 /\ ask = [op |-> "kill", pid |-> GuiPid, start |-> NoStart]
         /\ step = "idle" /\ side = "local" /\ trouble = FALSE /\ hits = {} /\ outcome = "none" /\ refused = FALSE
    BY DEF ActionInit
  <1>15. ProcessesTold
    BY <1>5, <1>7, <1>8, <1>9, <1>10, <1>11, <1>12, <1>13, <1>14 DEF ProcessesTold
  <1>16. StepsTold
    BY <1>6, <1>14 DEF StepsTold, Holding
  <1>17. HandleMeant /\ TreeTold /\ ModulesTold /\ ShownMeant
    BY <1>14 DEF HandleMeant, Holding, TreeTold, ModulesTold, ShownMeant
  <1> QED BY <1>14, <1>15, <1>16, <1>17
          DEF ActionInv, OnlyMeant, CriticalSafe, SelfSafe, RefusalStands

LEMMA ActionStepInv == ASSUME ActionInv, [ActionNext]_actionVars PROVE ActionInv'
  <1>1. CASE \E op \in Ops \cap Tried, q \in AllPids, known \in BOOLEAN : Asks(op, q, known)
    BY <1>1, AsksInv
  <1>2. CASE \E up \in BOOLEAN : Route(up)
    BY <1>2, RouteInv
  <1>3. CASE Check \/ Open \/ Act \/ List \/ Verify \/ EndRoot \/ Snap
    BY <1>3, CheckInv, OpenInv, ActInv, ListInv, VerifyInv, EndRootInv, SnapInv
  <1>4. CASE \E k \in kids : EndChild(k)
    BY <1>4, EndChildInv
  <1>5. CASE \/ \E q \in Pids, up \in AllPids : Starts(q, up)
             \/ \E q \in Pids : Exits(q)
             \/ SecondPasses
    BY <1>5, MachineInv
  <1>6. CASE UNCHANGED actionVars
    <2>1. UNCHANGED <<machine, ask, hits>> /\ UNCHANGED <<step, side, handle, kids, listed, trouble, seen, outcome, refused>>
      BY <1>6 DEF actionVars, work
    <2>2. StepsTold'
      BY <2>1 DEF ActionInv, StepsTold
    <2>3. HandleMeant'
      BY <2>1 DEF ActionInv, HandleMeant, machine
    <2>4. TreeTold'
      BY <2>1 DEF ActionInv, TreeTold, StillThere, Own, machine
    <2>5. ModulesTold'
      BY <2>1 DEF ActionInv, ModulesTold, StillThere, machine
    <2>6. ShownMeant'
      BY <2>1 DEF ActionInv, ShownMeant, Meant, Same, machine
    <2>7. RefusalStands'
      BY <2>1 DEF ActionInv, RefusalStands
    <2> QED BY <2>1, <2>2, <2>3, <2>4, <2>5, <2>6, <2>7, Unhit DEF ActionInv
  <1> QED BY <1>1, <1>2, <1>3, <1>4, <1>5, <1>6 DEF ActionNext

\* A tree is reported as ended by the step that ends its root alone.
LEMMA TreeStep ==
    ASSUME ActionInv, [ActionNext]_actionVars, step = "kids", outcome' = "ok"
    PROVE  \A p \in listed : p.pid \in {Own, GuiPid} \/ proc'[p.pid] # p
  <1>1. outcome = "none"
    BY DEF ActionInv, StepsTold
  <1>2. CASE EndRoot
    BY <1>2, EndRootInv
  <1>3. CASE \E k \in kids : EndChild(k)
    BY <1>1, <1>3 DEF EndChild
  <1>4. CASE \/ \E q \in Pids, up \in AllPids : Starts(q, up)
             \/ \E q \in Pids : Exits(q)
             \/ SecondPasses
    BY <1>1, <1>4 DEF Starts, Exits, SecondPasses, MachineOnly, work
  <1>5. CASE UNCHANGED actionVars
    BY <1>1, <1>5 DEF actionVars, work
  <1>6. CASE \/ \E op \in Ops \cap Tried, q \in AllPids, known \in BOOLEAN : Asks(op, q, known)
             \/ \E up \in BOOLEAN : Route(up)
             \/ Check \/ Open \/ Act \/ List \/ Verify \/ Snap
    BY <1>6 DEF Asks, Route, Check, Open, Act, List, Verify, Snap
  <1> QED BY <1>2, <1>3, <1>4, <1>5, <1>6 DEF ActionNext

\* A command reaches the process it was given for, through reused PIDs and through the
\* service: never a critical process, never the program itself; a refusal is not got
\* round, a list is of the process of the row, and a tree reported as ended is.
\* (open_process_verified, checked_target, refuse_self, kill_process_excluding)
THEOREM ActionsAreSafe == ActionSpec => ActionsSafe
  <1>1. ActionInit => ActionInv
    BY ActionInitInv
  <1>2. ActionInv /\ [ActionNext]_actionVars => ActionInv'
    BY ActionStepInv
  <1>3. ActionInv => OnlyMeant /\ CriticalSafe /\ SelfSafe /\ RefusalStands /\ ShownMeant
    BY DEF ActionInv
  <1>4. ActionInv /\ [ActionNext]_actionVars
          => [step = "kids" /\ outcome' = "ok" => \A p \in listed : p.pid \in {Own, GuiPid} \/ proc'[p.pid] # p]_actionVars
    BY TreeStep
  <1> QED BY <1>1, <1>2, <1>3, <1>4, PTL DEF ActionSpec, ActionsSafe, TreeDone

-----------------------------------------------------------------------------
(* The row menu.                                                            *)

\* A menu hangs on a row that is there and no dialog is open beside it; the rule an
\* affinity dialog may save is of the program of all it was opened for.
\* (context_menu, open_affinity_dialog)
MenuInv ==
    /\ DOMAIN msnap = MPids
    /\ \A id \in picked : id.pid \in MPids
    /\ menuOn # Nil => menuOn.id.pid \in MPids /\ MLive(menuOn.id) /\ affinity = Nil
    /\ affinity # Nil =>
          /\ DOMAIN affinity = {"targets", "key", "mask", "failed", "at", "save"}
          /\ affinity.key # Nil => \A id \in affinity.targets : ProgramOf[id.pid] = affinity.key

LEMMA MIdsLive ==
    ASSUME NEW S, NEW id \in MIds(S)
    PROVE  MLive(id) /\ id.pid \in S
  BY DEF MIds, MLive

LEMMA StandsForLive ==
    ASSUME NEW p \in MPids, NEW id \in StandsFor(p)
    PROVE  MLive(id) /\ id.pid \in MPids
  <1>1. Crew \subseteq MPids
    BY MenuAssumption
  <1>2. id \in MIds(Crew) \/ id \in MIds({p})
    BY DEF StandsFor
  <1> QED BY <1>1, <1>2, MIdsLive

\* What a menu's command goes to is there.
LEMMA TargetsLive ==
    ASSUME MenuInv, menuOn # Nil
    PROVE  /\ \A id \in SelectedIds \cup SelectedMembers \cup {menuOn.id} \cup StandsFor(menuOn.id.pid) :
                 MLive(id) /\ id.pid \in MPids
           /\ \A id \in Scope : MLive(id) /\ id.pid \in MPids
           /\ \A id \in EndTargets : MLive(id)
           /\ \A verb : \A id \in SwitchTargets(verb) : MLive(id)
  <1>1. \A id \in SelectedIds : MLive(id) /\ id.pid \in MPids
    BY DEF SelectedIds, MenuInv
  <1>2. \A id \in SelectedMembers : MLive(id) /\ id.pid \in MPids
    <2>1. ASSUME NEW row \in SelectedIds, NEW id \in StandsFor(row.pid)
          PROVE  MLive(id) /\ id.pid \in MPids
      BY <1>1, <2>1, StandsForLive
    <2>2. ASSUME NEW id \in SelectedMembers, id \notin SelectedIds
          PROVE  \E row \in SelectedIds : id \in StandsFor(row.pid)
      <3>1. id \in UNION {StandsFor(row.pid) : row \in {x \in SelectedIds : x.pid \in RowPids}}
        BY <2>2 DEF SelectedMembers
      <3>2. PICK M \in {StandsFor(row.pid) : row \in {x \in SelectedIds : x.pid \in RowPids}} : id \in M
        BY <3>1, Zenon
      <3>3. PICK row \in {x \in SelectedIds : x.pid \in RowPids} : M = StandsFor(row.pid)
        BY <3>2, Zenon
      <3> QED BY <3>2, <3>3, Zenon
    <2> QED BY <1>1, <2>1, <2>2
  <1>3. MLive(menuOn.id) /\ menuOn.id.pid \in MPids
    BY DEF MenuInv
  <1>4. \A id \in StandsFor(menuOn.id.pid) : MLive(id) /\ id.pid \in MPids
    BY <1>3, StandsForLive
  <1> QED BY <1>1, <1>2, <1>3, <1>4 DEF Scope, EndTargets, SwitchTargets

\* A rule is offered only if all the menu is for is of its program.
LEMMA RuleKeyIsTheirs ==
    ASSUME MenuInv, menuOn # Nil, RuleKey # Nil
    PROVE  ~Batch /\ \A id \in Scope : ProgramOf[id.pid] = RuleKey
  <1> DEFINE progs == {ProgramOf[id.pid] : id \in Scope}
  <1>1. /\ ~Batch /\ Cardinality(progs) = 1
        /\ RuleKey = CHOOSE g \in progs : TRUE
    BY DEF RuleKey
  <1>2. IsFiniteSet({ProgramOf[p] : p \in MPids})
    <2> DEFINE f == [p \in MPids |-> ProgramOf[p]]
               T == {ProgramOf[p] : p \in MPids}
    <2>1. f \in [MPids -> T] /\ \A t \in T : \E p \in MPids : f[p] = t
      OBVIOUS
    <2> HIDE DEF f, T
    <2>2. f \in Surjection(MPids, T)
      BY <2>1 DEF Surjection
    <2>3. IsFiniteSet(T)
      BY <2>2, MenuAssumption, FS_Surjection
    <2> QED BY <2>3 DEF T
  <1>3. progs \subseteq {ProgramOf[p] : p \in MPids}
    BY TargetsLive
  <1>4. IsFiniteSet(progs)
    BY <1>2, <1>3, FS_Subset
  <1> HIDE DEF progs
  <1>5. PICK x : progs = {x}
    BY <1>1, <1>4, FS_Singleton
  <1>6. RuleKey = x
    BY <1>1, <1>5
  <1>7. \A id \in Scope : ProgramOf[id.pid] \in progs
    BY DEF progs
  <1> QED BY <1>1, <1>5, <1>6, <1>7

LEMMA MenuInitInv == ASSUME MenuInit PROVE MenuInv
  BY DEF MenuInit, MenuInv

\* Nothing the row menu's invariant speaks of moves but what is closed.
LEMMA MenuCloses ==
    ASSUME MenuInv, msnap' = msnap, picked' = picked,
           menuOn' = menuOn \/ menuOn' = Nil, affinity' = affinity \/ affinity' = Nil
    PROVE  MenuInv'
  BY DEF MenuInv, MLive

LEMMA MenuStepInv == ASSUME MenuInv, [MenuNext]_menuVars PROVE MenuInv'
  <1>1. CASE MenuSnapshot
    <2>1. PICK p \in MPids, s \in {0, mstamp + 1} : msnap' = [msnap EXCEPT ![p] = s]
      BY <1>1 DEF MenuSnapshot
    <2>2. DOMAIN msnap' = MPids
      BY <2>1 DEF MenuInv
    <2>3. /\ picked' = {id \in picked : msnap'[id.pid] = id.start}
          /\ menuOn' = IF menuOn = Nil THEN Nil ELSE IF msnap'[menuOn.id.pid] = menuOn.id.start THEN menuOn ELSE Nil
          /\ affinity' = affinity
      BY <1>1 DEF MenuSnapshot
    <2>4. menuOn' # Nil => menuOn' = menuOn /\ menuOn # Nil /\ msnap'[menuOn.id.pid] = menuOn.id.start
      BY <2>3
    <2>5. menuOn' # Nil => menuOn'.id.pid \in MPids /\ MLive(menuOn.id)' /\ affinity' = Nil
      BY <2>3, <2>4 DEF MenuInv, MLive
    <2>6. \A id \in picked' : id.pid \in MPids
      BY <2>3 DEF MenuInv
    <2> QED BY <2>2, <2>3, <2>5, <2>6 DEF MenuInv
  <1>2. CASE PickRows
    <2>1. PICK S \in SUBSET RowPids : picked' = MIds(S)
      BY <1>2 DEF PickRows
    <2>2. \A id \in picked' : id.pid \in MPids
      BY <2>1, MIdsLive DEF RowPids
    <2>3. msnap' = msnap /\ menuOn' = menuOn /\ affinity' = affinity
      BY <1>2 DEF PickRows
    <2> QED BY <2>2, <2>3 DEF MenuInv, MLive
  <1>3. CASE OpenMenu
    <2>1. PICK p \in RowPids :
             /\ menuOn' = [id |-> [pid |-> p, start |-> msnap[p]], at |-> mstamp]
             /\ picked' = IF \E id \in picked : id.pid = p THEN picked ELSE MIds({p})
      BY <1>3 DEF OpenMenu
    <2>2. msnap' = msnap /\ affinity' = affinity /\ affinity = Nil /\ p \in MPids
      BY <1>3 DEF OpenMenu, NoDialog, RowPids
    <2>3. \A id \in picked' : id.pid \in MPids
      BY <2>1, <2>2, MIdsLive DEF MenuInv
    <2>4. menuOn'.id.pid \in MPids /\ MLive(menuOn.id)'
      BY <2>1, <2>2 DEF MLive
    <2> QED BY <2>2, <2>3, <2>4 DEF MenuInv
  <1>4. CASE CloseMenu \/ MenuEnd \/ MenuTree \/ MenuSwitch \/ MenuPriority
    BY <1>4, MenuCloses DEF CloseMenu, MenuEnd, MenuTree, MenuSwitch, MenuPriority, Command
  <1>5. CASE MenuSaveRule \/ AffinityApply \/ AffinityCancel \/ MenuUac \/ UacConfirm \/ UacCancel
    BY <1>5, MenuCloses DEF MenuSaveRule, AffinityApply, AffinityCancel, MenuUac, UacConfirm, UacCancel
  <1>6. CASE MenuAffinity
    <2>1. PICK key : /\ key # Nil => key = RuleKey
                     /\ affinity' = IF Scope = {} THEN Nil
                          ELSE [targets |-> Scope, key |-> key, mask |-> Nil, failed |-> FALSE, at |-> mstamp,
                                save |-> IF key = Nil THEN FALSE ELSE mrules[key].mask # {}]
      BY <1>6 DEF MenuAffinity
    <2>2. msnap' = msnap /\ picked' = picked /\ menuOn # Nil /\ menuOn' = Nil
      BY <1>6 DEF MenuAffinity
    <2>3. ASSUME affinity' # Nil
          PROVE  /\ DOMAIN affinity' = {"targets", "key", "mask", "failed", "at", "save"}
                 /\ affinity'.targets = Scope /\ affinity'.key = key
      BY <2>1, <2>3
    <2>4. key # Nil => \A id \in Scope : ProgramOf[id.pid] = key
      BY <2>1, <2>2, RuleKeyIsTheirs
    <2> QED BY <2>2, <2>3, <2>4 DEF MenuInv
  <1>7. CASE AffinityLoads \/ AffinityEdits
    <2>1. affinity # Nil /\ msnap' = msnap /\ picked' = picked /\ menuOn' = menuOn
      BY <1>7 DEF AffinityLoads, AffinityEdits
    <2>2. \/ affinity' = [affinity EXCEPT !.mask = Cpus]
          \/ affinity' = [affinity EXCEPT !.failed = TRUE]
          \/ \E mask, save : affinity' = [affinity EXCEPT !.mask = mask, !.save = save]
      BY <1>7 DEF AffinityLoads, AffinityEdits
    <2>3. DOMAIN affinity = {"targets", "key", "mask", "failed", "at", "save"} /\ menuOn = Nil
      BY <2>1 DEF MenuInv
    <2>4. /\ DOMAIN affinity' = {"targets", "key", "mask", "failed", "at", "save"}
          /\ affinity'.targets = affinity.targets /\ affinity'.key = affinity.key
      BY <2>2, <2>3
    <2> QED BY <2>1, <2>3, <2>4 DEF MenuInv
  <1>8. CASE UNCHANGED menuVars
    BY <1>8, MenuCloses DEF menuVars
  <1> QED BY <1>1, <1>2, <1>3, <1>4, <1>5, <1>6, <1>7, <1>8 DEF MenuNext

LEMMA SentLiveStep ==
    ASSUME MenuInv, [MenuNext]_menuVars, sent' # sent, sent'.verb # "affinity", NEW id \in sent'.ids
    PROVE  MLive(id)
  <1>1. CASE MenuEnd \/ MenuTree \/ MenuPriority
    <2>1. menuOn # Nil
      BY <1>1 DEF MenuEnd, MenuTree, MenuPriority
    <2>2. sent'.ids = EndTargets \/ sent'.ids = Scope \/ sent'.ids \subseteq SelectedIds \cup {menuOn.id}
      BY <1>1 DEF MenuEnd, MenuTree, MenuPriority, Command
    <2> QED BY <2>1, <2>2, TargetsLive
  <1>2. CASE MenuSwitch
    <2>1. menuOn # Nil /\ \E verb : sent'.ids = SwitchTargets(verb)
      BY <1>2 DEF MenuSwitch
    <2> QED BY <2>1, TargetsLive
  <1>3. CASE AffinityApply
    BY <1>3 DEF AffinityApply
  <1>4. CASE UacConfirm
    BY <1>4 DEF UacConfirm
  <1>5. CASE \/ MenuSnapshot \/ PickRows \/ OpenMenu \/ CloseMenu
             \/ MenuSaveRule \/ MenuAffinity \/ AffinityLoads \/ AffinityEdits \/ AffinityCancel
             \/ MenuUac \/ UacCancel \/ UNCHANGED menuVars
    BY <1>5 DEF MenuSnapshot, PickRows, OpenMenu, CloseMenu, MenuSaveRule, MenuAffinity, AffinityLoads,
                AffinityEdits, AffinityCancel, MenuUac, UacCancel, menuVars
  <1> QED BY <1>1, <1>2, <1>3, <1>4, <1>5 DEF MenuNext

LEMMA RuleStep ==
    ASSUME MenuInv, [MenuNext]_menuVars, NEW g \in DOMAIN mrules, mrules'[g] # mrules[g]
    PROVE  /\ \A id \in (IF affinity # Nil THEN affinity.targets ELSE Scope) : ProgramOf[id.pid] = g
           /\ affinity = Nil => ~Batch
  <1>1. CASE MenuPriority
    <2>1. menuOn # Nil /\ affinity = Nil /\ RuleKey # Nil /\ g = RuleKey
      BY <1>1 DEF MenuPriority, MenuInv
    <2> QED BY <2>1, RuleKeyIsTheirs
  <1>2. CASE MenuSaveRule
    <2>1. menuOn # Nil /\ affinity = Nil /\ RuleKey # Nil /\ g = RuleKey
      BY <1>2 DEF MenuSaveRule, MenuInv
    <2> QED BY <2>1, RuleKeyIsTheirs
  <1>3. CASE AffinityApply
    <2>1. affinity # Nil /\ affinity.key # Nil /\ g = affinity.key
      BY <1>3 DEF AffinityApply
    <2> QED BY <2>1 DEF MenuInv
  <1>4. CASE \/ MenuSnapshot \/ PickRows \/ OpenMenu \/ CloseMenu \/ MenuEnd \/ MenuTree \/ MenuSwitch
             \/ MenuAffinity \/ AffinityLoads \/ AffinityEdits \/ AffinityCancel
             \/ MenuUac \/ UacConfirm \/ UacCancel \/ UNCHANGED menuVars
    BY <1>4 DEF MenuSnapshot, PickRows, OpenMenu, CloseMenu, MenuEnd, MenuTree, MenuSwitch, MenuAffinity,
                AffinityLoads, AffinityEdits, AffinityCancel, MenuUac, UacConfirm, UacCancel, menuVars
  <1> QED BY <1>1, <1>2, <1>3, <1>4 DEF MenuNext

\* A command goes to processes that live and were shown when it is clicked, and a saved
\* rule is written for processes of its one program only.
\* (live_selection_targets, scheduling_menu_items, affinity_dialog)
THEOREM MenuIsSafe == MenuSpec => MenuSafe
  <1>1. MenuInit => MenuInv
    BY MenuInitInv
  <1>2. MenuInv /\ [MenuNext]_menuVars => MenuInv'
    BY MenuStepInv
  <1>3. MenuInv /\ [MenuNext]_menuVars
          => [sent' # sent /\ sent'.verb # "affinity" => \A id \in sent'.ids : MLive(id)]_menuVars
    BY SentLiveStep
  <1>4. MenuInv /\ [MenuNext]_menuVars
          => [\A g \in DOMAIN mrules : mrules'[g] # mrules[g] =>
                LET scope == IF affinity # Nil THEN affinity.targets ELSE Scope
                IN  /\ \A id \in scope : ProgramOf[id.pid] = g
                    /\ affinity = Nil => ~Batch]_menuVars
    BY RuleStep
  <1> QED BY <1>1, <1>2, <1>3, <1>4, PTL DEF MenuSpec, MenuSafe, SentIsLive, RuleForItsProgram
=============================================================================
