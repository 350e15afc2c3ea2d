---- MODULE ConfigImportProofs ----
(***************************************************************************)
(* An import of a config profile takes effect at once or not at all, and   *)
(* whatever crashes or fails in between is explained by the journal, for   *)
(* any number of stores, profiles, names and transactions. ImportInv is    *)
(* inductive as it stands; CommitInv, on what is in the directories, while *)
(* no profile is removed that an import or its journal concerns.           *)
(***************************************************************************)
EXTENDS ConfigImport, TLAPS, WellFoundedInduction

\* An import and its journal are the only ones to take away the profiles they concern.
ImportsUndisturbed == RemovesJournaled = FALSE

-----------------------------------------------------------------------------
(* First and Final *)

\* A nonempty set of natural numbers has a least element.
LEMMA LeastIsIn ==
    ASSUME NEW S \in SUBSET Nat, S # {}
    PROVE  First(S) \in S /\ \A j \in S : First(S) <= j
  <1> DEFINE R == OpToRel(<, Nat)
  <1>1. IsWellFoundedOn(R, Nat)
    BY NatLessThanWellFounded
  <1>2. \A x, y \in Nat : x < y => <<x, y>> \in R
    BY DEF OpToRel
  <1> HIDE DEF R
  <1>3. PICK x \in S : \A y \in S : ~(<<y, x>> \in R)
    BY <1>1, WFMin
  <1>4. \A y \in S : ~(y < x)
    BY <1>2, <1>3
  <1>5. x \in Nat /\ (\A y \in S : y \in Nat)
    OBVIOUS
  <1>6. \A y \in S : x <= y
    BY <1>4, <1>5
  <1>7. QED
    BY <1>6 DEF First

LEMMA FirstIsIn ==
    ASSUME NEW S \in SUBSET Ids, S # {}
    PROVE  First(S) \in S
  <1>1. S \in SUBSET Nat
    BY DEF Ids
  <1>2. QED
    BY <1>1, LeastIsIn

\* A nonempty set of ids has a greatest element: the one that is nearest to MaxId.
LEMMA FinalIsIn ==
    ASSUME NEW S \in SUBSET Ids, S # {}
    PROVE  Final(S) \in S
  <1> DEFINE T == {MaxId - i : i \in S}
  <1>1. \A i \in S : i \in Int /\ MaxId - i \in Nat
    BY ConfigImportAssumption DEF Ids
  <1>2. T \in SUBSET Nat /\ T # {}
    BY <1>1
  <1>3. First(T) \in T /\ \A j \in T : First(T) <= j
    BY <1>2, LeastIsIn
  <1>4. PICK i \in S : First(T) = MaxId - i
    BY <1>3
  <1>5. \A j \in S : MaxId - i <= MaxId - j
    BY <1>3, <1>4
  <1>6. \A j \in S : j <= i
    BY <1>1, <1>5, ConfigImportAssumption
  <1>7. QED
    BY <1>6 DEF Final

LEMMA FirstOfOne ==
    ASSUME NEW x \in Int
    PROVE  First({x}) = x
  BY DEF First

LEMMA FreshIsIn ==
    ASSUME HasFresh
    PROVE  Fresh \in Ids /\ Fresh >= clock /\ Absent(Fresh)
  <1> DEFINE F == {i \in Ids : i >= clock /\ Absent(i)}
  <1>1. F \in SUBSET Ids /\ F # {}
    BY DEF HasFresh
  <1>2. First(F) \in F
    BY <1>1, FirstIsIn
  <1>3. QED
    BY <1>2 DEF Fresh

-----------------------------------------------------------------------------
(* What a step leaves in place *)

Rows == [at : Places, opening : BOOLEAN, name : Names \cup {NoName}, tx : {0} \cup Imports,
         retired : SUBSET Ids, left : SUBSET Ids, ok : BOOLEAN]
JournalFiles == [is : {"missing", "torn", "whole"}, target : {0} \cup Ids, retired : SUBSET Ids]

DiskTyped ==
    /\ config \in [Ids -> Trees] /\ tombstone \in [Imports -> [Ids -> Trees]]
    /\ staging \in [Imports -> Names \cup {NoName}]
    /\ journal \in [Imports -> JournalFiles]
    /\ clock \in Int /\ begun \in 0..MaxImports

LEMMA TypeParts == TypeOK <=> DiskTyped /\ lock \in Stores \cup {NoStore} /\ store \in [Stores -> Rows]
  BY DEF TypeOK, DiskTyped, Rows, JournalFiles

LEMMA TypePartsNext ==
    TypeOK' <=> DiskTyped' /\ lock' \in Stores \cup {NoStore} /\ store' \in [Stores -> Rows]
  BY DEF TypeOK, DiskTyped, Rows, JournalFiles

Quiet == {"down", "ready"}

\* PlaceInv of the locals r of a store.
PlaceOf(r) ==
    /\ r.at \in NoneLeft => Journals = {}
    /\ r.at \in Resuming \cup InImport \cup {"write"} => Journals = {r.tx}
    /\ r.at = "write" => journal[r.tx] = Torn /\ \E i \in Ids : r.left = {i}
    /\ r.at \in Resuming \cup InImport => journal[r.tx].is = "whole"
    /\ r.at \in InImport => r.retired = journal[r.tx].retired
    /\ r.at \in {"finish", "restore"} => Kept(r.tx) \subseteq r.left
    /\ r.at \in {"restore", "retire"} => r.left \subseteq journal[r.tx].retired
    /\ r.at \in {"unstage", "forget", "stage", "claim", "reclaim_journal"} => Kept(r.tx) = {}
    /\ r.at \in {"retire", "publish"} => Kept(r.tx) = r.retired \ r.left
    /\ r.at \in {"rollback", "reclaim"} => (r.ok => Kept(r.tx) \subseteq r.left)
    /\ r.at \in {"undo", "undo_journal"} => (r.ok => Kept(r.tx) = {})
    /\ r.at = "publish" => r.left = {}

LEMMA PlaceIs ==
    ASSUME NEW s
    PROVE  PlaceInv(s) <=> PlaceOf(store[s])
  BY DEF PlaceInv, PlaceOf

LEMMA PlaceIsNext ==
    ASSUME NEW s, NEW r, store'[s] = r
    PROVE  PlaceInv(s)' <=> PlaceOf(r)'
  BY DEF PlaceInv, PlaceOf

LEMMA QuietPlace ==
    ASSUME NEW r, r.at \in Quiet
    PROVE  PlaceOf(r)'
  BY DEF PlaceOf, Quiet, NoneLeft, Resuming, InImport, Uncommitted, Reclaiming

\* A store that is neither down nor ready holds the lock, and the others do nothing.
LEMMA Alone ==
    ASSUME ImportInv, NEW s \in Stores, store[s].at \notin Quiet
    PROVE  lock = s /\ \A u \in Stores \ {s} : store[u].at \in Quiet
  BY DEF ImportInv, LockInv, Quiet

\* The step of one store to the locals r, with the lock kept or given back.
LEMMA Moved ==
    ASSUME ImportInv, DiskTyped', JournalInv', NEW s \in Stores, NEW r \in Rows,
           store' = [store EXCEPT ![s] = r], lock \in {s, NoStore},
           \/ r.at \notin Quiet /\ lock' = s /\ PlaceOf(r)'
           \/ r.at \in Quiet /\ lock' = NoStore
    PROVE  ImportInv'
  <1>1. store \in [Stores -> Rows] /\ lock \in Stores \cup {NoStore} /\ LockInv
    BY TypeParts DEF ImportInv
  <1>2. store' \in [Stores -> Rows] /\ store'[s] = r /\ \A u \in Stores \ {s} : store'[u] = store[u]
    BY <1>1
  <1>3. TypeOK'
    BY <1>2, TypePartsNext
  <1>4. NoStore \notin Stores
    BY ConfigImportAssumption
  <1>5. \A u \in Stores \ {s} : store[u].at \in Quiet
    BY <1>1, <1>4 DEF LockInv, Quiet
  <1>6. LockInv'
    <2>1. \A u \in Stores \ {s} : lock' # u /\ store'[u].at \in Quiet
      BY <1>2, <1>4, <1>5
    <2>2. lock' = s <=> store'[s].at \notin Quiet
      BY <1>2, <1>4
    <2>3. QED
      BY <2>1, <2>2 DEF LockInv, Quiet
  <1>7. ASSUME NEW u \in Stores
        PROVE  PlaceInv(u)'
    <2>1. CASE u = s
      BY <1>2, <2>1, PlaceIsNext, QuietPlace
    <2>2. CASE u # s
      <3>1. PICK q : q = store[u]
        OBVIOUS
      <3>2. q.at \in Quiet /\ store'[u] = q
        BY <1>2, <1>5, <2>2, <3>1
      <3>3. QED
        BY <3>2, PlaceIsNext, QuietPlace
    <2>3. QED
      BY <2>1, <2>2
  <1>8. QED
    BY <1>3, <1>6, <1>7 DEF ImportInv

\* The call is left.
LEMMA Failed ==
    ASSUME ImportInv, DiskTyped', JournalInv', NEW s \in Stores, lock = s, Fail(s)
    PROVE  ImportInv'
  <1>1. PICK r : r = [Down EXCEPT !.at = IF store[s].opening THEN "down" ELSE "ready",
                                  !.opening = store[s].opening]
    OBVIOUS
  <1>2. store \in [Stores -> Rows]
    BY TypeParts DEF ImportInv
  <1>3. r \in Rows /\ r.at \in Quiet
    BY <1>1, <1>2 DEF Rows, Down, Quiet, Places, Imports
  <1>4. store' = [store EXCEPT ![s] = r] /\ lock' = NoStore
    BY <1>1 DEF Fail
  <1>5. QED
    BY <1>3, <1>4, Moved

\* The step to a place, with what is left to go through.
LEMMA WentTo ==
    ASSUME ImportInv, NEW s \in Stores, NEW there \in Places, Goto(s, there)
    PROVE  \E r \in Rows :
              /\ store' = [store EXCEPT ![s] = r] /\ r.at = there
              /\ r.opening = store[s].opening /\ r.name = store[s].name /\ r.tx = store[s].tx
              /\ r.retired = store[s].retired /\ r.left = store[s].left /\ r.ok = store[s].ok
  <1>1. PICK r : r = [store[s] EXCEPT !.at = there]
    OBVIOUS
  <1>2. store \in [Stores -> Rows]
    BY TypeParts DEF ImportInv
  <1>3. r \in Rows
    BY <1>1, <1>2 DEF Rows
  <1>4. store' = [store EXCEPT ![s] = r]
    BY <1>1, <1>2 DEF Goto
  <1>5. QED
    BY <1>1, <1>2, <1>3, <1>4 DEF Rows

LEMMA WentWith ==
    ASSUME ImportInv, NEW s \in Stores, NEW there \in Places, NEW ids \in SUBSET Ids,
           GotoWith(s, there, ids)
    PROVE  \E r \in Rows :
              /\ store' = [store EXCEPT ![s] = r] /\ r.at = there
              /\ r.opening = store[s].opening /\ r.name = store[s].name /\ r.tx = store[s].tx
              /\ r.retired = store[s].retired /\ r.left = ids /\ r.ok = store[s].ok
  <1>1. PICK r : r = [store[s] EXCEPT !.at = there, !.left = ids]
    OBVIOUS
  <1>2. store \in [Stores -> Rows]
    BY TypeParts DEF ImportInv
  <1>3. r \in Rows
    BY <1>1, <1>2 DEF Rows
  <1>4. store' = [store EXCEPT ![s] = r]
    BY <1>1, <1>2 DEF GotoWith
  <1>5. QED
    BY <1>1, <1>2, <1>3, <1>4 DEF Rows

-----------------------------------------------------------------------------
(* What a change of the directory does to the journal and the tombstones *)

LEMMA TreesOf ==
    /\ Missing \in Trees
    /\ \A t \in Trees : [t EXCEPT !.whole = FALSE] \in Trees /\ [t EXCEPT !.marker = 0] \in Trees
    /\ \A n \in Names \cup {NoName}, tx \in {0} \cup Imports : Tree(n, tx) \in Trees
  BY DEF Trees, Missing, Tree

LEMMA JournalsSame ==
    ASSUME UNCHANGED <<journal, tombstone>>
    PROVE  /\ Journals' = Journals
           /\ \A tx \in Imports : Kept(tx)' = Kept(tx)
           /\ begun' = begun /\ JournalInv => JournalInv'
           /\ \A r : PlaceOf(r)' <=> PlaceOf(r)
  <1>1. Journals' = Journals
    BY DEF Journals
  <1>2. \A tx : Kept(tx)' = Kept(tx)
    BY DEF Kept
  <1>3. begun' = begun /\ JournalInv => JournalInv'
    BY <1>1, <1>2 DEF JournalInv
  <1>4. \A r : PlaceOf(r)' <=> PlaceOf(r)
    BY <1>1, <1>2 DEF PlaceOf
  <1>5. QED
    BY <1>1, <1>2, <1>3, <1>4

LEMMA DiskSame ==
    ASSUME ImportInv, UNCHANGED <<journal, tombstone, begun>>, config' \in [Ids -> Trees],
           staging' \in [Imports -> Names \cup {NoName}], clock' \in Int
    PROVE  DiskTyped' /\ JournalInv'
  BY JournalsSame, TypeParts DEF ImportInv, DiskTyped

LEMMA TombstoneSet ==
    ASSUME ImportInv, NEW tx \in Imports, NEW i \in Ids, NEW t \in Trees,
           tombstone' = [tombstone EXCEPT ![tx][i] = t],
           journal' = journal, begun' = begun, staging' = staging, clock' \in Int,
           config' \in [Ids -> Trees],
           t # Missing => journal[tx].is = "whole" /\ i \in journal[tx].retired
    PROVE  /\ DiskTyped' /\ JournalInv'
           /\ Journals' = Journals
           /\ Kept(tx)' = IF t = Missing THEN Kept(tx) \ {i} ELSE Kept(tx) \cup {i}
  <1>1. tombstone \in [Imports -> [Ids -> Trees]] /\ DiskTyped
    BY TypeParts DEF ImportInv, DiskTyped
  <1>2. /\ \A u \in Imports \ {tx} : tombstone'[u] = tombstone[u]
        /\ tombstone'[tx][i] = t /\ \A j \in Ids \ {i} : tombstone'[tx][j] = tombstone[tx][j]
    BY <1>1
  <1>3. tombstone' \in [Imports -> [Ids -> Trees]]
    BY <1>1
  <1>4. DiskTyped'
    BY <1>1, <1>3 DEF DiskTyped
  <1>5. \A u \in Imports \ {tx} : Kept(u)' = Kept(u)
    BY <1>2 DEF Kept
  <1>6. Kept(tx)' = IF t = Missing THEN Kept(tx) \ {i} ELSE Kept(tx) \cup {i}
    BY <1>2 DEF Kept
  <1>7. Journals' = Journals
    BY DEF Journals
  <1>8. JournalInv'
    BY <1>5, <1>6, <1>7 DEF ImportInv, JournalInv
  <1>9. QED
    BY <1>4, <1>6, <1>7, <1>8

\* The one journal is removed once it has no tombstone left.
LEMMA JournalGone ==
    ASSUME ImportInv, NEW tx \in Imports, Journals = {tx}, Kept(tx) = {}, JournalRemoved(tx),
           UNCHANGED <<tombstone, begun, clock>>, staging' = staging, config' = config
    PROVE  DiskTyped' /\ JournalInv' /\ Journals' = {} /\ journal'[tx] = NoJournal
  <1>1. DiskTyped
    BY TypeParts DEF ImportInv
  <1>2. NoJournal \in JournalFiles
    BY DEF NoJournal, JournalFiles
  <1>3. journal' \in [Imports -> JournalFiles]
    BY <1>1, <1>2 DEF DiskTyped, JournalRemoved
  <1>4. DiskTyped'
    BY <1>1, <1>3 DEF DiskTyped
  <1>5. journal'[tx] = NoJournal /\ \A u \in Imports \ {tx} : journal'[u] = journal[u]
    BY <1>1 DEF DiskTyped, JournalRemoved
  <1>6. \A u \in Imports \ {tx} : journal[u] = NoJournal
    BY DEF Journals
  <1>7. Journals' = {}
    BY <1>5, <1>6 DEF Journals
  <1>8. \A u \in Imports : Kept(u)' = Kept(u)
    BY DEF Kept
  <1>9. \A u \in Imports : Kept(u) = {}
    BY <1>6 DEF ImportInv, JournalInv, NoJournal
  <1>10. JournalInv'
    BY <1>5, <1>6, <1>7, <1>8, <1>9 DEF JournalInv
  <1>11. QED
    BY <1>4, <1>5, <1>7, <1>10

-----------------------------------------------------------------------------
(* Recovery keeps the invariant *)

\* The locals of a store, and what its place says of them.
LEMMA RowOf ==
    ASSUME ImportInv, NEW s \in Stores
    PROVE  store[s] \in Rows /\ PlaceOf(store[s]) /\ JournalInv /\ DiskTyped
  BY TypeParts, PlaceIs DEF ImportInv

\* A step that only moves the store.
LEMMA OnlyMoved ==
    ASSUME ImportInv, NEW s \in Stores, store[s].at \notin Quiet, NEW r \in Rows,
           store' = [store EXCEPT ![s] = r], lock' = lock, r.at \notin Quiet,
           UNCHANGED <<journal, tombstone, begun>>, config' \in [Ids -> Trees],
           staging' \in [Imports -> Names \cup {NoName}], clock' \in Int, PlaceOf(r)
    PROVE  ImportInv'
  <1>1. lock = s
    BY Alone
  <1>2. DiskTyped' /\ JournalInv' /\ PlaceOf(r)'
    BY DiskSame, JournalsSame
  <1>3. QED
    BY <1>1, <1>2, Moved

\* A step that leaves the call.
LEMMA OnlyFailed ==
    ASSUME ImportInv, NEW s \in Stores, store[s].at \notin Quiet, Fail(s),
           UNCHANGED <<journal, tombstone, begun>>, config' \in [Ids -> Trees],
           staging' \in [Imports -> Names \cup {NoName}], clock' \in Int
    PROVE  ImportInv'
  BY Alone, DiskSame, Failed

LEMMA OpenKeeps ==
    ASSUME ImportInv, NEW s \in Stores, Open(s)
    PROVE  ImportInv'
  <1>1. /\ lock = NoStore /\ lock' = s /\ Goto(s, "recover") /\ UNCHANGED <<disk, clock, begun>>
        /\ "recover" \in Places
    BY DEF Open, Places
  <1>2. PICK r \in Rows : store' = [store EXCEPT ![s] = r] /\ r.at = "recover"
    BY <1>1, WentTo
  <1>3. DiskTyped' /\ JournalInv'
    BY <1>1, DiskSame, RowOf DEF disk, DiskTyped
  <1>4. r.at \notin Quiet /\ PlaceOf(r)'
    BY <1>2 DEF PlaceOf, Quiet, NoneLeft, Resuming, InImport, Uncommitted, Reclaiming
  <1>5. QED
    BY <1>1, <1>2, <1>3, <1>4, Moved

LEMMA ImportKeeps ==
    ASSUME ImportInv, NEW s \in Stores, NEW n \in Names, Import(s, n)
    PROVE  ImportInv'
  <1>1. lock = NoStore /\ lock' = s /\ UNCHANGED <<disk, clock, begun>>
    BY DEF Import
  <1>2. PICK r : r = [store[s] EXCEPT !.at = "recover", !.name = n]
    OBVIOUS
  <1>3. store[s] \in Rows /\ store \in [Stores -> Rows]
    BY TypeParts DEF ImportInv
  <1>4. r \in Rows /\ r.at = "recover"
    BY <1>2, <1>3 DEF Rows, Places
  <1>5. store' = [store EXCEPT ![s] = r]
    BY <1>2, <1>3 DEF Import
  <1>6. DiskTyped' /\ JournalInv'
    BY <1>1, DiskSame, RowOf DEF disk, DiskTyped
  <1>7. r.at \notin Quiet /\ PlaceOf(r)'
    BY <1>4 DEF PlaceOf, Quiet, NoneLeft, Resuming, InImport, Uncommitted, Reclaiming
  <1>8. QED
    BY <1>1, <1>4, <1>5, <1>6, <1>7, Moved

LEMMA CrashKeeps ==
    ASSUME ImportInv, NEW s \in Stores, Crash(s)
    PROVE  ImportInv'
  <1>1. UNCHANGED <<disk, clock, begun>> /\ store' = [store EXCEPT ![s] = Down]
        /\ lock' = IF lock = s THEN NoStore ELSE lock
    BY DEF Crash
  <1>2. DiskTyped' /\ JournalInv'
    BY <1>1, DiskSame, RowOf DEF disk, DiskTyped
  <1>3. Down \in Rows /\ Down.at \in Quiet
    BY ConfigImportAssumption DEF Down, Rows, Quiet, Places, Imports
  <1>4. CASE lock \in {s, NoStore}
    <2>1. lock' = NoStore
      BY <1>1, <1>4
    <2>2. QED
      BY <1>1, <1>2, <1>3, <1>4, <2>1, Moved
  <1>5. CASE lock \notin {s, NoStore}
    <2>1. /\ TypeOK /\ LockInv /\ store \in [Stores -> Rows] /\ lock \in Stores \cup {NoStore}
          /\ lock' = lock
      BY <1>1, <1>5, TypeParts DEF ImportInv
    <2>2. store'[s] = Down /\ \A u \in Stores \ {s} : store'[u] = store[u]
      BY <1>1, <2>1
    <2>3. TypeOK'
      BY <1>1, <1>2, <1>3, <2>1, TypePartsNext
    <2>4. LockInv'
      BY <1>3, <1>5, <2>1, <2>2 DEF LockInv, Quiet
    <2>5. ASSUME NEW u \in Stores
          PROVE  PlaceInv(u)'
      <3>1. PICK q : q = store'[u]
        OBVIOUS
      <3>2. CASE u = s
        BY <1>3, <2>2, <3>1, <3>2, PlaceIsNext, QuietPlace
      <3>3. CASE u # s
        <4>1. q = store[u] /\ PlaceOf(q)
          BY <2>2, <3>1, <3>3, RowOf
        <4>2. PlaceOf(q)'
          BY <1>1, <4>1, JournalsSame DEF disk
        <4>3. QED
          BY <3>1, <4>2, PlaceIsNext
      <3>4. QED
        BY <3>2, <3>3
    <2>6. QED
      BY <1>2, <2>3, <2>4, <2>5 DEF ImportInv
  <1>6. QED
    BY <1>4, <1>5

LEMMA RecoverKeeps ==
    ASSUME ImportInv, NEW s \in Stores, Recover(s)
    PROVE  ImportInv'
  <1> USE DEF Quiet
  <1>1. /\ store[s].at = "recover" /\ UNCHANGED <<disk, lock, clock, begun>>
        /\ store[s] \in Rows /\ store \in [Stores -> Rows] /\ DiskTyped /\ JournalInv
    BY RowOf, TypeParts DEF Recover, At, ImportInv
  <1>2. /\ UNCHANGED <<journal, tombstone, begun>> /\ config' \in [Ids -> Trees]
        /\ staging' \in [Imports -> Names \cup {NoName}] /\ clock' \in Int
    BY <1>1 DEF disk, DiskTyped
  <1>3. CASE Journals = {} /\ Goto(s, "sweep")
    <2>1. PICK r \in Rows : store' = [store EXCEPT ![s] = r] /\ r.at = "sweep"
      BY <1>3, WentTo DEF Places
    <2>2. PlaceOf(r)
      BY <1>3, <2>1 DEF PlaceOf, NoneLeft, Resuming, InImport, Uncommitted, Reclaiming
    <2>3. QED
      BY <1>1, <1>2, <2>1, <2>2, OnlyMoved
  <1>4. CASE Journals # {} /\ journal[First(Journals)].is = "torn" /\ Goto(s, "rejected")
    <2>1. PICK r \in Rows : store' = [store EXCEPT ![s] = r] /\ r.at = "rejected"
      BY <1>4, WentTo DEF Places
    <2>2. PlaceOf(r)
      BY <1>4, <2>1 DEF PlaceOf, NoneLeft, Resuming, InImport, Uncommitted, Reclaiming
    <2>3. QED
      BY <1>1, <1>2, <2>1, <2>2, OnlyMoved
  <1>5. ASSUME NEW tx, tx = First(Journals), Journals # {}, journal[tx].is = "whole",
               store' = [store EXCEPT ![s] = [@ EXCEPT
                      !.tx = tx, !.ok = Committed(tx), !.left = journal[tx].retired,
                      !.at = IF Committed(tx) THEN "finish" ELSE "restore"]]
        PROVE  ImportInv'
    <2>1. PICK r : r = [store[s] EXCEPT
                      !.tx = tx, !.ok = Committed(tx), !.left = journal[tx].retired,
                      !.at = IF Committed(tx) THEN "finish" ELSE "restore"]
      OBVIOUS
    <2>2. PICK x \in Journals : TRUE
      BY <1>5
    <2>3. x \in Imports /\ Journals = {x} /\ x \in Int
      BY <1>1, <2>2 DEF Journals, JournalInv, Imports
    <2>4. tx = x
      BY <1>5, <2>3, FirstOfOne
    <2>5. journal[tx].retired \in SUBSET Ids /\ Committed(tx) \in BOOLEAN
      BY <1>1, <2>3, <2>4 DEF DiskTyped, JournalFiles, Committed
    <2>6. r \in Rows /\ r.at \in {"finish", "restore"} /\ r.tx = tx /\ r.left = journal[tx].retired
      BY <1>1, <2>1, <2>3, <2>4, <2>5 DEF Rows, Places
    <2>7. store' = [store EXCEPT ![s] = r]
      BY <1>1, <1>5, <2>1
    <2>8. Kept(tx) \subseteq journal[tx].retired
      BY <1>1, <2>3, <2>4 DEF JournalInv
    <2>9. PlaceOf(r)
      BY <1>5, <2>3, <2>4, <2>6, <2>8 DEF PlaceOf, NoneLeft, Resuming, InImport, Uncommitted, Reclaiming
    <2>10. QED
      BY <1>1, <1>2, <2>6, <2>7, <2>9, OnlyMoved
  <1>6. QED
    BY <1>3, <1>4, <1>5 DEF Recover

\* The transaction of a recovery or of an import.
LEMMA TxOf ==
    ASSUME ImportInv, NEW s \in Stores, store[s].at \in Resuming \cup InImport \cup {"write"}
    PROVE  store[s].tx \in Imports /\ Journals = {store[s].tx}
  <1>1. Journals = {store[s].tx}
    BY RowOf DEF PlaceOf
  <1>2. Journals \subseteq Imports
    BY DEF Journals
  <1>3. QED
    BY <1>1, <1>2

LEMMA FinishKeeps ==
    ASSUME ImportInv, NEW s \in Stores, Finish(s)
    PROVE  ImportInv'
  <1> USE DEF Quiet
  <1>1. PICK q : q = store[s]
    OBVIOUS
  <1>2. /\ q.at = "finish" /\ q \in Rows /\ store \in [Stores -> Rows] /\ PlaceOf(q)
        /\ DiskTyped /\ JournalInv /\ UNCHANGED <<config, staging, journal, clock, begun>>
    BY <1>1, RowOf, TypeParts DEF Finish, At, ImportInv
  <1>3. /\ q.tx \in Imports /\ Journals = {q.tx} /\ journal[q.tx].is = "whole"
        /\ Kept(q.tx) \subseteq q.left
    BY <1>1, <1>2, TxOf DEF PlaceOf, Resuming
  <1>4. config' \in [Ids -> Trees] /\ staging' \in [Imports -> Names \cup {NoName}] /\ clock' \in Int
    BY <1>2 DEF DiskTyped
  <1>5. CASE q.left = {} /\ Goto(s, "forget") /\ UNCHANGED <<tombstone, lock>>
    <2>1. PICK r \in Rows : store' = [store EXCEPT ![s] = r] /\ r.at = "forget" /\ r.tx = q.tx
      BY <1>1, <1>5, WentTo DEF Places
    <2>2. PlaceOf(r)
      BY <1>3, <1>5, <2>1 DEF PlaceOf, NoneLeft, Resuming, InImport, Uncommitted, Reclaiming
    <2>3. QED
      BY <1>1, <1>2, <1>4, <1>5, <2>1, <2>2, OnlyMoved
  <1>6. ASSUME NEW i \in Ids, i = First(q.left), q.left # {}, Reclaimed(q.tx, i),
               GotoWith(s, "finish", q.left \ {i}), UNCHANGED lock
        PROVE  ImportInv'
    <2>1. q.left \in SUBSET Ids
      BY <1>2 DEF Rows
    <2>2. PICK r \in Rows : /\ store' = [store EXCEPT ![s] = r] /\ r.at = "finish" /\ r.tx = q.tx
                            /\ r.left = q.left \ {i}
      BY <1>1, <1>6, <2>1, WentWith DEF Places
    <2>3. /\ DiskTyped' /\ JournalInv' /\ Journals' = Journals
          /\ Kept(q.tx)' = Kept(q.tx) \ {i}
      BY <1>2, <1>3, <1>4, <1>6, TombstoneSet, TreesOf DEF Reclaimed
    <2>4. PlaceOf(r)'
      BY <1>2, <1>3, <2>2, <2>3 DEF PlaceOf, NoneLeft, Resuming, InImport, Uncommitted, Reclaiming
    <2>5. QED
      BY <1>1, <1>2, <1>6, <2>2, <2>3, <2>4, Alone, Moved
  <1>7. ASSUME NEW i \in Ids, i = First(q.left), PartlyReclaimed(q.tx, i), Fail(s)
        PROVE  ImportInv'
    <2>1. PICK t : t = [tombstone[q.tx][i] EXCEPT !.whole = FALSE]
      OBVIOUS
    <2>2. t \in Trees /\ tombstone' = [tombstone EXCEPT ![q.tx][i] = t]
      BY <1>2, <1>3, <1>7, <2>1, TreesOf DEF PartlyReclaimed, DiskTyped
    <2>3. i \in Kept(q.tx)
      BY <1>7 DEF PartlyReclaimed, Kept
    <2>4. journal[q.tx].is = "whole" /\ i \in journal[q.tx].retired
      BY <1>2, <1>3, <2>3 DEF JournalInv
    <2>5. DiskTyped' /\ JournalInv'
      BY <1>2, <1>3, <1>4, <2>2, <2>4, TombstoneSet
    <2>6. QED
      BY <1>1, <1>2, <1>7, <2>5, Alone, Failed
  <1>8. q.left # {} => First(q.left) \in Ids
    BY <1>2, FirstIsIn DEF Rows
  <1>9. QED
    BY <1>1, <1>5, <1>6, <1>7, <1>8 DEF Finish

LEMMA RestoredKeeps ==
    ASSUME ImportInv, NEW tx \in Imports, NEW i \in Ids, Restored(tx, i),
           UNCHANGED <<staging, journal, begun, clock>>
    PROVE  /\ DiskTyped' /\ JournalInv' /\ Journals' = Journals /\ Kept(tx)' = Kept(tx) \ {i}
           /\ config'[i] = tombstone[tx][i] /\ \A k \in Ids \ {i} : config'[k] = config[k]
  <1>1. DiskTyped
    BY TypeParts DEF ImportInv
  <1>2. config' \in [Ids -> Trees] /\ clock' \in Int
    BY <1>1 DEF Restored, DiskTyped
  <1>3. DiskTyped' /\ JournalInv' /\ Journals' = Journals /\ Kept(tx)' = Kept(tx) \ {i}
    BY <1>2, TombstoneSet, TreesOf DEF Restored
  <1>4. config'[i] = tombstone[tx][i] /\ \A k \in Ids \ {i} : config'[k] = config[k]
    BY <1>1 DEF Restored, DiskTyped
  <1>5. QED
    BY <1>3, <1>4

LEMMA RestoreKeeps ==
    ASSUME ImportInv, NEW s \in Stores, Restore(s)
    PROVE  ImportInv'
  <1> USE DEF Quiet
  <1>1. PICK q : q = store[s]
    OBVIOUS
  <1>2. /\ q.at = "restore" /\ q \in Rows /\ store \in [Stores -> Rows] /\ PlaceOf(q)
        /\ DiskTyped /\ JournalInv /\ UNCHANGED <<staging, journal, clock, begun>>
    BY <1>1, RowOf, TypeParts DEF Restore, At, ImportInv
  <1>3. /\ q.tx \in Imports /\ Journals = {q.tx} /\ journal[q.tx].is = "whole"
        /\ Kept(q.tx) \subseteq q.left /\ q.left \subseteq journal[q.tx].retired
    BY <1>1, <1>2, TxOf DEF PlaceOf, Resuming
  <1>4. staging' \in [Imports -> Names \cup {NoName}] /\ clock' \in Int /\ config \in [Ids -> Trees]
    BY <1>2 DEF DiskTyped
  <1>5. CASE q.left = {} /\ Goto(s, "unstage") /\ UNCHANGED <<config, tombstone, lock>>
    <2>1. PICK r \in Rows : store' = [store EXCEPT ![s] = r] /\ r.at = "unstage" /\ r.tx = q.tx
      BY <1>1, <1>5, WentTo DEF Places
    <2>2. PlaceOf(r)
      BY <1>3, <1>5, <2>1 DEF PlaceOf, NoneLeft, Resuming, InImport, Uncommitted, Reclaiming
    <2>3. QED
      BY <1>1, <1>2, <1>4, <1>5, <2>1, <2>2, OnlyMoved
  <1>6. ASSUME NEW i \in Ids, i = Final(q.left), q.left # {}, Restored(q.tx, i),
               GotoWith(s, "restore", q.left \ {i}), UNCHANGED lock
        PROVE  ImportInv'
    <2>1. q.left \in SUBSET Ids
      BY <1>2 DEF Rows
    <2>2. PICK r \in Rows : /\ store' = [store EXCEPT ![s] = r] /\ r.at = "restore" /\ r.tx = q.tx
                            /\ r.left = q.left \ {i}
      BY <1>1, <1>6, <2>1, WentWith DEF Places
    <2>3. /\ DiskTyped' /\ JournalInv' /\ Journals' = Journals
          /\ Kept(q.tx)' = Kept(q.tx) \ {i}
      BY <1>2, <1>3, <1>6, RestoredKeeps
    <2>4. PlaceOf(r)'
      BY <1>2, <1>3, <2>2, <2>3 DEF PlaceOf, NoneLeft, Resuming, InImport, Uncommitted, Reclaiming
    <2>5. QED
      BY <1>1, <1>2, <1>6, <2>2, <2>3, <2>4, Alone, Moved
  <1>7. CASE Fail(s) /\ UNCHANGED <<config, tombstone>>
    BY <1>1, <1>2, <1>4, <1>7, OnlyFailed
  <1>8. ASSUME NEW i \in Ids, ~Absent(i), tombstone[q.tx][i] = Missing,
               GotoWith(s, "restore", q.left \ {i}), UNCHANGED <<config, tombstone, lock>>
        PROVE  ImportInv'
    <2>1. q.left \in SUBSET Ids /\ i \notin Kept(q.tx)
      BY <1>2, <1>8 DEF Rows, Kept
    <2>2. PICK r \in Rows : /\ store' = [store EXCEPT ![s] = r] /\ r.at = "restore" /\ r.tx = q.tx
                            /\ r.left = q.left \ {i}
      BY <1>1, <1>8, <2>1, WentWith DEF Places
    <2>3. PlaceOf(r)
      BY <1>2, <1>3, <2>1, <2>2 DEF PlaceOf, NoneLeft, Resuming, InImport, Uncommitted, Reclaiming
    <2>4. QED
      BY <1>1, <1>2, <1>4, <1>8, <2>2, <2>3, OnlyMoved
  <1>9. CASE Goto(s, "rejected") /\ UNCHANGED <<config, tombstone, lock>>
    <2>1. PICK r \in Rows : store' = [store EXCEPT ![s] = r] /\ r.at = "rejected"
      BY <1>1, <1>9, WentTo DEF Places
    <2>2. PlaceOf(r)
      BY <2>1 DEF PlaceOf, NoneLeft, Resuming, InImport, Uncommitted, Reclaiming
    <2>3. QED
      BY <1>1, <1>2, <1>4, <1>9, <2>1, <2>2, OnlyMoved
  <1>10. q.left # {} => Final(q.left) \in Ids
    BY <1>2, FinalIsIn DEF Rows
  <1>11. QED
    BY <1>1, <1>5, <1>6, <1>7, <1>8, <1>9, <1>10 DEF Restore

LEMMA UnstageKeeps ==
    ASSUME ImportInv, NEW s \in Stores, Unstage(s)
    PROVE  ImportInv'
  <1> USE DEF Quiet
  <1>1. PICK q : q = store[s]
    OBVIOUS
  <1>2. /\ q.at = "unstage" /\ q \in Rows /\ store \in [Stores -> Rows] /\ PlaceOf(q)
        /\ DiskTyped /\ UNCHANGED <<config, tombstone, journal, clock, begun>>
    BY <1>1, RowOf, TypeParts DEF Unstage, At, ImportInv
  <1>3. /\ q.tx \in Imports /\ Journals = {q.tx} /\ journal[q.tx].is = "whole" /\ Kept(q.tx) = {}
    BY <1>1, <1>2, TxOf DEF PlaceOf, Resuming
  <1>4. config' \in [Ids -> Trees] /\ clock' \in Int
    BY <1>2 DEF DiskTyped
  <1>5. staging' \in [Imports -> Names \cup {NoName}]
    BY <1>1, <1>2 DEF Unstage, DiskTyped
  <1>6. CASE Goto(s, "forget") /\ UNCHANGED lock
    <2>1. PICK r \in Rows : store' = [store EXCEPT ![s] = r] /\ r.at = "forget" /\ r.tx = q.tx
      BY <1>1, <1>6, WentTo DEF Places
    <2>2. PlaceOf(r)
      BY <1>3, <2>1 DEF PlaceOf, NoneLeft, Resuming, InImport, Uncommitted, Reclaiming
    <2>3. QED
      BY <1>1, <1>2, <1>4, <1>5, <1>6, <2>1, <2>2, OnlyMoved
  <1>7. CASE Fail(s)
    BY <1>1, <1>2, <1>4, <1>5, <1>7, OnlyFailed
  <1>8. QED
    BY <1>6, <1>7 DEF Unstage

\* The journal is removed, or is not; the call is left, or goes on where no journal is left.
LEMMA JournalRemovedKeeps ==
    ASSUME ImportInv, NEW s \in Stores, store[s].at \in Resuming \cup InImport,
           Kept(store[s].tx) = {}, JournalRemoved(store[s].tx),
           UNCHANGED <<config, staging, tombstone, clock, begun>>,
           \/ Fail(s)
           \/ UNCHANGED lock /\ \E there \in {"unmark", "recover", "reclaim_marker"} : Goto(s, there)
    PROVE  ImportInv'
  <1> USE DEF Quiet
  <1>1. DiskTyped' /\ JournalInv' /\ Journals' = {}
    BY TxOf, JournalGone
  <1>2. lock = s
    BY Alone DEF Resuming, InImport, Uncommitted, Reclaiming
  <1>3. ASSUME NEW there \in {"unmark", "recover", "reclaim_marker"}, Goto(s, there), UNCHANGED lock
        PROVE  ImportInv'
    <2>1. there \in Places
      BY DEF Places
    <2>2. PICK r \in Rows : store' = [store EXCEPT ![s] = r] /\ r.at = there
      BY <1>3, <2>1, WentTo
    <2>3. PlaceOf(r)'
      BY <1>1, <2>2 DEF PlaceOf, NoneLeft, Resuming, InImport, Uncommitted, Reclaiming
    <2>4. QED
      BY <1>1, <1>2, <1>3, <2>2, <2>3, Moved
  <1>4. QED
    BY <1>1, <1>2, <1>3, Failed

LEMMA ForgetKeeps ==
    ASSUME ImportInv, NEW s \in Stores, Forget(s)
    PROVE  ImportInv'
  <1> USE DEF Quiet
  <1>1. /\ store[s].at = "forget" /\ UNCHANGED <<config, staging, tombstone, clock, begun>>
        /\ DiskTyped
    BY RowOf DEF Forget, At
  <1>2. Kept(store[s].tx) = {} /\ store[s].at \in Resuming
    BY <1>1, RowOf DEF PlaceOf, Resuming
  <1>3. CASE JournalRemoved(store[s].tx)
    BY <1>1, <1>2, <1>3, JournalRemovedKeeps DEF Forget
  <1>4. CASE UNCHANGED journal /\ Fail(s)
    BY <1>1, <1>4, OnlyFailed DEF DiskTyped
  <1>5. QED
    BY <1>3, <1>4 DEF Forget

LEMMA MarkerRemovedTyped ==
    ASSUME ImportInv, NEW i \in Ids, MarkerRemoved(i)
    PROVE  config' \in [Ids -> Trees]
  BY RowOf, TypeParts, TreesOf DEF ImportInv, DiskTyped, MarkerRemoved

LEMMA UnmarkKeeps ==
    ASSUME ImportInv, NEW s \in Stores, Unmark(s)
    PROVE  ImportInv'
  <1> USE DEF Quiet
  <1>1. /\ store[s].at = "unmark" /\ UNCHANGED <<staging, tombstone, journal, clock, begun>>
        /\ DiskTyped
    BY RowOf DEF Unmark, At
  <1>2. config' \in [Ids -> Trees]
    <2>1. UNCHANGED config \/ \E i \in Ids : MarkerRemoved(i)
      BY DEF Unmark, Marked
    <2>2. QED
      BY <1>1, <2>1, MarkerRemovedTyped DEF DiskTyped
  <1>3. CASE Goto(s, "recover") /\ UNCHANGED lock
    <2>1. PICK r \in Rows : store' = [store EXCEPT ![s] = r] /\ r.at = "recover"
      BY <1>3, WentTo DEF Places
    <2>2. PlaceOf(r)
      BY <2>1 DEF PlaceOf, NoneLeft, Resuming, InImport, Uncommitted, Reclaiming
    <2>3. QED
      BY <1>1, <1>2, <1>3, <2>1, <2>2, OnlyMoved DEF DiskTyped
  <1>4. CASE Fail(s)
    BY <1>1, <1>2, <1>4, OnlyFailed DEF DiskTyped
  <1>5. QED
    BY <1>3, <1>4 DEF Unmark

LEMMA SweepKeeps ==
    ASSUME ImportInv, NEW s \in Stores, Sweep(s)
    PROVE  ImportInv'
  <1> USE DEF Quiet
  <1>1. /\ store[s].at = "sweep" /\ UNCHANGED <<staging, tombstone, journal, clock, begun>>
        /\ DiskTyped /\ store \in [Stores -> Rows] /\ store[s] \in Rows /\ PlaceOf(store[s])
    BY RowOf, TypeParts DEF Sweep, At, ImportInv
  <1>2. config' \in [Ids -> Trees]
    <2>1. UNCHANGED config \/ \E i \in Ids : MarkerRemoved(i)
      BY DEF Sweep, Marked
    <2>2. QED
      BY <1>1, <2>1, MarkerRemovedTyped DEF DiskTyped
  <1>3. CASE UNCHANGED <<store, lock>>
    <2>1. PICK r : r = store[s]
      OBVIOUS
    <2>2. store' = [store EXCEPT ![s] = r] /\ lock' = lock /\ r \in Rows /\ r.at = "sweep" /\ PlaceOf(r)
      BY <1>1, <1>3, <2>1
    <2>3. QED
      BY <1>1, <1>2, <2>2, OnlyMoved DEF DiskTyped
  <1>4. CASE Fail(s)
    BY <1>1, <1>2, <1>4, OnlyFailed DEF DiskTyped
  <1>5. ASSUME lock' = NoStore,
               store' = [store EXCEPT ![s] = [Down EXCEPT !.at = "ready", !.opening = FALSE]]
        PROVE  ImportInv'
    <2>1. PICK r : r = [Down EXCEPT !.at = "ready", !.opening = FALSE]
      OBVIOUS
    <2>2. r \in Rows /\ r.at \in Quiet /\ store' = [store EXCEPT ![s] = r]
      BY <1>5, <2>1 DEF Down, Rows, Places, Imports
    <2>3. DiskTyped' /\ JournalInv' /\ lock = s
      BY <1>1, <1>2, DiskSame, Alone DEF DiskTyped
    <2>4. QED
      BY <1>5, <2>2, <2>3, Moved
  <1>6. CASE Goto(s, "admit") /\ UNCHANGED lock
    <2>1. PICK r \in Rows : store' = [store EXCEPT ![s] = r] /\ r.at = "admit"
      BY <1>6, WentTo DEF Places
    <2>2. Journals = {}
      BY <1>1 DEF PlaceOf, NoneLeft
    <2>3. PlaceOf(r)
      BY <2>1, <2>2 DEF PlaceOf, NoneLeft, Resuming, InImport, Uncommitted, Reclaiming
    <2>4. QED
      BY <1>1, <1>2, <1>6, <2>1, <2>3, OnlyMoved DEF DiskTyped
  <1>7. QED
    BY <1>3, <1>4, <1>5, <1>6 DEF Sweep

\* Reject and NotAdmitted.
LEMMA LeftKeeps ==
    ASSUME ImportInv, NEW s \in Stores, Reject(s) \/ NotAdmitted(s)
    PROVE  ImportInv'
  <1>1. store[s].at \notin Quiet /\ Fail(s) /\ UNCHANGED <<disk, clock, begun>> /\ DiskTyped
    BY RowOf DEF Reject, NotAdmitted, At, Quiet
  <1>2. QED
    BY <1>1, OnlyFailed DEF disk, DiskTyped

-----------------------------------------------------------------------------
(* An import keeps the invariant *)

\* A journal begins or is written where the only one there may be is that of tx.
LEMMA JournalSet ==
    ASSUME ImportInv, NEW tx \in Imports, Journals \subseteq {tx}, Kept(tx) = {},
           NEW j \in JournalFiles, j.is = "missing" => j = NoJournal,
           journal' = [journal EXCEPT ![tx] = j],
           begun' \in 0..MaxImports, tx <= begun',
           UNCHANGED <<config, staging, tombstone, clock>>
    PROVE  /\ DiskTyped' /\ JournalInv' /\ journal'[tx] = j
           /\ Journals' = IF j = NoJournal THEN {} ELSE {tx}
           /\ Kept(tx)' = {}
  <1>1. DiskTyped /\ JournalInv
    BY RowOf, TypeParts DEF ImportInv
  <1>2. DiskTyped'
    BY <1>1 DEF DiskTyped
  <1>3. journal'[tx] = j /\ \A u \in Imports \ {tx} : journal'[u] = journal[u]
    BY <1>1 DEF DiskTyped
  <1>4. \A u \in Imports \ {tx} : journal[u] = NoJournal
    BY DEF Journals
  <1>5. Journals' = IF j = NoJournal THEN {} ELSE {tx}
    BY <1>3, <1>4 DEF Journals
  <1>6. \A u \in Imports : Kept(u)' = Kept(u)
    BY DEF Kept
  <1>7. \A u \in Imports : Kept(u) = {}
    BY <1>1, <1>4 DEF JournalInv, NoJournal
  <1>8. JournalInv'
    BY <1>3, <1>4, <1>5, <1>6, <1>7 DEF JournalInv
  <1>9. QED
    BY <1>2, <1>3, <1>5, <1>6, <1>7, <1>8

LEMMA AdmitKeeps ==
    ASSUME ImportInv, NEW s \in Stores, Admit(s)
    PROVE  ImportInv'
  <1> USE DEF Quiet
  <1>1. /\ store[s].at = "admit" /\ HasFresh /\ begun < MaxImports /\ begun' = begun + 1
        /\ UNCHANGED <<config, staging, tombstone, lock, clock>>
        /\ store[s] \in Rows /\ store \in [Stores -> Rows] /\ PlaceOf(store[s]) /\ JournalInv
        /\ DiskTyped /\ begun \in 0..MaxImports
    BY RowOf, TypeParts DEF Admit, At, ImportInv, DiskTyped
  <1>2. PICK tx : tx = begun + 1
    OBVIOUS
  <1>3. tx \in Imports /\ begun' \in 0..MaxImports /\ tx <= begun' /\ ~(tx <= begun)
    BY <1>1, <1>2, ConfigImportAssumption DEF Imports
  <1>4. Journals = {}
    BY <1>1 DEF PlaceOf, NoneLeft
  <1>5. Kept(tx) = {}
    BY <1>1, <1>3, <1>4 DEF JournalInv, Journals, NoJournal
  <1>6. Torn \in JournalFiles /\ Torn.is = "torn" /\ Torn # NoJournal
    BY DEF Torn, JournalFiles, NoJournal
  <1>7. /\ DiskTyped' /\ JournalInv' /\ journal'[tx] = Torn /\ Journals' = {tx}
    BY <1>1, <1>2, <1>3, <1>4, <1>5, <1>6, JournalSet DEF Admit
  <1>8. PICK r : r = [store[s] EXCEPT !.at = "write", !.tx = tx, !.left = {Fresh},
                                      !.retired = Replaced(store[s].name), !.ok = TRUE]
    OBVIOUS
  <1>9. Fresh \in Ids /\ Replaced(store[s].name) \in SUBSET Ids
    BY <1>1, FreshIsIn DEF Replaced
  <1>10. r \in Rows /\ r.at = "write" /\ r.tx = tx /\ r.left = {Fresh}
    BY <1>1, <1>3, <1>8, <1>9 DEF Rows, Places
  <1>11. store' = [store EXCEPT ![s] = r]
    BY <1>1, <1>2, <1>8 DEF Admit
  <1>12. PlaceOf(r)'
    <2>1. PICK i \in Ids : i = Fresh
      BY <1>9
    <2>2. r.left = {i}
      BY <1>10, <2>1
    <2>3. QED
      BY <1>7, <1>10, <2>2 DEF PlaceOf, NoneLeft, Resuming, InImport, Uncommitted, Reclaiming
  <1>13. QED
    BY <1>1, <1>7, <1>10, <1>11, <1>12, Alone, Moved

LEMMA WriteJournalKeeps ==
    ASSUME ImportInv, NEW s \in Stores, WriteJournal(s)
    PROVE  ImportInv'
  <1> USE DEF Quiet
  <1>1. PICK q : q = store[s]
    OBVIOUS
  <1>2. /\ q.at = "write" /\ UNCHANGED <<config, staging, tombstone, clock, begun>>
        /\ q \in Rows /\ store \in [Stores -> Rows] /\ PlaceOf(q) /\ JournalInv /\ DiskTyped
    BY <1>1, RowOf, TypeParts DEF WriteJournal, At, ImportInv
  <1>3. q.tx \in Imports /\ Journals = {q.tx} /\ journal[q.tx] = Torn /\ \E i \in Ids : q.left = {i}
    BY <1>1, <1>2, TxOf DEF PlaceOf
  <1>4. PICK i \in Ids : q.left = {i}
    BY <1>3
  <1>5. First(q.left) = i
    BY <1>4, FirstOfOne DEF Ids
  <1>6. PICK w : w = Journal(i, q.retired)
    OBVIOUS
  <1>7. /\ w \in JournalFiles /\ w.is = "whole" /\ w # NoJournal /\ w.retired = q.retired
        /\ Torn \in JournalFiles /\ Torn.is = "torn" /\ NoJournal \in JournalFiles
    BY <1>2, <1>6 DEF Journal, JournalFiles, NoJournal, Torn, Rows
  <1>8. q.tx <= begun' /\ begun' \in 0..MaxImports
    BY <1>2, <1>3 DEF JournalInv, DiskTyped
  <1>9. Kept(q.tx) = {}
    BY <1>2, <1>3 DEF JournalInv, Torn
  <1>10. CASE journal' = [journal EXCEPT ![q.tx] = w] /\ Goto(s, "stage") /\ UNCHANGED lock
    <2>1. DiskTyped' /\ JournalInv' /\ journal'[q.tx] = w /\ Journals' = {q.tx} /\ Kept(q.tx)' = {}
      BY <1>2, <1>3, <1>7, <1>8, <1>9, <1>10, JournalSet
    <2>2. PICK r \in Rows : /\ store' = [store EXCEPT ![s] = r] /\ r.at = "stage" /\ r.tx = q.tx
                            /\ r.retired = q.retired
      BY <1>1, <1>10, WentTo DEF Places
    <2>3. PlaceOf(r)'
      BY <1>7, <2>1, <2>2 DEF PlaceOf, NoneLeft, Resuming, InImport, Uncommitted, Reclaiming
    <2>4. QED
      BY <1>1, <1>2, <1>10, <2>1, <2>2, <2>3, Alone, Moved
  <1>11. ASSUME NEW j \in {NoJournal, Torn, w}, journal' = [journal EXCEPT ![q.tx] = j], Fail(s)
         PROVE  ImportInv'
    <2>1. j \in JournalFiles /\ (j.is = "missing" => j = NoJournal)
      BY <1>7
    <2>2. DiskTyped' /\ JournalInv'
      BY <1>2, <1>3, <1>8, <1>9, <1>11, <2>1, JournalSet
    <2>3. QED
      BY <1>1, <1>2, <1>11, <2>2, Alone, Failed
  <1>12. QED
    BY <1>1, <1>5, <1>6, <1>10, <1>11 DEF WriteJournal

LEMMA StageKeeps ==
    ASSUME ImportInv, NEW s \in Stores, Stage(s)
    PROVE  ImportInv'
  <1> USE DEF Quiet
  <1>1. PICK q : q = store[s]
    OBVIOUS
  <1>2. /\ q.at = "stage" /\ q \in Rows /\ store \in [Stores -> Rows] /\ PlaceOf(q)
        /\ DiskTyped /\ UNCHANGED <<config, tombstone, journal, lock, clock, begun>>
    BY <1>1, RowOf, TypeParts DEF Stage, At, ImportInv
  <1>3. /\ q.tx \in Imports /\ Journals = {q.tx} /\ journal[q.tx].is = "whole" /\ Kept(q.tx) = {}
        /\ q.retired = journal[q.tx].retired
    BY <1>1, <1>2, TxOf DEF PlaceOf, InImport, Uncommitted
  <1>4. config' \in [Ids -> Trees] /\ clock' \in Int
    BY <1>2 DEF DiskTyped
  <1>5. staging' \in [Imports -> Names \cup {NoName}]
    BY <1>1, <1>2 DEF Stage, DiskTyped, Rows
  <1>6. PICK there \in {"claim", "undo"} : Goto(s, there)
    BY DEF Stage
  <1>7. PICK r \in Rows : /\ store' = [store EXCEPT ![s] = r] /\ r.at = there /\ r.tx = q.tx
                          /\ r.retired = q.retired
    BY <1>1, <1>6, WentTo DEF Places
  <1>8. PlaceOf(r)
    BY <1>3, <1>7 DEF PlaceOf, NoneLeft, Resuming, InImport, Uncommitted, Reclaiming
  <1>9. QED
    BY <1>1, <1>2, <1>4, <1>5, <1>7, <1>8, OnlyMoved

LEMMA ClaimKeeps ==
    ASSUME ImportInv, NEW s \in Stores, Claim(s)
    PROVE  ImportInv'
  <1> USE DEF Quiet
  <1>1. PICK q : q = store[s]
    OBVIOUS
  <1>2. /\ q.at = "claim" /\ q \in Rows /\ store \in [Stores -> Rows] /\ PlaceOf(q)
        /\ DiskTyped /\ UNCHANGED <<disk, lock, clock, begun>>
    BY <1>1, RowOf, TypeParts DEF Claim, At, ImportInv
  <1>3. /\ q.tx \in Imports /\ Journals = {q.tx} /\ journal[q.tx].is = "whole" /\ Kept(q.tx) = {}
        /\ q.retired = journal[q.tx].retired /\ q.retired \in SUBSET Ids
    BY <1>1, <1>2, TxOf DEF PlaceOf, InImport, Uncommitted, Rows
  <1>4. PICK r \in Rows : /\ store' = [store EXCEPT ![s] = r] /\ r.at \in {"retire", "undo"}
                          /\ r.tx = q.tx /\ r.retired = q.retired
                          /\ r.at = "retire" => r.left = q.retired
    <2>1. CASE GotoWith(s, "retire", q.retired)
      BY <1>1, <1>3, <2>1, WentWith DEF Places
    <2>2. CASE Goto(s, "undo")
      BY <1>1, <2>2, WentTo DEF Places
    <2>3. QED
      BY <1>1, <2>1, <2>2 DEF Claim
  <1>5. PlaceOf(r)
    BY <1>3, <1>4 DEF PlaceOf, NoneLeft, Resuming, InImport, Uncommitted, Reclaiming
  <1>6. QED
    BY <1>1, <1>2, <1>4, <1>5, OnlyMoved DEF disk, DiskTyped

\* What was retired so far is moved back.
LEMMA RollbackStarts ==
    ASSUME ImportInv, NEW s \in Stores, store[s].at \in {"retire", "publish"}, StartRollback(s),
           UNCHANGED <<disk, lock, clock, begun>>
    PROVE  ImportInv'
  <1> USE DEF Quiet
  <1>1. PICK q : q = store[s]
    OBVIOUS
  <1>2. q \in Rows /\ store \in [Stores -> Rows] /\ PlaceOf(q) /\ DiskTyped
    BY <1>1, RowOf, TypeParts DEF ImportInv
  <1>3. /\ q.tx \in Imports /\ Journals = {q.tx} /\ journal[q.tx].is = "whole"
        /\ Kept(q.tx) = q.retired \ q.left
        /\ q.retired = journal[q.tx].retired /\ q.retired \ q.left \in SUBSET Ids
    BY <1>1, <1>2, TxOf DEF PlaceOf, InImport, Uncommitted, Rows
  <1>4. PICK r \in Rows : /\ store' = [store EXCEPT ![s] = r] /\ r.at = "rollback"
                          /\ r.tx = q.tx /\ r.retired = q.retired /\ r.left = q.retired \ q.left
    BY <1>1, <1>3, WentWith DEF Places, StartRollback
  <1>5. PlaceOf(r)
    BY <1>3, <1>4 DEF PlaceOf, NoneLeft, Resuming, InImport, Uncommitted, Reclaiming
  <1>6. QED
    BY <1>1, <1>2, <1>4, <1>5, OnlyMoved DEF disk, DiskTyped

LEMMA RetiredKeeps ==
    ASSUME ImportInv, NEW tx \in Imports, NEW i \in Ids, Retired(tx, i),
           journal[tx].is = "whole", i \in journal[tx].retired,
           UNCHANGED <<staging, journal, begun, clock>>
    PROVE  /\ DiskTyped' /\ JournalInv' /\ Journals' = Journals /\ Kept(tx)' = Kept(tx) \cup {i}
           /\ config'[i] = Missing /\ \A k \in Ids \ {i} : config'[k] = config[k]
  <1>1. DiskTyped
    BY TypeParts DEF ImportInv
  <1>2. PICK t : t = config[i]
    OBVIOUS
  <1>3. t \in Trees /\ t # Missing /\ tombstone' = [tombstone EXCEPT ![tx][i] = t]
    BY <1>1, <1>2 DEF Retired, Absent, DiskTyped
  <1>4. config' \in [Ids -> Trees] /\ clock' \in Int
    BY <1>1, TreesOf DEF Retired, DiskTyped
  <1>5. DiskTyped' /\ JournalInv' /\ Journals' = Journals /\ Kept(tx)' = Kept(tx) \cup {i}
    BY <1>3, <1>4, TombstoneSet
  <1>6. config'[i] = Missing /\ \A k \in Ids \ {i} : config'[k] = config[k]
    BY <1>1 DEF Retired, DiskTyped
  <1>7. QED
    BY <1>5, <1>6

LEMMA RetireKeeps ==
    ASSUME ImportInv, NEW s \in Stores, Retire(s)
    PROVE  ImportInv'
  <1> USE DEF Quiet
  <1>1. PICK q : q = store[s]
    OBVIOUS
  <1>2. /\ q.at = "retire" /\ q \in Rows /\ store \in [Stores -> Rows] /\ PlaceOf(q)
        /\ DiskTyped /\ UNCHANGED <<staging, journal, lock, clock, begun>>
    BY <1>1, RowOf, TypeParts DEF Retire, At, ImportInv
  <1>3. /\ q.tx \in Imports /\ Journals = {q.tx} /\ journal[q.tx].is = "whole"
        /\ q.retired = journal[q.tx].retired /\ q.left \subseteq q.retired
        /\ Kept(q.tx) = q.retired \ q.left /\ q.left \in SUBSET Ids /\ q.retired \in SUBSET Ids
    BY <1>1, <1>2, TxOf DEF PlaceOf, InImport, Uncommitted, Rows
  <1>4. CASE q.left = {} /\ Goto(s, "publish") /\ UNCHANGED <<config, tombstone>>
    <2>1. PICK r \in Rows : /\ store' = [store EXCEPT ![s] = r] /\ r.at = "publish" /\ r.tx = q.tx
                            /\ r.retired = q.retired /\ r.left = q.left
      BY <1>1, <1>4, WentTo DEF Places
    <2>2. PlaceOf(r)
      BY <1>3, <1>4, <2>1 DEF PlaceOf, NoneLeft, Resuming, InImport, Uncommitted, Reclaiming
    <2>3. QED
      BY <1>1, <1>2, <1>4, <2>1, <2>2, OnlyMoved DEF DiskTyped
  <1>5. ASSUME NEW i \in Ids, i = First(q.left), i \in q.left, Retired(q.tx, i),
               GotoWith(s, "retire", q.left \ {i})
        PROVE  ImportInv'
    <2>1. /\ DiskTyped' /\ JournalInv' /\ Journals' = Journals
          /\ Kept(q.tx)' = Kept(q.tx) \cup {i}
      BY <1>2, <1>3, <1>5, RetiredKeeps
    <2>2. PICK r \in Rows : /\ store' = [store EXCEPT ![s] = r] /\ r.at = "retire" /\ r.tx = q.tx
                            /\ r.retired = q.retired /\ r.left = q.left \ {i}
      BY <1>1, <1>3, <1>5, WentWith DEF Places
    <2>3. Kept(q.tx)' = r.retired \ r.left /\ r.left \subseteq r.retired
      BY <1>3, <1>5, <2>1, <2>2
    <2>4. PlaceOf(r)'
      BY <1>2, <1>3, <2>1, <2>2, <2>3 DEF PlaceOf, NoneLeft, Resuming, InImport, Uncommitted, Reclaiming
    <2>5. QED
      BY <1>1, <1>2, <2>1, <2>2, <2>4, Alone, Moved
  <1>6. CASE StartRollback(s) /\ UNCHANGED <<config, tombstone>>
    BY <1>1, <1>2, <1>6, RollbackStarts DEF disk
  <1>7. q.left # {} => First(q.left) \in q.left /\ First(q.left) \in Ids
    BY <1>3, FirstIsIn
  <1>8. QED
    BY <1>1, <1>4, <1>5, <1>6, <1>7 DEF Retire

LEMMA PublishKeeps ==
    ASSUME ImportInv, NEW s \in Stores, Publish(s)
    PROVE  ImportInv'
  <1> USE DEF Quiet
  <1>1. PICK q : q = store[s]
    OBVIOUS
  <1>2. /\ q.at = "publish" /\ q \in Rows /\ store \in [Stores -> Rows] /\ PlaceOf(q)
        /\ DiskTyped /\ UNCHANGED <<tombstone, journal, lock, begun>>
    BY <1>1, RowOf, TypeParts DEF Publish, At, ImportInv
  <1>3. /\ q.tx \in Imports /\ Journals = {q.tx} /\ journal[q.tx].is = "whole"
        /\ q.retired = journal[q.tx].retired /\ q.left = {}
        /\ Kept(q.tx) = q.retired \ q.left /\ q.retired \in SUBSET Ids
    BY <1>1, <1>2, TxOf DEF PlaceOf, InImport, Uncommitted, Rows
  <1>4. PICK i : i = journal[q.tx].target
    OBVIOUS
  <1>5. CASE /\ Absent(i)
             /\ config' = [config EXCEPT ![i] = Tree(staging[q.tx], q.tx)]
             /\ clock' = IF clock > i THEN clock ELSE i + 1
             /\ staging' = [staging EXCEPT ![q.tx] = NoName]
             /\ GotoWith(s, "reclaim", q.retired)
    <2>1. i \in {0} \cup Ids /\ i \in Int
      BY <1>2, <1>3, <1>4 DEF DiskTyped, JournalFiles, Ids
    <2>2. Tree(staging[q.tx], q.tx) \in Trees
      BY <1>2, <1>3, TreesOf DEF DiskTyped
    <2>3. /\ config' \in [Ids -> Trees] /\ clock' \in Int
          /\ staging' \in [Imports -> Names \cup {NoName}]
      <3>1. config' \in [Ids -> Trees]
        BY <1>2, <1>5, <2>2 DEF DiskTyped
      <3>2. clock' \in Int
        BY <1>2, <1>5, <2>1 DEF DiskTyped
      <3>3. staging' \in [Imports -> Names \cup {NoName}]
        BY <1>2, <1>5 DEF DiskTyped
      <3>4. QED
        BY <3>1, <3>2, <3>3
    <2>4. PICK r \in Rows : /\ store' = [store EXCEPT ![s] = r] /\ r.at = "reclaim" /\ r.tx = q.tx
                            /\ r.retired = q.retired /\ r.left = q.retired
      BY <1>1, <1>3, <1>5, WentWith DEF Places
    <2>5. PlaceOf(r)
      BY <1>3, <2>4 DEF PlaceOf, NoneLeft, Resuming, InImport, Uncommitted, Reclaiming
    <2>6. QED
      BY <1>1, <1>2, <2>3, <2>4, <2>5, OnlyMoved
  <1>6. CASE StartRollback(s) /\ UNCHANGED <<config, staging, clock>>
    BY <1>1, <1>2, <1>6, RollbackStarts DEF disk
  <1>7. QED
    BY <1>1, <1>4, <1>5, <1>6 DEF Publish

LEMMA RollbackKeeps ==
    ASSUME ImportInv, NEW s \in Stores, Rollback(s)
    PROVE  ImportInv'
  <1> USE DEF Quiet
  <1>1. PICK q : q = store[s]
    OBVIOUS
  <1>2. /\ q.at = "rollback" /\ q \in Rows /\ store \in [Stores -> Rows] /\ PlaceOf(q)
        /\ DiskTyped /\ UNCHANGED <<staging, journal, lock, clock, begun>>
    BY <1>1, RowOf, TypeParts DEF Rollback, At, ImportInv
  <1>3. /\ q.tx \in Imports /\ Journals = {q.tx} /\ journal[q.tx].is = "whole"
        /\ q.retired = journal[q.tx].retired /\ q.left \in SUBSET Ids
        /\ q.ok => Kept(q.tx) \subseteq q.left
    BY <1>1, <1>2, TxOf DEF PlaceOf, InImport, Uncommitted, Rows
  <1>4. CASE q.left = {} /\ Goto(s, "undo") /\ UNCHANGED <<config, tombstone>>
    <2>1. PICK r \in Rows : /\ store' = [store EXCEPT ![s] = r] /\ r.at = "undo" /\ r.tx = q.tx
                            /\ r.retired = q.retired /\ r.ok = q.ok
      BY <1>1, <1>4, WentTo DEF Places
    <2>2. PlaceOf(r)
      BY <1>3, <1>4, <2>1 DEF PlaceOf, NoneLeft, Resuming, InImport, Uncommitted, Reclaiming
    <2>3. QED
      BY <1>1, <1>2, <1>4, <2>1, <2>2, OnlyMoved DEF DiskTyped
  <1>5. ASSUME NEW i \in Ids, Restored(q.tx, i), GotoWith(s, "rollback", q.left \ {i})
        PROVE  ImportInv'
    <2>1. /\ DiskTyped' /\ JournalInv' /\ Journals' = Journals
          /\ Kept(q.tx)' = Kept(q.tx) \ {i}
      BY <1>2, <1>3, <1>5, RestoredKeeps
    <2>2. PICK r \in Rows : /\ store' = [store EXCEPT ![s] = r] /\ r.at = "rollback" /\ r.tx = q.tx
                            /\ r.retired = q.retired /\ r.left = q.left \ {i} /\ r.ok = q.ok
      BY <1>1, <1>3, <1>5, WentWith DEF Places
    <2>3. PlaceOf(r)'
      BY <1>2, <1>3, <2>1, <2>2 DEF PlaceOf, NoneLeft, Resuming, InImport, Uncommitted, Reclaiming
    <2>4. QED
      BY <1>1, <1>2, <2>1, <2>2, <2>3, Alone, Moved
  <1>6. ASSUME NEW i \in Ids, UNCHANGED <<config, tombstone>>,
               store' = [store EXCEPT ![s] = [@ EXCEPT !.left = store[s].left \ {i}, !.ok = FALSE]]
        PROVE  ImportInv'
    <2>1. PICK r : r = [store[s] EXCEPT !.left = store[s].left \ {i}, !.ok = FALSE]
      OBVIOUS
    <2>2. /\ r \in Rows /\ r.at = "rollback" /\ r.tx = q.tx /\ r.retired = q.retired
          /\ r.ok = FALSE
      BY <1>1, <1>2, <2>1 DEF Rows
    <2>3. store' = [store EXCEPT ![s] = r]
      BY <1>6, <2>1
    <2>4. PlaceOf(r)
      BY <1>3, <2>2 DEF PlaceOf, NoneLeft, Resuming, InImport, Uncommitted, Reclaiming
    <2>5. QED
      BY <1>1, <1>2, <1>6, <2>2, <2>3, <2>4, OnlyMoved DEF DiskTyped
  <1>7. q.left # {} => Final(q.left) \in Ids
    BY <1>3, FinalIsIn
  <1>8. QED
    BY <1>1, <1>4, <1>5, <1>6, <1>7 DEF Rollback

LEMMA UndoKeeps ==
    ASSUME ImportInv, NEW s \in Stores, Undo(s)
    PROVE  ImportInv'
  <1> USE DEF Quiet
  <1>1. PICK q : q = store[s]
    OBVIOUS
  <1>2. /\ q.at = "undo" /\ q \in Rows /\ store \in [Stores -> Rows] /\ PlaceOf(q)
        /\ DiskTyped /\ UNCHANGED <<config, tombstone, journal, lock, clock, begun>>
        /\ Goto(s, "undo_journal")
    BY <1>1, RowOf, TypeParts DEF Undo, At, ImportInv
  <1>3. /\ q.tx \in Imports /\ Journals = {q.tx} /\ journal[q.tx].is = "whole"
        /\ q.retired = journal[q.tx].retired /\ q.ok => Kept(q.tx) = {}
    BY <1>1, <1>2, TxOf DEF PlaceOf, InImport, Uncommitted
  <1>4. staging' \in [Imports -> Names \cup {NoName}]
    BY <1>2 DEF Undo, DiskTyped
  <1>5. PICK r \in Rows : /\ store' = [store EXCEPT ![s] = r] /\ r.at = "undo_journal"
                          /\ r.tx = q.tx /\ r.retired = q.retired /\ r.ok = q.ok
    BY <1>1, <1>2, WentTo DEF Places
  <1>6. PlaceOf(r)
    BY <1>2, <1>3, <1>5 DEF PlaceOf, NoneLeft, Resuming, InImport, Uncommitted, Reclaiming
  <1>7. QED
    BY <1>1, <1>2, <1>4, <1>5, <1>6, OnlyMoved DEF DiskTyped

LEMMA UndoJournalKeeps ==
    ASSUME ImportInv, NEW s \in Stores, UndoJournal(s)
    PROVE  ImportInv'
  <1> USE DEF Quiet
  <1>1. /\ store[s].at = "undo_journal" /\ UNCHANGED <<config, staging, tombstone, clock, begun>>
        /\ DiskTyped /\ Fail(s)
    BY RowOf DEF UndoJournal, At
  <1>2. (store[s].ok => Kept(store[s].tx) = {}) /\ store[s].at \in InImport
    BY <1>1, RowOf DEF PlaceOf, InImport, Uncommitted
  <1>3. CASE store[s].ok /\ JournalRemoved(store[s].tx)
    BY <1>1, <1>2, <1>3, JournalRemovedKeeps
  <1>4. CASE UNCHANGED journal
    BY <1>1, <1>4, OnlyFailed DEF DiskTyped
  <1>5. QED
    BY <1>3, <1>4 DEF UndoJournal

LEMMA ReclaimKeeps ==
    ASSUME ImportInv, NEW s \in Stores, Reclaim(s)
    PROVE  ImportInv'
  <1> USE DEF Quiet
  <1>1. PICK q : q = store[s]
    OBVIOUS
  <1>2. /\ q.at = "reclaim" /\ q \in Rows /\ store \in [Stores -> Rows] /\ PlaceOf(q)
        /\ DiskTyped /\ JournalInv /\ UNCHANGED <<config, staging, journal, clock, begun>>
    BY <1>1, RowOf, TypeParts DEF Reclaim, At, ImportInv
  <1>3. /\ q.tx \in Imports /\ Journals = {q.tx} /\ journal[q.tx].is = "whole"
        /\ q.retired = journal[q.tx].retired /\ q.left \in SUBSET Ids
        /\ q.ok => Kept(q.tx) \subseteq q.left
    BY <1>1, <1>2, TxOf DEF PlaceOf, InImport, Reclaiming, Rows
  <1>4. config' \in [Ids -> Trees] /\ staging' \in [Imports -> Names \cup {NoName}] /\ clock' \in Int
    BY <1>2 DEF DiskTyped
  <1>5. CASE q.left = {} /\ q.ok /\ Goto(s, "reclaim_journal") /\ UNCHANGED <<tombstone, lock>>
    <2>1. PICK r \in Rows : /\ store' = [store EXCEPT ![s] = r] /\ r.at = "reclaim_journal"
                            /\ r.tx = q.tx /\ r.retired = q.retired
      BY <1>1, <1>5, WentTo DEF Places
    <2>2. PlaceOf(r)
      BY <1>3, <1>5, <2>1 DEF PlaceOf, NoneLeft, Resuming, InImport, Uncommitted, Reclaiming
    <2>3. QED
      BY <1>1, <1>2, <1>4, <1>5, <2>1, <2>2, OnlyMoved
  <1>6. CASE Fail(s) /\ UNCHANGED tombstone
    BY <1>1, <1>2, <1>4, <1>6, OnlyFailed
  <1>7. ASSUME NEW i \in Ids, Reclaimed(q.tx, i), GotoWith(s, "reclaim", q.left \ {i}), UNCHANGED lock
        PROVE  ImportInv'
    <2>1. PICK r \in Rows : /\ store' = [store EXCEPT ![s] = r] /\ r.at = "reclaim" /\ r.tx = q.tx
                            /\ r.retired = q.retired /\ r.left = q.left \ {i} /\ r.ok = q.ok
      BY <1>1, <1>3, <1>7, WentWith DEF Places
    <2>2. /\ DiskTyped' /\ JournalInv' /\ Journals' = Journals
          /\ Kept(q.tx)' = Kept(q.tx) \ {i}
      BY <1>2, <1>3, <1>4, <1>7, TombstoneSet, TreesOf DEF Reclaimed
    <2>3. PlaceOf(r)'
      BY <1>2, <1>3, <2>1, <2>2 DEF PlaceOf, NoneLeft, Resuming, InImport, Uncommitted, Reclaiming
    <2>4. QED
      BY <1>1, <1>2, <1>7, <2>1, <2>2, <2>3, Alone, Moved
  <1>8. ASSUME NEW i \in Ids, PartlyReclaimed(q.tx, i), UNCHANGED lock,
               store' = [store EXCEPT ![s] = [@ EXCEPT !.left = store[s].left \ {i}, !.ok = FALSE]]
        PROVE  ImportInv'
    <2>1. PICK t : t = [tombstone[q.tx][i] EXCEPT !.whole = FALSE]
      OBVIOUS
    <2>2. t \in Trees /\ tombstone' = [tombstone EXCEPT ![q.tx][i] = t]
      BY <1>2, <1>3, <1>8, <2>1, TreesOf DEF PartlyReclaimed, DiskTyped
    <2>3. i \in Kept(q.tx)
      BY <1>8 DEF PartlyReclaimed, Kept
    <2>4. journal[q.tx].is = "whole" /\ i \in journal[q.tx].retired
      BY <1>2, <1>3, <2>3 DEF JournalInv
    <2>5. DiskTyped' /\ JournalInv' /\ Journals' = Journals
      BY <1>2, <1>3, <1>4, <2>2, <2>4, TombstoneSet
    <2>6. PICK r : r = [store[s] EXCEPT !.left = store[s].left \ {i}, !.ok = FALSE]
      OBVIOUS
    <2>7. /\ r \in Rows /\ r.at = "reclaim" /\ r.tx = q.tx /\ r.retired = q.retired
          /\ r.ok = FALSE
      BY <1>1, <1>2, <2>6 DEF Rows
    <2>8. store' = [store EXCEPT ![s] = r]
      BY <1>8, <2>6
    <2>9. PlaceOf(r)'
      BY <1>2, <1>3, <2>5, <2>7 DEF PlaceOf, NoneLeft, Resuming, InImport, Uncommitted, Reclaiming
    <2>10. QED
      BY <1>1, <1>2, <1>8, <2>5, <2>7, <2>8, <2>9, Alone, Moved
  <1>9. q.left # {} => First(q.left) \in Ids
    BY <1>3, FirstIsIn
  <1>10. QED
    BY <1>1, <1>5, <1>6, <1>7, <1>8, <1>9 DEF Reclaim

LEMMA ReclaimJournalKeeps ==
    ASSUME ImportInv, NEW s \in Stores, ReclaimJournal(s)
    PROVE  ImportInv'
  <1> USE DEF Quiet
  <1>1. /\ store[s].at = "reclaim_journal"
        /\ UNCHANGED <<config, staging, tombstone, clock, begun>> /\ DiskTyped
    BY RowOf DEF ReclaimJournal, At
  <1>2. Kept(store[s].tx) = {} /\ store[s].at \in InImport
    BY <1>1, RowOf DEF PlaceOf, InImport, Reclaiming
  <1>3. CASE JournalRemoved(store[s].tx)
    BY <1>1, <1>2, <1>3, JournalRemovedKeeps DEF ReclaimJournal
  <1>4. CASE UNCHANGED journal /\ Fail(s)
    BY <1>1, <1>4, OnlyFailed DEF DiskTyped
  <1>5. QED
    BY <1>3, <1>4 DEF ReclaimJournal

LEMMA ReclaimMarkerKeeps ==
    ASSUME ImportInv, NEW s \in Stores, ReclaimMarker(s)
    PROVE  ImportInv'
  <1> USE DEF Quiet
  <1>1. /\ store[s].at = "reclaim_marker" /\ UNCHANGED <<staging, tombstone, journal, clock, begun>>
        /\ DiskTyped /\ Fail(s)
    BY RowOf DEF ReclaimMarker, At
  <1>2. UNCHANGED config \/ \E i \in Ids : MarkerRemoved(i)
    BY DEF ReclaimMarker, Marked
  <1>3. config' \in [Ids -> Trees]
    BY <1>1, <1>2, MarkerRemovedTyped DEF DiskTyped
  <1>4. QED
    BY <1>1, <1>3, OnlyFailed DEF DiskTyped

\* Another profile comes or goes.
LEMMA ProfilesKeep ==
    ASSUME ImportInv, NEW s \in Stores,
           \/ \E n \in Names : CreateProfile(s, n)
           \/ \E i \in Ids : RemoveProfile(s, i)
    PROVE  ImportInv'
  <1>1. UNCHANGED <<staging, tombstone, journal, lock, begun, store>> /\ DiskTyped
    BY RowOf DEF CreateProfile, RemoveProfile
  <1>2. config' \in [Ids -> Trees] /\ clock' \in Int
    <2>1. CASE \E n \in Names : CreateProfile(s, n)
      <3>1. Fresh \in Int
        BY <2>1, FreshIsIn DEF CreateProfile, Ids
      <3>2. \A n \in Names : Tree(n, 0) \in Trees
        BY TreesOf
      <3>3. config' \in [Ids -> Trees]
        BY <1>1, <2>1, <3>2 DEF CreateProfile, DiskTyped
      <3>4. clock' \in Int
        BY <2>1, <3>1 DEF CreateProfile
      <3>5. QED
        BY <3>3, <3>4
    <2>2. CASE \E i \in Ids : RemoveProfile(s, i)
      BY <1>1, <2>2, TreesOf DEF RemoveProfile, DiskTyped
    <2>3. QED
      BY <2>1, <2>2
  <1>3. DiskTyped' /\ JournalInv'
    BY <1>1, <1>2, DiskSame DEF DiskTyped
  <1>4. TypeOK' /\ LockInv'
    BY <1>1, <1>3, TypeParts, TypePartsNext DEF ImportInv, LockInv
  <1>5. ASSUME NEW u \in Stores
        PROVE  PlaceInv(u)'
    <2>1. PICK q : q = store[u]
      OBVIOUS
    <2>2. PlaceOf(q)'
      BY <1>1, <2>1, RowOf, JournalsSame
    <2>3. QED
      BY <1>1, <2>1, <2>2, PlaceIsNext
  <1>6. QED
    BY <1>3, <1>4, <1>5 DEF ImportInv

-----------------------------------------------------------------------------
(* Type correctness and tombstones *)

LEMMA ImportInvInitially == Init => ImportInv
  <1> SUFFICES ASSUME Init
               PROVE  ImportInv
    OBVIOUS
  <1> USE ConfigImportAssumption
  <1>1. PICK n \in [Old -> Names] :
            config = [i \in Ids |-> IF i \in Old THEN Tree(n[i], 0) ELSE Missing]
    BY DEF Init
  <1>2. config \in [Ids -> Trees]
    BY <1>1, TreesOf
  <1>3. clock \in Int
    <2> DEFINE C == {c \in 1..MaxId + 1 : \A i \in Old : i < c}
    <2>1. C \in SUBSET Nat
      OBVIOUS
    <2>2. MaxId + 1 \in C
      BY DEF Ids
    <2>3. First(C) \in Nat
      <3> HIDE DEF C
      <3>1. QED
        BY <2>1, <2>2, LeastIsIn
    <2>4. QED
      BY <2>3 DEF Init
  <1>4. DiskTyped
    BY <1>2, <1>3, TreesOf DEF Init, DiskTyped, JournalFiles, NoJournal, Imports
  <1>5. Down \in Rows /\ Down.at = "down"
    BY DEF Down, Rows, Places, Imports
  <1>6. TypeOK
    BY <1>4, <1>5, TypeParts DEF Init
  <1>7. LockInv
    BY <1>5 DEF Init, LockInv
  <1>8. Journals = {} /\ \A tx \in Imports : Kept(tx) = {}
    BY DEF Init, Journals, Kept
  <1>9. JournalInv
    BY <1>8 DEF Init, JournalInv, NoJournal
  <1>10. ASSUME NEW s \in Stores
         PROVE  PlaceInv(s)
    BY <1>5 DEF Init, PlaceInv, NoneLeft, Resuming, InImport, Uncommitted, Reclaiming
  <1>11. QED
    BY <1>6, <1>7, <1>9, <1>10 DEF ImportInv

LEMMA ImportInvStep == ImportInv /\ [Next]_vars => ImportInv'
  <1> SUFFICES ASSUME ImportInv, [Next]_vars
               PROVE  ImportInv'
    OBVIOUS
  <1>1. CASE UNCHANGED vars
    BY <1>1 DEF vars, disk, ImportInv, TypeOK, LockInv, JournalInv, PlaceInv, Journals, Kept
  <1>2. ASSUME NEW s \in Stores, Recovering(s)
        PROVE  ImportInv'
    BY <1>2, OpenKeeps, RecoverKeeps, FinishKeeps, RestoreKeeps, UnstageKeeps, ForgetKeeps,
       UnmarkKeeps, SweepKeeps, LeftKeeps DEF Recovering
  <1>3. ASSUME NEW s \in Stores, Importing(s)
        PROVE  ImportInv'
    BY <1>3, LeftKeeps, AdmitKeeps, WriteJournalKeeps, StageKeeps, ClaimKeeps, RetireKeeps,
       PublishKeeps, RollbackKeeps, UndoKeeps, UndoJournalKeeps, ReclaimKeeps,
       ReclaimJournalKeeps, ReclaimMarkerKeeps DEF Importing
  <1>4. QED
    BY <1>1, <1>2, <1>3, CrashKeeps, ImportKeeps, ProfilesKeep DEF Next

\* Every variable keeps its range, one store at a time recovers or imports, there is at most
\* one journal and no tombstone without it, and each place of recovery and of an import knows
\* how far it has come (import_config, recover_import_transactions).
THEOREM ImportSound == Spec => []ImportInv
  BY ImportInvInitially, ImportInvStep, PTL DEF Spec

\* A tombstone always belongs to a journal that names it, however calls fail and stores crash
\* and whatever other stores remove (rollback_retired, the reclamation, recovery).
THEOREM TombstonesOwnedAlways == Spec => []TombstonesOwned
  <1>1. ImportInv => TombstonesOwned
    BY DEF ImportInv, JournalInv, TombstonesOwned, Kept
  <1>2. QED
    BY <1>1, ImportSound, PTL

-----------------------------------------------------------------------------
(* The profile that is there, or will be once recovery has run *)

\* With a journal of tx at most.
LEMMA ProfileIs ==
    ASSUME JournalInv, NEW tx \in Imports, Journals \subseteq {tx}, NEW k \in Ids
    PROVE  Profile(k) = IF ~Absent(k) THEN Shown(config[k])
                        ELSE IF k \in Kept(tx) /\ ~Committed(tx) THEN Shown(tombstone[tx][k])
                        ELSE NoName
  <1> DEFINE held == {u \in Imports : /\ journal[u].is = "whole" /\ ~Committed(u)
                                      /\ tombstone[u][k] # Missing}
  <1>1. \A u \in held : u = tx
    BY DEF Journals, NoJournal
  <1>2. tx \in held <=> k \in Kept(tx) /\ ~Committed(tx)
    BY DEF JournalInv, Kept
  <1>3. CASE k \in Kept(tx) /\ ~Committed(tx)
    <2>1. held = {tx}
      <3> HIDE DEF held
      <3>1. QED
        BY <1>1, <1>2, <1>3
    <2>2. First(held) = tx
      BY <2>1, FirstOfOne DEF Imports
    <2>3. held # {}
      BY <2>1
    <2>4. QED
      BY <1>3, <2>2, <2>3 DEF Profile
  <1>4. CASE ~(k \in Kept(tx) /\ ~Committed(tx))
    <2>1. held = {}
      <3> HIDE DEF held
      <3>1. QED
        BY <1>1, <1>2, <1>4
    <2>2. QED
      BY <1>4, <2>1 DEF Profile
  <1>5. QED
    BY <1>3, <1>4

LEMMA ProfileIsNext ==
    ASSUME JournalInv', NEW tx \in Imports, Journals' \subseteq {tx}, NEW k \in Ids
    PROVE  Profile(k)' = IF ~Absent(k)' THEN Shown(config'[k])
                         ELSE IF k \in Kept(tx)' /\ ~Committed(tx)' THEN Shown(tombstone'[tx][k])
                         ELSE NoName
  <1> DEFINE held == {u \in Imports : /\ journal'[u].is = "whole" /\ ~Committed(u)'
                                      /\ tombstone'[u][k] # Missing}
  <1>1. \A u \in held : u = tx
    BY DEF Journals, NoJournal
  <1>2. tx \in held <=> k \in Kept(tx)' /\ ~Committed(tx)'
    BY DEF JournalInv, Kept
  <1>3. CASE k \in Kept(tx)' /\ ~Committed(tx)'
    <2>1. held = {tx}
      <3> HIDE DEF held
      <3>1. QED
        BY <1>1, <1>2, <1>3
    <2>2. First(held) = tx
      BY <2>1, FirstOfOne DEF Imports
    <2>3. held # {}
      BY <2>1
    <2>4. QED
      BY <1>3, <2>2, <2>3 DEF Profile
  <1>4. CASE ~(k \in Kept(tx)' /\ ~Committed(tx)')
    <2>1. held = {}
      <3> HIDE DEF held
      <3>1. QED
        BY <1>1, <1>2, <1>4
    <2>2. QED
      BY <1>4, <2>1 DEF Profile
  <1>5. QED
    BY <1>3, <1>4

\* Without one.
LEMMA ProfileBare ==
    ASSUME Journals = {}, NEW k \in Ids
    PROVE  Profile(k) = IF ~Absent(k) THEN Shown(config[k]) ELSE NoName
  BY DEF Profile, Journals, NoJournal

LEMMA ProfileBareNext ==
    ASSUME Journals' = {}, NEW k \in Ids
    PROVE  Profile(k)' = IF ~Absent(k)' THEN Shown(config'[k]) ELSE NoName
  BY DEF Profile, Journals, NoJournal

\* A tombstone that is taken back or whose removal began no longer counts once the
\* publication is marked.
LEMMA ProfileFinished ==
    ASSUME JournalInv, JournalInv', NEW tx \in Imports, Journals \subseteq {tx}, Committed(tx),
           UNCHANGED <<config, journal>>
    PROVE  \A k \in Ids : Profile(k)' = Profile(k)
  <1>1. Journals' \subseteq {tx} /\ Committed(tx)'
    BY DEF Journals, Committed
  <1>2. ASSUME NEW k \in Ids
        PROVE  Profile(k)' = Profile(k)
    BY <1>1, ProfileIs, ProfileIsNext DEF Absent
  <1>3. QED
    BY <1>2

\* Nor does a journal without a tombstone.
LEMMA ProfileUnkept ==
    ASSUME JournalInv, JournalInv', NEW tx \in Imports, Journals \subseteq {tx},
           Journals' \subseteq {tx}, Kept(tx) = {}, UNCHANGED <<config, tombstone>>
    PROVE  \A k \in Ids : Profile(k)' = Profile(k)
  <1>1. Kept(tx)' = {}
    BY DEF Kept
  <1>2. ASSUME NEW k \in Ids
        PROVE  Profile(k)' = Profile(k)
    BY <1>1, ProfileIs, ProfileIsNext DEF Absent
  <1>3. QED
    BY <1>2

-----------------------------------------------------------------------------
(* What the places know of the publication, and what others leave of it *)

SeenOf(r) == IF r.at \in {"write", "stage", "claim", "retire", "publish"} THEN r.retired ELSE {}

\* ImportOf of the locals r of a store.
CommitOf(r) ==
    /\ r.at \notin {"write", "reclaim_marker"} \cup InImport => r.retired = {}
    /\ r.at = "down" => r.opening
    /\ r.at \notin {"down", "ready"} /\ ~r.opening => r.name \in Names
    /\ r.at \in {"admit", "write", "reclaim_marker"} \cup InImport => ~r.opening
    /\ r.at \in {"finish"} \cup Reclaiming => Committed(r.tx)
    /\ r.at \in {"restore"} \cup Uncommitted => ~Committed(r.tx)
    /\ r.at = "write" =>
          /\ \A i \in Ids : config[i].marker # r.tx
          /\ \A i \in r.retired : ~Absent(i) /\ i \notin r.left
    /\ r.at \in {"claim", "retire", "publish"} => staging[r.tx] = r.name
    /\ r.at = "rejected" => Journals # {} /\ journal[First(Journals)].is = "torn"
    /\ \A i \in SeenOf(r) : Profile(i) = r.name

LEMMA SeenIs ==
    ASSUME NEW s
    PROVE  Seen(s) = SeenOf(store[s]) /\ \A r : store'[s] = r => Seen(s)' = SeenOf(r)
  BY DEF Seen, SeenOf

LEMMA CommitIs ==
    ASSUME NEW s
    PROVE  ImportOf(s) <=> CommitOf(store[s])
  BY DEF ImportOf, CommitOf, Seen, SeenOf

LEMMA CommitIsNext ==
    ASSUME NEW s, NEW r, store'[s] = r
    PROVE  ImportOf(s)' <=> CommitOf(r)'
  BY DEF ImportOf, CommitOf, Seen, SeenOf

LEMMA QuietCommit ==
    ASSUME NEW r, r.at \in Quiet, r.retired = {}, r.at = "down" => r.opening
    PROVE  CommitOf(r)' /\ SeenOf(r) = {}
  BY DEF CommitOf, SeenOf, Quiet, InImport, Uncommitted, Reclaiming

\* What the profiles show stays, and what the import of s will replace too, or is given up.
Unseen(s) ==
    /\ \A k \in Ids : Profile(k)' = Profile(k)
    /\ \A u \in Stores \ {s} : Seen(u)' = Seen(u)
    /\ Seen(s)' = Seen(s) \/ Seen(s)' = {}

Safe == ImportInv /\ CommitInv

LEMMA SafeParts ==
    ASSUME Safe, NEW s \in Stores
    PROVE  /\ ImportInv /\ CommitInv /\ TreeInv /\ WholeInv /\ store[s] \in Rows
           /\ PlaceOf(store[s]) /\ CommitOf(store[s]) /\ DiskTyped /\ JournalInv
           /\ store \in [Stores -> Rows] /\ LockInv
  BY RowOf, CommitIs, TypeParts DEF Safe, ImportInv, CommitInv

LEMMA SafeDisk ==
    ASSUME Safe
    PROVE  TreeInv /\ WholeInv /\ DiskTyped /\ JournalInv
  BY TypeParts DEF Safe, ImportInv, CommitInv

\* The step of one store to the locals r.
LEMMA CommitMoved ==
    ASSUME Safe, TreeInv', WholeInv', NEW s \in Stores, NEW r \in Rows, lock \in {s, NoStore},
           store' = [store EXCEPT ![s] = r],
           CommitOf(r)' \/ (r.at \in Quiet /\ r.retired = {} /\ (r.at = "down" => r.opening))
    PROVE  /\ CommitInv' /\ Seen(s)' = SeenOf(r)
           /\ \A u \in Stores \ {s} : Seen(u)' = Seen(u)
  <1>1. store \in [Stores -> Rows] /\ LockInv /\ NoStore \notin Stores
    BY SafeParts, ConfigImportAssumption
  <1>2. store'[s] = r /\ \A u \in Stores \ {s} : store'[u] = store[u]
    BY <1>1
  <1>3. \A u \in Stores \ {s} : store[u].at \in Quiet
    BY <1>1 DEF LockInv, Quiet
  <1>4. ImportOf(s)'
    BY <1>2, CommitIsNext, QuietCommit
  <1>5. ASSUME NEW u \in Stores \ {s}
        PROVE  ImportOf(u)' /\ Seen(u)' = Seen(u)
    <2>1. PICK q : q = store[u]
      OBVIOUS
    <2>2. q.at \in Quiet /\ CommitOf(q) /\ store'[u] = q
      BY <1>2, <1>3, <2>1, SafeParts
    <2>3. q.retired = {} /\ (q.at = "down" => q.opening)
      BY <2>2 DEF CommitOf, Quiet, InImport, Uncommitted, Reclaiming
    <2>4. CommitOf(q)'
      BY <2>2, <2>3, QuietCommit
    <2>5. QED
      BY <2>1, <2>2, <2>4, CommitIsNext, SeenIs
  <1>6. QED
    BY <1>2, <1>4, <1>5, SeenIs DEF CommitInv

LEMMA CommitSame ==
    ASSUME UNCHANGED <<config, tombstone, journal>>
    PROVE  /\ \A k : Profile(k)' = Profile(k)
           /\ \A tx : Committed(tx)' <=> Committed(tx)
           /\ Journals' = Journals
           /\ begun' = begun /\ clock' = clock => (TreeInv => TreeInv')
           /\ clock' = clock => (WholeInv => WholeInv')
           /\ staging' = staging => \A r : CommitOf(r)' <=> CommitOf(r)
  <1>1. \A tx : Committed(tx)' <=> Committed(tx)
    BY DEF Committed
  <1>2. Journals' = Journals
    BY DEF Journals
  <1>3. \A k : Absent(k)' <=> Absent(k)
    BY DEF Absent
  <1>4. \A tx : Kept(tx)' = Kept(tx)
    BY DEF Kept
  <1>5. \A k : Profile(k)' = Profile(k)
    BY <1>1, <1>3 DEF Profile
  <1>6. begun' = begun /\ clock' = clock => (TreeInv => TreeInv')
    BY <1>3, <1>4 DEF TreeInv, Known
  <1>7. clock' = clock => (WholeInv => WholeInv')
    BY <1>1, <1>3, <1>4 DEF WholeInv
  <1>8. ASSUME staging' = staging, NEW r
        PROVE  CommitOf(r)' <=> CommitOf(r)
    BY <1>1, <1>2, <1>3, <1>5, <1>8 DEF CommitOf
  <1>9. QED
    BY <1>1, <1>2, <1>5, <1>6, <1>7, <1>8

\* The step of a store that leaves the profiles to the locals r.
LEMMA SafeMoved ==
    ASSUME Safe, UNCHANGED <<config, tombstone, journal, clock, begun>>,
           NEW s \in Stores, NEW r \in Rows, lock \in {s, NoStore},
           store' = [store EXCEPT ![s] = r],
           \/ staging' = staging /\ CommitOf(r)
           \/ r.at \in Quiet /\ r.retired = {} /\ (r.at = "down" => r.opening),
           SeenOf(r) \in {Seen(s), {}}
    PROVE  CommitInv' /\ Unseen(s)
  <1>1. TreeInv' /\ WholeInv' /\ (\A k \in Ids : Profile(k)' = Profile(k))
    BY CommitSame, SafeParts
  <1>2. CommitOf(r)' \/ (r.at \in Quiet /\ r.retired = {} /\ (r.at = "down" => r.opening))
    BY CommitSame
  <1>3. CommitInv' /\ Seen(s)' = SeenOf(r) /\ \A u \in Stores \ {s} : Seen(u)' = Seen(u)
    BY <1>1, <1>2, CommitMoved
  <1>4. QED
    BY <1>1, <1>3 DEF Unseen

\* The call is left, whatever it has done to the directory.
LEMMA SafeFailed ==
    ASSUME Safe, TreeInv', WholeInv', NEW s \in Stores, lock = s, Fail(s),
           \A k \in Ids : Profile(k)' = Profile(k)
    PROVE  CommitInv' /\ Unseen(s)
  <1>1. PICK r : r = [Down EXCEPT !.at = IF store[s].opening THEN "down" ELSE "ready",
                                  !.opening = store[s].opening]
    OBVIOUS
  <1>2. store \in [Stores -> Rows]
    BY SafeParts
  <1>3. r \in Rows /\ r.at \in Quiet /\ r.retired = {} /\ (r.at = "down" => r.opening)
    BY <1>1, <1>2 DEF Rows, Down, Quiet, Places, Imports
  <1>4. store' = [store EXCEPT ![s] = r]
    BY <1>1 DEF Fail
  <1>5. CommitInv' /\ Seen(s)' = SeenOf(r) /\ \A u \in Stores \ {s} : Seen(u)' = Seen(u)
    BY <1>3, <1>4, CommitMoved
  <1>6. SeenOf(r) = {}
    BY <1>3, QuietCommit
  <1>7. QED
    BY <1>5, <1>6 DEF Unseen

\* The call is left and the directory is as it was, but for a staging directory.
LEMMA SafeLeft ==
    ASSUME Safe, NEW s \in Stores, store[s].at \notin Quiet, Fail(s),
           UNCHANGED <<config, tombstone, journal, clock, begun>>
    PROVE  CommitInv' /\ Unseen(s)
  BY Alone, SafeFailed, CommitSame, SafeParts

-----------------------------------------------------------------------------
(* What a change of the directory does to the profiles *)

\* Removal of a tombstone whose publication is marked.
LEMMA TombstoneReclaimed ==
    ASSUME Safe, NEW tx \in Imports, Journals = {tx}, Committed(tx), NEW i \in Ids,
           Reclaimed(tx, i) \/ PartlyReclaimed(tx, i), JournalInv',
           UNCHANGED <<config, journal, clock, begun>>
    PROVE  /\ TreeInv' /\ WholeInv' /\ Committed(tx)'
           /\ \A k \in Ids : Profile(k)' = Profile(k)
  <1>1. TreeInv /\ WholeInv /\ DiskTyped /\ JournalInv
    BY SafeDisk
  <1>2. \A k \in Ids : Profile(k)' = Profile(k)
    BY <1>1, ProfileFinished
  <1>3. Committed(tx)' /\ \A k : Absent(k)' <=> Absent(k)
    BY DEF Committed, Absent
  <1>4. WholeInv'
    <2>1. \A u \in Imports : journal[u].is = "whole" => u = tx
      BY DEF Journals, NoJournal
    <2>2. QED
      BY <1>1, <1>3, <2>1 DEF WholeInv
  <1>5. TreeInv'
    <2>1. \A u \in Imports, k \in Ids : tombstone'[u][k] # Missing =>
              /\ tombstone[u][k] # Missing
              /\ tombstone'[u][k].name = tombstone[u][k].name
              /\ tombstone'[u][k].marker = tombstone[u][k].marker
      <3>1. CASE Reclaimed(tx, i)
        BY <1>1, <3>1 DEF Reclaimed, DiskTyped, Trees
      <3>2. CASE PartlyReclaimed(tx, i)
        BY <1>1, <3>2 DEF PartlyReclaimed, DiskTyped, Trees
      <3>3. QED
        BY <3>1, <3>2
    <2>2. \A u \in Imports : \A k \in Kept(u)' : Known(tombstone[u][k]) => Known(tombstone'[u][k])
      BY <2>1 DEF Kept, Known
    <2>3. \A u \in Imports : \A k \in Kept(u)' : k \in Kept(u)
      BY <2>1 DEF Kept
    <2>4. \A u \in Imports : \A k \in Kept(u)' : Known(tombstone'[u][k])
      BY <1>1, <2>2, <2>3 DEF TreeInv
    <2>5. \A k \in Ids : ~Absent(k)' => Known(config'[k]) /\ k < clock'
      BY <1>1, <1>3 DEF TreeInv, Known
    <2>6. \A u \in Imports : \A k \in Kept(u)' : Known(tombstone[u][k])'
      BY <2>4 DEF Known
    <2>7. \A k \in Ids : ~Absent(k)' => Known(config[k])' /\ k < clock'
      BY <2>5 DEF Known
    <2>8. QED
      BY <2>6, <2>7 DEF TreeInv
  <1>6. QED
    BY <1>2, <1>3, <1>4, <1>5

\* A profile is moved aside or back before the publication.
LEMMA ProfileMoved ==
    ASSUME Safe, NEW tx \in Imports, Journals = {tx}, ~Committed(tx), NEW i \in Ids,
           journal[tx].is = "whole", i \in journal[tx].retired,
           Retired(tx, i) \/ Restored(tx, i), JournalInv',
           UNCHANGED <<journal, clock, begun>>
    PROVE  /\ TreeInv' /\ WholeInv' /\ ~Committed(tx)'
           /\ \A k \in Ids : Profile(k)' = Profile(k)
  <1>1. TreeInv /\ WholeInv /\ DiskTyped /\ JournalInv
    BY SafeDisk
  <1>2. Journals' = {tx}
    BY DEF Journals
  <1>3. journal[tx].target \in Ids \ journal[tx].retired
    BY <1>1 DEF WholeInv
  <1>4. /\ \A k \in Ids \ {i} : config'[k] = config[k] /\ tombstone'[tx][k] = tombstone[tx][k]
        /\ \A u \in Imports \ {tx} : tombstone'[u] = tombstone[u]
        /\ \/ /\ config'[i] = Missing /\ tombstone'[tx][i] = config[i]
              /\ config[i] # Missing /\ tombstone[tx][i] = Missing
           \/ /\ tombstone'[tx][i] = Missing /\ config'[i] = tombstone[tx][i]
              /\ config[i] = Missing /\ tombstone[tx][i] # Missing
    BY <1>1 DEF Retired, Restored, Absent, DiskTyped
  <1>5. ~Committed(tx)'
    BY <1>3, <1>4 DEF Committed
  <1>6. ASSUME NEW k \in Ids
        PROVE  Profile(k)' = Profile(k)
    <2>1. /\ Profile(k) = IF config[k] # Missing THEN Shown(config[k])
                          ELSE IF tombstone[tx][k] # Missing THEN Shown(tombstone[tx][k])
                          ELSE NoName
      BY <1>1, ProfileIs DEF Kept, Absent
    <2>2. /\ Profile(k)' = IF config'[k] # Missing THEN Shown(config'[k])
                           ELSE IF tombstone'[tx][k] # Missing THEN Shown(tombstone'[tx][k])
                           ELSE NoName
      BY <1>2, <1>5, ProfileIsNext DEF Kept, Absent
    <2>3. QED
      BY <1>4, <2>1, <2>2
  <1>7. WholeInv'
    <2>1. \A u \in Imports : journal[u].is = "whole" => u = tx
      BY DEF Journals, NoJournal
    <2>2. \A k \in journal[tx].retired : Absent(k) <=> k \in Kept(tx)
      BY <1>1 DEF WholeInv
    <2>3. \A k \in journal[tx].retired : k \in Ids
      BY <1>1 DEF DiskTyped, JournalFiles
    <2>4. \A k \in journal[tx].retired : Absent(k)' <=> k \in Kept(tx)'
      BY <1>4, <2>2, <2>3 DEF Absent, Kept
    <2>5. QED
      BY <1>1, <1>3, <2>1, <2>4 DEF WholeInv
  <1>8. TreeInv'
    <2>1. \A k \in Ids : config[k] # Missing => Known(config[k]) /\ k < clock
      BY <1>1 DEF TreeInv, Absent
    <2>2. \A u \in Imports, k \in Ids : tombstone[u][k] # Missing => Known(tombstone[u][k])
      BY <1>1 DEF TreeInv, Kept
    <2>3. i < clock
      BY <1>1 DEF WholeInv
    <2>4. \A k \in Ids : config'[k] # Missing => Known(config'[k]) /\ k < clock
      BY <1>4, <2>1, <2>2, <2>3
    <2>5. \A u \in Imports, k \in Ids : tombstone'[u][k] # Missing => Known(tombstone'[u][k])
      BY <1>4, <2>1, <2>2
    <2>6. \A k \in Ids : config'[k] # Missing => Known(config[k])' /\ k < clock'
      BY <2>4 DEF Known
    <2>7. \A u \in Imports, k \in Ids : tombstone'[u][k] # Missing => Known(tombstone[u][k])'
      BY <2>5 DEF Known
    <2>8. QED
      BY <2>6, <2>7 DEF TreeInv, Absent, Kept
  <1>9. QED
    BY <1>5, <1>6, <1>7, <1>8

\* The journal is removed.
LEMMA JournalForgotten ==
    ASSUME Safe, NEW tx \in Imports, Journals = {tx}, Kept(tx) = {}, JournalRemoved(tx),
           UNCHANGED <<config, tombstone, begun, clock>>, JournalInv', Journals' = {}
    PROVE  TreeInv' /\ WholeInv' /\ \A k \in Ids : Profile(k)' = Profile(k)
  <1>1. TreeInv /\ JournalInv
    BY SafeDisk
  <1>2. \A k \in Ids : Profile(k)' = Profile(k)
    BY <1>1, ProfileUnkept
  <1>3. \A u \in Imports : journal'[u].is # "whole"
    BY DEF Journals, NoJournal
  <1>4. TreeInv'
    BY <1>1 DEF TreeInv, Known, Absent, Kept
  <1>5. QED
    BY <1>2, <1>3, <1>4 DEF WholeInv

\* A marker is removed when there is no journal.
LEMMA MarkerForgotten ==
    ASSUME Safe, Journals = {}, NEW i \in Marked, MarkerRemoved(i),
           UNCHANGED <<tombstone, journal, begun, clock>>
    PROVE  TreeInv' /\ WholeInv' /\ \A k \in Ids : Profile(k)' = Profile(k)
  <1>1. TreeInv /\ DiskTyped
    BY TypeParts DEF Safe, ImportInv, CommitInv
  <1>2. i \in Ids /\ config[i].marker # 0
    BY DEF Marked
  <1>3. config[i] # Missing /\ Known(config[i]) /\ i < clock
    BY <1>1, <1>2 DEF TreeInv, Absent, Missing
  <1>4. /\ config'[i].name = config[i].name /\ config'[i].whole = config[i].whole
        /\ config'[i].marker = 0 /\ \A k \in Ids \ {i} : config'[k] = config[k]
    BY <1>1, <1>2 DEF MarkerRemoved, DiskTyped, Trees
  <1>5. config'[i] # Missing
    BY <1>3, <1>4, ConfigImportAssumption DEF Known, Missing
  <1>6. Journals' = {}
    BY DEF Journals
  <1>7. ASSUME NEW k \in Ids
        PROVE  Profile(k)' = Profile(k)
    <2>1. (Absent(k)' <=> Absent(k)) /\ Shown(config'[k]) = Shown(config[k])
      BY <1>3, <1>4, <1>5 DEF Absent, Shown
    <2>2. QED
      BY <1>6, <2>1, ProfileBare, ProfileBareNext
  <1>8. TreeInv'
    <2>1. 0 <= begun
      BY <1>1 DEF DiskTyped
    <2>2. \A k \in Ids : ~Absent(k)' => Known(config[k])' /\ k < clock'
      BY <1>1, <1>3, <1>4, <2>1 DEF TreeInv, Known, Absent
    <2>3. QED
      BY <1>1, <2>2 DEF TreeInv, Known, Kept
  <1>9. \A u \in Imports : journal'[u].is # "whole"
    BY <1>6 DEF Journals, NoJournal
  <1>10. QED
    BY <1>7, <1>8, <1>9 DEF WholeInv

-----------------------------------------------------------------------------
(* Recovery shows the same profiles before and after each step *)

LEMMA BeginShows ==
    ASSUME Safe, NEW s \in Stores, Open(s) \/ \E n \in Names : Import(s, n)
    PROVE  CommitInv' /\ Unseen(s)
  <1>1. PICK q : q = store[s]
    OBVIOUS
  <1>2. /\ lock = NoStore /\ UNCHANGED <<disk, clock, begun>>
        /\ q \in Rows /\ store \in [Stores -> Rows] /\ CommitOf(q) /\ ImportInv
    BY <1>1, SafeParts DEF Open, Import
  <1>3. q.retired = {}
    BY <1>1, <1>2 DEF Open, Import, At, CommitOf, InImport, Uncommitted, Reclaiming
  <1>4. PICK r \in Rows : /\ store' = [store EXCEPT ![s] = r] /\ r.at = "recover"
                          /\ r.retired = {} /\ (r.opening \/ r.name \in Names)
    <2>1. CASE Open(s)
      <3>1. q.opening
        BY <1>1, <1>2, <2>1 DEF Open, At, CommitOf
      <3>2. QED
        BY <1>1, <1>2, <1>3, <2>1, <3>1, WentTo DEF Open, Places
    <2>2. ASSUME NEW n \in Names, Import(s, n)
          PROVE  \E r \in Rows : /\ store' = [store EXCEPT ![s] = r] /\ r.at = "recover"
                                 /\ r.retired = {} /\ (r.opening \/ r.name \in Names)
      <3>1. PICK r : r = [store[s] EXCEPT !.at = "recover", !.name = n]
        OBVIOUS
      <3>2. r \in Rows /\ r.at = "recover" /\ r.retired = {} /\ r.name \in Names
        BY <1>1, <1>2, <1>3, <3>1 DEF Rows, Places
      <3>3. store' = [store EXCEPT ![s] = r]
        BY <1>2, <2>2, <3>1 DEF Import
      <3>4. QED
        BY <3>2, <3>3
    <2>3. QED
      BY <2>1, <2>2
  <1>5. CommitOf(r) /\ SeenOf(r) = {}
    BY <1>4 DEF CommitOf, SeenOf, InImport, Uncommitted, Reclaiming
  <1>6. QED
    BY <1>2, <1>4, <1>5, SafeMoved DEF disk

LEMMA CrashShows ==
    ASSUME Safe, NEW s \in Stores, Crash(s)
    PROVE  CommitInv' /\ Unseen(s)
  <1>1. /\ UNCHANGED <<disk, clock, begun>> /\ store' = [store EXCEPT ![s] = Down]
        /\ store \in [Stores -> Rows]
    BY SafeParts DEF Crash
  <1>2. TreeInv' /\ WholeInv' /\ (\A k \in Ids : Profile(k)' = Profile(k))
    BY <1>1, CommitSame, SafeDisk DEF disk
  <1>3. PICK d : d = Down
    OBVIOUS
  <1>4. d.at \in Quiet /\ d.retired = {} /\ d.opening /\ store'[s] = d
    BY <1>1, <1>3 DEF Down, Quiet
  <1>5. ImportOf(s)' /\ Seen(s)' = {}
    BY <1>4, QuietCommit, CommitIsNext, SeenIs
  <1>6. ASSUME NEW u \in Stores \ {s}
        PROVE  ImportOf(u)' /\ Seen(u)' = Seen(u)
    <2>1. PICK q : q = store[u]
      OBVIOUS
    <2>2. CommitOf(q) /\ store'[u] = q
      BY <1>1, <2>1, SafeParts
    <2>3. CommitOf(q)'
      BY <1>1, <2>2, CommitSame DEF disk
    <2>4. QED
      BY <2>1, <2>2, <2>3, CommitIsNext, SeenIs
  <1>7. QED
    BY <1>2, <1>5, <1>6 DEF CommitInv, Unseen

LEMMA RecoverShows ==
    ASSUME Safe, NEW s \in Stores, Recover(s)
    PROVE  CommitInv' /\ Unseen(s)
  <1>1. PICK q : q = store[s]
    OBVIOUS
  <1>2. /\ q.at = "recover" /\ UNCHANGED <<disk, lock, clock, begun>>
        /\ q \in Rows /\ store \in [Stores -> Rows] /\ CommitOf(q) /\ ImportInv
        /\ DiskTyped /\ JournalInv /\ WholeInv
    BY <1>1, SafeParts DEF Recover, At
  <1>3. q.retired = {} /\ (q.opening \/ q.name \in Names) /\ lock = s
    BY <1>1, <1>2, Alone DEF CommitOf, InImport, Uncommitted, Reclaiming, Quiet
  <1>4. ASSUME NEW r \in Rows, store' = [store EXCEPT ![s] = r],
               r.at \in {"sweep", "rejected", "finish", "restore"},
               r.opening = q.opening, r.name = q.name, r.retired = {},
               r.at = "rejected" => Journals # {} /\ journal[First(Journals)].is = "torn",
               r.at = "finish" => Committed(r.tx), r.at = "restore" => ~Committed(r.tx)
        PROVE  CommitInv' /\ Unseen(s)
    <2>1. CommitOf(r) /\ SeenOf(r) = {}
      BY <1>3, <1>4 DEF CommitOf, SeenOf, InImport, Uncommitted, Reclaiming
    <2>2. QED
      BY <1>2, <1>3, <1>4, <2>1, SafeMoved DEF disk
  <1>5. CASE Journals = {} /\ Goto(s, "sweep")
    <2>1. PICK r \in Rows : /\ store' = [store EXCEPT ![s] = r] /\ r.at = "sweep" /\ r.opening = q.opening
                            /\ r.name = q.name /\ r.retired = q.retired
      BY <1>1, <1>2, <1>5, WentTo DEF Places
    <2>2. QED
      BY <1>3, <1>4, <2>1
  <1>6. CASE Journals # {} /\ journal[First(Journals)].is = "torn" /\ Goto(s, "rejected")
    <2>1. PICK r \in Rows : /\ store' = [store EXCEPT ![s] = r] /\ r.at = "rejected"
                            /\ r.opening = q.opening /\ r.name = q.name /\ r.retired = q.retired
      BY <1>1, <1>2, <1>6, WentTo DEF Places
    <2>2. QED
      BY <1>3, <1>4, <1>6, <2>1
  <1>7. ASSUME NEW tx, tx = First(Journals), Journals # {}, journal[tx].is = "whole",
               store' = [store EXCEPT ![s] = [@ EXCEPT
                      !.tx = tx, !.ok = Committed(tx), !.left = journal[tx].retired,
                      !.at = IF Committed(tx) THEN "finish" ELSE "restore"]]
        PROVE  CommitInv' /\ Unseen(s)
    <2>1. PICK r : r = [store[s] EXCEPT
                      !.tx = tx, !.ok = Committed(tx), !.left = journal[tx].retired,
                      !.at = IF Committed(tx) THEN "finish" ELSE "restore"]
      OBVIOUS
    <2>2. tx \in Imports
      <3>1. PICK x \in Journals : TRUE
        BY <1>7
      <3>2. x \in Imports /\ Journals = {x} /\ x \in Int
        BY <1>2, <3>1 DEF Journals, JournalInv, Imports
      <3>3. QED
        BY <1>7, <3>2, FirstOfOne
    <2>3. journal[tx].retired \in SUBSET Ids /\ Committed(tx) \in BOOLEAN
      BY <1>2, <2>2 DEF DiskTyped, JournalFiles, Committed
    <2>4. /\ r \in Rows /\ r.tx = tx /\ r.opening = q.opening /\ r.name = q.name
          /\ r.retired = q.retired /\ r.at = IF Committed(tx) THEN "finish" ELSE "restore"
      BY <1>1, <1>2, <2>1, <2>2, <2>3 DEF Rows, Places
    <2>5. store' = [store EXCEPT ![s] = r]
      BY <1>2, <1>7, <2>1
    <2>6. QED
      BY <1>3, <1>4, <2>4, <2>5
  <1>8. QED
    BY <1>5, <1>6, <1>7 DEF Recover

LEMMA FinishShows ==
    ASSUME Safe, NEW s \in Stores, Finish(s), JournalInv'
    PROVE  CommitInv' /\ Unseen(s)
  <1>1. PICK q : q = store[s]
    OBVIOUS
  <1>2. /\ q.at = "finish" /\ UNCHANGED <<config, staging, journal, clock, begun>>
        /\ q \in Rows /\ store \in [Stores -> Rows] /\ CommitOf(q) /\ ImportInv /\ PlaceOf(q)
    BY <1>1, SafeParts DEF Finish, At
  <1>3. /\ q.retired = {} /\ (q.opening \/ q.name \in Names) /\ lock = s /\ Committed(q.tx)
        /\ q.tx \in Imports /\ Journals = {q.tx} /\ q.left \in SUBSET Ids
    BY <1>1, <1>2, Alone, TxOf DEF CommitOf, InImport, Uncommitted, Reclaiming, Quiet, Resuming, Rows
  <1>4. CASE Goto(s, "forget") /\ UNCHANGED tombstone
    <2>1. PICK r \in Rows : /\ store' = [store EXCEPT ![s] = r] /\ r.at = "forget" /\ r.opening = q.opening
                            /\ r.name = q.name /\ r.retired = q.retired
      BY <1>1, <1>2, <1>4, WentTo DEF Places
    <2>2. CommitOf(r) /\ SeenOf(r) = {}
      BY <1>3, <2>1 DEF CommitOf, SeenOf, InImport, Uncommitted, Reclaiming
    <2>3. QED
      BY <1>2, <1>3, <1>4, <2>1, <2>2, SafeMoved
  <1>5. ASSUME NEW i \in Ids, Reclaimed(q.tx, i), GotoWith(s, "finish", q.left \ {i})
        PROVE  CommitInv' /\ Unseen(s)
    <2>1. TreeInv' /\ WholeInv' /\ Committed(q.tx)' /\ \A k \in Ids : Profile(k)' = Profile(k)
      BY <1>2, <1>3, <1>5, TombstoneReclaimed
    <2>2. PICK r \in Rows : /\ store' = [store EXCEPT ![s] = r] /\ r.at = "finish" /\ r.opening = q.opening
                            /\ r.name = q.name /\ r.retired = q.retired /\ r.tx = q.tx
      BY <1>1, <1>2, <1>3, <1>5, WentWith DEF Places
    <2>3. CommitOf(r)' /\ SeenOf(r) = {}
      BY <1>3, <2>1, <2>2 DEF CommitOf, SeenOf, InImport, Uncommitted, Reclaiming
    <2>4. QED
      BY <1>3, <2>1, <2>2, <2>3, CommitMoved DEF Unseen
  <1>6. ASSUME NEW i \in Ids, PartlyReclaimed(q.tx, i), Fail(s)
        PROVE  CommitInv' /\ Unseen(s)
    BY <1>2, <1>3, <1>6, TombstoneReclaimed, SafeFailed
  <1>7. q.left # {} => First(q.left) \in Ids
    BY <1>3, FirstIsIn
  <1>8. QED
    BY <1>1, <1>4, <1>5, <1>6, <1>7 DEF Finish

\* A whole journal finds each profile that it retires at one place, and so is not refused.
LEMMA RestoreShows ==
    ASSUME Safe, NEW s \in Stores, Restore(s), JournalInv'
    PROVE  CommitInv' /\ Unseen(s)
  <1>1. PICK q : q = store[s]
    OBVIOUS
  <1>2. /\ q.at = "restore" /\ UNCHANGED <<staging, journal, clock, begun>> /\ WholeInv
        /\ q \in Rows /\ store \in [Stores -> Rows] /\ CommitOf(q) /\ ImportInv /\ PlaceOf(q)
    BY <1>1, SafeParts DEF Restore, At
  <1>3. /\ q.retired = {} /\ (q.opening \/ q.name \in Names) /\ lock = s /\ ~Committed(q.tx)
        /\ q.tx \in Imports /\ Journals = {q.tx} /\ q.left \in SUBSET Ids
    BY <1>1, <1>2, Alone, TxOf DEF CommitOf, InImport, Uncommitted, Reclaiming, Quiet, Resuming, Rows
  <1>4. journal[q.tx].is = "whole" /\ q.left \subseteq journal[q.tx].retired
    BY <1>2 DEF PlaceOf, Resuming
  <1>5. \A i \in q.left : Absent(i) <=> tombstone[q.tx][i] # Missing
    BY <1>2, <1>3, <1>4 DEF WholeInv, Kept
  <1>6. ASSUME NEW r \in Rows, store' = [store EXCEPT ![s] = r], r.at \in {"restore", "unstage"},
               r.opening = q.opening, r.name = q.name, r.retired = q.retired, r.tx = q.tx
        PROVE  CommitOf(r) /\ SeenOf(r) = {} /\ (~Committed(r.tx)' => CommitOf(r)')
    BY <1>3, <1>6 DEF CommitOf, SeenOf, InImport, Uncommitted, Reclaiming
  <1>7. CASE Goto(s, "unstage") /\ UNCHANGED <<config, tombstone>>
    <2>1. PICK r \in Rows : /\ store' = [store EXCEPT ![s] = r] /\ r.at = "unstage" /\ r.opening = q.opening
                            /\ r.name = q.name /\ r.retired = q.retired /\ r.tx = q.tx
      BY <1>1, <1>2, <1>7, WentTo DEF Places
    <2>2. CommitOf(r) /\ SeenOf(r) = {}
      BY <1>6, <2>1
    <2>3. QED
      BY <1>2, <1>3, <1>7, <2>1, <2>2, SafeMoved
  <1>8. ASSUME NEW i \in q.left, Restored(q.tx, i), GotoWith(s, "restore", q.left \ {i})
        PROVE  CommitInv' /\ Unseen(s)
    <2>1. i \in Ids /\ i \in journal[q.tx].retired
      BY <1>3, <1>4
    <2>2. TreeInv' /\ WholeInv' /\ ~Committed(q.tx)' /\ \A k \in Ids : Profile(k)' = Profile(k)
      BY <1>2, <1>3, <1>4, <1>8, <2>1, ProfileMoved
    <2>3. PICK r \in Rows : /\ store' = [store EXCEPT ![s] = r] /\ r.at = "restore" /\ r.opening = q.opening
                            /\ r.name = q.name /\ r.retired = q.retired /\ r.tx = q.tx
      BY <1>1, <1>2, <1>3, <1>8, WentWith DEF Places
    <2>4. CommitOf(r)' /\ SeenOf(r) = {}
      BY <1>6, <2>2, <2>3
    <2>5. QED
      BY <1>3, <2>2, <2>3, <2>4, CommitMoved DEF Unseen
  <1>9. CASE Fail(s) /\ UNCHANGED <<config, tombstone>>
    BY <1>1, <1>2, <1>9, SafeLeft DEF Quiet
  <1>10. ASSUME NEW i \in Ids, GotoWith(s, "restore", q.left \ {i}), UNCHANGED <<config, tombstone>>
         PROVE  CommitInv' /\ Unseen(s)
    <2>1. PICK r \in Rows : /\ store' = [store EXCEPT ![s] = r] /\ r.at = "restore" /\ r.opening = q.opening
                            /\ r.name = q.name /\ r.retired = q.retired /\ r.tx = q.tx
      BY <1>1, <1>2, <1>3, <1>10, WentWith DEF Places
    <2>2. CommitOf(r) /\ SeenOf(r) = {}
      BY <1>6, <2>1
    <2>3. QED
      BY <1>2, <1>3, <1>10, <2>1, <2>2, SafeMoved
  <1>11. q.left # {} => Final(q.left) \in q.left /\ Final(q.left) \in Ids
    BY <1>3, FinalIsIn
  <1>12. QED
    BY <1>1, <1>5, <1>7, <1>8, <1>9, <1>10, <1>11 DEF Restore

LEMMA UnstageShows ==
    ASSUME Safe, NEW s \in Stores, Unstage(s)
    PROVE  CommitInv' /\ Unseen(s)
  <1>1. PICK q : q = store[s]
    OBVIOUS
  <1>2. /\ q.at = "unstage" /\ UNCHANGED <<config, tombstone, journal, clock, begun>>
        /\ q \in Rows /\ store \in [Stores -> Rows] /\ CommitOf(q) /\ ImportInv
    BY <1>1, SafeParts DEF Unstage, At
  <1>3. q.retired = {} /\ (q.opening \/ q.name \in Names) /\ lock = s
    BY <1>1, <1>2, Alone DEF CommitOf, InImport, Uncommitted, Reclaiming, Quiet
  <1>4. CASE Goto(s, "forget")
    <2>1. PICK r \in Rows : /\ store' = [store EXCEPT ![s] = r] /\ r.at = "forget" /\ r.opening = q.opening
                            /\ r.name = q.name /\ r.retired = q.retired
      BY <1>1, <1>2, <1>4, WentTo DEF Places
    <2>2. CommitOf(r)' /\ SeenOf(r) = {}
      BY <1>3, <2>1 DEF CommitOf, SeenOf, InImport, Uncommitted, Reclaiming
    <2>3. TreeInv' /\ WholeInv' /\ \A k \in Ids : Profile(k)' = Profile(k)
      BY <1>2, CommitSame, SafeDisk
    <2>4. QED
      BY <1>3, <2>1, <2>2, <2>3, CommitMoved DEF Unseen
  <1>5. CASE Fail(s)
    BY <1>1, <1>2, <1>5, SafeLeft DEF Quiet
  <1>6. QED
    BY <1>4, <1>5 DEF Unstage

\* The journal is removed, or is not; the call is left or goes on.
LEMMA JournalForgottenShows ==
    ASSUME Safe, NEW s \in Stores, store[s].at \in Resuming \cup InImport,
           Kept(store[s].tx) = {}, JournalRemoved(store[s].tx), JournalInv',
           UNCHANGED <<config, staging, tombstone, clock, begun>>,
           \/ Fail(s)
           \/ store[s].at = "forget" /\ \E there \in {"unmark", "recover"} : Goto(s, there)
           \/ store[s].at = "reclaim_journal" /\ Goto(s, "reclaim_marker")
    PROVE  CommitInv' /\ Unseen(s)
  <1>1. PICK q : q = store[s]
    OBVIOUS
  <1>2. /\ q \in Rows /\ store \in [Stores -> Rows] /\ CommitOf(q) /\ ImportInv
        /\ q.tx \in Imports /\ Journals = {q.tx}
    BY <1>1, SafeParts, TxOf
  <1>3. lock = s
    BY <1>2, Alone DEF Resuming, InImport, Uncommitted, Reclaiming, Quiet
  <1>4. Journals' = {}
    BY <1>1, <1>2, JournalGone
  <1>5. TreeInv' /\ WholeInv' /\ \A k \in Ids : Profile(k)' = Profile(k)
    BY <1>1, <1>2, <1>4, JournalForgotten
  <1>6. CASE Fail(s)
    BY <1>3, <1>5, <1>6, SafeFailed
  <1>7. ASSUME NEW there \in {"unmark", "recover"}, q.at = "forget", Goto(s, there)
        PROVE  CommitInv' /\ Unseen(s)
    <2>1. q.retired = {} /\ (q.opening \/ q.name \in Names)
      BY <1>2, <1>7 DEF CommitOf, InImport, Uncommitted, Reclaiming
    <2>2. PICK r \in Rows : /\ store' = [store EXCEPT ![s] = r] /\ r.at = there /\ r.opening = q.opening
                            /\ r.name = q.name /\ r.retired = q.retired
      BY <1>1, <1>2, <1>7, WentTo DEF Places
    <2>3. CommitOf(r)' /\ SeenOf(r) = {}
      BY <2>1, <2>2 DEF CommitOf, SeenOf, InImport, Uncommitted, Reclaiming
    <2>4. QED
      BY <1>3, <1>5, <2>2, <2>3, CommitMoved DEF Unseen
  <1>8. CASE q.at = "reclaim_journal" /\ Goto(s, "reclaim_marker")
    <2>1. ~q.opening /\ q.name \in Names
      BY <1>2, <1>8 DEF CommitOf, InImport, Uncommitted, Reclaiming
    <2>2. PICK r \in Rows : /\ store' = [store EXCEPT ![s] = r] /\ r.at = "reclaim_marker"
                            /\ r.opening = q.opening /\ r.name = q.name
      BY <1>1, <1>2, <1>8, WentTo DEF Places
    <2>3. CommitOf(r)' /\ SeenOf(r) = {}
      BY <2>1, <2>2 DEF CommitOf, SeenOf, InImport, Uncommitted, Reclaiming
    <2>4. QED
      BY <1>3, <1>5, <2>2, <2>3, CommitMoved DEF Unseen
  <1>9. QED
    BY <1>1, <1>6, <1>7, <1>8

LEMMA ForgetShows ==
    ASSUME Safe, NEW s \in Stores, Forget(s), JournalInv'
    PROVE  CommitInv' /\ Unseen(s)
  <1>1. store[s].at = "forget" /\ UNCHANGED <<config, staging, tombstone, clock, begun>>
    BY DEF Forget, At
  <1>2. Kept(store[s].tx) = {} /\ store[s].at \in Resuming
    BY <1>1, SafeParts DEF PlaceOf, Resuming
  <1>3. CASE JournalRemoved(store[s].tx)
    BY <1>1, <1>2, <1>3, JournalForgottenShows DEF Forget
  <1>4. CASE UNCHANGED journal /\ Fail(s)
    BY <1>1, <1>4, SafeLeft DEF Quiet
  <1>5. QED
    BY <1>3, <1>4 DEF Forget

\* Markers go where there is no journal.
LEMMA UnmarkShows ==
    ASSUME Safe, NEW s \in Stores, Unmark(s) \/ Sweep(s)
    PROVE  CommitInv' /\ Unseen(s)
  <1>1. PICK q : q = store[s]
    OBVIOUS
  <1>2. /\ q.at \in {"unmark", "sweep"} /\ UNCHANGED <<staging, tombstone, journal, clock, begun>>
        /\ q \in Rows /\ store \in [Stores -> Rows] /\ CommitOf(q) /\ ImportInv /\ PlaceOf(q)
    BY <1>1, SafeParts DEF Unmark, Sweep, At
  <1>3. q.retired = {} /\ (q.opening \/ q.name \in Names) /\ lock = s /\ Journals = {}
    BY <1>1, <1>2, Alone DEF CommitOf, PlaceOf, NoneLeft, InImport, Uncommitted, Reclaiming, Quiet
  <1>4. TreeInv' /\ WholeInv' /\ \A k \in Ids : Profile(k)' = Profile(k)
    <2>1. UNCHANGED config \/ \E i \in Marked : MarkerRemoved(i)
      BY DEF Unmark, Sweep
    <2>2. CASE UNCHANGED config
      BY <1>2, <2>2, CommitSame, SafeDisk
    <2>3. QED
      BY <1>2, <1>3, <2>1, <2>2, MarkerForgotten
  <1>5. ASSUME NEW r \in Rows, store' = [store EXCEPT ![s] = r],
               r.at \in {"recover", "sweep", "admit", "ready"}, r.name = q.name \/ r.at = "ready",
               r.opening = q.opening \/ r.at = "ready", r.retired = {}, r.at = "admit" => ~q.opening
        PROVE  CommitInv' /\ Unseen(s)
    <2>1. CommitOf(r)' /\ SeenOf(r) = {}
      BY <1>3, <1>5 DEF CommitOf, SeenOf, InImport, Uncommitted, Reclaiming
    <2>2. QED
      BY <1>3, <1>4, <1>5, <2>1, CommitMoved DEF Unseen
  <1>6. CASE UNCHANGED store /\ q.at = "sweep"
    <2>1. store' = [store EXCEPT ![s] = q]
      BY <1>1, <1>2, <1>6
    <2>2. QED
      BY <1>2, <1>3, <1>5, <1>6, <2>1
  <1>7. CASE Fail(s)
    BY <1>3, <1>4, <1>7, SafeFailed
  <1>8. ASSUME store' = [store EXCEPT ![s] = [Down EXCEPT !.at = "ready", !.opening = FALSE]]
        PROVE  CommitInv' /\ Unseen(s)
    <2>1. PICK r : r = [Down EXCEPT !.at = "ready", !.opening = FALSE]
      OBVIOUS
    <2>2. r \in Rows /\ r.at = "ready" /\ r.retired = {} /\ store' = [store EXCEPT ![s] = r]
      BY <1>8, <2>1 DEF Down, Rows, Places, Imports
    <2>3. QED
      BY <1>5, <2>2
  <1>9. ASSUME NEW there \in {"recover", "admit"}, Goto(s, there), there = "admit" => ~q.opening
        PROVE  CommitInv' /\ Unseen(s)
    <2>1. PICK r \in Rows : /\ store' = [store EXCEPT ![s] = r] /\ r.at = there /\ r.opening = q.opening
                            /\ r.name = q.name /\ r.retired = q.retired
      BY <1>1, <1>2, <1>9, WentTo DEF Places
    <2>2. QED
      BY <1>3, <1>5, <1>9, <2>1
  <1>10. CASE Unmark(s)
    BY <1>7, <1>9, <1>10 DEF Unmark
  <1>11. CASE Sweep(s)
    BY <1>1, <1>6, <1>7, <1>8, <1>9, <1>11 DEF Sweep, At
  <1>12. QED
    BY <1>10, <1>11

LEMMA LeftShows ==
    ASSUME Safe, NEW s \in Stores, Reject(s) \/ NotAdmitted(s)
    PROVE  CommitInv' /\ Unseen(s)
  BY SafeLeft DEF Reject, NotAdmitted, At, Quiet, disk

-----------------------------------------------------------------------------
(* An import *)

\* What the import will replace is what bears its name, and it bears it whole.
LEMMA ReplacedIs ==
    ASSUME Safe, Journals = {}, NEW n \in Names
    PROVE  Replaced(n) = {i \in Ids : Profile(i) = n}
  <1>1. n # NoName /\ n # Damaged
    BY ConfigImportAssumption
  <1>2. ASSUME NEW i \in Ids
        PROVE  i \in Replaced(n) <=> Profile(i) = n
    BY <1>1, ProfileBare DEF Replaced, Absent, Missing, Shown
  <1>3. QED
    BY <1>2 DEF Replaced

\* A journal begins or is written while there are no tombstones.
LEMMA JournalSetShows ==
    ASSUME Safe, NEW tx \in Imports, Journals \subseteq {tx}, Kept(tx) = {},
           NEW j \in JournalFiles, journal' = [journal EXCEPT ![tx] = j],
           begun <= begun', begun' \in Int, JournalInv', UNCHANGED <<config, tombstone, clock>>
    PROVE  TreeInv' /\ \A k \in Ids : Profile(k)' = Profile(k)
  <1>1. TreeInv /\ JournalInv /\ DiskTyped
    BY SafeDisk
  <1>2. Journals' \subseteq {tx}
    BY <1>1 DEF Journals, DiskTyped
  <1>3. \A k \in Ids : Profile(k)' = Profile(k)
    BY <1>1, <1>2, ProfileUnkept
  <1>4. \A t \in Trees : Known(t) => t.marker <= begun'
    BY <1>1 DEF Known, Trees, DiskTyped, Imports
  <1>5. TreeInv'
    <2>1. \A k \in Ids : ~Absent(k)' => config'[k] \in Trees /\ Known(config[k]) /\ k < clock'
      BY <1>1 DEF TreeInv, Absent, DiskTyped
    <2>2. \A u \in Imports : \A k \in Kept(u)' : tombstone'[u][k] \in Trees /\ Known(tombstone[u][k])
      BY <1>1 DEF TreeInv, Kept, DiskTyped
    <2>3. \A k \in Ids : ~Absent(k)' => Known(config[k])'
      BY <1>4, <2>1 DEF Known
    <2>4. \A u \in Imports : \A k \in Kept(u)' : Known(tombstone[u][k])'
      BY <1>4, <2>2 DEF Known
    <2>5. QED
      BY <2>1, <2>3, <2>4 DEF TreeInv
  <1>6. QED
    BY <1>3, <1>5

LEMMA AdmitShows ==
    ASSUME Safe, NEW s \in Stores, Admit(s), JournalInv'
    PROVE  /\ CommitInv'
           /\ \A k \in Ids : Profile(k)' = Profile(k)
           /\ \A u \in Stores \ {s} : Seen(u)' = Seen(u)
           /\ Seen(s) = {}
           /\ \E n \in Names : Seen(s)' = {i \in Ids : Profile(i) = n}
  <1>1. PICK q : q = store[s]
    OBVIOUS
  <1>2. /\ q.at = "admit" /\ HasFresh /\ begun < MaxImports /\ begun' = begun + 1
        /\ UNCHANGED <<config, staging, tombstone, lock, clock>>
        /\ q \in Rows /\ store \in [Stores -> Rows] /\ CommitOf(q) /\ ImportInv /\ PlaceOf(q)
        /\ JournalInv /\ DiskTyped /\ TreeInv
    BY <1>1, SafeParts DEF Admit, At
  <1>3. q.retired = {} /\ ~q.opening /\ q.name \in Names /\ lock = s /\ Journals = {}
    BY <1>1, <1>2, Alone DEF CommitOf, PlaceOf, NoneLeft, InImport, Uncommitted, Reclaiming, Quiet
  <1>4. PICK tx : tx = begun + 1
    OBVIOUS
  <1>5. tx \in Imports /\ begun <= begun' /\ begun' \in Int
    BY <1>2, <1>4, ConfigImportAssumption DEF Imports, DiskTyped
  <1>6. journal' = [journal EXCEPT ![tx] = Torn] /\ Torn \in JournalFiles /\ Kept(tx) = {}
    BY <1>2, <1>3, <1>4, <1>5 DEF Admit, Torn, JournalFiles, JournalInv, Journals, NoJournal
  <1>7. TreeInv' /\ \A k \in Ids : Profile(k)' = Profile(k)
    BY <1>2, <1>3, <1>5, <1>6, JournalSetShows
  <1>8. WholeInv'
    <2>1. \A u \in Imports : journal'[u].is # "whole"
      BY <1>2, <1>3, <1>5, <1>6 DEF Journals, NoJournal, Torn, DiskTyped
    <2>2. QED
      BY <2>1 DEF WholeInv
  <1>9. PICK r : r = [store[s] EXCEPT !.at = "write", !.tx = tx, !.left = {Fresh},
                                      !.retired = Replaced(store[s].name), !.ok = TRUE]
    OBVIOUS
  <1>10. Fresh \in Ids /\ Absent(Fresh) /\ Replaced(q.name) \in SUBSET Ids
    BY <1>2, FreshIsIn DEF Replaced
  <1>11. /\ r \in Rows /\ r.at = "write" /\ r.tx = tx /\ r.left = {Fresh}
         /\ r.opening = q.opening /\ r.name = q.name /\ r.retired = Replaced(q.name)
    BY <1>1, <1>2, <1>5, <1>9, <1>10 DEF Rows, Places
  <1>12. store' = [store EXCEPT ![s] = r]
    BY <1>2, <1>4, <1>9 DEF Admit
  <1>13. r.retired = {i \in Ids : Profile(i) = q.name}
    BY <1>3, <1>11, ReplacedIs
  <1>14. \A i \in Ids : config'[i].marker # tx
    <2>1. \A i \in Ids : config[i] \in Trees /\ (Known(config[i]) \/ config[i] = Missing)
      BY <1>2 DEF TreeInv, DiskTyped, Absent
    <2>2. \A i \in Ids : config[i].marker <= begun
      BY <1>2, <2>1 DEF Known, Missing, DiskTyped
    <2>3. \A i \in Ids : config[i].marker \in Int
      BY <2>1 DEF Trees, Imports
    <2>4. begun \in Int
      BY <1>2 DEF DiskTyped
    <2>5. QED
      BY <1>2, <1>4, <2>2, <2>3, <2>4
  <1>15. \A i \in r.retired : i \in Ids /\ ~Absent(i)' /\ i \notin r.left
    BY <1>2, <1>10, <1>11 DEF Replaced, Absent, Missing
  <1>16. \A i \in r.retired : Profile(i)' = r.name
    BY <1>7, <1>11, <1>13
  <1>17. CommitOf(r)'
    BY <1>3, <1>11, <1>14, <1>15, <1>16 DEF CommitOf, SeenOf, InImport, Uncommitted, Reclaiming
  <1>18. CommitInv' /\ Seen(s)' = SeenOf(r) /\ \A u \in Stores \ {s} : Seen(u)' = Seen(u)
    BY <1>3, <1>7, <1>8, <1>11, <1>12, <1>17, CommitMoved
  <1>19. Seen(s) = {} /\ SeenOf(r) = r.retired
    BY <1>1, <1>2, <1>11, SeenIs DEF SeenOf
  <1>20. QED
    BY <1>3, <1>7, <1>13, <1>18, <1>19

LEMMA WriteJournalShows ==
    ASSUME Safe, NEW s \in Stores, WriteJournal(s), JournalInv'
    PROVE  CommitInv' /\ Unseen(s)
  <1>1. PICK q : q = store[s]
    OBVIOUS
  <1>2. /\ q.at = "write" /\ UNCHANGED <<config, staging, tombstone, clock, begun>>
        /\ q \in Rows /\ store \in [Stores -> Rows] /\ CommitOf(q) /\ ImportInv /\ PlaceOf(q)
        /\ JournalInv /\ DiskTyped /\ TreeInv
    BY <1>1, SafeParts DEF WriteJournal, At
  <1>3. /\ ~q.opening /\ q.name \in Names /\ lock = s /\ q.tx \in Imports /\ Journals = {q.tx}
        /\ \A i \in Ids : config[i].marker # q.tx
        /\ \A i \in q.retired : ~Absent(i) /\ i \notin q.left
        /\ journal[q.tx] = Torn /\ \E i \in Ids : q.left = {i}
        /\ \A i \in q.retired : Profile(i) = q.name
    BY <1>1, <1>2, Alone, TxOf DEF CommitOf, SeenOf, PlaceOf, InImport, Uncommitted, Reclaiming, Quiet
  <1>4. PICK i \in Ids : q.left = {i}
    BY <1>3
  <1>5. First(q.left) = i
    BY <1>4, FirstOfOne DEF Ids
  <1>6. PICK w : w = Journal(i, q.retired)
    OBVIOUS
  <1>7. /\ w \in JournalFiles /\ w.is = "whole" /\ w.retired = q.retired /\ w.target = i
        /\ Torn \in JournalFiles /\ NoJournal \in JournalFiles
        /\ Torn.is = "torn" /\ NoJournal.is = "missing"
    BY <1>2, <1>6 DEF Journal, JournalFiles, NoJournal, Torn, Rows
  <1>8. Kept(q.tx) = {} /\ begun <= begun' /\ begun' \in Int
    BY <1>2, <1>3 DEF JournalInv, Torn, DiskTyped
  <1>9. ASSUME NEW j \in {NoJournal, Torn, w}, journal' = [journal EXCEPT ![q.tx] = j]
        PROVE  /\ TreeInv' /\ WholeInv' /\ (j = w => ~Committed(q.tx)')
               /\ \A k \in Ids : Profile(k)' = Profile(k)
    <2>1. TreeInv' /\ \A k \in Ids : Profile(k)' = Profile(k)
      BY <1>2, <1>3, <1>7, <1>8, <1>9, JournalSetShows
    <2>2. journal'[q.tx] = j /\ \A u \in Imports \ {q.tx} : journal'[u] = NoJournal
      BY <1>2, <1>3, <1>9 DEF DiskTyped, Journals
    <2>3. j = w => ~Committed(q.tx)'
      BY <1>2, <1>3, <1>7, <2>2 DEF Committed
    <2>4. WholeInv'
      <3>1. \A u \in Imports : journal'[u].is = "whole" => u = q.tx /\ j = w
        BY <1>7, <2>2
      <3>2. i \in Ids \ q.retired
        BY <1>3, <1>4
      <3>3. \A k \in q.retired : k \in Ids /\ ~Absent(k)' /\ k < clock'
        BY <1>2, <1>3 DEF Rows, Absent, TreeInv
      <3>4. Kept(q.tx)' = {}
        BY <1>2, <1>8 DEF Kept
      <3>5. QED
        BY <1>7, <2>2, <3>1, <3>2, <3>3, <3>4 DEF WholeInv
    <2>5. QED
      BY <2>1, <2>3, <2>4
  <1>10. CASE journal' = [journal EXCEPT ![q.tx] = w] /\ Goto(s, "stage")
    <2>1. PICK r \in Rows : /\ store' = [store EXCEPT ![s] = r] /\ r.at = "stage" /\ r.opening = q.opening
                            /\ r.name = q.name /\ r.retired = q.retired /\ r.tx = q.tx
      BY <1>1, <1>2, <1>10, WentTo DEF Places
    <2>2. TreeInv' /\ WholeInv' /\ ~Committed(q.tx)' /\ \A k \in Ids : Profile(k)' = Profile(k)
      BY <1>9, <1>10
    <2>3. \A k \in r.retired : Profile(k)' = r.name
      BY <1>2, <1>3, <2>1, <2>2 DEF Rows
    <2>4. CommitOf(r)'
      BY <1>3, <2>1, <2>2, <2>3 DEF CommitOf, SeenOf, InImport, Uncommitted, Reclaiming
    <2>5. SeenOf(r) = Seen(s)
      BY <1>1, <1>2, <2>1, SeenIs DEF SeenOf
    <2>6. QED
      BY <1>3, <2>1, <2>2, <2>4, <2>5, CommitMoved DEF Unseen
  <1>11. ASSUME NEW j \in {NoJournal, Torn, w}, journal' = [journal EXCEPT ![q.tx] = j], Fail(s)
         PROVE  CommitInv' /\ Unseen(s)
    <2>1. TreeInv' /\ WholeInv' /\ \A k \in Ids : Profile(k)' = Profile(k)
      BY <1>9, <1>11
    <2>2. QED
      BY <1>3, <1>11, <2>1, SafeFailed
  <1>12. QED
    BY <1>1, <1>5, <1>6, <1>10, <1>11 DEF WriteJournal

\* An import that goes from place to place before its publication.
LEMMA UncommittedIs ==
    ASSUME Safe, NEW s \in Stores, store[s].at \in Uncommitted
    PROVE  /\ ~store[s].opening /\ store[s].name \in Names /\ lock = s
           /\ store[s].tx \in Imports /\ Journals = {store[s].tx} /\ ~Committed(store[s].tx)
           /\ journal[store[s].tx].is = "whole" /\ store[s].retired = journal[store[s].tx].retired
           /\ store[s].retired \in SUBSET Ids /\ store[s].left \in SUBSET Ids
           /\ store[s].at \in {"stage", "claim", "retire", "publish"} =>
                 \A k \in store[s].retired : Profile(k) = store[s].name
           /\ store[s].at \in {"claim", "retire", "publish"} => staging[store[s].tx] = store[s].name
  <1>1. PICK q : q = store[s]
    OBVIOUS
  <1>2. /\ q.at \in Uncommitted /\ q \in Rows /\ CommitOf(q) /\ PlaceOf(q) /\ ImportInv
    BY <1>1, SafeParts
  <1>3. lock = s /\ q.tx \in Imports /\ Journals = {q.tx}
    BY <1>1, <1>2, Alone, TxOf DEF InImport, Uncommitted, Quiet
  <1>4. /\ ~q.opening /\ q.name \in Names /\ ~Committed(q.tx)
        /\ journal[q.tx].is = "whole" /\ q.retired = journal[q.tx].retired
        /\ q.at \in {"claim", "retire", "publish"} => staging[q.tx] = q.name
        /\ q.at \in {"stage", "claim", "retire", "publish"} => \A k \in q.retired : Profile(k) = q.name
    BY <1>2 DEF CommitOf, SeenOf, PlaceOf, InImport, Uncommitted, Reclaiming
  <1>5. q.retired \in SUBSET Ids /\ q.left \in SUBSET Ids
    BY <1>2 DEF Rows
  <1>6. QED
    BY <1>1, <1>3, <1>4, <1>5

\* The step of an import to another place before its publication.
LEMMA ImportMoved ==
    ASSUME Safe, NEW s \in Stores, store[s].at \in Uncommitted, NEW r \in Rows,
           store' = [store EXCEPT ![s] = r],
           r.opening = store[s].opening, r.name = store[s].name, r.tx = store[s].tx,
           r.retired = store[s].retired, r.at \in Uncommitted,
           SeenOf(r) \in {SeenOf(store[s]), {}},
           r.at \in {"claim", "retire", "publish"} => staging'[r.tx] = r.name,
           TreeInv', WholeInv', ~Committed(r.tx)', \A k \in Ids : Profile(k)' = Profile(k)
    PROVE  CommitInv' /\ Unseen(s)
  <1>1. PICK q : q = store[s]
    OBVIOUS
  <1>2. ~q.opening /\ q.name \in Names /\ lock = s /\ q.retired \in SUBSET Ids
    BY <1>1, UncommittedIs
  <1>3. \A k \in SeenOf(r) : Profile(k)' = r.name
    <2>1. \A k \in SeenOf(q) : k \in Ids /\ Profile(k) = q.name
      BY <1>1, <1>2, SafeParts DEF CommitOf, SeenOf
    <2>2. QED
      BY <1>1, <2>1
  <1>4. CommitOf(r)'
    BY <1>1, <1>2, <1>3 DEF CommitOf, InImport, Uncommitted, Reclaiming
  <1>5. SeenOf(r) \in {Seen(s), {}}
    BY SeenIs
  <1>6. QED
    BY <1>2, <1>4, <1>5, CommitMoved DEF Unseen

LEMMA StageShows ==
    ASSUME Safe, NEW s \in Stores, Stage(s)
    PROVE  CommitInv' /\ Unseen(s)
  <1>1. PICK q : q = store[s]
    OBVIOUS
  <1>2. /\ q.at = "stage" /\ UNCHANGED <<config, tombstone, journal, lock, clock, begun>>
        /\ q \in Rows /\ store \in [Stores -> Rows] /\ ImportInv /\ DiskTyped
    BY <1>1, SafeParts DEF Stage, At
  <1>3. q.at \in Uncommitted /\ q.tx \in Imports /\ ~Committed(q.tx)
    BY <1>1, <1>2, UncommittedIs DEF Uncommitted
  <1>4. PICK there \in {"claim", "undo"} :
            Goto(s, there) /\ (there = "claim" => staging'[q.tx] = q.name)
    BY <1>1, <1>2, <1>3 DEF Stage, DiskTyped
  <1>5. PICK r \in Rows : /\ store' = [store EXCEPT ![s] = r] /\ r.at = there /\ r.opening = q.opening
                          /\ r.name = q.name /\ r.retired = q.retired /\ r.tx = q.tx
    BY <1>1, <1>2, <1>4, WentTo DEF Places
  <1>6. TreeInv' /\ WholeInv' /\ ~Committed(q.tx)' /\ \A k \in Ids : Profile(k)' = Profile(k)
    BY <1>2, <1>3, CommitSame, SafeDisk
  <1>7. SeenOf(r) \in {SeenOf(q), {}} /\ r.at \in Uncommitted
    BY <1>2, <1>5 DEF SeenOf, Uncommitted
  <1>8. r.at \in {"claim", "retire", "publish"} => staging'[r.tx] = r.name
    BY <1>4, <1>5
  <1>9. QED
    BY <1>1, <1>3, <1>5, <1>6, <1>7, <1>8, ImportMoved

\* The places of an import that change no directory.
LEMMA PlaceShows ==
    ASSUME Safe, NEW s \in Stores, store[s].at \in Uncommitted,
           UNCHANGED <<config, tombstone, journal, clock, begun>>,
           NEW r \in Rows, store' = [store EXCEPT ![s] = r],
           r.opening = store[s].opening, r.name = store[s].name, r.tx = store[s].tx,
           r.retired = store[s].retired, r.at \in Uncommitted,
           SeenOf(r) \in {SeenOf(store[s]), {}},
           r.at \in {"claim", "retire", "publish"} =>
              store[s].at \in {"claim", "retire", "publish"} /\ staging' = staging
    PROVE  CommitInv' /\ Unseen(s)
  <1>1. /\ ~Committed(r.tx)
        /\ r.at \in {"claim", "retire", "publish"} => staging'[r.tx] = r.name
    BY UncommittedIs
  <1>2. TreeInv' /\ WholeInv' /\ ~Committed(r.tx)' /\ \A k \in Ids : Profile(k)' = Profile(k)
    BY <1>1, CommitSame, SafeDisk
  <1>3. QED
    BY <1>1, <1>2, ImportMoved

LEMMA ClaimShows ==
    ASSUME Safe, NEW s \in Stores, Claim(s)
    PROVE  CommitInv' /\ Unseen(s)
  <1>1. PICK q : q = store[s]
    OBVIOUS
  <1>2. /\ q.at = "claim" /\ UNCHANGED <<disk, lock, clock, begun>>
        /\ q \in Rows /\ store \in [Stores -> Rows] /\ ImportInv /\ q.retired \in SUBSET Ids
    BY <1>1, SafeParts DEF Claim, At, Rows
  <1>3. PICK r \in Rows : /\ store' = [store EXCEPT ![s] = r] /\ r.at \in {"retire", "undo"}
                          /\ r.opening = q.opening
                          /\ r.name = q.name /\ r.retired = q.retired /\ r.tx = q.tx
    <2>1. CASE GotoWith(s, "retire", q.retired)
      BY <1>1, <1>2, <2>1, WentWith DEF Places
    <2>2. CASE Goto(s, "undo")
      BY <1>1, <1>2, <2>2, WentTo DEF Places
    <2>3. QED
      BY <1>1, <2>1, <2>2 DEF Claim
  <1>4. q.at \in Uncommitted /\ SeenOf(r) \in {SeenOf(q), {}} /\ r.at \in Uncommitted
    BY <1>2, <1>3 DEF SeenOf, Uncommitted
  <1>5. QED
    BY <1>1, <1>2, <1>3, <1>4, PlaceShows DEF disk

LEMMA RollbackStartShows ==
    ASSUME Safe, NEW s \in Stores, store[s].at \in {"retire", "publish"}, StartRollback(s),
           UNCHANGED <<config, tombstone, journal, clock, begun>>
    PROVE  CommitInv' /\ Unseen(s)
  <1>1. PICK q : q = store[s]
    OBVIOUS
  <1>2. /\ q \in Rows /\ store \in [Stores -> Rows] /\ ImportInv /\ q.retired \ q.left \in SUBSET Ids
    BY <1>1, SafeParts DEF Rows
  <1>3. PICK r \in Rows : /\ store' = [store EXCEPT ![s] = r] /\ r.at = "rollback"
                          /\ r.opening = q.opening
                          /\ r.name = q.name /\ r.retired = q.retired /\ r.tx = q.tx
    BY <1>1, <1>2, WentWith DEF Places, StartRollback
  <1>4. q.at \in Uncommitted /\ SeenOf(r) \in {SeenOf(q), {}} /\ r.at \in Uncommitted
    BY <1>1, <1>2, <1>3 DEF SeenOf, Uncommitted
  <1>5. QED
    BY <1>1, <1>2, <1>3, <1>4, PlaceShows

LEMMA RetireShows ==
    ASSUME Safe, NEW s \in Stores, Retire(s), JournalInv'
    PROVE  CommitInv' /\ Unseen(s)
  <1>1. PICK q : q = store[s]
    OBVIOUS
  <1>2. /\ q.at = "retire" /\ UNCHANGED <<staging, journal, lock, clock, begun>>
        /\ q \in Rows /\ store \in [Stores -> Rows] /\ ImportInv /\ PlaceOf(q) /\ q.at \in Uncommitted
    BY <1>1, SafeParts DEF Retire, At, Uncommitted
  <1>3. /\ q.tx \in Imports /\ Journals = {q.tx} /\ ~Committed(q.tx) /\ q.left \in SUBSET Ids
        /\ journal[q.tx].is = "whole" /\ staging[q.tx] = q.name
        /\ q.left \subseteq journal[q.tx].retired
    BY <1>1, <1>2, UncommittedIs DEF PlaceOf
  <1>4. CASE Goto(s, "publish") /\ UNCHANGED <<config, tombstone>>
    <2>1. PICK r \in Rows : /\ store' = [store EXCEPT ![s] = r] /\ r.at = "publish"
                            /\ r.opening = q.opening
                            /\ r.name = q.name /\ r.retired = q.retired /\ r.tx = q.tx
      BY <1>1, <1>2, <1>4, WentTo DEF Places
    <2>2. SeenOf(r) \in {SeenOf(q), {}} /\ r.at \in Uncommitted
      BY <1>2, <2>1 DEF SeenOf, Uncommitted
    <2>3. QED
      BY <1>1, <1>2, <1>4, <2>1, <2>2, PlaceShows
  <1>5. ASSUME NEW i \in q.left, Retired(q.tx, i), GotoWith(s, "retire", q.left \ {i})
        PROVE  CommitInv' /\ Unseen(s)
    <2>1. i \in Ids /\ i \in journal[q.tx].retired
      BY <1>3
    <2>2. TreeInv' /\ WholeInv' /\ ~Committed(q.tx)' /\ \A k \in Ids : Profile(k)' = Profile(k)
      BY <1>2, <1>3, <1>5, <2>1, ProfileMoved
    <2>3. PICK r \in Rows : /\ store' = [store EXCEPT ![s] = r] /\ r.at = "retire"
                            /\ r.opening = q.opening
                            /\ r.name = q.name /\ r.retired = q.retired /\ r.tx = q.tx
      BY <1>1, <1>2, <1>3, <1>5, WentWith DEF Places
    <2>4. SeenOf(r) \in {SeenOf(q), {}} /\ r.at \in Uncommitted
      BY <1>2, <2>3 DEF SeenOf, Uncommitted
    <2>5. staging'[r.tx] = r.name
      BY <1>2, <1>3, <2>3
    <2>6. QED
      BY <1>1, <1>2, <2>2, <2>3, <2>4, <2>5, ImportMoved
  <1>6. CASE StartRollback(s) /\ UNCHANGED <<config, tombstone>>
    BY <1>1, <1>2, <1>6, RollbackStartShows
  <1>7. q.left # {} => First(q.left) \in q.left
    BY <1>3, FirstIsIn
  <1>8. QED
    BY <1>1, <1>4, <1>5, <1>6, <1>7 DEF Retire

\* The import takes effect: its target is there, and what it saw is not.
Replaces(s, i, n) ==
    /\ Profile(i) = NoName
    /\ Seen(s) \subseteq {k \in Ids : Profile(k) = n}
    /\ \A k \in Ids : Profile(k)' = IF k = i THEN n ELSE IF k \in Seen(s) THEN NoName ELSE Profile(k)
    /\ \A u \in Stores \ {s} : Seen(u)' = Seen(u)
    /\ Seen(s)' = {}

\* What the directories hold once the target of tx bears its marker.
LEMMA Published ==
    ASSUME Safe, NEW tx \in Imports, Journals = {tx}, ~Committed(tx), journal[tx].is = "whole",
           NEW i \in Ids, i = journal[tx].target, Absent(i), staging[tx] \in Names,
           Kept(tx) = journal[tx].retired,
           config' = [config EXCEPT ![i] = Tree(staging[tx], tx)],
           clock' = (IF clock > i THEN clock ELSE i + 1),
           UNCHANGED <<tombstone, journal, begun>>, JournalInv'
    PROVE  /\ TreeInv' /\ WholeInv' /\ Committed(tx)' /\ Profile(i) = NoName
           /\ \A k \in Ids : Profile(k)' = IF k = i THEN staging[tx]
                                           ELSE IF k \in journal[tx].retired THEN NoName
                                           ELSE Profile(k)
  <1>1. TreeInv /\ WholeInv /\ JournalInv /\ DiskTyped
    BY SafeDisk
  <1>2. i \notin journal[tx].retired /\ \A k \in journal[tx].retired : k \in Ids /\ Absent(k) /\ k < clock
    BY <1>1 DEF WholeInv, DiskTyped, JournalFiles
  <1>3. config'[i] = Tree(staging[tx], tx) /\ \A k \in Ids \ {i} : config'[k] = config[k]
    BY <1>1 DEF DiskTyped
  <1>4. /\ config'[i].marker = tx /\ config'[i].name = staging[tx] /\ config'[i].whole
        /\ config'[i] # Missing /\ tx <= begun /\ tx # 0 /\ Shown(config'[i]) = staging[tx]
    BY <1>1, <1>3 DEF Tree, Missing, JournalInv, Imports, Shown
  <1>5. Committed(tx)'
    BY <1>4 DEF Committed
  <1>6. Journals' = {tx} /\ Kept(tx)' = Kept(tx)
    BY DEF Journals, Kept
  <1>7. Profile(i) = NoName
    BY <1>1, <1>2, ProfileIs
  <1>8. ASSUME NEW k \in Ids
        PROVE  Profile(k)' = IF k = i THEN staging[tx]
                             ELSE IF k \in journal[tx].retired THEN NoName ELSE Profile(k)
    <2>1. Profile(k)' = IF config'[k] # Missing THEN Shown(config'[k]) ELSE NoName
      BY <1>5, <1>6, ProfileIsNext DEF Absent
    <2>2. Profile(k) = IF config[k] # Missing THEN Shown(config[k])
                       ELSE IF k \in journal[tx].retired THEN Shown(tombstone[tx][k]) ELSE NoName
      BY <1>1, ProfileIs DEF Absent
    <2>3. k \in journal[tx].retired => config[k] = Missing
      BY <1>2 DEF Absent
    <2>4. QED
      BY <1>3, <1>4, <2>1, <2>2, <2>3
  <1>9. i \in Int /\ clock \in Int
    BY <1>1 DEF DiskTyped, Ids
  <1>10. clock' \in Int /\ clock <= clock' /\ i < clock'
    BY <1>9
  <1>11. WholeInv'
    <2>1. \A u \in Imports : journal[u].is = "whole" => u = tx
      BY DEF Journals, NoJournal
    <2>2. \A k \in journal[tx].retired : k \in Int
      BY <1>2 DEF Ids
    <2>3. \A k \in journal[tx].retired : k < clock'
      BY <1>2, <1>9, <1>10, <2>2
    <2>4. QED
      BY <1>1, <1>5, <2>1, <2>3 DEF WholeInv
  <1>12. TreeInv'
    <2>1. \A k \in Ids : k \in Int
      BY DEF Ids
    <2>2. \A k \in Ids \ {i} : ~Absent(k)' => Known(config[k]) /\ k < clock
      BY <1>1, <1>3 DEF TreeInv, Absent
    <2>3. ASSUME NEW k \in Ids \ {i}, ~Absent(k)'
          PROVE  k < clock'
      <3>1. k \in Int /\ k < clock
        BY <2>1, <2>2, <2>3
      <3>2. QED
        BY <1>9, <1>10, <3>1
    <2>4. \A k \in Ids \ {i} : ~Absent(k)' => Known(config[k])'
      BY <1>3, <2>2 DEF Known
    <2>5. Known(config[i])'
      BY <1>4 DEF Known
    <2>6. \A u \in Imports : \A k \in Kept(u)' : Known(tombstone[u][k])'
      BY <1>1 DEF TreeInv, Known, Kept
    <2>7. QED
      BY <1>10, <2>3, <2>4, <2>5, <2>6 DEF TreeInv
  <1>13. QED
    BY <1>5, <1>7, <1>8, <1>11, <1>12

LEMMA PublishShows ==
    ASSUME Safe, NEW s \in Stores, Publish(s), JournalInv'
    PROVE  /\ CommitInv'
           /\ Unseen(s) \/ \E i \in Ids, n \in Names : Replaces(s, i, n)
  <1>1. PICK q : q = store[s]
    OBVIOUS
  <1>2. /\ q.at = "publish" /\ UNCHANGED <<tombstone, journal, lock, begun>> /\ WholeInv
        /\ q \in Rows /\ store \in [Stores -> Rows] /\ ImportInv /\ PlaceOf(q) /\ q.at \in Uncommitted
    BY <1>1, SafeParts DEF Publish, At, Uncommitted
  <1>3. /\ q.tx \in Imports /\ Journals = {q.tx} /\ ~Committed(q.tx) /\ q.retired \in SUBSET Ids
        /\ journal[q.tx].is = "whole" /\ staging[q.tx] = q.name /\ q.name \in Names
        /\ q.retired = journal[q.tx].retired /\ Kept(q.tx) = q.retired /\ lock = s /\ ~q.opening
        /\ \A k \in q.retired : Profile(k) = q.name
    BY <1>1, <1>2, UncommittedIs DEF PlaceOf
  <1>4. PICK i : i = journal[q.tx].target
    OBVIOUS
  <1>5. CASE /\ Absent(i)
             /\ config' = [config EXCEPT ![i] = Tree(staging[q.tx], q.tx)]
             /\ clock' = IF clock > i THEN clock ELSE i + 1
             /\ GotoWith(s, "reclaim", q.retired)
    <2>1. i \in Ids
      BY <1>2, <1>3, <1>4 DEF WholeInv
    <2>2. /\ TreeInv' /\ WholeInv' /\ Committed(q.tx)' /\ Profile(i) = NoName
          /\ \A k \in Ids : Profile(k)' = IF k = i THEN q.name
                                          ELSE IF k \in q.retired THEN NoName
                                          ELSE Profile(k)
      <3>1. staging[q.tx] \in Names /\ Kept(q.tx) = journal[q.tx].retired
        BY <1>3
      <3>2. UNCHANGED <<tombstone, journal, begun>>
        BY <1>2
      <3>3. /\ TreeInv' /\ WholeInv' /\ Committed(q.tx)' /\ Profile(i) = NoName
            /\ \A k \in Ids : Profile(k)' = IF k = i THEN staging[q.tx]
                                            ELSE IF k \in journal[q.tx].retired THEN NoName
                                            ELSE Profile(k)
        BY <1>3, <1>4, <1>5, <2>1, <3>1, <3>2, Published
      <3>4. QED
        BY <1>3, <3>3
    <2>3. PICK r \in Rows : /\ store' = [store EXCEPT ![s] = r] /\ r.at = "reclaim"
                            /\ r.opening = q.opening
                            /\ r.name = q.name /\ r.retired = q.retired /\ r.tx = q.tx
      BY <1>1, <1>2, <1>3, <1>5, WentWith DEF Places
    <2>4. CommitOf(r)' /\ SeenOf(r) = {}
      BY <1>3, <2>2, <2>3 DEF CommitOf, SeenOf, InImport, Uncommitted, Reclaiming
    <2>5. CommitInv' /\ Seen(s)' = {} /\ \A u \in Stores \ {s} : Seen(u)' = Seen(u)
      BY <1>3, <2>2, <2>3, <2>4, CommitMoved
    <2>6. Seen(s) = q.retired
      BY <1>1, <1>2, SeenIs DEF SeenOf
    <2>7. Replaces(s, i, q.name)
      BY <1>3, <2>2, <2>5, <2>6 DEF Replaces
    <2>8. QED
      BY <1>3, <2>1, <2>5, <2>7
  <1>6. CASE StartRollback(s) /\ UNCHANGED <<config, staging, clock>>
    BY <1>1, <1>2, <1>6, RollbackStartShows
  <1>7. QED
    BY <1>1, <1>4, <1>5, <1>6 DEF Publish

LEMMA RollbackShows ==
    ASSUME Safe, NEW s \in Stores, Rollback(s), JournalInv'
    PROVE  CommitInv' /\ Unseen(s)
  <1>1. PICK q : q = store[s]
    OBVIOUS
  <1>2. /\ q.at = "rollback" /\ UNCHANGED <<staging, journal, lock, clock, begun>> /\ JournalInv
        /\ q \in Rows /\ store \in [Stores -> Rows] /\ ImportInv /\ PlaceOf(q) /\ q.at \in Uncommitted
    BY <1>1, SafeParts DEF Rollback, At, Uncommitted
  <1>3. /\ q.tx \in Imports /\ Journals = {q.tx} /\ ~Committed(q.tx) /\ q.left \in SUBSET Ids
        /\ journal[q.tx].is = "whole"
    BY <1>1, <1>2, UncommittedIs
  <1>4. ASSUME NEW r, r.at \in {"rollback", "undo"}
        PROVE  /\ SeenOf(r) \in {SeenOf(q), {}} /\ r.at \in Uncommitted
               /\ r.at \notin {"claim", "retire", "publish"}
    BY <1>4 DEF SeenOf, Uncommitted
  <1>5. CASE Goto(s, "undo") /\ UNCHANGED <<config, tombstone>>
    <2>1. PICK r \in Rows : /\ store' = [store EXCEPT ![s] = r] /\ r.at = "undo" /\ r.opening = q.opening
                            /\ r.name = q.name /\ r.retired = q.retired /\ r.tx = q.tx
      BY <1>1, <1>2, <1>5, WentTo DEF Places
    <2>2. /\ SeenOf(r) \in {SeenOf(q), {}} /\ r.at \in Uncommitted
          /\ r.at \notin {"claim", "retire", "publish"}
      BY <1>4, <2>1
    <2>3. QED
      BY <1>1, <1>2, <1>5, <2>1, <2>2, PlaceShows
  <1>6. ASSUME NEW i \in Ids, Restored(q.tx, i), GotoWith(s, "rollback", q.left \ {i})
        PROVE  CommitInv' /\ Unseen(s)
    <2>1. i \in journal[q.tx].retired
      BY <1>2, <1>3, <1>6 DEF Restored, JournalInv, Kept
    <2>2. TreeInv' /\ WholeInv' /\ ~Committed(q.tx)' /\ \A k \in Ids : Profile(k)' = Profile(k)
      BY <1>2, <1>3, <1>6, <2>1, ProfileMoved
    <2>3. PICK r \in Rows : /\ store' = [store EXCEPT ![s] = r] /\ r.at = "rollback"
                            /\ r.opening = q.opening
                            /\ r.name = q.name /\ r.retired = q.retired /\ r.tx = q.tx
      BY <1>1, <1>2, <1>3, <1>6, WentWith DEF Places
    <2>4. /\ SeenOf(r) \in {SeenOf(q), {}} /\ r.at \in Uncommitted
          /\ r.at \notin {"claim", "retire", "publish"}
      BY <1>4, <2>3
    <2>5. QED
      BY <1>1, <1>2, <2>2, <2>3, <2>4, ImportMoved
  <1>7. ASSUME NEW i \in Ids, UNCHANGED <<config, tombstone>>,
               store' = [store EXCEPT ![s] = [@ EXCEPT !.left = store[s].left \ {i}, !.ok = FALSE]]
        PROVE  CommitInv' /\ Unseen(s)
    <2>1. PICK r : r = [store[s] EXCEPT !.left = store[s].left \ {i}, !.ok = FALSE]
      OBVIOUS
    <2>2. /\ r \in Rows /\ r.at = "rollback" /\ r.tx = q.tx /\ r.retired = q.retired
          /\ r.opening = q.opening /\ r.name = q.name
      BY <1>1, <1>2, <2>1 DEF Rows
    <2>3. store' = [store EXCEPT ![s] = r]
      BY <1>7, <2>1
    <2>4. /\ SeenOf(r) \in {SeenOf(q), {}} /\ r.at \in Uncommitted
          /\ r.at \notin {"claim", "retire", "publish"}
      BY <1>4, <2>2
    <2>5. QED
      BY <1>1, <1>2, <1>7, <2>2, <2>3, <2>4, PlaceShows
  <1>8. q.left # {} => Final(q.left) \in Ids
    BY <1>3, FinalIsIn
  <1>9. QED
    BY <1>1, <1>5, <1>6, <1>7, <1>8 DEF Rollback

LEMMA UndoShows ==
    ASSUME Safe, NEW s \in Stores, Undo(s)
    PROVE  CommitInv' /\ Unseen(s)
  <1>1. PICK q : q = store[s]
    OBVIOUS
  <1>2. /\ q.at = "undo" /\ UNCHANGED <<config, tombstone, journal, lock, clock, begun>>
        /\ Goto(s, "undo_journal")
        /\ q \in Rows /\ store \in [Stores -> Rows] /\ ImportInv /\ q.at \in Uncommitted
    BY <1>1, SafeParts DEF Undo, At, Uncommitted
  <1>3. PICK r \in Rows : /\ store' = [store EXCEPT ![s] = r] /\ r.at = "undo_journal"
                          /\ r.opening = q.opening
                          /\ r.name = q.name /\ r.retired = q.retired /\ r.tx = q.tx
    BY <1>1, <1>2, WentTo DEF Places
  <1>4. SeenOf(r) \in {SeenOf(q), {}} /\ r.at \in Uncommitted
    BY <1>3 DEF SeenOf, Uncommitted
  <1>5. QED
    BY <1>1, <1>2, <1>3, <1>4, PlaceShows

LEMMA UndoJournalShows ==
    ASSUME Safe, NEW s \in Stores, UndoJournal(s), JournalInv'
    PROVE  CommitInv' /\ Unseen(s)
  <1>1. /\ store[s].at = "undo_journal" /\ UNCHANGED <<config, staging, tombstone, clock, begun>>
        /\ Fail(s)
    BY DEF UndoJournal, At
  <1>2. (store[s].ok => Kept(store[s].tx) = {}) /\ store[s].at \in InImport
    BY <1>1, SafeParts DEF PlaceOf, InImport, Uncommitted
  <1>3. CASE store[s].ok /\ JournalRemoved(store[s].tx)
    BY <1>1, <1>2, <1>3, JournalForgottenShows
  <1>4. CASE UNCHANGED journal
    BY <1>1, <1>4, SafeLeft DEF Quiet
  <1>5. QED
    BY <1>3, <1>4 DEF UndoJournal

LEMMA ReclaimShows ==
    ASSUME Safe, NEW s \in Stores, Reclaim(s), JournalInv'
    PROVE  CommitInv' /\ Unseen(s)
  <1>1. PICK q : q = store[s]
    OBVIOUS
  <1>2. /\ q.at = "reclaim" /\ UNCHANGED <<config, staging, journal, clock, begun>>
        /\ q \in Rows /\ store \in [Stores -> Rows] /\ CommitOf(q) /\ ImportInv /\ PlaceOf(q)
    BY <1>1, SafeParts DEF Reclaim, At
  <1>3. /\ ~q.opening /\ q.name \in Names /\ lock = s /\ Committed(q.tx)
        /\ q.tx \in Imports /\ Journals = {q.tx} /\ q.left \in SUBSET Ids
    BY <1>1, <1>2, Alone, TxOf DEF CommitOf, InImport, Uncommitted, Reclaiming, Quiet, Rows
  <1>4. ASSUME NEW r, r.at \in Reclaiming, r.opening = q.opening, r.name = q.name, r.tx = q.tx
        PROVE  SeenOf(r) = {} /\ CommitOf(r) /\ (Committed(q.tx)' => CommitOf(r)')
    BY <1>3, <1>4 DEF CommitOf, SeenOf, InImport, Uncommitted, Reclaiming
  <1>5. CASE Goto(s, "reclaim_journal") /\ UNCHANGED tombstone
    <2>1. PICK r \in Rows : /\ store' = [store EXCEPT ![s] = r] /\ r.at = "reclaim_journal"
                            /\ r.opening = q.opening /\ r.name = q.name /\ r.tx = q.tx
      BY <1>1, <1>2, <1>5, WentTo DEF Places
    <2>2. CommitOf(r) /\ SeenOf(r) = {}
      BY <1>4, <2>1 DEF Reclaiming
    <2>3. QED
      BY <1>2, <1>3, <1>5, <2>1, <2>2, SafeMoved
  <1>6. CASE Fail(s) /\ UNCHANGED tombstone
    BY <1>1, <1>2, <1>6, SafeLeft DEF Quiet
  <1>7. ASSUME NEW i \in Ids, Reclaimed(q.tx, i) \/ PartlyReclaimed(q.tx, i),
               NEW r \in Rows, store' = [store EXCEPT ![s] = r], r.at = "reclaim",
               r.opening = q.opening, r.name = q.name, r.tx = q.tx
        PROVE  CommitInv' /\ Unseen(s)
    <2>1. TreeInv' /\ WholeInv' /\ Committed(q.tx)' /\ \A k \in Ids : Profile(k)' = Profile(k)
      BY <1>2, <1>3, <1>7, TombstoneReclaimed
    <2>2. CommitOf(r)' /\ SeenOf(r) = {}
      BY <1>4, <1>7, <2>1 DEF Reclaiming
    <2>3. QED
      BY <1>3, <1>7, <2>1, <2>2, CommitMoved DEF Unseen
  <1>8. ASSUME NEW i \in Ids, Reclaimed(q.tx, i), GotoWith(s, "reclaim", q.left \ {i})
        PROVE  CommitInv' /\ Unseen(s)
    <2>1. PICK r \in Rows : /\ store' = [store EXCEPT ![s] = r] /\ r.at = "reclaim"
                            /\ r.opening = q.opening /\ r.name = q.name /\ r.tx = q.tx
      BY <1>1, <1>2, <1>3, <1>8, WentWith DEF Places
    <2>2. QED
      BY <1>7, <1>8, <2>1
  <1>9. ASSUME NEW i \in Ids, PartlyReclaimed(q.tx, i),
               store' = [store EXCEPT ![s] = [@ EXCEPT !.left = store[s].left \ {i}, !.ok = FALSE]]
        PROVE  CommitInv' /\ Unseen(s)
    <2>1. PICK r : r = [store[s] EXCEPT !.left = store[s].left \ {i}, !.ok = FALSE]
      OBVIOUS
    <2>2. /\ r \in Rows /\ r.at = "reclaim" /\ r.tx = q.tx /\ r.opening = q.opening /\ r.name = q.name
      BY <1>1, <1>2, <2>1 DEF Rows
    <2>3. store' = [store EXCEPT ![s] = r]
      BY <1>9, <2>1
    <2>4. QED
      BY <1>7, <1>9, <2>2, <2>3
  <1>10. q.left # {} => First(q.left) \in Ids
    BY <1>3, FirstIsIn
  <1>11. QED
    BY <1>1, <1>5, <1>6, <1>8, <1>9, <1>10 DEF Reclaim

LEMMA ReclaimJournalShows ==
    ASSUME Safe, NEW s \in Stores, ReclaimJournal(s), JournalInv'
    PROVE  CommitInv' /\ Unseen(s)
  <1>1. /\ store[s].at = "reclaim_journal" /\ UNCHANGED <<config, staging, tombstone, clock, begun>>
    BY DEF ReclaimJournal, At
  <1>2. Kept(store[s].tx) = {} /\ store[s].at \in InImport
    BY <1>1, SafeParts DEF PlaceOf, InImport, Reclaiming
  <1>3. CASE JournalRemoved(store[s].tx)
    BY <1>1, <1>2, <1>3, JournalForgottenShows DEF ReclaimJournal
  <1>4. CASE UNCHANGED journal /\ Fail(s)
    BY <1>1, <1>4, SafeLeft DEF Quiet
  <1>5. QED
    BY <1>3, <1>4 DEF ReclaimJournal

LEMMA ReclaimMarkerShows ==
    ASSUME Safe, NEW s \in Stores, ReclaimMarker(s)
    PROVE  CommitInv' /\ Unseen(s)
  <1>1. /\ store[s].at = "reclaim_marker" /\ UNCHANGED <<staging, tombstone, journal, clock, begun>>
        /\ Fail(s) /\ ImportInv /\ PlaceOf(store[s])
    BY SafeParts DEF ReclaimMarker, At
  <1>2. lock = s /\ Journals = {}
    BY <1>1, Alone DEF PlaceOf, NoneLeft, Quiet
  <1>3. UNCHANGED config \/ \E i \in Marked : MarkerRemoved(i)
    BY DEF ReclaimMarker
  <1>4. TreeInv' /\ WholeInv' /\ \A k \in Ids : Profile(k)' = Profile(k)
    <2>1. CASE UNCHANGED config
      BY <1>1, <2>1, CommitSame, SafeDisk
    <2>2. QED
      BY <1>1, <1>2, <1>3, <2>1, MarkerForgotten
  <1>5. QED
    BY <1>1, <1>2, <1>4, SafeFailed

-----------------------------------------------------------------------------
(* Other calls beside an import *)

\* One profile changes that no journal and no import concerns.
LEMMA OneChanged ==
    ASSUME Safe, NEW i \in Ids, UNCHANGED <<staging, tombstone, journal, begun, store>>,
           \A k \in Ids \ {i} : config'[k] = config[k], config'[i].marker = 0,
           \A tx \in Imports : journal[tx].is = "whole" =>
               i \notin journal[tx].retired /\ (Committed(tx)' <=> Committed(tx)),
           \A u \in Stores : i \notin SeenOf(store[u]),
           clock <= clock', clock' \in Int,
           config'[i] # Missing => config'[i].name \in Names /\ i < clock'
    PROVE  /\ CommitInv' /\ (\A u \in Stores : Seen(u)' = Seen(u))
           /\ \A k \in Ids \ {i} : Profile(k)' = Profile(k)
           /\ Profile(i) = IF config[i] # Missing THEN Shown(config[i]) ELSE NoName
           /\ Profile(i)' = IF config'[i] # Missing THEN Shown(config'[i]) ELSE NoName
  <1>1. TreeInv /\ WholeInv /\ JournalInv /\ DiskTyped
    BY SafeDisk
  <1>2. ASSUME NEW k \in Ids \ {i}
        PROVE  Profile(k)' = Profile(k)
    <2>1. {tx \in Imports : journal'[tx].is = "whole" /\ ~Committed(tx)' /\ tombstone'[tx][k] # Missing}
             = {tx \in Imports : journal[tx].is = "whole" /\ ~Committed(tx) /\ tombstone[tx][k] # Missing}
      OBVIOUS
    <2>2. Absent(k)' <=> Absent(k)
      BY DEF Absent
    <2>3. QED
      BY <2>1, <2>2 DEF Profile
  <1>3. \A tx \in Imports : journal[tx].is = "whole" => tombstone[tx][i] = Missing
    BY <1>1 DEF JournalInv, Kept
  <1>4. Profile(i) = IF config[i] # Missing THEN Shown(config[i]) ELSE NoName
    <2>1. {tx \in Imports : journal[tx].is = "whole" /\ ~Committed(tx) /\ tombstone[tx][i] # Missing} = {}
      BY <1>3
    <2>2. QED
      BY <2>1 DEF Profile, Absent
  <1>5. Profile(i)' = IF config'[i] # Missing THEN Shown(config'[i]) ELSE NoName
    <2>1. {tx \in Imports : journal'[tx].is = "whole" /\ ~Committed(tx)' /\ tombstone'[tx][i] # Missing} = {}
      BY <1>3
    <2>2. QED
      BY <2>1 DEF Profile, Absent
  <1>6. WholeInv'
    <2>1. ASSUME NEW tx \in Imports, journal[tx].is = "whole"
          PROVE  /\ journal[tx].target \in Ids \ journal[tx].retired
                 /\ \A k \in journal[tx].retired : k < clock'
                 /\ ~Committed(tx)' => \A k \in journal[tx].retired : Absent(k)' <=> k \in Kept(tx)'
      <3>1. /\ journal[tx].target \in Ids \ journal[tx].retired
            /\ \A k \in journal[tx].retired : k < clock /\ k \in Ids /\ k # i
            /\ ~Committed(tx) => \A k \in journal[tx].retired : Absent(k) <=> k \in Kept(tx)
        BY <1>1, <2>1 DEF WholeInv, DiskTyped, JournalFiles
      <3>2. ASSUME NEW k \in journal[tx].retired
            PROVE  k < clock'
        <4>1. k \in Int /\ k < clock /\ clock \in Int
          BY <1>1, <3>1 DEF Ids, DiskTyped
        <4>2. QED
          BY <4>1
      <3>3. \A k \in journal[tx].retired : (Absent(k)' <=> Absent(k)) /\ (k \in Kept(tx)' <=> k \in Kept(tx))
        BY <3>1 DEF Absent, Kept
      <3>4. QED
        BY <2>1, <3>1, <3>2, <3>3
    <2>2. QED
      BY <2>1 DEF WholeInv
  <1>7. TreeInv'
    <2>1. ASSUME NEW k \in Ids, ~Absent(k)'
          PROVE  Known(config[k])' /\ k < clock'
      <3>1. CASE k = i
        BY <1>1, <2>1, <3>1 DEF Known, Absent, DiskTyped
      <3>2. CASE k # i
        <4>1. Known(config[k]) /\ k < clock /\ k \in Int /\ clock \in Int /\ config'[k] = config[k]
          BY <1>1, <2>1, <3>2 DEF TreeInv, Absent, Ids, DiskTyped
        <4>2. k < clock'
          BY <4>1
        <4>3. QED
          BY <4>1, <4>2 DEF Known
      <3>3. QED
        BY <3>1, <3>2
    <2>2. \A u \in Imports : \A k \in Kept(u)' : Known(tombstone[u][k])'
      BY <1>1 DEF TreeInv, Known, Kept
    <2>3. QED
      BY <2>1, <2>2 DEF TreeInv
  <1>8. ASSUME NEW u \in Stores
        PROVE  ImportOf(u)' /\ Seen(u)' = Seen(u)
    <2>1. PICK q : q = store[u]
      OBVIOUS
    <2>2. q \in Rows /\ CommitOf(q) /\ PlaceOf(q) /\ ImportInv /\ store'[u] = q /\ i \notin SeenOf(q)
      BY <2>1, SafeParts
    <2>3. q.at \in Resuming \cup InImport => (Committed(q.tx)' <=> Committed(q.tx))
      BY <2>1, <2>2, TxOf DEF PlaceOf
    <2>4. q.at = "write" => q.tx \in Imports
      BY <2>1, <2>2, TxOf
    <2>5. q.at = "write" => \A k \in Ids : config'[k].marker # q.tx
      <3>1. SUFFICES ASSUME q.at = "write", NEW k \in Ids
                     PROVE  config'[k].marker # q.tx
        OBVIOUS
      <3>2. q.tx # 0 /\ config[k].marker # q.tx
        BY <2>2, <2>4, <3>1 DEF CommitOf, Imports
      <3>3. QED
        BY <3>2
    <2>6. \A k \in SeenOf(q) : k \in Ids \ {i}
      BY <2>2 DEF SeenOf, Rows
    <2>7. \A k \in SeenOf(q) : Profile(k)' = q.name
      BY <1>2, <2>2, <2>6 DEF CommitOf
    <2>8. q.at = "write" => \A k \in q.retired : ~Absent(k)' /\ k \notin q.left
      BY <2>2, <2>6 DEF CommitOf, SeenOf, Absent
    <2>9. Journals' = Journals
      BY DEF Journals
    <2>10. CommitOf(q)'
      BY <2>2, <2>3, <2>5, <2>7, <2>8, <2>9 DEF CommitOf, Resuming, InImport, Uncommitted, Reclaiming
    <2>11. QED
      BY <2>1, <2>2, <2>10, CommitIsNext, SeenIs
  <1>9. QED
    BY <1>2, <1>4, <1>5, <1>6, <1>7, <1>8 DEF CommitInv

\* What an import saw is older than every id that is free.
LEMMA SeenIsOld ==
    ASSUME Safe, NEW u \in Stores, NEW i \in SeenOf(store[u])
    PROVE  i \in Ids /\ i < clock
  <1>1. PICK q : q = store[u]
    OBVIOUS
  <1>2. /\ q \in Rows /\ CommitOf(q) /\ PlaceOf(q) /\ ImportInv /\ TreeInv /\ WholeInv
        /\ q.at \in {"write", "stage", "claim", "retire", "publish"} /\ i \in q.retired /\ i \in Ids
    BY <1>1, SafeParts DEF SeenOf, Rows
  <1>3. CASE q.at = "write"
    BY <1>2, <1>3 DEF CommitOf, TreeInv
  <1>4. CASE q.at # "write"
    <2>1. q.tx \in Imports /\ journal[q.tx].is = "whole" /\ i \in journal[q.tx].retired
      BY <1>1, <1>2, <1>4, TxOf DEF PlaceOf, InImport, Uncommitted
    <2>2. QED
      BY <1>2, <2>1 DEF WholeInv
  <1>5. QED
    BY <1>2, <1>3, <1>4

LEMMA CreateShows ==
    ASSUME Safe, NEW s \in Stores, NEW n \in Names, CreateProfile(s, n)
    PROVE  /\ CommitInv'
           /\ \E i \in Ids : /\ Profile(i) = NoName
                             /\ \A k \in Ids : Profile(k)' = IF k = i THEN n ELSE Profile(k)
                             /\ \A u \in Stores : Seen(u)' = Seen(u)
  <1>1. PICK i : i = Fresh
    OBVIOUS
  <1>2. /\ i \in Ids /\ i >= clock /\ Absent(i) /\ TreeInv /\ WholeInv /\ DiskTyped
        /\ config' = [config EXCEPT ![i] = Tree(n, 0)] /\ clock' = i + 1
        /\ UNCHANGED <<staging, tombstone, journal, begun, store>>
    BY <1>1, FreshIsIn, SafeDisk DEF CreateProfile
  <1>3. i \in Int /\ clock \in Int
    BY <1>2 DEF Ids, DiskTyped
  <1>4. clock' \in Int /\ clock <= clock' /\ i < clock' /\ ~(i < clock)
    BY <1>2, <1>3
  <1>5. /\ config'[i] = Tree(n, 0) /\ \A k \in Ids \ {i} : config'[k] = config[k]
    BY <1>2 DEF DiskTyped
  <1>6. /\ config'[i].marker = 0 /\ config'[i].name = n /\ config'[i].whole /\ config'[i] # Missing
        /\ Shown(config'[i]) = n /\ config[i] = Missing
    BY <1>2, <1>5 DEF Tree, Missing, Shown, Absent
  <1>7. ASSUME NEW tx \in Imports, journal[tx].is = "whole"
        PROVE  i \notin journal[tx].retired /\ (Committed(tx)' <=> Committed(tx))
    <2>1. i \notin journal[tx].retired /\ journal[tx].target \in Ids
      BY <1>2, <1>4, <1>7 DEF WholeInv
    <2>2. tx # 0
      BY DEF Imports
    <2>3. CASE journal[tx].target = i
      <3>1. journal'[tx].target = i
        BY <1>2, <2>3
      <3>2. ~Committed(tx)
        BY <1>6, <2>3 DEF Committed
      <3>3. ~Committed(tx)'
        BY <1>6, <2>2, <3>1 DEF Committed
      <3>4. QED
        BY <2>1, <3>2, <3>3
    <2>4. CASE journal[tx].target # i
      BY <1>2, <1>5, <2>1, <2>4 DEF Committed
    <2>5. QED
      BY <2>1, <2>3, <2>4
  <1>8. \A u \in Stores : i \notin SeenOf(store[u])
    BY <1>4, SeenIsOld
  <1>9. /\ CommitInv' /\ (\A u \in Stores : Seen(u)' = Seen(u))
        /\ \A k \in Ids \ {i} : Profile(k)' = Profile(k)
        /\ Profile(i) = NoName /\ Profile(i)' = n
    BY <1>2, <1>4, <1>5, <1>6, <1>7, <1>8, OneChanged
  <1>10. QED
    BY <1>2, <1>9

LEMMA RemoveShows ==
    ASSUME Safe, ImportsUndisturbed, NEW s \in Stores, NEW i \in Ids, RemoveProfile(s, i)
    PROVE  /\ CommitInv'
           /\ \A k \in Ids : Profile(k)' = IF k = i THEN NoName ELSE Profile(k)
           /\ \A u \in Stores : Seen(u)' = Seen(u)
  <1>1. /\ ~Absent(i) /\ ~Journaled(i) /\ config' = [config EXCEPT ![i] = Missing]
        /\ UNCHANGED <<staging, tombstone, journal, clock, begun, store>> /\ DiskTyped
    BY SafeDisk DEF RemoveProfile, ImportsUndisturbed
  <1>2. /\ config'[i] = Missing /\ \A k \in Ids \ {i} : config'[k] = config[k]
        /\ config'[i].marker = 0
    BY <1>1 DEF DiskTyped, Missing
  <1>3. clock <= clock' /\ clock' \in Int
    BY <1>1 DEF DiskTyped
  <1>4. ASSUME NEW tx \in Imports, journal[tx].is = "whole"
        PROVE  i \notin journal[tx].retired /\ (Committed(tx)' <=> Committed(tx))
    <2>1. tx \in Journals
      BY <1>4 DEF Journals, NoJournal
    <2>2. i \notin journal[tx].retired /\ i # journal[tx].target
      BY <1>1, <2>1 DEF Journaled
    <2>3. journal[tx].target \in Ids
      BY <1>4, SafeDisk DEF WholeInv
    <2>4. QED
      BY <1>1, <1>2, <2>2, <2>3 DEF Committed
  <1>5. \A u \in Stores : i \notin SeenOf(store[u])
    BY <1>1 DEF Journaled, SeenOf
  <1>6. /\ CommitInv' /\ (\A u \in Stores : Seen(u)' = Seen(u))
        /\ \A k \in Ids \ {i} : Profile(k)' = Profile(k)
        /\ Profile(i)' = NoName
    BY <1>1, <1>2, <1>3, <1>4, <1>5, OneChanged
  <1>7. QED
    BY <1>6

-----------------------------------------------------------------------------
(* The theorems *)

LEMMA SafeInitially == Init => Safe
  <1> SUFFICES ASSUME Init
               PROVE  Safe
    OBVIOUS
  <1>1. ImportInv
    BY ImportInvInitially
  <1>2. Journals = {} /\ \A tx \in Imports : Kept(tx) = {} /\ journal[tx].is = "missing"
    BY DEF Init, Journals, Kept, NoJournal
  <1>3. PICK n \in [Old -> Names] :
            config = [i \in Ids |-> IF i \in Old THEN Tree(n[i], 0) ELSE Missing]
    BY DEF Init
  <1>4. \A i \in Old : i < clock
    <2> DEFINE C == {c \in 1..MaxId + 1 : \A i \in Old : i < c}
    <2>1. C \in SUBSET Nat
      BY ConfigImportAssumption
    <2>2. MaxId + 1 \in C
      BY ConfigImportAssumption DEF Ids
    <2>3. First(C) \in C
      <3> HIDE DEF C
      <3>1. QED
        BY <2>1, <2>2, LeastIsIn
    <2>4. QED
      BY <2>3 DEF Init
  <1>5. TreeInv
    <2>1. begun = 0
      BY DEF Init
    <2>2. ASSUME NEW i \in Ids, ~Absent(i)
          PROVE  Known(config[i]) /\ i < clock
      <3>1. i \in Old /\ config[i] = Tree(n[i], 0) /\ n[i] \in Names
        BY <1>3, <2>2 DEF Absent
      <3>2. QED
        BY <1>4, <2>1, <3>1 DEF Known, Tree
    <2>3. QED
      BY <1>2, <2>2 DEF TreeInv
  <1>6. WholeInv
    BY <1>2 DEF WholeInv
  <1>7. ASSUME NEW s \in Stores
        PROVE  ImportOf(s)
    <2>1. store[s] = Down
      BY DEF Init
    <2>2. QED
      BY <2>1 DEF Down, ImportOf, Seen, InImport, Uncommitted, Reclaiming
  <1>8. QED
    BY <1>1, <1>5, <1>6, <1>7 DEF Safe, CommitInv

AbstractStep == Abstract!Next \/ UNCHANGED Abstract!vars

\* Every other step is one that gives the import up, or shows nothing.
LEMMA GivenUp ==
    ASSUME NEW s \in Stores, Unseen(s)
    PROVE  AbstractStep
  <1>1. [i \in Ids |-> Profile(i)]' = [i \in Ids |-> Profile(i)]
    BY DEF Unseen
  <1>2. CASE Seen(s)' = Seen(s)
    <2>1. [u \in Stores |-> Seen(u)]' = [u \in Stores |-> Seen(u)]
      BY <1>2 DEF Unseen
    <2>2. QED
      BY <1>1, <2>1 DEF AbstractStep, Abstract!vars
  <1>3. CASE Seen(s)' = {}
    <2>1. [u \in Stores |-> Seen(u)]' = [[u \in Stores |-> Seen(u)] EXCEPT ![s] = {}]
      BY <1>3 DEF Unseen
    <2>2. Abstract!GiveUp(s)
      BY <1>1, <2>1 DEF Abstract!GiveUp
    <2>3. QED
      BY <2>2 DEF AbstractStep, Abstract!Next
  <1>4. QED
    BY <1>2, <1>3 DEF Unseen

LEMMA Begun ==
    ASSUME NEW s \in Stores, \A k \in Ids : Profile(k)' = Profile(k),
           \A u \in Stores \ {s} : Seen(u)' = Seen(u), Seen(s) = {},
           NEW n \in Names, Seen(s)' = {i \in Ids : Profile(i) = n}
    PROVE  AbstractStep
  <1>1. [i \in Ids |-> Profile(i)]' = [i \in Ids |-> Profile(i)]
    OBVIOUS
  <1>2. Abstract!Named(n) = {i \in Ids : Profile(i) = n}
    BY DEF Abstract!Named
  <1>3. [u \in Stores |-> Seen(u)]' = [[u \in Stores |-> Seen(u)] EXCEPT ![s] = Abstract!Named(n)]
    BY <1>2
  <1>4. Abstract!BeginImport(s, n)
    BY <1>1, <1>3 DEF Abstract!BeginImport
  <1>5. QED
    BY <1>4 DEF AbstractStep, Abstract!Next

LEMMA Imported ==
    ASSUME NEW s \in Stores, NEW i \in Ids, NEW n \in Names, Replaces(s, i, n)
    PROVE  AbstractStep
  <1>1. [k \in Ids |-> Profile(k)]' =
            [j \in Ids |-> IF j = i THEN n ELSE IF j \in Seen(s) THEN NoName ELSE Profile(j)]
    BY DEF Replaces
  <1>2. [u \in Stores |-> Seen(u)]' = [[u \in Stores |-> Seen(u)] EXCEPT ![s] = {}]
    BY DEF Replaces
  <1>3. Abstract!Named(n) = {k \in Ids : Profile(k) = n}
    BY DEF Abstract!Named
  <1>4. Abstract!Import(s, i, n)
    BY <1>1, <1>2, <1>3 DEF Abstract!Import, Replaces
  <1>5. QED
    BY <1>4 DEF AbstractStep, Abstract!Next

LEMMA Added ==
    ASSUME NEW i \in Ids, NEW n \in Names, Profile(i) = NoName,
           \A k \in Ids : Profile(k)' = IF k = i THEN n ELSE Profile(k),
           \A u \in Stores : Seen(u)' = Seen(u)
    PROVE  AbstractStep
  <1>1. [k \in Ids |-> Profile(k)]' = [[k \in Ids |-> Profile(k)] EXCEPT ![i] = n]
    OBVIOUS
  <1>2. [u \in Stores |-> Seen(u)]' = [u \in Stores |-> Seen(u)]
    OBVIOUS
  <1>3. Abstract!Add(i, n)
    BY <1>1, <1>2 DEF Abstract!Add
  <1>4. QED
    BY <1>3 DEF AbstractStep, Abstract!Next

LEMMA Removed ==
    ASSUME NEW i \in Ids,
           \A k \in Ids : Profile(k)' = IF k = i THEN NoName ELSE Profile(k),
           \A u \in Stores : Seen(u)' = Seen(u)
    PROVE  AbstractStep
  <1>1. [k \in Ids |-> Profile(k)]' = [[k \in Ids |-> Profile(k)] EXCEPT ![i] = NoName]
    OBVIOUS
  <1>2. [u \in Stores |-> Seen(u)]' = [u \in Stores |-> Seen(u)]
    OBVIOUS
  <1>3. Abstract!Remove(i)
    BY <1>1, <1>2 DEF Abstract!Remove
  <1>4. QED
    BY <1>3 DEF AbstractStep, Abstract!Next

LEMMA SafeStep ==
    ASSUME ImportsUndisturbed
    PROVE  Safe /\ [Next]_vars => Safe' /\ AbstractStep
  <1> SUFFICES ASSUME Safe, [Next]_vars
               PROVE  Safe' /\ AbstractStep
    OBVIOUS
  <1>1. ImportInv' /\ JournalInv'
    BY ImportInvStep DEF Safe, ImportInv
  <1>2. SUFFICES CommitInv' /\ AbstractStep
    BY <1>1 DEF Safe
  <1>3. CASE UNCHANGED vars
    <2>1. /\ UNCHANGED <<config, tombstone, journal, staging, begun, clock, store>>
      BY <1>3 DEF vars, disk
    <2>2. TreeInv' /\ WholeInv' /\ \A k \in Ids : Profile(k)' = Profile(k)
      BY <2>1, CommitSame, SafeDisk
    <2>3. ASSUME NEW u \in Stores
          PROVE  ImportOf(u)' /\ Seen(u)' = Seen(u)
      <3>1. PICK q : q = store[u]
        OBVIOUS
      <3>2. CommitOf(q) /\ store'[u] = q
        BY <2>1, <3>1, SafeParts
      <3>3. CommitOf(q)'
        BY <2>1, <3>2, CommitSame
      <3>4. QED
        BY <3>1, <3>2, <3>3, CommitIsNext, SeenIs
    <2>4. CommitInv'
      BY <2>2, <2>3 DEF CommitInv
    <2>5. /\ [k \in Ids |-> Profile(k)]' = [k \in Ids |-> Profile(k)]
          /\ [u \in Stores |-> Seen(u)]' = [u \in Stores |-> Seen(u)]
      BY <2>2, <2>3
    <2>6. QED
      BY <2>4, <2>5 DEF AbstractStep, Abstract!vars
  <1>4. ASSUME NEW s \in Stores, Recovering(s)
        PROVE  CommitInv' /\ AbstractStep
    <2>1. CommitInv' /\ Unseen(s)
      BY <1>1, <1>4, BeginShows, RecoverShows, FinishShows, RestoreShows, UnstageShows, ForgetShows,
         UnmarkShows, LeftShows DEF Recovering
    <2>2. QED
      BY <2>1, GivenUp
  <1>5. ASSUME NEW s \in Stores, Importing(s)
        PROVE  CommitInv' /\ AbstractStep
    <2>1. CASE Admit(s)
      BY <1>1, <2>1, AdmitShows, Begun
    <2>2. CASE Publish(s)
      BY <1>1, <2>2, PublishShows, GivenUp, Imported
    <2>3. CASE ~Admit(s) /\ ~Publish(s)
      <3>1. CommitInv' /\ Unseen(s)
        BY <1>1, <1>5, <2>3, LeftShows, WriteJournalShows, StageShows, ClaimShows, RetireShows,
           RollbackShows, UndoShows, UndoJournalShows, ReclaimShows, ReclaimJournalShows,
           ReclaimMarkerShows DEF Importing
      <3>2. QED
        BY <3>1, GivenUp
    <2>4. QED
      BY <2>1, <2>2, <2>3
  <1>6. ASSUME NEW s \in Stores, Crash(s) \/ \E n \in Names : Import(s, n)
        PROVE  CommitInv' /\ AbstractStep
    BY <1>6, CrashShows, BeginShows, GivenUp
  <1>7. ASSUME NEW s \in Stores, NEW n \in Names, CreateProfile(s, n)
        PROVE  CommitInv' /\ AbstractStep
    BY <1>7, CreateShows, Added
  <1>8. ASSUME NEW s \in Stores, NEW i \in Ids, RemoveProfile(s, i)
        PROVE  CommitInv' /\ AbstractStep
    BY <1>8, RemoveShows, Removed
  <1>9. QED
    BY <1>3, <1>4, <1>5, <1>6, <1>7, <1>8 DEF Next

\* While no profile is removed that an import or its journal concerns, every profile that a
\* journal retires is at one place until the publication is marked, and every place of
\* recovery and of an import agrees with that (import_config, recover_import_transactions).
THEOREM CommitSound == ImportsUndisturbed => (Spec => []CommitInv)
  <1> SUFFICES ASSUME ImportsUndisturbed
               PROVE  Spec => []CommitInv
    OBVIOUS
  <1>1. Safe /\ [Next]_vars => Safe'
    BY SafeStep
  <1>2. Safe => CommitInv
    BY DEF Safe
  <1>3. QED
    BY <1>1, <1>2, SafeInitially, PTL DEF Spec

\* A journal that was written whole is never refused: what a crash leaves at any rename or
\* cleanup can be recovered (recover_import_transactions).
THEOREM WholeJournalAcceptedAlways == ImportsUndisturbed => (Spec => []WholeJournalAccepted)
  <1> SUFFICES ASSUME ImportsUndisturbed
               PROVE  Spec => []WholeJournalAccepted
    OBVIOUS
  <1>1. CommitInv => WholeJournalAccepted
    BY DEF CommitInv, ImportOf, WholeJournalAccepted, At
  <1>2. QED
    BY <1>1, CommitSound, PTL

\* An import replaces all that it saw in one step or changes nothing, whatever crashes and
\* whatever fails: the profiles that are there, or will be once recovery has run, change as
\* those of Profiles do (import_config, recover_import_transactions).
THEOREM ImportIsAtomic == ImportsUndisturbed => (Spec => ImplementsProfiles)
  <1> SUFFICES ASSUME ImportsUndisturbed
               PROVE  Spec => ImplementsProfiles
    OBVIOUS
  <1>1. Init => Abstract!Init
    <2> SUFFICES ASSUME Init
                 PROVE  Abstract!Init
      OBVIOUS
    <2>1. Journals = {}
      BY DEF Init, Journals
    <2>2. PICK n \in [Old -> Names] :
              config = [i \in Ids |-> IF i \in Old THEN Tree(n[i], 0) ELSE Missing]
      BY DEF Init
    <2>3. ASSUME NEW i \in Ids
          PROVE  Profile(i) \in Names \cup {NoName}
      BY <2>1, <2>2, ProfileBare DEF Absent, Shown, Tree
    <2>4. \A s \in Stores : Seen(s) = {}
      BY DEF Init, Down, Seen
    <2>5. QED
      BY <2>3, <2>4 DEF Abstract!Init
  <1>2. Safe /\ [Next]_vars => Safe' /\ [Abstract!Next]_(Abstract!vars)
    BY SafeStep DEF AbstractStep
  <1>3. QED
    BY <1>1, <1>2, SafeInitially, PTL DEF Spec, ImplementsProfiles, Abstract!Spec

\* What the profiles show bears a name or is not there: nothing damaged is among it.
Bearing == \A i \in Ids : Profile(i) \in Names \cup {NoName}

LEMMA BearingStep ==
    ASSUME Bearing, [Abstract!Next]_(Abstract!vars)
    PROVE  Bearing'
  <1> DEFINE P == [i \in Ids |-> Profile(i)]
             Q == [i \in Ids |-> Profile(i)']
             Bears(f) == \A i \in Ids : f[i] \in Names \cup {NoName}
  <1>1. Bears(P)
    BY DEF Bearing
  <1>2. CASE Abstract!Next
    <2>1. ASSUME NEW i \in Ids, NEW n \in Names, Abstract!Add(i, n)
          PROVE  Bears(Q)
      <3>1. Q = [P EXCEPT ![i] = n]
        BY <2>1 DEF Abstract!Add
      <3>2. QED
        BY <1>1, <3>1
    <2>2. ASSUME NEW i \in Ids, Abstract!Remove(i)
          PROVE  Bears(Q)
      <3>1. Q = [P EXCEPT ![i] = NoName]
        BY <2>2 DEF Abstract!Remove
      <3>2. QED
        BY <1>1, <3>1
    <2>3. ASSUME NEW s \in Stores, NEW i \in Ids, NEW n \in Names, Abstract!Import(s, i, n)
          PROVE  Bears(Q)
      <3>1. Q = [j \in Ids |-> IF j = i THEN n ELSE IF j \in Seen(s) THEN NoName ELSE P[j]]
        BY <2>3 DEF Abstract!Import
      <3>2. QED
        BY <1>1, <3>1
    <2>4. ASSUME NEW s \in Stores,
                 Abstract!GiveUp(s) \/ \E n \in Names : Abstract!BeginImport(s, n)
          PROVE  Bears(Q)
      <3>1. Q = P
        BY <2>4 DEF Abstract!GiveUp, Abstract!BeginImport
      <3>2. QED
        BY <1>1, <3>1
    <2>5. Bears(Q)
      BY <1>2, <2>1, <2>2, <2>3, <2>4 DEF Abstract!Next
    <2>6. QED
      BY <2>5 DEF Bearing
  <1>3. CASE UNCHANGED Abstract!vars
    <2>1. Q = P
      BY <1>3 DEF Abstract!vars
    <2>2. Bears(Q)
      BY <1>1, <2>1
    <2>3. QED
      BY <2>2 DEF Bearing
  <1>4. QED
    BY <1>2, <1>3

\* So no profile comes back that reclamation has begun to delete; what the run with
\* RemovesJournaled shows is due to the removal alone (recover_import_transactions).
THEOREM OnlyWholeRestoredUndisturbed == ImportsUndisturbed => (Spec => []OnlyWholeRestored)
  <1> SUFFICES ASSUME ImportsUndisturbed
               PROVE  Spec => []OnlyWholeRestored
    OBVIOUS
  <1>1. Abstract!Init => Bearing
    BY DEF Abstract!Init, Bearing
  <1>2. Bearing /\ [Abstract!Next]_(Abstract!vars) => Bearing'
    BY BearingStep
  <1>3. Bearing => OnlyWholeRestored
    BY ConfigImportAssumption DEF Bearing, OnlyWholeRestored, Profile, Shown
  <1>4. QED
    BY <1>1, <1>2, <1>3, ImportIsAtomic, PTL DEF ImplementsProfiles, Abstract!Spec
====
