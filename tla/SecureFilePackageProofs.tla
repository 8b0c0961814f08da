---------------------- MODULE SecureFilePackageProofs ----------------------
(***************************************************************************)
(* Theorems about SecureFilePackage, for any names and bounds: whatever    *)
(* becomes of the sources while a package is written, its index names what *)
(* is in it, what is extracted is all of it, and the search of an index in *)
(* order finds what is there.                                              *)
(***************************************************************************)
EXTENDS SecureFilePackage, WellFoundedInduction, FiniteSetTheorems, SequenceTheorems,
        TLAPS

USE PackageAssumption

(* A list, sorted or not, is a sequence of names that may be in a package.  *)
LEMMA ListsOfNames ==
  ASSUME NEW names \in Lists, NEW list \in Listed(names) \cup Sorted(names)
  PROVE  list \in Seq(FileNames)
<1>1. Cardinality(names) \in Nat
  BY FS_Subset, FS_CardinalityType
<1>2. list \in [1 .. Cardinality(names) -> FileNames]
  BY DEF Sorted, Listed
<1> QED BY <1>1, <1>2, IsASeq

(* A size within the range of an int is kept by it.                         *)
LEMMA FittingIsKept ==
  ASSUME NEW size \in Nat, Fits(size)
  PROVE  Narrow(size) = size
<1>1. size % IntRange = size
  BY DEF Fits
<1> QED BY <1>1 DEF Narrow, Fits

LEMMA PackageInitInv == PackageInit => PackageInv
<1> SUFFICES ASSUME PackageInit PROVE PackageInv
  OBVIOUS
<1>1. << >> \in Seq(FileNames) /\ << >> \in Seq(Entries) /\ << >> \in Seq(Blocks)
  BY EmptySeq
<1>2. PackageTypeOK
  BY <1>1 DEF PackageInit, PackageTypeOK, NoPackage, Idle
<1> QED BY <1>2 DEF PackageInit, PackageInv, SourceInv, JobInv, WrittenInv, NoPackage

(* Names are left, or a file is within the loop, only while one is built.   *)
LEMMA NotIdle == job.list # << >> \/ job.reading => job # Idle
  BY DEF Idle

LEMMA EntryFacts ==
  ASSUME NEW kept \in {Clip[n] : n \in FileNames} \cup {""},
         NEW type \in {"file", "empty", "directory"}, NEW position \in Nat
  PROVE  /\ Entry(kept, type, position) \in Entries
         /\ Entry(kept, type, position).name = kept
         /\ Entry(kept, type, position).type = type
         /\ Entry(kept, type, position).position = position
  BY DEF Entry, Entries

(* An entry without a content leaves what the index says of contents.       *)
LEMMA ListsNoContent ==
  ASSUME NEW index \in Seq(Entries), NEW blocks \in Seq(Blocks),
         NEW e \in Entries, e.type # "file", ListsOneToOne(index, blocks)
  PROVE  ListsOneToOne(Append(index, e), blocks)
<1>1. /\ DOMAIN Append(index, e) = DOMAIN index \cup {Len(index) + 1}
      /\ Append(index, e)[Len(index) + 1] = e
      /\ \A i \in DOMAIN index : Append(index, e)[i] = index[i]
  BY AppendProperties
<1>2. FilesOf(Append(index, e)) = FilesOf(index)
  BY <1>1 DEF FilesOf
<1>3. \A i \in FilesOf(index) : Append(index, e)[i] = index[i]
  BY <1>1 DEF FilesOf
<1> QED BY <1>2, <1>3 DEF ListsOneToOne

(* An entry for the next content, and that content.                        *)
LEMMA ListsNextContent ==
  ASSUME NEW index \in Seq(Entries), NEW blocks \in Seq(Blocks),
         NEW e \in Entries, NEW b \in Blocks, ListsOneToOne(index, blocks),
         e.type = "file", e.name = Clip[b.name], e.position = Len(blocks) + 1
  PROVE  ListsOneToOne(Append(index, e), Append(blocks, b))
<1> DEFINE is == Append(index, e)
           bs == Append(blocks, b)
           last == Len(index) + 1
<1>1. /\ DOMAIN is = DOMAIN index \cup {last} /\ last \notin DOMAIN index
      /\ is[last] = e /\ \A i \in DOMAIN index : is[i] = index[i]
  BY AppendProperties
<1>2. /\ DOMAIN bs = DOMAIN blocks \cup {e.position} /\ e.position \notin DOMAIN blocks
      /\ bs[e.position] = b /\ \A n \in DOMAIN blocks : bs[n] = blocks[n]
  BY AppendProperties
<1>3. FilesOf(is) = FilesOf(index) \cup {last}
  BY <1>1 DEF FilesOf
<1>4. last \notin FilesOf(index) /\ \A i \in FilesOf(index) : is[i] = index[i]
  BY <1>1 DEF FilesOf
<1> HIDE DEF is, bs, last
<1>5. \A i \in FilesOf(index) :
        /\ index[i].position \in DOMAIN blocks
        /\ Clip[blocks[index[i].position].name] = index[i].name
  BY DEF ListsOneToOne
<1>6. \A i \in FilesOf(is) :
        /\ is[i].position \in DOMAIN bs
        /\ Clip[bs[is[i].position].name] = is[i].name
  BY <1>1, <1>2, <1>3, <1>4, <1>5
<1>7. \A i, j \in FilesOf(is) : is[i].position = is[j].position => i = j
  BY <1>1, <1>2, <1>3, <1>4, <1>5 DEF ListsOneToOne
<1>8. \A n \in DOMAIN bs : \E i \in FilesOf(is) : is[i].position = n
  BY <1>1, <1>2, <1>3, <1>4 DEF ListsOneToOne
<1> QED BY <1>6, <1>7, <1>8 DEF ListsOneToOne, is, bs

(* Only the names of the contents count.                                   *)
LEMMA ListsSameNames ==
  ASSUME NEW index, NEW blocks, NEW blocks2, ListsOneToOne(index, blocks),
         DOMAIN blocks2 = DOMAIN blocks,
         \A n \in DOMAIN blocks : blocks2[n].name = blocks[n].name
  PROVE  ListsOneToOne(index, blocks2)
  BY DEF ListsOneToOne

LEMMA CreateInv ==
  ASSUME PackageInv, NEW names \in Lists, NEW flagSorted \in BOOLEAN,
         NEW pw \in Passwords, CreateFromFiles(names, flagSorted, pw)
  PROVE  PackageInv'
<1> USE DEF PackageInv
<1>1. PICK list \in Listed(names) \cup Sorted(names) :
        job' = [list |-> list, index |-> << >>, reading |-> FALSE]
  BY DEF CreateFromFiles
<1>2. /\ package' = [password |-> pw, listed |-> FALSE, indexed |-> FALSE,
                     index |-> << >>, blocks |-> << >>]
      /\ UNCHANGED <<source, changes>>
  BY DEF CreateFromFiles, NoPackage
<1>3. PackageTypeOK'
  BY <1>1, <1>2, ListsOfNames, EmptySeq DEF PackageTypeOK
<1>4. ListsOneToOne(<< >>, << >>)
  BY DEF ListsOneToOne, FilesOf
<1> QED BY <1>1, <1>2, <1>3, <1>4 DEF SourceInv, JobInv, WrittenInv

LEMMA AddEntryInv ==
  ASSUME PackageInv, AddEntry
  PROVE  PackageInv'
<1> USE DEF PackageInv
<1> DEFINE name == Head(job.list)
<1>1. PICK type \in {"empty", "directory"}, kept \in {Clip[name], ""} :
        job' = [job EXCEPT !.list = Tail(@), !.index = Append(@, Entry(kept, type, 0))]
  BY DEF AddEntry
<1>2. /\ job.list # << >> /\ ~job.reading /\ job # Idle
      /\ UNCHANGED <<source, changes, package>>
  BY NotIdle DEF AddEntry
<1>3. name \in FileNames /\ Tail(job.list) \in Seq(FileNames)
  BY <1>2, HeadTailProperties DEF PackageTypeOK
<1>4. Entry(kept, type, 0) \in Entries /\ Entry(kept, type, 0).type # "file"
  <2>1. kept \in {Clip[n] : n \in FileNames} \cup {""}
    BY <1>3
  <2> QED BY <2>1, EntryFacts
<1>5. /\ job'.list = Tail(job.list) /\ job'.reading = FALSE
      /\ job'.index = Append(job.index, Entry(kept, type, 0))
      /\ job' \in [list : Seq(FileNames), index : Seq(Entries), reading : BOOLEAN]
  BY <1>1, <1>2, <1>3, <1>4, AppendProperties DEF PackageTypeOK
<1>6. PackageTypeOK'
  BY <1>2, <1>5 DEF PackageTypeOK
<1>7. ListsOneToOne(job'.index, package.blocks)
  <2>1. job.index \in Seq(Entries) /\ package.blocks \in Seq(Blocks)
    BY DEF PackageTypeOK
  <2>2. ListsOneToOne(job.index, package.blocks)
    BY <1>2 DEF JobInv
  <2> QED BY <1>4, <1>5, <2>1, <2>2, ListsNoContent
<1>8. JobInv'
  BY <1>2, <1>5, <1>7 DEF JobInv
<1> QED BY <1>2, <1>6, <1>8 DEF SourceInv, WrittenInv

LEMMA BeginFileInv ==
  ASSUME PackageInv, BeginFile
  PROVE  PackageInv'
<1> USE DEF PackageInv
<1> DEFINE name == Head(job.list)
           b == [name |-> name, size |-> source[name].size, version |-> 0, written |-> 0]
           e == Entry(Clip[name], "file", Len(package.blocks) + 1)
<1>1. /\ job.list # << >> /\ ~job.reading /\ job # Idle
      /\ source[name].type = "file"
      /\ job' = [job EXCEPT !.reading = TRUE, !.index = Append(@, e)]
      /\ package' = [package EXCEPT !.blocks = Append(@, b)]
      /\ UNCHANGED <<source, changes>>
  BY NotIdle DEF BeginFile, NextPosition
<1>2. name \in FileNames
  BY <1>1, HeadTailProperties DEF PackageTypeOK
<1>3. b \in Blocks /\ b.name = name /\ b.version = 0
  BY <1>2 DEF PackageTypeOK, Blocks
<1>4. Len(package.blocks) \in Nat
  BY LenProperties DEF PackageTypeOK
<1>5. e \in Entries /\ e.type = "file" /\ e.name = Clip[name]
      /\ e.position = Len(package.blocks) + 1
  <2> DEFINE next == Len(package.blocks) + 1
  <2>1. next \in Nat
    BY <1>4
  <2>2. Clip[name] \in {Clip[n] : n \in FileNames} \cup {""}
    BY <1>2
  <2> HIDE DEF name, next
  <2>3. /\ Entry(Clip[name], "file", next) \in Entries
        /\ Entry(Clip[name], "file", next).name = Clip[name]
        /\ Entry(Clip[name], "file", next).type = "file"
        /\ Entry(Clip[name], "file", next).position = next
    BY <2>1, <2>2 DEF Entry, Entries
  <2> QED BY <2>3 DEF next, name
<1> HIDE DEF name, b, e
<1>6. /\ job'.list = job.list /\ job'.reading = TRUE /\ job'.index = Append(job.index, e)
      /\ job' \in [list : Seq(FileNames), index : Seq(Entries), reading : BOOLEAN]
  BY <1>1, <1>5, AppendProperties DEF PackageTypeOK
<1>7. /\ package'.blocks = Append(package.blocks, b) /\ package'.indexed = package.indexed
      /\ package'.listed = package.listed
      /\ package' \in [password : Passwords \cup {NoPassword}, listed : BOOLEAN,
                       indexed : BOOLEAN, index : Seq(Entries), blocks : Seq(Blocks)]
  BY <1>1, <1>3, AppendProperties DEF PackageTypeOK
<1>8. PackageTypeOK'
  BY <1>1, <1>6, <1>7 DEF PackageTypeOK
<1>9. ListsOneToOne(job'.index, package'.blocks)
  BY <1>1, <1>3, <1>5, <1>6, <1>7, ListsNextContent DEF JobInv, PackageTypeOK
<1>10. /\ Len(package'.blocks) = Len(package.blocks) + 1
       /\ DOMAIN package'.blocks = DOMAIN package.blocks \cup {Len(package.blocks) + 1}
       /\ \A n \in DOMAIN package.blocks : package'.blocks[n] = package.blocks[n]
       /\ package'.blocks # << >>
  <2>1. package.blocks \in Seq(Blocks)
    BY DEF PackageTypeOK
  <2>2. Append(package.blocks, b) # << >>
    BY <1>3, <2>1, AppendProperties
  <2> QED BY <1>3, <1>7, <2>1, <2>2, AppendProperties
<1>11. \A n \in DOMAIN package'.blocks :
         package'.blocks[n].version > 0 \/ n = Len(package'.blocks)
  BY <1>1, <1>10 DEF JobInv
<1>12. JobInv'
  BY <1>1, <1>6, <1>7, <1>9, <1>10, <1>11 DEF JobInv, name
<1> QED BY <1>1, <1>7, <1>8, <1>12 DEF SourceInv, WrittenInv, JobInv

LEMMA CopyFileInv ==
  ASSUME PackageInv, CopyFile
  PROVE  PackageInv'
<1> USE DEF PackageInv
<1> DEFINE name == Head(job.list)
           n == Len(package.blocks)
           b == [package.blocks[n] EXCEPT !.version = source[name].version,
                                          !.written = source[name].size]
<1>1. /\ job.reading /\ job # Idle
      /\ job' = [job EXCEPT !.reading = FALSE, !.list = Tail(@)]
      /\ package' = [package EXCEPT !.blocks[n].version = source[name].version,
                                    !.blocks[n].written = source[name].size]
      /\ UNCHANGED <<source, changes>>
  BY NotIdle DEF CopyFile
<1>2. job.list # << >> /\ source[name].type = "file" /\ package.blocks # << >>
  BY <1>1 DEF JobInv
<1>3. name \in FileNames /\ Tail(job.list) \in Seq(FileNames)
  BY <1>2, HeadTailProperties DEF PackageTypeOK
<1>4. n \in DOMAIN package.blocks /\ DOMAIN package.blocks = 1 .. n /\ n \in Nat
  BY <1>2, EmptySeq, LenProperties DEF PackageTypeOK
<1>5. /\ package'.blocks = [package.blocks EXCEPT ![n] = b]
      /\ package'.indexed = package.indexed /\ package'.listed = package.listed
      /\ package'.password = package.password /\ package'.index = package.index
      /\ DOMAIN package' = DOMAIN package
  BY <1>1, <1>4 DEF PackageTypeOK
<1>6. /\ b \in Blocks /\ b.name = package.blocks[n].name /\ b.version > 0
  <2>1. package.blocks[n] \in Blocks
    BY <1>4, ElementOfSeq DEF PackageTypeOK
  <2>2. source[name].version \in Nat /\ source[name].size \in Nat
        /\ source[name].version > 0
    BY <1>2, <1>3 DEF PackageTypeOK, SourceInv
  <2> HIDE DEF n, name
  <2> QED BY <2>1, <2>2 DEF Blocks
<1> HIDE DEF b
<1>7. /\ package'.blocks \in Seq(Blocks) /\ DOMAIN package'.blocks = DOMAIN package.blocks
      /\ package'.blocks[n] = b
      /\ \A m \in DOMAIN package.blocks \ {n} : package'.blocks[m] = package.blocks[m]
  BY <1>4, <1>5, <1>6, ExceptSeq DEF PackageTypeOK
<1>8. package' \in [password : Passwords \cup {NoPassword}, listed : BOOLEAN,
                    indexed : BOOLEAN, index : Seq(Entries), blocks : Seq(Blocks)]
  BY <1>1, <1>7 DEF PackageTypeOK
<1>9. /\ job'.list = Tail(job.list) /\ job'.reading = FALSE /\ job'.index = job.index
      /\ job' \in [list : Seq(FileNames), index : Seq(Entries), reading : BOOLEAN]
  BY <1>1, <1>3 DEF PackageTypeOK
<1>10. PackageTypeOK'
  BY <1>1, <1>8, <1>9 DEF PackageTypeOK
<1>11. \A m \in DOMAIN package.blocks : package'.blocks[m].name = package.blocks[m].name
  BY <1>4, <1>6, <1>7
<1>12. ListsOneToOne(job'.index, package'.blocks)
  <2>1. ListsOneToOne(job.index, package.blocks)
    BY <1>1 DEF JobInv
  <2>2. ListsOneToOne(job.index, package'.blocks)
    BY <1>7, <1>11, <2>1, ListsSameNames
  <2> QED BY <1>9, <2>2
<1>13. \A m \in DOMAIN package'.blocks : package'.blocks[m].version > 0
  BY <1>1, <1>4, <1>6, <1>7 DEF JobInv
<1>14. ~package'.indexed /\ (package'.listed => job'.list = << >>)
  BY <1>1, <1>2, <1>5 DEF JobInv
<1>15. JobInv'
  BY <1>9, <1>12, <1>13, <1>14 DEF JobInv
<1> QED BY <1>1, <1>10, <1>14, <1>15 DEF SourceInv, WrittenInv

LEMMA FinishInv ==
  ASSUME PackageInv, Finish
  PROVE  PackageInv'
<1> USE DEF PackageInv
<1>1. /\ job # Idle /\ package.listed /\ job' = Idle
      /\ package' = [package EXCEPT !.indexed = TRUE, !.index = job.index]
      /\ UNCHANGED <<source, changes>>
  BY DEF Finish
<1>2. ~job.reading
  BY <1>1 DEF JobInv
<1>3. /\ package'.index = job.index /\ package'.blocks = package.blocks
      /\ package' \in [password : Passwords \cup {NoPassword}, listed : BOOLEAN,
                       indexed : BOOLEAN, index : Seq(Entries), blocks : Seq(Blocks)]
  BY <1>1 DEF PackageTypeOK
<1>4. PackageTypeOK'
  BY <1>1, <1>3, EmptySeq DEF PackageTypeOK, Idle
<1>5. WrittenInv'
  BY <1>1, <1>2, <1>3 DEF JobInv, WrittenInv
<1> QED BY <1>1, <1>4, <1>5 DEF JobInv, SourceInv

LEMMA ChangeInv ==
  ASSUME PackageInv, NEW name \in FileNames, NEW type \in {"file", "empty", "directory"},
         NEW size \in Sizes, Change(name, type, size)
  PROVE  PackageInv'
<1> USE DEF PackageInv
<1>1. /\ type = "file" \/ ~(job.reading /\ name = Head(job.list))
      /\ changes' = changes + 1
      /\ UNCHANGED <<package, job>>
  BY DEF Change
<1> DEFINE now == [type |-> type, size |-> size,
                   version |-> IF type = "file" THEN changes + 1 ELSE 0]
<1>2. source' = [source EXCEPT ![name] = now]
  BY DEF Change
<1>3. /\ now \in [type : {"file", "empty", "directory"}, version : Nat, size : Nat]
      /\ now.type = type /\ (type = "file" => now.version > 0)
  BY DEF PackageTypeOK
<1> HIDE DEF now
<1>4. PackageTypeOK'
  BY <1>1, <1>2, <1>3 DEF PackageTypeOK
<1>5. SourceInv'
  BY <1>2, <1>3 DEF SourceInv, PackageTypeOK
<1>6. job.list # << >> => Head(job.list) \in FileNames
  BY HeadTailProperties DEF PackageTypeOK
<1>7. JobInv'
  BY <1>1, <1>2, <1>3, <1>6 DEF JobInv, PackageTypeOK
<1> QED BY <1>1, <1>4, <1>5, <1>7 DEF WrittenInv

LEMMA PackageStepInv ==
  ASSUME PackageInv, [PackageNext]_packageVars
  PROVE  PackageInv'
<1> USE DEF PackageInv
<1>1. ASSUME UNCHANGED <<source, changes, package, job>> PROVE PackageInv'
  BY <1>1 DEF PackageTypeOK, SourceInv, JobInv, WrittenInv
<1>2. CASE WriteIndexHeader
  <2>1. /\ job.list = << >> /\ package' = [package EXCEPT !.listed = TRUE]
        /\ UNCHANGED <<source, changes, job>>
    BY <1>2 DEF WriteIndexHeader
  <2>2. PackageTypeOK' /\ package'.blocks = package.blocks
        /\ package'.indexed = package.indexed /\ package'.index = package.index
    BY <2>1 DEF PackageTypeOK
  <2> QED BY <2>1, <2>2 DEF SourceInv, JobInv, WrittenInv
<1>3. CASE StopCreating
  <2>1. job' = Idle /\ UNCHANGED <<source, changes, package>>
    BY <1>3 DEF StopCreating
  <2>2. PackageTypeOK'
    BY <2>1, EmptySeq DEF PackageTypeOK, Idle
  <2> QED BY <2>1, <2>2 DEF SourceInv, JobInv, WrittenInv
<1>4. ASSUME NEW pw \in Passwords, OpenPackage(pw) PROVE PackageInv'
  BY <1>1, <1>4 DEF OpenPackage
<1>5. CASE Extract
  BY <1>1, <1>5 DEF Extract
<1>6. CASE UNCHANGED packageVars
  BY <1>1, <1>6 DEF packageVars
<1> QED BY <1>2, <1>3, <1>4, <1>5, <1>6, CreateInv, AddEntryInv, BeginFileInv, CopyFileInv,
           FinishInv, ChangeInv DEF PackageNext

LEMMA PackageInductive == PackageSpec => []PackageInv
  BY PackageInitInv, PackageStepInv, PTL DEF PackageSpec

(* However sources come, go and change while a package is written, and      *)
(* wherever it stops: the index, when it is there, names what was written,  *)
(* each file by its position and no two by one.                             *)
THEOREM IndexIsWritten == PackageSpec => []IndexedIsWritten
<1>1. ASSUME PackageInv PROVE IndexedIsWritten
  <2> SUFFICES ASSUME package.indexed PROVE IndexedIsWritten
    BY DEF IndexedIsWritten
  <2> DEFINE files == FilesOf(package.index)
             positions == {package.index[i].position : i \in files}
             at == [i \in files |-> package.index[i].position]
  <2>1. /\ ListsOneToOne(package.index, package.blocks)
        /\ \A n \in DOMAIN package.blocks : package.blocks[n].version > 0
    BY <1>1 DEF PackageInv, WrittenInv
  <2>2. IsFiniteSet(files)
    <3>1. /\ Len(package.index) \in Nat /\ DOMAIN package.index = 1 .. Len(package.index)
      BY <1>1, LenProperties DEF PackageInv, PackageTypeOK
    <3>2. IsFiniteSet(1 .. Len(package.index))
      BY <3>1, FS_Interval
    <3> QED BY <3>1, <3>2, FS_Subset DEF FilesOf
  <2>3. at \in Bijection(files, positions)
    BY <2>1 DEF ListsOneToOne, Bijection, Injection, IsInjective, Surjection
  <2>4. Cardinality(positions) = Cardinality(files)
    BY <2>2, <2>3, FS_Bijection DEF ExistsBijection
  <2> QED BY <2>1, <2>4 DEF IndexedIsWritten, ListsOneToOne
<1> QED BY <1>1, PackageInductive, PTL

(* Whatever name the index keeps of a file, and whatever else could not be  *)
(* written: an extraction that ends has written each content of a whole     *)
(* package whose size an int holds, in full, under the name it was given.   *)
THEOREM ExtractionIsFull == PackageSpec => ExtractedInFull
<1> DEFINE Extracted(b) ==
      \/ NameRead(b.name) \in target'.failed
      \/ \E t \in target'.files :
           /\ t.name = NameRead(b.name) /\ t.size = b.size
           /\ b.written >= b.size => t.version = b.version
<1>1. ASSUME PackageInv, [PackageNext]_packageVars,
             target' # target, target'.done, package.indexed, password = package.password,
             NEW b \in Range(package.blocks), b.size > 0, Fits(b.size)
      PROVE  Extracted(b)
  <2>1. Extract
    BY <1>1 DEF PackageNext, CreateFromFiles, AddEntry, BeginFile, CopyFile, Untouched,
      WriteIndexHeader, Finish, StopCreating, Change, OpenPackage, packageVars
  <2>2. Index = package.index
    BY <1>1 DEF Index
  <2> DEFINE read(i) == ReadFile(package.index[i].position)
             all == Extractable(Len(package.index))
  <2>3. PICK failed \in SUBSET all :
          target' = [done |-> TRUE, files |-> {read(i) : i \in all \ failed},
                     failed |-> {read(i).name : i \in failed}]
    <3>1. PICK last \in DOMAIN Index \cup {0}, done \in BOOLEAN :
            /\ done => last = Len(Index)
            /\ \E failed \in SUBSET Extractable(last) :
                 target' = [done |-> done,
                            files |-> {ReadFile(Index[i].position) :
                                         i \in Extractable(last) \ failed},
                            failed |-> {ReadFile(Index[i].position).name : i \in failed}]
      BY <2>1 DEF Extract
    <3>2. done = TRUE
      BY <1>1, <3>1
    <3>3. last = Len(package.index)
      BY <2>2, <3>1, <3>2
    <3>4. PICK failed \in SUBSET all :
            target' = [done |-> done,
                       files |-> {ReadFile(Index[i].position) : i \in all \ failed},
                       failed |-> {ReadFile(Index[i].position).name : i \in failed}]
      BY <3>1, <3>3
    <3> QED BY <2>2, <3>2, <3>4
  <2>4. PICK n \in DOMAIN package.blocks : package.blocks[n] = b
    BY <1>1 DEF Range
  <2>5. PICK i \in FilesOf(package.index) : package.index[i].position = n
    BY <1>1 DEF PackageInv, WrittenInv, ListsOneToOne
  <2>6. b \in Blocks
    BY <1>1, <2>4, ElementOfSeq DEF PackageInv, PackageTypeOK
  <2>7. /\ read(i).size = b.size /\ read(i).name = NameRead(b.name)
        /\ b.written >= b.size => read(i).version = b.version
    BY <1>1, <2>4, <2>5, <2>6, FittingIsKept DEF ReadFile, Blocks
  <2>8. i \in all
    <3>1. /\ DOMAIN package.index = 1 .. Len(package.index)
          /\ DOMAIN package.blocks = 1 .. Len(package.blocks)
      BY <1>1, LenProperties DEF PackageInv, PackageTypeOK
    <3> QED BY <1>1, <2>2, <2>4, <2>5, <2>7, <3>1 DEF FilesOf, Extractable
  <2>9. CASE i \in failed
    BY <2>3, <2>7, <2>9
  <2>10. CASE i \notin failed
    <3>1. read(i) \in target'.files
      BY <2>3, <2>8, <2>10
    <3> QED BY <2>7, <3>1
  <2> QED BY <2>9, <2>10
<1>2. PackageInv /\ [PackageNext]_packageVars =>
        [target' # target /\ target'.done /\ package.indexed /\ password = package.password =>
           \A b \in Range(package.blocks) :
             b.size > 0 /\ Fits(b.size) => Extracted(b)]_packageVars
  BY <1>1
<1> QED BY <1>2, PackageInductive, PTL DEF PackageSpec, ExtractedInFull

-----------------------------------------------------------------------------
(* The search *)

(* Each set of numbers has a least: what holds of the narrowest intervals,  *)
(* and of each interval if of all that are narrower, holds of every one.    *)
LEMMA LessOnNat == IsWellFoundedOn({ss \in Nat \X Nat : ss[1] < ss[2]}, Nat)
  BY NatLessThanWellFounded DEF OpToRel

LEMMA LeastNumber ==
  ASSUME NEW T, T \subseteq Nat, T # {}
  PROVE  \E m \in T : \A n \in T : m <= n
<1> DEFINE R == {ss \in Nat \X Nat : ss[1] < ss[2]}
<1>1. PICK m \in T : \A n \in T : <<n, m>> \notin R
  <2> IsWellFoundedOn(R, Nat)
    BY LessOnNat
  <2> HIDE DEF R
  <2> QED BY WFMin
<1>2. \A n \in T : ~(n < m)
  BY <1>1
<1> QED BY <1>2

Width(p) == p[2] - p[1]

(* Names have places of their own in the order of the search, "" the first. *)
LEMMA OrderOfNames ==
  \A name \in Range(SearchOrder) :
    /\ name # "" /\ Order(name) \in Nat /\ Order(name) # 0
    /\ SearchOrder[Order(name)] = name
<1> SUFFICES ASSUME NEW name \in Range(SearchOrder)
             PROVE  /\ name # "" /\ Order(name) \in Nat /\ Order(name) # 0
                    /\ SearchOrder[Order(name)] = name
  OBVIOUS
<1>1. name # ""
  BY SearchAssumption
<1>2. PICK i \in DOMAIN SearchOrder : SearchOrder[i] = name
  BY DEF Range
<1>3. /\ Order(name) \in DOMAIN SearchOrder
      /\ SearchOrder[Order(name)] = name
  BY <1>1, <1>2 DEF Order, Rank
<1>4. DOMAIN SearchOrder = 1 .. Len(SearchOrder) /\ Len(SearchOrder) \in Nat
  <2> DEFINE S == STRING
  <2>1. SearchOrder \in Seq(S)
    BY SearchAssumption
  <2> HIDE DEF S
  <2> QED BY <2>1, LenProperties
<1>5. Order(name) \in Nat /\ Order(name) # 0
  <2> DEFINE o == Order(name)
             len == Len(SearchOrder)
  <2>1. o \in 1 .. len /\ len \in Nat
    BY <1>3, <1>4
  <2> HIDE DEF o, len
  <2>2. o \in Nat /\ o # 0
    BY <2>1
  <2> QED BY <2>2 DEF o
<1> QED BY <1>1, <1>3, <1>5

LEMMA OrderIsOneToOne ==
  ASSUME NEW m, NEW n, m \in Range(SearchOrder), n = "" \/ n \in Range(SearchOrder)
  PROVE  /\ Order(m) \in Nat /\ Order(n) \in Nat
         /\ Order(m) = Order(n) <=> m = n
<1> DEFINE om == Order(m)
           on == Order(n)
<1>1. m # "" /\ om \in Nat /\ om # 0 /\ SearchOrder[om] = m
  BY OrderOfNames
<1>2. CASE n = ""
  <2>1. on = 0
    BY <1>2 DEF Order
  <2>2. m # n
    BY <1>1, <1>2
  <2> HIDE DEF om, on
  <2>3. on \in Nat /\ om # on
    BY <1>1, <2>1
  <2> QED BY <1>1, <2>2, <2>3 DEF om, on
<1>3. CASE n \in Range(SearchOrder)
  <2>1. on \in Nat /\ SearchOrder[on] = n
    BY <1>3, OrderOfNames
  <2>2. m = n => om = on
    OBVIOUS
  <2> HIDE DEF om, on
  <2>3. om = on <=> m = n
    BY <1>1, <2>1, <2>2
  <2> QED BY <1>1, <2>1, <2>3 DEF om, on
<1> QED BY <1>2, <1>3

(* The half that is left of an interval is narrower.                       *)
LEMMA HalfFacts ==
  ASSUME NEW index, Len(index) \in Nat, NEW name, NEW p \in Intervals(index)
  PROVE  /\ Middle(p) \in p[1] .. p[2] /\ Middle(p) + 1 \in 1 .. Len(index)
         /\ Width(p) \in Nat
         /\ p[1] # p[2] =>
              /\ Middle(p) < p[2]
              /\ Half(index, name, p) \in Intervals(index)
              /\ Width(Half(index, name, p)) < Width(p)
<1> DEFINE len == Len(index)
<1>1. /\ p[1] \in 0 .. len - 1 /\ p[2] \in 0 .. len - 1 /\ p[1] <= p[2]
      /\ p = <<p[1], p[2]>>
  BY DEF Intervals
<1>2. Middle(p) \in p[1] .. p[2] /\ (p[1] # p[2] => Middle(p) < p[2])
  BY <1>1 DEF Middle
<1>3. ASSUME p[1] # p[2]
      PROVE  /\ Half(index, name, p) \in Intervals(index)
             /\ Width(Half(index, name, p)) < Width(p)
  <2> DEFINE mid == Middle(p)
             from == IF p[1] = mid THEN mid + 1 ELSE mid
  <2>1. Half(index, name, p) = <<from, p[2]>> \/ Half(index, name, p) = <<p[1], mid>>
    BY DEF Half
  <2>2. mid \in p[1] .. p[2] /\ mid < p[2]
    BY <1>2, <1>3
  <2>3. /\ from \in 0 .. len - 1 /\ mid \in 0 .. len - 1
        /\ from <= p[2] /\ from > p[1] /\ p[1] <= mid
    <3> HIDE DEF mid
    <3> QED BY <1>1, <2>2
  <2> HIDE DEF mid, from
  <2> QED BY <1>1, <2>1, <2>2, <2>3 DEF Intervals, Width
<1> QED BY <1>1, <1>2, <1>3 DEF Width

(* A turn of the loop, where f is what comes of the intervals behind it.    *)
Turn(index, name, f, p) ==
  IF Compare(index, name, Middle(p)) = 0 THEN Middle(p) + 1
  ELSE IF p[1] = p[2] THEN 0
  ELSE f[Half(index, name, p)]

(* The search ends: what it finds is defined up to any width.               *)
LEMMA FindExists ==
  ASSUME NEW index, Len(index) \in Nat, NEW name
  PROVE  \A n \in Nat : \E f :
           f = [p \in {q \in Intervals(index) : Width(q) < n} |-> Turn(index, name, f, p)]
<1> DEFINE Upto(n) == {q \in Intervals(index) : Width(q) < n}
           Ends(n, f) == f = [p \in Upto(n) |-> Turn(index, name, f, p)]
           T == {n \in Nat : ~\E f : Ends(n, f)}
<1> SUFFICES ASSUME T # {} PROVE FALSE
  OBVIOUS
<1>1. PICK m \in T : \A n \in T : m <= n
  <2> HIDE DEF T
  <2> T \subseteq Nat
    BY DEF T
  <2> QED BY LeastNumber
<1>2. m # 0
  <2>1. Upto(0) = {}
    <3>1. \A q \in Intervals(index) : Width(q) \in Nat
      BY HalfFacts
    <3>2. \A q \in Intervals(index) : ~(Width(q) < 0)
      BY <3>1
    <3> QED BY <3>2
  <2> DEFINE e == [p \in {} |-> 0]
  <2>2. Ends(0, e)
    BY <2>1
  <2>3. 0 \notin T
    BY <2>2
  <2> QED BY <2>3, <1>1
<1>3. m \in Nat /\ m - 1 \in Nat /\ m - 1 \notin T
  <2> m \in Nat
    OBVIOUS
  <2> HIDE DEF T
  <2> QED BY <1>1, <1>2
<1>4. PICK f : Ends(m - 1, f)
  BY <1>3
<1> DEFINE g == [p \in Upto(m) |-> Turn(index, name, f, p)]
<1>5. \A p \in Upto(m - 1) : p \in Upto(m) /\ g[p] = f[p]
  <2> SUFFICES ASSUME NEW p \in Upto(m - 1) PROVE p \in Upto(m) /\ g[p] = f[p]
    OBVIOUS
  <2>1. p \in Upto(m)
    BY <1>3, HalfFacts
  <2>2. g[p] = Turn(index, name, f, p)
    BY <2>1
  <2>3. f[p] = Turn(index, name, f, p)
    BY <1>4
  <2> QED BY <2>1, <2>2, <2>3
<1>6. ASSUME NEW p \in Upto(m) PROVE Turn(index, name, g, p) = Turn(index, name, f, p)
  <2>1. CASE p[1] = p[2]
    BY <2>1 DEF Turn
  <2>2. CASE p[1] # p[2]
    <3>1. Half(index, name, p) \in Upto(m - 1)
      <4> DEFINE h == Half(index, name, p)
      <4>1. h \in Intervals(index) /\ Width(h) < Width(p) /\ Width(p) < m
            /\ Width(p) \in Nat
        BY <2>2, HalfFacts
      <4>2. Width(h) \in Nat
        BY <4>1, HalfFacts
      <4> HIDE DEF h
      <4>3. Width(h) < m - 1
        BY <1>3, <4>1, <4>2
      <4> QED BY <4>1, <4>3 DEF h
    <3>2. g[Half(index, name, p)] = f[Half(index, name, p)]
      <4> HIDE DEF g, Upto
      <4> QED BY <1>5, <3>1
    <3> QED BY <3>2 DEF Turn
  <2> QED BY <2>1, <2>2
<1>7. Ends(m, g)
  <2> [p \in Upto(m) |-> Turn(index, name, g, p)] = [p \in Upto(m) |-> Turn(index, name, f, p)]
    <3> HIDE DEF g, Upto
    <3> QED BY <1>6
  <2> QED OBVIOUS
<1> QED BY <1>7

LEMMA FindTurn ==
  ASSUME NEW index, Len(index) \in Nat, NEW name, NEW p \in Intervals(index)
  PROVE  Find(index, name)[p] = Turn(index, name, Find(index, name), p)
<1> DEFINE all == {q \in Intervals(index) : Width(q) < Len(index)}
<1>1. all = Intervals(index)
  <2> SUFFICES ASSUME NEW q \in Intervals(index) PROVE Width(q) < Len(index)
    OBVIOUS
  <2> QED BY DEF Intervals, Width
<1>2. PICK f : f = [q \in Intervals(index) |-> Turn(index, name, f, q)]
  <2>1. \E f : f = [q \in all |-> Turn(index, name, f, q)]
    BY FindExists
  <2> HIDE DEF all
  <2> QED BY <1>1, <2>1
<1>3. Find(index, name) = [q \in Intervals(index) |-> Turn(index, name, Find(index, name), q)]
  BY <1>2 DEF Find, Turn
<1> QED BY <1>3

(* What an index has for names.                                            *)
Named(index) ==
  \A i \in 1 .. Len(index) : index[i].name = "" \/ index[i].name \in Range(SearchOrder)

LEMMA CompareFacts ==
  ASSUME NEW index, Len(index) \in Nat, Named(index),
         NEW name \in Range(SearchOrder), NEW p \in Intervals(index)
  PROVE  /\ Compare(index, name, Middle(p)) = 0 <=> index[Middle(p) + 1].name = name
         /\ Upper(Compare(index, name, Middle(p))) <=>
              Order(index[Middle(p) + 1].name) < Order(name)
         /\ Order(name) \in Nat /\ Order(index[Middle(p) + 1].name) \in Nat
<1> DEFINE other == index[Middle(p) + 1].name
           o == Order(name)
           oo == Order(other)
<1>1. Middle(p) + 1 \in 1 .. Len(index)
  BY HalfFacts
<1>2. other = "" \/ other \in Range(SearchOrder)
  BY <1>1 DEF Named
<1>3. o \in Nat /\ oo \in Nat /\ (o = oo <=> name = other)
  <2> HIDE DEF other
  <2> QED BY <1>2, OrderIsOneToOne
<1>4. Compare(index, name, Middle(p)) = o - oo
  BY DEF Compare
<1> HIDE DEF o, oo
<1>5. (o - oo = 0 <=> o = oo) /\ (Upper(o - oo) <=> oo < o)
  BY <1>3 DEF Upper
<1> QED BY <1>3, <1>4, <1>5 DEF o, oo

(* What the search finds has the name that it is for.                      *)
LEMMA FindIsOfName ==
  ASSUME NEW index, Len(index) \in Nat, Named(index),
         NEW name \in Range(SearchOrder), NEW p \in Intervals(index),
         Find(index, name)[p] # 0
  PROVE  index[Find(index, name)[p]].name = name
<1> DEFINE find == Find(index, name)
           Wrong(q) == find[q] # 0 /\ index[find[q]].name # name
           T == {Width(q) : q \in {r \in Intervals(index) : Wrong(r)}}
<1> SUFFICES ASSUME Wrong(p) PROVE FALSE
  OBVIOUS
<1>1. PICK m \in T : \A n \in T : m <= n
  <2>1. T \subseteq Nat /\ T # {}
    BY HalfFacts
  <2> HIDE DEF T
  <2> QED BY <2>1, LeastNumber
<1>2. PICK q \in Intervals(index) : Wrong(q) /\ m = Width(q)
  BY <1>1
<1>3. find[q] = Turn(index, name, find, q)
  BY FindTurn
<1>4. Compare(index, name, Middle(q)) # 0
  <2> SUFFICES ASSUME Compare(index, name, Middle(q)) = 0 PROVE FALSE
    OBVIOUS
  <2>1. find[q] = Middle(q) + 1
    BY <1>3 DEF Turn
  <2>2. index[Middle(q) + 1].name = name
    BY CompareFacts
  <2> QED BY <1>2, <2>1, <2>2
<1>5. q[1] # q[2] /\ find[q] = find[Half(index, name, q)]
  BY <1>2, <1>3, <1>4 DEF Turn
<1> DEFINE h == Half(index, name, q)
<1>6. h \in Intervals(index) /\ Width(h) < Width(q) /\ Width(h) \in Nat /\ Width(q) \in Nat
  BY <1>5, HalfFacts
<1>7. Width(h) \in T
  BY <1>2, <1>5, <1>6
<1> HIDE DEF T, h
<1> QED BY <1>1, <1>2, <1>6, <1>7

(* In an index that is in the order of the search, an entry of the name     *)
(* stays within the interval until it is found.                            *)
LEMMA HalfKeeps ==
  ASSUME NEW index, Len(index) \in Nat, Named(index), DOMAIN index = 1 .. Len(index),
         InSearchOrder(index),
         NEW name \in Range(SearchOrder), NEW p \in Intervals(index),
         NEW i \in p[1] .. p[2], index[i + 1].name = name,
         Compare(index, name, Middle(p)) # 0
  PROVE  /\ p[1] # p[2]
         /\ i \in Half(index, name, p)[1] .. Half(index, name, p)[2]
<1> DEFINE mid == Middle(p)
           at == index[mid + 1].name
<1>1. /\ p[1] \in 0 .. Len(index) - 1 /\ p[2] \in 0 .. Len(index) - 1
      /\ mid \in p[1] .. p[2] /\ mid + 1 \in 1 .. Len(index)
  BY HalfFacts DEF Intervals
<1>2. at # name
  BY CompareFacts
<1>3. /\ mid \in Nat /\ i \in Nat /\ i # mid /\ i + 1 \in 1 .. Len(index)
  <2> HIDE DEF mid
  <2> QED BY <1>1, <1>2 DEF mid
<1>4. at # "" /\ at \in Range(SearchOrder) /\ name # ""
  BY <1>1, OrderOfNames DEF InSearchOrder, Named
<1>5. Upper(Compare(index, name, mid)) <=> Rank(SearchOrder, at) < Rank(SearchOrder, name)
  BY <1>4, CompareFacts DEF Order
<1>6. /\ mid < i => Rank(SearchOrder, at) < Rank(SearchOrder, name)
      /\ i < mid => Rank(SearchOrder, name) < Rank(SearchOrder, at)
  <2>1. /\ mid + 1 < i + 1 => Rank(SearchOrder, at) < Rank(SearchOrder, name)
        /\ i + 1 < mid + 1 => Rank(SearchOrder, name) < Rank(SearchOrder, at)
    BY <1>1, <1>3 DEF InSearchOrder
  <2> HIDE DEF mid, at
  <2> QED BY <1>3, <2>1
<1>7. Order(name) \in Nat /\ Order(at) \in Nat
  BY CompareFacts
<1>8. Upper(Compare(index, name, mid)) <=> mid < i
  <2> DEFINE a == Rank(SearchOrder, at)
             b == Rank(SearchOrder, name)
  <2>1. a \in Nat /\ b \in Nat
    BY <1>4, <1>7 DEF Order
  <2>2. (mid < i => a < b) /\ (i < mid => b < a) /\ (Upper(Compare(index, name, mid)) <=> a < b)
    BY <1>5, <1>6
  <2> HIDE DEF a, b, mid
  <2> QED BY <1>3, <2>1, <2>2
<1>9. Half(index, name, p) = IF mid < i THEN <<IF p[1] = mid THEN mid + 1 ELSE mid, p[2]>>
                             ELSE <<p[1], mid>>
  BY <1>8 DEF Half
<1> HIDE DEF mid
<1>10. p[1] # p[2]
  BY <1>1, <1>3
<1>11. CASE mid < i
  <2>1. Half(index, name, p)[1] \in {mid, mid + 1} /\ Half(index, name, p)[2] = p[2]
    BY <1>9, <1>11
  <2> QED BY <1>1, <1>3, <1>10, <1>11, <2>1
<1>12. CASE i < mid
  <2>1. ~(mid < i)
    BY <1>3, <1>12
  <2>2. Half(index, name, p)[1] = p[1] /\ Half(index, name, p)[2] = mid
    BY <1>9, <2>1
  <2> QED BY <1>1, <1>3, <1>10, <1>12, <2>2
<1> QED BY <1>3, <1>11, <1>12

LEMMA FindInOrder ==
  ASSUME NEW index, Len(index) \in Nat, Named(index), DOMAIN index = 1 .. Len(index),
         InSearchOrder(index),
         NEW name \in Range(SearchOrder), NEW p \in Intervals(index),
         NEW i \in p[1] .. p[2], index[i + 1].name = name
  PROVE  Find(index, name)[p] # 0
<1> DEFINE find == Find(index, name)
           Missed(q) == find[q] = 0 /\ i \in q[1] .. q[2]
           T == {Width(q) : q \in {r \in Intervals(index) : Missed(r)}}
<1> SUFFICES ASSUME Missed(p) PROVE FALSE
  OBVIOUS
<1>1. PICK m \in T : \A n \in T : m <= n
  <2>1. T \subseteq Nat /\ T # {}
    BY HalfFacts
  <2> HIDE DEF T
  <2> QED BY <2>1, LeastNumber
<1>2. PICK q \in Intervals(index) : Missed(q) /\ m = Width(q)
  BY <1>1
<1>3. find[q] = Turn(index, name, find, q)
  BY FindTurn
<1>4. Compare(index, name, Middle(q)) # 0
  <2> SUFFICES ASSUME Compare(index, name, Middle(q)) = 0 PROVE FALSE
    OBVIOUS
  <2>1. find[q] = Middle(q) + 1 /\ Middle(q) + 1 \in 1 .. Len(index)
    BY <1>3, HalfFacts DEF Turn
  <2> DEFINE n == Middle(q) + 1
  <2>2. n \in 1 .. Len(index) /\ n = 0
    BY <1>2, <2>1
  <2> HIDE DEF n
  <2> QED BY <2>2
<1> DEFINE h == Half(index, name, q)
<1>5. q[1] # q[2] /\ i \in h[1] .. h[2]
  BY <1>2, <1>4, HalfKeeps
<1>6. find[h] = 0
  BY <1>2, <1>3, <1>4, <1>5 DEF Turn
<1>7. h \in Intervals(index) /\ Width(h) < Width(q) /\ Width(h) \in Nat /\ Width(q) \in Nat
  BY <1>5, HalfFacts
<1>8. Width(h) \in T
  BY <1>5, <1>6, <1>7
<1> HIDE DEF T, h
<1> QED BY <1>1, <1>2, <1>7, <1>8

(* Whatever a package lists, its search finds no other entry than one of    *)
(* the name, and each that there is if the list is in the search's order.   *)
THEOREM SearchFinds == PackageSpec => []FoundWhenOrdered
<1>1. ASSUME PackageInv PROVE FoundWhenOrdered
  <2> DEFINE index == package.index
             len == Len(index)
             all == <<0, len - 1>>
  <2>1. /\ index \in Seq(Entries) /\ len \in Nat /\ DOMAIN index = 1 .. len
        /\ \A i \in 1 .. len : index[i] \in Entries
    BY <1>1, LenProperties, ElementOfSeq DEF PackageInv, PackageTypeOK
  <2>2. Named(index)
    BY <2>1, SearchAssumption DEF Named, Entries
  <2>3. index # << >> => len # 0 /\ all \in Intervals(index)
    <3> SUFFICES ASSUME index # << >> PROVE len # 0 /\ all \in Intervals(index)
      OBVIOUS
    <3>1. len # 0
      BY <2>1, EmptySeq
    <3> HIDE DEF index
    <3>2. 0 \in 0 .. len - 1 /\ len - 1 \in 0 .. len - 1
      BY <2>1, <3>1
    <3> QED BY <3>1, <3>2 DEF Intervals
  <2> SUFFICES ASSUME NEW name \in Range(SearchOrder)
               PROVE  LET i == FindFile(index, name)
                      IN /\ i # 0 => index[i].name = name
                         /\ i = 0 /\ InSearchOrder(index) =>
                              \A e \in Range(index) : e.name # name
    BY DEF FoundWhenOrdered
  <2> HIDE DEF index
  <2>4. CASE index = << >>
    <3>1. FindFile(index, name) = 0 /\ Range(index) = {}
      BY <2>4 DEF FindFile, Range
    <3> QED BY <3>1
  <2>5. CASE index # << >>
    <3>1. FindFile(index, name) = Find(index, name)[all]
      BY <2>5 DEF FindFile
    <3>2. FindFile(index, name) # 0 => index[FindFile(index, name)].name = name
      BY <2>1, <2>2, <2>3, <2>5, <3>1, FindIsOfName
    <3>3. ASSUME FindFile(index, name) = 0, InSearchOrder(index),
                 NEW e \in Range(index), e.name = name
          PROVE  FALSE
      <4>1. PICK n \in 1 .. len : index[n] = e
        BY <2>1 DEF Range
      <4> DEFINE i == n - 1
      <4>2. i \in all[1] .. all[2] /\ i + 1 = n
        BY <2>1, <4>1
      <4>3. index[i + 1].name = name
        BY <3>3, <4>1, <4>2
      <4> HIDE DEF i, all
      <4> QED BY <2>1, <2>2, <2>3, <2>5, <3>1, <3>3, <4>2, <4>3, FindInOrder
    <3> QED BY <3>2, <3>3
  <2> QED BY <2>4, <2>5
<1> QED BY <1>1, PackageInductive, PTL

=============================================================================
