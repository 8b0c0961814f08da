-------------------------- MODULE SecureFilePackage --------------------------
(***************************************************************************)
(* SecureFilePackage: a package is written file by file and gets its index *)
(* at the end; it is opened with a password, searched, and extracted.      *)
(* The contents of a file are a version and a size; a package is a header, *)
(* an index and the blocks of the contents, at their positions.            *)
(***************************************************************************)
EXTENDS Integers, FiniteSets, Sequences, SequencesExt, Functions

CONSTANTS
  FileNames,     \* of source files
  Lists,         \* what a package may be made of
  PlainOrder,    \* names as a sequence in the order of their characters
  SearchOrder,   \* and in the order findFile searches, with '/' as a tab
  Clip,          \* what is left of a name in the index
  Garbled,       \* names that have fewer characters than bytes
  Passwords,
  IntRange,      \* how many values an int has: 2^32
  Sizes,         \* of source files
  MaxChanges     \* bound: changes of the source files

ASSUME PackageAssumption ==
  /\ IsFiniteSet(FileNames) /\ Lists \subseteq SUBSET FileNames
  /\ IntRange \in Nat \ {0} /\ 0 \in Sizes /\ Sizes \subseteq Nat

ASSUME SearchAssumption ==
  /\ SearchOrder \in Seq(STRING) /\ "" \notin Range(SearchOrder)
  /\ \A n \in FileNames : Clip[n] \in Range(SearchOrder)

NoPassword == "none"
Garbage == "garbage"          \* a name of bytes that were not written

Missing == [type |-> "empty", version |-> 0, size |-> 0]
NoPackage == [password |-> NoPassword, listed |-> FALSE, indexed |-> FALSE,
              index |-> << >>, blocks |-> << >>]
Idle == [list |-> << >>, index |-> << >>, reading |-> FALSE]
Untouched == [done |-> FALSE, files |-> {}, failed |-> {}]

VARIABLES
  source,        \* the source directory: name -> [type, version, size]
  changes,
  package,       \* the file: its password, whether the header of the index
                 \* and the index are written, the index and the contents
  job,           \* createFromFiles: names left, indexes, within a file or not
  password,      \* m_flagPassword, m_password; NoPassword when closed
  target         \* of the last extract of this package: what it returned,
                 \* the files it wrote, the names of those it could not write

packageVars == <<source, changes, package, job, password, target>>

Rank(order, name) == CHOOSE i \in DOMAIN order : order[i] = name

(* The names in any order, and what List::sort leaves of them.              *)
Listed(names) == {s \in [1 .. Cardinality(names) -> names] : Range(s) = names}

Sorted(names) ==
  {s \in Listed(names) :
     \A i, j \in DOMAIN s : i < j => Rank(PlainOrder, s[i]) < Rank(PlainOrder, s[j])}

(* The files are given: the headers are written, and space for the index.   *)
(* A list said to be sorted, as create says of the one it takes from the    *)
(* directory, keeps its order, whatever that is.                            *)
CreateFromFiles(names, flagSorted, pw) ==
  /\ job = Idle
  /\ \E list \in IF flagSorted THEN Listed(names) ELSE Sorted(names) :
       job' = [list |-> list, index |-> << >>, reading |-> FALSE]
  /\ package' = [NoPackage EXCEPT !.password = pw]
  /\ target' = Untouched
  /\ UNCHANGED <<source, changes, password>>

Entry(name, type, position) == [name |-> name, type |-> type, position |-> position]

(* A source that is not there gets an entry without a name; one that cannot *)
(* be opened gets an empty entry with its name, and a directory just that.  *)
AddEntry ==
  /\ job.list # << >> /\ ~job.reading
  /\ \E type \in {"empty", "directory"} :
       /\ source[Head(job.list)].type \in {type, "file"}
       /\ source[Head(job.list)].type = "file" => type = "empty"
       /\ LET name == Head(job.list)
              kept == IF source[name].type = "empty" THEN "" ELSE Clip[name]
          IN job' = [job EXCEPT !.list = Tail(@),
                                !.index = Append(@, Entry(kept, type, 0))]
  /\ UNCHANGED <<source, changes, package, password, target>>

(* Mutant: the position is that of the block before.                        *)
LastPosition(blocks) == Len(blocks)

NextPosition(blocks) == Len(blocks) + 1

(* The header of a content is written with the size that the file has now,  *)
BeginFile ==
  LET name == Head(job.list)
      block == [name |-> name, size |-> source[name].size, version |-> 0, written |-> 0]
  IN /\ job.list # << >> /\ ~job.reading
     /\ source[name].type = "file"
     /\ job' = [job EXCEPT !.reading = TRUE,
          !.index = Append(@, Entry(Clip[name], "file", NextPosition(package.blocks)))]
     /\ package' = [package EXCEPT !.blocks = Append(@, block)]
     /\ UNCHANGED <<source, changes, password, target>>

(* and the content as it is read behind it.                                 *)
CopyFile ==
  LET name == Head(job.list)
      n == Len(package.blocks)
  IN /\ job.reading
     /\ job' = [job EXCEPT !.reading = FALSE, !.list = Tail(@)]
     /\ package' = [package EXCEPT !.blocks[n].version = source[name].version,
                                   !.blocks[n].written = source[name].size]
     /\ UNCHANGED <<source, changes, password, target>>

(* The header of the index, with the number of its entries, is written      *)
(* again, and then the index.                                               *)
WriteIndexHeader ==
  /\ job # Idle /\ job.list = << >> /\ ~package.listed
  /\ package' = [package EXCEPT !.listed = TRUE]
  /\ UNCHANGED <<source, changes, job, password, target>>

Finish ==
  /\ job # Idle /\ package.listed
  /\ package' = [package EXCEPT !.indexed = TRUE, !.index = job.index]
  /\ job' = Idle
  /\ UNCHANGED <<source, changes, password, target>>

(* The user stops it, a write fails or the program ends.                    *)
StopCreating ==
  /\ job # Idle
  /\ job' = Idle
  /\ UNCHANGED <<source, changes, package, password, target>>

(* Someone else writes to the source directory.  (A file that is removed    *)
(* while it is copied stays open to the end.)                               *)
Change(name, type, size) ==
  /\ changes < MaxChanges
  /\ type # "file" => size = 0
  /\ type = "file" \/ ~(job.reading /\ name = Head(job.list))
  /\ changes' = changes + 1
  /\ source' = [source EXCEPT ![name] =
       [type |-> type, size |-> size,
        version |-> IF type = "file" THEN changes + 1 ELSE 0]]
  /\ UNCHANGED <<package, job, password, target>>

(* open compares the password with the header's and leaves the rest.        *)
OpenPackage(pw) ==
  /\ job = Idle
  /\ package.password = pw /\ pw # NoPassword
  /\ password' = pw
  /\ UNCHANGED <<source, changes, package, job, target>>

(* getFiles: without its header the index of a plain package has no files,  *)
(* and without the index any; in a package with a password both decrypt to  *)
(* anything, as does what was written since with another password.          *)
Index ==
  IF package.password # password THEN <<Entry(Garbage, "file", 0)>>
  ELSE IF package.indexed THEN package.index
  ELSE IF password = "" /\ ~package.listed THEN << >>
  ELSE <<Entry(Garbage, "file", 0)>>

(* A size of 64 bits as an int: that of a large content is another, or      *)
(* negative.                                                                *)
Narrow(size) ==
  LET low == size % IntRange IN IF 2 * low < IntRange THEN low ELSE low - IntRange

Fits(size) == 2 * size < IntRange

(* The name in the header of a content, as readFile gets it.                *)
NameRead(name) == IF name \in Garbled THEN Garbage ELSE name

(* Mutant: a content has the name that the index has.                       *)
ReadFileAsIndexed(position) ==
  LET b == package.blocks[position]
  IN [name |-> Clip[b.name], version |-> b.version, size |-> Narrow(b.size)]

(* readFile: as many bytes as an int says; a content that was written       *)
(* shorter reads on into what is behind it.                                 *)
ReadFile(position) ==
  LET b == package.blocks[position]
      fileSize == Narrow(b.size)
  IN [name |-> NameRead(b.name),
      version |-> IF b.written >= fileSize THEN b.version ELSE 0,
      size |-> fileSize]

(* Mutant: a name that compares greater is looked for in the lower half.    *)
UpperHalf(cmp) == cmp < 0

Upper(cmp) == cmp > 0

(* findFile compares names as its own order has them, "" before any; the    *)
(* entries from p[1] to p[2], counted from 0, are those that are left.      *)
Order(name) == IF name = "" THEN 0 ELSE Rank(SearchOrder, name)
Compare(index, name, mid) == Order(name) - Order(index[mid + 1].name)

Intervals(index) ==
  {p \in (0 .. Len(index) - 1) \X (0 .. Len(index) - 1) : p[1] <= p[2]}

Middle(p) == (p[1] + p[2]) \div 2

Half(index, name, p) ==
  LET mid == Middle(p)
  IN IF Upper(Compare(index, name, mid))
     THEN <<IF p[1] = mid THEN mid + 1 ELSE mid, p[2]>>
     ELSE <<p[1], mid>>

Find(index, name) ==
  LET find[p \in Intervals(index)] ==
        IF Compare(index, name, Middle(p)) = 0 THEN Middle(p) + 1
        ELSE IF p[1] = p[2] THEN 0
        ELSE find[Half(index, name, p)]
  IN find

FindFile(index, name) ==
  IF index = << >> THEN 0 ELSE Find(index, name)[<<0, Len(index) - 1>>]

(* The entries of files up to the last one looked at: a content that is     *)
(* empty, or whose size is negative as an int, has no memory and is passed. *)
Extractable(last) ==
  {i \in DOMAIN Index : /\ i <= last /\ Index[i].type = "file" /\ Index[i].position > 0
                        /\ ReadFile(Index[i].position).size > 0}

(* extract: the files of the index one by one.  Nobody asks whether a file  *)
(* could be written; the progress, asked behind each, may end it.           *)
Extract ==
  /\ job = Idle /\ password # NoPassword /\ password = package.password
  /\ \E last \in DOMAIN Index \cup {0}, done \in BOOLEAN :
       LET files == Extractable(last)
           read(i) == ReadFile(Index[i].position)
       IN /\ IF done THEN last = Len(Index) ELSE last \in files
          /\ \E failed \in SUBSET files :
               target' = [done |-> done, files |-> {read(i) : i \in files \ failed},
                          failed |-> {read(i).name : i \in failed}]
  /\ UNCHANGED <<source, changes, package, job, password>>

PackageInit ==
  /\ source = [n \in FileNames |-> [type |-> "file", version |-> 1, size |-> 1]]
  /\ changes = 1
  /\ package = NoPackage
  /\ job = Idle
  /\ password = NoPassword
  /\ target = Untouched

PackageNext ==
  \/ \E names \in Lists, flagSorted \in BOOLEAN, pw \in Passwords :
       CreateFromFiles(names, flagSorted, pw)
  \/ AddEntry \/ BeginFile \/ CopyFile \/ WriteIndexHeader \/ Finish \/ StopCreating
  \/ \E name \in FileNames, type \in {"file", "empty", "directory"}, size \in Sizes :
       Change(name, type, size)
  \/ \E pw \in Passwords : OpenPackage(pw)
  \/ Extract

PackageSpec == PackageInit /\ [][PackageNext]_packageVars

-----------------------------------------------------------------------------
(* The types, and what every step keeps of an index and the contents.  While *)
(* it is built, and as it is written: the files it lists have the contents   *)
(* of their names, each one and all of them.  A content that is copied has   *)
(* a version, as its source stays a file until it is.                        *)
Entries == [name : {Clip[n] : n \in FileNames} \cup {""},
            type : {"file", "empty", "directory"}, position : Nat]
Blocks == [name : FileNames, size : Nat, version : Nat, written : Nat]

PackageTypeOK ==
  /\ source \in [FileNames -> [type : {"file", "empty", "directory"},
                                version : Nat, size : Nat]]
  /\ changes \in Nat
  /\ package \in [password : Passwords \cup {NoPassword}, listed : BOOLEAN,
                  indexed : BOOLEAN, index : Seq(Entries), blocks : Seq(Blocks)]
  /\ job \in [list : Seq(FileNames), index : Seq(Entries), reading : BOOLEAN]

FilesOf(index) == {i \in DOMAIN index : index[i].type = "file"}

ListsOneToOne(index, blocks) ==
  /\ \A i \in FilesOf(index) :
       /\ index[i].position \in DOMAIN blocks
       /\ Clip[blocks[index[i].position].name] = index[i].name
  /\ \A i, j \in FilesOf(index) : index[i].position = index[j].position => i = j
  /\ \A n \in DOMAIN blocks : \E i \in FilesOf(index) : index[i].position = n

SourceInv == \A n \in FileNames : source[n].type = "file" => source[n].version > 0

JobInv ==
  job # Idle =>
    /\ ~package.indexed
    /\ package.listed => job.list = << >>
    /\ ListsOneToOne(job.index, package.blocks)
    /\ \A n \in DOMAIN package.blocks :
         package.blocks[n].version > 0 \/ (job.reading /\ n = Len(package.blocks))
    /\ job.reading => /\ job.list # << >> /\ source[Head(job.list)].type = "file"
                      /\ package.blocks # << >>

WrittenInv ==
  package.indexed =>
    /\ ListsOneToOne(package.index, package.blocks)
    /\ \A n \in DOMAIN package.blocks : package.blocks[n].version > 0

PackageInv == PackageTypeOK /\ SourceInv /\ JobInv /\ WrittenInv

-----------------------------------------------------------------------------
InSearchOrder(index) ==
  /\ \A i \in DOMAIN index : index[i].name # ""
  /\ \A i, j \in DOMAIN index : i < j =>
       Rank(SearchOrder, index[i].name) < Rank(SearchOrder, index[j].name)

(* findFile finds no entry but one of the name, and finds each entry of an  *)
(* index that is in its own order with no missing file in it.  (Where '/'   *)
(* meets a character before it, sort leaves the index in another order.)    *)
FoundWhenOrdered ==
  package.indexed =>
    \A name \in Range(SearchOrder) :
      LET index == package.index
          i == FindFile(index, name)
      IN /\ i # 0 => index[i].name = name
         /\ i = 0 /\ InSearchOrder(index) => \A e \in Range(index) : e.name # name

(* The index of a package is written when all it lists has been: the        *)
(* position of a file is that of a whole content of that name, and no two   *)
(* have the same.                                                           *)
IndexedIsWritten ==
  package.indexed =>
    LET files == FilesOf(package.index)
    IN /\ \A i \in files :
            \E n \in DOMAIN package.blocks :
              /\ n = package.index[i].position
              /\ package.blocks[n].version > 0
              /\ Clip[package.blocks[n].name] = package.index[i].name
       /\ Cardinality({package.index[i].position : i \in files}) = Cardinality(files)

(* An extraction that ends, of a whole package, has written each file that  *)
(* is not empty and whose size is an int, in its length and, where its       *)
(* content was copied to its end, with it, unless that file's own write      *)
(* failed; under the name it was given, whatever the index keeps of it.  (A  *)
(* name with fewer characters than bytes comes out with others behind it; a  *)
(* file of 2^31 bytes or more is left out, or what is left of its size by    *)
(* 2^32 is written, and extract returns true all the same.)                  *)
ExtractedInFull ==
  [][target' # target /\ target'.done /\ package.indexed /\ password = package.password =>
       \A b \in Range(package.blocks) :
         b.size > 0 /\ Fits(b.size) =>
           \/ NameRead(b.name) \in target'.failed
           \/ \E t \in target'.files :
                /\ t.name = NameRead(b.name) /\ t.size = b.size
                /\ b.written >= b.size => t.version = b.version]_packageVars

=============================================================================
