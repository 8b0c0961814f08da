-------------------------------- MODULE DbIp --------------------------------
(***************************************************************************)
(* DbIp: the country of an address, from a CSV file of address ranges.     *)
(* A line is [family, start, end, code], or has code NoCountry when        *)
(* parsing breaks off on it.  Addresses are numbers.                       *)
(***************************************************************************)
EXTENDS Integers, Sequences, SequencesExt

CONSTANTS Lines, Addresses, MaxLines

NoCountry == "none"
Families == {"ipv4", "ipv6"}

ASSUME LineAssumption ==
  /\ Lines \subseteq [family : Families, start : Nat, end : Nat, code : STRING]
  /\ Addresses \subseteq Nat

VARIABLES
  file,      \* the lines of the file that are read
  db         \* the two lists; create returns null when both are empty

dbVars == <<file, db>>

(* create: a line on which parsing breaks off is passed over.               *)
Parse(lists, line) ==
  IF line.code = NoCountry THEN lists
  ELSE [lists EXCEPT ![line.family] = Append(@, line)]

(* BinarySearch::search in a list in order: an item with this start, or     *)
(* where one would be put, counted from 0.                                  *)
Search(items, address) ==
  LET at == {i \in 0 .. Len(items) - 1 : items[i + 1].start = address}
      less == {i \in 0 .. Len(items) - 1 : items[i + 1].start < address}
  IN IF at # {} THEN [found |-> TRUE, index |-> CHOOSE i \in at : TRUE]
     ELSE [found |-> FALSE,
           index |-> CHOOSE n \in 0 .. Len(items) :
             /\ n > 0 => n - 1 \in less
             /\ n < Len(items) => n \notin less]

(* Mutant: the item at the index, in place of the one before it.            *)
CodeAtIndex(items, address) ==
  LET s == Search(items, address)
  IN IF s.found THEN items[s.index + 1].code
     ELSE IF s.index < Len(items) /\ address <= items[s.index + 1].end
     THEN items[s.index + 1].code
     ELSE NoCountry

GetCountryCode(items, address) ==
  LET s == Search(items, address)
  IN IF s.found THEN items[s.index + 1].code
     ELSE IF s.index > 0 /\ s.index < Len(items) /\ address >= items[s.index].start
             /\ address <= items[s.index].end
     THEN items[s.index].code
     ELSE NoCountry

DbInit == file = << >> /\ db = [f \in Families |-> << >>]

(* A turn of the loop of create; the file may end with any.                 *)
Create(line) ==
  /\ Len(file) < MaxLines
  /\ file' = Append(file, line)
  /\ db' = Parse(db, line)

DbNext == \E line \in Lines : Create(line)

DbSpec == DbInit /\ [][DbNext]_dbVars

-----------------------------------------------------------------------------
Holds(l, f, address) == l.code # NoCountry /\ l.family = f
                        /\ l.start <= address /\ address <= l.end

(* The ranges of a file that the lookup relies on: in order, and apart.     *)
InOrder(items) ==
  /\ \A i \in 1 .. Len(items) : items[i].start <= items[i].end
  /\ \A i, j \in 1 .. Len(items) : i < j => items[i].end < items[j].start

(* The country of an address is that of the line whose range holds it, and  *)
(* none if no line's does; but the last range of a family answers only for  *)
(* its first address.                                                       *)
CountryIsOfTheRange ==
  \A f \in Families : InOrder(db[f]) =>
    \A a \in Addresses :
      LET lines == {l \in Range(file) : Holds(l, f, a)}
          code == GetCountryCode(db[f], a)
      IN /\ code # NoCountry => \E l \in lines : l.code = code
         /\ lines # {} /\ code = NoCountry =>
              \A l \in lines : l = Last(db[f]) /\ a # l.start

=============================================================================
