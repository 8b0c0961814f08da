----------------------------- MODULE DbIpProofs -----------------------------
(***************************************************************************)
(* That the lookup of DbIp, for any lines and addresses, finds the range    *)
(* that holds an address, whatever the file has for lines besides.          *)
(***************************************************************************)
EXTENDS DbIp, WellFoundedInduction, SequenceTheorems, TLAPS

USE LineAssumption

-----------------------------------------------------------------------------
(* Each set of numbers has a least.                                         *)

LEMMA LessOnNat == IsWellFoundedOn({ss \in Nat \X Nat : ss[1] < ss[2]}, Nat)
  BY NatLessThanWellFounded DEF OpToRel

LEMMA LeastNumber ==
  ASSUME NEW T, T \subseteq Nat, T # {}
  PROVE  \E m \in T : \A n \in T : m <= n
<1> DEFINE R == {ss \in Nat \X Nat : ss[1] < ss[2]}
<1>1. PICK m \in T : \A n \in T : <<n, m>> \notin R
  <2> IsWellFoundedOn(R, Nat)
    BY LessOnNat
  <2> HIDE DEF R
  <2> QED BY WFMin
<1>2. \A n \in T : ~(n < m)
  BY <1>1
<1> QED BY <1>2

-----------------------------------------------------------------------------
(* The search *)

(* In any list, the place where an address would be put has a lower start   *)
(* before it and none behind it.                                            *)
LEMMA SearchFacts ==
  ASSUME NEW items \in Seq(Lines), NEW address \in Nat
  PROVE  LET s == Search(items, address)
         IN /\ s.found => /\ s.index \in 0 .. Len(items) - 1
                          /\ items[s.index + 1].start = address
            /\ ~s.found =>
                 /\ s.index \in 0 .. Len(items)
                 /\ s.index > 0 => items[s.index].start < address
                 /\ s.index < Len(items) => items[s.index + 1].start > address
                 /\ \A i \in 1 .. Len(items) : items[i].start # address
            /\ s.found \in BOOLEAN
<1> DEFINE len == Len(items)
           at == {i \in 0 .. len - 1 : items[i + 1].start = address}
           less == {i \in 0 .. len - 1 : items[i + 1].start < address}
           isPlace(n) == (n > 0 => n - 1 \in less) /\ (n < len => n \notin less)
<1>1. len \in Nat /\ \A i \in 1 .. len : items[i].start \in Nat
  BY LenProperties, ElementOfSeq
<1>2. CASE at # {}
  <2>1. PICK i \in at : Search(items, address) = [found |-> TRUE, index |-> i]
    BY <1>2 DEF Search
  <2> QED BY <2>1
<1>3. CASE at = {}
  <2>1. \E n \in 0 .. len : isPlace(n)
    <3> DEFINE T == {n \in 0 .. len : n < len => n \notin less}
    <3>1. T \subseteq Nat /\ len \in T
      BY <1>1
    <3>2. PICK m \in T : \A n \in T : m <= n
      <4> HIDE DEF T
      <4> QED BY <3>1, LeastNumber
    <3>3. m > 0 => m - 1 \in less
      <4> SUFFICES ASSUME m > 0 PROVE m - 1 \in less
        OBVIOUS
      <4>1. m \in 0 .. len /\ m - 1 \in 0 .. len /\ m - 1 < len
        BY <1>1
      <4>2. m - 1 \notin T
        <5> HIDE DEF T
        <5> QED BY <1>1, <3>2, <4>1
      <4> QED BY <4>1, <4>2
    <3> QED BY <3>2, <3>3
  <2> DEFINE place == CHOOSE n \in 0 .. len : isPlace(n)
  <2>2. place \in 0 .. len /\ isPlace(place)
    <3> HIDE DEF isPlace
    <3> QED BY <2>1
  <2>3. Search(items, address) = [found |-> FALSE, index |-> place]
    BY <1>3 DEF Search
  <2> HIDE DEF place
  <2>4. \A i \in 1 .. len : items[i].start # address
    <3> SUFFICES ASSUME NEW i \in 1 .. len PROVE items[i].start # address
      OBVIOUS
    <3>1. i - 1 \in 0 .. len - 1 /\ (i - 1) + 1 = i
      BY <1>1
    <3> QED BY <3>1, <1>3
  <2>5. place > 0 => items[place].start < address
    <3> SUFFICES ASSUME place > 0 PROVE items[place].start < address
      OBVIOUS
    <3>1. place - 1 \in less /\ (place - 1) + 1 = place
      BY <2>2, <1>1
    <3> QED BY <3>1
  <2>6. place < len => items[place + 1].start > address
    <3> SUFFICES ASSUME place < len PROVE items[place + 1].start > address
      OBVIOUS
    <3>1. place \in 0 .. len - 1 /\ place \notin less /\ place + 1 \in 1 .. len
      BY <2>2, <1>1
    <3>2. ~(items[place + 1].start < address)
      BY <3>1
    <3> QED BY <3>1, <3>2, <2>4, <1>1
  <2> QED BY <2>2, <2>3, <2>4, <2>5, <2>6
<1> QED BY <1>2, <1>3

-----------------------------------------------------------------------------
(* The lists *)

(* The list of a family has the lines of the file that are whole and its    *)
(* own, and no other.                                                       *)
ListsInv ==
  /\ file \in Seq(Lines)
  /\ db \in [Families -> Seq(Lines)]
  /\ \A f \in Families :
       Range(db[f]) = {l \in Range(file) : l.code # NoCountry /\ l.family = f}

LEMMA RangeOfAppend ==
  ASSUME NEW s \in Seq(Lines), NEW l \in Lines
  PROVE  Append(s, l) \in Seq(Lines) /\ Range(Append(s, l)) = Range(s) \cup {l}
<1>1. /\ Append(s, l) \in Seq(Lines)
      /\ DOMAIN Append(s, l) = DOMAIN s \cup {Len(s) + 1}
      /\ Append(s, l)[Len(s) + 1] = l /\ \A i \in DOMAIN s : Append(s, l)[i] = s[i]
  BY AppendProperties
<1> HIDE DEF Range
<1> DEFINE t == Append(s, l)
           k == Len(s) + 1
<1>2. Range(t) = {t[i] : i \in DOMAIN t} /\ Range(s) = {s[i] : i \in DOMAIN s}
  BY DEF Range
<1> HIDE DEF t, k
<1>3. Range(t) = Range(s) \cup {l}
  BY <1>1, <1>2 DEF t, k
<1> QED BY <1>1, <1>3 DEF t

LEMMA ListsInductive == DbSpec => []ListsInv
<1>1. DbInit => ListsInv
  BY EmptySeq DEF DbInit, ListsInv, Range
<1>2. ASSUME ListsInv, NEW line \in Lines, Create(line) PROVE ListsInv'
  <2>1. file' = Append(file, line) /\ db' = Parse(db, line)
    BY <1>2 DEF Create
  <2>2. /\ file' \in Seq(Lines) /\ Range(file') = Range(file) \cup {line}
    BY <1>2, <2>1, RangeOfAppend DEF ListsInv
  <2>3. CASE line.code = NoCountry
    BY <1>2, <2>1, <2>2, <2>3 DEF ListsInv, Parse
  <2>4. CASE line.code # NoCountry
    <3>1. line.family \in Families
      OBVIOUS
    <3>2. /\ db' \in [Families -> Seq(Lines)]
          /\ Range(db'[line.family]) = Range(db[line.family]) \cup {line}
          /\ \A f \in Families \ {line.family} : db'[f] = db[f]
      BY <1>2, <2>1, <2>4, <3>1, RangeOfAppend DEF ListsInv, Parse
    <3>3. ASSUME NEW f \in Families
          PROVE  Range(db'[f]) = {l \in Range(file') : l.code # NoCountry /\ l.family = f}
      <4>1. Range(db[f]) = {l \in Range(file) : l.code # NoCountry /\ l.family = f}
        BY <1>2 DEF ListsInv
      <4>2. CASE f = line.family
        BY <2>2, <2>4, <3>2, <4>1, <4>2
      <4>3. CASE f # line.family
        BY <2>2, <2>4, <3>2, <4>1, <4>3
      <4> QED BY <4>2, <4>3
    <3> QED BY <2>2, <3>2, <3>3 DEF ListsInv
  <2> QED BY <2>3, <2>4
<1>3. ListsInv /\ UNCHANGED dbVars => ListsInv'
  BY DEF ListsInv, dbVars
<1>4. ListsInv /\ [DbNext]_dbVars => ListsInv'
  BY <1>2, <1>3 DEF DbNext
<1> QED BY <1>1, <1>4, PTL DEF DbSpec

-----------------------------------------------------------------------------
(* Of a list in order, the range that holds an address without starting     *)
(* with it is the one before the place of the address.                      *)
LEMMA HoldsBefore ==
  ASSUME NEW items \in Seq(Lines), InOrder(items), NEW address \in Nat,
         NEW k \in 1 .. Len(items), items[k].start < address, address <= items[k].end,
         NEW n \in 0 .. Len(items), n > 0 => items[n].start < address,
         n < Len(items) => items[n + 1].start > address
  PROVE  k = n
<1>1. /\ Len(items) \in Nat
      /\ \A i \in 1 .. Len(items) : items[i].start \in Nat /\ items[i].end \in Nat
  BY LenProperties, ElementOfSeq
<1>2. ASSUME k < n PROVE FALSE
  <2>1. n \in 1 .. Len(items)
    BY <1>1, <1>2
  <2>2. items[k].end < items[n].start
    BY <1>2, <2>1 DEF InOrder
  <2> QED BY <1>1, <2>1, <2>2
<1>3. ASSUME n < k PROVE FALSE
  <2>1. n + 1 \in 1 .. Len(items) /\ items[n + 1].start > address
    BY <1>1, <1>3
  <2>2. CASE k = n + 1
    BY <1>1, <2>1, <2>2
  <2>3. CASE n + 1 < k
    <3>1. items[n + 1].end < items[k].start /\ items[n + 1].start <= items[n + 1].end
      BY <2>1, <2>3 DEF InOrder
    <3> QED BY <1>1, <2>1, <3>1
  <2> QED BY <1>1, <1>3, <2>2, <2>3
<1> QED BY <1>1, <1>2, <1>3

(* However long the file and whatever its ranges, if they are in order and  *)
(* apart: the country of an address is that of the line whose range holds   *)
(* it, but for the last range of a family, of which the first address only. *)
THEOREM CountryIsFound == DbSpec => []CountryIsOfTheRange
<1>1. ASSUME ListsInv, NEW f \in Families, InOrder(db[f]), NEW a \in Addresses
      PROVE  LET lines == {l \in Range(file) : Holds(l, f, a)}
                 code == GetCountryCode(db[f], a)
             IN /\ code # NoCountry => \E l \in lines : l.code = code
                /\ lines # {} /\ code = NoCountry =>
                     \A l \in lines : l = Last(db[f]) /\ a # l.start
  <2> DEFINE items == db[f]
             len == Len(items)
             n == Search(items, a).index
             found == Search(items, a).found
             code == GetCountryCode(items, a)
  <2>1. /\ items \in Seq(Lines) /\ len \in Nat /\ a \in Nat
        /\ \A i \in 1 .. len : items[i] \in Lines /\ items[i] \in Range(items)
        /\ \A l \in Range(items) : \E i \in 1 .. len : items[i] = l
    BY <1>1, LenProperties, ElementOfSeq DEF ListsInv, Range
  <2>2. \A l \in Range(file) :
          l \in Range(items) <=> l.code # NoCountry /\ l.family = f
    BY <1>1 DEF ListsInv
  <2>3. Range(items) \subseteq Range(file)
    BY <1>1 DEF ListsInv
  <2>4. /\ found => n \in 0 .. len - 1 /\ items[n + 1].start = a
        /\ ~found => /\ n \in 0 .. len
                     /\ n > 0 => items[n].start < a
                     /\ n < len => items[n + 1].start > a
                     /\ \A i \in 1 .. len : items[i].start # a
        /\ found \in BOOLEAN
    BY <2>1, SearchFacts
  <2>5. \A i \in 1 .. len : /\ items[i].start <= items[i].end
                            /\ items[i].start \in Nat /\ items[i].end \in Nat
    BY <1>1, <2>1 DEF InOrder
  <2>6. code = IF found THEN items[n + 1].code
               ELSE IF n > 0 /\ n < len /\ a >= items[n].start /\ a <= items[n].end
               THEN items[n].code ELSE NoCountry
    BY DEF GetCountryCode
  <2> HIDE DEF items, len, n, found, code
  <2>7. ASSUME code # NoCountry
        PROVE  \E l \in Range(file) : Holds(l, f, a) /\ l.code = code
    <3>1. PICK i \in 1 .. len : items[i].start <= a /\ a <= items[i].end /\ items[i].code = code
      <4>1. CASE found
        <5>1. n + 1 \in 1 .. len /\ items[n + 1].start = a /\ code = items[n + 1].code
          BY <2>1, <2>4, <2>6, <4>1
        <5>2. items[n + 1].start <= a /\ a <= items[n + 1].end
          BY <2>1, <2>5, <5>1
        <5> QED BY <5>1, <5>2
      <4>2. CASE ~found
        BY <2>1, <2>4, <2>6, <2>7, <4>2
      <4> QED BY <4>1, <4>2
    <3>2. items[i] \in Range(file) /\ items[i].code # NoCountry /\ items[i].family = f
      BY <2>1, <2>2, <2>3
    <3> QED BY <3>1, <3>2 DEF Holds
  <2>8. ASSUME code = NoCountry, NEW l \in Range(file), Holds(l, f, a)
        PROVE  l = items[len] /\ a # l.start
    <3>1. PICK k \in 1 .. len : items[k] = l
      BY <2>1, <2>2, <2>8 DEF Holds
    <3>2. l.start <= a /\ a <= l.end
      BY <2>8 DEF Holds
    <3>3. ~found
      <4> SUFFICES ASSUME found PROVE FALSE
        OBVIOUS
      <4>1. n + 1 \in 1 .. len /\ code = items[n + 1].code
        BY <2>1, <2>4, <2>6
      <4> QED BY <2>1, <2>2, <2>3, <2>8, <4>1
    <3>4. l.start < a
      BY <2>1, <2>4, <2>5, <3>1, <3>2, <3>3
    <3>5. k = n
      BY <1>1, <2>1, <2>4, <3>1, <3>2, <3>3, <3>4, HoldsBefore DEF items, len
    <3>6. n = len
      <4> SUFFICES ASSUME n # len PROVE FALSE
        OBVIOUS
      <4>1. n > 0 /\ n < len /\ a >= items[n].start /\ a <= items[n].end
        BY <2>1, <2>5, <3>1, <3>2, <3>5
      <4>2. code = items[n].code
        BY <2>6, <3>3, <4>1
      <4> QED BY <2>1, <2>2, <2>3, <2>8, <3>1, <3>5, <4>2
    <3> QED BY <3>1, <3>4, <3>5, <3>6, <2>1, <2>5
  <2> QED BY <2>7, <2>8 DEF items, len, code, Last
<1>2. ListsInv => CountryIsOfTheRange
  BY <1>1 DEF CountryIsOfTheRange
<1> QED BY <1>2, ListsInductive, PTL

=============================================================================
