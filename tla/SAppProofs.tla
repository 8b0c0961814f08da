----------------------------- MODULE SAppProofs -----------------------------
(***************************************************************************)
(* Theorems about SAppDocument, for any projects, edits and bounds.        *)
(***************************************************************************)
EXTENDS SAppDocument, FiniteSetTheorems, NaturalsInduction, TLAPS

(* Lists *)

LEMMA ConcatFacts ==
  ASSUME NEW S, NEW a \in Seq(S), NEW b \in Seq(S)
  PROVE  /\ a \o b \in Seq(S)
         /\ Len(a) \in Nat /\ Len(b) \in Nat /\ Len(a \o b) = Len(a) + Len(b)
         /\ DOMAIN (a \o b) = 1 .. Len(a) + Len(b)
         /\ \A i \in 1 .. Len(a) + Len(b) :
              (a \o b)[i] = IF i <= Len(a) THEN a[i] ELSE b[i - Len(a)]
  OBVIOUS

LEMMA OwnRange ==
  ASSUME NEW S, NEW a \in Seq(S)
  PROVE  a \in Seq(Range(a))
<1>1. Len(a) \in Nat /\ DOMAIN a = 1 .. Len(a) /\ a = [i \in 1 .. Len(a) |-> a[i]]
  OBVIOUS
<1>2. \A i \in 1 .. Len(a) : a[i] \in Range(a)
  BY <1>1 DEF Range
<1> QED BY <1>1, <1>2

-----------------------------------------------------------------------------
(* What is generated *)

LEMMA KindsFacts ==
  /\ DOMAIN Kinds = 1 .. 5 /\ Len(Kinds) = 5
  /\ Kinds[1] = "strings" /\ Kinds[2] = "raws" /\ Kinds[3] = "drawables"
  /\ Kinds[4] = "menus" /\ Kinds[5] = "layouts"
  BY DEF Kinds

LEMMA FilesFacts ==
  \A i, f : <<i, f>> \in Files <=> i \in 1 .. 5 /\ f \in {"h", "cpp"}
  BY KindsFacts DEF Files

(* Up to the first kind that fails.                                        *)
LEMMA CompleteFacts ==
  ASSUME NEW r
  PROVE  /\ Complete(r) \in 0 .. 5
         /\ \A i \in 1 .. Complete(r) : ~Fails(r, Kinds[i])
<1> DEFINE fails(i) == Fails(r, Kinds[i])
           P(k) == /\ \A i \in 1 .. k : ~fails(i)
                   /\ k = 5 \/ fails(k + 1)
<1>1. \E k \in 0 .. 5 : P(k)
  <2> HIDE DEF fails
  <2>1. CASE fails(1)
    <3> P(0)
      BY <2>1
    <3> QED OBVIOUS
  <2>2. CASE ~fails(1) /\ fails(2)
    <3> P(1)
      BY <2>2
    <3> QED OBVIOUS
  <2>3. CASE ~fails(1) /\ ~fails(2) /\ fails(3)
    <3> P(2)
      BY <2>3
    <3> QED OBVIOUS
  <2>4. CASE ~fails(1) /\ ~fails(2) /\ ~fails(3) /\ fails(4)
    <3> P(3)
      BY <2>4
    <3> QED OBVIOUS
  <2>5. CASE ~fails(1) /\ ~fails(2) /\ ~fails(3) /\ ~fails(4) /\ fails(5)
    <3> P(4)
      BY <2>5
    <3> QED OBVIOUS
  <2>6. CASE ~fails(1) /\ ~fails(2) /\ ~fails(3) /\ ~fails(4) /\ ~fails(5)
    <3> P(5)
      BY <2>6
    <3> QED OBVIOUS
  <2> QED BY <2>1, <2>2, <2>3, <2>4, <2>5, <2>6
<1>2. Complete(r) = CHOOSE k \in 0 .. 5 : P(k)
  BY KindsFacts DEF Complete
<1>3. Complete(r) \in 0 .. 5 /\ P(Complete(r))
  <2> HIDE DEF P
  <2> QED BY <1>1, <1>2
<1> QED BY <1>3

(* The files that a generation writes.                                     *)
Done(k, header) ==
  Writes(res, k) \cup
  (IF header /\ k < Complete(res) THEN {<<k + 1, "h">>} ELSE {})

LEMMA DoneFacts ==
  ASSUME NEW k \in 0 .. 5, NEW header
  PROVE  /\ \A i \in 1 .. 5 : <<i, "cpp">> \in Done(k, header) =>
              <<i, "h">> \in Done(k, header) /\ i <= Complete(res)
         /\ \A i \in 2 .. 5 : <<i, "h">> \in Done(k, header) =>
              <<i - 1, "cpp">> \in Done(k, header)
<1> DEFINE c == Complete(res)
<1>1. c \in 0 .. 5
  BY CompleteFacts
<1>2. \A i, f : <<i, f>> \in Writes(res, k) <=>
        i \in 1 .. 5 /\ f \in {"h", "cpp"} /\ i <= c /\ i <= k
  BY FilesFacts DEF Writes
<1> HIDE DEF c
<1>3. \A i \in 1 .. 5 : <<i, "cpp">> \in Done(k, header) <=> i <= c /\ i <= k
  BY <1>1, <1>2 DEF Done, c
<1>4. \A i \in 1 .. 5 : <<i, "h">> \in Done(k, header) =>
        (i <= c /\ i <= k) \/ (i = k + 1 /\ k < c)
  BY <1>1, <1>2 DEF Done, c
<1>5. \A i \in 1 .. 5 : i <= c /\ i <= k => <<i, "h">> \in Done(k, header)
  BY <1>1, <1>2 DEF Done, c
<1> QED BY <1>1, <1>3, <1>4, <1>5 DEF c

GenInv ==
  /\ gens \in Nat
  /\ DOMAIN out = Files
  /\ \A f \in Files : out[f].gen \in 0 .. gens
  /\ NewerFirst

LEMMA GenInit == Init => GenInv
  BY FilesFacts, KindsFacts DEF Init, GenInv, NewerFirst

LEMMA GenStep == GenInv /\ [Next]_vars => GenInv'
<1> SUFFICES ASSUME GenInv, [Next]_vars PROVE GenInv'
  OBVIOUS
<1>1. CASE UNCHANGED <<out, gens>>
  BY <1>1 DEF GenInv, NewerFirst
<1>2. ASSUME NEW k \in 0 .. Len(Kinds), NEW header \in BOOLEAN, GenerateCpp(k, header)
      PROVE  GenInv'
  <2> DEFINE g(f) == out'[f].gen
             D == Done(k, header)
  <2>1. k \in 0 .. 5
    BY KindsFacts
  <2>2. gens' = gens + 1 /\ gens' \in Nat /\ DOMAIN out' = Files
    BY <1>2 DEF GenerateCpp, GenInv
  <2>3. \A f \in Files : out'[f].gen = IF f \in D THEN gens + 1 ELSE out[f].gen
    BY <1>2 DEF GenerateCpp, Done
  <2>4. \A f \in Files : out'[f].gen \in 0 .. gens'
    BY <2>2, <2>3 DEF GenInv
  <2>5. ASSUME NEW i \in 1 .. 5
        PROVE  out'[<<i, "h">>].gen >= out'[<<i, "cpp">>].gen
    <3>1. <<i, "h">> \in Files /\ <<i, "cpp">> \in Files
      BY FilesFacts
    <3>2. out[<<i, "h">>].gen >= out[<<i, "cpp">>].gen
      BY KindsFacts DEF GenInv, NewerFirst
    <3>3. out[<<i, "cpp">>].gen \in 0 .. gens /\ out[<<i, "h">>].gen \in 0 .. gens
      BY <3>1 DEF GenInv
    <3>4. <<i, "cpp">> \in D => <<i, "h">> \in D
      BY <2>1, DoneFacts
    <3> HIDE DEF D
    <3> QED BY <2>2, <2>3, <3>1, <3>2, <3>3, <3>4 DEF GenInv
  <2>6. ASSUME NEW i \in 2 .. 5
        PROVE  out'[<<i - 1, "cpp">>].gen >= out'[<<i, "h">>].gen
    <3>1. <<i, "h">> \in Files /\ <<i - 1, "cpp">> \in Files
      BY FilesFacts
    <3>2. out[<<i - 1, "cpp">>].gen >= out[<<i, "h">>].gen
      BY KindsFacts DEF GenInv, NewerFirst
    <3>3. out[<<i - 1, "cpp">>].gen \in 0 .. gens /\ out[<<i, "h">>].gen \in 0 .. gens
      BY <3>1 DEF GenInv
    <3>4. <<i, "h">> \in D => <<i - 1, "cpp">> \in D
      BY <2>1, DoneFacts
    <3> HIDE DEF D
    <3> QED BY <2>2, <2>3, <3>1, <3>2, <3>3, <3>4 DEF GenInv
  <2>7. NewerFirst'
    BY <2>5, <2>6, KindsFacts DEF NewerFirst
  <2> QED BY <2>2, <2>4, <2>7 DEF GenInv
<1> QED
  BY <1>1, <1>2 DEF Next, vars, Edit, Open, Close, OpenResources, Simulate

(* A generation that does not get to the end leaves no source newer than   *)
(* its header, and no kind newer than one before it, however many          *)
(* generations, edits and readings came before (generateCpp).              *)
THEOREM DocumentNewerFirst == Spec => []NewerFirst
<1>1. Init => GenInv
  BY GenInit
<1>2. GenInv /\ [Next]_vars => GenInv'
  BY GenStep
<1>3. GenInv => NewerFirst
  BY DEF GenInv
<1> QED BY <1>1, <1>2, <1>3, PTL DEF Spec

-----------------------------------------------------------------------------
(* Registries *)

Registry ==
  {"ok", "raws", "drawables", "strings", "menus", "styles", "includes", "layouts"}

(* The file of each image is a raw file.                                   *)
ImagesAreRaws(drawables, raws) ==
  \A n \in DOMAIN drawables : \A l \in DOMAIN drawables[n].images :
    /\ IsList(drawables[n].images[l])
    /\ \A k \in DOMAIN drawables[n].images[l] : drawables[n].images[l][k].raw \in raws

ResOK(r) ==
  /\ DOMAIN r = Registry
  /\ r.ok \in BOOLEAN
  /\ \A n \in DOMAIN r.styles : r.styles[n] \in Elements
  /\ \A n \in DOMAIN r.includes : r.includes[n] \in Elements
  /\ \A n \in DOMAIN r.drawables : DOMAIN r.drawables[n] = {"type", "images", "refs"}
  /\ ImagesAreRaws(r.drawables, r.raws)

LEMMA NoResourcesOK == ResOK(NoResources)
  BY DEF ResOK, NoResources, Registry, ImagesAreRaws

LEMMA FailFacts ==
  ASSUME NEW r, ResOK(r)
  PROVE  /\ ResOK(Fail(r)) /\ Fail(r).ok = FALSE
         /\ Fail(r).menus = r.menus /\ Fail(r).layouts = r.layouts
  BY DEF ResOK, Fail, Registry

LEMMA PutFacts ==
  ASSUME NEW map, NEW key, NEW value
  PROVE  /\ DOMAIN Put(map, key, value) = DOMAIN map \cup {key}
         /\ Put(map, key, value)[key] = value
         /\ \A k \in DOMAIN map : k # key => Put(map, key, value)[k] = map[k]
  BY DEF Put

(* A registry that is none of those that are checked may become anything.  *)
LEMMA RawFacts ==
  ASSUME NEW r, ResOK(r), NEW raw
  PROVE  LET t == RegisterRaw(r, raw)
         IN /\ ResOK(t)
            /\ t.menus = r.menus /\ t.layouts = r.layouts
            /\ t.drawables = r.drawables
            /\ t.ok => raw \in t.raws /\ r.ok
            /\ t.styles = r.styles /\ t.includes = r.includes
<1> DEFINE t == RegisterRaw(r, raw)
<1>1. CASE raw \in r.raws
  BY <1>1, FailFacts DEF RegisterRaw, Fail, ResOK, Registry
<1>2. CASE raw \notin r.raws
  <2>1. t = [r EXCEPT !.raws = r.raws \cup {raw}]
    BY <1>2 DEF RegisterRaw
  <2>2. /\ DOMAIN t = Registry /\ t.raws = r.raws \cup {raw} /\ t.ok = r.ok
        /\ t.menus = r.menus /\ t.layouts = r.layouts /\ t.drawables = r.drawables
        /\ t.styles = r.styles /\ t.includes = r.includes
    BY <2>1 DEF ResOK, Registry
  <2> HIDE DEF t
  <2>3. ImagesAreRaws(t.drawables, t.raws)
    BY <2>2 DEF ResOK, ImagesAreRaws
  <2> QED BY <2>2, <2>3 DEF ResOK, t
<1> QED BY <1>1, <1>2

LEMMA EmptyList == IsList(<< >>)
  BY DEF IsList, Range

LEMMA SameList ==
  ASSUME NEW S, NEW a \in Seq(S)
  PROVE  /\ IsList(a)
         /\ Len(a) \in Nat /\ DOMAIN a = 1 .. Len(a)
         /\ \A i \in 1 .. Len(a) : a[i] \in S
  BY OwnRange DEF IsList

LEMMA ListFacts ==
  ASSUME NEW a, IsList(a)
  PROVE  Len(a) \in Nat /\ DOMAIN a = 1 .. Len(a)
  BY DEF IsList

LEMMA ListOver ==
  ASSUME NEW n \in Nat, NEW f, f = [i \in 1 .. n |-> f[i]]
  PROVE  IsList(f) /\ Len(f) = n /\ DOMAIN f = 1 .. n
<1>1. \A i \in 1 .. n : f[i] \in Range(f)
  BY DEF Range
<1>2. f \in Seq(Range(f))
  BY <1>1
<1> QED BY <1>2 DEF IsList

LEMMA ConcatLists ==
  ASSUME NEW a, IsList(a), NEW b, IsList(b)
  PROVE  /\ IsList(a \o b)
         /\ Len(a) \in Nat /\ Len(b) \in Nat /\ Len(a \o b) = Len(a) + Len(b)
         /\ DOMAIN (a \o b) = 1 .. Len(a) + Len(b)
         /\ \A i \in 1 .. Len(a) + Len(b) :
              (a \o b)[i] = IF i <= Len(a) THEN a[i] ELSE b[i - Len(a)]
<1> DEFINE S == Range(a) \cup Range(b)
<1>1. a \in Seq(S) /\ b \in Seq(S)
  BY DEF IsList
<1> HIDE DEF S
<1>2. a \o b \in Seq(S)
  BY <1>1, ConcatFacts
<1>3. IsList(a \o b)
  BY <1>2, SameList
<1> QED BY <1>1, <1>3, ConcatFacts

LEMMA OneList ==
  ASSUME NEW x
  PROVE  IsList(<<x>>) /\ Len(<<x>>) = 1 /\ <<x>>[1] = x /\ DOMAIN <<x>> = 1 .. 1
<1>1. <<x>> \in Seq({x})
  OBVIOUS
<1> QED BY <1>1, SameList

(* What is registered for an image.                                        *)
LEMMA ImagePut ==
  ASSUME NEW r, ResOK(r), NEW raws, r.raws \subseteq raws, NEW name, NEW locale,
         NEW was, \/ name \in DOMAIN r.drawables /\ was = r.drawables[name]
                  \/ was = [type |-> "image", images |-> [l \in {Unknown} |-> << >>], refs |-> {}],
         NEW images, IsList(images), \A k \in DOMAIN images : images[k].raw \in raws
  PROVE  LET d == Put(r.drawables, name, [was EXCEPT !.images = Put(@, locale, images)])
         IN /\ \A n \in DOMAIN d : DOMAIN d[n] = {"type", "images", "refs"}
            /\ ImagesAreRaws(d, raws)
<1> DEFINE e == [was EXCEPT !.images = Put(@, locale, images)]
           d == Put(r.drawables, name, e)
<1>1. /\ DOMAIN was = {"type", "images", "refs"}
      /\ \A l \in DOMAIN was.images :
           /\ IsList(was.images[l])
           /\ \A k \in DOMAIN was.images[l] : was.images[l][k].raw \in raws
  <2>1. CASE name \in DOMAIN r.drawables /\ was = r.drawables[name]
    BY <2>1 DEF ResOK, ImagesAreRaws
  <2>2. CASE was = [type |-> "image", images |-> [l \in {Unknown} |-> << >>], refs |-> {}]
    <3>1. was.images = [l \in {Unknown} |-> << >>] /\ DOMAIN was = {"type", "images", "refs"}
      BY <2>2
    <3>2. DOMAIN << >> = {}
      OBVIOUS
    <3> QED BY <3>1, <3>2, EmptyList
  <2> QED BY <2>1, <2>2
<1>2. DOMAIN e = {"type", "images", "refs"} /\ e.images = Put(was.images, locale, images)
  BY <1>1
<1>3. \A l \in DOMAIN e.images :
        /\ IsList(e.images[l])
        /\ \A k \in DOMAIN e.images[l] : e.images[l][k].raw \in raws
  <2> SUFFICES ASSUME NEW l \in DOMAIN e.images
               PROVE  /\ IsList(e.images[l])
                      /\ \A k \in DOMAIN e.images[l] : e.images[l][k].raw \in raws
    OBVIOUS
  <2> DEFINE p == Put(was.images, locale, images)
  <2>1. /\ DOMAIN p = DOMAIN was.images \cup {locale} /\ p[locale] = images
        /\ \A k \in DOMAIN was.images : k # locale => p[k] = was.images[k]
    BY DEF Put
  <2>2. e.images = p
    BY <1>2
  <2> HIDE DEF p, e
  <2>3. CASE l = locale
    BY <2>1, <2>2, <2>3
  <2>4. CASE l # locale
    <3>1. l \in DOMAIN was.images /\ e.images[l] = was.images[l]
      BY <2>1, <2>2, <2>4
    <3> QED BY <3>1, <1>1
  <2> QED BY <2>3, <2>4
<1>4. /\ DOMAIN d = DOMAIN r.drawables \cup {name} /\ d[name] = e
      /\ \A k \in DOMAIN r.drawables : k # name => d[k] = r.drawables[k]
  <2> HIDE DEF e
  <2> DEFINE q == Put(r.drawables, name, e)
  <2>1. /\ DOMAIN q = DOMAIN r.drawables \cup {name} /\ q[name] = e
        /\ \A k \in DOMAIN r.drawables : k # name => q[k] = r.drawables[k]
    BY DEF Put
  <2> QED BY <2>1
<1> HIDE DEF e, d
<1>5. ASSUME NEW n \in DOMAIN d
      PROVE  /\ DOMAIN d[n] = {"type", "images", "refs"}
             /\ \A l \in DOMAIN d[n].images :
                  /\ IsList(d[n].images[l])
                  /\ \A k \in DOMAIN d[n].images[l] : d[n].images[l][k].raw \in raws
  <2>1. CASE n = name
    BY <2>1, <1>2, <1>3, <1>4
  <2>2. CASE n # name
    <3>1. n \in DOMAIN r.drawables /\ d[n] = r.drawables[n]
      BY <2>2, <1>4
    <3>2. \A l \in DOMAIN r.drawables[n].images :
            /\ IsList(r.drawables[n].images[l])
            /\ \A k \in DOMAIN r.drawables[n].images[l] : r.drawables[n].images[l][k].raw \in r.raws
      BY <3>1 DEF ResOK, ImagesAreRaws
    <3> QED BY <3>1, <3>2 DEF ResOK
  <2> QED BY <2>1, <2>2
<1> QED BY <1>5 DEF ImagesAreRaws, d, e

LEMMA ImageFacts ==
  ASSUME NEW r, ResOK(r), NEW locale, NEW file
  PROVE  LET t == RegisterImage(r, locale, file)
         IN ResOK(t) /\ t.menus = r.menus /\ t.layouts = r.layouts
<1> DEFINE name == file.name
           known == name \in DOMAIN r.drawables
           was == IF known THEN r.drawables[name]
                  ELSE [type |-> "image", images |-> [l \in {Unknown} |-> << >>], refs |-> {}]
           had == IF locale \in DOMAIN was.images THEN was.images[locale] ELSE << >>
           With(images) == Put(r.drawables, name,
                               [was EXCEPT !.images = Put(@, locale, images)])
           r1 == [r EXCEPT !.drawables = With(had)]
           r2 == RegisterRaw(r1, file.raw)
           added == AddImage(had, file)
           t == RegisterImage(r, locale, file)
<1>1. t = IF name = "" \/ (~known /\ locale # Unknown) THEN Fail(r)
          ELSE IF ~r2.ok THEN r2 ELSE [r2 EXCEPT !.drawables = With(added)]
  BY DEF RegisterImage
<1>2. \/ name \in DOMAIN r.drawables /\ was = r.drawables[name]
      \/ was = [type |-> "image", images |-> [l \in {Unknown} |-> << >>], refs |-> {}]
  OBVIOUS
<1> HIDE DEF was
<1>3. IsList(had) /\ \A k \in DOMAIN had : had[k].raw \in r.raws
  <2>1. CASE locale \in DOMAIN was.images
    <3>1. CASE name \in DOMAIN r.drawables /\ was = r.drawables[name]
      BY <2>1, <3>1 DEF ResOK, ImagesAreRaws
    <3>2. CASE was = [type |-> "image", images |-> [l \in {Unknown} |-> << >>], refs |-> {}]
      <4>1. was.images[locale] = << >> /\ DOMAIN << >> = {}
        BY <2>1, <3>2
      <4> QED BY <4>1, <2>1, EmptyList
    <3> QED BY <1>2, <3>1, <3>2
  <2>2. CASE locale \notin DOMAIN was.images
    <3>1. DOMAIN << >> = {}
      OBVIOUS
    <3> QED BY <2>2, <3>1, EmptyList
  <2> QED BY <2>1, <2>2
<1> HIDE DEF had
<1>4. /\ \A n \in DOMAIN With(had) : DOMAIN With(had)[n] = {"type", "images", "refs"}
      /\ ImagesAreRaws(With(had), r.raws)
  BY <1>2, <1>3, ImagePut
<1>5. /\ ResOK(r1) /\ r1.menus = r.menus /\ r1.layouts = r.layouts /\ r1.raws = r.raws
  <2> DEFINE d == With(had)
  <2> HIDE DEF d
  <2>1. [r EXCEPT !.drawables = d].drawables = d
    BY DEF ResOK, Registry
  <2> QED BY <1>4, <2>1 DEF ResOK, Registry, d
<1> HIDE DEF r1
<1>6. /\ ResOK(r2) /\ r2.menus = r1.menus /\ r2.layouts = r1.layouts
      /\ r2.ok => file.raw \in r2.raws
  BY <1>5, RawFacts
<1>7. r1.raws \subseteq r2.raws
  BY <1>5 DEF RegisterRaw, Fail, ResOK, Registry
<1> HIDE DEF r2
<1>8. ASSUME r2.ok
      PROVE  IsList(added) /\ \A k \in DOMAIN added : added[k].raw \in r2.raws
  <2>1. file.raw \in r2.raws
    BY <1>6, <1>8
  <2>2. \A k \in DOMAIN had : had[k].raw \in r2.raws
    BY <1>3, <1>5, <1>7
  <2> DEFINE S == {x \in Range(had) \cup {file} : x.raw \in r2.raws}
  <2>3. \A x \in S : x.raw \in r2.raws
    OBVIOUS
  <2>4. file \in S /\ \A k \in DOMAIN had : had[k] \in S
    BY <2>1, <2>2 DEF Range
  <2> HIDE DEF S
  <2>5. had \in Seq(S)
    <3>1. had \in Seq(Range(had))
      BY <1>3 DEF IsList
    <3> QED BY <3>1, <2>4
  <2>6. <<file>> \o had \in Seq(S) /\ Append(had, file) \in Seq(S)
    <3>1. <<file>> \in Seq(S)
      BY <2>4
    <3> QED BY <3>1, <2>4, <2>5, ConcatFacts
  <2>7. added \in Seq(S)
    BY <2>6 DEF AddImage
  <2> HIDE DEF added
  <2> QED BY <2>3, <2>7, SameList
<1> HIDE DEF added
<1>9. CASE r2.ok /\ t = [r2 EXCEPT !.drawables = With(added)]
  <2> DEFINE d == With(added)
  <2>1. /\ \A n \in DOMAIN d : DOMAIN d[n] = {"type", "images", "refs"}
        /\ ImagesAreRaws(d, r2.raws)
    <3>1. r.raws \subseteq r2.raws
      BY <1>5, <1>7
    <3>2. IsList(added) /\ \A k \in DOMAIN added : added[k].raw \in r2.raws
      BY <1>8, <1>9
    <3> QED BY <3>1, <3>2, <1>2, ImagePut
  <2> HIDE DEF d, t
  <2>2. t = [r2 EXCEPT !.drawables = d]
    BY <1>9 DEF d
  <2>3. t.drawables = d /\ t.raws = r2.raws
    BY <2>2, <1>6 DEF ResOK, Registry
  <2>4. /\ DOMAIN t = Registry /\ t.ok = r2.ok
        /\ t.styles = r2.styles /\ t.includes = r2.includes
        /\ t.menus = r2.menus /\ t.layouts = r2.layouts
    BY <2>2, <1>6 DEF ResOK, Registry
  <2>5. ResOK(r2) /\ r2.menus = r.menus /\ r2.layouts = r.layouts
    BY <1>5, <1>6
  <2>6. ResOK(t)
    BY <2>1, <2>3, <2>4, <2>5 DEF ResOK
  <2> QED BY <2>4, <2>5, <2>6 DEF t
<1>10. CASE ~r2.ok /\ t = r2
  BY <1>10, <1>5, <1>6
<1>11. CASE t = Fail(r)
  BY <1>11, FailFacts
<1> HIDE DEF t, known, name
<1> QED BY <1>1, <1>9, <1>10, <1>11 DEF t

(* What an entry of another kind leaves of the registries.                 *)
Keeps(t, r) == ResOK(t) /\ t.menus = r.menus /\ t.layouts = r.layouts

LEMMA StringFacts ==
  ASSUME NEW r, ResOK(r), NEW el, NEW locale
  PROVE  Keeps(ParseString(r, el, locale), r)
<1>1. ParseString(r, el, locale) = Fail(r) \/
      \E strings : ParseString(r, el, locale) = [r EXCEPT !.strings = strings]
  BY DEF ParseString
<1>2. ASSUME NEW strings PROVE Keeps([r EXCEPT !.strings = strings], r)
  BY DEF Keeps, ResOK, Registry
<1> QED BY <1>1, <1>2, FailFacts DEF Keeps

LEMMA DrawableFacts ==
  ASSUME NEW r, ResOK(r), NEW type, NEW el
  PROVE  Keeps([r EXCEPT !.drawables =
                  Put(@, el.name, [type |-> type, images |-> << >>, refs |-> el.refs])], r)
<1> DEFINE e == [type |-> type, images |-> << >>, refs |-> el.refs]
           d == Put(r.drawables, el.name, e)
<1>1. /\ \A n \in DOMAIN d : DOMAIN d[n] = {"type", "images", "refs"}
      /\ ImagesAreRaws(d, r.raws)
  <2>1. DOMAIN e = {"type", "images", "refs"} /\ DOMAIN e.images = {}
    OBVIOUS
  <2> HIDE DEF e
  <2>2. /\ DOMAIN d = DOMAIN r.drawables \cup {el.name} /\ d[el.name] = e
        /\ \A k \in DOMAIN r.drawables : k # el.name => d[k] = r.drawables[k]
    BY DEF Put
  <2> HIDE DEF d
  <2> SUFFICES ASSUME NEW n \in DOMAIN d
               PROVE  /\ DOMAIN d[n] = {"type", "images", "refs"}
                      /\ \A l \in DOMAIN d[n].images :
                           /\ IsList(d[n].images[l])
                           /\ \A k \in DOMAIN d[n].images[l] : d[n].images[l][k].raw \in r.raws
    BY DEF ImagesAreRaws
  <2>3. CASE n = el.name
    BY <2>1, <2>2, <2>3
  <2>4. CASE n # el.name
    <3>1. n \in DOMAIN r.drawables /\ d[n] = r.drawables[n]
      BY <2>2, <2>4
    <3> QED BY <3>1 DEF ResOK, ImagesAreRaws
  <2> QED BY <2>3, <2>4
<1> HIDE DEF d
<1>2. [r EXCEPT !.drawables = d].drawables = d
  BY DEF ResOK, Registry
<1> QED BY <1>1, <1>2 DEF Keeps, ResOK, Registry, d

LEMMA NineFacts ==
  ASSUME NEW r, ResOK(r), NEW el
  PROVE  Keeps(ParseNinePieces(r, el), r) /\ Keeps(ParseNinePatch(r, el), r)
<1>1. Keeps(Fail(r), r)
  BY FailFacts DEF Keeps
<1>2. Keeps(ParseNinePieces(r, el), r)
  BY <1>1, DrawableFacts DEF ParseNinePieces
<1>3. Keeps(ParseNinePatch(r, el), r)
  BY <1>1, DrawableFacts DEF ParseNinePatch
<1> QED BY <1>2, <1>3

LEMMA StyleFacts ==
  ASSUME NEW r, ResOK(r), NEW el \in Elements
  PROVE  Keeps(ParseLayoutStyle(r, el), r) /\ Keeps(ParseLayoutInclude(r, el), r)
<1>1. Keeps(Fail(r), r)
  BY FailFacts DEF Keeps
<1>2. ASSUME NEW map, \A n \in DOMAIN map : map[n] \in Elements
      PROVE  \A n \in DOMAIN Put(map, el.name, el) : Put(map, el.name, el)[n] \in Elements
  BY <1>2 DEF Put
<1>3. Keeps(ParseLayoutStyle(r, el), r)
  <2> DEFINE d == Put(r.styles, el.name, el)
  <2>1. \A n \in DOMAIN d : d[n] \in Elements
    BY <1>2 DEF ResOK
  <2>2. ParseLayoutStyle(r, el) \in {Fail(r), [r EXCEPT !.styles = d]}
    BY DEF ParseLayoutStyle
  <2> HIDE DEF d
  <2>3. Keeps([r EXCEPT !.styles = d], r)
    BY <2>1 DEF Keeps, ResOK, Registry
  <2> QED BY <1>1, <2>2, <2>3
<1>4. Keeps(ParseLayoutInclude(r, el), r)
  <2> DEFINE d == Put(r.includes, el.name, el)
  <2>1. \A n \in DOMAIN d : d[n] \in Elements
    BY <1>2 DEF ResOK
  <2>2. ParseLayoutInclude(r, el) \in {Fail(r), [r EXCEPT !.includes = d]}
    BY DEF ParseLayoutInclude
  <2> HIDE DEF d
  <2>3. Keeps([r EXCEPT !.includes = d], r)
    BY <2>1 DEF Keeps, ResOK, Registry
  <2> QED BY <1>1, <2>2, <2>3
<1> QED BY <1>3, <1>4

-----------------------------------------------------------------------------
(* The reader *)

LayoutCalls == {"item", "items", "tabItems"}

GoodCall(c) ==
  /\ c.do \in {"element", "string", "menuItem", "item"} => c.el \in Elements
  /\ c.do \in {"items", "tabItems"} => ElementsIn(c.list)
  /\ c.do = "directory" => IsList(c.dir.files)
  /\ c.do = "menuItem" => c.parent.depth \in Nat /\ c.parent.platforms \subseteq Platforms
  /\ c.do \in LayoutCalls => c.parent.depth \in Nat

GoodCalls(calls) == IsList(calls) /\ \A i \in DOMAIN calls : GoodCall(calls[i])

ReaderOK(s) ==
  /\ DOMAIN s = {"res", "menu", "layout", "todo"}
  /\ ResOK(s.res)
  /\ GoodCalls(s.todo)

(* What is to be done after s is what is to be done in t, behind the calls  *)
(* that the first call made.                                                *)
Follows(t, s, calls) ==
  /\ Len(calls) \in Nat /\ Len(s.todo) \in Nat \ {0}
  /\ DOMAIN calls = 1 .. Len(calls)
  /\ DOMAIN t.todo = 1 .. Len(calls) + Len(s.todo) - 1
  /\ \A i \in 1 .. Len(calls) : t.todo[i] = calls[i]
  /\ \A i \in 2 .. Len(s.todo) : t.todo[Len(calls) + i - 1] = s.todo[i]
  /\ \A i \in DOMAIN t.todo : i > Len(calls) => t.todo[i] = s.todo[i - Len(calls) + 1]

OnlyMakes(t, s, kinds) ==
  \/ DOMAIN t.todo = {}
  \/ \E calls : Follows(t, s, calls) /\ \A i \in DOMAIN calls : calls[i].do \in kinds

LEMMA TailFacts ==
  ASSUME NEW a, IsList(a), a # << >>
  PROVE  /\ Len(a) \in Nat \ {0} /\ DOMAIN a = 1 .. Len(a)
         /\ Head(a) = a[1]
         /\ IsList(Tail(a)) /\ Len(Tail(a)) = Len(a) - 1
         /\ DOMAIN Tail(a) = 1 .. Len(a) - 1
         /\ \A i \in 1 .. Len(a) - 1 : Tail(a)[i] = a[i + 1]
<1>1. a \in Seq(Range(a))
  BY DEF IsList
<1>2. Tail(a) \in Seq(Range(a)) /\ Len(Tail(a)) = Len(a) - 1 /\ Len(a) \in Nat \ {0}
  BY <1>1
<1>3. IsList(Tail(a)) /\ DOMAIN Tail(a) = 1 .. Len(Tail(a))
  <2> DEFINE b == Tail(a)
  <2> HIDE DEF b
  <2>1. b \in Seq(Range(a))
    BY <1>2 DEF b
  <2>2. IsList(b) /\ DOMAIN b = 1 .. Len(b)
    BY <2>1, SameList
  <2> QED BY <2>2 DEF b
<1>4. \A i \in 1 .. Len(a) - 1 : Tail(a)[i] = a[i + 1]
  BY <1>1
<1>5. Head(a) = a[1] /\ DOMAIN a = 1 .. Len(a)
  BY <1>1
<1> QED BY <1>2, <1>3, <1>4, <1>5

LEMMA MakeFacts ==
  ASSUME NEW s, ReaderOK(s), s.todo # << >>, NEW calls, GoodCalls(calls)
  PROVE  LET t == Make(s, calls)
         IN /\ ReaderOK(t) /\ Follows(t, s, calls)
            /\ t.res = s.res /\ t.menu = s.menu /\ t.layout = s.layout
            /\ t.todo = calls \o Tail(s.todo)
<1> DEFINE t == Make(s, calls)
           a == Tail(s.todo)
<1>1. /\ IsList(s.todo) /\ Len(s.todo) \in Nat \ {0} /\ DOMAIN s.todo = 1 .. Len(s.todo)
      /\ IsList(a) /\ Len(a) = Len(s.todo) - 1
      /\ \A i \in 1 .. Len(s.todo) - 1 : a[i] = s.todo[i + 1]
  BY TailFacts DEF ReaderOK, GoodCalls
<1>2. DOMAIN t = {"res", "menu", "layout", "todo"} /\ t.todo = calls \o a
      /\ t.res = s.res /\ t.menu = s.menu /\ t.layout = s.layout
  BY DEF Make, ReaderOK
<1> HIDE DEF a, t
<1>3. /\ IsList(calls \o a) /\ Len(calls) \in Nat
      /\ DOMAIN (calls \o a) = 1 .. Len(calls) + Len(a)
      /\ \A i \in 1 .. Len(calls) + Len(a) :
           (calls \o a)[i] = IF i <= Len(calls) THEN calls[i] ELSE a[i - Len(calls)]
  BY <1>1, ConcatLists DEF GoodCalls
<1>4. DOMAIN calls = 1 .. Len(calls)
  BY ListFacts DEF GoodCalls
<1> DEFINE n == Len(calls)
           m == Len(s.todo)
<1>5. n \in Nat /\ m \in Nat \ {0} /\ DOMAIN t.todo = 1 .. n + m - 1
  BY <1>1, <1>2, <1>3
<1>6. \A i \in 1 .. n : t.todo[i] = calls[i]
  BY <1>1, <1>2, <1>3, <1>5
<1>7. ASSUME NEW i \in DOMAIN t.todo, i > n PROVE t.todo[i] = s.todo[i - n + 1]
  <2>1. i - n \in 1 .. m - 1 /\ i \in 1 .. n + Len(a)
    BY <1>1, <1>5, <1>7
  <2>2. t.todo[i] = a[i - n]
    BY <1>1, <1>2, <1>3, <1>5, <1>7, <2>1
  <2> QED BY <1>1, <2>1, <2>2
<1>8. ASSUME NEW i \in 2 .. m PROVE t.todo[n + i - 1] = s.todo[i]
  <2>1. n + i - 1 \in DOMAIN t.todo /\ n + i - 1 > n /\ (n + i - 1) - n + 1 = i
    BY <1>5
  <2> QED BY <1>7, <2>1
<1>9. Follows(t, s, calls)
  BY <1>4, <1>5, <1>6, <1>7, <1>8 DEF Follows
<1>10. ASSUME NEW i \in DOMAIN t.todo PROVE GoodCall(t.todo[i])
  <2>1. CASE i <= n
    BY <2>1, <1>4, <1>5, <1>6 DEF GoodCalls
  <2>2. CASE i > n
    <3>1. i - n + 1 \in DOMAIN s.todo
      BY <2>2, <1>1, <1>5
    <3> QED BY <2>2, <3>1, <1>7 DEF ReaderOK, GoodCalls
  <2> QED BY <2>1, <2>2, <1>5
<1> QED BY <1>2, <1>3, <1>9, <1>10 DEF ReaderOK, GoodCalls, a, t

LEMMA EmptyFacts == GoodCalls(<< >>) /\ DOMAIN << >> = {} /\ Len(<< >>) = 0
  BY EmptyList DEF GoodCalls

(* The end of a reading.                                                   *)
Ends(t, s) ==
  /\ ReaderOK(t) /\ t.todo = << >> /\ DOMAIN t.todo = {}
  /\ t.menu = s.menu /\ t.layout = s.layout

LEMMA RefuseFacts ==
  ASSUME NEW s, ReaderOK(s)
  PROVE  /\ Ends(Refuse(s), s) /\ Refuse(s).res = Fail(s.res)
         /\ Keeps(Refuse(s).res, s.res)
<1> DEFINE t == Refuse(s)
<1>1. DOMAIN t = {"res", "menu", "layout", "todo"} /\ t.todo = << >> /\ t.res = Fail(s.res)
      /\ t.menu = s.menu /\ t.layout = s.layout
  BY DEF Refuse, ReaderOK
<1>2. ResOK(Fail(s.res)) /\ Keeps(Fail(s.res), s.res)
  BY FailFacts DEF ReaderOK, Keeps
<1> HIDE DEF t
<1> QED BY <1>1, <1>2, EmptyFacts DEF ReaderOK, Ends, t

LEMMA ReturnFacts ==
  ASSUME NEW s, ReaderOK(s), s.todo # << >>, NEW r, ResOK(r)
  PROVE  LET t == Return(s, r)
         IN /\ ReaderOK(t) /\ t.res = r /\ t.menu = s.menu /\ t.layout = s.layout
            /\ Ends(t, s) \/ Follows(t, s, << >>)
<1> DEFINE t == Return(s, r)
<1>1. CASE r.ok
  <2> DEFINE u == Make(s, << >>)
  <2>1. /\ ReaderOK(u) /\ Follows(u, s, << >>) /\ u.menu = s.menu /\ u.layout = s.layout
        /\ u.todo = << >> \o Tail(s.todo)
    BY MakeFacts, EmptyFacts
  <2>2. u.todo = Tail(s.todo)
    <3>1. Tail(s.todo) \in Seq(Range(Tail(s.todo)))
      BY TailFacts DEF ReaderOK, GoodCalls, IsList
    <3> QED BY <2>1, <3>1
  <2>3. DOMAIN t = {"res", "menu", "layout", "todo"} /\ t.todo = Tail(s.todo) /\ t.res = r
        /\ t.menu = s.menu /\ t.layout = s.layout
    BY <1>1 DEF Return, ReaderOK
  <2> HIDE DEF t, u
  <2>4. ReaderOK(t)
    BY <2>1, <2>2, <2>3 DEF ReaderOK
  <2>5. Follows(t, s, << >>)
    BY <2>1, <2>2, <2>3 DEF Follows
  <2> QED BY <2>3, <2>4, <2>5 DEF t
<1>2. CASE ~r.ok
  <2>1. DOMAIN t = {"res", "menu", "layout", "todo"} /\ t.todo = << >> /\ t.res = r
        /\ t.menu = s.menu /\ t.layout = s.layout
    BY <1>2 DEF Return, ReaderOK
  <2> HIDE DEF t
  <2>2. ReaderOK(t)
    BY <2>1, EmptyFacts DEF ReaderOK
  <2> QED BY <2>1, <2>2, EmptyFacts DEF Ends, t
<1> QED BY <1>1, <1>2

LEMMA FirstCall ==
  ASSUME NEW s, ReaderOK(s), s.todo # << >>
  PROVE  GoodCall(s.todo[1]) /\ Turn(s) = Call(s, s.todo[1])
<1>1. Head(s.todo) = s.todo[1] /\ 1 \in DOMAIN s.todo
  BY TailFacts DEF ReaderOK, GoodCalls
<1> QED BY <1>1 DEF Turn, ReaderOK, GoodCalls

(* What all calls do that read neither a menu nor a layout.                *)
Other(t, s) ==
  /\ ReaderOK(t) /\ Keeps(t.res, s.res)
  /\ t.menu = s.menu /\ t.layout = s.layout
  /\ OnlyMakes(t, s, {"file", "string"})

LEMMA OtherRefuse ==
  ASSUME NEW s, ReaderOK(s)
  PROVE  Other(Refuse(s), s)
<1> DEFINE t == Refuse(s)
<1>1. Ends(t, s) /\ Keeps(t.res, s.res)
  BY RefuseFacts
<1> HIDE DEF t
<1>2. Other(t, s)
  BY <1>1 DEF Ends, Other, OnlyMakes
<1> QED BY <1>2 DEF t

LEMMA OtherReturn ==
  ASSUME NEW s, ReaderOK(s), s.todo # << >>, NEW r, Keeps(r, s.res)
  PROVE  Other(Return(s, r), s)
<1> DEFINE t == Return(s, r)
<1>1. /\ ReaderOK(t) /\ t.res = r /\ t.menu = s.menu /\ t.layout = s.layout
      /\ Ends(t, s) \/ Follows(t, s, << >>)
  BY ReturnFacts DEF Keeps
<1> HIDE DEF t
<1>2. OnlyMakes(t, s, {"file", "string"})
  <2>1. CASE Ends(t, s)
    BY <2>1 DEF Ends, OnlyMakes
  <2>2. CASE Follows(t, s, << >>)
    <3>1. \A i \in DOMAIN << >> : << >>[i].do \in {"file", "string"}
      BY EmptyFacts
    <3> QED BY <2>2, <3>1 DEF OnlyMakes
  <2> QED BY <1>1, <2>1, <2>2
<1>3. Other(t, s)
  BY <1>1, <1>2 DEF Other
<1> QED BY <1>3 DEF t

LEMMA OtherMake ==
  ASSUME NEW s, ReaderOK(s), s.todo # << >>, NEW n \in Nat, NEW calls,
         calls = [i \in 1 .. n |-> calls[i]],
         \A i \in 1 .. n : GoodCall(calls[i]) /\ calls[i].do \in {"file", "string"}
  PROVE  Other(Make(s, calls), s)
<1> DEFINE t == Make(s, calls)
<1>1. IsList(calls) /\ DOMAIN calls = 1 .. n
  BY ListOver
<1>2. /\ ReaderOK(t) /\ Follows(t, s, calls)
      /\ t.res = s.res /\ t.menu = s.menu /\ t.layout = s.layout
  BY <1>1, MakeFacts DEF GoodCalls
<1>3. Keeps(s.res, s.res)
  BY DEF Keeps, ReaderOK
<1> HIDE DEF t
<1>4. Other(t, s)
  BY <1>1, <1>2, <1>3 DEF Other, OnlyMakes
<1> QED BY <1>4 DEF t

LEMMA ElementChildren ==
  ASSUME NEW list, ElementsIn(list)
  PROVE  /\ Len(list) \in Nat /\ DOMAIN list = 1 .. Len(list)
         /\ \A i \in 1 .. Len(list) : list[i] \in Elements
  BY DEF ElementsIn

LEMMA OtherTurn ==
  ASSUME NEW s, ReaderOK(s), s.todo # << >>, NEW c, c = s.todo[1],
         \/ c.do \in {"directory", "file", "string"}
         \/ c.do = "element" /\ c.el.tag \notin {"menu", "layout"}
  PROVE  Other(Turn(s), s)
<1>1. GoodCall(c) /\ Turn(s) = Call(s, c) /\ ResOK(s.res)
  BY FirstCall DEF ReaderOK
<1>2. Other(Refuse(s), s)
  BY OtherRefuse
<1>3. CASE c.do = "directory"
  <2>1. Turn(s) = RegisterDirectory(s, c.dir)
    BY <1>1, <1>3 DEF Call
  <2> DEFINE n == Len(c.dir.files)
             calls == [i \in 1 .. n |-> [do |-> "file", file |-> c.dir.files[i], dir |-> c.dir]]
  <2>2. n \in Nat /\ DOMAIN c.dir.files = 1 .. n
    BY <1>1, <1>3, ListFacts DEF GoodCall
  <2>3. \A i \in 1 .. n : GoodCall(calls[i]) /\ calls[i].do \in {"file", "string"}
    BY DEF GoodCall, LayoutCalls
  <2>4. Turn(s) \in {Refuse(s), Make(s, calls)}
    BY <2>1, <2>2 DEF RegisterDirectory
  <2>5. calls = [i \in 1 .. n |-> calls[i]]
    OBVIOUS
  <2> HIDE DEF calls, n
  <2> QED BY <1>2, <2>2, <2>3, <2>4, <2>5, OtherMake
<1>4. CASE c.do = "file"
  <2>1. Turn(s) = RegisterFile(s, c.file, c.dir)
    BY <1>1, <1>4 DEF Call
  <2>2. Keeps(RegisterRaw(s.res, c.file.raw), s.res)
    BY <1>1, RawFacts DEF Keeps
  <2>3. Keeps(RegisterImage(s.res, c.dir.locale, c.file), s.res)
    BY <1>1, ImageFacts DEF Keeps
  <2> QED BY <2>1, <2>2, <2>3, OtherReturn DEF RegisterFile
<1>5. CASE c.do = "string"
  <2>1. Turn(s) = Return(s, ParseString(s.res, c.el, c.locale))
    BY <1>1, <1>5 DEF Call
  <2> QED BY <1>1, <2>1, StringFacts, OtherReturn
<1>6. CASE c.do = "element" /\ c.el.tag \notin {"menu", "layout"}
  <2> DEFINE el == c.el
             r == s.res
  <2>1. Turn(s) = ParseElement(s, el) /\ el \in Elements
    BY <1>1, <1>6 DEF Call, GoodCall
  <2>2. \/ Turn(s) = ParseStrings(s, el)
        \/ Turn(s) = Return(s, ParseString(r, el, Unknown))
        \/ Turn(s) = Return(s, ParseNinePieces(r, el))
        \/ Turn(s) = Return(s, ParseNinePatch(r, el))
        \/ Turn(s) = Return(s, ParseLayoutStyle(r, el))
        \/ Turn(s) = Return(s, ParseLayoutInclude(r, el))
        \/ Turn(s) = Refuse(s)
    BY <1>6, <2>1 DEF ParseElement
  <2>3. /\ Keeps(ParseString(r, el, Unknown), r)
        /\ Keeps(ParseNinePieces(r, el), r) /\ Keeps(ParseNinePatch(r, el), r)
        /\ Keeps(ParseLayoutStyle(r, el), r) /\ Keeps(ParseLayoutInclude(r, el), r)
    BY <1>1, <2>1, StringFacts, NineFacts, StyleFacts
  <2>4. Other(ParseStrings(s, el), s)
    <3> DEFINE n == Len(el.children)
               calls == [i \in 1 .. n |->
                           [do |-> "string", el |-> el.children[i], locale |-> el.locale]]
    <3>1. n \in Nat /\ DOMAIN el.children = 1 .. n /\ \A i \in 1 .. n : el.children[i] \in Elements
      BY <2>1, ElementsAssumption, ElementChildren
    <3>2. \A i \in 1 .. n : GoodCall(calls[i]) /\ calls[i].do \in {"file", "string"}
      BY <3>1 DEF GoodCall, LayoutCalls
    <3>3. ParseStrings(s, el) \in {Refuse(s), Make(s, calls)}
      BY <3>1 DEF ParseStrings
    <3>4. calls = [i \in 1 .. n |-> calls[i]]
      OBVIOUS
    <3> HIDE DEF calls, n
    <3> QED BY <1>2, <3>1, <3>2, <3>3, <3>4, OtherMake
  <2> HIDE DEF el, r
  <2>5. r = s.res
    BY DEF r
  <2> QED BY <1>2, <2>2, <2>3, <2>4, <2>5, OtherReturn
<1> QED BY <1>3, <1>4, <1>5, <1>6

WithMenu(s, m) == [s EXCEPT !.menu = m]
WithLayout(s, l) == [s EXCEPT !.layout = l]

LEMMA MakeMenuFacts ==
  ASSUME NEW s, ReaderOK(s), s.todo # << >>, NEW calls, GoodCalls(calls), NEW m
  PROVE  LET t == WithMenu(Make(s, calls), m)
         IN /\ ReaderOK(t) /\ Follows(t, s, calls)
            /\ t.res = s.res /\ t.menu = m /\ t.layout = s.layout
<1> DEFINE u == Make(s, calls)
           t == WithMenu(u, m)
<1>1. /\ ReaderOK(u) /\ Follows(u, s, calls)
      /\ u.res = s.res /\ u.layout = s.layout
  BY MakeFacts
<1> HIDE DEF u
<1>2. DOMAIN t = {"res", "menu", "layout", "todo"} /\ t.todo = u.todo /\ t.res = u.res
      /\ t.menu = m /\ t.layout = u.layout
  BY <1>1 DEF ReaderOK, WithMenu
<1> HIDE DEF t
<1>3. ReaderOK(t) /\ Follows(t, s, calls)
  BY <1>1, <1>2 DEF ReaderOK, Follows
<1> QED BY <1>1, <1>2, <1>3 DEF t, u

LEMMA MakeLayoutFacts ==
  ASSUME NEW s, ReaderOK(s), s.todo # << >>, NEW calls, GoodCalls(calls), NEW l
  PROVE  LET t == WithLayout(Make(s, calls), l)
         IN /\ ReaderOK(t) /\ Follows(t, s, calls)
            /\ t.res = s.res /\ t.menu = s.menu /\ t.layout = l
<1> DEFINE u == Make(s, calls)
           t == WithLayout(u, l)
<1>1. /\ ReaderOK(u) /\ Follows(u, s, calls)
      /\ u.res = s.res /\ u.menu = s.menu
  BY MakeFacts
<1> HIDE DEF u
<1>2. DOMAIN t = {"res", "menu", "layout", "todo"} /\ t.todo = u.todo /\ t.res = u.res
      /\ t.layout = l /\ t.menu = u.menu
  BY <1>1 DEF ReaderOK, WithLayout
<1> HIDE DEF t
<1>3. ReaderOK(t) /\ Follows(t, s, calls)
  BY <1>1, <1>2 DEF ReaderOK, Follows
<1> QED BY <1>1, <1>2, <1>3 DEF t, u

-----------------------------------------------------------------------------
(* Menus *)

MenuKinds == {"menuItem", "endMenu"}

(* The items of a menu: those inside another are limited to its platforms, *)
(* and on each platform a name is that of one item.                        *)
MenuOK(items) ==
  /\ IsList(items)
  /\ \A i \in DOMAIN items :
       /\ items[i].depth \in Nat /\ items[i].platforms \subseteq Platforms
       /\ items[i].type = "separator" => items[i].title = None /\ items[i].icon = None
  /\ \A i, j \in DOMAIN items :
       i < j /\ items[i].name = items[j].name /\ items[i].name # "" =>
         items[i].platforms \cap items[j].platforms = {}
  /\ \A i, j \in DOMAIN items :
       Inside(items, i, j) => items[j].platforms \subseteq items[i].platforms

(* A next item of this depth would be inside the i-th.                     *)
WouldBeInside(items, i, depth) ==
  depth > items[i].depth /\ \A k \in i + 1 .. Len(items) : items[k].depth > items[i].depth

(* The calls for the items of a menu come before all others, those for the *)
(* deepest first, and each allows no platform that an item around does not. *)
MenuFirst(s) ==
  \A p, q \in DOMAIN s.todo :
    p < q /\ s.todo[q].do \in MenuKinds => s.todo[p].do = "menuItem"

MenuReading(s) ==
  /\ MenuOK(s.menu.items)
  /\ \A p \in Platforms : \A i \in DOMAIN s.menu.items :
       p \in s.menu.items[i].platforms /\ s.menu.items[i].name # "" =>
         s.menu.items[i].name \in s.menu.names[p]
  /\ \A q \in DOMAIN s.todo : s.todo[q].do = "menuItem" =>
       \A i \in DOMAIN s.menu.items :
         WouldBeInside(s.menu.items, i, s.todo[q].parent.depth + 1) =>
           s.todo[q].parent.platforms \subseteq s.menu.items[i].platforms
  /\ \A p, q \in DOMAIN s.todo :
       p < q /\ s.todo[p].do = "menuItem" /\ s.todo[q].do = "menuItem" =>
         s.todo[q].parent.depth <= s.todo[p].parent.depth

MenuInv(s) ==
  /\ \A n \in DOMAIN s.res.menus : MenuOK(s.res.menus[n])
  /\ MenuFirst(s)
  /\ (\E q \in DOMAIN s.todo : s.todo[q].do \in MenuKinds) => MenuReading(s)

(* After a call that reads no menu there is no call left that does.        *)
NoMenuCalls(s) == \A q \in DOMAIN s.todo : s.todo[q].do \notin MenuKinds

LEMMA NoMenuInv ==
  ASSUME NEW s, NEW t, MenuInv(s), t.res.menus = s.res.menus, NoMenuCalls(t)
  PROVE  MenuInv(t)
  BY DEF MenuInv, MenuFirst, NoMenuCalls

LEMMA MenuCallsGone ==
  ASSUME NEW s, NEW t, NEW kinds, ReaderOK(s), s.todo # << >>, MenuFirst(s),
         s.todo[1].do # "menuItem", kinds \cap MenuKinds = {}, OnlyMakes(t, s, kinds)
  PROVE  NoMenuCalls(t)
<1>1. CASE DOMAIN t.todo = {}
  BY <1>1 DEF NoMenuCalls
<1>2. ASSUME NEW calls, Follows(t, s, calls), \A i \in DOMAIN calls : calls[i].do \in kinds
      PROVE  NoMenuCalls(t)
  <2> SUFFICES ASSUME NEW q \in DOMAIN t.todo PROVE t.todo[q].do \notin MenuKinds
    BY DEF NoMenuCalls
  <2> DEFINE n == Len(calls)
             m == Len(s.todo)
  <2>1. n \in Nat /\ m \in Nat \ {0} /\ DOMAIN calls = 1 .. n /\ q \in 1 .. n + m - 1
    BY <1>2 DEF Follows
  <2>2. DOMAIN s.todo = 1 .. m
    BY ListFacts DEF ReaderOK, GoodCalls
  <2>3. CASE q <= n
    <3>1. t.todo[q] = calls[q] /\ q \in DOMAIN calls
      BY <1>2, <2>1, <2>3 DEF Follows
    <3> QED BY <1>2, <3>1
  <2>4. CASE q > n
    <3>1. t.todo[q] = s.todo[q - n + 1]
      BY <1>2, <2>4 DEF Follows
    <3>2. q - n + 1 \in DOMAIN s.todo /\ 1 \in DOMAIN s.todo /\ 1 < q - n + 1
      BY <2>1, <2>2, <2>4
    <3> QED BY <3>1, <3>2 DEF MenuFirst
  <2> QED BY <2>1, <2>3, <2>4
<1> QED BY <1>1, <1>2 DEF OnlyMakes

LEMMA InsideAppend ==
  ASSUME NEW n \in Nat, NEW items, NEW more, DOMAIN items = 1 .. n, DOMAIN more = 1 .. n + 1,
         \A i \in 1 .. n : more[i] = items[i]
  PROVE  /\ \A i, j \in 1 .. n : Inside(more, i, j) <=> Inside(items, i, j)
         /\ \A i \in 1 .. n : Inside(more, i, n + 1) <=>
              more[n + 1].depth > items[i].depth
              /\ \A k \in i + 1 .. n : items[k].depth > items[i].depth
  BY DEF Inside

LEMMA AppendFacts ==
  ASSUME NEW a, IsList(a), NEW x
  PROVE  /\ IsList(Append(a, x)) /\ Len(a) \in Nat /\ DOMAIN a = 1 .. Len(a)
         /\ Len(Append(a, x)) = Len(a) + 1
         /\ DOMAIN Append(a, x) = 1 .. Len(a) + 1
         /\ \A i \in 1 .. Len(a) : Append(a, x)[i] = a[i]
         /\ Append(a, x)[Len(a) + 1] = x
<1> DEFINE S == Range(a) \cup {x}
<1>1. a \in Seq(S) /\ x \in S
  BY DEF IsList
<1> HIDE DEF S
<1>2. Append(a, x) \in Seq(S)
  BY <1>1
<1>3. IsList(Append(a, x))
  BY <1>2, SameList
<1> QED BY <1>1, <1>3

(* An item that may be listed behind the others of a menu.                 *)
NextItemOf(item, parent) ==
  /\ parent.depth \in Nat /\ item.depth = parent.depth + 1
  /\ item.platforms \subseteq parent.platforms /\ item.platforms \subseteq Platforms
  /\ item.type = "separator" => item.title = None /\ item.icon = None

NameFree(items, item) ==
  \A i \in DOMAIN items : items[i].name = item.name /\ item.name # "" =>
    items[i].platforms \cap item.platforms = {}

AllowsOnly(items, parent) ==
  \A i \in DOMAIN items : WouldBeInside(items, i, parent.depth + 1) =>
    parent.platforms \subseteq items[i].platforms

LEMMA MenuItemListed ==
  ASSUME NEW items, MenuOK(items), NEW item, NEW parent, NextItemOf(item, parent),
         NameFree(items, item), AllowsOnly(items, parent)
  PROVE  MenuOK(Append(items, item))
<1> DEFINE n == Len(items)
           more == Append(items, item)
<1>1. /\ IsList(more) /\ n \in Nat /\ DOMAIN items = 1 .. n /\ DOMAIN more = 1 .. n + 1
      /\ \A i \in 1 .. n : more[i] = items[i]
      /\ more[n + 1] = item
  <2> IsList(items)
    BY DEF MenuOK
  <2> QED BY AppendFacts
<1> HIDE DEF n, more
<1>2. ASSUME NEW i \in DOMAIN more
      PROVE  /\ more[i].depth \in Nat /\ more[i].platforms \subseteq Platforms
             /\ more[i].type = "separator" => more[i].title = None /\ more[i].icon = None
  <2>1. CASE i = n + 1
    <3>1. more[i] = item
      BY <2>1, <1>1
    <3> QED BY <3>1 DEF NextItemOf
  <2>2. CASE i # n + 1
    <3>1. i \in DOMAIN items /\ more[i] = items[i]
      BY <2>2, <1>1
    <3> QED BY <3>1 DEF MenuOK
  <2> QED BY <2>1, <2>2
<1>3. ASSUME NEW i \in DOMAIN more, NEW j \in DOMAIN more,
             i < j, more[i].name = more[j].name, more[i].name # ""
      PROVE  more[i].platforms \cap more[j].platforms = {}
  <2> i < j
    BY <1>3
  <2> i \in 1 .. n + 1 /\ j \in 1 .. n + 1
    BY <1>1
  <2>1. i \in 1 .. n /\ more[i] = items[i]
    BY <1>1
  <2>2. CASE j = n + 1
    <3>1. more[j] = item /\ i \in DOMAIN items
      BY <2>1, <2>2, <1>1
    <3> QED BY <2>1, <3>1, <1>3 DEF NameFree
  <2>3. CASE j # n + 1
    <3>1. j \in DOMAIN items /\ i \in DOMAIN items /\ more[j] = items[j]
      BY <1>1, <2>1, <2>3
    <3> QED BY <2>1, <3>1, <1>3 DEF MenuOK
  <2> QED BY <2>2, <2>3
<1>4. ASSUME NEW i \in DOMAIN more, NEW j \in DOMAIN more, Inside(more, i, j)
      PROVE  more[j].platforms \subseteq more[i].platforms
  <2>1. i < j
    BY <1>4 DEF Inside
  <2>2. i \in 1 .. n /\ more[i] = items[i]
    BY <1>1, <2>1
  <2>3. CASE j = n + 1
    <3>1. WouldBeInside(items, i, parent.depth + 1)
      <4>1. /\ more[n + 1].depth > items[i].depth
            /\ \A k \in i + 1 .. n : items[k].depth > items[i].depth
        BY <1>1, <1>4, <2>2, <2>3, InsideAppend
      <4> QED BY <4>1, <1>1 DEF WouldBeInside, n, NextItemOf
    <3>2. more[j] = item /\ i \in DOMAIN items
      BY <2>2, <2>3, <1>1
    <3>3. parent.platforms \subseteq items[i].platforms
      BY <3>1, <3>2 DEF AllowsOnly
    <3> QED BY <3>2, <3>3, <2>2 DEF NextItemOf
  <2>4. CASE j # n + 1
    <3>1. j \in 1 .. n /\ more[j] = items[j]
      BY <1>1, <2>4
    <3>2. Inside(items, i, j)
      BY <1>1, <1>4, <2>2, <3>1, InsideAppend
    <3>3. i \in DOMAIN items /\ j \in DOMAIN items
      BY <2>2, <3>1, <1>1
    <3> QED BY <2>2, <3>1, <3>2, <3>3 DEF MenuOK
  <2> QED BY <2>3, <2>4
<1>5. MenuOK(more)
  BY <1>1, <1>2, <1>3, <1>4 DEF MenuOK
<1> QED BY <1>5 DEF more

LEMMA MenuItemCallsFacts ==
  ASSUME NEW list, ElementsIn(list), NEW parent, parent.depth \in Nat,
         parent.platforms \subseteq Platforms
  PROVE  LET calls == MenuItemCalls(list, parent)
         IN /\ GoodCalls(calls)
            /\ \A i \in DOMAIN calls : calls[i].do = "menuItem" /\ calls[i].parent = parent
<1> DEFINE n == Len(list)
           calls == [i \in 1 .. n |-> [do |-> "menuItem", el |-> list[i], parent |-> parent]]
<1>1. n \in Nat /\ DOMAIN list = 1 .. n /\ \A i \in 1 .. n : list[i] \in Elements
  BY ElementChildren
<1>2. MenuItemCalls(list, parent) = calls
  BY <1>1 DEF MenuItemCalls
<1>3. \A i \in 1 .. n : GoodCall(calls[i]) /\ calls[i].do = "menuItem" /\ calls[i].parent = parent
  BY <1>1 DEF GoodCall, LayoutCalls
<1>4. calls = [i \in 1 .. n |-> calls[i]]
  OBVIOUS
<1> HIDE DEF calls, n
<1>5. IsList(calls) /\ DOMAIN calls = 1 .. n
  BY <1>1, <1>4, ListOver
<1> QED BY <1>2, <1>3, <1>5 DEF GoodCalls

(* What a call that reads a menu does.                                     *)
MenuTurn(t, s) ==
  /\ ReaderOK(t) /\ MenuInv(t)
  /\ t.layout = s.layout /\ t.res.layouts = s.res.layouts
  /\ OnlyMakes(t, s, MenuKinds)

LEMMA MenuRefuse ==
  ASSUME NEW s, ReaderOK(s), MenuInv(s)
  PROVE  MenuTurn(Refuse(s), s)
<1> DEFINE t == Refuse(s)
<1>1. Ends(t, s) /\ Keeps(t.res, s.res)
  BY RefuseFacts
<1> HIDE DEF t
<1>2. NoMenuCalls(t) /\ t.res.menus = s.res.menus
  BY <1>1 DEF Ends, NoMenuCalls, Keeps
<1>3. MenuInv(t)
  BY <1>2, NoMenuInv
<1>4. MenuTurn(t, s)
  BY <1>1, <1>3 DEF MenuTurn, Ends, Keeps, OnlyMakes
<1> QED BY <1>4 DEF t

(* The calls that a call for an item of a menu makes, if it makes any, are *)
(* for what is inside the item.                                            *)
LEMMA MenuItemFirst ==
  ASSUME NEW s, MenuFirst(s), NEW calls, NEW t, Follows(t, s, calls),
         DOMAIN s.todo = 1 .. Len(s.todo),
         s.todo[1].do = "menuItem", \A i \in DOMAIN calls : calls[i].do = "menuItem"
  PROVE  MenuFirst(t)
<1> DEFINE k == Len(calls)
           m == Len(s.todo)
<1>1. k \in Nat /\ m \in Nat \ {0} /\ DOMAIN calls = 1 .. k /\ DOMAIN t.todo = 1 .. k + m - 1
  BY DEF Follows
<1> SUFFICES ASSUME NEW p \in DOMAIN t.todo, NEW q \in DOMAIN t.todo,
                    p < q, t.todo[q].do \in MenuKinds
             PROVE  t.todo[p].do = "menuItem"
  BY DEF MenuFirst
<1>2. CASE p <= k
  <2>1. p \in 1 .. k
    BY <1>1, <1>2
  <2>2. t.todo[p] = calls[p]
    BY <2>1 DEF Follows
  <2> QED BY <2>1, <2>2, <1>1
<1>3. CASE p > k
  <2>1. q > k
    BY <1>1, <1>3
  <2>2. t.todo[p] = s.todo[p - k + 1] /\ t.todo[q] = s.todo[q - k + 1]
    BY <1>3, <2>1 DEF Follows
  <2>3. p - k + 1 \in DOMAIN s.todo /\ q - k + 1 \in DOMAIN s.todo /\ p - k + 1 < q - k + 1
    BY <1>1, <1>3, <2>1
  <2> QED BY <2>2, <2>3 DEF MenuFirst
<1> QED BY <1>1, <1>2, <1>3

(* Those that are pending are allowed no more than the items around them.  *)
PendingAllowed(todo, items) ==
  \A q \in DOMAIN todo : todo[q].do = "menuItem" => AllowsOnly(items, todo[q].parent)

DeepestFirst(todo, kinds) ==
  \A p, q \in DOMAIN todo : p < q /\ todo[p].do \in kinds /\ todo[q].do \in kinds =>
    todo[q].parent.depth <= todo[p].parent.depth

NamesKept(items, names) ==
  \A p \in Platforms : \A i \in DOMAIN items :
    p \in items[i].platforms /\ items[i].name # "" => items[i].name \in names[p]

LEMMA MenuReadingParts ==
  ASSUME NEW s
  PROVE  MenuReading(s) <=>
           /\ MenuOK(s.menu.items) /\ NamesKept(s.menu.items, s.menu.names)
           /\ PendingAllowed(s.todo, s.menu.items) /\ DeepestFirst(s.todo, {"menuItem"})
  BY DEF MenuReading, NamesKept, PendingAllowed, AllowsOnly, DeepestFirst

(* Calls for what is inside the item of the first call go before the others. *)
DeeperBy(calls, kinds, s, d) ==
  /\ kinds \subseteq {"menuItem", "item", "items", "tabItems"}
  /\ s.todo[1].do \in kinds
  /\ d \in Nat /\ d >= s.todo[1].parent.depth
  /\ \A i \in DOMAIN calls : calls[i].do \in kinds => calls[i].parent.depth = d

LEMMA DeepestStays ==
  ASSUME NEW s, NEW t, NEW calls, NEW kinds, Follows(t, s, calls), GoodCalls(s.todo),
         DeepestFirst(s.todo, kinds), NEW d, DeeperBy(calls, kinds, s, d)
  PROVE  DeepestFirst(t.todo, kinds)
<1> DEFINE k == Len(calls)
           m == Len(s.todo)
<1>1. /\ k \in Nat /\ m \in Nat \ {0} /\ DOMAIN calls = 1 .. k /\ DOMAIN t.todo = 1 .. k + m - 1
      /\ DOMAIN s.todo = 1 .. m
  BY ListFacts DEF Follows, GoodCalls
<1>2. \A q \in DOMAIN s.todo : s.todo[q].do \in kinds => s.todo[q].parent.depth \in Nat
  BY DEF GoodCalls, GoodCall, LayoutCalls, DeeperBy
<1>3. ASSUME NEW q \in DOMAIN t.todo, q > k
      PROVE  q - k + 1 \in DOMAIN s.todo /\ q - k + 1 > 1 /\ t.todo[q] = s.todo[q - k + 1]
  BY <1>1, <1>3 DEF Follows
<1>4. ASSUME NEW q \in DOMAIN t.todo, q <= k
      PROVE  q \in DOMAIN calls /\ t.todo[q] = calls[q]
  BY <1>1, <1>4 DEF Follows
<1> SUFFICES ASSUME NEW p \in DOMAIN t.todo, NEW q \in DOMAIN t.todo, p < q,
                    t.todo[p].do \in kinds, t.todo[q].do \in kinds
             PROVE  t.todo[q].parent.depth <= t.todo[p].parent.depth
  BY DEF DeepestFirst
<1> HIDE DEF k, m
<1>5. CASE q <= k
  <2>1. p <= k
    BY <1>1, <1>5
  <2>2. t.todo[p].parent.depth = d /\ t.todo[q].parent.depth = d
    BY <1>4, <1>5, <2>1 DEF DeeperBy
  <2> QED BY <2>2 DEF DeeperBy
<1>6. CASE q > k /\ p <= k
  <2>1. t.todo[p].parent.depth = d
    BY <1>4, <1>6 DEF DeeperBy
  <2> DEFINE x == q - k + 1
  <2>2. x \in DOMAIN s.todo /\ x > 1 /\ t.todo[q] = s.todo[x] /\ 1 \in DOMAIN s.todo
    BY <1>1, <1>3, <1>6
  <2> HIDE DEF x
  <2>3. s.todo[x].parent.depth <= s.todo[1].parent.depth
    BY <2>2 DEF DeepestFirst, DeeperBy
  <2>4. s.todo[x].parent.depth \in Nat /\ s.todo[1].parent.depth \in Nat
    BY <1>2, <2>2 DEF DeeperBy
  <2>5. s.todo[x].parent.depth <= d
    BY <2>3, <2>4 DEF DeeperBy
  <2> QED BY <2>1, <2>2, <2>5
<1>7. CASE q > k /\ p > k
  <2> DEFINE x == q - k + 1
             y == p - k + 1
  <2>1. x \in DOMAIN s.todo /\ t.todo[q] = s.todo[x] /\ y \in DOMAIN s.todo
        /\ t.todo[p] = s.todo[y]
    BY <1>3, <1>7
  <2>2. y < x
    BY <1>1
  <2> HIDE DEF x, y
  <2> QED BY <2>1, <2>2 DEF DeepestFirst
<1> QED BY <1>1, <1>5, <1>6, <1>7

LEMMA PendingStays ==
  ASSUME NEW s, NEW t, NEW calls, Follows(t, s, calls), GoodCalls(s.todo),
         s.todo[1].do = "menuItem", DeepestFirst(s.todo, {"menuItem"}),
         NEW item, NextItemOf(item, s.todo[1].parent),
         \A i \in DOMAIN calls : calls[i].do = "menuItem" /\ calls[i].parent = item,
         NEW items, MenuOK(items), PendingAllowed(s.todo, items)
  PROVE  PendingAllowed(t.todo, Append(items, item))
<1> DEFINE k == Len(calls)
           m == Len(s.todo)
           n == Len(items)
           more == Append(items, item)
           parent == s.todo[1].parent
<1>1. /\ k \in Nat /\ m \in Nat \ {0} /\ DOMAIN calls = 1 .. k /\ DOMAIN t.todo = 1 .. k + m - 1
      /\ DOMAIN s.todo = 1 .. m /\ 1 \in DOMAIN s.todo
  BY ListFacts DEF Follows, GoodCalls
<1>2. /\ n \in Nat /\ DOMAIN items = 1 .. n /\ DOMAIN more = 1 .. n + 1 /\ Len(more) = n + 1
      /\ \A i \in 1 .. n : more[i] = items[i]
      /\ more[n + 1] = item
  <2> IsList(items)
    BY DEF MenuOK
  <2> QED BY AppendFacts
<1>3. \A i \in DOMAIN items : items[i].depth \in Nat
  BY DEF MenuOK
<1>4. /\ parent.depth \in Nat /\ item.depth = parent.depth + 1
      /\ item.platforms \subseteq parent.platforms
  BY DEF NextItemOf
<1> HIDE DEF k, m, n, more, parent
<1>5. ASSUME NEW i \in 1 .. n, NEW depth \in Nat, WouldBeInside(more, i, depth),
             NEW d \in Nat, item.depth >= d \/ depth >= d
      PROVE  WouldBeInside(items, i, item.depth)
             /\ (depth <= item.depth => WouldBeInside(items, i, depth))
  <2>1. more[i] = items[i] /\ items[i].depth \in Nat
    BY <1>2, <1>3
  <2>2. depth > items[i].depth /\ item.depth > items[i].depth
    <3>1. n + 1 \in i + 1 .. Len(more)
      BY <1>2
    <3>2. more[n + 1].depth > more[i].depth /\ depth > more[i].depth
      BY <3>1, <1>5 DEF WouldBeInside
    <3> QED BY <3>2, <2>1, <1>2
  <2>3. ASSUME NEW j \in i + 1 .. n PROVE items[j].depth > items[i].depth
    <3>1. j \in i + 1 .. Len(more) /\ j \in 1 .. n
      BY <1>2
    <3>2. more[j].depth > more[i].depth
      BY <3>1, <1>5 DEF WouldBeInside
    <3> QED BY <3>1, <3>2, <2>1, <1>2
  <2> QED BY <2>2, <2>3 DEF WouldBeInside, n
<1> SUFFICES ASSUME NEW q \in DOMAIN t.todo, t.todo[q].do = "menuItem",
                    NEW i \in DOMAIN more,
                    WouldBeInside(more, i, t.todo[q].parent.depth + 1)
             PROVE  t.todo[q].parent.platforms \subseteq more[i].platforms
  BY DEF PendingAllowed, AllowsOnly, more
<1>6. i \in 1 .. n \/ i = n + 1
  BY <1>2
<1>7. CASE q <= k
  <2>1. t.todo[q].parent = item
    BY <1>1, <1>7 DEF Follows, k
  <2>2. CASE i = n + 1
    BY <2>1, <2>2, <1>2
  <2>3. CASE i \in 1 .. n
    <3>1. item.depth + 1 \in Nat /\ item.depth \in Nat /\ 0 \in Nat /\ item.depth >= 0
      BY <1>4
    <3>2. WouldBeInside(more, i, item.depth + 1)
      BY <2>1
    <3>3. WouldBeInside(items, i, item.depth)
      BY <3>1, <3>2, <2>3, <1>5
    <3>4. i \in DOMAIN items /\ more[i] = items[i]
      BY <2>3, <1>2
    <3>5. parent.platforms \subseteq items[i].platforms
      BY <3>3, <3>4, <1>1, <1>4 DEF PendingAllowed, AllowsOnly, parent
    <3> QED BY <3>4, <3>5, <2>1, <1>4
  <2> QED BY <1>6, <2>2, <2>3
<1>8. CASE q > k
  <2> DEFINE x == q - k + 1
  <2>1. x \in DOMAIN s.todo /\ x > 1 /\ t.todo[q] = s.todo[x]
    BY <1>1, <1>8 DEF Follows, k, m
  <2> HIDE DEF x
  <2> DEFINE d == s.todo[x].parent.depth
  <2>2. s.todo[x].do = "menuItem"
    BY <2>1
  <2>3. d \in Nat
    BY <2>1, <2>2 DEF GoodCalls, GoodCall
  <2>4. d <= parent.depth
    BY <2>1, <2>2, <1>1 DEF DeepestFirst, parent
  <2> HIDE DEF d
  <2>5. WouldBeInside(more, i, d + 1)
    BY <2>1 DEF d
  <2>6. CASE i = n + 1
    <3>1. d + 1 > item.depth
      BY <2>5, <2>6, <1>2 DEF WouldBeInside
    <3> QED BY <3>1, <2>3, <2>4, <1>4
  <2>7. CASE i \in 1 .. n
    <3>1. d + 1 \in Nat /\ d + 1 <= item.depth /\ 0 \in Nat /\ d + 1 >= 0
      BY <2>3, <2>4, <1>4
    <3>2. WouldBeInside(items, i, d + 1)
      BY <3>1, <2>5, <2>7, <1>5
    <3>3. i \in DOMAIN items /\ more[i] = items[i]
      BY <2>7, <1>2
    <3> QED BY <3>2, <3>3, <2>1, <2>2 DEF PendingAllowed, AllowsOnly, d
  <2> QED BY <1>6, <2>6, <2>7
<1>9. q \in Nat
  BY <1>1
<1> QED BY <1>1, <1>7, <1>8, <1>9

NamesWith(had, item, names) ==
  /\ \A p \in Platforms : had[p] \subseteq names[p]
  /\ \A p \in Platforms : p \in item.platforms /\ item.name # "" => item.name \in names[p]

LEMMA NamesListed ==
  ASSUME NEW items, MenuOK(items), NEW had, NamesKept(items, had), NEW item, NEW names,
         NamesWith(had, item, names)
  PROVE  NamesKept(Append(items, item), names)
<1> DEFINE n == Len(items)
           more == Append(items, item)
<1>1. /\ n \in Nat /\ DOMAIN items = 1 .. n /\ DOMAIN more = 1 .. n + 1
      /\ \A i \in 1 .. n : more[i] = items[i]
      /\ more[n + 1] = item
  <2> IsList(items)
    BY DEF MenuOK
  <2> QED BY AppendFacts
<1> HIDE DEF n, more
<1>2. ASSUME NEW i \in DOMAIN more, i # n + 1
      PROVE  i \in DOMAIN items /\ more[i] = items[i]
  BY <1>1, <1>2
<1>3. ASSUME NEW p \in Platforms, NEW i \in DOMAIN more, i # n + 1,
             p \in more[i].platforms, more[i].name # ""
      PROVE  more[i].name \in names[p]
  <2>1. i \in DOMAIN items /\ more[i] = items[i]
    BY <1>2, <1>3
  <2> QED BY <2>1, <1>3 DEF NamesKept, NamesWith
<1>4. ASSUME NEW p \in Platforms, NEW i \in DOMAIN more, i = n + 1,
             p \in more[i].platforms, more[i].name # ""
      PROVE  more[i].name \in names[p]
  BY <1>1, <1>4 DEF NamesWith
<1>5. NamesKept(more, names)
  BY <1>3, <1>4 DEF NamesKept
<1> QED BY <1>5 DEF more

LEMMA MenuItemTurn ==
  ASSUME NEW s, ReaderOK(s), MenuInv(s), s.todo # << >>, s.todo[1].do = "menuItem"
  PROVE  MenuTurn(Turn(s), s)
<1> DEFINE c == s.todo[1]
           el == c.el
           parent == c.parent
           item == MenuItemOf(el, parent)
           m == s.menu
           named(p) == el.name # "" /\ p \in item.platforms
           calls == IF el.tag = "submenu" THEN MenuItemCalls(el.children, item) ELSE << >>
           names == [p \in Platforms |-> IF named(p) THEN m.names[p] \cup {el.name} ELSE m.names[p]]
           menu == [name |-> m.name, items |-> Append(m.items, item), names |-> names]
           t == WithMenu(Make(s, calls), menu)
<1>1. GoodCall(c) /\ Turn(s) = Call(s, c)
  BY FirstCall
<1>2. /\ el \in Elements /\ parent.depth \in Nat /\ parent.platforms \subseteq Platforms
  BY <1>1 DEF GoodCall
<1>3. 1 \in DOMAIN s.todo /\ DOMAIN s.todo = 1 .. Len(s.todo)
  BY TailFacts DEF ReaderOK, GoodCalls
<1>4. MenuReading(s)
  BY <1>3 DEF MenuInv, MenuKinds
<1>5. \/ Turn(s) = Refuse(s)
      \/ /\ Turn(s) = t
         /\ \A p \in Platforms : ~(named(p) /\ el.name \in m.names[p])
  BY <1>1 DEF Call, ParseMenuItem, WithMenu
<1>6. NextItemOf(item, parent) /\ item.name = el.name
  BY <1>2 DEF NextItemOf, MenuItemOf, ItemPlatforms
<1>7. GoodCalls(calls) /\ \A i \in DOMAIN calls : calls[i].do = "menuItem" /\ calls[i].parent = item
  <2>1. ElementsIn(el.children)
    BY <1>2, ElementsAssumption
  <2>2. item.depth \in Nat /\ item.platforms \subseteq Platforms
    BY <1>6 DEF NextItemOf
  <2> HIDE DEF item
  <2> QED BY <2>1, <2>2, MenuItemCallsFacts, EmptyFacts
<1> HIDE DEF item, calls
<1>8. ASSUME Turn(s) = t, \A p \in Platforms : ~(named(p) /\ el.name \in m.names[p])
      PROVE  MenuTurn(t, s)
  <2>1. /\ ReaderOK(t) /\ Follows(t, s, calls)
        /\ t.res = s.res /\ t.menu = menu /\ t.layout = s.layout
    <3> HIDE DEF menu
    <3>1. GoodCalls(calls)
      BY <1>7
    <3> QED BY <3>1, MakeMenuFacts
  <2>2. menu.items = Append(m.items, item) /\ menu.names = names
    OBVIOUS
  <2> HIDE DEF t, menu
  <2>3. /\ MenuOK(m.items) /\ NamesKept(m.items, m.names)
        /\ PendingAllowed(s.todo, m.items) /\ DeepestFirst(s.todo, {"menuItem"})
    BY <1>4, MenuReadingParts
  <2>4. NameFree(m.items, item)
    <3> SUFFICES ASSUME NEW i \in DOMAIN m.items, m.items[i].name = item.name, item.name # "",
                        NEW p \in m.items[i].platforms, p \in item.platforms
                 PROVE  FALSE
      BY DEF NameFree
    <3>1. p \in Platforms
      BY <2>3 DEF MenuOK
    <3>2. el.name \in m.names[p]
      BY <3>1, <2>3, <1>6 DEF NamesKept
    <3> QED BY <3>1, <3>2, <1>6, <1>8
  <2>5. AllowsOnly(m.items, parent)
    BY <2>3, <1>3 DEF PendingAllowed
  <2>6. MenuOK(menu.items)
    <3> DEFINE items == m.items
    <3>1. MenuOK(items) /\ NameFree(items, item) /\ AllowsOnly(items, parent)
      BY <2>3, <2>4, <2>5
    <3> HIDE DEF items, parent
    <3>2. MenuOK(Append(items, item))
      BY <3>1, <1>6, MenuItemListed
    <3> QED BY <2>2, <3>2 DEF items
  <2>7. NamesKept(menu.items, menu.names)
    <3> DEFINE items == m.items
               had == m.names
    <3>1. MenuOK(items) /\ NamesKept(items, had)
      BY <2>3
    <3>2. \A p \in Platforms : had[p] \subseteq names[p]
      OBVIOUS
    <3>3. NamesWith(had, item, names)
      BY <1>6, <3>2 DEF NamesWith
    <3> HIDE DEF items, had, names
    <3>4. NamesKept(Append(items, item), names)
      BY <3>1, <3>3, NamesListed
    <3> QED BY <2>2, <3>4 DEF items
  <2>8. PendingAllowed(t.todo, menu.items)
    <3> DEFINE items == m.items
    <3>1. MenuOK(items) /\ PendingAllowed(s.todo, items) /\ GoodCalls(s.todo)
      BY <2>3 DEF ReaderOK
    <3>2. NextItemOf(item, s.todo[1].parent) /\ s.todo[1].do = "menuItem"
      BY <1>6
    <3> HIDE DEF items, parent, m, el, c
    <3>3. PendingAllowed(t.todo, Append(items, item))
      BY <2>1, <2>3, <3>1, <3>2, <1>7, PendingStays
    <3> QED BY <2>2, <3>3 DEF items
  <2>9. DeepestFirst(t.todo, {"menuItem"})
    <3>1. item.depth \in Nat /\ item.depth >= parent.depth
      BY <1>2, <1>6 DEF NextItemOf
    <3>2. \A i \in DOMAIN calls : calls[i].do \in {"menuItem"} => calls[i].parent.depth = item.depth
      BY <1>7
    <3> DEFINE d == item.depth
    <3>3. GoodCalls(s.todo)
      BY DEF ReaderOK
    <3> DEFINE kinds == {"menuItem"}
    <3>6. DeepestFirst(s.todo, kinds) /\ DeeperBy(calls, kinds, s, d)
      BY <2>3, <3>1, <3>2 DEF DeeperBy
    <3>7. Follows(t, s, calls)
      BY <2>1
    <3> HIDE DEF d, parent, m, el, c, kinds
    <3>8. DeepestFirst(t.todo, kinds)
      BY <3>3, <3>6, <3>7, DeepestStays
    <3> QED BY <3>8 DEF kinds
  <2>10. MenuFirst(t)
    BY <2>1, <1>3, <1>7, MenuItemFirst DEF MenuInv
  <2>11. MenuReading(t)
    BY <2>1, <2>6, <2>7, <2>8, <2>9, MenuReadingParts
  <2>12. MenuInv(t)
    BY <2>1, <2>10, <2>11 DEF MenuInv
  <2>13. OnlyMakes(t, s, MenuKinds)
    BY <2>1, <1>7 DEF OnlyMakes, MenuKinds
  <2> QED BY <2>1, <2>12, <2>13 DEF MenuTurn
<1> HIDE DEF t
<1> QED BY <1>5, <1>8, MenuRefuse

LEMMA EmptyMenuOK == MenuOK(<< >>) /\ DOMAIN << >> = {}
  BY EmptyFacts, EmptyList DEF MenuOK

(* A menu begins: no calls of another are left.                            *)
LEMMA MenuTurnBegin ==
  ASSUME NEW s, ReaderOK(s), MenuInv(s), s.todo # << >>,
         s.todo[1].do = "element", s.todo[1].el.tag = "menu"
  PROVE  MenuTurn(Turn(s), s)
<1> DEFINE el == s.todo[1].el
           parent == [depth |-> 0, platforms |-> Platforms]
           own == MenuItemCalls(el.children, parent)
           end == <<[do |-> "endMenu"]>>
           calls == own \o end
           menu == [name |-> el.name, names |-> [p \in Platforms |-> {}], items |-> << >>]
           t == WithMenu(Make(s, calls), menu)
<1>1. GoodCall(s.todo[1]) /\ Turn(s) = Call(s, s.todo[1])
  BY FirstCall
<1>2. el \in Elements /\ ElementsIn(el.children)
  BY <1>1, ElementsAssumption DEF GoodCall
<1>3. Turn(s) \in {Refuse(s), t}
  BY <1>1 DEF Call, ParseElement, ParseMenu, WithMenu
<1>4. GoodCalls(own) /\ \A i \in DOMAIN own : own[i].do = "menuItem" /\ own[i].parent = parent
  BY <1>2, MenuItemCallsFacts
<1>5. IsList(end) /\ Len(end) = 1 /\ end[1].do = "endMenu" /\ DOMAIN end = 1 .. 1 /\ GoodCall(end[1])
  BY OneList DEF GoodCall, LayoutCalls
<1>6. parent.depth = 0
  OBVIOUS
<1> DEFINE k == Len(own)
<1> HIDE DEF own, end, parent
<1>7. /\ IsList(calls) /\ k \in Nat /\ DOMAIN calls = 1 .. k + 1 /\ Len(calls) = k + 1
      /\ \A i \in 1 .. k + 1 : calls[i] = IF i <= k THEN own[i] ELSE end[i - k]
      /\ DOMAIN own = 1 .. k
  <2>1. IsList(own) /\ IsList(end) /\ Len(end) = 1
    BY <1>4, <1>5 DEF GoodCalls
  <2>2. /\ IsList(own \o end)
        /\ Len(own) \in Nat /\ Len(own \o end) = Len(own) + Len(end)
        /\ DOMAIN (own \o end) = 1 .. Len(own) + Len(end)
        /\ \A i \in 1 .. Len(own) + Len(end) :
             (own \o end)[i] = IF i <= Len(own) THEN own[i] ELSE end[i - Len(own)]
    BY <2>1, ConcatLists
  <2>3. DOMAIN own = 1 .. Len(own)
    BY <2>1, ListFacts
  <2>4. calls = own \o end
    OBVIOUS
  <2> HIDE DEF calls
  <2> QED BY <2>1, <2>2, <2>3, <2>4 DEF k
<1> HIDE DEF calls
<1>8. /\ \A i \in 1 .. k : calls[i] = own[i] /\ calls[i].do = "menuItem" /\ calls[i].parent.depth = 0
      /\ calls[k + 1] = end[1] /\ calls[k + 1].do = "endMenu"
  <2>1. \A i \in 1 .. k : calls[i] = own[i]
    BY <1>7
  <2>2. calls[k + 1] = end[1]
    BY <1>7
  <2>3. \A i \in 1 .. k : own[i].do = "menuItem" /\ own[i].parent.depth = 0
    BY <1>4, <1>6, <1>7
  <2>4. calls[k + 1].do = "endMenu"
    BY <2>2, <1>5
  <2> QED BY <2>1, <2>2, <2>3, <2>4
<1>9. GoodCalls(calls)
  <2> SUFFICES ASSUME NEW i \in DOMAIN calls PROVE GoodCall(calls[i])
    BY <1>7 DEF GoodCalls
  <2>1. CASE i <= k
    <3>1. i \in DOMAIN own /\ calls[i] = own[i]
      BY <1>7, <1>8, <2>1
    <3> QED BY <3>1, <1>4 DEF GoodCalls
  <2>2. CASE i > k
    <3>1. i = k + 1
      BY <1>7, <2>2
    <3> QED BY <3>1, <1>5, <1>8
  <2> QED BY <2>1, <2>2, <1>7
<1> HIDE DEF k
<1>10. MenuTurn(t, s)
  <2>1. menu.items = << >>
    OBVIOUS
  <2> HIDE DEF menu
  <2>2. /\ ReaderOK(t) /\ Follows(t, s, calls)
        /\ t.res = s.res /\ t.menu = menu /\ t.layout = s.layout
    BY <1>9, MakeMenuFacts
  <2> HIDE DEF t
  <2> DEFINE m == Len(s.todo)
  <2>3. /\ m \in Nat \ {0} /\ DOMAIN t.todo = 1 .. k + m /\ DOMAIN s.todo = 1 .. m
        /\ \A i \in 1 .. k + 1 : t.todo[i] = calls[i]
        /\ \A i \in DOMAIN t.todo : i > k + 1 => t.todo[i] = s.todo[i - (k + 1) + 1]
    BY <2>2, <1>7, ListFacts DEF Follows, ReaderOK, GoodCalls
  <2>4. \A q \in DOMAIN s.todo : q > 1 => s.todo[q].do \notin MenuKinds
    BY <2>3 DEF MenuInv, MenuFirst
  <2>5. ASSUME NEW q \in DOMAIN t.todo, q > k + 1
        PROVE  t.todo[q].do \notin MenuKinds
    <3> DEFINE x == q - (k + 1) + 1
    <3>1. x \in DOMAIN s.todo /\ x > 1 /\ t.todo[q] = s.todo[x]
      BY <2>3, <2>5, <1>7
    <3> HIDE DEF x
    <3> QED BY <3>1, <2>4
  <2>6. MenuFirst(t)
    <3> SUFFICES ASSUME NEW p \in DOMAIN t.todo, NEW q \in DOMAIN t.todo, p < q,
                        t.todo[q].do \in MenuKinds
                 PROVE  t.todo[p].do = "menuItem"
      BY DEF MenuFirst
    <3>1. q <= k + 1
      BY <2>3, <2>5, <1>7
    <3>2. p \in 1 .. k
      BY <3>1, <2>3, <1>7
    <3>3. p \in 1 .. k + 1
      BY <3>2, <1>7
    <3> QED BY <3>2, <3>3, <2>3, <1>8
  <2>7. \A q \in DOMAIN t.todo : t.todo[q].do = "menuItem" => t.todo[q].parent.depth = 0
    <3> SUFFICES ASSUME NEW q \in DOMAIN t.todo, t.todo[q].do = "menuItem"
                 PROVE  t.todo[q].parent.depth = 0
      OBVIOUS
    <3>1. q \in 1 .. k + 1
      BY <2>3, <2>5, <1>7 DEF MenuKinds
    <3>2. t.todo[q] = calls[q]
      BY <3>1, <2>3
    <3>3. q # k + 1
      BY <3>2, <1>8
    <3>4. q \in 1 .. k
      BY <3>1, <3>3, <1>7
    <3> QED BY <3>2, <3>4, <1>8
  <2>8. DeepestFirst(t.todo, {"menuItem"})
    BY <2>7 DEF DeepestFirst
  <2>9. MenuReading(t)
    BY <2>1, <2>2, <2>8, EmptyMenuOK, MenuReadingParts DEF NamesKept, PendingAllowed, AllowsOnly
  <2>10. MenuInv(t)
    BY <2>2, <2>6, <2>9 DEF MenuInv
  <2>11. OnlyMakes(t, s, MenuKinds)
    <3>1. \A i \in DOMAIN calls : calls[i].do \in MenuKinds
      <4> SUFFICES ASSUME NEW i \in DOMAIN calls PROVE calls[i].do \in MenuKinds
        OBVIOUS
      <4>1. i \in 1 .. k \/ i = k + 1
        BY <1>7
      <4> QED BY <4>1, <1>8 DEF MenuKinds
    <3> QED BY <2>2, <3>1 DEF OnlyMakes
  <2> QED BY <2>2, <2>10, <2>11 DEF MenuTurn
<1> HIDE DEF t
<1> QED BY <1>3, <1>10, MenuRefuse

(* It ends when none of its own are.                                       *)
LEMMA MenuTurnEnd ==
  ASSUME NEW s, ReaderOK(s), MenuInv(s), s.todo # << >>, s.todo[1].do = "endMenu"
  PROVE  MenuTurn(Turn(s), s)
<1> DEFINE d == Put(s.res.menus, s.menu.name, s.menu.items)
           r == [s.res EXCEPT !.menus = d]
           t == Return(s, r)
<1>1. GoodCall(s.todo[1]) /\ Turn(s) = Call(s, s.todo[1])
  BY FirstCall
<1>2. Turn(s) = t
  BY <1>1 DEF Call, EndMenu
<1>3. 1 \in DOMAIN s.todo
  BY TailFacts DEF ReaderOK, GoodCalls
<1>4. MenuOK(s.menu.items)
  BY <1>3 DEF MenuInv, MenuReading, MenuKinds
<1>5. \A n \in DOMAIN d : MenuOK(d[n])
  BY <1>4 DEF Put, MenuInv
<1> HIDE DEF d
<1>6. ResOK(r) /\ r.menus = d /\ r.layouts = s.res.layouts
  <2>1. ResOK(s.res)
    BY DEF ReaderOK
  <2>2. /\ DOMAIN r = Registry /\ r.ok = s.res.ok /\ r.styles = s.res.styles
        /\ r.includes = s.res.includes /\ r.drawables = s.res.drawables /\ r.raws = s.res.raws
    BY <2>1 DEF ResOK, Registry
  <2>3. r.menus = d /\ r.layouts = s.res.layouts
    BY <2>1 DEF ResOK, Registry
  <2> HIDE DEF r
  <2> QED BY <2>1, <2>2, <2>3 DEF ResOK
<1> HIDE DEF r
<1>7. /\ ReaderOK(t) /\ t.res = r /\ t.menu = s.menu /\ t.layout = s.layout
      /\ Ends(t, s) \/ Follows(t, s, << >>)
  BY <1>6, ReturnFacts
<1> HIDE DEF t
<1>8. OnlyMakes(t, s, {})
  <2>1. CASE Ends(t, s)
    BY <2>1 DEF Ends, OnlyMakes
  <2>2. CASE Follows(t, s, << >>)
    BY <2>2, EmptyFacts DEF OnlyMakes
  <2> QED BY <1>7, <2>1, <2>2
<1>9. NoMenuCalls(t)
  <2> DEFINE kinds == {}
  <2>1. kinds \cap MenuKinds = {} /\ OnlyMakes(t, s, kinds)
    BY <1>8
  <2>2. MenuFirst(s) /\ s.todo[1].do # "menuItem"
    BY DEF MenuInv
  <2> HIDE DEF kinds
  <2> QED BY <2>1, <2>2, MenuCallsGone
<1>10. MenuInv(t)
  BY <1>5, <1>6, <1>7, <1>9 DEF MenuInv, MenuFirst, NoMenuCalls
<1>11. OnlyMakes(t, s, MenuKinds)
  BY <1>8 DEF OnlyMakes
<1>12. MenuTurn(t, s)
  BY <1>6, <1>7, <1>10, <1>11 DEF MenuTurn
<1> QED BY <1>2, <1>12

-----------------------------------------------------------------------------
(* Layouts *)

LayoutKinds == LayoutCalls \cup {"enterName", "endLayout"}

(* The items of a layout: those with the same name are inside one another, *)
(* and a view is placed by an earlier one that it is not inside of.        *)
SameNested(items) ==
  \A i, j \in DOMAIN items : i < j /\ items[i].name = items[j].name => Inside(items, i, j)

Aligned(items) ==
  \A j \in DOMAIN items : \A side \in Sides : items[j].pos.ref[side] # None =>
    \E i \in 1 .. j - 1 : items[i].name = items[j].pos.ref[side] /\ ~Inside(items, i, j)

LayoutOK(items) ==
  /\ IsList(items)
  /\ \A i \in DOMAIN items :
       items[i].depth \in Nat /\ (items[i].type # "import" => items[i].import = None)
  /\ SameNested(items)
  /\ Aligned(items)

(* The calls that read a layout come before all others, the last of them   *)
(* at its end.                                                             *)
LayoutFirst(s) ==
  \A p, q \in DOMAIN s.todo :
    p < q /\ s.todo[q].do \in LayoutKinds => s.todo[p].do \in LayoutKinds \ {"endLayout"}

(* The root comes first and everything else is inside it.                  *)
Rooted(todo, items) ==
  IF items = << >>
  THEN /\ todo[1].do = "item" /\ todo[1].parent.depth = 0 /\ todo[1].el.tag = "layout"
       /\ \A q \in DOMAIN todo : q > 1 => todo[q].do \notin LayoutKinds \ {"endLayout"}
  ELSE /\ \A j \in DOMAIN items : j > 1 => items[j].depth > items[1].depth
       /\ items[1].depth = 1
       /\ \A q \in DOMAIN todo : todo[q].do \in LayoutCalls => todo[q].parent.depth >= 1

(* A name that is still to be entered is that of an item whose inside is    *)
(* being read: the calls before it are inside the item, those behind it not. *)
Entering(todo, items) ==
  \A q \in DOMAIN todo : todo[q].do = "enterName" =>
    /\ todo[q].at \in DOMAIN items
    /\ \A k \in DOMAIN items : k > todo[q].at => items[k].depth > items[todo[q].at].depth

InsideFirst(todo, items) ==
  \A p, q \in DOMAIN todo :
    p < q /\ todo[p].do \in LayoutCalls /\ todo[q].do = "enterName" =>
      todo[p].parent.depth >= items[todo[q].at].depth

OutsideBehind(todo, items) ==
  \A p, q \in DOMAIN todo :
    p < q /\ todo[p].do = "enterName" /\ todo[q].do \in LayoutCalls =>
      todo[q].parent.depth < items[todo[p].at].depth

NamesToCome(todo, items, names) ==
  \A i \in DOMAIN items : i > 1 =>
    items[i].name \in names \/ \E q \in DOMAIN todo : todo[q].do = "enterName" /\ todo[q].at = i

(* A name that was entered is that of an item that has been left.          *)
LeftAlready(todo, items, i) ==
  \/ \E k \in DOMAIN items : k > i /\ items[k].depth <= items[i].depth
  \/ \A q \in DOMAIN todo : todo[q].do \in LayoutCalls => todo[q].parent.depth < items[i].depth

NamesAreLeft(todo, items, names) ==
  \A name \in names : \E i \in DOMAIN items :
    items[i].name = name /\ LeftAlready(todo, items, i)

LayoutState(lay) ==
  /\ DOMAIN lay = {"name", "type", "sp", "names", "items", "counts"}
  /\ lay.counts \in [ControlType -> Nat] /\ IsFiniteSet(lay.names)
  /\ LayoutOK(lay.items)

LayoutPending(todo, items, names) ==
  /\ Rooted(todo, items)
  /\ Entering(todo, items)
  /\ InsideFirst(todo, items)
  /\ OutsideBehind(todo, items)
  /\ NamesToCome(todo, items, names)
  /\ NamesAreLeft(todo, items, names)
  /\ DeepestFirst(todo, LayoutCalls)

LayoutReading(s) ==
  LayoutState(s.layout) /\ LayoutPending(s.todo, s.layout.items, s.layout.names)

LayoutInv(s) ==
  /\ \A n \in DOMAIN s.res.layouts : LayoutOK(s.res.layouts[n].items)
  /\ LayoutFirst(s)
  /\ (\E q \in DOMAIN s.todo : s.todo[q].do \in LayoutKinds) => LayoutReading(s)

(* Each set of numbers has a least.                                         *)
LEMMA LessOnNat == IsWellFoundedOn({ss \in Nat \X Nat : ss[1] < ss[2]}, Nat)
  BY NatLessThanWellFounded DEF OpToRel

LEMMA LeastNumber ==
  ASSUME NEW T, T \subseteq Nat, T # {}
  PROVE  \E m \in T : \A n \in T : m <= n
<1> DEFINE R == {ss \in Nat \X Nat : ss[1] < ss[2]}
<1>1. PICK m \in T : \A n \in T : <<n, m>> \notin R
  <2> IsWellFoundedOn(R, Nat)
    BY LessOnNat
  <2> HIDE DEF R
  <2> QED BY WFMin
<1>2. \A n \in T : ~(n < m)
  BY <1>1
<1> QED BY <1>2

(* The names that are made with different numbers are different names.     *)
AutoNamesDiffer ==
  \A t \in ControlType : \A m, n \in Nat : AutoName(t, m) = AutoName(t, n) => m = n

(* A number that makes a new name is found among so many.                  *)
LEMMA AutoNumberFacts ==
  ASSUME AutoNamesDiffer, NEW lay, NEW tag \in ControlType,
         lay.counts[tag] \in Nat, IsFiniteSet(lay.names)
  PROVE  AutoNumber(lay, tag) \in Nat /\ AutoName(tag, AutoNumber(lay, tag)) \notin lay.names
<1> DEFINE c == lay.counts[tag]
           names == lay.names
           name(n) == AutoName(tag, n)
           N == Cardinality(names)
           S == c + 1 .. c + N + 1
           free == {n \in S : name(n) \notin names}
<1>1. c \in Nat /\ N \in Nat
  BY FS_CardinalityType
<1>2. IsFiniteSet(S) /\ Cardinality(S) = N + 1
  <2> HIDE DEF c, N
  <2>1. c + 1 \in Int /\ c + N + 1 \in Int
    BY <1>1
  <2>2. IsFiniteSet(S) /\ Cardinality(S) = IF c + 1 > c + N + 1 THEN 0 ELSE (c + N + 1) - (c + 1) + 1
    BY <2>1, FS_Interval
  <2>3. (c + N + 1) - (c + 1) + 1 = N + 1 /\ ~(c + 1 > c + N + 1)
    BY <1>1
  <2> HIDE DEF S
  <2> QED BY <2>2, <2>3
<1>3. free # {}
  <2> SUFFICES ASSUME free = {} PROVE FALSE
    OBVIOUS
  <2> DEFINE f == [n \in S |-> name(n)]
  <2>1. f \in [S -> names]
    OBVIOUS
  <2>2. Cardinality(names) < Cardinality(S)
    <3> HIDE DEF S
    <3> QED BY <1>1, <1>2
  <2>3. PICK x \in S, y \in S : x # y /\ f[x] = f[y]
    <3> HIDE DEF S, f
    <3> QED BY <1>2, <2>1, <2>2, FS_PigeonHole
  <2>4. name(x) = name(y)
    BY <2>3
  <2>5. x \in Nat /\ y \in Nat
    BY <1>1
  <2> QED BY <2>3, <2>4, <2>5 DEF AutoNamesDiffer
<1>4. free \subseteq Nat
  <2> HIDE DEF c, N, names, name
  <2> QED BY <1>1
<1>5. PICK m \in free : \A n \in free : m <= n
  <2> HIDE DEF free
  <2> QED BY <1>3, <1>4, LeastNumber
<1> DEFINE P(n) == name(n) \notin names /\ \A k \in c + 1 .. n - 1 : name(k) \in names
<1>6. m \in S /\ P(m)
  <2> HIDE DEF c, N, name, names
  <2>1. m \in S /\ name(m) \notin names /\ m \in Nat
    BY <1>4
  <2>2. ASSUME NEW k \in c + 1 .. m - 1, name(k) \notin names PROVE FALSE
    <3>1. k \in S /\ k < m /\ k \in Nat
      BY <2>1, <1>1
    <3>2. k \in free
      BY <3>1, <2>2
    <3>3. m <= k
      BY <1>5, <3>2
    <3> QED BY <3>1, <3>3, <2>1
  <2> QED BY <2>1, <2>2
<1>7. AutoNumber(lay, tag) = CHOOSE n \in S : P(n)
  BY DEF AutoNumber
<1>8. AutoNumber(lay, tag) \in S /\ P(AutoNumber(lay, tag))
  <2> HIDE DEF S, P
  <2> QED BY <1>6, <1>7
<1>9. S \subseteq Nat
  <2> HIDE DEF c, N
  <2> QED BY <1>1
<1> HIDE DEF S
<1> QED BY <1>8, <1>9

-----------------------------------------------------------------------------
(* Items of a layout *)

LEMMA ItemAppended ==
  ASSUME NEW items, IsList(items), NEW item
  PROVE  LET more == Append(items, item)
             n == Len(items)
         IN /\ IsList(more) /\ n \in Nat /\ Len(more) = n + 1
            /\ DOMAIN items = 1 .. n /\ DOMAIN more = 1 .. n + 1 /\ more[n + 1] = item
            /\ \A i \in DOMAIN items : i \in DOMAIN more /\ more[i] = items[i] /\ i < n + 1
            /\ \A i, j \in DOMAIN items : Inside(more, i, j) <=> Inside(items, i, j)
            /\ \A i \in DOMAIN items :
                 Inside(more, i, n + 1) <=> WouldBeInside(items, i, item.depth)
            /\ \A i \in DOMAIN more : i \in DOMAIN items \/ i = n + 1
<1> DEFINE more == Append(items, item)
           n == Len(items)
<1>1. /\ IsList(more) /\ n \in Nat /\ Len(more) = n + 1
      /\ DOMAIN items = 1 .. n /\ DOMAIN more = 1 .. n + 1 /\ more[n + 1] = item
      /\ \A i \in 1 .. n : more[i] = items[i]
  BY AppendFacts
<1> HIDE DEF more, n
<1>2. \A i \in 1 .. n : i \in 1 .. n + 1 /\ i < n + 1
  BY <1>1
<1>3. /\ \A i, j \in 1 .. n : Inside(more, i, j) <=> Inside(items, i, j)
      /\ \A i \in 1 .. n : Inside(more, i, n + 1) <=>
           more[n + 1].depth > items[i].depth
           /\ \A k \in i + 1 .. n : items[k].depth > items[i].depth
  BY <1>1, InsideAppend
<1>4. \A i \in 1 .. n : Inside(more, i, n + 1) <=> WouldBeInside(items, i, item.depth)
  BY <1>1, <1>3 DEF WouldBeInside, n
<1>5. \A i \in 1 .. n + 1 : i \in 1 .. n \/ i = n + 1
  BY <1>1
<1> QED BY <1>1, <1>2, <1>3, <1>4, <1>5 DEF more, n

(* What a next item refers to, and the items that have its name.           *)
RefsLeft(items, item) ==
  \A side \in Sides : item.pos.ref[side] # None =>
    \E i \in DOMAIN items : items[i].name = item.pos.ref[side]
                            /\ ~WouldBeInside(items, i, item.depth)

NamesNested(items, item) ==
  \A i \in DOMAIN items : items[i].name = item.name => WouldBeInside(items, i, item.depth)

PlainItem(item) == item.depth \in Nat /\ (item.type # "import" => item.import = None)

LEMMA LayoutListed ==
  ASSUME NEW items, LayoutOK(items), NEW item, PlainItem(item),
         RefsLeft(items, item), NamesNested(items, item)
  PROVE  LayoutOK(Append(items, item))
<1> DEFINE more == Append(items, item)
           n == Len(items)
<1>1. /\ IsList(more) /\ n \in Nat /\ Len(more) = n + 1
      /\ DOMAIN items = 1 .. n /\ DOMAIN more = 1 .. n + 1 /\ more[n + 1] = item
      /\ \A i \in DOMAIN items : i \in DOMAIN more /\ more[i] = items[i] /\ i < n + 1
      /\ \A i, j \in DOMAIN items : Inside(more, i, j) <=> Inside(items, i, j)
      /\ \A i \in DOMAIN items :
           Inside(more, i, n + 1) <=> WouldBeInside(items, i, item.depth)
      /\ \A i \in DOMAIN more : i \in DOMAIN items \/ i = n + 1
  <2> IsList(items)
    BY DEF LayoutOK
  <2> QED BY ItemAppended
<1> HIDE DEF more, n
<1>2. ASSUME NEW i \in DOMAIN more
      PROVE  more[i].depth \in Nat /\ (more[i].type # "import" => more[i].import = None)
  <2>1. CASE i = n + 1
    <3>1. more[i] = item
      BY <2>1, <1>1
    <3> QED BY <3>1 DEF PlainItem
  <2>2. CASE i \in DOMAIN items
    <3>1. more[i] = items[i]
      BY <2>2, <1>1
    <3> QED BY <2>2, <3>1 DEF LayoutOK
  <2> QED BY <2>1, <2>2, <1>1
<1>3. ASSUME NEW i \in DOMAIN more, NEW j \in DOMAIN more, i < j, more[i].name = more[j].name
      PROVE  Inside(more, i, j)
  <2>1. i < n + 1
    BY <1>1, <1>3
  <2>2. i \in DOMAIN items /\ more[i] = items[i]
    BY <1>1, <2>1
  <2>3. CASE j = n + 1
    <3>1. more[j] = item
      BY <1>1, <2>3
    <3>2. WouldBeInside(items, i, item.depth)
      BY <1>3, <2>2, <3>1 DEF NamesNested
    <3> QED BY <1>1, <2>2, <2>3, <3>2
  <2>4. CASE j \in DOMAIN items
    <3>1. more[j] = items[j]
      BY <1>1, <2>4
    <3>2. Inside(items, i, j)
      BY <1>3, <2>2, <2>4, <3>1 DEF LayoutOK, SameNested
    <3> QED BY <1>1, <2>2, <2>4, <3>2
  <2> QED BY <1>1, <2>3, <2>4
<1>4. ASSUME NEW j \in DOMAIN more, NEW side \in Sides, more[j].pos.ref[side] # None
      PROVE  \E i \in 1 .. j - 1 : more[i].name = more[j].pos.ref[side] /\ ~Inside(more, i, j)
  <2>1. CASE j = n + 1
    <3>1. more[j] = item
      BY <1>1, <2>1
    <3>2. PICK i \in DOMAIN items : items[i].name = item.pos.ref[side]
                                   /\ ~WouldBeInside(items, i, item.depth)
      BY <1>4, <3>1 DEF RefsLeft
    <3>3. more[i] = items[i] /\ ~Inside(more, i, n + 1)
      BY <1>1, <3>2
    <3>4. i \in 1 .. j - 1
      BY <1>1, <2>1
    <3> QED BY <2>1, <3>1, <3>2, <3>3, <3>4
  <2>2. CASE j \in DOMAIN items
    <3>1. more[j] = items[j]
      BY <1>1, <2>2
    <3>2. PICK i \in 1 .. j - 1 : items[i].name = items[j].pos.ref[side] /\ ~Inside(items, i, j)
      BY <1>4, <2>2, <3>1 DEF LayoutOK, Aligned
    <3>3. i \in DOMAIN items
      BY <1>1, <2>2
    <3>4. more[i] = items[i] /\ ~Inside(more, i, j)
      BY <1>1, <2>2, <3>2, <3>3
    <3> QED BY <3>1, <3>2, <3>4
  <2> QED BY <1>1, <2>1, <2>2
<1>5. SameNested(more) /\ Aligned(more)
  BY <1>3, <1>4 DEF SameNested, Aligned
<1>6. LayoutOK(more)
  BY <1>1, <1>2, <1>5 DEF LayoutOK
<1> QED BY <1>6 DEF more

(* A call of t was made by the first of s, or was waiting behind it.       *)
Made(q, calls) == q <= Len(calls)
Was(q, calls) == q - Len(calls) + 1
Will(x, calls) == Len(calls) + x - 1

LEMMA FollowsCases ==
  ASSUME NEW s, NEW t, NEW calls, Follows(t, s, calls), GoodCalls(s.todo)
  PROVE  /\ 1 \in DOMAIN s.todo
         /\ \A q \in DOMAIN t.todo : Made(q, calls) => q \in DOMAIN calls /\ t.todo[q] = calls[q]
         /\ \A q \in DOMAIN t.todo : ~Made(q, calls) =>
              Was(q, calls) \in DOMAIN s.todo /\ 1 < Was(q, calls)
              /\ t.todo[q] = s.todo[Was(q, calls)]
         /\ \A p, q \in DOMAIN t.todo : p < q =>
              (Made(q, calls) => Made(p, calls)) /\ Was(p, calls) < Was(q, calls)
         /\ \A i \in DOMAIN calls : i \in DOMAIN t.todo /\ Made(i, calls) /\ t.todo[i] = calls[i]
         /\ \A x \in DOMAIN s.todo : x = 1 \/
              (1 < x /\ Will(x, calls) \in DOMAIN t.todo /\ t.todo[Will(x, calls)] = s.todo[x])
<1> DEFINE k == Len(calls)
           m == Len(s.todo)
<1>1. /\ k \in Nat /\ m \in Nat \ {0} /\ DOMAIN calls = 1 .. k /\ DOMAIN t.todo = 1 .. k + m - 1
      /\ DOMAIN s.todo = 1 .. m
  BY ListFacts DEF Follows, GoodCalls
<1>2. /\ \A i \in 1 .. k : t.todo[i] = calls[i]
      /\ \A i \in 2 .. m : t.todo[k + i - 1] = s.todo[i]
      /\ \A i \in DOMAIN t.todo : i > k => t.todo[i] = s.todo[i - k + 1]
  BY DEF Follows
<1>3. \A q \in DOMAIN t.todo : Made(q, calls) => q \in DOMAIN calls /\ t.todo[q] = calls[q]
  BY <1>1, <1>2 DEF Made
<1>4. \A q \in DOMAIN t.todo : ~Made(q, calls) =>
        Was(q, calls) \in DOMAIN s.todo /\ 1 < Was(q, calls)
        /\ t.todo[q] = s.todo[Was(q, calls)]
  BY <1>1, <1>2 DEF Made, Was
<1>5. \A p, q \in DOMAIN t.todo : p < q =>
        (Made(q, calls) => Made(p, calls)) /\ Was(p, calls) < Was(q, calls)
  BY <1>1 DEF Made, Was
<1>6. \A i \in DOMAIN calls : i \in DOMAIN t.todo /\ Made(i, calls) /\ t.todo[i] = calls[i]
  BY <1>1, <1>2 DEF Made
<1>7. \A x \in DOMAIN s.todo : x = 1 \/
        (1 < x /\ Will(x, calls) \in DOMAIN t.todo /\ t.todo[Will(x, calls)] = s.todo[x])
  BY <1>1, <1>2 DEF Will
<1> QED BY <1>1, <1>3, <1>4, <1>5, <1>6, <1>7

(* The calls for what is inside an item, or what is left of it.            *)
SameParent(calls, parent) ==
  \A i \in DOMAIN calls : calls[i].do \in LayoutCalls /\ calls[i].parent = parent

(* A list of elements is taken apart.                                      *)
LEMMA ListReading ==
  ASSUME NEW s, NEW t, NEW calls, GoodCalls(s.todo), LayoutReading(s),
         Follows(t, s, calls), t.layout = s.layout, s.todo[1].do \in {"items", "tabItems"},
         SameParent(calls, s.todo[1].parent)
  PROVE  LayoutReading(t)
<1> DEFINE items == s.layout.items
           names == s.layout.names
           parent == s.todo[1].parent
<1>1. /\ Rooted(s.todo, items) /\ Entering(s.todo, items) /\ InsideFirst(s.todo, items)
      /\ OutsideBehind(s.todo, items) /\ NamesToCome(s.todo, items, names)
      /\ NamesAreLeft(s.todo, items, names) /\ DeepestFirst(s.todo, LayoutCalls)
  BY DEF LayoutReading, LayoutPending
<1>2. /\ 1 \in DOMAIN s.todo
      /\ \A q \in DOMAIN t.todo : Made(q, calls) => q \in DOMAIN calls /\ t.todo[q] = calls[q]
      /\ \A q \in DOMAIN t.todo : ~Made(q, calls) =>
           Was(q, calls) \in DOMAIN s.todo /\ 1 < Was(q, calls)
           /\ t.todo[q] = s.todo[Was(q, calls)]
      /\ \A p, q \in DOMAIN t.todo : p < q =>
           (Made(q, calls) => Made(p, calls)) /\ Was(p, calls) < Was(q, calls)
      /\ \A x \in DOMAIN s.todo : x = 1 \/
           (1 < x /\ Will(x, calls) \in DOMAIN t.todo /\ t.todo[Will(x, calls)] = s.todo[x])
  BY FollowsCases
<1>3. \A q \in DOMAIN t.todo : Made(q, calls) =>
        t.todo[q].do \in LayoutCalls /\ t.todo[q].parent = parent
  BY <1>2 DEF SameParent
<1>4. s.todo[1].do \in LayoutCalls /\ "enterName" \notin LayoutCalls
      /\ s.todo[1].do \notin {"item", "enterName"}
  BY DEF LayoutCalls
<1>5. \A q \in DOMAIN t.todo : t.todo[q].do = "enterName" => ~Made(q, calls)
  BY <1>3, <1>4
<1> HIDE DEF items, names, parent
<1>6. items # << >>
  BY <1>1, <1>4 DEF Rooted
<1>7. Rooted(t.todo, items)
  <2> SUFFICES ASSUME NEW q \in DOMAIN t.todo, t.todo[q].do \in LayoutCalls
               PROVE  t.todo[q].parent.depth >= 1
    BY <1>1, <1>6 DEF Rooted
  <2>1. \A x \in DOMAIN s.todo : s.todo[x].do \in LayoutCalls => s.todo[x].parent.depth >= 1
    BY <1>1, <1>6 DEF Rooted
  <2>2. CASE Made(q, calls)
    BY <2>1, <2>2, <1>2, <1>3, <1>4 DEF parent
  <2>3. CASE ~Made(q, calls)
    BY <2>1, <2>3, <1>2
  <2> QED BY <2>2, <2>3
<1>8. Entering(t.todo, items)
  BY <1>1, <1>2, <1>5 DEF Entering
<1>9. InsideFirst(t.todo, items)
  <2> SUFFICES ASSUME NEW p \in DOMAIN t.todo, NEW q \in DOMAIN t.todo, p < q,
                      t.todo[p].do \in LayoutCalls, t.todo[q].do = "enterName"
               PROVE  t.todo[p].parent.depth >= items[t.todo[q].at].depth
    BY DEF InsideFirst
  <2>1. ~Made(q, calls)
    BY <1>5
  <2>2. CASE Made(p, calls)
    BY <2>1, <2>2, <1>1, <1>2, <1>3, <1>4 DEF InsideFirst, parent
  <2>3. CASE ~Made(p, calls)
    BY <2>1, <2>3, <1>1, <1>2 DEF InsideFirst
  <2> QED BY <2>2, <2>3
<1>10. OutsideBehind(t.todo, items)
  <2> SUFFICES ASSUME NEW p \in DOMAIN t.todo, NEW q \in DOMAIN t.todo, p < q,
                      t.todo[p].do = "enterName", t.todo[q].do \in LayoutCalls
               PROVE  t.todo[q].parent.depth < items[t.todo[p].at].depth
    BY DEF OutsideBehind
  <2>1. ~Made(p, calls) /\ ~Made(q, calls)
    BY <1>2, <1>5
  <2> QED BY <2>1, <1>1, <1>2 DEF OutsideBehind
<1>11. NamesToCome(t.todo, items, names)
  <2> SUFFICES ASSUME NEW i \in DOMAIN items, i > 1, items[i].name \notin names
               PROVE  \E q \in DOMAIN t.todo : t.todo[q].do = "enterName" /\ t.todo[q].at = i
    BY DEF NamesToCome
  <2>1. PICK x \in DOMAIN s.todo : s.todo[x].do = "enterName" /\ s.todo[x].at = i
    BY <1>1 DEF NamesToCome
  <2>2. x # 1
    BY <2>1, <1>4
  <2> QED BY <2>1, <2>2, <1>2
<1>12. NamesAreLeft(t.todo, items, names)
  <2>1. ASSUME NEW i, LeftAlready(s.todo, items, i) PROVE LeftAlready(t.todo, items, i)
    <3>1. ASSUME \A x \in DOMAIN s.todo : s.todo[x].do \in LayoutCalls =>
                   s.todo[x].parent.depth < items[i].depth,
                 NEW q \in DOMAIN t.todo, t.todo[q].do \in LayoutCalls
          PROVE  t.todo[q].parent.depth < items[i].depth
      <4>1. CASE Made(q, calls)
        BY <4>1, <3>1, <1>2, <1>3, <1>4 DEF parent
      <4>2. CASE ~Made(q, calls)
        BY <4>2, <3>1, <1>2
      <4> QED BY <4>1, <4>2
    <3> QED BY <2>1, <3>1 DEF LeftAlready
  <2> QED BY <2>1, <1>1 DEF NamesAreLeft
<1>13. DeepestFirst(t.todo, LayoutCalls)
  <2> DEFINE d == parent.depth
  <2>1. d \in Nat
    <3>1. GoodCall(s.todo[1])
      BY <1>2 DEF GoodCalls
    <3> QED BY <3>1, <1>4 DEF GoodCall, parent
  <2>2. DeeperBy(calls, LayoutCalls, s, d)
    <3>1. LayoutCalls \subseteq {"menuItem", "item", "items", "tabItems"}
      BY DEF LayoutCalls
    <3>2. d >= s.todo[1].parent.depth
      BY <2>1 DEF parent
    <3>3. \A i \in DOMAIN calls : calls[i].do \in LayoutCalls => calls[i].parent.depth = d
      BY DEF SameParent, parent
    <3> HIDE DEF d
    <3> QED BY <2>1, <3>1, <3>2, <3>3, <1>4 DEF DeeperBy
  <2> HIDE DEF d
  <2> QED BY <2>2, <1>1, DeepestStays
<1> QED
  BY <1>7, <1>8, <1>9, <1>10, <1>11, <1>12, <1>13
     DEF LayoutReading, LayoutPending, items, names

(* An item has been left, and its name is entered.                         *)
LEMMA EnterReading ==
  ASSUME NEW s, NEW t, GoodCalls(s.todo), LayoutReading(s), Follows(t, s, << >>),
         s.todo[1].do = "enterName",
         LayoutState(t.layout), t.layout.items = s.layout.items,
         t.layout.names = s.layout.names \cup {s.layout.items[s.todo[1].at].name}
  PROVE  LayoutReading(t)
<1> DEFINE items == s.layout.items
           names == s.layout.names
           at == s.todo[1].at
           calls == << >>
<1>1. /\ Rooted(s.todo, items) /\ Entering(s.todo, items) /\ InsideFirst(s.todo, items)
      /\ OutsideBehind(s.todo, items) /\ NamesToCome(s.todo, items, names)
      /\ NamesAreLeft(s.todo, items, names) /\ DeepestFirst(s.todo, LayoutCalls)
  BY DEF LayoutReading, LayoutPending
<1>2. DOMAIN calls = {}
  BY EmptyFacts
<1>3. Follows(t, s, calls)
  OBVIOUS
<1> HIDE DEF calls
<1>4. /\ 1 \in DOMAIN s.todo
      /\ \A q \in DOMAIN t.todo :
           Was(q, calls) \in DOMAIN s.todo /\ 1 < Was(q, calls)
           /\ t.todo[q] = s.todo[Was(q, calls)]
      /\ \A p, q \in DOMAIN t.todo : p < q => Was(p, calls) < Was(q, calls)
      /\ \A x \in DOMAIN s.todo : x = 1 \/
           (1 < x /\ Will(x, calls) \in DOMAIN t.todo /\ t.todo[Will(x, calls)] = s.todo[x])
  BY <1>2, <1>3, FollowsCases
<1>5. s.todo[1].do # "item" /\ at \in DOMAIN items
  BY <1>1, <1>4 DEF Entering
<1> HIDE DEF items, names, at
<1>6. items # << >>
  BY <1>1, <1>5 DEF Rooted
<1>7. Rooted(t.todo, items)
  BY <1>1, <1>4, <1>6 DEF Rooted
<1>8. Entering(t.todo, items) /\ InsideFirst(t.todo, items) /\ OutsideBehind(t.todo, items)
      /\ DeepestFirst(t.todo, LayoutCalls)
  BY <1>1, <1>4 DEF Entering, InsideFirst, OutsideBehind, DeepestFirst
<1>9. NamesToCome(t.todo, items, names \cup {items[at].name})
  <2> SUFFICES ASSUME NEW i \in DOMAIN items, i > 1, items[i].name \notin names, i # at
               PROVE  \E q \in DOMAIN t.todo : t.todo[q].do = "enterName" /\ t.todo[q].at = i
    BY DEF NamesToCome
  <2>1. PICK x \in DOMAIN s.todo : s.todo[x].do = "enterName" /\ s.todo[x].at = i
    BY <1>1 DEF NamesToCome
  <2>2. x # 1
    BY <2>1 DEF at
  <2> QED BY <2>1, <2>2, <1>4
<1>10. \A i : LeftAlready(s.todo, items, i) => LeftAlready(t.todo, items, i)
  BY <1>4 DEF LeftAlready
<1>11. LeftAlready(t.todo, items, at)
  <2> SUFFICES ASSUME NEW q \in DOMAIN t.todo, t.todo[q].do \in LayoutCalls
               PROVE  t.todo[q].parent.depth < items[at].depth
    BY DEF LeftAlready
  <2> DEFINE x == Was(q, calls)
  <2>1. x \in DOMAIN s.todo /\ 1 < x /\ t.todo[q] = s.todo[x]
    BY <1>4
  <2> HIDE DEF x
  <2>2. s.todo[x].do \in LayoutCalls /\ s.todo[1].do = "enterName"
    BY <2>1
  <2> QED BY <2>1, <2>2, <1>1, <1>4 DEF OutsideBehind, at
<1>12. NamesAreLeft(t.todo, items, names \cup {items[at].name})
  BY <1>1, <1>5, <1>10, <1>11 DEF NamesAreLeft
<1>13. t.layout.items = items /\ t.layout.names = names \cup {items[at].name}
  BY DEF items, names, at
<1> QED
  BY <1>7, <1>8, <1>9, <1>12, <1>13 DEF LayoutReading, LayoutPending

(* An item is listed, and what is inside it is to be read before its name   *)
(* is entered.                                                              *)
ItemCalls(calls, item, n, isRoot) ==
  \A i \in DOMAIN calls :
    \/ calls[i].do \in LayoutCalls /\ calls[i].parent = item
    \/ /\ ~isRoot /\ calls[i].do = "enterName" /\ calls[i].at = n
       /\ \A j \in DOMAIN calls : j <= i

LEMMA ItemReading ==
  ASSUME NEW s, NEW t, NEW calls, GoodCalls(s.todo), LayoutReading(s), Follows(t, s, calls),
         s.todo[1].do = "item", NEW item, PlainItem(item),
         item.depth = s.todo[1].parent.depth + 1,
         RefsLeft(s.layout.items, item), item.name \notin s.layout.names,
         NEW isRoot, isRoot <=> s.todo[1].parent.depth = 0,
         ItemCalls(calls, item, Len(s.layout.items) + 1, isRoot),
         ~isRoot => \E i \in DOMAIN calls :
           calls[i].do = "enterName" /\ calls[i].at = Len(s.layout.items) + 1,
         t.layout.items = Append(s.layout.items, item), t.layout.names = s.layout.names,
         DOMAIN t.layout = DOMAIN s.layout, t.layout.counts \in [ControlType -> Nat]
  PROVE  LayoutReading(t)
<1> DEFINE items == s.layout.items
           names == s.layout.names
           parent == s.todo[1].parent
           n == Len(items)
           more == Append(items, item)
<1>1. /\ Rooted(s.todo, items) /\ Entering(s.todo, items) /\ InsideFirst(s.todo, items)
      /\ OutsideBehind(s.todo, items) /\ NamesToCome(s.todo, items, names)
      /\ NamesAreLeft(s.todo, items, names) /\ DeepestFirst(s.todo, LayoutCalls)
      /\ LayoutOK(items)
  BY DEF LayoutReading, LayoutPending, LayoutState
<1>2. /\ 1 \in DOMAIN s.todo
      /\ \A q \in DOMAIN t.todo : Made(q, calls) => q \in DOMAIN calls /\ t.todo[q] = calls[q]
      /\ \A q \in DOMAIN t.todo : ~Made(q, calls) =>
           Was(q, calls) \in DOMAIN s.todo /\ 1 < Was(q, calls)
           /\ t.todo[q] = s.todo[Was(q, calls)]
      /\ \A p, q \in DOMAIN t.todo : p < q =>
           (Made(q, calls) => Made(p, calls)) /\ Was(p, calls) < Was(q, calls)
      /\ \A i \in DOMAIN calls : i \in DOMAIN t.todo /\ Made(i, calls) /\ t.todo[i] = calls[i]
      /\ \A x \in DOMAIN s.todo : x = 1 \/
           (1 < x /\ Will(x, calls) \in DOMAIN t.todo /\ t.todo[Will(x, calls)] = s.todo[x])
  BY FollowsCases
<1>3. /\ IsList(more) /\ n \in Nat /\ Len(more) = n + 1
      /\ DOMAIN items = 1 .. n /\ DOMAIN more = 1 .. n + 1 /\ more[n + 1] = item
      /\ \A i \in DOMAIN items : i \in DOMAIN more /\ more[i] = items[i] /\ i < n + 1
      /\ \A i, j \in DOMAIN items : Inside(more, i, j) <=> Inside(items, i, j)
      /\ \A i \in DOMAIN items :
           Inside(more, i, n + 1) <=> WouldBeInside(items, i, item.depth)
      /\ \A i \in DOMAIN more : i \in DOMAIN items \/ i = n + 1
  <2> IsList(items)
    BY <1>1 DEF LayoutOK
  <2> QED BY ItemAppended
<1>4. parent.depth \in Nat /\ item.depth \in Nat /\ item.depth = parent.depth + 1
  <2>1. GoodCall(s.todo[1])
    BY <1>2 DEF GoodCalls
  <2> QED BY <2>1 DEF GoodCall, LayoutCalls
<1>5. \A i \in DOMAIN items : items[i].depth \in Nat
  BY <1>1 DEF LayoutOK
<1>6. s.todo[1].do \in LayoutCalls /\ "enterName" \notin LayoutCalls /\ s.todo[1].do # "enterName"
  BY DEF LayoutCalls
<1>7. /\ ItemCalls(calls, item, n + 1, isRoot)
      /\ ~isRoot => \E i \in DOMAIN calls : calls[i].do = "enterName" /\ calls[i].at = n + 1
      /\ isRoot <=> parent.depth = 0
      /\ RefsLeft(items, item) /\ item.name \notin names
  OBVIOUS
<1> HIDE DEF items, names, parent, n, more
<1>8. items = << >> <=> isRoot
  <2>1. items = << >> => parent.depth = 0
    BY <1>1 DEF Rooted, parent
  <2>2. items # << >> => parent.depth >= 1
    BY <1>1, <1>2, <1>6 DEF Rooted, parent
  <2> QED BY <2>1, <2>2, <1>4, <1>7
(* What is made is inside the item, and what waits is not.                  *)
<1>9. ASSUME NEW q \in DOMAIN t.todo, t.todo[q].do \in LayoutCalls
      PROVE  \/ Made(q, calls) /\ t.todo[q].parent = item
             \/ /\ ~Made(q, calls) /\ t.todo[q].parent.depth \in Nat
                /\ t.todo[q].parent.depth <= parent.depth
  <2>1. CASE Made(q, calls)
    BY <2>1, <1>2, <1>6, <1>7, <1>9 DEF ItemCalls
  <2>2. CASE ~Made(q, calls)
    <3> DEFINE x == Was(q, calls)
    <3>1. x \in DOMAIN s.todo /\ 1 < x /\ t.todo[q] = s.todo[x]
      BY <1>2, <2>2
    <3> HIDE DEF x
    <3>2. s.todo[x].parent.depth <= s.todo[1].parent.depth
      BY <3>1, <1>1, <1>2, <1>6, <1>9 DEF DeepestFirst
    <3>3. GoodCall(s.todo[x])
      BY <3>1 DEF GoodCalls
    <3> QED BY <2>2, <3>1, <3>2, <3>3, <1>9 DEF GoodCall, parent
  <2> QED BY <2>1, <2>2
<1>10. ASSUME NEW q \in DOMAIN t.todo, t.todo[q].do = "enterName"
       PROVE  \/ Made(q, calls) /\ ~isRoot /\ t.todo[q].at = n + 1
              \/ /\ ~Made(q, calls) /\ t.todo[q].at \in DOMAIN items
                 /\ items[t.todo[q].at].depth <= parent.depth
  <2>1. CASE Made(q, calls)
    BY <2>1, <1>2, <1>6, <1>7, <1>10 DEF ItemCalls
  <2>2. CASE ~Made(q, calls)
    <3> DEFINE x == Was(q, calls)
    <3>1. x \in DOMAIN s.todo /\ 1 < x /\ t.todo[q] = s.todo[x]
      BY <1>2, <2>2
    <3> HIDE DEF x
    <3>2. s.todo[x].at \in DOMAIN items
      BY <3>1, <1>1, <1>10 DEF Entering
    <3>3. s.todo[1].parent.depth >= items[s.todo[x].at].depth
      BY <3>1, <1>1, <1>2, <1>6, <1>10 DEF InsideFirst
    <3>4. items[s.todo[x].at].depth \in Nat
      BY <3>2, <1>5
    <3>5. items[s.todo[x].at].depth <= parent.depth
      BY <3>3, <3>4, <1>4 DEF parent
    <3> QED BY <2>2, <3>1, <3>2, <3>5
  <2> QED BY <2>1, <2>2
<1>11. NamesNested(items, item)
  <2> SUFFICES ASSUME NEW i \in DOMAIN items, items[i].name = item.name
               PROVE  WouldBeInside(items, i, item.depth)
    BY DEF NamesNested
  <2>1. CASE i = 1
    <3>1. items # << >>
      BY <1>3, EmptyFacts
    <3>2. items[1].depth = 1 /\ \A j \in DOMAIN items : j > 1 => items[j].depth > items[1].depth
      BY <1>1, <3>1 DEF Rooted
    <3>3. item.depth > 1
      BY <3>1, <1>4, <1>7, <1>8
    <3>4. ASSUME NEW k \in 2 .. Len(items) PROVE items[k].depth > items[1].depth
      <4>1. k \in DOMAIN items /\ k > 1
        BY <1>3 DEF n
      <4> QED BY <4>1, <3>2
    <3> QED BY <2>1, <3>2, <3>3, <3>4 DEF WouldBeInside
  <2>2. CASE i # 1
    <3>1. i > 1
      BY <2>2, <1>3
    <3>2. PICK x \in DOMAIN s.todo : s.todo[x].do = "enterName" /\ s.todo[x].at = i
      BY <3>1, <1>1, <1>7 DEF NamesToCome
    <3>3. 1 < x
      BY <3>2, <1>2, <1>6
    <3>4. s.todo[1].parent.depth >= items[i].depth
      BY <3>2, <3>3, <1>1, <1>2, <1>6 DEF InsideFirst
    <3>5. item.depth > items[i].depth
      BY <3>4, <1>4, <1>5 DEF parent
    <3>6. \A k \in DOMAIN items : k > i => items[k].depth > items[i].depth
      BY <3>2, <1>1 DEF Entering
    <3>7. ASSUME NEW k \in i + 1 .. Len(items) PROVE items[k].depth > items[i].depth
      <4>1. k \in DOMAIN items /\ k > i
        BY <1>3 DEF n
      <4> QED BY <4>1, <3>6
    <3> QED BY <3>5, <3>7 DEF WouldBeInside
  <2> QED BY <2>1, <2>2
<1>12. LayoutOK(more)
  BY <1>1, <1>7, <1>11, LayoutListed DEF more
<1>13. more # << >>
  <2>1. n + 1 \in DOMAIN more
    BY <1>3
  <2> QED BY <2>1, EmptyFacts
<1>14. Rooted(t.todo, more)
  <2>1. ASSUME NEW j \in DOMAIN more, j > 1 PROVE more[j].depth > more[1].depth
    <3>1. 1 \in DOMAIN items
      BY <2>1, <1>3
    <3>2. items # << >>
      BY <3>1, EmptyFacts
    <3>3. more[1] = items[1] /\ items[1].depth = 1
      BY <1>1, <1>3, <3>1, <3>2 DEF Rooted
    <3>4. CASE j = n + 1
      <4>1. more[j] = item /\ parent.depth # 0
        BY <3>2, <3>4, <1>3, <1>7, <1>8
      <4> QED BY <4>1, <3>3, <1>4
    <3>5. CASE j \in DOMAIN items
      <4>1. items[j].depth > items[1].depth
        BY <3>2, <3>5, <2>1, <1>1 DEF Rooted
      <4> QED BY <4>1, <3>3, <3>5, <1>3
    <3> QED BY <3>4, <3>5, <1>3
  <2>2. more[1].depth = 1
    <3>1. CASE isRoot
      <4>1. DOMAIN items = {}
        BY <3>1, <1>8, EmptyFacts
      <4>2. n = 0
        <5>1. n \in Nat /\ 1 .. n = {}
          BY <4>1, <1>3
        <5>2. 1 \notin 1 .. n
          BY <5>1
        <5> QED BY <5>1, <5>2
      <4>3. more[1] = item
        BY <4>2, <1>3
      <4> QED BY <4>3, <3>1, <1>4, <1>7
    <3>2. CASE ~isRoot
      <4>1. items # << >> /\ items[1].depth = 1
        BY <3>2, <1>1, <1>8 DEF Rooted
      <4>2. n # 0
        BY <4>1, <1>1, <1>3 DEF LayoutOK, IsList, n
      <4>3. 1 \in DOMAIN items
        BY <4>2, <1>3
      <4> QED BY <4>1, <4>3, <1>3
    <3> QED BY <3>1, <3>2
  <2>3. ASSUME NEW q \in DOMAIN t.todo, t.todo[q].do \in LayoutCalls
        PROVE  t.todo[q].parent.depth >= 1
    <3>1. CASE Made(q, calls)
      <4>1. t.todo[q].parent = item
        BY <3>1, <2>3, <1>9
      <4> QED BY <4>1, <1>4
    <3>2. CASE ~Made(q, calls)
      <4> DEFINE x == Was(q, calls)
      <4>1. x \in DOMAIN s.todo /\ x > 1 /\ t.todo[q] = s.todo[x]
        BY <1>2, <3>2
      <4> HIDE DEF x
      <4>2. s.todo[x].do \in LayoutKinds \ {"endLayout"}
        BY <4>1, <2>3 DEF LayoutKinds, LayoutCalls
      <4>3. items # << >>
        BY <4>1, <4>2, <1>1 DEF Rooted
      <4> QED BY <4>1, <4>3, <2>3, <1>1 DEF Rooted
    <3> QED BY <3>1, <3>2
  <2> QED BY <2>1, <2>2, <2>3, <1>13 DEF Rooted
<1>15. Entering(t.todo, more)
  <2> SUFFICES ASSUME NEW q \in DOMAIN t.todo, t.todo[q].do = "enterName"
               PROVE  /\ t.todo[q].at \in DOMAIN more
                      /\ \A k \in DOMAIN more : k > t.todo[q].at =>
                           more[k].depth > more[t.todo[q].at].depth
    BY DEF Entering
  <2>1. CASE Made(q, calls)
    <3>1. t.todo[q].at = n + 1
      BY <2>1, <1>10
    <3> QED BY <3>1, <1>3
  <2>2. CASE ~Made(q, calls)
    <3> DEFINE at == t.todo[q].at
    <3>1. at \in DOMAIN items /\ items[at].depth <= parent.depth
      BY <2>2, <1>10
    <3>2. \A k \in DOMAIN items : k > at => items[k].depth > items[at].depth
      BY <2>2, <1>1, <1>2 DEF Entering
    <3> HIDE DEF at
    <3>3. more[at] = items[at] /\ at \in DOMAIN more
      BY <3>1, <1>3
    <3>4. more[n + 1].depth > items[at].depth
      BY <3>1, <1>3, <1>4, <1>5
    <3>5. ASSUME NEW k \in DOMAIN more, k > at PROVE more[k].depth > more[at].depth
      BY <3>2, <3>3, <3>4, <3>5, <1>3
    <3> QED BY <3>3, <3>5 DEF at
  <2> QED BY <2>1, <2>2
<1>16. InsideFirst(t.todo, more)
  <2> SUFFICES ASSUME NEW p \in DOMAIN t.todo, NEW q \in DOMAIN t.todo, p < q,
                      t.todo[p].do \in LayoutCalls, t.todo[q].do = "enterName"
               PROVE  t.todo[p].parent.depth >= more[t.todo[q].at].depth
    BY DEF InsideFirst
  <2>1. CASE Made(q, calls)
    <3>1. t.todo[p].parent = item /\ t.todo[q].at = n + 1
      BY <2>1, <1>2, <1>9, <1>10
    <3> QED BY <3>1, <1>3, <1>4
  <2>2. CASE ~Made(q, calls)
    <3> DEFINE at == t.todo[q].at
    <3>1. at \in DOMAIN items /\ items[at].depth <= parent.depth
      BY <2>2, <1>10
    <3>2. ~Made(p, calls) => t.todo[p].parent.depth >= items[at].depth
      BY <2>2, <1>1, <1>2 DEF InsideFirst
    <3> HIDE DEF at
    <3>3. more[at] = items[at] /\ items[at].depth \in Nat
      BY <3>1, <1>3, <1>5
    <3>4. Made(p, calls) => t.todo[p].parent = item
      BY <1>9
    <3>5. t.todo[p].parent.depth >= more[at].depth
      BY <3>1, <3>2, <3>3, <3>4, <1>4
    <3> QED BY <3>5 DEF at
  <2> QED BY <2>1, <2>2
<1>17. OutsideBehind(t.todo, more)
  <2> SUFFICES ASSUME NEW p \in DOMAIN t.todo, NEW q \in DOMAIN t.todo, p < q,
                      t.todo[p].do = "enterName", t.todo[q].do \in LayoutCalls
               PROVE  t.todo[q].parent.depth < more[t.todo[p].at].depth
    BY DEF OutsideBehind
  <2>1. CASE Made(p, calls)
    <3>1. t.todo[p].at = n + 1
      BY <2>1, <1>10
    <3>2. ~Made(q, calls)
      <4> SUFFICES ASSUME Made(q, calls) PROVE FALSE
        OBVIOUS
      <4>1. p \in DOMAIN calls /\ q \in DOMAIN calls /\ calls[p].do = "enterName"
        BY <2>1, <1>2
      <4>2. q <= p
        BY <4>1, <1>6, <1>7 DEF ItemCalls
      <4>3. DOMAIN calls = 1 .. Len(calls)
        BY DEF Follows
      <4> QED BY <4>1, <4>2, <4>3
    <3>3. t.todo[q].parent.depth \in Nat /\ t.todo[q].parent.depth <= parent.depth
      BY <3>2, <1>9
    <3> QED BY <3>1, <3>3, <1>3, <1>4
  <2>2. CASE ~Made(p, calls)
    <3>1. ~Made(q, calls)
      BY <2>2, <1>2
    <3> DEFINE at == t.todo[p].at
    <3>2. at \in DOMAIN items /\ t.todo[q].parent.depth < items[at].depth
      BY <2>2, <3>1, <1>1, <1>2, <1>10 DEF OutsideBehind
    <3> HIDE DEF at
    <3>3. t.todo[q].parent.depth < more[at].depth
      BY <3>2, <1>3
    <3> QED BY <3>3 DEF at
  <2> QED BY <2>1, <2>2
<1>18. NamesToCome(t.todo, more, names)
  <2> SUFFICES ASSUME NEW i \in DOMAIN more, i > 1, more[i].name \notin names
               PROVE  \E q \in DOMAIN t.todo : t.todo[q].do = "enterName" /\ t.todo[q].at = i
    BY DEF NamesToCome
  <2>1. CASE i = n + 1
    <3>1. ~isRoot
      <4>1. n # 0
        BY <2>1, <1>3
      <4>2. 1 \in DOMAIN items
        BY <4>1, <1>3
      <4> QED BY <4>2, <1>8, EmptyFacts
    <3>2. PICK j \in DOMAIN calls : calls[j].do = "enterName" /\ calls[j].at = n + 1
      BY <3>1, <1>7
    <3> QED BY <2>1, <3>2, <1>2
  <2>2. CASE i \in DOMAIN items
    <3>1. PICK x \in DOMAIN s.todo : s.todo[x].do = "enterName" /\ s.todo[x].at = i
      BY <2>2, <1>1, <1>3 DEF NamesToCome
    <3>2. x # 1
      BY <3>1, <1>6
    <3> QED BY <3>1, <3>2, <1>2
  <2> QED BY <2>1, <2>2, <1>3
<1>19. NamesAreLeft(t.todo, more, names)
  <2>1. ASSUME NEW i \in DOMAIN items, LeftAlready(s.todo, items, i)
        PROVE  LeftAlready(t.todo, more, i)
    <3>1. more[i] = items[i] /\ items[i].depth \in Nat
      BY <1>3, <1>5
    <3>2. CASE \E k \in DOMAIN items : k > i /\ items[k].depth <= items[i].depth
      <4>1. PICK k \in DOMAIN items : k > i /\ items[k].depth <= items[i].depth
        BY <3>2
      <4>2. k \in DOMAIN more /\ more[k].depth <= more[i].depth
        BY <4>1, <3>1, <1>3
      <4> QED BY <4>1, <4>2 DEF LeftAlready
    <3>3. CASE \A q \in DOMAIN s.todo : s.todo[q].do \in LayoutCalls =>
                 s.todo[q].parent.depth < items[i].depth
      <4>1. parent.depth < items[i].depth
        BY <3>3, <1>2, <1>6 DEF parent
      <4>2. n + 1 \in DOMAIN more /\ n + 1 > i /\ more[n + 1].depth <= more[i].depth
        BY <4>1, <3>1, <1>3, <1>4
      <4> QED BY <4>2 DEF LeftAlready
    <3> QED BY <2>1, <3>2, <3>3 DEF LeftAlready
  <2> SUFFICES ASSUME NEW name \in names
               PROVE  \E i \in DOMAIN more : more[i].name = name /\ LeftAlready(t.todo, more, i)
    BY DEF NamesAreLeft
  <2>2. PICK i \in DOMAIN items : items[i].name = name /\ LeftAlready(s.todo, items, i)
    BY <1>1 DEF NamesAreLeft
  <2>3. i \in DOMAIN more /\ more[i] = items[i]
    BY <1>3
  <2> QED BY <2>1, <2>2, <2>3
<1>20. DeepestFirst(t.todo, LayoutCalls)
  <2> SUFFICES ASSUME NEW p \in DOMAIN t.todo, NEW q \in DOMAIN t.todo, p < q,
                      t.todo[p].do \in LayoutCalls, t.todo[q].do \in LayoutCalls
               PROVE  t.todo[q].parent.depth <= t.todo[p].parent.depth
    BY DEF DeepestFirst
  <2>1. CASE Made(q, calls)
    <3>1. t.todo[p].parent = item /\ t.todo[q].parent = item
      BY <2>1, <1>2, <1>9
    <3> QED BY <3>1, <1>4
  <2>2. CASE ~Made(q, calls) /\ Made(p, calls)
    <3>1. t.todo[p].parent = item /\ t.todo[q].parent.depth \in Nat
          /\ t.todo[q].parent.depth <= parent.depth
      BY <2>2, <1>9
    <3> QED BY <3>1, <1>4
  <2>3. CASE ~Made(q, calls) /\ ~Made(p, calls)
    BY <2>3, <1>1, <1>2 DEF DeepestFirst
  <2> QED BY <2>1, <2>2, <2>3
<1>21. LayoutState(t.layout)
  <2>1. t.layout.items = more /\ t.layout.names = names
    BY DEF more, items, names
  <2> QED BY <2>1, <1>12 DEF LayoutReading, LayoutState, names
<1>22. t.layout.items = more /\ t.layout.names = names
  BY DEF more, items, names
<1> QED
  BY <1>14, <1>15, <1>16, <1>17, <1>18, <1>19, <1>20, <1>21, <1>22
     DEF LayoutReading, LayoutPending

-----------------------------------------------------------------------------
(* The calls that read a layout *)

LayoutTurn(t, s) ==
  /\ ReaderOK(t) /\ LayoutInv(t)
  /\ t.menu = s.menu /\ t.res.menus = s.res.menus
  /\ OnlyMakes(t, s, LayoutKinds)

NoLayoutCalls(s) == \A q \in DOMAIN s.todo : s.todo[q].do \notin LayoutKinds

LEMMA NoLayoutInv ==
  ASSUME NEW s, NEW t, LayoutInv(s), t.res.layouts = s.res.layouts, NoLayoutCalls(t)
  PROVE  LayoutInv(t)
  BY DEF LayoutInv, LayoutFirst, NoLayoutCalls

LEMMA LayoutRefuse ==
  ASSUME NEW s, ReaderOK(s), LayoutInv(s)
  PROVE  LayoutTurn(Refuse(s), s)
<1> DEFINE t == Refuse(s)
<1>1. Ends(t, s) /\ Keeps(t.res, s.res)
  BY RefuseFacts
<1> HIDE DEF t
<1>2. NoLayoutCalls(t) /\ t.res.layouts = s.res.layouts
  BY <1>1 DEF Ends, NoLayoutCalls, Keeps
<1>3. LayoutInv(t)
  BY <1>2, NoLayoutInv
<1>4. LayoutTurn(t, s)
  BY <1>1, <1>3 DEF LayoutTurn, Ends, Keeps, OnlyMakes
<1> QED BY <1>4 DEF t

LEMMA LayoutCallsGone ==
  ASSUME NEW s, NEW t, NEW kinds, ReaderOK(s), s.todo # << >>, LayoutFirst(s),
         s.todo[1].do \notin LayoutKinds \ {"endLayout"}, kinds \cap LayoutKinds = {},
         OnlyMakes(t, s, kinds)
  PROVE  NoLayoutCalls(t)
<1>1. CASE DOMAIN t.todo = {}
  BY <1>1 DEF NoLayoutCalls
<1>2. ASSUME NEW calls, Follows(t, s, calls), \A i \in DOMAIN calls : calls[i].do \in kinds
      PROVE  NoLayoutCalls(t)
  <2> SUFFICES ASSUME NEW q \in DOMAIN t.todo PROVE t.todo[q].do \notin LayoutKinds
    BY DEF NoLayoutCalls
  <2>1. /\ 1 \in DOMAIN s.todo
        /\ Made(q, calls) => q \in DOMAIN calls /\ t.todo[q] = calls[q]
        /\ ~Made(q, calls) =>
             Was(q, calls) \in DOMAIN s.todo /\ 1 < Was(q, calls)
             /\ t.todo[q] = s.todo[Was(q, calls)]
    BY <1>2, FollowsCases DEF ReaderOK
  <2>2. CASE Made(q, calls)
    BY <2>1, <2>2, <1>2
  <2>3. CASE ~Made(q, calls)
    BY <2>1, <2>3 DEF LayoutFirst
  <2> QED BY <2>2, <2>3
<1> QED BY <1>1, <1>2 DEF OnlyMakes

LEMMA LayoutStaysFirst ==
  ASSUME NEW s, NEW t, NEW calls, GoodCalls(s.todo), LayoutFirst(s), Follows(t, s, calls),
         s.todo[1].do \in LayoutKinds \ {"endLayout"},
         \A i \in DOMAIN calls : calls[i].do \in LayoutKinds \ {"endLayout"}
  PROVE  LayoutFirst(t)
<1> SUFFICES ASSUME NEW p \in DOMAIN t.todo, NEW q \in DOMAIN t.todo, p < q,
                    t.todo[q].do \in LayoutKinds
             PROVE  t.todo[p].do \in LayoutKinds \ {"endLayout"}
  BY DEF LayoutFirst
<1>1. /\ \A x \in DOMAIN t.todo : Made(x, calls) => x \in DOMAIN calls /\ t.todo[x] = calls[x]
      /\ \A x \in DOMAIN t.todo : ~Made(x, calls) =>
           Was(x, calls) \in DOMAIN s.todo /\ 1 < Was(x, calls)
           /\ t.todo[x] = s.todo[Was(x, calls)]
      /\ (Made(q, calls) => Made(p, calls)) /\ Was(p, calls) < Was(q, calls)
  BY FollowsCases
<1>2. CASE Made(p, calls)
  BY <1>1, <1>2
<1>3. CASE ~Made(p, calls)
  BY <1>1, <1>3 DEF LayoutFirst
<1> QED BY <1>2, <1>3

(* A list of elements is taken apart.                                      *)
LEMMA ListTurn ==
  ASSUME NEW s, ReaderOK(s), LayoutInv(s), s.todo # << >>,
         s.todo[1].do \in {"items", "tabItems"}, NEW calls, GoodCalls(calls),
         SameParent(calls, s.todo[1].parent)
  PROVE  LayoutTurn(Make(s, calls), s)
<1> DEFINE t == Make(s, calls)
<1>1. /\ ReaderOK(t) /\ Follows(t, s, calls)
      /\ t.res = s.res /\ t.menu = s.menu /\ t.layout = s.layout
  BY MakeFacts
<1> HIDE DEF t
<1>2. 1 \in DOMAIN s.todo /\ GoodCalls(s.todo)
  BY TailFacts DEF ReaderOK, GoodCalls
<1>3. s.todo[1].do \in LayoutKinds \ {"endLayout"}
  BY DEF LayoutKinds, LayoutCalls
<1>4. LayoutReading(s) /\ LayoutFirst(s)
  BY <1>2, <1>3 DEF LayoutInv
<1>5. LayoutReading(t)
  BY <1>1, <1>2, <1>4, ListReading
<1>6. \A i \in DOMAIN calls : calls[i].do \in LayoutKinds \ {"endLayout"}
  BY DEF SameParent, LayoutKinds, LayoutCalls
<1>7. LayoutFirst(t)
  BY <1>1, <1>2, <1>3, <1>4, <1>6, LayoutStaysFirst
<1>8. LayoutInv(t)
  BY <1>1, <1>5, <1>7 DEF LayoutInv
<1>9. LayoutTurn(t, s)
  BY <1>1, <1>6, <1>8 DEF LayoutTurn, OnlyMakes
<1> QED BY <1>9 DEF t

LEMMA ItemsTurn ==
  ASSUME NEW s, ReaderOK(s), LayoutInv(s), s.todo # << >>, s.todo[1].do = "items"
  PROVE  LayoutTurn(Turn(s), s)
<1> DEFINE c == s.todo[1]
           n == Len(c.list)
           calls == [i \in 1 .. n |-> ItemCall(c.list[i], c.parent)]
<1>1. GoodCall(c) /\ Turn(s) = Call(s, c)
  BY FirstCall
<1>2. ElementsIn(c.list) /\ c.parent.depth \in Nat /\ c.do = "items"
  BY <1>1 DEF GoodCall, LayoutCalls
<1>3. n \in Nat /\ DOMAIN c.list = 1 .. n /\ \A i \in 1 .. n : c.list[i] \in Elements
  BY <1>2, ElementChildren
<1>4. Turn(s) = Make(s, calls)
  BY <1>1, <1>2, <1>3 DEF Call, ParseItems
<1>5. \A i \in 1 .. n : GoodCall(calls[i]) /\ calls[i].do \in LayoutCalls /\ calls[i].parent = c.parent
  BY <1>2, <1>3 DEF GoodCall, LayoutCalls, ItemCall
<1>6. calls = [i \in 1 .. n |-> calls[i]]
  OBVIOUS
<1> HIDE DEF calls, n
<1>7. IsList(calls) /\ DOMAIN calls = 1 .. n
  BY <1>3, <1>6, ListOver
<1>8. GoodCalls(calls) /\ SameParent(calls, c.parent)
  BY <1>5, <1>7 DEF GoodCalls, SameParent
<1> QED BY <1>4, <1>8, ListTurn

LEMMA TabItemsTurn ==
  ASSUME NEW s, ReaderOK(s), LayoutInv(s), s.todo # << >>, s.todo[1].do = "tabItems"
  PROVE  LayoutTurn(Turn(s), s)
<1> DEFINE c == s.todo[1]
           n == Len(c.list)
           tabItems == {i \in DOMAIN c.list : c.list[i].tag = "item"}
           calls == [i \in 1 .. n |->
                       ItemsCall(IF i \in tabItems THEN c.list[i].children ELSE << >>, c.parent)]
<1>1. GoodCall(c) /\ Turn(s) = Call(s, c)
  BY FirstCall
<1>2. ElementsIn(c.list) /\ c.parent.depth \in Nat /\ c.do = "tabItems"
  BY <1>1 DEF GoodCall, LayoutCalls
<1>3. n \in Nat /\ DOMAIN c.list = 1 .. n /\ \A i \in 1 .. n : c.list[i] \in Elements
  BY <1>2, ElementChildren
<1>4. Turn(s) \in {Refuse(s), Make(s, calls)}
  BY <1>1, <1>2, <1>3 DEF Call, ParseTabItems
<1>5. ASSUME NEW i \in 1 .. n
      PROVE  GoodCall(calls[i]) /\ calls[i].do \in LayoutCalls /\ calls[i].parent = c.parent
  <2> DEFINE list == IF i \in tabItems THEN c.list[i].children ELSE << >>
  <2>1. ElementsIn(list)
    <3>1. ElementsIn(c.list[i].children)
      BY <1>3, ElementsAssumption
    <3>2. ElementsIn(<< >>)
      BY DEF ElementsIn
    <3> QED BY <3>1, <3>2
  <2>2. calls[i] = ItemsCall(list, c.parent)
    OBVIOUS
  <2> HIDE DEF list, calls
  <2> QED BY <1>2, <2>1, <2>2 DEF GoodCall, LayoutCalls, ItemsCall
<1>6. calls = [i \in 1 .. n |-> calls[i]]
  OBVIOUS
<1> HIDE DEF calls, n, tabItems
<1>7. IsList(calls) /\ DOMAIN calls = 1 .. n
  BY <1>3, <1>6, ListOver
<1>8. GoodCalls(calls) /\ SameParent(calls, c.parent)
  BY <1>5, <1>7 DEF GoodCalls, SameParent
<1>9. LayoutTurn(Make(s, calls), s)
  BY <1>2, <1>8, ListTurn
<1> QED BY <1>4, <1>9, LayoutRefuse

(* A name is entered behind those of what is inside its item.              *)
LEMMA EnterTurn ==
  ASSUME NEW s, ReaderOK(s), LayoutInv(s), s.todo # << >>, s.todo[1].do = "enterName"
  PROVE  LayoutTurn(Turn(s), s)
<1> DEFINE lay == s.layout
           new == [lay EXCEPT !.names = lay.names \cup {lay.items[s.todo[1].at].name}]
           calls == << >>
           t == WithLayout(Make(s, calls), new)
<1>1. Turn(s) = Call(s, s.todo[1])
  BY FirstCall
<1>2. 1 \in DOMAIN s.todo /\ GoodCalls(s.todo)
  BY TailFacts DEF ReaderOK, GoodCalls
<1>3. s.todo[1].do \in LayoutKinds \ {"endLayout"}
  BY DEF LayoutKinds
<1>4. LayoutReading(s) /\ LayoutFirst(s)
  BY <1>2, <1>3 DEF LayoutInv
<1>5. Turn(s) = t
  <2> DEFINE u == Make(s, << >>)
  <2>1. u.layout = s.layout /\ DOMAIN u = {"res", "menu", "layout", "todo"}
    BY MakeFacts, EmptyFacts DEF ReaderOK
  <2>2. Turn(s) = EnterName(s, s.todo[1].at)
    BY <1>1 DEF Call
  <2>3. Turn(s) = [u EXCEPT !.layout.names = @ \cup {s.layout.items[s.todo[1].at].name}]
    BY <2>2 DEF EnterName
  <2> HIDE DEF u
  <2>4. [u EXCEPT !.layout.names = @ \cup {s.layout.items[s.todo[1].at].name}]
        = [u EXCEPT !.layout = new]
    BY <2>1
  <2> QED BY <2>3, <2>4 DEF WithLayout, u
<1>6. LayoutState(new) /\ new.items = lay.items
      /\ new.names = lay.names \cup {lay.items[s.todo[1].at].name}
  <2> DEFINE name == lay.items[s.todo[1].at].name
  <2> HIDE DEF name
  <2>1. LayoutState(lay)
    BY <1>4 DEF LayoutReading
  <2>2. IsFiniteSet(lay.names \cup {name})
    BY <2>1, FS_AddElement DEF LayoutState
  <2>3. new = [lay EXCEPT !.names = lay.names \cup {name}]
    BY DEF name
  <2> HIDE DEF new
  <2>4. /\ DOMAIN new = DOMAIN lay /\ new.items = lay.items /\ new.counts = lay.counts
        /\ new.names = lay.names \cup {name}
    BY <2>1, <2>3 DEF LayoutState
  <2> QED BY <2>1, <2>2, <2>4 DEF LayoutState, name
<1> HIDE DEF new
<1>7. /\ ReaderOK(t) /\ Follows(t, s, calls)
      /\ t.res = s.res /\ t.menu = s.menu /\ t.layout = new
  BY EmptyFacts, MakeLayoutFacts
<1> HIDE DEF t
<1>8. LayoutReading(t)
  BY <1>2, <1>4, <1>6, <1>7, EnterReading
<1>9. \A i \in DOMAIN calls : calls[i].do \in LayoutKinds \ {"endLayout"}
  BY EmptyFacts
<1> HIDE DEF calls
<1>10. LayoutFirst(t)
  BY <1>2, <1>3, <1>4, <1>7, <1>9, LayoutStaysFirst
<1>11. LayoutInv(t)
  BY <1>7, <1>8, <1>10 DEF LayoutInv
<1>12. LayoutTurn(t, s)
  BY <1>7, <1>9, <1>11 DEF LayoutTurn, OnlyMakes
<1> QED BY <1>5, <1>12

(* The calls for what is inside an item.                                   *)
InnerCall(c, item) == GoodCall(c) /\ c.do \in LayoutCalls /\ c.parent = item

InnerList(calls, item) == IsList(calls) /\ \A i \in DOMAIN calls : InnerCall(calls[i], item)

LEMMA ListInner ==
  ASSUME NEW item, NEW n \in Nat, NEW calls, calls = [i \in 1 .. n |-> calls[i]],
         \A i \in 1 .. n : InnerCall(calls[i], item)
  PROVE  InnerList(calls, item)
<1>1. IsList(calls) /\ DOMAIN calls = 1 .. n
  BY ListOver
<1> QED BY <1>1 DEF InnerList

LEMMA ConcatInner ==
  ASSUME NEW item, NEW a, InnerList(a, item), NEW b, InnerList(b, item)
  PROVE  InnerList(a \o b, item)
<1>1. /\ IsList(a \o b)
      /\ Len(a) \in Nat /\ Len(b) \in Nat /\ Len(a \o b) = Len(a) + Len(b)
      /\ DOMAIN (a \o b) = 1 .. Len(a) + Len(b)
      /\ \A i \in 1 .. Len(a) + Len(b) :
           (a \o b)[i] = IF i <= Len(a) THEN a[i] ELSE b[i - Len(a)]
  BY ConcatLists DEF InnerList
<1>2. DOMAIN a = 1 .. Len(a) /\ DOMAIN b = 1 .. Len(b)
  BY ListFacts DEF InnerList
<1> DEFINE ab == a \o b
           n == Len(a)
           m == Len(b)
<1> HIDE DEF ab, n, m
<1>3. /\ IsList(ab) /\ n \in Nat /\ m \in Nat /\ DOMAIN ab = 1 .. n + m
      /\ \A i \in 1 .. n + m : ab[i] = IF i <= n THEN a[i] ELSE b[i - n]
      /\ DOMAIN a = 1 .. n /\ DOMAIN b = 1 .. m
  BY <1>1, <1>2 DEF ab, n, m
<1>4. ASSUME NEW i \in DOMAIN ab PROVE InnerCall(ab[i], item)
  <2>1. CASE i <= n
    <3>1. i \in DOMAIN a /\ ab[i] = a[i]
      BY <1>3, <2>1
    <3> QED BY <3>1 DEF InnerList
  <2>2. CASE i > n
    <3>1. i - n \in DOMAIN b /\ ab[i] = b[i - n]
      BY <1>3, <2>2
    <3> QED BY <3>1 DEF InnerList
  <2> QED BY <1>3, <2>1, <2>2
<1> QED BY <1>3, <1>4 DEF InnerList, ab

LEMMA OneInner ==
  ASSUME NEW item, NEW c, InnerCall(c, item)
  PROVE  InnerList(<<c>>, item)
<1> DEFINE one == <<c>>
<1>1. IsList(one) /\ Len(one) = 1 /\ one[1] = c /\ DOMAIN one = 1 .. 1
  BY OneList
<1> HIDE DEF one
<1>2. InnerList(one, item)
  BY <1>1 DEF InnerList
<1> QED BY <1>2 DEF one

LEMMA CallsAreInner ==
  ASSUME NEW item, item.depth \in Nat
  PROVE  /\ \A el \in Elements : InnerCall(ItemCall(el, item), item)
         /\ \A list : ElementsIn(list) =>
              InnerCall(ItemsCall(list, item), item) /\ InnerCall(TabItemsCall(list, item), item)
  BY DEF InnerCall, GoodCall, LayoutCalls, ItemCall, ItemsCall, TabItemsCall

LEMMA InnerFacts ==
  ASSUME NEW r, ResOK(r), NEW el \in Elements, IsList(el.styles),
         \A i \in DOMAIN el.styles : el.styles[i] \in DOMAIN r.styles,
         NEW item, item.depth \in Nat
  PROVE  InnerList(InnerCalls(r, el, item), item)
<1> DEFINE n == Len(el.children)
           k == Len(el.styles)
<1>1. /\ ElementsIn(el.children) /\ n \in Nat /\ DOMAIN el.children = 1 .. n
      /\ \A i \in 1 .. n : el.children[i] \in Elements
  BY ElementsAssumption, ElementChildren
<1>2. k \in Nat /\ DOMAIN el.styles = 1 .. k
  BY ListFacts
<1>3. \A i \in 1 .. k : ElementsIn(StyleChildren(r, el, i))
  BY <1>2, ElementsAssumption DEF StyleChildren, ResOK
<1>4. InnerList(<< >>, item)
  BY EmptyFacts DEF InnerList, GoodCalls
<1>5. CASE item.type = "group"
  <2> DEFINE own(c) == IF c.tag # "include" THEN ItemCall(c, item)
                       ELSE ItemsCall(r.includes[c.src].children, item)
             a == [i \in 1 .. n |-> own(el.children[i])]
             b == [i \in 1 .. k |-> ItemsCall(StyleChildren(r, el, i), item)]
  <2>1. InnerCalls(r, el, item) =
          IF \E i \in DOMAIN el.children :
               el.children[i].tag = "include" /\ el.children[i].src \notin DOMAIN r.includes
          THEN << >> ELSE a \o b
    BY <1>1, <1>2, <1>5 DEF InnerCalls, GroupCalls
  <2>2. ASSUME \A i \in 1 .. n :
                 el.children[i].tag = "include" => el.children[i].src \in DOMAIN r.includes
        PROVE  InnerList(a \o b, item)
    <3>1. ASSUME NEW i \in 1 .. n PROVE InnerCall(own(el.children[i]), item)
      <4> DEFINE c == el.children[i]
      <4>1. c \in Elements
        BY <1>1
      <4>2. c.tag = "include" => c.src \in DOMAIN r.includes
        BY <2>2
      <4> HIDE DEF c
      <4>3. CASE c.tag # "include"
        BY <4>1, <4>3, CallsAreInner DEF c
      <4>4. CASE c.tag = "include"
        <5>1. ElementsIn(r.includes[c.src].children)
          BY <4>2, <4>4, ElementsAssumption DEF ResOK
        <5> QED BY <4>4, <5>1, CallsAreInner DEF c
      <4> QED BY <4>3, <4>4
    <3>2. \A i \in 1 .. n : a[i] = own(el.children[i])
      OBVIOUS
    <3>3. \A i \in 1 .. k : InnerCall(b[i], item)
      BY <1>3, CallsAreInner
    <3>4. a = [i \in 1 .. n |-> a[i]] /\ b = [i \in 1 .. k |-> b[i]]
      OBVIOUS
    <3>5. \A i \in 1 .. n : InnerCall(a[i], item)
      BY <3>1, <3>2
    <3> HIDE DEF a, b, n, k
    <3>6. InnerList(a, item) /\ InnerList(b, item)
      BY <1>1, <1>2, <3>3, <3>4, <3>5, ListInner
    <3> QED BY <3>6, ConcatInner
  <2> HIDE DEF a, b
  <2> QED BY <1>1, <1>4, <2>1, <2>2
<1>6. CASE item.type = "scroll"
  <2>1. InnerCalls(r, el, item) = <<ItemsCall(el.children, item)>>
    BY <1>6 DEF InnerCalls
  <2>2. InnerCall(ItemsCall(el.children, item), item)
    BY <1>1, CallsAreInner
  <2> QED BY <2>1, <2>2, OneInner
<1>7. CASE item.type = "tab"
  <2> DEFINE a == <<TabItemsCall(el.children, item)>>
             b == [i \in 1 .. k |-> TabItemsCall(StyleChildren(r, el, i), item)]
  <2>1. InnerCalls(r, el, item) = a \o b
    BY <1>2, <1>7 DEF InnerCalls
  <2>2. InnerCall(TabItemsCall(el.children, item), item)
    BY <1>1, CallsAreInner
  <2>3. InnerList(a, item)
    BY <2>2, OneInner
  <2>4. \A i \in 1 .. k : InnerCall(b[i], item)
    BY <1>3, CallsAreInner
  <2>5. b = [i \in 1 .. k |-> b[i]]
    OBVIOUS
  <2> HIDE DEF a, b, k
  <2>6. InnerList(b, item)
    BY <1>2, <2>4, <2>5, ListInner
  <2> QED BY <2>1, <2>3, <2>6, ConcatInner
<1>8. CASE item.type \notin {"group", "scroll", "tab"}
  <2>1. InnerCalls(r, el, item) = << >>
    BY <1>8 DEF InnerCalls
  <2> QED BY <1>4, <2>1
<1> QED BY <1>5, <1>6, <1>7, <1>8

(* The last of some rules is one of them.                                  *)
LEMMA LastOfFacts ==
  ASSUME NEW n \in Nat, NEW S, S \subseteq 1 .. n, S # {}
  PROVE  LastOf(S) \in S
<1> DEFINE T == {m \in Nat : \A j \in S : j <= m}
<1>1. n \in T
  OBVIOUS
<1>2. T \subseteq Nat /\ T # {}
  BY <1>1
<1>3. PICK m \in T : \A k \in T : m <= k
  <2> HIDE DEF T
  <2> QED BY <1>2, LeastNumber
<1>4. m \in S
  <2> SUFFICES ASSUME m \notin S PROVE FALSE
    OBVIOUS
  <2>1. PICK j \in S : TRUE
    OBVIOUS
  <2>2. m \in Nat /\ \A i \in S : i <= m /\ i # m /\ i \in Nat /\ i >= 1
    OBVIOUS
  <2>3. m - 1 \in Nat /\ \A i \in S : i <= m - 1
    BY <2>1, <2>2
  <2>4. m - 1 \in T
    BY <2>3
  <2>5. m <= m - 1
    BY <1>3, <2>4
  <2> QED BY <2>2, <2>5
<1>5. \A j \in S : j <= m
  OBVIOUS
<1> HIDE DEF T
<1> QED BY <1>4, <1>5 DEF LastOf

(* What a view is placed by is a name that was entered.                    *)
LEMMA PositionRefs ==
  ASSUME NEW r, NEW el, NEW names, NEW isRoot, NEW side \in Sides,
         ParsePosition(r, el, names, isRoot).ok,
         ParsePosition(r, el, names, isRoot).ref[side] # None
  PROVE  ParsePosition(r, el, names, isRoot).ref[side] \in names
<1> DEFINE rule(i) == AlignRules[i]
           value(i) == Attribute(r, el, rule(i).attr)
           naming(s) == {i \in DOMAIN AlignRules : s \in rule(i).refs /\ ToOther(r, el, rule(i))}
           pos == ParsePosition(r, el, names, isRoot)
<1>1. /\ pos.ok <=> \A i \in DOMAIN AlignRules :
                      ToOther(r, el, rule(i)) => RefersTo(value(i), names, isRoot)
      /\ pos.ref = [s \in Sides |-> IF naming(s) = {} THEN None ELSE value(LastOf(naming(s)))]
  BY DEF ParsePosition
<1>2. pos.ref[side] = IF naming(side) = {} THEN None ELSE value(LastOf(naming(side)))
  BY <1>1
<1>3. DOMAIN AlignRules = 1 .. 11
  BY DEF AlignRules
<1> DEFINE S == naming(side)
<1>4. S \subseteq 1 .. 11 /\ \A i \in S : RefersTo(value(i), names, isRoot)
  BY <1>1, <1>3
<1> HIDE DEF S, rule, value, pos, naming
<1>5. S # {} /\ pos.ref[side] = value(LastOf(S))
  BY <1>2 DEF pos, S
<1>6. LastOf(S) \in S
  BY <1>4, <1>5, LastOfFacts
<1> QED BY <1>4, <1>5, <1>6 DEF RefersTo, pos

LEMMA ItemCallsFacts ==
  ASSUME NEW item, NEW inner, InnerList(inner, item), NEW n, NEW isRoot \in BOOLEAN
  PROVE  LET calls == inner \o (IF isRoot THEN << >> ELSE <<[do |-> "enterName", at |-> n]>>)
         IN /\ GoodCalls(calls) /\ ItemCalls(calls, item, n, isRoot)
            /\ ~isRoot => \E i \in DOMAIN calls : calls[i].do = "enterName" /\ calls[i].at = n
            /\ \A i \in DOMAIN calls : calls[i].do \in LayoutKinds \ {"endLayout"}
<1> DEFINE enter == [do |-> "enterName", at |-> n]
           last == IF isRoot THEN << >> ELSE <<enter>>
           calls == inner \o last
           k == Len(inner)
           m == Len(last)
<1>1. /\ IsList(last) /\ DOMAIN last = 1 .. m /\ (isRoot => m = 0)
      /\ (~isRoot => m = 1 /\ last[1] = enter)
  <2>1. CASE isRoot
    BY <2>1, EmptyList, EmptyFacts, ListFacts
  <2>2. CASE ~isRoot
    <3> HIDE DEF enter
    <3>1. last = <<enter>>
      BY <2>2
    <3> HIDE DEF last
    <3> QED BY <2>2, <3>1, OneList
  <2> QED BY <2>1, <2>2
<1>2. enter.do = "enterName" /\ enter.at = n
  OBVIOUS
<1> HIDE DEF last, enter
<1>3. /\ IsList(inner \o last)
      /\ Len(inner) \in Nat /\ Len(inner \o last) = Len(inner) + Len(last)
      /\ DOMAIN (inner \o last) = 1 .. Len(inner) + Len(last)
      /\ \A i \in 1 .. Len(inner) + Len(last) :
           (inner \o last)[i] = IF i <= Len(inner) THEN inner[i] ELSE last[i - Len(inner)]
  BY <1>1, ConcatLists DEF InnerList
<1>4. DOMAIN inner = 1 .. Len(inner)
  BY ListFacts DEF InnerList
<1>5. /\ IsList(calls) /\ k \in Nat /\ m \in Nat /\ DOMAIN calls = 1 .. k + m
      /\ \A i \in 1 .. k + m : calls[i] = IF i <= k THEN inner[i] ELSE last[i - k]
      /\ DOMAIN inner = 1 .. k
  BY <1>1, <1>3, <1>4
<1> HIDE DEF calls, k, m
<1>6. ASSUME NEW i \in DOMAIN calls
      PROVE  \/ InnerCall(calls[i], item)
             \/ ~isRoot /\ i = k + 1 /\ calls[i] = enter /\ \A j \in DOMAIN calls : j <= i
  <2>1. CASE i <= k
    <3>1. i \in DOMAIN inner /\ calls[i] = inner[i]
      BY <1>5, <2>1
    <3> QED BY <3>1 DEF InnerList
  <2>2. CASE i > k
    <3>1. ~isRoot
      BY <1>1, <1>5, <2>2
    <3>2. m = 1 /\ last[1] = enter
      BY <1>1, <3>1
    <3>3. i = k + 1
      BY <1>5, <2>2, <3>2
    <3>4. calls[i] = last[i - k] /\ i - k = 1
      BY <1>5, <2>2, <3>3
    <3> QED BY <1>5, <3>1, <3>2, <3>3, <3>4
  <2> QED BY <1>5, <2>1, <2>2
<1>7. GoodCall(enter)
  BY <1>2 DEF GoodCall, LayoutCalls
<1>8. GoodCalls(calls)
  BY <1>5, <1>6, <1>7 DEF GoodCalls, InnerCall
<1>9. ItemCalls(calls, item, n, isRoot)
  BY <1>2, <1>6 DEF ItemCalls, InnerCall
<1>10. ASSUME ~isRoot
       PROVE  \E i \in DOMAIN calls : calls[i].do = "enterName" /\ calls[i].at = n
  <2>1. m = 1 /\ last[1] = enter
    BY <1>1, <1>10
  <2>2. k + 1 \in DOMAIN calls /\ ~(k + 1 <= k) /\ (k + 1) - k = 1
    BY <1>5, <2>1
  <2>3. calls[k + 1] = enter
    BY <1>5, <2>1, <2>2
  <2> QED BY <1>2, <2>2, <2>3
<1>11. \A i \in DOMAIN calls : calls[i].do \in LayoutKinds \ {"endLayout"}
  BY <1>2, <1>6 DEF InnerCall, LayoutKinds, LayoutCalls
<1> QED BY <1>8, <1>9, <1>10, <1>11 DEF calls, last, enter

LEMMA ItemTurn ==
  ASSUME AutoNamesDiffer,
         NEW s, ReaderOK(s), LayoutInv(s), s.todo # << >>, s.todo[1].do = "item"
  PROVE  LayoutTurn(Turn(s), s)
<1> DEFINE c == s.todo[1]
           el == c.el
           parent == c.parent
           isRoot == parent.depth = 0
           lay == s.layout
           items == lay.items
           names == lay.names
           item == ItemOf(s.res, lay, el, parent, isRoot)
           n == Len(items) + 1
           inner == InnerCalls(s.res, el, item)
           calls == inner \o (IF isRoot THEN << >> ELSE <<[do |-> "enterName", at |-> n]>>)
           counts == IF isRoot \/ el.name # "" THEN lay.counts
                     ELSE [lay.counts EXCEPT ![el.tag] = AutoNumber(lay, el.tag)]
           sp == IF isRoot THEN ScaledPixel(s.res, el) ELSE lay.sp
           new == [lay EXCEPT !.sp = sp, !.items = Append(items, item), !.counts = counts]
           t == WithLayout(Make(s, calls), new)
<1>1. GoodCall(c) /\ Turn(s) = Call(s, c)
  BY FirstCall
<1>2. 1 \in DOMAIN s.todo /\ GoodCalls(s.todo) /\ ResOK(s.res)
  BY TailFacts DEF ReaderOK, GoodCalls
<1>3. c.do \in LayoutCalls /\ c.do \in LayoutKinds \ {"endLayout"}
  BY DEF LayoutKinds, LayoutCalls
<1>4. LayoutReading(s) /\ LayoutFirst(s)
  BY <1>2, <1>3 DEF LayoutInv
<1>5. el \in Elements /\ parent.depth \in Nat
  BY <1>1, <1>3 DEF GoodCall
<1>6. /\ LayoutState(lay) /\ Rooted(s.todo, items) /\ NamesAreLeft(s.todo, items, names)
  BY <1>4 DEF LayoutReading, LayoutPending
<1>7. isRoot => items = << >> /\ el.tag = "layout"
  <2>1. items # << >> => parent.depth >= 1
    BY <1>2, <1>3, <1>6 DEF Rooted
  <2>2. items = << >> => el.tag = "layout"
    BY <1>6 DEF Rooted
  <2> QED BY <1>5, <2>1, <2>2
<1>8. Turn(s) = ParseItem(s, el, parent)
  BY <1>1 DEF Call
<1>9. \/ Turn(s) = Refuse(s)
      \/ /\ Turn(s) = t
         /\ TypeOf(el, isRoot) \in ControlType
         /\ \A i \in DOMAIN el.styles : el.styles[i] \in DOMAIN s.res.styles
         /\ ~NameRefused(lay, el, isRoot)
         /\ item.pos.ok
  BY <1>8 DEF ParseItem, WithLayout
<1> HIDE DEF t
<1>10. ASSUME TypeOf(el, isRoot) \in ControlType,
              \A i \in DOMAIN el.styles : el.styles[i] \in DOMAIN s.res.styles,
              ~NameRefused(lay, el, isRoot), item.pos.ok
       PROVE  LayoutTurn(t, s)
  <2>1. ~isRoot => el.tag \in ControlType
    BY <1>10 DEF TypeOf
  <2>2. IsList(el.styles)
    BY <1>5, <1>7, <2>1, StylesAssumption DEF IsList
  <2>3. /\ item.name = ItemName(lay, el, isRoot) /\ item.depth = parent.depth + 1
        /\ item.type = TypeOf(el, isRoot)
        /\ item.import = IF TypeOf(el, isRoot) = "import" THEN Attribute(s.res, el, "layout") ELSE None
        /\ item.pos = IF IsWindow(lay, isRoot) THEN Unplaced
                      ELSE ParsePosition(s.res, el, names, isRoot)
    BY DEF ItemOf
  <2> HIDE DEF item
  <2>4. PlainItem(item) /\ item.depth \in Nat
    BY <1>5, <2>3 DEF PlainItem
  <2>5. InnerList(inner, item)
    BY <1>2, <1>5, <1>10, <2>2, <2>4, InnerFacts
  <2>6. item.name \notin names
    <3>1. CASE isRoot
      <4>1. \A i : i \notin DOMAIN items
        BY <1>7, <3>1, EmptyFacts
      <4>2. names = {}
        BY <1>6, <4>1 DEF NamesAreLeft
      <4> QED BY <4>2
    <3>2. CASE ~isRoot /\ el.name # ""
      BY <1>10, <2>3, <3>2 DEF NameRefused, ItemName
    <3>3. CASE ~isRoot /\ el.name = ""
      <4>1. el.tag \in ControlType
        BY <2>1, <3>3
      <4>2. lay.counts[el.tag] \in Nat /\ IsFiniteSet(lay.names)
        BY <1>6, <4>1 DEF LayoutState
      <4>3. AutoName(el.tag, AutoNumber(lay, el.tag)) \notin names
        <5> DEFINE tag == el.tag
                   l == lay
        <5>1. tag \in ControlType /\ l.counts[tag] \in Nat /\ IsFiniteSet(l.names)
          BY <4>1, <4>2
        <5> HIDE DEF tag, l
        <5>2. AutoName(tag, AutoNumber(l, tag)) \notin l.names
          BY <5>1, AutoNumberFacts
        <5> QED BY <5>2 DEF tag, l
      <4> QED BY <2>3, <3>3, <4>3 DEF ItemName
    <3> QED BY <3>1, <3>2, <3>3
  <2>7. RefsLeft(items, item)
    <3> SUFFICES ASSUME NEW side \in Sides, item.pos.ref[side] # None
                 PROVE  \E i \in DOMAIN items : items[i].name = item.pos.ref[side]
                                                /\ ~WouldBeInside(items, i, item.depth)
      BY DEF RefsLeft
    <3>1. ~IsWindow(lay, isRoot)
      BY <2>3 DEF Unplaced
    <3>2. item.pos = ParsePosition(s.res, el, names, isRoot)
      BY <2>3, <3>1
    <3>3. item.pos.ref[side] \in names
      <4> DEFINE r == s.res
                 root == isRoot
                 given == names
      <4>1. /\ ParsePosition(r, el, given, root).ok
            /\ ParsePosition(r, el, given, root).ref[side] # None
        BY <1>10, <3>2
      <4> HIDE DEF r, root, given, el
      <4>2. ParsePosition(r, el, given, root).ref[side] \in given
        BY <4>1, PositionRefs
      <4> QED BY <3>2, <4>2 DEF r, root, given
    <3>4. PICK i \in DOMAIN items :
            items[i].name = item.pos.ref[side] /\ LeftAlready(s.todo, items, i)
      BY <1>6, <3>3 DEF NamesAreLeft
    <3>5. ~WouldBeInside(items, i, item.depth)
      <4>1. items[i].depth \in Nat /\ \A k \in DOMAIN items : items[k].depth \in Nat
        BY <1>6 DEF LayoutState, LayoutOK
      <4>2. DOMAIN items = 1 .. Len(items) /\ Len(items) \in Nat
        BY <1>6, ListFacts DEF LayoutState, LayoutOK
      <4>3. CASE \E k \in DOMAIN items : k > i /\ items[k].depth <= items[i].depth
        <5>1. PICK k \in DOMAIN items : k > i /\ items[k].depth <= items[i].depth
          BY <4>3
        <5>2. k \in i + 1 .. Len(items) /\ ~(items[k].depth > items[i].depth)
          BY <4>1, <4>2, <5>1
        <5> QED BY <5>2 DEF WouldBeInside
      <4>4. CASE \A q \in DOMAIN s.todo : s.todo[q].do \in LayoutCalls =>
                   s.todo[q].parent.depth < items[i].depth
        <5>1. parent.depth < items[i].depth
          BY <1>2, <1>3, <4>4
        <5>2. ~(item.depth > items[i].depth)
          BY <1>5, <2>3, <4>1, <5>1
        <5> QED BY <5>2 DEF WouldBeInside
      <4> QED BY <3>4, <4>3, <4>4 DEF LeftAlready
    <3> QED BY <3>4, <3>5
  <2>8. counts \in [ControlType -> Nat]
    <3>1. lay.counts \in [ControlType -> Nat] /\ IsFiniteSet(lay.names)
      BY <1>6 DEF LayoutState
    <3>2. CASE isRoot \/ el.name # ""
      BY <3>1, <3>2
    <3>3. CASE ~(isRoot \/ el.name # "")
      <4>1. AutoNumber(lay, el.tag) \in Nat
        <5> DEFINE tag == el.tag
                   l == lay
        <5>1. tag \in ControlType /\ l.counts[tag] \in Nat /\ IsFiniteSet(l.names)
          BY <2>1, <3>1, <3>3
        <5> HIDE DEF tag, l
        <5>2. AutoNumber(l, tag) \in Nat
          BY <5>1, AutoNumberFacts
        <5> QED BY <5>2 DEF tag, l
      <4> DEFINE number == AutoNumber(lay, el.tag)
      <4> HIDE DEF number
      <4>2. counts = [lay.counts EXCEPT ![el.tag] = number]
        BY <3>3 DEF number
      <4>3. number \in Nat
        BY <4>1 DEF number
      <4> QED BY <3>1, <4>2, <4>3
    <3> QED BY <3>2, <3>3
  <2> HIDE DEF counts
  <2> DEFINE more == Append(items, item)
  <2> HIDE DEF more
  <2>9. /\ DOMAIN new = DOMAIN lay /\ new.items = more /\ new.counts = counts
        /\ new.names = names
    BY <1>6 DEF LayoutState, more
  <2> HIDE DEF new, inner
  <2>10. /\ GoodCalls(calls) /\ ItemCalls(calls, item, n, isRoot)
         /\ ~isRoot => \E i \in DOMAIN calls : calls[i].do = "enterName" /\ calls[i].at = n
         /\ \A i \in DOMAIN calls : calls[i].do \in LayoutKinds \ {"endLayout"}
    <3> DEFINE root == isRoot
               num == n
    <3>1. root \in BOOLEAN
      OBVIOUS
    <3> HIDE DEF root, num
    <3>2. LET those == inner \o (IF root THEN << >> ELSE <<[do |-> "enterName", at |-> num]>>)
          IN /\ GoodCalls(those) /\ ItemCalls(those, item, num, root)
             /\ ~root => \E i \in DOMAIN those : those[i].do = "enterName" /\ those[i].at = num
             /\ \A i \in DOMAIN those : those[i].do \in LayoutKinds \ {"endLayout"}
      BY <2>5, <3>1, ItemCallsFacts
    <3> QED BY <3>2 DEF root, num
  <2> HIDE DEF calls
  <2>11. /\ ReaderOK(t) /\ Follows(t, s, calls)
         /\ t.res = s.res /\ t.menu = s.menu /\ t.layout = new
    BY <2>10, MakeLayoutFacts DEF t
  <2>12. LayoutReading(t)
    <3> DEFINE root == isRoot
    <3>1. root <=> s.todo[1].parent.depth = 0
      OBVIOUS
    <3>2. ItemCalls(calls, item, Len(s.layout.items) + 1, root)
          /\ (~root => \E i \in DOMAIN calls :
                calls[i].do = "enterName" /\ calls[i].at = Len(s.layout.items) + 1)
      BY <2>10
    <3>3. /\ t.layout.items = Append(s.layout.items, item) /\ t.layout.names = s.layout.names
          /\ DOMAIN t.layout = DOMAIN s.layout /\ t.layout.counts \in [ControlType -> Nat]
      BY <2>8, <2>9, <2>11 DEF more
    <3>4. /\ RefsLeft(s.layout.items, item) /\ item.name \notin s.layout.names
          /\ item.depth = s.todo[1].parent.depth + 1
      BY <2>3, <2>6, <2>7
    <3> HIDE DEF root, el, parent, c, lay, items, names, n
    <3> QED BY <1>2, <1>4, <2>4, <2>11, <3>1, <3>2, <3>3, <3>4, ItemReading
  <2>13. LayoutFirst(t)
    BY <1>2, <1>3, <1>4, <2>10, <2>11, LayoutStaysFirst
  <2>14. LayoutInv(t)
    BY <2>11, <2>12, <2>13 DEF LayoutInv
  <2>15. \A i \in DOMAIN calls : calls[i].do \in LayoutKinds
    BY <2>10
  <2> QED BY <2>11, <2>14, <2>15 DEF LayoutTurn, OnlyMakes
<1> QED BY <1>9, <1>10, LayoutRefuse

LEMMA EmptyLayoutOK == LayoutOK(<< >>) /\ DOMAIN << >> = {}
  BY EmptyFacts, EmptyList DEF LayoutOK, SameNested, Aligned

LEMMA TwoList ==
  ASSUME NEW a, NEW b
  PROVE  /\ IsList(<<a, b>>) /\ Len(<<a, b>>) = 2 /\ DOMAIN <<a, b>> = 1 .. 2
         /\ <<a, b>>[1] = a /\ <<a, b>>[2] = b
<1>1. <<a, b>> \in Seq({a, b}) /\ Len(<<a, b>>) = 2
  OBVIOUS
<1>2. IsList(<<a, b>>) /\ DOMAIN <<a, b>> = 1 .. 2
  BY <1>1, SameList
<1> QED BY <1>1, <1>2

(* A layout begins: no calls of another are left.                          *)
LEMMA LayoutTurnBegin ==
  ASSUME NEW s, ReaderOK(s), LayoutInv(s), s.todo # << >>,
         s.todo[1].do = "element", s.todo[1].el.tag = "layout"
  PROVE  LayoutTurn(Turn(s), s)
<1> DEFINE el == s.todo[1].el
           first == ItemCall(el, [depth |-> 0, font |-> None])
           end == [do |-> "endLayout"]
           calls == <<first, end>>
           lay == [name |-> el.name, type |-> el.type, sp |-> None,
                   names |-> {}, items |-> << >>,
                   counts |-> [k \in ControlType |-> 0]]
           t == WithLayout(Make(s, calls), lay)
<1>1. GoodCall(s.todo[1]) /\ Turn(s) = Call(s, s.todo[1])
  BY FirstCall
<1>2. el \in Elements /\ el.tag = "layout"
  BY <1>1 DEF GoodCall
<1>3. Turn(s) \in {Refuse(s), t}
  BY <1>1 DEF Call, ParseElement, ParseLayout, WithLayout
<1> HIDE DEF el
<1>4. /\ first.do = "item" /\ first.el = el /\ first.parent.depth = 0
      /\ end.do = "endLayout" /\ GoodCall(first) /\ GoodCall(end)
  BY <1>2 DEF ItemCall, GoodCall, LayoutCalls
<1> HIDE DEF first, end
<1>5. /\ IsList(calls) /\ Len(calls) = 2 /\ DOMAIN calls = 1 .. 2
      /\ calls[1] = first /\ calls[2] = end
  BY TwoList
<1> HIDE DEF calls
<1>6. GoodCalls(calls)
  BY <1>4, <1>5 DEF GoodCalls
<1>7. LayoutState(lay) /\ lay.items = << >> /\ lay.names = {}
  <2>1. IsFiniteSet({})
    BY FS_EmptySet
  <2> QED BY <2>1, EmptyLayoutOK DEF LayoutState
<1> HIDE DEF lay
<1>8. LayoutTurn(t, s)
  <2>1. /\ ReaderOK(t) /\ Follows(t, s, calls)
        /\ t.res = s.res /\ t.menu = s.menu /\ t.layout = lay
    BY <1>6, MakeLayoutFacts
  <2> HIDE DEF t
  <2>2. t.todo[1] = first /\ t.todo[2] = end
    BY <2>1, <1>5 DEF Follows
  <2>3. ASSUME NEW q \in DOMAIN t.todo, q # 1
        PROVE  t.todo[q].do \notin LayoutKinds \ {"endLayout"} /\ (q # 2 => t.todo[q].do \notin LayoutKinds)
    <3>1. /\ 1 \in DOMAIN s.todo
          /\ Made(q, calls) => q \in DOMAIN calls /\ t.todo[q] = calls[q]
          /\ ~Made(q, calls) =>
               Was(q, calls) \in DOMAIN s.todo /\ 1 < Was(q, calls)
               /\ t.todo[q] = s.todo[Was(q, calls)]
      BY <2>1, FollowsCases DEF ReaderOK
    <3>2. CASE Made(q, calls)
      <4>1. q = 2 /\ t.todo[q] = end
        BY <3>1, <3>2, <2>3, <1>5
      <4> QED BY <4>1, <1>4
    <3>3. CASE ~Made(q, calls)
      <4>1. s.todo[1].do \notin LayoutKinds
        BY DEF LayoutKinds, LayoutCalls
      <4>2. t.todo[q].do \notin LayoutKinds
        BY <3>1, <3>3, <4>1 DEF LayoutInv, LayoutFirst
      <4> QED BY <4>2
    <3> QED BY <3>2, <3>3
  <2>4. 1 \in DOMAIN t.todo /\ \A q \in DOMAIN t.todo : q \in Nat /\ q >= 1
    BY <2>1, <1>5 DEF Follows
  <2>5. ASSUME NEW p \in DOMAIN t.todo, NEW q \in DOMAIN t.todo, p < q,
               t.todo[q].do \in LayoutKinds
        PROVE  t.todo[p].do \in LayoutKinds \ {"endLayout"}
    <3>1. q # 1
      BY <2>4, <2>5
    <3>2. q = 2
      BY <2>3, <2>5, <3>1
    <3>3. p = 1
      BY <2>4, <2>5, <3>2
    <3> QED BY <3>3, <2>2, <1>4 DEF LayoutKinds, LayoutCalls
  <2>6. LayoutFirst(t)
    BY <2>5 DEF LayoutFirst
  <2>7. Rooted(t.todo, << >>)
    <3>1. \A q \in DOMAIN t.todo : q > 1 => t.todo[q].do \notin LayoutKinds \ {"endLayout"}
      BY <2>3
    <3> QED BY <3>1, <2>2, <1>2, <1>4 DEF Rooted
  <2>8. \A q \in DOMAIN t.todo : t.todo[q].do # "enterName" /\ (t.todo[q].do \in LayoutCalls => q = 1)
    <3> SUFFICES ASSUME NEW q \in DOMAIN t.todo
                 PROVE  t.todo[q].do # "enterName" /\ (t.todo[q].do \in LayoutCalls => q = 1)
      OBVIOUS
    <3>1. CASE q = 1
      BY <3>1, <2>2, <1>4
    <3>2. CASE q # 1
      BY <3>2, <2>3 DEF LayoutKinds, LayoutCalls
    <3> QED BY <3>1, <3>2
  <2>9. DeepestFirst(t.todo, LayoutCalls)
    BY <2>4, <2>8 DEF DeepestFirst
  <2>10. LayoutPending(t.todo, << >>, {})
    BY <2>7, <2>8, <2>9, EmptyLayoutOK
       DEF LayoutPending, Entering, InsideFirst, OutsideBehind, NamesToCome, NamesAreLeft
  <2>11. LayoutInv(t)
    BY <2>1, <2>6, <2>10, <1>7 DEF LayoutInv, LayoutReading
  <2>12. \A i \in DOMAIN calls : calls[i].do \in LayoutKinds
    BY <1>4, <1>5 DEF LayoutKinds, LayoutCalls
  <2> QED BY <2>1, <2>11, <2>12 DEF LayoutTurn, OnlyMakes
<1> HIDE DEF t
<1> QED BY <1>3, <1>8, LayoutRefuse

(* It ends when none of its own are.                                       *)
LEMMA LayoutTurnEnd ==
  ASSUME NEW s, ReaderOK(s), LayoutInv(s), s.todo # << >>, s.todo[1].do = "endLayout"
  PROVE  LayoutTurn(Turn(s), s)
<1> DEFINE entry == [type |-> s.layout.type, sp |-> s.layout.sp, items |-> s.layout.items]
           d == Put(s.res.layouts, s.layout.name, entry)
           r == [s.res EXCEPT !.layouts = d]
           t == Return(s, r)
<1>1. GoodCall(s.todo[1]) /\ Turn(s) = Call(s, s.todo[1])
  BY FirstCall
<1>2. Turn(s) \in {Refuse(s), t}
  BY <1>1 DEF Call, EndLayout
<1>3. 1 \in DOMAIN s.todo
  BY TailFacts DEF ReaderOK, GoodCalls
<1>4. LayoutOK(entry.items)
  BY <1>3 DEF LayoutInv, LayoutReading, LayoutState, LayoutKinds
<1> HIDE DEF entry
<1>5. \A n \in DOMAIN d : LayoutOK(d[n].items)
  BY <1>4 DEF Put, LayoutInv
<1> HIDE DEF d
<1>6. ResOK(r) /\ r.layouts = d /\ r.menus = s.res.menus
  <2>1. ResOK(s.res)
    BY DEF ReaderOK
  <2>2. /\ DOMAIN r = Registry /\ r.ok = s.res.ok /\ r.styles = s.res.styles
        /\ r.includes = s.res.includes /\ r.drawables = s.res.drawables /\ r.raws = s.res.raws
    BY <2>1 DEF ResOK, Registry
  <2>3. r.layouts = d /\ r.menus = s.res.menus
    BY <2>1 DEF ResOK, Registry
  <2> HIDE DEF r
  <2> QED BY <2>1, <2>2, <2>3 DEF ResOK
<1> HIDE DEF r
<1>7. /\ ReaderOK(t) /\ t.res = r /\ t.menu = s.menu /\ t.layout = s.layout
      /\ Ends(t, s) \/ Follows(t, s, << >>)
  BY <1>6, ReturnFacts
<1> HIDE DEF t
<1>8. OnlyMakes(t, s, {})
  <2>1. CASE Ends(t, s)
    BY <2>1 DEF Ends, OnlyMakes
  <2>2. CASE Follows(t, s, << >>)
    BY <2>2, EmptyFacts DEF OnlyMakes
  <2> QED BY <1>7, <2>1, <2>2
<1>9. NoLayoutCalls(t)
  <2> DEFINE kinds == {}
  <2>1. kinds \cap LayoutKinds = {} /\ OnlyMakes(t, s, kinds)
    BY <1>8
  <2>2. LayoutFirst(s) /\ s.todo[1].do \notin LayoutKinds \ {"endLayout"}
    BY DEF LayoutInv
  <2> HIDE DEF kinds
  <2> QED BY <2>1, <2>2, LayoutCallsGone
<1>10. LayoutInv(t)
  BY <1>5, <1>6, <1>7, <1>9 DEF LayoutInv, LayoutFirst, NoLayoutCalls
<1>11. OnlyMakes(t, s, LayoutKinds)
  BY <1>8 DEF OnlyMakes
<1>12. LayoutTurn(t, s)
  BY <1>6, <1>7, <1>10, <1>11 DEF LayoutTurn
<1> QED BY <1>2, <1>12, LayoutRefuse

-----------------------------------------------------------------------------
(* Reading to the end *)

AllKinds ==
  {"directory", "file", "element", "string"} \cup MenuKinds \cup LayoutKinds

Known(s) == \A q \in DOMAIN s.todo : s.todo[q].do \in AllKinds

ReaderInv(s) == ReaderOK(s) /\ MenuInv(s) /\ LayoutInv(s) /\ Known(s)

LEMMA StaysKnown ==
  ASSUME NEW s, NEW t, NEW kinds, ReaderOK(s), s.todo # << >>, Known(s),
         OnlyMakes(t, s, kinds), kinds \subseteq AllKinds
  PROVE  Known(t)
<1>1. CASE DOMAIN t.todo = {}
  BY <1>1 DEF Known
<1>2. ASSUME NEW calls, Follows(t, s, calls), \A i \in DOMAIN calls : calls[i].do \in kinds
      PROVE  Known(t)
  <2> SUFFICES ASSUME NEW q \in DOMAIN t.todo PROVE t.todo[q].do \in AllKinds
    BY DEF Known
  <2>1. /\ Made(q, calls) => q \in DOMAIN calls /\ t.todo[q] = calls[q]
        /\ ~Made(q, calls) =>
             Was(q, calls) \in DOMAIN s.todo /\ t.todo[q] = s.todo[Was(q, calls)]
    BY <1>2, FollowsCases DEF ReaderOK
  <2>2. CASE Made(q, calls)
    BY <2>1, <2>2, <1>2
  <2>3. CASE ~Made(q, calls)
    BY <2>1, <2>3 DEF Known
  <2> QED BY <2>2, <2>3
<1> QED BY <1>1, <1>2 DEF OnlyMakes

(* The calls that read a menu leave the layouts alone, those that read a    *)
(* layout the menus, and all others both.                                   *)
LEMMA MenusAlone ==
  ASSUME NEW s, NEW t, NEW kinds, ReaderOK(s), s.todo # << >>, MenuInv(s),
         s.todo[1].do # "menuItem", kinds \cap MenuKinds = {}, OnlyMakes(t, s, kinds),
         t.res.menus = s.res.menus
  PROVE  MenuInv(t)
<1>1. NoMenuCalls(t)
  BY MenuCallsGone DEF MenuInv
<1> QED BY <1>1, NoMenuInv

LEMMA LayoutsAlone ==
  ASSUME NEW s, NEW t, NEW kinds, ReaderOK(s), s.todo # << >>, LayoutInv(s),
         s.todo[1].do \notin LayoutKinds \ {"endLayout"}, kinds \cap LayoutKinds = {},
         OnlyMakes(t, s, kinds), t.res.layouts = s.res.layouts
  PROVE  LayoutInv(t)
<1>1. NoLayoutCalls(t)
  BY LayoutCallsGone DEF LayoutInv
<1> QED BY <1>1, NoLayoutInv

LEMMA KindsApart ==
  /\ MenuKinds \cap LayoutKinds = {} /\ LayoutKinds \cap MenuKinds = {}
  /\ {"file", "string"} \cap MenuKinds = {} /\ {"file", "string"} \cap LayoutKinds = {}
  /\ {"file", "string"} \subseteq AllKinds
  /\ MenuKinds \subseteq AllKinds /\ LayoutKinds \subseteq AllKinds
  BY DEF MenuKinds, LayoutKinds, LayoutCalls, AllKinds

LEMMA ReaderTurn ==
  ASSUME AutoNamesDiffer, NEW s, ReaderInv(s)
  PROVE  ReaderInv(Turn(s))
<1> DEFINE t == Turn(s)
           c == s.todo[1]
<1>1. CASE s.todo = << >>
  BY <1>1 DEF Turn
<1>2. CASE s.todo # << >>
  <2>1. ReaderOK(s) /\ MenuInv(s) /\ LayoutInv(s) /\ Known(s)
    BY DEF ReaderInv
  <2>2. 1 \in DOMAIN s.todo
    BY <1>2, <2>1, TailFacts DEF ReaderOK, GoodCalls
  <2>3. c.do \in AllKinds
    BY <2>1, <2>2 DEF Known
  <2>4. CASE \/ c.do \in {"directory", "file", "string"}
             \/ c.do = "element" /\ c.el.tag \notin {"menu", "layout"}
    <3>1. Other(t, s)
      BY <1>2, <2>1, <2>4, OtherTurn
    <3> HIDE DEF t
    <3>2. /\ ReaderOK(t) /\ OnlyMakes(t, s, {"file", "string"})
          /\ t.res.menus = s.res.menus /\ t.res.layouts = s.res.layouts
      BY <3>1 DEF Other, Keeps
    <3>3. c.do # "menuItem" /\ c.do \notin LayoutKinds
      BY <2>4 DEF LayoutKinds, LayoutCalls
    <3> DEFINE kinds == {"file", "string"}
    <3>4. /\ OnlyMakes(t, s, kinds) /\ kinds \cap MenuKinds = {}
          /\ kinds \cap LayoutKinds = {} /\ kinds \subseteq AllKinds
      BY <3>2, KindsApart
    <3> HIDE DEF kinds
    <3>5. MenuInv(t) /\ LayoutInv(t)
      BY <1>2, <2>1, <3>2, <3>3, <3>4, MenusAlone, LayoutsAlone
    <3>6. Known(t)
      BY <1>2, <2>1, <3>4, StaysKnown
    <3> QED BY <3>2, <3>5, <3>6 DEF ReaderInv, t
  <2>5. CASE c.do \in MenuKinds \/ (c.do = "element" /\ c.el.tag = "menu")
    <3>1. MenuTurn(t, s)
      BY <1>2, <2>1, <2>5, MenuItemTurn, MenuTurnBegin, MenuTurnEnd DEF MenuKinds
    <3> HIDE DEF t
    <3>2. c.do \notin LayoutKinds
      BY <2>5 DEF MenuKinds, LayoutKinds, LayoutCalls
    <3>3. LayoutInv(t)
      BY <1>2, <2>1, <3>1, <3>2, KindsApart, LayoutsAlone DEF MenuTurn
    <3>4. Known(t)
      BY <1>2, <2>1, <3>1, KindsApart, StaysKnown DEF MenuTurn
    <3> QED BY <3>1, <3>3, <3>4 DEF ReaderInv, MenuTurn, t
  <2>6. CASE c.do \in LayoutKinds \/ (c.do = "element" /\ c.el.tag = "layout")
    <3>1. LayoutTurn(t, s)
      BY <1>2, <2>1, <2>6, ItemTurn, ItemsTurn, TabItemsTurn, EnterTurn, LayoutTurnBegin,
         LayoutTurnEnd DEF LayoutKinds, LayoutCalls
    <3> HIDE DEF t
    <3>2. c.do # "menuItem"
      BY <2>6 DEF LayoutKinds, LayoutCalls
    <3>3. MenuInv(t)
      BY <1>2, <2>1, <3>1, <3>2, KindsApart, MenusAlone DEF LayoutTurn
    <3>4. Known(t)
      BY <1>2, <2>1, <3>1, KindsApart, StaysKnown DEF LayoutTurn
    <3> QED BY <3>1, <3>3, <3>4 DEF ReaderInv, LayoutTurn, t
  <2> QED BY <2>3, <2>4, <2>5, <2>6 DEF AllKinds
<1> QED BY <1>1, <1>2

(* At first nothing is being read.                                          *)
LEMMA StartInv ==
  ASSUME NEW project, ElementsIn(project.xml), IsList(project.dirs),
         \A dir \in Range(project.dirs) : IsList(dir.files)
  PROVE  ReaderInv(StartReading(project))
<1> DEFINE s == StartReading(project)
           n == Len(project.dirs)
           m == Len(project.xml)
           a == [i \in 1 .. n |-> [do |-> "directory", dir |-> project.dirs[i]]]
           b == [i \in 1 .. m |-> [do |-> "element", el |-> project.xml[i]]]
<1>1. n \in Nat /\ DOMAIN project.dirs = 1 .. n
  BY ListFacts
<1>2. m \in Nat /\ DOMAIN project.xml = 1 .. m /\ \A i \in 1 .. m : project.xml[i] \in Elements
  BY ElementChildren
<1>3. \A i \in 1 .. n : GoodCall(a[i]) /\ a[i].do = "directory"
  <2> SUFFICES ASSUME NEW i \in 1 .. n PROVE GoodCall(a[i]) /\ a[i].do = "directory"
    OBVIOUS
  <2>1. IsList(project.dirs[i].files)
    BY <1>1 DEF Range
  <2>2. a[i] = [do |-> "directory", dir |-> project.dirs[i]]
    OBVIOUS
  <2> QED BY <2>1, <2>2 DEF GoodCall, LayoutCalls
<1>4. \A i \in 1 .. m : GoodCall(b[i]) /\ b[i].do = "element"
  <2> SUFFICES ASSUME NEW i \in 1 .. m PROVE GoodCall(b[i]) /\ b[i].do = "element"
    OBVIOUS
  <2>1. b[i] = [do |-> "element", el |-> project.xml[i]]
    OBVIOUS
  <2> QED BY <1>2, <2>1 DEF GoodCall, LayoutCalls
<1>5. /\ DOMAIN s = {"res", "menu", "layout", "todo"}
      /\ s.res = NoResources /\ s.todo = a \o b
  BY <1>1, <1>2 DEF StartReading
<1>6. a = [i \in 1 .. n |-> a[i]] /\ b = [i \in 1 .. m |-> b[i]]
  OBVIOUS
<1> HIDE DEF s, a, b, n, m
<1>7. IsList(a) /\ Len(a) = n /\ IsList(b) /\ Len(b) = m
  BY <1>1, <1>2, <1>6, ListOver
<1>8. /\ IsList(a \o b) /\ DOMAIN (a \o b) = 1 .. n + m
      /\ \A i \in 1 .. n + m : (a \o b)[i] = IF i <= n THEN a[i] ELSE b[i - n]
  BY <1>7, ConcatLists
<1>9. ASSUME NEW q \in DOMAIN s.todo
      PROVE  GoodCall(s.todo[q]) /\ s.todo[q].do \in {"directory", "element"}
  <2>0. q \in 1 .. n + m
    BY <1>5, <1>8
  <2>1. CASE q <= n
    <3>1. q \in 1 .. n /\ s.todo[q] = a[q]
      BY <1>1, <1>2, <1>5, <1>8, <2>0, <2>1
    <3> QED BY <3>1, <1>3
  <2>2. CASE q > n
    <3>1. q - n \in 1 .. m /\ s.todo[q] = b[q - n]
      BY <1>1, <1>2, <1>5, <1>8, <2>0, <2>2
    <3> QED BY <3>1, <1>4
  <2> QED BY <2>0, <2>1, <2>2, <1>1
<1>10. ReaderOK(s)
  BY <1>5, <1>8, <1>9, NoResourcesOK DEF ReaderOK, GoodCalls
<1>11. NoMenuCalls(s) /\ NoLayoutCalls(s) /\ Known(s)
  BY <1>9 DEF NoMenuCalls, NoLayoutCalls, Known, AllKinds, MenuKinds, LayoutKinds, LayoutCalls
<1>12. DOMAIN s.res.menus = {} /\ DOMAIN s.res.layouts = {}
  BY <1>5 DEF NoResources
<1>13. MenuInv(s) /\ LayoutInv(s)
  BY <1>11, <1>12 DEF MenuInv, LayoutInv, MenuFirst, LayoutFirst, NoMenuCalls, NoLayoutCalls
<1> QED BY <1>10, <1>11, <1>13 DEF ReaderInv, s

ReadingFrom(f, project, i) ==
  IF i = 0 THEN StartReading(project) ELSE Turn(f[i - 1])

(* The reader is defined after any number of turns.                         *)
LEMMA ReadingExists ==
  ASSUME NEW project
  PROVE  \A n \in Nat : \E f : f = [i \in 0 .. n |-> ReadingFrom(f, project, i)]
<1> DEFINE Is(n, f) == f = [i \in 0 .. n |-> ReadingFrom(f, project, i)]
           T == {n \in Nat : ~\E f : Is(n, f)}
<1> SUFFICES ASSUME T # {} PROVE FALSE
  OBVIOUS
<1>1. PICK m \in T : \A n \in T : m <= n
  <2> HIDE DEF T
  <2> T \subseteq Nat
    BY DEF T
  <2> QED BY LeastNumber
<1>2. m # 0
  <2> DEFINE e == [i \in 0 .. 0 |-> StartReading(project)]
  <2>1. \A i \in 0 .. 0 : ReadingFrom(e, project, i) = StartReading(project)
    BY DEF ReadingFrom
  <2>2. Is(0, e)
    BY <2>1
  <2>3. 0 \notin T
    BY <2>2
  <2> QED BY <2>3, <1>1
<1>3. m \in Nat /\ m - 1 \in Nat /\ m - 1 \notin T
  <2> m \in Nat
    OBVIOUS
  <2> HIDE DEF T
  <2> QED BY <1>1, <1>2
<1>4. PICK f : Is(m - 1, f)
  BY <1>3
<1> DEFINE g == [i \in 0 .. m |-> ReadingFrom(f, project, i)]
<1>5. \A i \in 0 .. m - 1 : g[i] = f[i]
  <2> SUFFICES ASSUME NEW i \in 0 .. m - 1 PROVE g[i] = f[i]
    OBVIOUS
  <2>1. i \in 0 .. m
    BY <1>3
  <2>2. g[i] = ReadingFrom(f, project, i)
    BY <2>1
  <2>3. f[i] = ReadingFrom(f, project, i)
    BY <1>4
  <2> QED BY <2>2, <2>3
<1>6. ASSUME NEW i \in 0 .. m PROVE ReadingFrom(g, project, i) = ReadingFrom(f, project, i)
  <2>1. CASE i = 0
    BY <2>1 DEF ReadingFrom
  <2>2. CASE i # 0
    <3>1. i - 1 \in 0 .. m - 1
      BY <1>3, <2>2
    <3>2. g[i - 1] = f[i - 1]
      <4> HIDE DEF g
      <4> QED BY <1>5, <3>1
    <3> HIDE DEF g
    <3> QED BY <2>2, <3>2 DEF ReadingFrom
  <2> QED BY <2>1, <2>2
<1>7. Is(m, g)
  <2> [i \in 0 .. m |-> ReadingFrom(g, project, i)] = [i \in 0 .. m |-> ReadingFrom(f, project, i)]
    <3> HIDE DEF g
    <3> QED BY <1>6
  <2> QED OBVIOUS
<1> QED BY <1>7

LEMMA ReadingTurns ==
  ASSUME NEW project
  PROVE  /\ Reading(project)[0] = StartReading(project)
         /\ \A i \in 1 .. MaxCalls : Reading(project)[i] = Turn(Reading(project)[i - 1])
<1>1. PICK f : f = [i \in 0 .. MaxCalls |-> ReadingFrom(f, project, i)]
  BY ReadingExists, MaxCallsAssumption
<1>2. Reading(project) = [i \in 0 .. MaxCalls |-> ReadingFrom(Reading(project), project, i)]
  BY <1>1 DEF Reading, ReadingFrom
<1> DEFINE g == Reading(project)
<1>3. g = [i \in 0 .. MaxCalls |-> ReadingFrom(g, project, i)]
  BY <1>2
<1> HIDE DEF g
<1>4. \A i \in 0 .. MaxCalls : g[i] = ReadingFrom(g, project, i)
  BY <1>3
<1>5. g[0] = StartReading(project)
  BY <1>4, MaxCallsAssumption DEF ReadingFrom
<1>6. ASSUME NEW i \in 1 .. MaxCalls PROVE g[i] = Turn(g[i - 1])
  <2>1. i \in 0 .. MaxCalls /\ i # 0
    BY MaxCallsAssumption
  <2> QED BY <1>4, <2>1 DEF ReadingFrom
<1> QED BY <1>5, <1>6 DEF g

(* What is read of a project.                                               *)
LEMMA ReadFacts ==
  ASSUME AutoNamesDiffer, NEW project, ElementsIn(project.xml), IsList(project.dirs),
         \A dir \in Range(project.dirs) : IsList(dir.files)
  PROVE  /\ ResOK(Read(project))
         /\ \A n \in DOMAIN Read(project).menus : MenuOK(Read(project).menus[n])
         /\ \A n \in DOMAIN Read(project).layouts : LayoutOK(Read(project).layouts[n].items)
<1> DEFINE g == Reading(project)
           T == {n \in 0 .. MaxCalls : ~ReaderInv(g[n])}
<1>1. T = {}
  <2> SUFFICES ASSUME T # {} PROVE FALSE
    OBVIOUS
  <2>1. g[0] = StartReading(project) /\ \A i \in 1 .. MaxCalls : g[i] = Turn(g[i - 1])
    BY ReadingTurns
  <2> HIDE DEF g
  <2>2. PICK m \in T : \A n \in T : m <= n
    <3>1. T \subseteq Nat
      OBVIOUS
    <3> HIDE DEF T
    <3> QED BY <3>1, LeastNumber
  <2>3. m # 0
    BY <2>1, StartInv
  <2>4. m \in 1 .. MaxCalls /\ m - 1 \in 0 .. MaxCalls /\ m - 1 \notin T
    <3>1. m \in 0 .. MaxCalls
      OBVIOUS
    <3> HIDE DEF T
    <3> QED BY <3>1, <2>2, <2>3, MaxCallsAssumption
  <2>5. ReaderInv(g[m - 1])
    BY <2>4
  <2>6. ReaderInv(g[m])
    BY <2>1, <2>4, <2>5, ReaderTurn
  <2> QED BY <2>6
<1>2. MaxCalls \in 0 .. MaxCalls
  BY MaxCallsAssumption
<1> HIDE DEF g
<1>3. ReaderInv(g[MaxCalls])
  BY <1>1, <1>2
<1>4. Read(project) = g[MaxCalls].res
  BY DEF Read, g
<1> QED BY <1>3, <1>4 DEF ReaderInv, ReaderOK, MenuInv, LayoutInv

-----------------------------------------------------------------------------
(* The layouts of the document *)

ReadOK(r) ==
  /\ ResOK(r)
  /\ \A n \in DOMAIN r.menus : MenuOK(r.menus[n])
  /\ \A n \in DOMAIN r.layouts : LayoutOK(r.layouts[n].items)

(* What was read is of a project that was on disk, or nothing.             *)
ResInv == disk \in Projects \cup Edits /\ ReadOK(res)

LEMMA NothingReadOK == ReadOK(NoResources)
  BY NoResourcesOK DEF ReadOK, NoResources

LEMMA ResInit == Init => ResInv
  BY NothingReadOK DEF Init, ResInv

LEMMA ResStep == AutoNamesDiffer => (ResInv /\ [Next]_vars => ResInv')
<1> SUFFICES ASSUME AutoNamesDiffer, ResInv, [Next]_vars PROVE ResInv'
  OBVIOUS
<1>1. ReadOK(Read(disk))
  <2>1. /\ ElementsIn(disk.xml) /\ IsList(disk.dirs)
        /\ \A dir \in Range(disk.dirs) : IsList(dir.files)
    BY ProjectsAssumption DEF ResInv
  <2> DEFINE project == disk
  <2>2. /\ ElementsIn(project.xml) /\ IsList(project.dirs)
        /\ \A dir \in Range(project.dirs) : IsList(dir.files)
    BY <2>1
  <2> HIDE DEF project
  <2>3. ReadOK(Read(project))
    BY <2>2, ReadFacts DEF ReadOK
  <2> QED BY <2>3 DEF project
<1>2. CASE UNCHANGED vars
  BY <1>2 DEF ResInv, vars
<1>3. ASSUME NEW p \in Edits, Edit(p) PROVE ResInv'
  BY <1>3 DEF Edit, ResInv
<1>4. ASSUME NEW c, Open(c) PROVE ResInv'
  BY <1>4, NothingReadOK DEF Open, FreeResources, ResInv
<1>5. CASE Close
  BY <1>5, NothingReadOK DEF Close, FreeResources, ResInv
<1>6. CASE OpenResources
  BY <1>6, <1>1 DEF OpenResources, ResInv
<1>7. ASSUME NEW k, NEW header, GenerateCpp(k, header) PROVE ResInv'
  BY <1>7 DEF GenerateCpp, ResInv
<1>8. ASSUME NEW name, Simulate(name) PROVE ResInv'
  BY <1>8 DEF Simulate, ResInv
<1> QED BY <1>2, <1>3, <1>4, <1>5, <1>6, <1>7, <1>8 DEF Next

(* Two items of a layout have the same name only when one is inside the     *)
(* other, in every document that is read (ParseItem, EnterName).            *)
THEOREM DocumentSameNameOnlyNested ==
  ASSUME AutoNamesDiffer
  PROVE  Spec => []SameNameOnlyNested
<1>1. Init => ResInv
  BY ResInit
<1>2. ResInv /\ [Next]_vars => ResInv'
  BY ResStep
<1>3. ResInv => SameNameOnlyNested
  BY DEF ResInv, ReadOK, LayoutOK, SameNested, SameNameOnlyNested
<1> QED BY <1>1, <1>2, <1>3, PTL DEF Spec

LEMMA PlacedBy ==
  ASSUME NEW pos, NEW p \in Placed(pos)
  PROVE  \E side \in Sides : p[3] = pos.ref[side]
<1>1. PICK side \in {"left", "top", "right", "bottom"} :
        p = <<side, pos.mode[side], pos.ref[side]>>
  BY DEF Placed
<1> QED BY <1>1 DEF Sides

(* A view is placed by an item that was created before it and that it is    *)
(* not inside of, in every document that is read (ParsePosition).           *)
THEOREM DocumentAlignedToEarlier ==
  ASSUME AutoNamesDiffer
  PROVE  Spec => []AlignedToEarlier
<1>1. Init => ResInv
  BY ResInit
<1>2. ResInv /\ [Next]_vars => ResInv'
  BY ResStep
<1>3. ResInv => AlignedToEarlier
  <2> SUFFICES ASSUME ResInv, NEW n \in DOMAIN res.layouts,
                      NEW j \in DOMAIN res.layouts[n].items,
                      NEW p \in Placed(res.layouts[n].items[j].pos), p[3] # None
               PROVE  \E i \in 1 .. j - 1 : res.layouts[n].items[i].name = p[3]
                                            /\ ~Inside(res.layouts[n].items, i, j)
    BY DEF AlignedToEarlier
  <2>1. Aligned(res.layouts[n].items)
    BY DEF ResInv, ReadOK, LayoutOK
  <2>2. \E side \in Sides : p[3] = res.layouts[n].items[j].pos.ref[side]
    BY PlacedBy
  <2> QED BY <2>1, <2>2 DEF Aligned
<1> QED BY <1>1, <1>2, <1>3, PTL DEF Spec

-----------------------------------------------------------------------------
(* The menus of the document *)

LEMMA AroundFacts ==
  ASSUME NEW items, MenuOK(items), NEW j \in DOMAIN items
  PROVE  /\ j \in Nat \ {0}
         /\ \A i \in Around(items, j) :
              /\ i \in DOMAIN items /\ i < j /\ Inside(items, i, j)
              /\ Around(items, i) \subseteq Around(items, j)
<1>1. /\ Len(items) \in Nat /\ DOMAIN items = 1 .. Len(items)
      /\ \A k \in DOMAIN items : items[k].depth \in Nat
  BY ListFacts DEF MenuOK
<1>2. ASSUME NEW i \in Around(items, j)
      PROVE  /\ i \in DOMAIN items /\ i < j /\ Inside(items, i, j)
             /\ Around(items, i) \subseteq Around(items, j)
  <2>1. i \in 1 .. j - 1 /\ Inside(items, i, j)
    BY DEF Around
  <2>2. i \in DOMAIN items /\ i < j
    BY <1>1, <2>1
  <2>3. ASSUME NEW h \in Around(items, i) PROVE h \in Around(items, j)
    <3>1. h \in 1 .. i - 1 /\ Inside(items, h, i)
      BY DEF Around
    <3>2. h \in 1 .. j - 1 /\ h \in DOMAIN items /\ h < i
      BY <1>1, <2>1, <2>2, <3>1
    <3>3. items[i].depth > items[h].depth
      <4>1. i \in h + 1 .. i
        BY <1>1, <2>2, <3>2
      <4> QED BY <3>1, <4>1 DEF Inside
    <3>4. ASSUME NEW k \in h + 1 .. j PROVE items[k].depth > items[h].depth
      <4>1. k \in DOMAIN items
        BY <1>1, <3>2
      <4>2. CASE k <= i
        <5>1. k \in h + 1 .. i
          BY <1>1, <2>2, <4>2
        <5> QED BY <3>1, <5>1 DEF Inside
      <4>3. CASE k > i
        <5>1. k \in i + 1 .. j
          BY <1>1, <2>2, <4>3
        <5>2. items[k].depth > items[i].depth
          BY <2>1, <5>1 DEF Inside
        <5> QED BY <1>1, <2>2, <3>2, <3>3, <4>1, <5>2
      <4> QED BY <1>1, <2>2, <4>1, <4>2, <4>3
    <3>5. h < j
      BY <1>1, <2>2, <3>2
    <3> QED BY <3>2, <3>4, <3>5 DEF Inside, Around
  <2> QED BY <2>1, <2>2, <2>3
<1>3. j \in Nat \ {0}
  BY <1>1
<1> QED BY <1>2, <1>3

(* The flags of an item's parent are those of the innermost around it.     *)
LEMMA ParentFacts ==
  ASSUME NEW items, MenuOK(items), NEW j \in DOMAIN items
  PROVE  \/ ParentFlags(items, j) = Platforms
         \/ \E a \in Around(items, j) : ParentFlags(items, j) = items[a].platforms
<1>1. CASE Around(items, j) = {}
  BY <1>1 DEF ParentFlags
<1>2. CASE Around(items, j) # {}
  <2>1. j - 1 \in Nat /\ Around(items, j) \subseteq 1 .. j - 1
    BY AroundFacts DEF Around
  <2> DEFINE around == Around(items, j)
             n == j - 1
  <2>2. n \in Nat /\ around \subseteq 1 .. n /\ around # {}
    BY <1>2, <2>1
  <2>3. ParentFlags(items, j) = items[LastOf(around)].platforms
    BY <1>2 DEF ParentFlags, LastOf
  <2> HIDE DEF around, n
  <2>4. LastOf(around) \in around
    BY <2>2, LastOfFacts
  <2> QED BY <2>3, <2>4 DEF around
<1> QED BY <1>1, <1>2

(* An item's platforms are those of the conditions around it.              *)
LEMMA ConditionsAround ==
  ASSUME NEW items, MenuOK(items), NEW p \in Platforms
  PROVE  \A j \in DOMAIN items :
           (\A i \in Around(items, j) \cup {j} : p \in Condition(items, i)) =>
             p \in items[j].platforms
<1> DEFINE Under(j) == \A i \in Around(items, j) \cup {j} : p \in Condition(items, i)
           T == {j \in DOMAIN items : Under(j) /\ p \notin items[j].platforms}
<1> SUFFICES ASSUME T # {} PROVE FALSE
  OBVIOUS
<1>1. DOMAIN items \subseteq Nat
  BY AroundFacts
<1>2. PICK j \in T : \A k \in T : j <= k
  <2>1. T \subseteq Nat
    BY <1>1
  <2> HIDE DEF T
  <2> QED BY <2>1, LeastNumber
<1>3. j \in DOMAIN items /\ Under(j) /\ p \notin items[j].platforms
  OBVIOUS
<1>4. p \in Condition(items, j)
  BY <1>3
<1>5. items[j].platforms = ParentFlags(items, j) /\ items[j].platforms # Platforms
  BY <1>3, <1>4 DEF Condition
<1>6. PICK a \in Around(items, j) : items[j].platforms = items[a].platforms
  BY <1>3, <1>5, ParentFacts
<1>7. /\ a \in DOMAIN items /\ a < j /\ j \in Nat
      /\ Around(items, a) \subseteq Around(items, j)
  BY <1>3, AroundFacts
<1>8. Under(a)
  BY <1>3, <1>7
<1>9. a \in T
  BY <1>3, <1>6, <1>7, <1>8
<1>10. j <= a /\ a \in Nat
  BY <1>1, <1>2, <1>7, <1>9
<1> QED BY <1>7, <1>10

LEMMA OnFacts ==
  ASSUME NEW items, MenuOK(items), NEW j \in DOMAIN items
  PROVE  On(items, j) = items[j].platforms
<1>1. items[j].platforms \subseteq Platforms
  BY DEF MenuOK
<1>2. ASSUME NEW p \in On(items, j) PROVE p \in items[j].platforms
  <2>1. p \in Platforms /\ \A i \in Around(items, j) \cup {j} : p \in Condition(items, i)
    BY DEF On
  <2> QED BY <2>1, ConditionsAround
<1>3. ASSUME NEW p \in items[j].platforms PROVE p \in On(items, j)
  <2>1. p \in Platforms
    BY <1>1
  <2>2. ASSUME NEW i \in Around(items, j) \cup {j} PROVE p \in Condition(items, i)
    <3>1. p \in items[i].platforms
      <4>1. CASE i = j
        BY <4>1
      <4>2. CASE i \in Around(items, j)
        <5>1. i \in DOMAIN items /\ Inside(items, i, j)
          BY <4>2, AroundFacts
        <5> QED BY <5>1 DEF MenuOK
      <4> QED BY <4>1, <4>2
    <3> QED BY <2>1, <3>1 DEF Condition
  <2> QED BY <2>1, <2>2 DEF On
<1> QED BY <1>2, <1>3

(* In a file of menus whose #ifs are all closed, each item is compiled      *)
(* exactly on the platforms of its flags, no name twice, and what is shown  *)
(* is compiled, in every document that is read (_parseMenuResourceItem,     *)
(* _generateMenusCpp_Item, _getMenuValue_Item).                             *)
THEOREM DocumentMenuItemsOnce ==
  ASSUME AutoNamesDiffer
  PROVE  Spec => []MenuItemsOnce
<1>1. Init => ResInv
  BY ResInit
<1>2. ResInv /\ [Next]_vars => ResInv'
  BY ResStep
<1>3. ResInv => MenuItemsOnce
  <2> SUFFICES ASSUME ResInv, NEW n \in DOMAIN res.menus
               PROVE  LET items == res.menus[n]
                          all == MenuItems(res, items)
                      IN /\ \A e \in all : e.on = items[e.at].platforms
                         /\ \A e, f \in all : e.at # f.at /\ e.on \cap f.on # {} =>
                              items[e.at].name # items[f.at].name \/ items[e.at].name = ""
                         /\ \A j \in Shown(res, items, Platform) :
                              \E e \in all : e.at = j /\ Platform \in e.on
    BY DEF MenuItemsOnce
  <2> DEFINE items == res.menus[n]
             all == MenuItems(res, items)
  <2>1. MenuOK(items)
    BY DEF ResInv, ReadOK
  <2> HIDE DEF items
  <2>2. \A j \in DOMAIN items : On(items, j) = items[j].platforms
    BY <2>1, OnFacts
  <2>3. \A e \in all : e.at \in DOMAIN items /\ e.on = items[e.at].platforms
    BY <2>2 DEF MenuItems, Reached
  <2>4. ASSUME NEW j \in Shown(res, items, Platform)
        PROVE  \E e \in all : e.at = j /\ Platform \in e.on
    <3> DEFINE seen == {k \in DOMAIN items :
                          \A i \in Around(items, k) \cup {k} : items[i].platforms = {Platform}}
    <3>1. j \in seen /\ \A k \in seen : ItemResolves(res, items[k])
      BY DEF Shown
    <3>2. j \in DOMAIN items /\ items[j].platforms = {Platform}
      BY <3>1
    <3>3. ASSUME NEW i \in Around(items, j) PROVE i \in seen
      <4>1. i \in DOMAIN items /\ Around(items, i) \subseteq Around(items, j)
        BY <2>1, <3>2, AroundFacts
      <4> QED BY <3>1, <4>1
    <3> HIDE DEF seen
    <3>4. ItemResolves(res, items[j]) /\ \A i \in Around(items, j) : ItemResolves(res, items[i])
      BY <3>1, <3>3
    <3> DEFINE e == [at |-> j, on |-> On(items, j)]
    <3>5. e \in all
      BY <3>2, <3>4 DEF MenuItems, Reached
    <3>6. e.at = j /\ e.on = On(items, j)
      OBVIOUS
    <3> HIDE DEF e, all
    <3> QED BY <2>2, <3>2, <3>5, <3>6
  <2> HIDE DEF all
  <2>5. ASSUME NEW e \in all, NEW f \in all, e.at # f.at, e.on \cap f.on # {}
        PROVE  items[e.at].name # items[f.at].name \/ items[e.at].name = ""
    <3> DEFINE i == e.at
               j == f.at
    <3>1. /\ i \in DOMAIN items /\ j \in DOMAIN items /\ i # j
          /\ items[i].platforms \cap items[j].platforms # {}
      BY <2>3, <2>5
    <3> HIDE DEF i, j
    <3>2. i \in Nat /\ j \in Nat
      BY <2>1, <3>1, AroundFacts
    <3>3. i < j \/ j < i
      BY <3>1, <3>2
    <3>4. items[i].name # items[j].name \/ items[i].name = ""
      BY <2>1, <3>1, <3>3 DEF MenuOK
    <3> QED BY <3>4 DEF i, j
  <2> QED BY <2>3, <2>4, <2>5 DEF all, items
<1> QED BY <1>1, <1>2, <1>3, PTL DEF Spec

-----------------------------------------------------------------------------
(* What is built *)

(* Everything that the headers of a whole document declare.                *)
AllNames(r) ==
  Of("strings", DOMAIN r.strings) \cup Of("raws", r.raws)
  \cup Of("drawables", DOMAIN r.drawables) \cup Of("menus", DOMAIN r.menus)
  \cup Of("layouts", DOMAIN r.layouts)

LEMMA OfFacts ==
  ASSUME NEW kind, NEW S, NEW T, S \subseteq T \cup {None}
  PROVE  Of(kind, S) \subseteq Of(kind, T)
  BY DEF Of

LEMMA DrawablesWhole ==
  ASSUME NEW r, ReadOK(r), Sound(r)
  PROVE  /\ Drawables(r).names = DOMAIN r.drawables
         /\ Drawables(r).defined = DOMAIN r.drawables
         /\ Drawables(r).refs \subseteq AllNames(r)
<1>1. \A n \in DOMAIN r.drawables : Defines(r, r.drawables[n]) /\ Declares(r.drawables[n])
  BY DEF Sound, Defines
<1>2. /\ Drawables(r).names = DOMAIN r.drawables
      /\ Drawables(r).defined = DOMAIN r.drawables
  BY <1>1 DEF Drawables
<1>3. ASSUME NEW n \in DOMAIN r.drawables
      PROVE  /\ Of("raws", {f.raw : f \in ImageFiles(r.drawables[n])}) \subseteq AllNames(r)
             /\ Of("drawables", r.drawables[n].refs) \subseteq AllNames(r)
  <2>1. ASSUME NEW f \in ImageFiles(r.drawables[n]) PROVE f.raw \in r.raws
    <3>1. PICK l \in DOMAIN r.drawables[n].images : f \in Range(r.drawables[n].images[l])
      BY DEF ImageFiles
    <3>2. PICK k \in DOMAIN r.drawables[n].images[l] : f = r.drawables[n].images[l][k]
      BY <3>1 DEF Range
    <3> QED BY <3>1, <3>2 DEF ReadOK, ResOK, ImagesAreRaws
  <2> DEFINE raws == {f.raw : f \in ImageFiles(r.drawables[n])}
  <2>2. raws \subseteq r.raws
    BY <2>1
  <2>3. r.drawables[n].refs \subseteq DOMAIN r.drawables
    BY <1>1 DEF Defines
  <2> HIDE DEF raws
  <2>4. /\ Of("raws", raws) \subseteq Of("raws", r.raws)
        /\ Of("drawables", r.drawables[n].refs) \subseteq Of("drawables", DOMAIN r.drawables)
    BY <2>2, <2>3, OfFacts
  <2> QED BY <2>4 DEF AllNames, raws
<1>4. Drawables(r).refs \subseteq AllNames(r)
  <2> SUFFICES ASSUME NEW x \in Drawables(r).refs PROVE x \in AllNames(r)
    OBVIOUS
  <2>1. PICK n \in DOMAIN r.drawables :
          x \in Of("raws", {f.raw : f \in ImageFiles(r.drawables[n])})
                \cup Of("drawables", r.drawables[n].refs)
    BY DEF Drawables
  <2> QED BY <1>3, <2>1
<1> QED BY <1>2, <1>4

LEMMA MenusWhole ==
  ASSUME NEW r, ReadOK(r)
  PROVE  /\ Menus(r).names = DOMAIN r.menus
         /\ Menus(r).defined = DOMAIN r.menus
         /\ Menus(r).refs \subseteq AllNames(r)
<1>1. ASSUME NEW n \in DOMAIN r.menus, NEW j \in DOMAIN r.menus[n],
             ItemResolves(r, r.menus[n][j])
      PROVE  /\ Of("strings", {r.menus[n][j].title}) \subseteq AllNames(r)
             /\ Of("drawables", {r.menus[n][j].icon}) \subseteq AllNames(r)
  <2> DEFINE item == r.menus[n][j]
  <2>1. item.type = "separator" => item.title = None /\ item.icon = None
    BY DEF ReadOK, MenuOK
  <2>2. /\ {item.title} \subseteq DOMAIN r.strings \cup {None}
        /\ {item.icon} \subseteq DOMAIN r.drawables \cup {None}
    BY <1>1, <2>1 DEF ItemResolves
  <2> HIDE DEF item
  <2>3. /\ Of("strings", {item.title}) \subseteq Of("strings", DOMAIN r.strings)
        /\ Of("drawables", {item.icon}) \subseteq Of("drawables", DOMAIN r.drawables)
    BY <2>2, OfFacts
  <2> QED BY <2>3 DEF AllNames, item
<1>2. ASSUME NEW x \in Menus(r).refs PROVE x \in AllNames(r)
  <2> DEFINE written(n) == {r.menus[n][e.at] : e \in MenuItems(r, r.menus[n])}
             all == UNION {written(n) : n \in DOMAIN r.menus}
  <2>1. Menus(r).refs = UNION {Of("strings", {item.title}) \cup Of("drawables", {item.icon})
                               : item \in all}
    BY DEF Menus
  <2>2. PICK item \in all : x \in Of("strings", {item.title}) \cup Of("drawables", {item.icon})
    <3> HIDE DEF all
    <3> QED BY <2>1
  <2>3. PICK n \in DOMAIN r.menus : \E e \in MenuItems(r, r.menus[n]) : item = r.menus[n][e.at]
    OBVIOUS
  <2>4. PICK e \in MenuItems(r, r.menus[n]) : item = r.menus[n][e.at]
    BY <2>3
  <2>5. ItemResolves(r, r.menus[n][e.at]) /\ e.at \in DOMAIN r.menus[n]
    BY DEF MenuItems, Reached
  <2> HIDE DEF written, all
  <2>7. /\ Of("strings", {item.title}) \subseteq AllNames(r)
        /\ Of("drawables", {item.icon}) \subseteq AllNames(r)
    BY <1>1, <2>4, <2>5
  <2> QED BY <2>2, <2>7
<1>3. Menus(r).names = DOMAIN r.menus /\ Menus(r).defined = DOMAIN r.menus
  BY DEF Menus
<1> QED BY <1>2, <1>3

LEMMA LayoutsWhole ==
  ASSUME NEW r, ReadOK(r), ~LayoutsFail(r)
  PROVE  /\ Layouts(r).names = DOMAIN r.layouts
         /\ Layouts(r).defined = DOMAIN r.layouts
         /\ Layouts(r).refs \subseteq AllNames(r)
<1>1. ASSUME NEW n \in DOMAIN r.layouts, NEW item \in Range(r.layouts[n].items)
      PROVE  /\ Of("strings", {item.title}) \subseteq AllNames(r)
             /\ Of("drawables", {item.background}) \subseteq AllNames(r)
             /\ Of("menus", {item.menu}) \subseteq AllNames(r)
             /\ Of("layouts", {item.import}) \subseteq AllNames(r)
  <2>1. /\ Created(r, item) /\ Drawn(r, item)
        /\ item.type = "import" => Importable(r, item.import)
    BY <1>1 DEF LayoutsFail
  <2>2. item.type # "import" => item.import = None
    <3>1. PICK j \in DOMAIN r.layouts[n].items : item = r.layouts[n].items[j]
      BY <1>1 DEF Range
    <3> QED BY <3>1 DEF ReadOK, LayoutOK
  <2>3. /\ {item.title} \subseteq DOMAIN r.strings \cup {None}
        /\ {item.background} \subseteq DOMAIN r.drawables \cup {None}
        /\ {item.menu} \subseteq DOMAIN r.menus \cup {None}
        /\ {item.import} \subseteq DOMAIN r.layouts \cup {None}
    BY <2>1, <2>2 DEF Created, Drawn, Importable
  <2>4. /\ Of("strings", {item.title}) \subseteq Of("strings", DOMAIN r.strings)
        /\ Of("drawables", {item.background}) \subseteq Of("drawables", DOMAIN r.drawables)
        /\ Of("menus", {item.menu}) \subseteq Of("menus", DOMAIN r.menus)
        /\ Of("layouts", {item.import}) \subseteq Of("layouts", DOMAIN r.layouts)
    BY <2>3, OfFacts
  <2> QED BY <2>4 DEF AllNames
<1>2. ASSUME NEW x \in Layouts(r).refs PROVE x \in AllNames(r)
  <2>1. PICK item \in UNION {Range(r.layouts[n].items) : n \in DOMAIN r.layouts} :
          x \in Of("strings", {item.title}) \cup Of("drawables", {item.background})
                \cup Of("menus", {item.menu}) \cup Of("layouts", {item.import})
    BY DEF Layouts
  <2>2. PICK n \in DOMAIN r.layouts : item \in Range(r.layouts[n].items)
    OBVIOUS
  <2> QED BY <1>1, <2>1, <2>2
<1>3. Layouts(r).names = DOMAIN r.layouts /\ Layouts(r).defined = DOMAIN r.layouts
  BY DEF Layouts
<1> QED BY <1>2, <1>3

(* No kind of a sound document that does not fail refers to anything that   *)
(* no header declares.                                                      *)
LEMMA TextWhole ==
  ASSUME NEW r, ReadOK(r), Sound(r), \A i \in 1 .. 5 : ~Fails(r, Kinds[i])
  PROVE  \A i \in 1 .. 5 :
           /\ Text(r, Kinds[i]).names = Text(r, Kinds[i]).defined
           /\ Text(r, Kinds[i]).refs \subseteq
                UNION {Of(Kinds[j], Text(r, Kinds[j]).names) : j \in 1 .. 5}
<1> DEFINE N == UNION {Of(Kinds[j], Text(r, Kinds[j]).names) : j \in 1 .. 5}
<1>1. ~LayoutsFail(r)
  BY KindsFacts DEF Fails
<1>2. /\ Text(r, "strings") = StringTable(r) /\ Text(r, "raws") = RawTable(r)
      /\ Text(r, "drawables") = Drawables(r) /\ Text(r, "menus") = Menus(r)
      /\ Text(r, "layouts") = Layouts(r)
  BY DEF Text
<1>3. /\ StringTable(r).names = DOMAIN r.strings /\ StringTable(r).defined = DOMAIN r.strings
      /\ StringTable(r).refs = {}
      /\ RawTable(r).names = r.raws /\ RawTable(r).defined = r.raws /\ RawTable(r).refs = {}
  BY DEF StringTable, RawTable
<1>4. AllNames(r) \subseteq N
  <2>1. \A j \in 1 .. 5 : Of(Kinds[j], Text(r, Kinds[j]).names) \subseteq N
    OBVIOUS
  <2> HIDE DEF N
  <2>2. /\ Of("strings", DOMAIN r.strings) \subseteq N
        /\ Of("raws", r.raws) \subseteq N
    BY <1>2, <1>3, <2>1, KindsFacts
  <2>3. /\ Of("drawables", DOMAIN r.drawables) \subseteq N
        /\ Of("menus", DOMAIN r.menus) \subseteq N
        /\ Of("layouts", DOMAIN r.layouts) \subseteq N
    BY <1>1, <1>2, <2>1, KindsFacts, DrawablesWhole, MenusWhole, LayoutsWhole
  <2> QED BY <2>2, <2>3 DEF AllNames
<1> HIDE DEF N
<1>5. ASSUME NEW i \in 1 .. 5
      PROVE  /\ Text(r, Kinds[i]).names = Text(r, Kinds[i]).defined
             /\ Text(r, Kinds[i]).refs \subseteq N
  <2>1. i = 1 \/ i = 2 \/ i = 3 \/ i = 4 \/ i = 5
    OBVIOUS
  <2>2. CASE i \in {1, 2}
    BY <1>2, <1>3, <2>2, KindsFacts
  <2>3. CASE i = 3
    BY <1>2, <1>4, <2>3, KindsFacts, DrawablesWhole
  <2>4. CASE i = 4
    BY <1>2, <1>4, <2>4, KindsFacts, MenusWhole
  <2>5. CASE i = 5
    BY <1>1, <1>2, <1>4, <2>5, KindsFacts, LayoutsWhole
  <2> QED BY <2>1, <2>2, <2>3, <2>4, <2>5
<1> QED BY <1>5 DEF N

(* A generateCpp that returns true on sound resources leaves no file of an  *)
(* earlier one, and nothing that is referred to without a declaration, in   *)
(* every document that is read and after any edits and failed generations.  *)
THEOREM DocumentBuiltWhole ==
  ASSUME AutoNamesDiffer
  PROVE  Spec => BuiltWhole
<1> DEFINE Whole == \A i \in DOMAIN Kinds :
                      LET h == out'[<<i, "h">>]
                          cpp == out'[<<i, "cpp">>]
                      IN /\ h.gen = gens' /\ cpp.gen = gens'
                         /\ h.names = cpp.names
                         /\ cpp.refs \subseteq Declared(out')
           Built == gens' # gens /\ result' = "built" /\ Sound(res)
<1>1. Init => ResInv
  BY ResInit
<1>2. ResInv /\ [Next]_vars => ResInv'
  BY ResStep
<1>3. ResInv /\ [Next]_vars => [Built => Whole]_vars
  <2> SUFFICES ASSUME ResInv, [Next]_vars, Built PROVE Whole
    OBVIOUS
  <2>1. PICK k \in 0 .. Len(Kinds), header \in BOOLEAN : GenerateCpp(k, header)
    BY DEF Next, vars, Edit, Open, Close, OpenResources, Simulate
  <2>2. k \in 0 .. 5
    BY KindsFacts
  <2>3. /\ gens' = gens + 1
        /\ <<5, "cpp">> \in Done(k, header)
        /\ out' = [f \in Files |->
                     IF f \notin Done(k, header) THEN out[f]
                     ELSE LET t == Text(res, Kinds[f[1]])
                          IN [gen |-> gens + 1, whole |-> t.whole,
                              names |-> IF f[2] = "h" THEN t.names ELSE t.defined,
                              refs |-> IF f[2] = "h" THEN {} ELSE t.refs]]
    BY <2>1, KindsFacts DEF GenerateCpp, Done
  <2>4. <<5, "cpp">> \in Writes(res, k)
    BY <2>3 DEF Done
  <2>5. k = 5 /\ Complete(res) = 5
    BY <2>2, <2>4, CompleteFacts DEF Writes
  <2>6. \A f \in Files : f \in Done(k, header)
    <3>1. \A f \in Files : f[1] <= 5
      BY FilesFacts, KindsFacts DEF Files
    <3> QED BY <2>5, <3>1 DEF Done, Writes
  <2>7. \A i \in 1 .. 5 : ~Fails(res, Kinds[i])
    BY <2>5, CompleteFacts
  <2>8. \A i \in 1 .. 5 :
          /\ out'[<<i, "h">>].gen = gens' /\ out'[<<i, "cpp">>].gen = gens'
          /\ out'[<<i, "h">>].names = Text(res, Kinds[i]).names
          /\ out'[<<i, "cpp">>].names = Text(res, Kinds[i]).defined
          /\ out'[<<i, "cpp">>].refs = Text(res, Kinds[i]).refs
    <3> SUFFICES ASSUME NEW i \in 1 .. 5
                 PROVE  /\ out'[<<i, "h">>].gen = gens' /\ out'[<<i, "cpp">>].gen = gens'
                        /\ out'[<<i, "h">>].names = Text(res, Kinds[i]).names
                        /\ out'[<<i, "cpp">>].names = Text(res, Kinds[i]).defined
                        /\ out'[<<i, "cpp">>].refs = Text(res, Kinds[i]).refs
      OBVIOUS
    <3>1. <<i, "h">> \in Files /\ <<i, "cpp">> \in Files
      BY FilesFacts
    <3>2. out'[<<i, "h">>] = [gen |-> gens + 1, whole |-> Text(res, Kinds[i]).whole,
                              names |-> Text(res, Kinds[i]).names, refs |-> {}]
      BY <2>3, <2>6, <3>1
    <3>3. out'[<<i, "cpp">>] = [gen |-> gens + 1, whole |-> Text(res, Kinds[i]).whole,
                                names |-> Text(res, Kinds[i]).defined,
                                refs |-> Text(res, Kinds[i]).refs]
      BY <2>3, <2>6, <3>1
    <3> QED BY <2>3, <3>2, <3>3
  <2>9. Declared(out') = UNION {Of(Kinds[j], Text(res, Kinds[j]).names) : j \in 1 .. 5}
    BY <2>8, KindsFacts DEF Declared
  <2>10. \A i \in 1 .. 5 :
           /\ Text(res, Kinds[i]).names = Text(res, Kinds[i]).defined
           /\ Text(res, Kinds[i]).refs \subseteq Declared(out')
    <3> DEFINE r == res
    <3>1. ReadOK(r) /\ Sound(r) /\ \A i \in 1 .. 5 : ~Fails(r, Kinds[i])
      BY <2>7 DEF ResInv
    <3> HIDE DEF r
    <3>2. \A i \in 1 .. 5 :
            /\ Text(r, Kinds[i]).names = Text(r, Kinds[i]).defined
            /\ Text(r, Kinds[i]).refs \subseteq
                 UNION {Of(Kinds[j], Text(r, Kinds[j]).names) : j \in 1 .. 5}
      BY <3>1, TextWhole
    <3> QED BY <2>9, <3>2 DEF r
  <2> QED BY <2>8, <2>10, KindsFacts
<1> QED BY <1>1, <1>2, <1>3, PTL DEF Spec, BuiltWhole

-----------------------------------------------------------------------------
(* Simulation *)

Frame == {"name", "onLayout", "at", "done"}

LayoutsOK(r) == \A n \in DOMAIN r.layouts : LayoutOK(r.layouts[n].items)

(* A pass that has done something of an item is at an import.              *)
FrameOK(r, f) ==
  /\ DOMAIN f = Frame /\ f.name \in DOMAIN r.layouts /\ f.at \in Nat \ {0}
  /\ f.done # "nothing" =>
       /\ f.at \in DOMAIN r.layouts[f.name].items
       /\ r.layouts[f.name].items[f.at].type = "import"

(* The parameters are the layout's own, unless the pass has met an import. *)
ByOwn(r, f, by) ==
  \/ \A u \in ViewportUnit :
       by[u] = f.name \/ (by[u] = None /\ r.layouts[f.name].sp = "sp")
  \/ f.done # "nothing"
  \/ \E i \in DOMAIN r.layouts[f.name].items :
       i \in 1 .. f.at - 1 /\ r.layouts[f.name].items[i].type = "import"

MeasuredOK(r, m) ==
  m[3] # m[1] =>
    \/ r.layouts[m[1]].sp = "sp" /\ m[3] = None
    \/ \E i, j \in DOMAIN r.layouts[m[1]].items :
         /\ i < j /\ r.layouts[m[1]].items[i].type = "import"
         /\ r.layouts[m[1]].items[j].name = m[2]

MistakenOK(r, m) ==
  LET items == r.layouts[m[1]].items
  IN Inside(items, m[3], m[2]) \/ (~m[4] /\ Inside(items, m[2], m[3]))

(* All passes but the innermost wait for that of an import.                *)
FramesOK(r, frames, by) ==
  /\ IsList(frames)
  /\ \A k \in DOMAIN frames : FrameOK(r, frames[k])
  /\ \A k \in DOMAIN frames : k > 1 => frames[k].done # "nothing"
  /\ frames # << >> => ByOwn(r, frames[1], by)

SimFields == {"ok", "by", "views", "measured", "mistaken", "ends", "frames"}

SimInv(r, s) ==
  /\ DOMAIN s = SimFields
  /\ \A m \in s.measured : MeasuredOK(r, m)
  /\ \A m \in s.mistaken : MistakenOK(r, m)
  /\ FramesOK(r, s.frames, s.by)

LEMMA NoFrames ==
  ASSUME NEW r, NEW by
  PROVE  FramesOK(r, << >>, by)
  BY EmptyList, EmptyFacts DEF FramesOK

(* The innermost pass is over: the one around it has met an import.        *)
LEMMA FramesPop ==
  ASSUME NEW r, NEW frames, NEW by, FramesOK(r, frames, by), frames # << >>
  PROVE  FramesOK(r, Tail(frames), by)
<1> DEFINE tail == Tail(frames)
           n == Len(frames)
<1>1. /\ n \in Nat \ {0} /\ DOMAIN frames = 1 .. n
      /\ IsList(tail) /\ DOMAIN tail = 1 .. n - 1
      /\ \A i \in 1 .. n - 1 : tail[i] = frames[i + 1]
  BY TailFacts DEF FramesOK
<1> HIDE DEF tail, n
<1>2. ASSUME NEW k \in DOMAIN tail
      PROVE  FrameOK(r, tail[k]) /\ tail[k].done # "nothing"
  <2>1. k + 1 \in DOMAIN frames /\ k + 1 > 1 /\ tail[k] = frames[k + 1]
    BY <1>1
  <2> QED BY <2>1 DEF FramesOK
<1>3. ASSUME tail # << >> PROVE ByOwn(r, tail[1], by)
  <2>1. 1 \in DOMAIN tail
    BY <1>1, <1>3, TailFacts
  <2> QED BY <1>2, <2>1 DEF ByOwn
<1> QED BY <1>1, <1>2, <1>3 DEF FramesOK, tail

(* The innermost pass goes on.                                              *)
LEMMA FramesTop ==
  ASSUME NEW r, NEW frames, NEW by, FramesOK(r, frames, by), frames # << >>,
         NEW f, FrameOK(r, f), ByOwn(r, f, by)
  PROVE  LET new == <<f>> \o Tail(frames)
         IN FramesOK(r, new, by) /\ new # << >> /\ new[1] = f
<1> DEFINE tail == Tail(frames)
           one == <<f>>
           new == one \o tail
           n == Len(frames)
<1>1. /\ n \in Nat \ {0} /\ DOMAIN frames = 1 .. n
      /\ IsList(tail) /\ Len(tail) = n - 1 /\ DOMAIN tail = 1 .. n - 1
      /\ \A i \in 1 .. n - 1 : tail[i] = frames[i + 1]
  BY TailFacts DEF FramesOK
<1>2. IsList(one) /\ Len(one) = 1 /\ one[1] = f
  BY OneList
<1> HIDE DEF tail, n, one
<1>3. /\ IsList(one \o tail) /\ DOMAIN (one \o tail) = 1 .. 1 + Len(tail)
      /\ \A i \in 1 .. 1 + Len(tail) :
           (one \o tail)[i] = IF i <= 1 THEN one[i] ELSE tail[i - 1]
  <2>1. /\ IsList(one \o tail)
        /\ DOMAIN (one \o tail) = 1 .. Len(one) + Len(tail)
        /\ \A i \in 1 .. Len(one) + Len(tail) :
             (one \o tail)[i] = IF i <= Len(one) THEN one[i] ELSE tail[i - Len(one)]
    BY <1>1, <1>2, ConcatLists
  <2>2. Len(one) = 1
    BY <1>2
  <2> QED BY <2>1, <2>2
<1> HIDE DEF new
<1>4. IsList(new) /\ DOMAIN new = 1 .. n /\ 1 \in DOMAIN new
  BY <1>1, <1>3 DEF new
<1>5. new[1] = f
  BY <1>1, <1>2, <1>3 DEF new
<1>6. new # << >>
  BY <1>4, EmptyFacts
<1>7. ASSUME NEW k \in DOMAIN new, k # 1
      PROVE  k \in DOMAIN frames /\ k > 1 /\ new[k] = frames[k]
  <2>1. k \in 2 .. n /\ k - 1 \in 1 .. n - 1 /\ k \in 1 .. 1 + Len(tail)
    BY <1>1, <1>4, <1>7
  <2>2. new[k] = tail[k - 1]
    BY <1>3, <2>1 DEF new
  <2>3. tail[k - 1] = frames[(k - 1) + 1]
    BY <1>1, <2>1
  <2>4. (k - 1) + 1 = k
    BY <2>1
  <2> QED BY <1>1, <2>1, <2>2, <2>3, <2>4
<1>8. \A k \in DOMAIN new : FrameOK(r, new[k])
  BY <1>5, <1>7 DEF FramesOK
<1>9. \A k \in DOMAIN new : k > 1 => new[k].done # "nothing"
  BY <1>7 DEF FramesOK
<1>10. FramesOK(r, new, by)
  BY <1>4, <1>5, <1>8, <1>9 DEF FramesOK
<1> QED BY <1>5, <1>6, <1>10 DEF new, one, tail

(* A pass begins in an import that the one around it has met.              *)
LEMMA FramesPush ==
  ASSUME NEW r, NEW frames, NEW by, FramesOK(r, frames, by),
         frames # << >> => frames[1].done # "nothing",
         NEW f, FrameOK(r, f), NEW own, ByOwn(r, f, own)
  PROVE  FramesOK(r, <<f>> \o frames, own)
<1> DEFINE one == <<f>>
           new == one \o frames
           n == Len(frames)
<1>1. n \in Nat /\ DOMAIN frames = 1 .. n /\ IsList(frames)
  BY ListFacts DEF FramesOK
<1>2. IsList(one) /\ Len(one) = 1 /\ one[1] = f
  BY OneList
<1> HIDE DEF n, one
<1>3. /\ IsList(one \o frames) /\ DOMAIN (one \o frames) = 1 .. 1 + Len(frames)
      /\ \A i \in 1 .. 1 + Len(frames) :
           (one \o frames)[i] = IF i <= 1 THEN one[i] ELSE frames[i - 1]
  <2>1. /\ IsList(one \o frames)
        /\ DOMAIN (one \o frames) = 1 .. Len(one) + Len(frames)
        /\ \A i \in 1 .. Len(one) + Len(frames) :
             (one \o frames)[i] = IF i <= Len(one) THEN one[i] ELSE frames[i - Len(one)]
    BY <1>1, <1>2, ConcatLists
  <2>2. Len(one) = 1
    BY <1>2
  <2> QED BY <2>1, <2>2
<1> HIDE DEF new
<1>4. IsList(new) /\ DOMAIN new = 1 .. n + 1 /\ 1 \in DOMAIN new
  BY <1>1, <1>3 DEF new, n
<1>5. new[1] = f
  BY <1>1, <1>2, <1>3 DEF new, n
<1>6. ASSUME NEW k \in DOMAIN new, k # 1
      PROVE  k - 1 \in DOMAIN frames /\ new[k] = frames[k - 1]
  <2>1. k - 1 \in 1 .. n /\ k \in 1 .. 1 + Len(frames) /\ ~(k <= 1)
    BY <1>1, <1>4, <1>6 DEF n
  <2> QED BY <1>1, <1>3, <2>1 DEF new
<1>7. ASSUME NEW k \in DOMAIN frames PROVE frames[k].done # "nothing"
  <2>1. CASE k = 1
    <3>1. frames # << >>
      BY EmptyFacts
    <3> QED BY <2>1, <3>1
  <2>2. CASE k # 1
    BY <1>1, <2>2 DEF FramesOK
  <2> QED BY <2>1, <2>2
<1>8. \A k \in DOMAIN new : FrameOK(r, new[k])
  BY <1>5, <1>6 DEF FramesOK
<1>9. \A k \in DOMAIN new : k > 1 => new[k].done # "nothing"
  BY <1>6, <1>7
<1>10. ByOwn(r, new[1], own)
  BY <1>5
<1>11. FramesOK(r, new, own)
  BY <1>4, <1>8, <1>9, <1>10 DEF FramesOK
<1> QED BY <1>11 DEF new, one

LEMMA LeaveInv ==
  ASSUME NEW r, NEW s, SimInv(r, s), s.frames # << >>, NEW ok
  PROVE  SimInv(r, Leave(r, s, ok))
<1> DEFINE t == Leave(r, s, ok)
<1>1. /\ DOMAIN t = SimFields
      /\ t.measured = s.measured /\ t.mistaken = s.mistaken /\ t.by = s.by
      /\ t.frames = Tail(s.frames)
  BY DEF Leave, SimInv, SimFields
<1> HIDE DEF t
<1>2. FramesOK(r, Tail(s.frames), s.by)
  BY FramesPop DEF SimInv
<1> QED BY <1>1, <1>2 DEF SimInv, t

LEMMA CrashInv ==
  ASSUME NEW r, NEW s, SimInv(r, s)
  PROVE  SimInv(r, Crash(s))
<1> DEFINE t == Crash(s)
<1>1. /\ DOMAIN t = SimFields /\ t.frames = << >>
      /\ t.measured = s.measured /\ t.mistaken = s.mistaken
  BY DEF Crash, SimInv, SimFields
<1> HIDE DEF t
<1> QED BY <1>1, NoFrames DEF SimInv, t

LEMMA OverInv ==
  ASSUME NEW r, NEW s, SimInv(r, s), s.frames # << >>, NEW ok
  PROVE  SimInv(r, Over(r, s, ok))
<1> DEFINE t == Over(r, s, ok)
           f == s.frames[1]
           g == [f EXCEPT !.at = f.at + 1, !.done = "nothing"]
<1>1. FramesOK(r, s.frames, s.by) /\ Head(s.frames) = f
  BY TailFacts DEF SimInv, FramesOK
<1>2. CASE ~ok
  BY <1>2, LeaveInv DEF Over
<1>3. CASE ok
  <2>1. /\ DOMAIN t = SimFields
        /\ t.measured = s.measured /\ t.mistaken = s.mistaken /\ t.by = s.by
        /\ t.frames = <<g>> \o Tail(s.frames)
    BY <1>1, <1>3 DEF Over, SimInv, SimFields
  <2>2. FrameOK(r, f) /\ ByOwn(r, f, s.by)
    <3>1. 1 \in DOMAIN s.frames
      BY TailFacts DEF SimInv, FramesOK
    <3> QED BY <1>1, <3>1 DEF FramesOK
  <2> HIDE DEF t, f
  <2>3. /\ DOMAIN g = Frame /\ g.name = f.name /\ g.at = f.at + 1 /\ g.done = "nothing"
    BY <2>2 DEF FrameOK, Frame
  <2> HIDE DEF g
  <2>4. FrameOK(r, g)
    BY <2>2, <2>3 DEF FrameOK
  <2>5. ByOwn(r, g, s.by)
    <3>1. CASE f.done # "nothing"
      <4>1. f.at \in DOMAIN r.layouts[g.name].items /\ f.at \in 1 .. g.at - 1
            /\ r.layouts[g.name].items[f.at].type = "import"
        BY <2>2, <2>3, <3>1 DEF FrameOK
      <4> QED BY <4>1 DEF ByOwn
    <3>2. CASE \A u \in ViewportUnit :
                 s.by[u] = f.name \/ (s.by[u] = None /\ r.layouts[f.name].sp = "sp")
      BY <2>3, <3>2 DEF ByOwn
    <3>3. CASE \E i \in DOMAIN r.layouts[f.name].items :
                 i \in 1 .. f.at - 1 /\ r.layouts[f.name].items[i].type = "import"
      <4>1. PICK i \in DOMAIN r.layouts[f.name].items :
                 i \in 1 .. f.at - 1 /\ r.layouts[f.name].items[i].type = "import"
        BY <3>3
      <4>2. f.at \in Nat
        BY <2>2 DEF FrameOK
      <4>3. i \in 1 .. g.at - 1
        BY <2>3, <4>1, <4>2
      <4> QED BY <2>3, <4>1, <4>3 DEF ByOwn
    <3> QED BY <2>2, <3>1, <3>2, <3>3 DEF ByOwn
  <2>6. FramesOK(r, <<g>> \o Tail(s.frames), s.by)
    BY <1>1, <2>4, <2>5, FramesTop
  <2>7. FramesOK(r, t.frames, t.by)
    BY <2>1, <2>6
  <2> QED BY <2>1, <2>7 DEF SimInv, t
<1> QED BY <1>2, <1>3

LEMMA DoingInv ==
  ASSUME NEW r, NEW s, SimInv(r, s), s.frames # << >>,
         s.frames[1].at \in DOMAIN r.layouts[s.frames[1].name].items,
         r.layouts[s.frames[1].name].items[s.frames[1].at].type = "import",
         NEW what, what # "nothing"
  PROVE  LET t == Doing(s, what)
         IN SimInv(r, t) /\ t.frames # << >> /\ t.frames[1].done # "nothing"
<1> DEFINE t == Doing(s, what)
           f == s.frames[1]
           g == [f EXCEPT !.done = what]
<1>1. FramesOK(r, s.frames, s.by) /\ Head(s.frames) = f
  BY TailFacts DEF SimInv, FramesOK
<1>2. /\ DOMAIN t = SimFields
      /\ t.measured = s.measured /\ t.mistaken = s.mistaken /\ t.by = s.by
      /\ t.frames = <<g>> \o Tail(s.frames)
  BY <1>1 DEF Doing, SimInv, SimFields
<1>3. FrameOK(r, f)
  <2>1. 1 \in DOMAIN s.frames
    BY TailFacts DEF SimInv, FramesOK
  <2> QED BY <1>1, <2>1 DEF FramesOK
<1>4. f.at \in DOMAIN r.layouts[f.name].items /\ r.layouts[f.name].items[f.at].type = "import"
  OBVIOUS
<1> HIDE DEF t, f
<1>5. /\ DOMAIN g = Frame /\ g.name = f.name /\ g.at = f.at /\ g.done = what
  BY <1>3 DEF FrameOK, Frame
<1> HIDE DEF g
<1>6. FrameOK(r, g) /\ ByOwn(r, g, s.by)
  BY <1>3, <1>4, <1>5 DEF FrameOK, ByOwn
<1>7. LET new == <<g>> \o Tail(s.frames)
      IN FramesOK(r, new, s.by) /\ new # << >> /\ new[1] = g
  BY <1>1, <1>6, FramesTop
<1>8. FramesOK(r, t.frames, t.by) /\ t.frames # << >> /\ t.frames[1] = g
  BY <1>2, <1>7
<1> QED BY <1>2, <1>5, <1>8 DEF SimInv, t

LEMMA BeginInv ==
  ASSUME NEW r, NEW s, SimInv(r, s), s.frames # << >> => s.frames[1].done # "nothing",
         NEW name \in DOMAIN r.layouts, NEW onLayout
  PROVE  SimInv(r, Begin(r, s, name, onLayout))
<1> DEFINE t == Begin(r, s, name, onLayout)
           f == [name |-> name, onLayout |-> onLayout, at |-> 1, done |-> "nothing"]
           own == [u \in ViewportUnit |->
                     IF u = "sp" /\ r.layouts[name].sp = "sp" THEN None ELSE name]
<1>1. CASE \E i \in DOMAIN s.frames : s.frames[i].name = name
  BY <1>1, CrashInv DEF Begin
<1>2. CASE ~\E i \in DOMAIN s.frames : s.frames[i].name = name
  <2>1. /\ DOMAIN t = SimFields
        /\ t.measured = s.measured /\ t.mistaken = s.mistaken
        /\ t.by = own /\ t.frames = <<f>> \o s.frames
    BY <1>2 DEF Begin, ParamsOf, SimInv, SimFields
  <2>2. FrameOK(r, f) /\ f.name = name
    BY DEF FrameOK, Frame
  <2>3. ByOwn(r, f, own)
    BY DEF ByOwn
  <2> HIDE DEF t, f, own
  <2>4. FramesOK(r, <<f>> \o s.frames, own)
    BY <2>2, <2>3, FramesPush DEF SimInv
  <2> QED BY <2>1, <2>4 DEF SimInv, t
<1> QED BY <1>1, <1>2

(* The view that is taken for an item's: of two items with the same name    *)
(* one is inside the other, and the one inside is registered first.         *)
LEMMA FoundFacts ==
  ASSUME NEW r, LayoutsOK(r), NEW s, NEW f, f.name \in DOMAIN r.layouts,
         f.at \in DOMAIN r.layouts[f.name].items, NEW k \in Found(r, s, f) \ {f.at}
  PROVE  MistakenOK(r, <<f.name, f.at, k, <<f.at, Simulator(s.frames)>> \in s.views>>)
<1> DEFINE items == r.layouts[f.name].items
           j == f.at
           Seen(i) == <<i, Simulator(s.frames)>> \in s.views
           named == {i \in DOMAIN items : items[i].name = items[j].name /\ Seen(i)}
<1>1. IsList(items) /\ SameNested(items)
  BY DEF LayoutsOK, LayoutOK
<1>2. k \in named /\ \A i \in named \ {k} : RegisteredBefore(items, i, k)
  BY DEF Found
<1>3. k # j /\ j \in DOMAIN items /\ k \in DOMAIN items /\ items[k].name = items[j].name
  BY <1>2
<1>4. j \in Nat /\ k \in Nat
  <2>1. DOMAIN items = 1 .. Len(items) /\ Len(items) \in Nat
    BY <1>1, ListFacts
  <2> HIDE DEF items, j
  <2> QED BY <1>3, <2>1
<1>5. Inside(items, k, j) \/ (~Seen(j) /\ Inside(items, j, k))
  <2>1. CASE k < j
    BY <1>1, <1>3, <2>1 DEF SameNested
  <2>2. CASE j < k
    <3>1. Inside(items, j, k)
      BY <1>1, <1>3, <2>2 DEF SameNested
    <3>2. ~RegisteredBefore(items, j, k)
      BY <2>2, <3>1 DEF RegisteredBefore
    <3>3. ~Seen(j)
      BY <1>2, <1>3, <3>2
    <3> QED BY <3>1, <3>3
  <2> HIDE DEF j
  <2> QED BY <1>3, <1>4, <2>1, <2>2
<1> QED BY <1>5 DEF MistakenOK

(* What an item measures, and mistakes, when it is laid out.               *)
LEMMA LayOutInv ==
  ASSUME NEW r, LayoutsOK(r), NEW s, SimInv(r, s), s.frames # << >>,
         NEW f, f = s.frames[1], f.done = "nothing",
         NEW item, f.at \in DOMAIN r.layouts[f.name].items,
         item = r.layouts[f.name].items[f.at]
  PROVE  /\ SimInv(r, LayOut(r, s, f, item))
         /\ LayOut(r, s, f, item).frames = s.frames
<1> DEFINE t == LayOut(r, s, f, item)
           mine(k) == <<f.name, f.at, k, <<f.at, Simulator(s.frames)>> \in s.views>>
<1>1. /\ DOMAIN t = SimFields
      /\ t.by = s.by /\ t.frames = s.frames
      /\ t.measured = s.measured \cup
           {<<f.name, item.name, s.by[u]>> : u \in MeasuredIn(item)}
      /\ t.mistaken = s.mistaken \cup {mine(k) : k \in Found(r, s, f) \ {f.at}}
  BY DEF LayOut, SimInv, SimFields
<1> HIDE DEF t
<1>2. FrameOK(r, f) /\ ByOwn(r, f, s.by)
  <2>1. 1 \in DOMAIN s.frames
    BY TailFacts DEF SimInv, FramesOK
  <2> QED BY <2>1 DEF SimInv, FramesOK
<1>3. ASSUME NEW u \in MeasuredIn(item)
      PROVE  MeasuredOK(r, <<f.name, item.name, s.by[u]>>)
  <2>1. u \in ViewportUnit
    BY DEF MeasuredIn
  <2>2. CASE s.by[u] = f.name \/ (s.by[u] = None /\ r.layouts[f.name].sp = "sp")
    BY <2>2 DEF MeasuredOK
  <2>3. CASE ~(s.by[u] = f.name \/ (s.by[u] = None /\ r.layouts[f.name].sp = "sp"))
    <3>1. PICK i \in DOMAIN r.layouts[f.name].items :
            i \in 1 .. f.at - 1 /\ r.layouts[f.name].items[i].type = "import"
      BY <1>2, <2>1, <2>3 DEF ByOwn
    <3>2. f.at \in Nat
      BY <1>2 DEF FrameOK
    <3>3. i < f.at
      BY <3>1, <3>2
    <3> QED BY <3>1, <3>3 DEF MeasuredOK
  <2> QED BY <2>2, <2>3
<1>4. ASSUME NEW k \in Found(r, s, f) \ {f.at} PROVE MistakenOK(r, mine(k))
  BY <1>2, FoundFacts DEF FrameOK
<1>5. ASSUME NEW m \in t.measured PROVE MeasuredOK(r, m)
  <2>1. CASE m \in s.measured
    BY <2>1 DEF SimInv
  <2>2. CASE m \in {<<f.name, item.name, s.by[u]>> : u \in MeasuredIn(item)}
    <3>1. PICK u \in MeasuredIn(item) : m = <<f.name, item.name, s.by[u]>>
      BY <2>2
    <3> QED BY <1>3, <3>1
  <2> QED BY <1>1, <1>5, <2>1, <2>2
<1>6. ASSUME NEW m \in t.mistaken PROVE MistakenOK(r, m)
  <2>1. CASE m \in s.mistaken
    BY <2>1 DEF SimInv
  <2>2. CASE m \in {mine(k) : k \in Found(r, s, f) \ {f.at}}
    <3>1. PICK k \in Found(r, s, f) \ {f.at} : m = mine(k)
      BY <2>2
    <3> QED BY <1>4, <3>1
  <2> QED BY <1>1, <1>6, <2>1, <2>2
<1>7. SimInv(r, t)
  BY <1>1, <1>5, <1>6 DEF SimInv
<1> QED BY <1>1, <1>7 DEF t

LEMMA StepInv ==
  ASSUME NEW r, LayoutsOK(r), NEW s, SimInv(r, s)
  PROVE  SimInv(r, Step(r, s))
<1> DEFINE f == s.frames[1]
           items == r.layouts[f.name].items
           item == items[f.at]
<1>1. CASE s.frames = << >>
  BY <1>1 DEF Step
<1>2. CASE s.frames # << >>
  <2>1. FramesOK(r, s.frames, s.by) /\ Head(s.frames) = f /\ FrameOK(r, f)
    <3>1. Head(s.frames) = f /\ 1 \in DOMAIN s.frames
      BY <1>2, TailFacts DEF SimInv, FramesOK
    <3> QED BY <3>1 DEF SimInv, FramesOK
  <2>2. f.name \in DOMAIN r.layouts /\ IsList(items) /\ f.at \in Nat \ {0}
    BY <2>1 DEF FrameOK, LayoutsOK, LayoutOK
  <2>3. CASE f.at > Len(items)
    <3>1. Step(r, s) = Leave(r, s, s.ok)
      BY <1>2, <2>1, <2>3 DEF Step
    <3>2. \A ok : SimInv(r, Leave(r, s, ok))
      BY <1>2, LeaveInv
    <3> QED BY <3>1, <3>2
  <2>4. CASE ~(f.at > Len(items))
    <3>1. Step(r, s) = ProcessItem(r, s, f, item)
      BY <1>2, <2>1, <2>4 DEF Step
    <3>2. f.at \in DOMAIN items
      <4>1. Len(items) \in Nat /\ DOMAIN items = 1 .. Len(items)
        BY <2>2, ListFacts
      <4> DEFINE n == Len(items)
                 at == f.at
      <4>2. n \in Nat /\ at \in Nat \ {0} /\ ~(at > n) /\ DOMAIN items = 1 .. n
        BY <2>2, <2>4, <4>1
      <4> HIDE DEF n, at
      <4>3. at \in 1 .. n
        BY <4>2
      <4> QED BY <4>2, <4>3 DEF at
    <3>3. f.done # "nothing" => item.type = "import"
      BY <2>1 DEF FrameOK
    <3>4. \A ok : SimInv(r, Over(r, s, ok))
      BY <1>2, OverInv
    <3> DEFINE m == LayOut(r, s, f, item)
    <3>5. f.done = "nothing" => SimInv(r, m) /\ m.frames = s.frames
      BY <1>2, <3>2, LayOutInv
    <3>6. f.done = "nothing" => SimInv(r, Crash(m)) /\ \A ok : SimInv(r, Over(r, m, ok))
      <4> HIDE DEF m
      <4> QED BY <1>2, <3>5, OverInv, CrashInv
    <3> DEFINE At(u) == /\ SimInv(r, u) /\ u.frames # << >>
                        /\ u.frames[1].at \in DOMAIN r.layouts[u.frames[1].name].items
                        /\ r.layouts[u.frames[1].name].items[u.frames[1].at].type = "import"
    <3>7. ASSUME Importable(r, item.import), NEW u, At(u), NEW what \in {"created", "laidOut"},
                 NEW onLayout
          PROVE  SimInv(r, Begin(r, Doing(u, what), item.import, onLayout))
      <4> DEFINE name == item.import
      <4>1. name \in DOMAIN r.layouts
        BY <3>7 DEF Importable
      <4> HIDE DEF name
      <4> DEFINE d == Doing(u, what)
      <4>2. SimInv(r, d) /\ d.frames # << >> /\ d.frames[1].done # "nothing"
        BY <3>7, DoingInv
      <4> HIDE DEF d
      <4>3. SimInv(r, Begin(r, d, name, onLayout))
        BY <4>1, <4>2, BeginInv
      <4> QED BY <4>3 DEF d, name
    <3>8. item.type = "import" => At(s)
      BY <1>2, <3>2
    <3>9. item.type = "import" /\ f.done = "nothing" => At(m)
      <4> HIDE DEF m
      <4> QED BY <1>2, <3>2, <3>5
    <3> HIDE DEF m, At
    <3>10. ASSUME item.type = "import", Importable(r, item.import)
           PROVE  SimInv(r, CreateImport(r, s, f, item)) /\ SimInv(r, LayOutImport(r, s, f, item))
      <4>1. \A what \in {"created", "laidOut"} : \A onLayout :
              SimInv(r, Begin(r, Doing(s, what), item.import, onLayout))
        BY <3>7, <3>8, <3>10
      <4>2. f.done = "nothing" => SimInv(r, Begin(r, Doing(m, "laidOut"), item.import, TRUE))
        BY <3>7, <3>9, <3>10
      <4> HIDE DEF f, item, items
      <4>3. SimInv(r, CreateImport(r, s, f, item))
        BY <3>4, <4>1 DEF CreateImport
      <4>4. SimInv(r, LayOutImport(r, s, f, item))
        BY <3>4, <3>6, <4>2 DEF LayOutImport, m
      <4> QED BY <4>3, <4>4
    <3> HIDE DEF f, item, items
    <3>11. SimInv(r, ProcessItem(r, s, f, item))
      BY <3>3, <3>4, <3>6, <3>10 DEF ProcessItem, ProcessImport, m
    <3> QED BY <3>1, <3>11
  <2> QED BY <2>3, <2>4
<1> QED BY <1>1, <1>2

NoneBegun(s) == [s EXCEPT !.frames = << >>]

PassingFrom(f, r, name, onLayout, s, i) ==
  IF i = 0 THEN Begin(r, NoneBegun(s), name, onLayout) ELSE Step(r, f[i - 1])

PassingIs(f, r, name, onLayout, s, n) ==
  f = [i \in 0 .. n |-> PassingFrom(f, r, name, onLayout, s, i)]

(* A pass is defined after any number of steps.                             *)
LEMMA PassingExists ==
  ASSUME NEW r, NEW name, NEW onLayout, NEW s
  PROVE  \A n \in Nat : \E f : PassingIs(f, r, name, onLayout, s, n)
<1> DEFINE From(f, i) == PassingFrom(f, r, name, onLayout, s, i)
           Is(n, f) == f = [i \in 0 .. n |-> From(f, i)]
           T == {n \in Nat : ~\E f : Is(n, f)}
           first == Begin(r, NoneBegun(s), name, onLayout)
<1> SUFFICES ASSUME T # {} PROVE FALSE
  BY DEF PassingIs
<1>0. \A f, i : From(f, i) = IF i = 0 THEN first ELSE Step(r, f[i - 1])
  BY DEF PassingFrom
<1> HIDE DEF From, first
<1>1. PICK m \in T : \A n \in T : m <= n
  <2> HIDE DEF T
  <2> T \subseteq Nat
    BY DEF T
  <2> QED BY LeastNumber
<1>2. m # 0
  <2> DEFINE e == [i \in 0 .. 0 |-> first]
  <2>1. \A i \in 0 .. 0 : From(e, i) = first
    BY <1>0
  <2>2. Is(0, e)
    BY <2>1
  <2>3. 0 \notin T
    BY <2>2
  <2> QED BY <2>3, <1>1
<1>3. m \in Nat /\ m - 1 \in Nat /\ m - 1 \notin T
  <2> m \in Nat
    OBVIOUS
  <2> HIDE DEF T
  <2> QED BY <1>1, <1>2
<1>4. PICK f : Is(m - 1, f)
  BY <1>3
<1> DEFINE g == [i \in 0 .. m |-> From(f, i)]
<1>5. \A i \in 0 .. m - 1 : g[i] = f[i]
  <2> SUFFICES ASSUME NEW i \in 0 .. m - 1 PROVE g[i] = f[i]
    OBVIOUS
  <2>1. i \in 0 .. m
    BY <1>3
  <2>2. g[i] = From(f, i)
    BY <2>1
  <2>3. f[i] = From(f, i)
    BY <1>4
  <2> QED BY <2>2, <2>3
<1>6. ASSUME NEW i \in 0 .. m PROVE From(g, i) = From(f, i)
  <2>1. CASE i = 0
    <3> HIDE DEF g
    <3> QED BY <2>1, <1>0
  <2>2. CASE i # 0
    <3>1. i - 1 \in 0 .. m - 1
      BY <1>3, <2>2
    <3>2. g[i - 1] = f[i - 1]
      <4> HIDE DEF g
      <4> QED BY <1>5, <3>1
    <3> HIDE DEF g
    <3> QED BY <2>2, <3>2, <1>0
  <2> QED BY <2>1, <2>2
<1>7. Is(m, g)
  <2> [i \in 0 .. m |-> From(g, i)] = [i \in 0 .. m |-> From(f, i)]
    <3> HIDE DEF g
    <3> QED BY <1>6
  <2> QED OBVIOUS
<1> QED BY <1>7

LEMMA PassingSteps ==
  ASSUME NEW r, NEW name, NEW onLayout, NEW s
  PROVE  LET g == Passing(r, name, onLayout, s)
         IN /\ g[0] = Begin(r, NoneBegun(s), name, onLayout)
            /\ \A i \in 1 .. MaxCalls : g[i] = Step(r, g[i - 1])
<1>1. PICK f : PassingIs(f, r, name, onLayout, s, MaxCalls)
  BY PassingExists, MaxCallsAssumption
<1> DEFINE g == Passing(r, name, onLayout, s)
<1>2. g = [i \in 0 .. MaxCalls |-> PassingFrom(g, r, name, onLayout, s, i)]
  BY <1>1 DEF Passing, PassingIs, PassingFrom, NoneBegun
<1> HIDE DEF g
<1>3. \A i \in 0 .. MaxCalls : g[i] = PassingFrom(g, r, name, onLayout, s, i)
  BY <1>2
<1>4. g[0] = Begin(r, NoneBegun(s), name, onLayout)
  BY <1>3, MaxCallsAssumption DEF PassingFrom
<1>5. ASSUME NEW i \in 1 .. MaxCalls PROVE g[i] = Step(r, g[i - 1])
  <2>1. i \in 0 .. MaxCalls /\ i # 0
    BY MaxCallsAssumption
  <2> QED BY <1>3, <2>1 DEF PassingFrom
<1> QED BY <1>4, <1>5 DEF g

LEMMA PassInv ==
  ASSUME NEW r, LayoutsOK(r), NEW s, SimInv(r, s), NEW name \in DOMAIN r.layouts, NEW onLayout
  PROVE  SimInv(r, Pass(r, name, onLayout, s))
<1> DEFINE g == Passing(r, name, onLayout, s)
           T == {n \in 0 .. MaxCalls : ~SimInv(r, g[n])}
           s0 == NoneBegun(s)
<1>1. T = {}
  <2> SUFFICES ASSUME T # {} PROVE FALSE
    OBVIOUS
  <2>1. g[0] = Begin(r, s0, name, onLayout) /\ \A i \in 1 .. MaxCalls : g[i] = Step(r, g[i - 1])
    BY PassingSteps
  <2> HIDE DEF g
  <2>2. PICK m \in T : \A n \in T : m <= n
    <3>1. T \subseteq Nat
      OBVIOUS
    <3> HIDE DEF T
    <3> QED BY <3>1, LeastNumber
  <2>3. SimInv(r, g[0])
    <3>1. /\ DOMAIN s0 = SimFields /\ s0.frames = << >>
          /\ s0.measured = s.measured /\ s0.mistaken = s.mistaken
      BY DEF SimInv, SimFields, NoneBegun
    <3> HIDE DEF s0
    <3>2. SimInv(r, s0)
      BY <3>1, NoFrames DEF SimInv
    <3> QED BY <2>1, <3>1, <3>2, BeginInv
  <2>4. m # 0
    BY <2>3
  <2>5. m \in 1 .. MaxCalls /\ m - 1 \in 0 .. MaxCalls /\ m - 1 \notin T
    <3>1. m \in 0 .. MaxCalls
      OBVIOUS
    <3> HIDE DEF T
    <3> QED BY <3>1, <2>2, <2>4, MaxCallsAssumption
  <2>6. SimInv(r, g[m - 1])
    BY <2>5
  <2>7. SimInv(r, g[m])
    BY <2>1, <2>5, <2>6, StepInv
  <2> QED BY <2>7
<1>2. MaxCalls \in 0 .. MaxCalls
  BY MaxCallsAssumption
<1> HIDE DEF g
<1>3. SimInv(r, g[MaxCalls])
  BY <1>1, <1>2
<1> QED BY <1>3 DEF Pass, g

LEMMA SimulationInv ==
  ASSUME NEW r, LayoutsOK(r), NEW name \in DOMAIN r.layouts
  PROVE  SimInv(r, Simulation(r, name))
<1>1. SimInv(r, Unpassed)
  BY NoFrames DEF SimInv, SimFields, Unpassed
<1> DEFINE c == Pass(r, name, FALSE, Unpassed)
           d == Pass(r, name, TRUE, c)
<1>2. SimInv(r, c)
  BY <1>1, PassInv
<1>3. Simulation(r, name) = IF c.ok /\ c.ends THEN d ELSE c
  BY DEF Simulation
<1> HIDE DEF c
<1>4. SimInv(r, d)
  BY <1>2, PassInv
<1> HIDE DEF d
<1> QED BY <1>2, <1>3, <1>4

SimulatedOK(r, seen, taken) ==
  (\A m \in seen : MeasuredOK(r, m)) /\ (\A m \in taken : MistakenOK(r, m))

SimulatedInv == ResInv /\ SimulatedOK(res, measured, mistaken)

LEMMA SimulatedStep == AutoNamesDiffer => (SimulatedInv /\ [Next]_vars => SimulatedInv')
<1> SUFFICES ASSUME AutoNamesDiffer, SimulatedInv, [Next]_vars PROVE SimulatedInv'
  OBVIOUS
<1>1. ResInv /\ ResInv'
  BY ResStep DEF SimulatedInv
<1>2. CASE UNCHANGED <<res, measured, mistaken>>
  BY <1>1, <1>2 DEF SimulatedInv
<1>3. CASE measured' = {} /\ mistaken' = {}
  BY <1>1, <1>3 DEF SimulatedInv, SimulatedOK
<1>4. ASSUME NEW name \in DOMAIN res.layouts, Simulate(name) PROVE SimulatedInv'
  <2> DEFINE r == res
             s == Simulation(r, name)
  <2>1. res' = r /\ measured' = s.measured /\ mistaken' = s.mistaken
    BY <1>4 DEF Simulate
  <2>2. LayoutsOK(r) /\ name \in DOMAIN r.layouts
    BY <1>1, <1>4 DEF ResInv, ReadOK, LayoutsOK
  <2> HIDE DEF r
  <2>3. SimInv(r, s)
    BY <2>2, SimulationInv
  <2> HIDE DEF s
  <2>4. SimulatedOK(res', measured', mistaken')
    BY <2>1, <2>3 DEF SimInv, SimulatedOK
  <2> QED BY <1>1, <2>4 DEF SimulatedInv
<1> QED BY <1>2, <1>3, <1>4 DEF Next, vars, simulated, Edit, Open, Close, OpenResources,
             GenerateCpp, FreeResources, ForgetSimulation

(* What a simulation measures by a view port is by that of the item's own   *)
(* layout, unless an import comes before the item, for any layouts and any  *)
(* imports of imports (_simulateLayoutCreateOrLayoutView).                  *)
THEOREM DocumentMeasuredByOwn ==
  ASSUME AutoNamesDiffer
  PROVE  Spec => []MeasuredByOwn
<1>1. Init => SimulatedInv
  BY ResInit DEF Init, SimulatedInv, SimulatedOK
<1>2. SimulatedInv /\ [Next]_vars => SimulatedInv'
  BY SimulatedStep
<1>3. SimulatedInv => MeasuredByOwn
  BY DEF SimulatedInv, SimulatedOK, MeasuredOK, MeasuredByOwn
<1> QED BY <1>1, <1>2, <1>3, PTL DEF Spec

(* The view that a pass takes for an item's is its own, that of an item     *)
(* around it or, when it has none, of one inside it, for any layouts, any   *)
(* imports and whatever fails on the way (getViewByName).                   *)
THEOREM DocumentMistakenOnlyForOuter ==
  ASSUME AutoNamesDiffer
  PROVE  Spec => []MistakenOnlyForOuter
<1>1. Init => SimulatedInv
  BY ResInit DEF Init, SimulatedInv, SimulatedOK
<1>2. SimulatedInv /\ [Next]_vars => SimulatedInv'
  BY SimulatedStep
<1>3. SimulatedInv => MistakenOnlyForOuter
  BY DEF SimulatedInv, SimulatedOK, MistakenOK, MistakenOnlyForOuter
<1> QED BY <1>1, <1>2, <1>3, PTL DEF Spec

=============================================================================
