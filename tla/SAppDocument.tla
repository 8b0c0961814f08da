---------------------------- MODULE SAppDocument ----------------------------
(***************************************************************************)
(* SAppDocument: a project on disk, the document that holds what was read  *)
(* of it, the C++ files it writes and the simulation of its layouts.       *)
(* A project is [dirs, xml]: its directories in the order in which the     *)
(* system lists them, and the elements of its XML files.                   *)
(***************************************************************************)
EXTENDS SAppLayouts

CONSTANTS
  Projects,      \* what may be on disk at first
  Edits,         \* what the disk may be changed to
  Platform,      \* the one the program runs on
  MaxGen(_)      \* bound: calls of generateCpp on a project

IsList(list) == list \in Seq(Range(list))

ASSUME ProjectsAssumption ==
  \A p \in Projects \cup Edits :
    /\ ElementsIn(p.xml)
    /\ IsList(p.dirs)
    /\ \A dir \in Range(p.dirs) : IsList(dir.files)

VARIABLES
  disk,          \* the project
  conf,          \* m_conf: what the configuration has of generate-cpp
  opened,        \* m_flagOpened
  res,           \* the registries
  out,           \* the generated files
  result,        \* of the last generateCpp: "none", "failed" or "built"
  gens,          \* how often generateCpp was called
  measured,      \* <<layout, item, by>> of the last simulation (history)
  mistaken,      \* <<layout, item, of, own>>, views that it mistook (history)
  crashed        \* the stack has overflowed, or what is done is undefined

simulated == <<measured, mistaken, crashed>>
vars == <<disk, conf, opened, res, out, result, gens, simulated>>

-----------------------------------------------------------------------------
(* Generated text: the names that a header declares, those that its source *)
(* defines and refers to, and whether the text is whole.                   *)

Kinds == <<"strings", "raws", "drawables", "menus", "layouts">>
Files == {<<i, f>> : i \in DOMAIN Kinds, f \in {"h", "cpp"}}

Of(kind, names) == {<<kind, n>> : n \in names \ {None}}

ImageFiles(d) == UNION {Range(d.images[l]) : l \in DOMAIN d.images}
Simple(d) == DOMAIN d.images = {Unknown} /\ Len(d.images[Unknown]) = 1

(* _generateDrawablesCpp_Image, _NinePieces, _NinePatch: what is declared   *)
(* before the first error, and what is defined if there is none.            *)
Declares(d) ==
  d.type = "image" => d.images[Unknown] # << >> /\ d.images[Unknown][1].loads
Defines(r, d) ==
  /\ Declares(d)
  /\ d.type = "image" => Simple(d) \/ \A f \in ImageFiles(d) : f.loads
  /\ d.refs \subseteq DOMAIN r.drawables

Drawables(r) ==
  LET declared == {n \in DOMAIN r.drawables : Declares(r.drawables[n])}
      defined == {n \in DOMAIN r.drawables : Defines(r, r.drawables[n])}
      used(n) == Of("raws", {f.raw : f \in ImageFiles(r.drawables[n])})
                 \cup Of("drawables", r.drawables[n].refs)
  IN [names |-> declared, defined |-> defined, whole |-> TRUE,
      refs |-> UNION {used(n) : n \in defined}]

(* Mutant: an icon may be any drawable. *)
AnyIcon(r, item) ==
  item.type # "separator" => item.title \in DOMAIN r.strings \cup {None}

(* _generateMenusCpp_Item: the checks of an item *)
ItemResolves(r, item) ==
  item.type # "separator" =>
    /\ item.title \in DOMAIN r.strings \cup {None}
    /\ \/ item.icon = None
       \/ /\ item.icon \in DOMAIN r.drawables
          /\ r.drawables[item.icon].type = "image"

(* The submenus that an item is in.                                        *)
Around(items, j) == {i \in 1 .. j - 1 : Inside(items, i, j)}

ParentFlags(items, j) ==
  IF Around(items, j) = {} THEN Platforms
  ELSE items[CHOOSE i \in Around(items, j) : \A k \in Around(items, j) : k <= i].platforms

(* The platforms of the #if of an item: it gets one only when its flags are *)
(* not its parent's.  Its text is compiled where all of those around it are. *)
Condition(items, j) ==
  IF items[j].platforms \in {ParentFlags(items, j), Platforms} THEN Platforms
  ELSE items[j].platforms

On(items, j) ==
  {p \in Platforms : \A i \in Around(items, j) \cup {j} : p \in Condition(items, i)}

(* The items that are gone to: none of a submenu that does not resolve.    *)
Reached(r, items) ==
  {j \in DOMAIN items : \A i \in Around(items, j) : ItemResolves(r, items[i])}

(* What is written of a menu.                                              *)
MenuItems(r, items) ==
  {[at |-> j, on |-> On(items, j)] : j \in {k \in Reached(r, items) : ItemResolves(r, items[k])}}

(* An item that does not resolve ends the generation at the top of a menu; *)
(* in a submenu it is left out, but for an #if that is never closed then:   *)
(* each #endif behind it closes the last that is open.                      *)
LeftOpen(r, items) ==
  {j \in Reached(r, items) : ~ItemResolves(r, items[j]) /\ Condition(items, j) # Platforms}

MenusFail(r) ==
  \E n \in DOMAIN r.menus : \E item \in Range(r.menus[n]) :
    item.depth = 1 /\ ~ItemResolves(r, item)

Menus(r) ==
  LET written(n) == {r.menus[n][e.at] : e \in MenuItems(r, r.menus[n])}
  IN [names |-> DOMAIN r.menus, defined |-> DOMAIN r.menus,
      whole |-> \A n \in DOMAIN r.menus : LeftOpen(r, r.menus[n]) = {},
      refs |-> UNION {Of("strings", {item.title}) \cup Of("drawables", {item.icon})
                      : item \in UNION {written(n) : n \in DOMAIN r.menus}}]

(* The checks of a layout's item.  Only a view or a page can be imported.   *)
Importable(r, name) ==
  name \in DOMAIN r.layouts /\ r.layouts[name].type # "window"

Created(r, item) ==
  /\ item.title \in DOMAIN r.strings \cup {None}
  /\ item.menu \in DOMAIN r.menus \cup {None}
Drawn(r, item) == item.background \in DOMAIN r.drawables \cup {None}

LayoutsFail(r) ==
  \E n \in DOMAIN r.layouts : \E item \in Range(r.layouts[n].items) :
    \/ ~Created(r, item) \/ ~Drawn(r, item)
    \/ item.type = "import" /\ ~Importable(r, item.import)

Layouts(r) ==
  LET items == UNION {Range(r.layouts[n].items) : n \in DOMAIN r.layouts}
  IN [names |-> DOMAIN r.layouts, defined |-> DOMAIN r.layouts, whole |-> TRUE,
      refs |-> UNION {Of("strings", {i.title}) \cup Of("drawables", {i.background})
                      \cup Of("menus", {i.menu}) \cup Of("layouts", {i.import})
                      : i \in items}]

StringTable(r) ==
  [names |-> DOMAIN r.strings, defined |-> DOMAIN r.strings, whole |-> TRUE, refs |-> {}]

RawTable(r) == [names |-> r.raws, defined |-> r.raws, whole |-> TRUE, refs |-> {}]

TooBig == "big"                              \* a raw file above RAW_MAX_SIZE

Text(r, kind) ==
  CASE kind = "strings" -> StringTable(r)
    [] kind = "raws" -> RawTable(r)
    [] kind = "drawables" -> Drawables(r)
    [] kind = "menus" -> Menus(r)
    [] kind = "layouts" -> Layouts(r)

Fails(r, kind) ==
  CASE kind = "raws" -> TooBig \in r.raws
    [] kind = "menus" -> MenusFail(r)
    [] kind = "layouts" -> LayoutsFail(r)
    [] OTHER -> FALSE

(* The kinds that are written before the first that fails.                  *)
Complete(r) ==
  CHOOSE k \in 0..Len(Kinds) :
    /\ \A i \in 1..k : ~Fails(r, Kinds[i])
    /\ k = Len(Kinds) \/ Fails(r, Kinds[k + 1])

-----------------------------------------------------------------------------
(* Simulation.  A pass creates the views of a layout or lays them out.  An *)
(* import runs passes over the layout that it imports: the passes that have *)
(* begun, the innermost first, are frames with the layout, which of the two *)
(* it is, the item that it has reached and how far it got with it.  by says *)
(* of which layout the view port and the scaled pixel are that are in       *)
(* m_layoutSimulationParams, and views which views the simulators have      *)
(* registered, each with the imports that its simulator is in.              *)

(* The units of the parameters that a view is measured by.                 *)
MeasuredIn(item) ==
  ({item.dims.width, item.dims.left, item.dims.marginLeft} \cup
   (IF item.setsFont THEN {item.font} ELSE {})) \cap ViewportUnit

(* Mutant: a pass that lays out keeps the parameters of the one before it.  *)
ParamsKept(r, s, name, onLayout) ==
  IF onLayout THEN s ELSE [s EXCEPT !.by = [u \in ViewportUnit |-> name]]

(* A scaled pixel that is given in scaled pixels is made of the one that an *)
(* earlier pass has left, whichever that was.                               *)
ParamsOf(r, s, name, onLayout) ==
  [s EXCEPT !.by = [u \in ViewportUnit |->
                      IF u = "sp" /\ r.layouts[name].sp = "sp" THEN None ELSE name]]

Crash(s) == [s EXCEPT !.ends = FALSE, !.frames = << >>]

(* A layout that imports itself is gone through without an end.             *)
Begin(r, s, name, onLayout) ==
  IF \E i \in DOMAIN s.frames : s.frames[i].name = name THEN Crash(s)
  ELSE [ParamsOf(r, s, name, onLayout) EXCEPT
          !.ok = TRUE,
          !.frames = <<[name |-> name, onLayout |-> onLayout, at |-> 1, done |-> "nothing"]>> \o @]

(* The simulator of the innermost pass is that of the imports that it is in. *)
Simulator(frames) == [i \in 1 .. Len(frames) - 1 |-> frames[i + 1].at]

(* The items that a pass has done: it registers the view of an item behind *)
(* those inside it, and none for the root.                                 *)
Completed(r, f) ==
  LET items == r.layouts[f.name].items
  IN {k \in DOMAIN items :
        1 < k /\ k < f.at /\ ~(f.at \in DOMAIN items /\ Inside(items, k, f.at))}

Leave(r, s, ok) ==
  LET f == Head(s.frames)
  IN [s EXCEPT !.ok = ok, !.frames = Tail(@),
               !.views = IF f.onLayout THEN @
                         ELSE @ \cup {<<k, Simulator(s.frames)>> : k \in Completed(r, f)}]

(* The pass has done so much of its item; it goes on to the next or, when   *)
(* the item failed, it is over.                                             *)
Doing(s, what) == [s EXCEPT !.frames = <<[Head(@) EXCEPT !.done = what]>> \o Tail(@)]

Over(r, s, ok) ==
  LET f == Head(s.frames)
      next == [f EXCEPT !.at = f.at + 1, !.done = "nothing"]
  IN IF ok THEN [s EXCEPT !.ok = TRUE, !.frames = <<next>> \o Tail(@)]
     ELSE Leave(r, s, FALSE)

(* Mutant: a view is registered before those inside it are created.         *)
EnteredBefore(items, i, k) == i < k

RegisteredBefore(items, i, k) ==
  IF i < k THEN ~Inside(items, i, k) ELSE Inside(items, k, i)

(* getViewByName, of the item that the pass is at: the last view that was   *)
(* registered by its name.                                                  *)
Found(r, s, f) ==
  LET items == r.layouts[f.name].items
      named == {k \in DOMAIN items :
                  items[k].name = items[f.at].name /\ <<k, Simulator(s.frames)>> \in s.views}
  IN {k \in named : \A i \in named \ {k} : RegisteredBefore(items, i, k)}

(* _processLayoutResourceControl_View, in a pass that lays out, on the view *)
(* that was found.                                                          *)
LayOut(r, s, f, item) ==
  [s EXCEPT
     !.measured = @ \cup {<<f.name, item.name, s.by[u]>> : u \in MeasuredIn(item)},
     !.mistaken = @ \cup {<<f.name, f.at, k, <<f.at, Simulator(s.frames)>> \in s.views>> :
                            k \in Found(r, s, f) \ {f.at}}]

(* SAppLayoutImportView::init: both passes, the second when the first did  *)
(* not fail.                                                               *)
CreateImport(r, s, f, item) ==
  CASE f.done = "nothing" -> Begin(r, Doing(s, "created"), item.import, FALSE)
    [] f.done = "created" /\ s.ok -> Begin(r, Doing(s, "laidOut"), item.import, TRUE)
    [] OTHER -> Over(r, s, Created(r, item))

(* What layoutViews does of a view that is not an import's is undefined.    *)
LayOutImport(r, s, f, item) ==
  LET laidOut == LayOut(r, s, f, item)
  IN IF f.done # "nothing" THEN Over(r, s, TRUE)
     ELSE IF ~Drawn(r, item) THEN Over(r, laidOut, FALSE)
     ELSE IF Found(r, s, f) # {f.at} THEN Crash(laidOut)
     ELSE Begin(r, Doing(laidOut, "laidOut"), item.import, TRUE)

ProcessImport(r, s, f, item) ==
  IF ~Importable(r, item.import) THEN Over(r, s, FALSE)
  ELSE IF f.onLayout THEN LayOutImport(r, s, f, item)
  ELSE CreateImport(r, s, f, item)

(* The root has the view that shows the simulation.                         *)
ProcessItem(r, s, f, item) ==
  IF f.onLayout /\ f.done = "nothing" /\ f.at > 1 /\ Found(r, s, f) = {}
  THEN Over(r, s, FALSE)
  ELSE IF item.type = "import" THEN ProcessImport(r, s, f, item)
  ELSE IF f.onLayout THEN Over(r, LayOut(r, s, f, item), Drawn(r, item))
  ELSE Over(r, s, Created(r, item))

Step(r, s) ==
  IF s.frames = << >> THEN s
  ELSE LET f == Head(s.frames)
           items == r.layouts[f.name].items
       IN IF f.at > Len(items) THEN Leave(r, s, s.ok)
          ELSE ProcessItem(r, s, f, items[f.at])

(* A pass, from what the one before it left; that one has come to its end.  *)
Passing(r, name, onLayout, s) ==
  LET passing[n \in 0 .. MaxCalls] ==
        IF n = 0 THEN Begin(r, [s EXCEPT !.frames = << >>], name, onLayout)
        ELSE Step(r, passing[n - 1])
  IN passing

Pass(r, name, onLayout, s) == Passing(r, name, onLayout, s)[MaxCalls]

(* SAppLayoutSimulationWindow::open *)
Unpassed ==
  [ok |-> TRUE, by |-> [u \in ViewportUnit |-> None], views |-> {},
   measured |-> {}, mistaken |-> {}, ends |-> TRUE, frames |-> << >>]

Simulation(r, name) ==
  LET c == Pass(r, name, FALSE, Unpassed)
  IN IF c.ok /\ c.ends THEN Pass(r, name, TRUE, c) ELSE c

(* What is shown of a menu, if all of it resolves: an item with a flag of   *)
(* another platform is left out, and all that is in it.                     *)
Shown(r, items, platform) ==
  LET seen == {j \in DOMAIN items :
                 \A i \in Around(items, j) \cup {j} : items[i].platforms = {platform}}
  IN IF \A j \in seen : ItemResolves(r, items[j]) THEN seen ELSE {}

-----------------------------------------------------------------------------
Init ==
  /\ disk \in Projects
  /\ conf = "none"
  /\ opened = FALSE
  /\ res = NoResources
  /\ out = [f \in Files |-> [gen |-> 0, names |-> {}, refs |-> {}, whole |-> TRUE]]
  /\ result = "none"
  /\ gens = 0
  /\ measured = {}
  /\ mistaken = {}
  /\ crashed = FALSE

Edit(p) ==
  /\ disk # p
  /\ disk' = p
  /\ UNCHANGED <<conf, opened, res, out, result, gens, simulated>>

(* The windows are closed too: the last simulation is over.                *)
ForgetSimulation == measured' = {} /\ mistaken' = {} /\ UNCHANGED crashed

FreeResources == res' = NoResources /\ ForgetSimulation

Open(c) ==
  /\ conf' = c
  /\ opened' = TRUE
  /\ IF opened THEN FreeResources ELSE UNCHANGED <<res, simulated>>
  /\ UNCHANGED <<disk, out, result, gens>>

Close ==
  /\ opened
  /\ opened' = FALSE
  /\ FreeResources
  /\ UNCHANGED <<disk, conf, out, result, gens>>

(* The registries keep what was read before an error.                      *)
OpenResources ==
  /\ opened
  /\ res' = Read(disk)
  /\ ForgetSimulation
  /\ UNCHANGED <<disk, conf, opened, out, result, gens>>

(* Mutant: a kind that fails is passed over.                                *)
WritesOthers(r, k) == {f \in Files : f[1] <= k /\ ~Fails(r, Kinds[f[1]])}

(* The files that are written when the first k kinds are.                  *)
Writes(r, k) == {f \in Files : f[1] <= Complete(r) /\ f[1] <= k}

(* A write may fail: behind the first k kinds, with or without the header  *)
(* of the next.                                                            *)
GenerateCpp(k, header) ==
  LET done == Writes(res, k) \cup
              (IF header /\ k < Complete(res) THEN {<<k + 1, "h">>} ELSE {})
  IN /\ opened
     /\ conf = "full"
     /\ gens < MaxGen(disk)
     /\ gens' = gens + 1
     /\ out' = [f \in Files |->
                  IF f \notin done THEN out[f]
                  ELSE LET t == Text(res, Kinds[f[1]])
                       IN [gen |-> gens + 1, whole |-> t.whole,
                           names |-> IF f[2] = "h" THEN t.names ELSE t.defined,
                           refs |-> IF f[2] = "h" THEN {} ELSE t.refs]]
     /\ result' = IF <<Len(Kinds), "cpp">> \in done THEN "built" ELSE "failed"
     /\ UNCHANGED <<disk, conf, opened, res, simulated>>

Simulate(name) ==
  LET s == Simulation(res, name)
  IN /\ opened
     /\ name \in DOMAIN res.layouts
     /\ measured' = s.measured
     /\ mistaken' = s.mistaken
     /\ crashed' = ~s.ends
     /\ UNCHANGED <<disk, conf, opened, res, out, result, gens>>

Next ==
  /\ ~crashed
  /\ \/ \E p \in Edits : Edit(p)
     \/ \E c \in {"none", "full"} : Open(c)
     \/ Close
     \/ OpenResources
     \/ \E k \in 0..Len(Kinds), header \in BOOLEAN : GenerateCpp(k, header)
     \/ \E name \in DOMAIN res.layouts : Simulate(name)

Spec == Init /\ [][Next]_vars

-----------------------------------------------------------------------------
(* Everything that is read can be put into C++: the images load, what a    *)
(* drawable is made of exists, and no menu loses an #endif.                *)
Sound(r) ==
  /\ \A n \in DOMAIN r.drawables : Defines(r, r.drawables[n])
  /\ Menus(r).whole

Declared(files) ==
  UNION {Of(Kinds[i], files[<<i, "h">>].names) : i \in DOMAIN Kinds}

(* A generateCpp that returns true on such resources has left no file of an *)
(* earlier one: each source defines what its header declares, and refers to *)
(* nothing that no header declares.                                         *)
BuiltWhole ==
  [][gens' # gens /\ result' = "built" /\ Sound(res) =>
       \A i \in DOMAIN Kinds :
         LET h == out'[<<i, "h">>]
             cpp == out'[<<i, "cpp">>]
         IN /\ h.gen = gens' /\ cpp.gen = gens'
            /\ h.names = cpp.names
            /\ cpp.refs \subseteq Declared(out')]_vars

(* After a generation that did not get to the end, no source is newer than *)
(* its header and no kind newer than one before it (generateCpp writes them *)
(* in the order of what refers to what).                                    *)
NewerFirst ==
  \A i \in DOMAIN Kinds :
    /\ out[<<i, "h">>].gen >= out[<<i, "cpp">>].gen
    /\ i > 1 => out[<<i - 1, "cpp">>].gen >= out[<<i, "h">>].gen

(* In a file of menus whose #ifs are all closed, the text of an item is     *)
(* compiled exactly on the platforms of its flags, no two items that are    *)
(* compiled on one platform have the same name, and the simulation shows    *)
(* none that is not compiled.  (_generateMenusCpp_Item and _getMenuValue_   *)
(* Item go through a menu each by conditions of its own.)                   *)
MenuItemsOnce ==
  ~MenusFail(res) /\ Menus(res).whole =>
    \A n \in DOMAIN res.menus :
      LET items == res.menus[n]
          all == MenuItems(res, items)
      IN /\ \A e \in all : e.on = items[e.at].platforms
         /\ \A e, f \in all : e.at # f.at /\ e.on \cap f.on # {} =>
              items[e.at].name # items[f.at].name \/ items[e.at].name = ""
         /\ \A j \in Shown(res, items, Platform) :
              \E e \in all : e.at = j /\ Platform \in e.on

(* A pass that lays out takes the view that it finds by an item's name for  *)
(* the item's: that is the item's own, or that of an item that it is in.    *)
(* Only an item of which the creation has not come to the end, so that it   *)
(* has no view, may take one of those inside it.                            *)
MistakenOnlyForOuter ==
  \A m \in mistaken :
    LET items == res.layouts[m[1]].items
    IN Inside(items, m[3], m[2]) \/ (~m[4] /\ Inside(items, m[2], m[3]))

(* What an item measures by a view port or a scaled pixel is by those of    *)
(* its own layout, unless an import comes before it: the import's pass      *)
(* leaves its own parameters to the items behind it.  A layout that gives   *)
(* its scaled pixel in scaled pixels has none of its own.                   *)
MeasuredByOwn ==
  \A m \in measured : m[3] # m[1] =>
    LET layout == res.layouts[m[1]]
    IN \/ layout.sp = "sp" /\ m[3] = None
       \/ \E i, j \in DOMAIN layout.items :
            i < j /\ layout.items[i].type = "import" /\ layout.items[j].name = m[2]

(* Two items of a layout have the same name only when one is inside the     *)
(* other: a name is entered behind the item's children, which may take it.  *)
SameNameOnlyNested ==
  \A n \in DOMAIN res.layouts :
    LET items == res.layouts[n].items
    IN \A i, j \in DOMAIN items :
         i < j /\ items[i].name = items[j].name => Inside(items, i, j)

(* A view is placed by one that exists: an item that was created before it  *)
(* and that it is not inside of.  (The vertical half of alignCenter names   *)
(* none at all.)                                                            *)
AlignedToEarlier ==
  \A n \in DOMAIN res.layouts :
    LET items == res.layouts[n].items
    IN \A j \in DOMAIN items : \A p \in Placed(items[j].pos) :
         p[3] # None =>
           \E i \in 1 .. j - 1 : items[i].name = p[3] /\ ~Inside(items, i, j)

=============================================================================
