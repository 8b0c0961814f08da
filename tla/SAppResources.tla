---------------------------- MODULE SAppResources ----------------------------
(***************************************************************************)
(* What SAppDocument makes of the files of an application: the registries  *)
(* of raw files, drawables, strings, menus, layout styles, includes and    *)
(* layouts, filled in the order in which the files are read and up to the  *)
(* first error.                                                            *)
(* A name is a value of its own: "" is a missing one and BadName one that  *)
(* SDevUtil::checkName refuses.  An XML element is a record with its tag,  *)
(* name, attributes and children; the value of an attribute that refers to *)
(* a resource is the name of the resource.                                 *)
(* The reader is [res, menu, layout, todo]: the registries, the menu and   *)
(* the layout that are being read, and the calls still to be made, a call  *)
(* that is made being replaced by those that it makes.                     *)
(***************************************************************************)
EXTENDS Naturals, FiniteSets, Sequences, SequencesExt

CONSTANTS
  Elements,      \* of the XML files
  IsRoot(_)      \* what slib's String makes of: name == 'root'

ElementsIn(list) == list \in Seq(Elements)

(* An element's children are elements, in order.                           *)
ASSUME ElementsAssumption == \A el \in Elements : ElementsIn(el.children)

None == "none"
BadName == "1bad"
GoodName(n) == n \notin {"", BadName}

Unknown == "default"                       \* Locale::Unknown
Platforms == {"mac", "windows", "linux"}   \* all_platforms

(* What the document holds, and whether reading has failed. *)
NoResources ==
  [ok |-> TRUE, raws |-> {}, drawables |-> << >>, strings |-> << >>,
   menus |-> << >>, styles |-> << >>, includes |-> << >>, layouts |-> << >>]

Fail(r) == [r EXCEPT !.ok = FALSE]

Put(map, key, value) ==
  [k \in DOMAIN map \cup {key} |-> IF k = key THEN value ELSE map[k]]

(* What the first call does: it makes calls of its own, it returns with     *)
(* what the registries hold then, or it ends the reading.                   *)
Make(s, calls) == [s EXCEPT !.todo = calls \o Tail(@)]

Return(s, r) == [s EXCEPT !.res = r, !.todo = IF r.ok THEN Tail(@) ELSE << >>]

Refuse(s) == [s EXCEPT !.res = Fail(@), !.todo = << >>]

-----------------------------------------------------------------------------
(* Raw files and images.  An image file has the resource's name, the locale *)
(* of its directory, and "main" unless its name has a '#'.                  *)

RegisterRaw(r, raw) ==
  IF raw \in r.raws THEN Fail(r) ELSE [r EXCEPT !.raws = @ \cup {raw}]

AddImage(images, file) ==
  IF file.main THEN <<file>> \o images ELSE Append(images, file)

(* One turn of the loop of _registerImageResources, on a file of the sorted *)
(* directory.  Only images are registered before the XML files are read.    *)
RegisterImage(r, locale, file) ==
  LET known == file.name \in DOMAIN r.drawables
      none == [type |-> "image", images |-> [l \in {Unknown} |-> << >>], refs |-> {}]
      res == IF known THEN r.drawables[file.name] ELSE none
      had == IF locale \in DOMAIN res.images THEN res.images[locale]
             ELSE << >>
      With(images) == Put(r.drawables, file.name,
                          [res EXCEPT !.images = Put(@, locale, images)])
      r2 == RegisterRaw([r EXCEPT !.drawables = With(had)], file.raw)
  IN IF file.name = "" \/ (~known /\ locale # Unknown) THEN Fail(r)
     ELSE IF ~r2.ok THEN r2
     ELSE [r2 EXCEPT !.drawables = With(AddImage(had, file))]

(* A file has the kind of its directory.                                   *)
RegisterFile(s, file, dir) ==
  Return(s, IF dir.kind = "raw" THEN RegisterRaw(s.res, file.raw)
            ELSE RegisterImage(s.res, dir.locale, file))

(* The directories are taken in the order in which the system lists them.   *)
RegisterDirectory(s, dir) ==
  IF dir.kind = "image" /\ dir.locale = BadName THEN Refuse(s)
  ELSE Make(s, [i \in DOMAIN dir.files |->
                  [do |-> "file", file |-> dir.files[i], dir |-> dir]])

-----------------------------------------------------------------------------
(* Strings, drawables put together, styles and includes *)

ParseString(r, el, localeDefault) ==
  LET locale == IF el.locale = Unknown THEN localeDefault ELSE el.locale
      had == IF el.name \in DOMAIN r.strings THEN r.strings[el.name] ELSE {}
  IN IF el.tag # "string" \/ el.locale = BadName \/ ~GoodName(el.name)
        \/ locale \in had
     THEN Fail(r)
     ELSE [r EXCEPT !.strings = Put(@, el.name, had \cup {locale})]

ParseStrings(s, el) ==
  IF el.locale = BadName THEN Refuse(s)
  ELSE Make(s, [i \in DOMAIN el.children |->
                  [do |-> "string", el |-> el.children[i], locale |-> el.locale]])

(* refs are the drawables it is made of, global says that its dimensions   *)
(* pass checkGlobal.                                                       *)
ParseNinePieces(r, el) ==
  IF ~GoodName(el.name) \/ el.name \in DOMAIN r.drawables \/ ~el.global
  THEN Fail(r)
  ELSE [r EXCEPT !.drawables = Put(@, el.name,
          [type |-> "ninePieces", images |-> << >>, refs |-> el.refs])]

ParseNinePatch(r, el) ==
  IF \/ ~GoodName(el.name) \/ el.name \in DOMAIN r.drawables
     \/ ~el.global \/ el.refs = {}
  THEN Fail(r)
  ELSE [r EXCEPT !.drawables = Put(@, el.name,
          [type |-> "ninePatch", images |-> << >>, refs |-> el.refs])]

ParseLayoutStyle(r, el) ==
  IF el.name = "" \/ el.name \in DOMAIN r.styles THEN Fail(r)
  ELSE [r EXCEPT !.styles = Put(@, el.name, el)]

ParseLayoutInclude(r, el) ==
  IF el.name = "" \/ el.name \in DOMAIN r.includes THEN Fail(r)
  ELSE [r EXCEPT !.includes = Put(@, el.name, el)]

-----------------------------------------------------------------------------
(* The items of a menu, and of a layout, are listed as they are met, each   *)
(* with its depth: those behind an item that are deeper are inside it.      *)

Inside(items, i, j) ==
  i < j /\ \A k \in i + 1 .. j : items[k].depth > items[i].depth

(* Menus.  The menu that is being read is [name, names, items], with the    *)
(* names of its items on each platform.                                     *)

(* Mutant: an item's platforms are not limited to its parent's. *)
ItemPlatformsAlone(el, parentPlatforms) ==
  IF el.platforms = {} THEN parentPlatforms ELSE el.platforms

ItemPlatforms(el, parentPlatforms) ==
  IF el.platforms = {} THEN parentPlatforms
  ELSE el.platforms \cap parentPlatforms

NameAllowed(el) ==
  IF el.name = "" THEN el.tag = "separator"
  ELSE ~IsRoot(el.name) /\ GoodName(el.name)

MenuItemOf(el, parent) ==
  [type |-> el.tag, name |-> el.name, depth |-> parent.depth + 1,
   platforms |-> ItemPlatforms(el, parent.platforms),
   title |-> IF el.tag = "separator" THEN None ELSE el.title,
   icon |-> IF el.tag = "separator" THEN None ELSE el.icon]

MenuItemCalls(elements, parent) ==
  [i \in DOMAIN elements |-> [do |-> "menuItem", el |-> elements[i], parent |-> parent]]

ParseMenuItem(s, el, parent) ==
  LET item == MenuItemOf(el, parent)
      m == s.menu
      named(p) == el.name # "" /\ p \in item.platforms
  IN IF \/ el.tag \notin {"submenu", "item", "separator"}
        \/ ~NameAllowed(el) \/ item.platforms = {}
        \/ \E p \in Platforms : named(p) /\ el.name \in m.names[p]
     THEN Refuse(s)
     ELSE [Make(s, IF el.tag = "submenu" THEN MenuItemCalls(el.children, item)
                   ELSE << >>) EXCEPT
             !.menu = [name |-> m.name, items |-> Append(m.items, item),
                       names |-> [p \in Platforms |->
                                    IF named(p) THEN m.names[p] \cup {el.name}
                                    ELSE m.names[p]]]]

ParseMenu(s, el) ==
  IF ~GoodName(el.name) \/ el.name \in DOMAIN s.res.menus THEN Refuse(s)
  ELSE [Make(s, MenuItemCalls(el.children, [depth |-> 0, platforms |-> Platforms])
                \o <<[do |-> "endMenu"]>>) EXCEPT
          !.menu = [name |-> el.name, names |-> [p \in Platforms |-> {}], items |-> << >>]]

EndMenu(s) == Return(s, [s.res EXCEPT !.menus = Put(@, s.menu.name, s.menu.items)])

=============================================================================
