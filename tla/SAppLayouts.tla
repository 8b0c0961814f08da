----------------------------- MODULE SAppLayouts -----------------------------
(***************************************************************************)
(* Layouts of SAppDocument: how an XML element becomes a list of items,    *)
(* what the generated code and the simulation make of them.                *)
(* The attributes of an element are a function on the names of those it    *)
(* has.  The items of a layout are listed in the order in which their      *)
(* views are created, the root first with the name "".                     *)
(***************************************************************************)
EXTENDS SAppResources, Functions

CONSTANT MaxCalls     \* bound: calls of a reading, steps of a simulation's pass

ASSUME MaxCallsAssumption == MaxCalls \in Nat

(* SAppLayoutResourceItem::getXmlAttribute: the element's own, or that of  *)
(* the first style that has it.                                            *)
Attribute(r, el, a) ==
  LET from == <<el>> \o [i \in DOMAIN el.styles |-> r.styles[el.styles[i]]]
      having == {i \in DOMAIN from : a \in DOMAIN from[i].attrs}
  IN IF having = {} THEN None
     ELSE from[CHOOSE i \in having : \A j \in having : i <= j].attrs[a]

-----------------------------------------------------------------------------
(* Positions: each attribute sets the mode of a side, to the parent when   *)
(* its value is "parent", to the view it names otherwise.                  *)

Rule(attr, sides, parent, other) ==
  [attr |-> attr, sides |-> sides, parent |-> parent, other |-> other,
   refs |-> sides \ (IF attr = "alignCenter" THEN {"top"} ELSE {})]

AlignRules ==
  <<Rule("alignLeft", {"left"}, "ParentEdge", "OtherStart"),
    Rule("toRightOf", {"left"}, None, "OtherEnd"),
    Rule("alignTop", {"top"}, "ParentEdge", "OtherStart"),
    Rule("below", {"top"}, None, "OtherEnd"),
    Rule("alignRight", {"right"}, "ParentEdge", "OtherEnd"),
    Rule("toLeftOf", {"right"}, None, "OtherStart"),
    Rule("alignBottom", {"bottom"}, "ParentEdge", "OtherEnd"),
    Rule("above", {"bottom"}, None, "OtherStart"),
    Rule("centerHorizontal", {"left"}, "CenterInParent", "CenterInOther"),
    Rule("centerVertical", {"top"}, "CenterInParent", "CenterInOther"),
    Rule("alignCenter", {"left", "top"}, "CenterInParent", "CenterInOther")>>

Sides == {"left", "top", "right", "bottom"}

Unplaced ==
  [ok |-> TRUE, mode |-> [s \in Sides |-> "Fixed"],
   ref |-> [s \in Sides |-> None]]

(* Mutant: any view may be referred to. *)
RefersToAny(value, names, isRoot) == ~isRoot

RefersTo(value, names, isRoot) == ~isRoot /\ value \in names

ToParent(r, el, rule) == rule.parent # None /\ Attribute(r, el, rule.attr) = "parent"

ToOther(r, el, rule) == Attribute(r, el, rule.attr) # None /\ ~ToParent(r, el, rule)

LastOf(rules) == CHOOSE i \in rules : \A j \in rules : j <= i

(* The last rule that applies to a side gives its mode, the last that names *)
(* a view its reference.                                                    *)
ParsePosition(r, el, names, isRoot) ==
  LET rule(i) == AlignRules[i]
      value(i) == Attribute(r, el, rule(i).attr)
      setting(s) == {i \in DOMAIN AlignRules : s \in rule(i).sides /\ value(i) # None}
      naming(s) == {i \in DOMAIN AlignRules : s \in rule(i).refs /\ ToOther(r, el, rule(i))}
      modeOf(i) == IF ToParent(r, el, rule(i)) THEN rule(i).parent ELSE rule(i).other
  IN [ok |-> \A i \in DOMAIN AlignRules :
               ToOther(r, el, rule(i)) => RefersTo(value(i), names, isRoot),
      mode |-> [s \in Sides |-> IF setting(s) = {} THEN "Fixed"
                                ELSE modeOf(LastOf(setting(s)))],
      ref |-> [s \in Sides |-> IF naming(s) = {} THEN None
                               ELSE value(LastOf(naming(s)))]]

(* The calls that place a view: a centred axis is placed by one call, any   *)
(* other by one for each of its two sides.                                  *)
Placed(pos) ==
  LET centred(s) == pos.mode[s] \in {"CenterInParent", "CenterInOther"}
      far == (IF centred("left") THEN {} ELSE {"right"}) \cup
             (IF centred("top") THEN {} ELSE {"bottom"})
  IN {<<s, pos.mode[s], pos.ref[s]>> :
        s \in {t \in {"left", "top"} \cup far : pos.mode[t] # "Fixed"}}

-----------------------------------------------------------------------------
(* Dimensions, of which only the unit is kept.                              *)

GlobalUnit == {"px", "screen"}                  \* PX, SW, SH, SMIN, SMAX
ViewportUnit == {"viewport", "sp"}              \* VW, VH, VMIN, VMAX, SP
RelativeUnit == {"fill", "wrap", "weight"}
Unit == GlobalUnit \cup ViewportUnit \cup RelativeUnit

CheckPosition(isRoot) ==
  IF isRoot THEN GlobalUnit ELSE GlobalUnit \cup ViewportUnit
CheckSize(isRoot) ==
  IF isRoot THEN GlobalUnit \cup RelativeUnit ELSE Unit
CheckMargin(isRoot) == CheckPosition(isRoot) \cup {"weight"}

(* The units of a view's width, left position and left margin, which stand *)
(* for those of the other sides too.  The attribute "margin" is checked    *)
(* with the check for the root view when the view is not the root.         *)
Margin(r, el, isRoot) ==
  LET left == Attribute(r, el, "marginLeft")
      all == Attribute(r, el, "margin")
  IN [ok |-> /\ left \in CheckMargin(isRoot) \cup {None}
             /\ all \in CheckMargin(~isRoot) \cup {None},
      left |-> IF left # None THEN left ELSE all]

ParseDimensions(r, el, isRoot) ==
  LET value(a) == Attribute(r, el, a)
      fits(a, units) == value(a) \in units \cup {None}
      margin == Margin(r, el, isRoot)
  IN [ok |-> /\ fits("width", CheckSize(isRoot))
             /\ fits("left", CheckPosition(isRoot))
             /\ fits("fontSize", CheckPosition(isRoot))
             /\ margin.ok,
      width |-> value("width"), left |-> value("left"),
      marginLeft |-> margin.left]

(* A window's, checked with checkForWindow, but for the size of its font.   *)
ParseWindowDimensions(r, el) ==
  LET value(a) == Attribute(r, el, a)
  IN [ok |-> \A a \in {"width", "left", "fontSize"} :
               value(a) \in GlobalUnit \cup {None},
      width |-> value("width"), left |-> value("left"), marginLeft |-> None]

(* A layout's scaled pixel.  One that cannot be parsed is logged and passed *)
(* over.  One that does not fit refuses the layout; so does an amount that  *)
(* is not positive, for which a relative unit stands here.                  *)
ScaledPixel(r, el) ==
  IF Attribute(r, el, "sp") \in Unit THEN Attribute(r, el, "sp") ELSE None

CheckSP(sp) == sp \notin RelativeUnit

(* What is inherited of the font: the size, from the parent's.  A view's   *)
(* font is set when it has any of the attributes itself.                   *)
FontAttributes ==
  {"fontFamily", "fontSize", "fontBold", "fontItalic", "fontUnderline"}

FontOf(r, el, parentFont) ==
  IF Attribute(r, el, "fontSize") = None THEN parentFont
  ELSE Attribute(r, el, "fontSize")

SetsFont(r, el) == \E a \in FontAttributes : Attribute(r, el, a) # None

-----------------------------------------------------------------------------
(* Reading a layout.  The layout that is being read is [name, type, sp,    *)
(* names, items, counts]: the names in itemsByName, which an item enters   *)
(* behind those inside it, the items, and the last number given to an item *)
(* without a name.                                                         *)

ControlType == {"group", "view", "scroll", "tab", "import"}

(* An item names its styles in order.                                      *)
ASSUME StylesAssumption ==
  \A el \in Elements :
    el.tag \in ControlType \cup {"layout"} => el.styles \in Seq(Range(el.styles))

(* getAutoIncreasingName *)
AutoName(tag, n) == "_" \o tag \o ToString(n)

AutoNumber(lay, tag) ==
  CHOOSE n \in lay.counts[tag] + 1 .. lay.counts[tag] + Cardinality(lay.names) + 1 :
    /\ AutoName(tag, n) \notin lay.names
    /\ \A k \in lay.counts[tag] + 1 .. n - 1 : AutoName(tag, k) \in lay.names

(* The layout itself is an item, a group.                                  *)
TypeOf(el, isRoot) == IF isRoot THEN "group" ELSE el.tag

IsWindow(lay, isRoot) == isRoot /\ lay.type = "window"

ItemName(lay, el, isRoot) ==
  IF isRoot THEN "" ELSE IF el.name # "" THEN el.name
  ELSE AutoName(el.tag, AutoNumber(lay, el.tag))

(* Mutant: a name that is in use is taken again. *)
NameTaken(lay, el, isRoot) == FALSE

NameRefused(lay, el, isRoot) ==
  /\ ~isRoot /\ el.name # ""
  /\ (el.name = BadName \/ el.name \in lay.names)

(* What is kept of the attributes of an item.  The view of a window is not *)
(* placed by its layout, and a page is as large as the screen by default.  *)
ItemOf(r, lay, el, parent, isRoot) ==
  [name |-> ItemName(lay, el, isRoot), type |-> TypeOf(el, isRoot),
   depth |-> parent.depth + 1,
   pos |-> IF IsWindow(lay, isRoot) THEN Unplaced
           ELSE ParsePosition(r, el, lay.names, isRoot),
   dims |-> IF IsWindow(lay, isRoot) THEN ParseWindowDimensions(r, el)
            ELSE LET d == ParseDimensions(r, el, isRoot)
                 IN IF isRoot /\ lay.type = "page" /\ d.width = None
                    THEN [d EXCEPT !.width = "screen"] ELSE d,
   font |-> FontOf(r, el, parent.font), setsFont |-> SetsFont(r, el),
   title |-> Attribute(r, el, "title"),
   background |-> Attribute(r, el, "background"),
   menu |-> IF IsWindow(lay, isRoot) THEN Attribute(r, el, "menu") ELSE None,
   import |-> IF TypeOf(el, isRoot) = "import" THEN Attribute(r, el, "layout") ELSE None]

(* The calls for what is put in an item: one for each element, for each list *)
(* of elements, and for each list of the items of a tab.                     *)
ItemCall(el, parent) == [do |-> "item", el |-> el, parent |-> parent]
ItemsCall(list, parent) == [do |-> "items", list |-> list, parent |-> parent]
TabItemsCall(list, parent) == [do |-> "tabItems", list |-> list, parent |-> parent]

StyleChildren(r, el, i) == r.styles[el.styles[i]].children

(* _getLayoutItemChildElements: an include that is not found leaves the    *)
(* item with no children at all, and is not an error to the caller.        *)
GroupCalls(r, el, item) ==
  LET own(c) == IF c.tag # "include" THEN ItemCall(c, item)
                ELSE ItemsCall(r.includes[c.src].children, item)
  IN IF \E i \in DOMAIN el.children :
          el.children[i].tag = "include" /\ el.children[i].src \notin DOMAIN r.includes
     THEN << >>
     ELSE [i \in DOMAIN el.children |-> own(el.children[i])]
          \o [i \in DOMAIN el.styles |-> ItemsCall(StyleChildren(r, el, i), item)]

(* All children of a group, the one of a scroll view, the one in each item  *)
(* of a tab.                                                                *)
InnerCalls(r, el, item) ==
  CASE item.type = "group" -> GroupCalls(r, el, item)
    [] item.type = "scroll" -> <<ItemsCall(el.children, item)>>
    [] item.type = "tab" ->
         <<TabItemsCall(el.children, item)>>
         \o [i \in DOMAIN el.styles |-> TabItemsCall(StyleChildren(r, el, i), item)]
    [] OTHER -> << >>

ParseItem(s, el, parent) ==
  LET isRoot == parent.depth = 0
      lay == s.layout
      type == TypeOf(el, isRoot)
      item == ItemOf(s.res, lay, el, parent, isRoot)
      enterName == IF isRoot THEN << >>
                   ELSE <<[do |-> "enterName", at |-> Len(lay.items) + 1]>>
  IN IF \/ type \notin ControlType
        \/ \E i \in DOMAIN el.styles : el.styles[i] \notin DOMAIN s.res.styles
        \/ NameRefused(lay, el, isRoot)
     THEN Refuse(s)
     ELSE IF \/ ~item.pos.ok \/ ~item.dims.ok
             \/ type = "import" /\ item.import = None
             \/ type = "scroll" /\ Len(el.children) > 1
     THEN Refuse(s)
     ELSE [Make(s, InnerCalls(s.res, el, item) \o enterName) EXCEPT
             !.layout = [lay EXCEPT
               !.sp = IF isRoot THEN ScaledPixel(s.res, el) ELSE @,
               !.items = Append(@, item),
               !.counts = IF isRoot \/ el.name # "" THEN @
                          ELSE [@ EXCEPT ![el.tag] = AutoNumber(lay, el.tag)]]]

ParseItems(s, list, parent) ==
  Make(s, [i \in DOMAIN list |-> ItemCall(list[i], parent)])

(* Of a list of elements, those in each that is the item of a tab.          *)
ParseTabItems(s, list, parent) ==
  LET tabItems == {i \in DOMAIN list : list[i].tag = "item"}
  IN IF \E i \in tabItems : Len(list[i].children) > 1 THEN Refuse(s)
     ELSE Make(s, [i \in DOMAIN list |->
                     ItemsCall(IF i \in tabItems THEN list[i].children ELSE << >>, parent)])

EnterName(s, i) ==
  [Make(s, << >>) EXCEPT !.layout.names = @ \cup {s.layout.items[i].name}]

ParseLayout(s, el) ==
  IF \/ el.type \notin {"view", "window", "page"} \/ ~GoodName(el.name)
     \/ el.name \in DOMAIN s.res.layouts
  THEN Refuse(s)
  ELSE [Make(s, <<ItemCall(el, [depth |-> 0, font |-> None]), [do |-> "endLayout"]>>) EXCEPT
          !.layout = [name |-> el.name, type |-> el.type, sp |-> None,
                      names |-> {}, items |-> << >>,
                      counts |-> [t \in ControlType |-> 0]]]

EndLayout(s) ==
  LET lay == s.layout
      read == [type |-> lay.type, sp |-> lay.sp, items |-> lay.items]
  IN IF ~CheckSP(lay.sp) THEN Refuse(s)
     ELSE Return(s, [s.res EXCEPT !.layouts = Put(@, lay.name, read)])

-----------------------------------------------------------------------------
(* _parseResourcesXml, for one child of the root *)
ParseElement(s, el) ==
  CASE el.tag = "strings" -> ParseStrings(s, el)
    [] el.tag = "string" -> Return(s, ParseString(s.res, el, Unknown))
    [] el.tag = "nine-pieces" -> Return(s, ParseNinePieces(s.res, el))
    [] el.tag = "nine-patch" -> Return(s, ParseNinePatch(s.res, el))
    [] el.tag = "menu" -> ParseMenu(s, el)
    [] el.tag = "layout-style" -> Return(s, ParseLayoutStyle(s.res, el))
    [] el.tag = "layout-include" -> Return(s, ParseLayoutInclude(s.res, el))
    [] el.tag = "layout" -> ParseLayout(s, el)
    [] OTHER -> Refuse(s)

(* The first of the calls, with its arguments.                              *)
Call(s, c) ==
  CASE c.do = "directory" -> RegisterDirectory(s, c.dir)
    [] c.do = "file" -> RegisterFile(s, c.file, c.dir)
    [] c.do = "element" -> ParseElement(s, c.el)
    [] c.do = "string" -> Return(s, ParseString(s.res, c.el, c.locale))
    [] c.do = "menuItem" -> ParseMenuItem(s, c.el, c.parent)
    [] c.do = "endMenu" -> EndMenu(s)
    [] c.do = "item" -> ParseItem(s, c.el, c.parent)
    [] c.do = "items" -> ParseItems(s, c.list, c.parent)
    [] c.do = "tabItems" -> ParseTabItems(s, c.list, c.parent)
    [] c.do = "enterName" -> EnterName(s, c.at)
    [] c.do = "endLayout" -> EndLayout(s)

Turn(s) == IF s.todo = << >> THEN s ELSE Call(s, Head(s.todo))

(* The reader at first, and what it is after each of its calls.            *)
StartReading(project) ==
  [res |-> NoResources, menu |-> << >>, layout |-> << >>,
   todo |-> [i \in DOMAIN project.dirs |-> [do |-> "directory", dir |-> project.dirs[i]]]
            \o [i \in DOMAIN project.xml |-> [do |-> "element", el |-> project.xml[i]]]]

Reading(project) ==
  LET reading[n \in 0 .. MaxCalls] ==
        IF n = 0 THEN StartReading(project) ELSE Turn(reading[n - 1])
  IN reading

Read(project) == Reading(project)[MaxCalls].res

=============================================================================
