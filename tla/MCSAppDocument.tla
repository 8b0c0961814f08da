--------------------------- MODULE MCSAppDocument ---------------------------
EXTENDS SAppDocument

String(n, l) == [tag |-> "string", name |-> n, locale |-> l, children |-> << >>]
Strings(l, cs) == [tag |-> "strings", locale |-> l, children |-> cs]
Nine(t, n, refs) ==
  [tag |-> t, name |-> n, refs |-> refs, global |-> TRUE, children |-> << >>]
MenuItem(t, n, p, icon, cs) ==
  [tag |-> t, name |-> n, platforms |-> p, icon |-> icon, children |-> cs,
   title |-> IF t = "separator" THEN None ELSE "s"]
Menu(n, cs) == [tag |-> "menu", name |-> n, children |-> cs]
Item(t, n, attrs, cs) ==
  [tag |-> t, name |-> n, attrs |-> attrs, styles |-> << >>, children |-> cs]
Layout(n, type, attrs, cs) ==
  [tag |-> "layout", name |-> n, type |-> type, attrs |-> attrs,
   styles |-> << >>, children |-> cs]
Style(n, attrs, cs) ==
  [tag |-> "layout-style", name |-> n, attrs |-> attrs, children |-> cs]
Include(n, cs) == [tag |-> "layout-include", name |-> n, children |-> cs]
Included(n) == [tag |-> "include", src |-> n, children |-> << >>]
Image(n, main, raw, loads) ==
  [name |-> n, main |-> main, raw |-> raw, loads |-> loads]

NoAttrs == [a \in {} |-> None]

RawDir(files) == [kind |-> "raw", locale |-> Unknown,
                  files |-> [i \in DOMAIN files |-> [raw |-> files[i]]]]
ImageDir(l, files) == [kind |-> "image", locale |-> l, files |-> files]

Images == ImageDir(Unknown, <<Image("d", FALSE, "d2", TRUE), Image("d", TRUE, "d1", TRUE)>>)
Localized == ImageDir("ko", <<Image("d", TRUE, "d3", TRUE)>>)

DirsPool ==
  {<< >>, <<Images>>, <<Images, Localized>>, <<Localized, Images>>,
   <<Images, RawDir(<<"r">>)>>, <<RawDir(<<TooBig>>)>>,
   <<ImageDir(BadName, << >>)>>, <<Images, RawDir(<<"d1">>)>>,
   <<ImageDir(Unknown, <<Image("d", TRUE, "d1", FALSE)>>)>>,
   <<ImageDir(Unknown, <<Image("", TRUE, "d1", TRUE)>>)>>}

MCIsRoot(name) == name = "root"

(* What is put together in all ways, and what is met alone.                 *)
Common ==
  <<String("s", Unknown),
   Strings("ko", <<String("s", Unknown), String("s", "en")>>),
   Nine("nine-pieces", "n", {"d"}), Nine("nine-patch", "p", {"n"}),
   Menu("m", <<MenuItem("item", "a", {"mac"}, None, << >>),
               MenuItem("separator", "", {}, None, << >>),
               MenuItem("item", "a", {"windows"}, "d", << >>)>>),
   Menu("m", <<MenuItem("submenu", "a", {"mac", "linux"}, None,
                 <<MenuItem("item", "b", {}, "n", << >>),
                   MenuItem("item", "c", {"linux", "windows"}, "d", << >>)>>),
               MenuItem("item", "b", {"windows"}, None, << >>)>>),
   Menu("m", <<MenuItem("submenu", "a", {"linux"}, None,
                        <<MenuItem("item", "a", {"mac", "linux"}, None, << >>)>>)>>),
   Menu("m", <<MenuItem("submenu", "a", {"mac"}, None,
                 <<MenuItem("item", "b", {"mac", "linux"}, "d", << >>),
                   MenuItem("submenu", "c", {}, None,
                            <<MenuItem("item", "d", {}, None, << >>)>>)>>),
               MenuItem("item", "c", {"windows"}, None, << >>)>>),
   Style("y", [fontSize |-> "sp"], <<Item("view", "", NoAttrs, << >>)>>),
   Include("i", <<Item("view", "v", [toRightOf |-> "v"], << >>)>>),
   Layout("A", "view", [title |-> "s", fontSize |-> "px"],
     <<Item("view", "", [width |-> "viewport"], << >>),
       Item("import", "", [layout |-> "B"], << >>),
       Item("view", "v", [left |-> "viewport", alignCenter |-> "_view1"], << >>)>>),
   Layout("B", "page", [background |-> "d"],
     <<Item("group", "g", NoAttrs, <<Item("view", "g", [marginLeft |-> "viewport"], << >>)>>),
       [Item("view", "v", [below |-> "g"], << >>) EXCEPT !.styles = <<"y">>]>>),
   Layout("B", "window", [menu |-> "m", left |-> "px"],
     <<Item("scroll", "", NoAttrs, <<Item("view", "v", NoAttrs, << >>)>>),
       [Item("tab", "", [margin |-> "viewport"],
             <<[tag |-> "item", children |-> <<Item("view", "", NoAttrs, << >>)>>]>>)
          EXCEPT !.name = "t"]>>),
   Layout("B", "view", NoAttrs, <<Item("import", "", [layout |-> "A"], << >>)>>),
   Layout("C", "view", NoAttrs,
     <<Item("view", "v", NoAttrs, << >>), Included("i"), Item("view", "v", NoAttrs, << >>)>>),
   Layout("D", "view", [sp |-> "unparsed"],
     <<Item("group", "g", [fontSize |-> "sp"],
            <<Item("view", "w", [alignLeft |-> "g"], << >>)>>)>>),
   Layout("E", "view", [sp |-> "sp"],
     <<Item("group", "g", [fontSize |-> "sp"],
            <<Item("view", "", [fontBold |-> "bold"], << >>),
              Item("view", "", [below |-> "_view1"], << >>)>>)>>)>>

Rare ==
  <<Menu("m", <<MenuItem("item", "root", {}, None, << >>)>>),
    Layout("F", "view", [sp |-> "fill"], << >>),
    Layout("F", "view", [sp |-> "px"],
      <<Item("group", "g", NoAttrs,
             <<Item("view", "g", NoAttrs, << >>), Item("view", "", [title |-> "s"], << >>)>>)>>),
    Layout("G", "view", NoAttrs,
      <<Item("import", "g", [layout |-> "F"], << >>),
        Item("group", "h", NoAttrs, <<Item("import", "h", [layout |-> "E"], << >>)>>)>>)>>

Pool == Common \o Rare

(* The elements of the pool and all that are inside of them. *)
RECURSIVE Closure(_)
Closure(elements) ==
  LET inner == UNION {Range(el.children) : el \in elements}
  IN IF inner \subseteq elements THEN elements ELSE Closure(elements \cup inner)

MCElements == Closure(Range(Pool))

Sequences(n) ==
  {s \in UNION {[1..m -> DOMAIN Common] : m \in 0..n} : IsInjective(s)}

Project(d, s) == [dirs |-> d, xml |-> [k \in DOMAIN s |-> Pool[s[k]]]]

(* The project that is generated twice, one generation on top of the other. *)
Twice == Project(<<Images>>, <<2, 3, 6, 13>>)

MCProjects ==
  {Twice, Project(<<Images>>, <<1, 3, 5, 9, 10, 12, 11, 15>>), Project(<< >>, <<1, 11, 14>>)}
    \cup {Project(d, s) : d \in DirsPool, s \in Sequences(1)}
    \cup {Project(<<Images>>, s) : s \in Sequences(2)}
    \cup {Project(<< >>, s) : s \in {<<1, 6>>, <<1, 18>>, <<19>>, <<20, 17, 21>>, <<1, 20, 17, 21>>}}

MCEdits == {Project(<<Images, RawDir(<<TooBig>>)>>, <<2, 3, 6, 13>>)}

MCMaxGen(p) == IF p = Twice THEN 2 ELSE 1

(* No reading that the model checker meets is cut short by the bound.       *)
ASSUME ReadToTheEnd ==
  \A p \in MCProjects \cup MCEdits : Reading(p)[MaxCalls].todo = << >>

(* Nor any pass of a simulation.                                            *)
ASSUME PassedToTheEnd ==
  \A p \in MCProjects \cup MCEdits :
    LET r == Read(p)
    IN \A name \in DOMAIN r.layouts :
         /\ Pass(r, name, FALSE, Unpassed).frames = << >>
         /\ Simulation(r, name).frames = << >>

(* AutoNamesDiffer of SAppProofs, for as many items as a reading can meet.  *)
ASSUME MadeNamesDiffer ==
  \A t \in ControlType : \A m, n \in 0 .. MaxCalls :
    AutoName(t, m) = AutoName(t, n) => m = n

=============================================================================
