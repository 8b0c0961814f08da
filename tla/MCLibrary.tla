------------------------------ MODULE MCLibrary -----------------------------
(***************************************************************************)
(* Parts of the library that know nothing of each other, in one model: each *)
(* behaviour is one of the part that it chose.                             *)
(***************************************************************************)
EXTENDS MCSAppDocument, SecureFilePackage, DbIp, Streamer

VARIABLE part

MCFileNames == {"a", "a/b", "a.c", "long", "b"}
MCLists == {{"a", "a/b", "a.c"}, {"b", "long"}}
MCPlainOrder == <<"a", "a.c", "a/b", "b", "lon", "long">>
MCSearchOrder == <<"a", "a/b", "a.c", "b", "lon", "long">>
MCClip == [n \in MCFileNames |-> IF n = "long" THEN "lon" ELSE n]

Line(f, start, end, code) == [family |-> f, start |-> start, end |-> end, code |-> code]

MCLines ==
  {Line("ipv4", 0, 1, "KR"), Line("ipv4", 2, 4, "US"), Line("ipv4", 5, 5, "none"),
   Line("ipv4", 6, 7, "JP"), Line("ipv6", 1, 3, "US"), Line("ipv6", 4, 6, "FR")}
MCAddresses == 0 .. 8

documentVars == vars

LibraryInit ==
  /\ PackageInit /\ DbInit /\ StreamInit
  /\ \/ part = "document" /\ Init
     \/ /\ part \in {"package", "db", "stream"}
        /\ disk = Project(<< >>, << >>) /\ Init

LibraryNext ==
  /\ \/ part = "document" /\ Next /\ UNCHANGED <<packageVars, dbVars, stVars>>
     \/ part = "package" /\ PackageNext /\ UNCHANGED <<documentVars, dbVars, stVars>>
     \/ part = "db" /\ DbNext /\ UNCHANGED <<documentVars, packageVars, stVars>>
     \/ part = "stream" /\ StreamNext /\ UNCHANGED <<documentVars, packageVars, dbVars>>
  /\ UNCHANGED part

LibrarySpec ==
  LibraryInit /\ [][LibraryNext]_<<part, documentVars, packageVars, dbVars, stVars>>
=============================================================================
