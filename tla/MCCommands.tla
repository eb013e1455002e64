------------------------------ MODULE MCCommands ------------------------------
(* Hosts with interfaces, two hosts to begin with, one of them with an     *)
(* interface.                                                              *)
EXTENDS CliCommands
MCEmbeddedInto == "interface" :> "host"
MCAttributes == [k \in {"host", "interface"} |-> {"note"}]
MCKindsInOrder == <<"host", "interface">>
MCNamesInOrder == <<"a", "b", "c", "note", "x", "y">>
Thing(k, n, in, v) == [kind |-> k, name |-> n, in |-> in, val |-> [note |-> v]]
MCBase == 1 :> Thing("host", "a", 0, "none") @@ 2 :> Thing("host", "b", 0, "none") @@ 3 :> Thing("interface", "x", 1, "none")
Obj(k, path) == <<"object", k, path>>
Host(n) == Obj("host", <<n>>)
SetNote(obj, v) == <<obj, <<"set", "note", v>>>>
X == Obj("interface", <<"a", "x">>)
DeleteLine(obj) == <<<<"delete">>, obj>>
CreateLine(obj) == <<<<"create">>, obj>>
RenameLine(obj, n) == <<<<"rename">>, obj, <<"word", <<n>>>>>>
MCOurLines ==
  {DeleteLine(Host("a")), CreateLine(Obj("interface", <<"b", "x">>)), RenameLine(Host("a"), "c"),
   SetNote(Host("a"), "w"), SetNote(Host("b"), "v"), SetNote(X, "w")}
MCTheirScripts ==
  {<<DeleteLine(Host("a"))>>, <<RenameLine(Host("a"), "c")>>,
   <<SetNote(Host("b"), "w"), CreateLine(Host("c"))>>, <<SetNote(X, "v")>>}
=============================================================================
