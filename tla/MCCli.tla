------------------------------- MODULE MCCli -------------------------------
(* Hosts with interfaces and their addresses; hosts may contain hardware,  *)
(* and interfaces the ports of hardware.                                   *)
EXTENDS CliSession

MCKinds == {"host", "interface", "hardware", "port", "address"}
MCEmbeddedInto == [interface |-> "host", port |-> "hardware", address |-> "interface"]
MCContainsKind == {<<"host", "hardware">>, <<"interface", "port">>}
MCAttributes == [k \in MCKinds |-> CASE k = "host" -> {"hardware", "role"}
                                     [] k = "hardware" -> {"host", "cpu"}
                                     [] k = "interface" -> {"mac", "port"}
                                     [] k = "port" -> {"speed", "interface"} [] k = "address" -> {"ip"}]
MCSets == {"role"}
MCAutoNames == <<"n1", "n2", "n3", "n4">>
host(n) == <<"object", "host", <<n>>>>
itf(n)  == <<"object", "interface", <<n>>>>
MCLines == {
  <<>>, <<host("a")>>, <<itf("x")>>, <<<<"end">>>>,
  <<host("b"), itf("x"), <<"set", "mac", "1">>>>,
  <<<<"create">>, host("b")>>,
  <<<<"object", "interface", <<"a", "x">>>>>>,
  <<<<"filter", "host", <<>>>>>>, <<<<"filter", "host", <<"host", "role">>>>, <<"new", "interface">>>>,
  <<<<"new", "interface">>>>, <<<<"filter", "interface", <<>>>>>>,
  <<<<"set", "cpu", "1">>>>, <<<<"add", "role", "1">>>>, <<<<"no", "cpu">>>>,
  <<<<"delete">>, host("a")>>, <<<<"rename">>, host("a"), <<"word", "b">>>>, <<<<"show">>>>,
  <<<<"new", "port">>>>, <<<<"object", "port", <<"p">>>>>>,
  <<<<"new", "interface">>, <<"set", "speed", "1">>>>,
  <<<<"filter", "host", <<"host", "role">>>>, <<"new", "interface">>, <<"object", "address", <<"q">>>>>>,
  <<host("b"), <<"add", "role", "1">>, <<"end">>, <<"filter", "host", <<"host", "role">>>>, itf("x")>> }
MCBatches == {<< <<<<"create">>, host("b")>>, <<<<"delete">>, host("a")>> >>}
MCScripts == {<< <<<<"start">>>>, <<host("b"), itf("x")>>, <<<<"commit">>>>, <<<<"show">>>> >>,
              << <<host("a")>>, <<<<"abort">>>>, <<<<"start">>>> >>}
View0(objs, set) == [objs |-> objs, set |-> set]
A == <<"host", <<"a">>>>
MCViews == {View0({}, {}),
            View0({A, <<"hardware", <<"a">>>>, <<"hardware", <<"b">>>>}, {}),
            View0({A, <<"host", <<"b">>>>, <<"interface", <<"a", "x">>>>}, {<<A, "role">>})}
=============================================================================
