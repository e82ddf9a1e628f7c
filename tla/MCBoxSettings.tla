----------------------------- MODULE MCBoxSettings ----------------------------
(* One sensor row, and one or two settings of every kind beside the default.    *)
(* A logger's host and path are as long together as its page allows, 25 and 30, *)
(* or the host is too long for its field once it is encoded.  A password fits   *)
(* in its encoding, or only in what the field lets type.  The name of the       *)
(* sensor is as long as its field, with a blank in it.                          *)
EXTENDS BoxSettings

Text(c, n) == [i \in 1..n |-> c]
MCRowOrder == <<"row">>
MCDefPassword == <<"a", "d", "m", "i", "n">>
MCPasswords == {Text("s", n) \o <<":">> : n \in {11, 13}}
MCServer(host, path, enable, refresh) ==
  [enable |-> enable, server_name |-> host, script_path |-> <<"/">> \o Text("p", path - 1),
   port |-> 80, refresh_time |-> refresh]
MCServerSettings == {MCServer(Text("h", n) \o <<":">>, 30, TRUE, 60) : n \in {22, 24}}
MCDefServer1 == MCServer(Text("h", 11), 9, FALSE, 305)
MCDefServer2 == MCServer(Text("h", 14), 15, FALSE, 60)
MCDefRow == [enable |-> TRUE, name |-> <<"N", "o", " ", "n", "a", "m", "e">>, offset |-> <<"0">>]
MCRowSettings ==
  {[enable |-> TRUE, name |-> Text("n", 6) \o <<" ">> \o Text("n", 7), offset |-> <<"1", ".", "5">>]}
MCAddresses(i, g) == [i |-> i, s |-> <<255, 255, 255, 0>>, g |-> g, d |-> g]
MCDefAddresses == MCAddresses(<<192, 168, 1, 222>>, <<192, 168, 1, 1>>)
MCLeased == MCAddresses(<<192, 168, 0, 64>>, <<192, 168, 0, 1>>)
MCUserAddresses == {MCAddresses(<<10, 0, 20, 7>>, <<10, 0, 20, 254>>)}
MCDefMac == <<0, 79, 88, 109, 2, 5>>
MCMacs == {<<0, 79, 88, 109, 171, 16>>}
===============================================================================
