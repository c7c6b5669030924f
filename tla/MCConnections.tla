---------------------------- MODULE MCConnections ----------------------------
(* Connections of one process: see the .cfg files.                         *)
EXTENDS Connections, TLC

CONSTANTS c1, c2

Symmetry == Permutations(Conns)

Urls == {NoUrl,
         [scheme |-> "http", host |-> "u", port |-> 0, path |-> "/p", user |-> "w"],
         [scheme |-> "https", host |-> "u", port |-> 8088, path |-> "", user |-> ""],
         [scheme |-> "", host |-> "u", port |-> 0, path |-> "", user |-> ""]}

(* The data source ATSD has any section, the other a server only.          *)
Sections ==
  {[url |-> url, port |-> port, server |-> rest[1], user |-> "", sslmode |-> rest[2],
    database |-> rest[3], timeout |-> rest[4]] :
     url \in Urls, port \in {0, 8443, BadNumber},
     rest \in {<<"", "", "", 30>>, <<"s", "", "b", BadNumber>>, <<"", "allow", "b", 0>>,
               <<"s", "require", "", 7>>}}
  \cup {[NoSection EXCEPT !.url = BadUrl]}

AllIniFiles ==
  {[d \in DataSources |-> IF d = "ATSD" THEN section ELSE [NoSection EXCEPT !.server = "other"]] :
     section \in Sections}

Settings ==
  [key : {"dsn"}, value : DataSources] \cup [key : {"uid"}, value : {"me", "m;e", BadUser}]
    \cup [key : {"proto"}, value : {"http", "https"}] \cup [key : {"server"}, value : {"t"}]
    \cup [key : {"sslmode"}, value : {"allow", "require"}]
    \cup [key : {"url"}, value : (Urls \ {NoUrl}) \cup {BadUrl}]
    \cup [key : {"port"}, value : {BadNumber, 443, 8443, 65536}]
    \cup [key : {"timeout"}, value : {BadNumber, 0, 5}] \cup [key : {"database"}, value : {"d"}]

AllStrings ==
  {<<>>} \cup {<<s>> : s \in Settings} \cup {<<s, t>> : s \in Settings, t \in Settings}

AllTexts ==
  {"", "http", "https", "localhost", "default", "/odbc", "other", "s", "t", "u", "w", "/p",
   "me", "m;e", "m", BadUser, "b", "d", "k", "k;x"} \cup DataSources

AllCuts ==
  [text \in AllTexts |-> CASE text = "m;e" -> "m" [] text = "k;x" -> "k" [] OTHER -> text]

(* Strings that differ in what SSL checks.                                 *)
FewIniFiles == {[d \in DataSources |-> NoSection]}
SslStrings == {<<[key |-> "sslmode", value |-> m]>> : m \in {"allow", "require"}}
=============================================================================
