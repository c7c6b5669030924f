----------------------------- MODULE Connections -----------------------------
(***************************************************************************)
(* How a connection finds its server (driver/connection.cpp, config.cpp,   *)
(* SQLConnect, SQLDriverConnect and SQLDisconnect of odbc.cpp): settings   *)
(* of the connection string, then of the data source, then of its URL,     *)
(* then defaults, and the SSL library that all connections of the process  *)
(* share.                                                                  *)
(*                                                                         *)
(* A connection string is the sequence of its settings, [key, value], as   *)
(* nextKeyValuePair yields them; Poco::URI rejects the url BadUrl.  The    *)
(* password, key files and the like are treated as the user or the port are*)
(* and left out.                                                           *)
(***************************************************************************)
EXTENDS Integers, Sequences

CONSTANTS
  Conns,         (* connections of the process                             *)
  DataSources,   (* names of data sources, "ATSD" among them               *)
  IniFiles,      (* configurations: functions from data source to settings *)
  Strings,       (* connection strings                                     *)
  Texts,         (* what settings and fields hold                          *)
  Cut,           (* a text up to its first semicolon                       *)
  BadUser,       (* a user name with a colon                               *)
  Catalogs,      (* values of SQL_ATTR_CURRENT_CATALOG                     *)
  FreshHandles,  (* the driver manager gives each connect a connection of  *)
                 (* the driver that was just allocated, as unixODBC does   *)
  MaxConnects    (* connects per behaviour; a bound                        *)

(* Ports and timeouts are numbers; the text of BadNumber is not one.  0 is  *)
(* no port and no timeout.  A data source without a timeout has 30.        *)
BadNumber == -1
NoText == ""
NoUrl == [scheme |-> NoText, host |-> NoText, port |-> 0, path |-> NoText, user |-> NoText]
BadUrl == [NoUrl EXCEPT !.port = BadNumber]
NoSection == [url |-> NoUrl, server |-> NoText, port |-> 0, user |-> NoText,
              sslmode |-> NoText, database |-> NoText, timeout |-> 30]

SslModes == {"allow", "prefer", "require"}
Times == Nat
Numbers == Times \cup {BadNumber}
PortLimit == 65536
Ports == 0..(PortLimit - 1)
GoodUrl == [scheme : {NoText, "http", "https"}, host : Texts, port : Ports,
            path : Texts, user : Texts \ {BadUser}]
Url == GoodUrl \cup {BadUrl}
Section == [url : Url, server : Texts, port : Numbers, user : Texts,
            sslmode : SslModes \cup {NoText}, database : Texts, timeout : Numbers]

(* What a setting of a connection string may be; other keys, "unknown", and*)
(* other modes of SSL are ignored.                                         *)
IsSetting(s) ==
  \/ s.key \in {"uid", "proto", "server", "database"} /\ s.value \in Texts
  \/ s.key = "dsn" /\ s.value \in DataSources \cup {NoText}
  \/ s.key = "url" /\ s.value \in Url
  \/ s.key = "sslmode" /\ s.value \in SslModes
  \/ s.key \in {"port", "timeout"} /\ s.value \in Numbers
  \/ s.key = "unknown"

(* A connection without a data source in its string takes ATSD.            *)
ASSUME ConnectionsAssumption ==
  /\ {NoText, "http", "https", "localhost", "default", "/odbc"} \subseteq Texts
  /\ "ATSD" \in DataSources
  /\ DataSources \subseteq Texts \ {NoText}
  /\ Cut \in [Texts -> Texts]
  /\ \A text \in Texts : Cut[Cut[text]] = Cut[text]
  /\ IniFiles \subseteq [DataSources -> Section]
  /\ \A string \in Strings :
       /\ Len(string) \in Nat /\ DOMAIN string = 1..Len(string)
       /\ \A i \in DOMAIN string : IsSetting(string[i])
  /\ BadUser \in Texts \ {NoText}
  /\ Catalogs \subseteq Texts \ {NoText}
  /\ FreshHandles \in BOOLEAN
  /\ MaxConnects \in Nat

VARIABLES
  ini,       (* what SQLGetPrivateProfileString reads                      *)
  conn,      (* the Connection objects                                     *)
  asked,     (* the connection string it is connected with                 *)
  catalogs,  (* catalogs set by attribute, before and after it             *)
  connected, (* the driver manager takes it for connected                  *)
  ssl,       (* what SSLInit has set up: "none", "strict" or "relaxed"     *)
  connects   (* connects so far                                            *)

vars == <<ini, conn, asked, catalogs, connected, ssl, connects>>

NoSession ==
  [proto |-> NoText, server |-> NoText, port |-> 0, connecting |-> 0, waiting |-> 0]
Connection ==
  [source |-> NoText, url |-> NoUrl, proto |-> NoText, server |-> NoText, path |-> NoText,
   user |-> NoText, database |-> NoText, port |-> 0, timeout |-> 0,
   connection_timeout |-> 0, check |-> "relaxed", session |-> NoSession]

Init ==
  /\ ini \in IniFiles
  /\ conn = [c \in Conns |-> Connection]
  /\ asked = [c \in Conns |-> <<>>]
  /\ catalogs = [c \in Conns |-> [before |-> NoText, after |-> NoText]]
  /\ connected = [c \in Conns |-> FALSE]
  /\ ssl = "none"
  /\ connects = 0

-----------------------------------------------------------------------------
(* A text or a number unless it is empty or 0.                             *)
Or(value, other) == IF value = NoText THEN other ELSE value
OrNumber(n, other) == IF n = 0 THEN other ELSE n

(* The port is a uint16_t, the number of the text an int.                  *)
UInt16(n) == n % PortLimit

(* One setting of a connection string.                                     *)
Apply(f, s) ==
  CASE s.key = "dsn"     -> [f EXCEPT !.source = s.value]
    [] s.key = "uid"     -> [f EXCEPT !.user = s.value]
    [] s.key = "proto"   -> [f EXCEPT !.proto = s.value]
    [] s.key = "server"  -> [f EXCEPT !.server = s.value]
    [] s.key = "url"     -> [f EXCEPT !.url = s.value]
    [] s.key = "database" -> [f EXCEPT !.database = s.value]
    [] s.key = "port"    -> [f EXCEPT !.port = UInt16(s.value)]
    [] s.key = "timeout" -> [f EXCEPT !.timeout = s.value, !.connection_timeout = s.value]
    [] s.key = "sslmode" -> [f EXCEPT !.proto = "https",
                                      !.check = IF s.value = "require" THEN "strict" ELSE @]
    [] s.key = "unknown" -> f
Throws(s) == s.key \in {"port", "timeout"} /\ s.value = BadNumber

(* The fields after each setting; the first that throws ends the loop.     *)
Applied(f, string, i) ==
  IF \E j \in 1..i : Throws(string[j]) THEN f ELSE Apply(f, string[i])

Parsed(f, string) ==
  LET upTo[i \in 0..Len(string)] == IF i = 0 THEN f ELSE Applied(upTo[i - 1], string, i)
  IN  upTo

ParseString(f, string) ==
  [fields |-> Parsed(f, string)[Len(string)],
   ok |-> \A i \in DOMAIN string : ~Throws(string[i])]

(* Mutant: the URL of the data source goes before that of the string.      *)
UrlOfSection(f, section) == IF section.url = NoUrl THEN f.url ELSE section.url

UrlOf(f, section) == IF f.url = NoUrl THEN section.url ELSE f.url

(* loadConfiguration: the fields that are empty so far, from the section   *)
(* of the data source.  A bad port throws before the timeout is read, a    *)
(* bad timeout before server, user and database are.                       *)
loadConfiguration(f) ==
  LET source  == Or(f.source, "ATSD")
      section == ini[source]
      port    == IF f.port = 0 THEN UInt16(section.port) ELSE f.port
      https   == f.proto = NoText /\ (section.sslmode # NoText \/ port = 8443)
      ported  == [f EXCEPT !.source = source, !.url = UrlOf(f, section), !.port = port]
      timed   == IF f.timeout # 0 THEN ported
                 ELSE [ported EXCEPT !.timeout = section.timeout,
                                     !.connection_timeout = section.timeout]
  IN  CASE f.port = 0 /\ section.port = BadNumber ->
             [fields |-> [ported EXCEPT !.port = 0], ok |-> FALSE]
        [] ~(f.port = 0 /\ section.port = BadNumber)
           /\ f.timeout = 0 /\ section.timeout = BadNumber ->
             [fields |-> ported, ok |-> FALSE]
        [] ~(f.port = 0 /\ section.port = BadNumber)
           /\ ~(f.timeout = 0 /\ section.timeout = BadNumber) ->
             [fields |-> [timed EXCEPT
                            !.server   = Or(@, section.server),
                            !.user     = Or(@, section.user),
                            !.database = Or(@, section.database),
                            !.proto    = IF https THEN "https" ELSE @,
                            !.check    = IF section.sslmode = "require" THEN "strict" ELSE @],
              ok |-> TRUE]

(* The port of the text, that of its scheme (Poco::URI::getPort) or, if it *)
(* has none, of the protocol.                                              *)
PortOf(url, proto) ==
  IF url.port # 0 THEN url.port ELSE IF Or(url.scheme, proto) = "https" THEN 443 ELSE 80

(* setDefaults: first what the URL says, then constants.                   *)
FromUrl(f) ==
  LET proto == Or(f.proto, f.url.scheme)
  IN  IF f.url = NoUrl THEN f
      ELSE [f EXCEPT !.proto  = proto,
                     !.server = Or(@, f.url.host),
                     !.port   = OrNumber(@, PortOf(f.url, proto)),
                     !.path   = Or(@, f.url.path),
                     !.user   = Or(@, f.url.user)]

Defaults(f) ==
  LET proto   == Or(f.proto, IF f.port \in {443, 8443} THEN "https" ELSE "http")
      timeout == OrNumber(f.timeout, 30)
  IN  [f EXCEPT !.proto    = proto,
                !.server   = Or(@, "localhost"),
                !.port     = OrNumber(@, IF proto = "https" THEN 8443 ELSE 8088),
                !.path     = Or(@, "/odbc"),
                !.database = Or(@, "default"),
                !.timeout  = timeout,
                !.connection_timeout = OrNumber(@, timeout)]

(* All of Connection::init up to the session: the fields it leaves behind  *)
(* and whether it gets there.                                              *)
Resolve(f, string) ==
  LET parsed   == ParseString(f, string)
      loaded   == loadConfiguration(parsed.fields)
      complete == Defaults(FromUrl(loaded.fields))
  IN  IF ~parsed.ok THEN parsed
      ELSE IF ~loaded.ok THEN loaded
      ELSE IF loaded.fields.url = BadUrl THEN [fields |-> loaded.fields, ok |-> FALSE]
      ELSE [fields |-> complete, ok |-> complete.user # BadUser]

(* Mutant: SSL is set up for sslmode only, not for every https.            *)
NeedsSslIfStrict(f) == f.proto = "https" /\ f.check = "strict"

NeedsSsl(f) == f.proto = "https"

(* SSLInit, the first time only; check is ssl_strict.                      *)
SSLInit(f) == IF ssl # "none" THEN ssl ELSE f.check

Target(f) == [proto |-> f.proto, server |-> f.server, port |-> f.port]
Session(f) == [proto |-> f.proto, server |-> f.server, port |-> f.port,
               connecting |-> f.connection_timeout, waiting |-> f.timeout]

(* Mutant: the protocol is left to the port.                               *)
StringWithoutProto(f) ==
  << [key |-> "dsn", value |-> f.source], [key |-> "server", value |-> f.server],
     [key |-> "port", value |-> f.port],  [key |-> "uid", value |-> f.user] >>

(* connectionString: what SQLDriverConnect returns, nothing escaped.       *)
connectionString(f) ==
  << [key |-> "dsn", value |-> f.source],    [key |-> "database", value |-> f.database],
     [key |-> "proto", value |-> f.proto],   [key |-> "server", value |-> f.server],
     [key |-> "port", value |-> f.port],     [key |-> "uid", value |-> f.user] >>

(* nextKeyValuePair over written settings: a value ends at its first       *)
(* semicolon, and what is left of it makes the next key an unknown one (a  *)
(* rest with an = is not modelled: it would be a setting of its own).      *)
Torn(s) == s.key \in {"database", "proto", "server", "uid"} /\ Cut[s.value] # s.value
Reads(written, i) ==
  [key   |-> IF i > 1 /\ Torn(written[i - 1]) THEN "unknown" ELSE written[i].key,
   value |-> IF Torn(written[i]) THEN Cut[written[i].value] ELSE written[i].value]
nextKeyValuePair(written) == [i \in DOMAIN written |-> Reads(written, i)]

(* What the driver manager leaves of the driver's connection: a new one has*)
(* the attributes that the application set before it connected.            *)
Fresh(catalog) == [Connection EXCEPT !.database = catalog]
Kept(c, f) == IF FreshHandles THEN Fresh(catalogs[c].before) ELSE f

Through(c, string, f) ==
  /\ connected' = [connected EXCEPT ![c] = TRUE]
  /\ conn' = [conn EXCEPT ![c] = [f EXCEPT !.session = Session(f)]]
  /\ asked' = [asked EXCEPT ![c] = string]
  /\ ssl' = IF NeedsSsl(f) THEN SSLInit(f) ELSE ssl

Fails(c, f) ==
  /\ conn' = [conn EXCEPT ![c] = Kept(c, f)]
  /\ UNCHANGED <<asked, connected, ssl>>

(* SQLConnect and SQLDriverConnect: SQLConnect is a string of a data       *)
(* source and maybe a user.  SSLInit may throw (its files cannot be read), *)
(* which leaves the flag of call_once as it was.                           *)
Connect(c, string) ==
  /\ ~connected[c]
  /\ connects < MaxConnects
  /\ connects' = connects + 1
  /\ LET resolved == Resolve(conn[c], string)
         f        == resolved.fields
     IN  \/ resolved.ok /\ Through(c, string, f)
         \/ (resolved.ok => NeedsSsl(f) /\ ssl = "none") /\ Fails(c, f)
  /\ UNCHANGED <<ini, catalogs>>

(* SQLDisconnect closes the socket; session and fields stay.               *)
Disconnect(c) ==
  /\ connected[c]
  /\ connected' = [connected EXCEPT ![c] = FALSE]
  /\ conn' = [conn EXCEPT ![c] = Kept(c, @)]
  /\ asked' = [asked EXCEPT ![c] = <<>>]
  /\ catalogs' = [catalogs EXCEPT ![c].after = NoText]
  /\ UNCHANGED <<ini, ssl, connects>>

(* SQLSetConnectAttr(SQL_ATTR_CONNECTION_TIMEOUT): the value is not used,  *)
(* the timeout becomes that for answers.                                   *)
TimeoutSet(f) ==
  IF f.session = NoSession THEN [f EXCEPT !.connection_timeout = f.timeout]
  ELSE [f EXCEPT !.connection_timeout = f.timeout,
                 !.session.connecting = f.timeout, !.session.waiting = f.timeout]

SetConnectionTimeout(c) ==
  /\ conn' = [conn EXCEPT ![c] = TimeoutSet(@)]
  /\ UNCHANGED <<ini, asked, catalogs, connected, ssl, connects>>

(* SQLSetConnectAttr(SQL_ATTR_CURRENT_CATALOG), before or after connecting.*)
SetCurrentCatalog(c, catalog) ==
  /\ conn' = [conn EXCEPT ![c].database = catalog]
  /\ catalogs' = IF connected[c] THEN [catalogs EXCEPT ![c].after = catalog]
                 ELSE [catalogs EXCEPT ![c].before = catalog]
  /\ UNCHANGED <<ini, asked, connected, ssl, connects>>

Next ==
  \/ \E c \in Conns, string \in Strings : Connect(c, string)
  \/ \E c \in Conns : Disconnect(c)
  \/ \E c \in Conns : SetConnectionTimeout(c)
  \/ \E c \in Conns, catalog \in Catalogs : SetCurrentCatalog(c, catalog)

Spec == Init /\ [][Next]_vars

-----------------------------------------------------------------------------
(* Reference: the settings by their rank, which no document has: string,   *)
(* attribute, data source, URL, defaults.  (README.md and odbc.ini name    *)
(* other defaults and other keys of a data source than the code reads.)    *)
Places(string, keys) == {i \in DOMAIN string : string[i].key \in keys}
Last(string, keys) ==
  CHOOSE i \in Places(string, keys) \cup {0} : \A j \in Places(string, keys) : j <= i

Setting(string, key, none) ==
  LET i == Last(string, {key}) IN IF i = 0 THEN none ELSE string[i].value

(* The last of PROTO and SSLMODE.                                          *)
Said(string, none) ==
  LET i == Last(string, {"proto", "sslmode"})
  IN  IF i = 0 THEN none ELSE IF string[i].key = "sslmode" THEN "https" ELSE string[i].value

SectionAsked(config, string) == config[Or(Setting(string, "dsn", NoText), "ATSD")]

Wanted(config, string) ==
  LET section == SectionAsked(config, string)
      url     == IF Setting(string, "url", NoUrl) # NoUrl
                 THEN Setting(string, "url", NoUrl) ELSE section.url
      given   == OrNumber(Setting(string, "port", 0), section.port)
      timeout == OrNumber(Setting(string, "timeout", 0), OrNumber(section.timeout, 30))
      said    == Said(string, NoText)
      secure  == section.sslmode # NoText \/ given = 8443
      chosen  == Or(said, IF secure THEN "https" ELSE url.scheme)
      named   == OrNumber(given, IF url # NoUrl THEN PortOf(url, chosen) ELSE 0)
      proto   == Or(chosen, IF named \in {443, 8443} THEN "https" ELSE "http")
      server  == Or(Setting(string, "server", NoText),
                    Or(section.server, Or(url.host, "localhost")))
      port    == OrNumber(named, IF proto = "https" THEN 8443 ELSE 8088)
  IN  [session |-> [proto |-> proto, server |-> server, port |-> port,
                    connecting |-> timeout, waiting |-> timeout],
       path    |-> Or(url.path, "/odbc")]

(* The port that is asked for is one.                                      *)
PortsFit(config, string) ==
  LET port == Setting(string, "port", 0)
  IN  port \in Ports /\ (port = 0 => SectionAsked(config, string).port \in Ports)

(* A catalog set later, the string, a catalog set before, the data source. *)
WantedDatabase(config, string, set) ==
  Or(set.after, Or(Setting(string, "database", set.before),
                   Or(SectionAsked(config, string).database, "default")))

(* Types; a port is what fits a uint16_t, whatever the strings say.        *)
Sessions == [proto : Texts, server : Texts, port : Ports, connecting : Times, waiting : Times]
Checks == {"relaxed", "strict"}
Fields ==
  [source : DataSources \cup {NoText}, url : Url, proto : Texts, server : Texts,
   path : Texts, user : Texts, database : Texts, port : Ports, timeout : Times,
   connection_timeout : Times, check : Checks, session : Sessions]

TypeOK ==
  /\ ini \in IniFiles
  /\ conn \in [Conns -> Fields]
  /\ asked \in [Conns -> Strings \cup {<<>>}]
  /\ catalogs \in [Conns -> [before : Catalogs \cup {NoText}, after : Catalogs \cup {NoText}]]
  /\ connected \in [Conns -> BOOLEAN]
  /\ ssl \in {"none", "strict", "relaxed"}
  /\ connects \in 0..MaxConnects

(* The session goes where the connection string, the data source, its URL  *)
(* and the defaults say, in this order, and waits as long as they say,     *)
(* whatever failed before and however the settings of the string follow    *)
(* each other (Connection::init); a catalog set later wins, one set before *)
(* is behind the string, and SQL_ATTR_CONNECTION_TIMEOUT changes nothing.  *)
(* Numbers that are no ports come back modulo 2^16 and are left out.       *)
TargetIsAsked ==
  \A c \in Conns : connected[c] /\ PortsFit(ini, asked[c]) =>
    LET wanted == Wanted(ini, asked[c])
    IN  /\ conn[c].session = wanted.session
        /\ conn[c].path = wanted.path
        /\ conn[c].database = WantedDatabase(ini, asked[c], catalogs[c])

(* A connection the driver manager takes for connected has a session, which*)
(* SQLDisconnect and the statements use without looking, and SSL has been  *)
(* set up before the first https session.                                  *)
ConnectedHasSession ==
  \A c \in Conns :
    /\ connected[c] => conn[c].session # NoSession
    /\ conn[c].session.proto = "https" => ssl # "none"

(* The returned string says all that is needed: it has neither timeout nor *)
(* URL, so that those of the data source must be good, and nothing in it   *)
(* is escaped, so that no text may have a semicolon.                       *)
SaysAll(config, f) ==
  /\ config[f.source].timeout # BadNumber /\ config[f.source].url # BadUrl
  /\ \A text \in {f.proto, f.server, f.database, f.user} : Cut[text] = text

(* Connecting anew with the string that SQLDriverConnect returned leads to *)
(* the same server, by the same protocol, to the same catalog and for the  *)
(* same user if there was one, if the string says all that is needed.      *)
CompletedStringReconnects ==
  \A c \in Conns : connected[c] /\ SaysAll(ini, conn[c]) =>
    LET again == Resolve(Connection, nextKeyValuePair(connectionString(conn[c])))
    IN  /\ again.ok
        /\ Target(again.fields) = Target(conn[c].session)
        /\ again.fields.database = conn[c].database
        /\ again.fields.user = Or(conn[c].user, again.fields.user)

(* odbc.ini: "require - check certificates (and fail connection if         *)
(* something wrong)".                                                      *)
RequiredIsChecked ==
  \A c \in Conns :
    connected[c] /\ conn[c].session.proto = "https" /\ conn[c].check = "strict"
      => ssl = "strict"
=============================================================================
