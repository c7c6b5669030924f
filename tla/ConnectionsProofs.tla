------------------------- MODULE ConnectionsProofs -------------------------
(***************************************************************************)
(* Proofs about Connections, for connection strings of any length and any  *)
(* configuration.  What a string says is found by induction along its      *)
(* settings, for which the library's theorem about minimal elements        *)
(* (WFMin) stands in.                                                      *)
(***************************************************************************)
EXTENDS Connections, FiniteSets, FiniteSetTheorems, WellFoundedInduction, TLAPS

-----------------------------------------------------------------------------
(* A set of numbers that is not empty has a least one.                     *)
LEMMA LeastNumber ==
  ASSUME NEW T \in SUBSET Nat, T # {}
  PROVE  \E n \in T : \A m \in T : n <= m
<1> DEFINE U == {1..n : n \in T}
<1>1. U \subseteq FiniteSubsetsOf(Nat) /\ U # {}
  <2>1. \A n \in T : 1..n \in FiniteSubsetsOf(Nat)
    BY FS_Interval DEF FiniteSubsetsOf
  <2> QED
    BY <2>1
<1>2. IsWellFoundedOn(StrictSubsetOrdering(Nat), FiniteSubsetsOf(Nat))
  BY FS_StrictSubsetOrderingWellFounded
<1>3. PICK X \in U : \A Y \in U : ~ (<<Y, X>> \in StrictSubsetOrdering(Nat))
  <2> HIDE DEF U
  <2> QED
    BY <1>1, <1>2, WFMin
<1>4. PICK n \in T : X = 1..n
  OBVIOUS
<1>5. ASSUME NEW m \in T, m < n PROVE FALSE
  <2>1. 1..m \in U
    BY DEF U
  <2>2. 1..m \in SUBSET Nat /\ 1..n \in SUBSET Nat
    OBVIOUS
  <2>3. 1..m \subseteq 1..n /\ 1..m # 1..n
    <3>1. n \in 1..n /\ n \notin 1..m
      BY <1>5
    <3> QED
      BY <3>1, <1>5
  <2>4. <<1..m, 1..n>> \in StrictSubsetOrdering(Nat)
    BY <2>2, <2>3 DEF StrictSubsetOrdering
  <2> QED
    BY <2>4, <2>1, <1>3, <1>4
<1> QED
  BY <1>5

(* A set of numbers up to a bound has a greatest one.                      *)
LEMMA GreatestNumber ==
  ASSUME NEW bound \in Nat, NEW T \in SUBSET (0..bound), T # {}
  PROVE  \E n \in T : \A m \in T : m <= n
<1> DEFINE U == {bound - n : n \in T}
<1>1. U \in SUBSET Nat /\ U # {}
  <2>1. \A n \in T : bound - n \in Nat
    OBVIOUS
  <2> QED
    BY <2>1
<1>2. PICK u \in U : \A v \in U : u <= v
  <2> HIDE DEF U
  <2> QED
    BY <1>1, LeastNumber
<1>3. PICK n \in T : u = bound - n
  OBVIOUS
<1>4. ASSUME NEW m \in T PROVE m <= n
  <2>1. bound - m \in U
    OBVIOUS
  <2>2. u <= bound - m
    <3> HIDE DEF U
    <3> QED
      BY <2>1, <1>2
  <2>3. m \in Nat /\ n \in Nat
    OBVIOUS
  <2> QED
    BY <2>2, <2>3, <1>3
<1> QED
  BY <1>4

(* Parsed is what its recursive definition says.                           *)
LEMMA ParsedRecursion ==
  ASSUME NEW f, NEW string, Len(string) \in Nat
  PROVE  Parsed(f, string) = [i \in 0..Len(string) |->
            IF i = 0 THEN f ELSE Applied(Parsed(f, string)[i - 1], string, i)]
<1> DEFINE IsIt(g, k) == g = [i \in 0..k |-> IF i = 0 THEN f ELSE Applied(g[i - 1], string, i)]
           T == {k \in Nat : ~ \E g : IsIt(g, k)}
<1>1. T = {}
  <2> SUFFICES ASSUME T # {} PROVE FALSE
    OBVIOUS
  <2>1. PICK k \in T : \A m \in T : k <= m
    <3> HIDE DEF T
    <3>1. T \in SUBSET Nat
      BY DEF T
    <3> QED
      BY <3>1, LeastNumber
  <2>2. k \in Nat /\ ~ \E g : IsIt(g, k)
    OBVIOUS
  <2>3. CASE k = 0
    <3>1. IsIt([i \in 0..0 |-> f], 0)
      OBVIOUS
    <3> QED
      BY <3>1, <2>2, <2>3
  <2>4. CASE k # 0
    <3>1. k - 1 \in Nat /\ k - 1 \notin T
      <4> HIDE DEF T
      <4>1. k - 1 \in Nat /\ ~(k <= k - 1)
        BY <2>2, <2>4
      <4> QED
        BY <4>1, <2>1
    <3>2. \E g : IsIt(g, k - 1)
      <4> HIDE DEF IsIt
      <4> QED
        BY <3>1
    <3>3. PICK g : IsIt(g, k - 1)
      BY <3>2
    <3> DEFINE h == [i \in 0..k |-> IF i = k THEN Applied(g[k - 1], string, k) ELSE g[i]]
    <3>4. \A i \in 0..(k - 1) : g[i] = IF i = 0 THEN f ELSE Applied(g[i - 1], string, i)
      BY <3>3
    <3>5. \A i \in 0..(k - 1) : h[i] = g[i]
      BY <2>2
    <3>6. h[k] = Applied(g[k - 1], string, k)
      BY <2>2
    <3>7. \A i \in 0..k : h[i] = IF i = 0 THEN f ELSE Applied(h[i - 1], string, i)
      <4> HIDE DEF h
      <4> TAKE i \in 0..k
      <4>1. CASE i = k
        BY <4>1, <3>5, <3>6, <3>1, <2>4
      <4>2. CASE i # k /\ i = 0
        BY <4>2, <3>4, <3>5, <2>2
      <4>3. CASE i # k /\ i # 0
        <5>1. i \in 0..(k - 1) /\ i - 1 \in 0..(k - 1)
          BY <4>3, <2>2
        <5> QED
          BY <4>3, <5>1, <3>4, <3>5
      <4> QED
        BY <4>1, <4>2, <4>3
    <3>8. IsIt(h, k)
      BY <3>7
    <3> QED
      BY <3>8, <2>2
  <2> QED
    BY <2>3, <2>4
<1>2. PICK g : IsIt(g, Len(string))
  BY <1>1
<1> QED
  BY <1>2 DEF Parsed

(* A value that no step of a stretch changes.                              *)
LEMMA StretchIsConstant ==
  ASSUME NEW g, NEW k \in Nat, NEW n \in Nat, k <= n,
         \A j \in (k + 1)..n : g[j] = g[j - 1]
  PROVE  g[n] = g[k]
<1> DEFINE T == {j \in k..n : g[j] # g[k]}
<1> SUFFICES ASSUME T # {} PROVE FALSE
  BY n \in k..n
<1>1. PICK j \in T : \A m \in T : j <= m
  <2> HIDE DEF T
  <2>1. T \in SUBSET Nat
    BY DEF T
  <2> QED
    BY <2>1, LeastNumber
<1>2. j \in k..n /\ g[j] # g[k]
  OBVIOUS
<1>3. j \in (k + 1)..n /\ j - 1 \in k..n /\ ~(j <= j - 1)
  BY <1>2
<1>4. j - 1 \notin T
  <2> HIDE DEF T
  <2> QED
    BY <1>1, <1>3
<1>5. g[j - 1] = g[k]
  BY <1>3, <1>4
<1> QED
  BY <1>2, <1>3, <1>5

-----------------------------------------------------------------------------
(* The texts that defaults are made of.                                    *)
LEMMA KnownTexts ==
  /\ NoText \in Texts /\ "http" \in Texts /\ "https" \in Texts
  /\ "localhost" \in Texts /\ "default" \in Texts /\ "/odbc" \in Texts
BY ConnectionsAssumption DEF ConnectionsAssumption

(* Ports of 16 bits.                                                       *)
LEMMA UInt16Facts ==
  /\ \A n \in Times : UInt16(n) \in Ports
  /\ \A n \in Ports : UInt16(n) = n
  /\ 0 \in Ports
<1>1. PortLimit \in Nat /\ PortLimit > 0
  BY DEF PortLimit
<1>2. ASSUME NEW n \in Nat PROVE n % PortLimit \in 0..(PortLimit - 1)
  BY <1>1
<1>3. ASSUME NEW n \in 0..(PortLimit - 1) PROVE n % PortLimit = n
  BY <1>1
<1> QED
  BY <1>1, <1>2, <1>3 DEF UInt16, Ports, Times

(* What a setting does to the fields.                                      *)
Effect(f, s, g) ==
  /\ g \in Fields
  /\ g.path = f.path /\ g.session = f.session
  /\ g.source = IF s.key = "dsn" THEN s.value ELSE f.source
  /\ g.url = IF s.key = "url" THEN s.value ELSE f.url
  /\ g.server = IF s.key = "server" THEN s.value ELSE f.server
  /\ g.user = IF s.key = "uid" THEN s.value ELSE f.user
  /\ g.database = IF s.key = "database" THEN s.value ELSE f.database
  /\ g.port = IF s.key = "port" THEN UInt16(s.value) ELSE f.port
  /\ g.timeout = IF s.key = "timeout" THEN s.value ELSE f.timeout
  /\ g.connection_timeout = IF s.key = "timeout" THEN s.value ELSE f.connection_timeout
  /\ g.proto = IF s.key = "proto" THEN s.value
               ELSE IF s.key = "sslmode" THEN "https" ELSE f.proto

(* DSN: the name of the data source.                                       *)
LEMMA SourceSetting ==
  ASSUME NEW f \in Fields, NEW s, IsSetting(s), ~Throws(s), s.key = "dsn"
  PROVE  Effect(f, s, Apply(f, s))
<1> DEFINE g == Apply(f, s)
           v == s.value
<1>1. g = [f EXCEPT !.source = v]
  BY DEF Apply
<1>2. v \in DataSources \cup {NoText}
  BY DEF IsSetting
<1> HIDE DEF g, v
<1>3. g \in Fields
  BY <1>1, <1>2 DEF Fields
<1>4. g.source = v
  BY <1>1, <1>2 DEF Fields
<1>5. /\ g.url = f.url /\ g.proto = f.proto /\ g.server = f.server /\ g.path = f.path
      /\ g.user = f.user /\ g.database = f.database /\ g.port = f.port
      /\ g.timeout = f.timeout /\ g.connection_timeout = f.connection_timeout /\ g.session = f.session
  BY <1>1, <1>2 DEF Fields
<1> QED
  BY <1>3, <1>4, <1>5 DEF Effect, g, v

(* URL.                                                                    *)
LEMMA UrlSetting ==
  ASSUME NEW f \in Fields, NEW s, IsSetting(s), ~Throws(s), s.key = "url"
  PROVE  Effect(f, s, Apply(f, s))
<1> DEFINE g == Apply(f, s)
           v == s.value
<1>1. g = [f EXCEPT !.url = v]
  BY DEF Apply
<1>2. v \in Url
  BY DEF IsSetting
<1> HIDE DEF g, v
<1>3. g \in Fields
  BY <1>1, <1>2 DEF Fields
<1>4. g.url = v
  BY <1>1, <1>2 DEF Fields
<1>5. /\ g.source = f.source /\ g.proto = f.proto /\ g.server = f.server /\ g.path = f.path
      /\ g.user = f.user /\ g.database = f.database /\ g.port = f.port
      /\ g.timeout = f.timeout /\ g.connection_timeout = f.connection_timeout /\ g.session = f.session
  BY <1>1, <1>2 DEF Fields
<1> QED
  BY <1>3, <1>4, <1>5 DEF Effect, g, v

(* PROTO.                                                                  *)
LEMMA ProtoSetting ==
  ASSUME NEW f \in Fields, NEW s, IsSetting(s), ~Throws(s), s.key = "proto"
  PROVE  Effect(f, s, Apply(f, s))
<1> DEFINE g == Apply(f, s)
           v == s.value
<1>1. g = [f EXCEPT !.proto = v]
  BY DEF Apply
<1>2. v \in Texts
  BY DEF IsSetting
<1> HIDE DEF g, v
<1>3. g \in Fields
  BY <1>1, <1>2 DEF Fields
<1>4. g.proto = v
  BY <1>1, <1>2 DEF Fields
<1>5. /\ g.source = f.source /\ g.url = f.url /\ g.server = f.server /\ g.path = f.path
      /\ g.user = f.user /\ g.database = f.database /\ g.port = f.port
      /\ g.timeout = f.timeout /\ g.connection_timeout = f.connection_timeout /\ g.session = f.session
  BY <1>1, <1>2 DEF Fields
<1> QED
  BY <1>3, <1>4, <1>5 DEF Effect, g, v

(* SERVER.                                                                 *)
LEMMA ServerSetting ==
  ASSUME NEW f \in Fields, NEW s, IsSetting(s), ~Throws(s), s.key = "server"
  PROVE  Effect(f, s, Apply(f, s))
<1> DEFINE g == Apply(f, s)
           v == s.value
<1>1. g = [f EXCEPT !.server = v]
  BY DEF Apply
<1>2. v \in Texts
  BY DEF IsSetting
<1> HIDE DEF g, v
<1>3. g \in Fields
  BY <1>1, <1>2 DEF Fields
<1>4. g.server = v
  BY <1>1, <1>2 DEF Fields
<1>5. /\ g.source = f.source /\ g.url = f.url /\ g.proto = f.proto /\ g.path = f.path
      /\ g.user = f.user /\ g.database = f.database /\ g.port = f.port
      /\ g.timeout = f.timeout /\ g.connection_timeout = f.connection_timeout /\ g.session = f.session
  BY <1>1, <1>2 DEF Fields
<1> QED
  BY <1>3, <1>4, <1>5 DEF Effect, g, v

(* UID.                                                                    *)
LEMMA UserSetting ==
  ASSUME NEW f \in Fields, NEW s, IsSetting(s), ~Throws(s), s.key = "uid"
  PROVE  Effect(f, s, Apply(f, s))
<1> DEFINE g == Apply(f, s)
           v == s.value
<1>1. g = [f EXCEPT !.user = v]
  BY DEF Apply
<1>2. v \in Texts
  BY DEF IsSetting
<1> HIDE DEF g, v
<1>3. g \in Fields
  BY <1>1, <1>2 DEF Fields
<1>4. g.user = v
  BY <1>1, <1>2 DEF Fields
<1>5. /\ g.source = f.source /\ g.url = f.url /\ g.proto = f.proto /\ g.server = f.server
      /\ g.path = f.path /\ g.database = f.database /\ g.port = f.port
      /\ g.timeout = f.timeout /\ g.connection_timeout = f.connection_timeout /\ g.session = f.session
  BY <1>1, <1>2 DEF Fields
<1> QED
  BY <1>3, <1>4, <1>5 DEF Effect, g, v

(* DATABASE.                                                               *)
LEMMA DatabaseSetting ==
  ASSUME NEW f \in Fields, NEW s, IsSetting(s), ~Throws(s), s.key = "database"
  PROVE  Effect(f, s, Apply(f, s))
<1> DEFINE g == Apply(f, s)
           v == s.value
<1>1. g = [f EXCEPT !.database = v]
  BY DEF Apply
<1>2. v \in Texts
  BY DEF IsSetting
<1> HIDE DEF g, v
<1>3. g \in Fields
  BY <1>1, <1>2 DEF Fields
<1>4. g.database = v
  BY <1>1, <1>2 DEF Fields
<1>5. /\ g.source = f.source /\ g.url = f.url /\ g.proto = f.proto /\ g.server = f.server
      /\ g.path = f.path /\ g.user = f.user /\ g.port = f.port
      /\ g.timeout = f.timeout /\ g.connection_timeout = f.connection_timeout /\ g.session = f.session
  BY <1>1, <1>2 DEF Fields
<1> QED
  BY <1>3, <1>4, <1>5 DEF Effect, g, v

(* PORT, wrapped at 16 bits.                                               *)
LEMMA PortSetting ==
  ASSUME NEW f \in Fields, NEW s, IsSetting(s), ~Throws(s), s.key = "port"
  PROVE  Effect(f, s, Apply(f, s))
<1> DEFINE g == Apply(f, s)
           v == UInt16(s.value)
<1>1. g = [f EXCEPT !.port = v]
  BY DEF Apply
<1>2. v \in Ports
  BY UInt16Facts DEF IsSetting, Throws, Numbers
<1> HIDE DEF g, v
<1>3. g \in Fields
  BY <1>1, <1>2 DEF Fields
<1>4. g.port = v
  BY <1>1, <1>2 DEF Fields
<1>5. /\ g.source = f.source /\ g.url = f.url /\ g.proto = f.proto /\ g.server = f.server
      /\ g.path = f.path /\ g.user = f.user /\ g.database = f.database
      /\ g.timeout = f.timeout /\ g.connection_timeout = f.connection_timeout /\ g.session = f.session
  BY <1>1, <1>2 DEF Fields
<1> QED
  BY <1>3, <1>4, <1>5 DEF Effect, g, v

(* TIMEOUT: both timeouts.                                                 *)
LEMMA TimeoutSetting ==
  ASSUME NEW f \in Fields, NEW s, IsSetting(s), ~Throws(s), s.key = "timeout"
  PROVE  Effect(f, s, Apply(f, s))
<1> DEFINE g == Apply(f, s)
           v == s.value
           w == s.value
<1>1. g = [f EXCEPT !.timeout = v, !.connection_timeout = w]
  BY DEF Apply
<1>2. v \in Times
  BY DEF IsSetting, Throws, Numbers
<1>3. w \in Times
  BY DEF IsSetting, Throws, Numbers
<1> HIDE DEF g, v, w
<1>4. g \in Fields
  BY <1>1, <1>2, <1>3 DEF Fields
<1>5. g.timeout = v /\ g.connection_timeout = w
  BY <1>1, <1>2, <1>3 DEF Fields
<1>6. /\ g.source = f.source /\ g.url = f.url /\ g.proto = f.proto /\ g.server = f.server
      /\ g.path = f.path /\ g.user = f.user /\ g.database = f.database
      /\ g.port = f.port /\ g.session = f.session
  BY <1>1, <1>2, <1>3 DEF Fields
<1> QED
  BY <1>4, <1>5, <1>6 DEF Effect, g, v, w

(* SSLMODE: https, and whether certificates are checked.                   *)
LEMMA SslSetting ==
  ASSUME NEW f \in Fields, NEW s, IsSetting(s), ~Throws(s), s.key = "sslmode"
  PROVE  Effect(f, s, Apply(f, s))
<1> DEFINE g == Apply(f, s)
           v == "https"
           w == IF s.value = "require" THEN "strict" ELSE f.check
<1>1. g = [f EXCEPT !.proto = v, !.check = w]
  BY DEF Apply
<1>2. v \in Texts
  BY KnownTexts
<1>3. w \in Checks
  BY DEF Checks, Fields
<1> HIDE DEF g, v, w
<1>4. g \in Fields
  BY <1>1, <1>2, <1>3 DEF Fields
<1>5. g.proto = v /\ g.check = w
  BY <1>1, <1>2, <1>3 DEF Fields
<1>6. /\ g.source = f.source /\ g.url = f.url /\ g.server = f.server /\ g.path = f.path
      /\ g.user = f.user /\ g.database = f.database /\ g.port = f.port
      /\ g.timeout = f.timeout /\ g.connection_timeout = f.connection_timeout /\ g.session = f.session
  BY <1>1, <1>2, <1>3 DEF Fields
<1> QED
  BY <1>4, <1>5, <1>6 DEF Effect, g, v, w

(* A key that is not known.                                                *)
LEMMA UnknownSetting ==
  ASSUME NEW f \in Fields, NEW s, s.key = "unknown"
  PROVE  Effect(f, s, Apply(f, s))
<1>1. Apply(f, s) = f
  BY DEF Apply
<1> QED
  BY <1>1 DEF Effect

(* Every setting has its effect.                                           *)
LEMMA SettingEffect ==
  ASSUME NEW f \in Fields, NEW s, IsSetting(s), ~Throws(s)
  PROVE  Effect(f, s, Apply(f, s))
<1>1. \/ s.key = "dsn" \/ s.key = "url" \/ s.key = "proto" \/ s.key = "server"
      \/ s.key = "uid" \/ s.key = "database" \/ s.key = "port" \/ s.key = "timeout"
      \/ s.key = "sslmode" \/ s.key = "unknown"
  BY DEF IsSetting
<1> QED
  BY <1>1, SourceSetting, UrlSetting, ProtoSetting, ServerSetting, UserSetting,
     DatabaseSetting, PortSetting, TimeoutSetting, SslSetting, UnknownSetting

-----------------------------------------------------------------------------
(* Connection strings, and those whose settings all can be read.           *)
IsString(string) ==
  /\ Len(string) \in Nat /\ DOMAIN string = 1..Len(string)
  /\ \A i \in DOMAIN string : IsSetting(string[i])
CanBeRead(string) == IsString(string) /\ \A i \in DOMAIN string : ~Throws(string[i])

(* The first fields and those after each setting.                          *)
LEMMA ParsedSteps ==
  ASSUME NEW f, NEW string, IsString(string)
  PROVE  /\ Parsed(f, string)[0] = f
         /\ \A i \in 1..Len(string) :
              Parsed(f, string)[i] = Applied(Parsed(f, string)[i - 1], string, i)
<1> DEFINE p == Parsed(f, string)
<1>1. Len(string) \in Nat
  BY DEF IsString
<1>2. p = [i \in 0..Len(string) |-> IF i = 0 THEN f ELSE Applied(p[i - 1], string, i)]
  BY <1>1, ParsedRecursion
<1> HIDE DEF p
<1>3. p[0] = f
  BY <1>1, <1>2
<1>4. ASSUME NEW i \in 1..Len(string) PROVE p[i] = Applied(p[i - 1], string, i)
  BY <1>1, <1>2
<1> QED
  BY <1>3, <1>4 DEF p

(* Whatever throws, the fields keep their types.                           *)
LEMMA ParsedTypes ==
  ASSUME NEW f \in Fields, NEW string, IsString(string)
  PROVE  \A i \in 0..Len(string) : Parsed(f, string)[i] \in Fields
<1> DEFINE p == Parsed(f, string)
           T == {i \in 0..Len(string) : p[i] \notin Fields}
<1>1. /\ p[0] = f
      /\ \A i \in 1..Len(string) : p[i] = Applied(p[i - 1], string, i)
  BY ParsedSteps
<1> HIDE DEF p
<1> SUFFICES ASSUME T # {} PROVE FALSE
  BY DEF p
<1>2. PICK i \in T : \A j \in T : i <= j
  <2> HIDE DEF T
  <2>1. T \in SUBSET Nat
    BY DEF T
  <2> QED
    BY <2>1, LeastNumber
<1>3. i \in 0..Len(string) /\ p[i] \notin Fields /\ Len(string) \in Nat
  BY DEF IsString
<1>4. i \in 1..Len(string) /\ i - 1 \in 0..Len(string) /\ ~(i <= i - 1)
  BY <1>1, <1>3
<1>5. p[i - 1] \in Fields
  <2>1. i - 1 \notin T
    <3> HIDE DEF T
    <3> QED
      BY <1>2, <1>4
  <2> QED
    BY <2>1, <1>4
<1>6. CASE \E j \in 1..i : Throws(string[j])
  BY <1>1, <1>3, <1>4, <1>5, <1>6 DEF Applied
<1>7. CASE ~ \E j \in 1..i : Throws(string[j])
  <2>1. ~Throws(string[i]) /\ IsSetting(string[i])
    BY <1>7, <1>4 DEF IsString
  <2>2. p[i] = Apply(p[i - 1], string[i])
    BY <1>1, <1>4, <1>7 DEF Applied
  <2>3. Effect(p[i - 1], string[i], p[i])
    BY <2>1, <2>2, <1>5, SettingEffect
  <2> QED
    BY <2>3, <1>3 DEF Effect
<1> QED
  BY <1>6, <1>7

(* What each setting of a string that can be read does.                    *)
LEMMA ParsedEffects ==
  ASSUME NEW f \in Fields, NEW string, CanBeRead(string)
  PROVE  \A i \in 1..Len(string) :
           Effect(Parsed(f, string)[i - 1], string[i], Parsed(f, string)[i])
<1> DEFINE p == Parsed(f, string)
<1>1. IsString(string) /\ Len(string) \in Nat
  BY DEF CanBeRead, IsString
<1>2. \A i \in 1..Len(string) : p[i] = Applied(p[i - 1], string, i)
  BY <1>1, ParsedSteps
<1>3. \A i \in 0..Len(string) : p[i] \in Fields
  BY <1>1, ParsedTypes
<1> HIDE DEF p
<1> SUFFICES ASSUME NEW i \in 1..Len(string) PROVE Effect(p[i - 1], string[i], p[i])
  BY DEF p
<1>4. i - 1 \in 0..Len(string) /\ \A j \in 1..i : j \in 1..Len(string)
  BY <1>1
<1>5. ~(\E j \in 1..i : Throws(string[j])) /\ IsSetting(string[i]) /\ ~Throws(string[i])
  BY <1>1, <1>4 DEF CanBeRead, IsString
<1>6. p[i] = Apply(p[i - 1], string[i])
  BY <1>2, <1>5 DEF Applied
<1> QED
  BY <1>3, <1>4, <1>5, <1>6, SettingEffect

(* The last setting with one of the keys.                                  *)
LEMMA LastFacts ==
  ASSUME NEW string, IsString(string), NEW keys
  PROVE  /\ Last(string, keys) \in 0..Len(string)
         /\ Last(string, keys) # 0 => string[Last(string, keys)].key \in keys
         /\ \A j \in (Last(string, keys) + 1)..Len(string) : string[j].key \notin keys
<1> DEFINE P == Places(string, keys)
           k == Last(string, keys)
<1>1. Len(string) \in Nat /\ DOMAIN string = 1..Len(string)
  BY DEF IsString
<1>2. P = {i \in 1..Len(string) : string[i].key \in keys}
  BY <1>1 DEF Places
<1>3. k = CHOOSE i \in P \cup {0} : \A j \in P : j <= i
  BY DEF Last
<1>4. P \cup {0} \in SUBSET (0..Len(string)) /\ P \cup {0} # {}
  BY <1>1, <1>2
<1> HIDE DEF P, k
<1>5. \E i \in P \cup {0} : \A j \in P \cup {0} : j <= i
  BY <1>1, <1>4, GreatestNumber
<1>6. k \in P \cup {0} /\ \A j \in P : j <= k
  BY <1>3, <1>5
<1>7. k \in 0..Len(string) /\ (k # 0 => string[k].key \in keys)
  BY <1>1, <1>2, <1>6
<1>8. ASSUME NEW j \in (k + 1)..Len(string), string[j].key \in keys PROVE FALSE
  <2>1. j \in P
    BY <1>1, <1>2, <1>7, <1>8
  <2>2. j <= k
    BY <2>1, <1>6
  <2> QED
    BY <2>2, <1>7
<1> QED
  BY <1>7, <1>8 DEF k

(* No setting changes the path or the session, whatever throws.            *)
LEMMA UntouchedFields ==
  ASSUME NEW f \in Fields, NEW string, IsString(string)
  PROVE  /\ Parsed(f, string)[Len(string)].path = f.path
         /\ Parsed(f, string)[Len(string)].session = f.session
<1> DEFINE p == Parsed(f, string)
           n == Len(string)
           g == [i \in 0..n |-> <<p[i].path, p[i].session>>]
<1>1. n \in Nat /\ n \in 0..n /\ 0 \in 0..n
  BY DEF IsString
<1>2. p[0] = f /\ \A i \in 1..n : p[i] = Applied(p[i - 1], string, i)
  BY ParsedSteps
<1>3. \A i \in 0..n : p[i] \in Fields
  BY ParsedTypes
<1> HIDE DEF p
<1>4. ASSUME NEW j \in 1..n PROVE g[j] = g[j - 1]
  <2>1. j \in 0..n /\ j - 1 \in 0..n /\ j \in 1..j
    BY <1>1
  <2>2. CASE \E m \in 1..j : Throws(string[m])
    BY <2>1, <2>2, <1>2 DEF Applied
  <2>3. CASE ~ \E m \in 1..j : Throws(string[m])
    <3>1. IsSetting(string[j]) /\ ~Throws(string[j])
      BY <2>1, <2>3 DEF IsString
    <3>2. Effect(p[j - 1], string[j], p[j])
      BY <2>1, <2>3, <3>1, <1>2, <1>3, SettingEffect DEF Applied
    <3> QED
      BY <3>2, <2>1 DEF Effect
  <2> QED
    BY <2>2, <2>3
<1>5. g[n] = g[0]
  <2> HIDE DEF g, n
  <2>1. \A j \in (0 + 1)..n : g[j] = g[j - 1]
    BY <1>4
  <2> QED
    BY <1>1, <2>1, StretchIsConstant
<1> QED
  BY <1>1, <1>2, <1>5 DEF p

(* The last setting of a kind is the one that counts.                      *)
LEMMA LastCounts ==
  ASSUME NEW string, IsString(string), NEW keys, NEW g,
         \A j \in 1..Len(string) : string[j].key \notin keys => g[j] = g[j - 1]
  PROVE  g[Len(string)] = g[Last(string, keys)]
<1> DEFINE k == Last(string, keys)
<1>1. Len(string) \in Nat
  BY DEF IsString
<1>2. k \in 0..Len(string) /\ \A j \in (k + 1)..Len(string) : string[j].key \notin keys
  BY LastFacts
<1> HIDE DEF k
<1>3. \A j \in (k + 1)..Len(string) : g[j] = g[j - 1]
  BY <1>1, <1>2
<1>4. k \in Nat /\ k <= Len(string)
  BY <1>1, <1>2
<1>5. g[Len(string)] = g[k]
  BY <1>1, <1>3, <1>4, StretchIsConstant
<1> QED
  BY <1>5 DEF k

(* The last DSN is the one that counts.                                    *)
LEMMA LastSource ==
  ASSUME NEW f \in Fields, NEW string, CanBeRead(string)
  PROVE  Parsed(f, string)[Len(string)].source =
           Setting(string, "dsn", f.source)
<1> DEFINE p == Parsed(f, string)
           k == Last(string, {"dsn"})
           g == [i \in 0..Len(string) |-> p[i].source]
<1>1. IsString(string) /\ Len(string) \in Nat
  BY DEF CanBeRead, IsString
<1>2. k \in 0..Len(string) /\ (k # 0 => string[k].key \in {"dsn"})
  BY <1>1, LastFacts
<1>3. p[0] = f
  BY <1>1, ParsedSteps
<1>4. \A i \in 1..Len(string) : Effect(p[i - 1], string[i], p[i])
  BY ParsedEffects
<1> HIDE DEF p
<1>5. \A j \in 1..Len(string) : string[j].key \notin {"dsn"} => g[j] = g[j - 1]
  BY <1>1, <1>4 DEF Effect
<1>6. g[Len(string)] = g[k]
  <2> HIDE DEF g
  <2> QED
    BY <1>1, <1>5, LastCounts
<1> HIDE DEF k
<1>7. p[Len(string)].source = p[k].source
  BY <1>1, <1>2, <1>6
<1>8. k # 0 => p[k].source = string[k].value
  BY <1>1, <1>2, <1>4 DEF Effect
<1> QED
  BY <1>3, <1>7, <1>8 DEF p, k, Setting

(* The last URL is the one that counts.                                    *)
LEMMA LastUrl ==
  ASSUME NEW f \in Fields, NEW string, CanBeRead(string)
  PROVE  Parsed(f, string)[Len(string)].url =
           Setting(string, "url", f.url)
<1> DEFINE p == Parsed(f, string)
           k == Last(string, {"url"})
           g == [i \in 0..Len(string) |-> p[i].url]
<1>1. IsString(string) /\ Len(string) \in Nat
  BY DEF CanBeRead, IsString
<1>2. k \in 0..Len(string) /\ (k # 0 => string[k].key \in {"url"})
  BY <1>1, LastFacts
<1>3. p[0] = f
  BY <1>1, ParsedSteps
<1>4. \A i \in 1..Len(string) : Effect(p[i - 1], string[i], p[i])
  BY ParsedEffects
<1> HIDE DEF p
<1>5. \A j \in 1..Len(string) : string[j].key \notin {"url"} => g[j] = g[j - 1]
  BY <1>1, <1>4 DEF Effect
<1>6. g[Len(string)] = g[k]
  <2> HIDE DEF g
  <2> QED
    BY <1>1, <1>5, LastCounts
<1> HIDE DEF k
<1>7. p[Len(string)].url = p[k].url
  BY <1>1, <1>2, <1>6
<1>8. k # 0 => p[k].url = string[k].value
  BY <1>1, <1>2, <1>4 DEF Effect
<1> QED
  BY <1>3, <1>7, <1>8 DEF p, k, Setting

(* The last SERVER is the one that counts.                                 *)
LEMMA LastServer ==
  ASSUME NEW f \in Fields, NEW string, CanBeRead(string)
  PROVE  Parsed(f, string)[Len(string)].server =
           Setting(string, "server", f.server)
<1> DEFINE p == Parsed(f, string)
           k == Last(string, {"server"})
           g == [i \in 0..Len(string) |-> p[i].server]
<1>1. IsString(string) /\ Len(string) \in Nat
  BY DEF CanBeRead, IsString
<1>2. k \in 0..Len(string) /\ (k # 0 => string[k].key \in {"server"})
  BY <1>1, LastFacts
<1>3. p[0] = f
  BY <1>1, ParsedSteps
<1>4. \A i \in 1..Len(string) : Effect(p[i - 1], string[i], p[i])
  BY ParsedEffects
<1> HIDE DEF p
<1>5. \A j \in 1..Len(string) : string[j].key \notin {"server"} => g[j] = g[j - 1]
  BY <1>1, <1>4 DEF Effect
<1>6. g[Len(string)] = g[k]
  <2> HIDE DEF g
  <2> QED
    BY <1>1, <1>5, LastCounts
<1> HIDE DEF k
<1>7. p[Len(string)].server = p[k].server
  BY <1>1, <1>2, <1>6
<1>8. k # 0 => p[k].server = string[k].value
  BY <1>1, <1>2, <1>4 DEF Effect
<1> QED
  BY <1>3, <1>7, <1>8 DEF p, k, Setting

(* The last UID is the one that counts.                                    *)
LEMMA LastUser ==
  ASSUME NEW f \in Fields, NEW string, CanBeRead(string)
  PROVE  Parsed(f, string)[Len(string)].user =
           Setting(string, "uid", f.user)
<1> DEFINE p == Parsed(f, string)
           k == Last(string, {"uid"})
           g == [i \in 0..Len(string) |-> p[i].user]
<1>1. IsString(string) /\ Len(string) \in Nat
  BY DEF CanBeRead, IsString
<1>2. k \in 0..Len(string) /\ (k # 0 => string[k].key \in {"uid"})
  BY <1>1, LastFacts
<1>3. p[0] = f
  BY <1>1, ParsedSteps
<1>4. \A i \in 1..Len(string) : Effect(p[i - 1], string[i], p[i])
  BY ParsedEffects
<1> HIDE DEF p
<1>5. \A j \in 1..Len(string) : string[j].key \notin {"uid"} => g[j] = g[j - 1]
  BY <1>1, <1>4 DEF Effect
<1>6. g[Len(string)] = g[k]
  <2> HIDE DEF g
  <2> QED
    BY <1>1, <1>5, LastCounts
<1> HIDE DEF k
<1>7. p[Len(string)].user = p[k].user
  BY <1>1, <1>2, <1>6
<1>8. k # 0 => p[k].user = string[k].value
  BY <1>1, <1>2, <1>4 DEF Effect
<1> QED
  BY <1>3, <1>7, <1>8 DEF p, k, Setting

(* The last DATABASE is the one that counts.                               *)
LEMMA LastDatabase ==
  ASSUME NEW f \in Fields, NEW string, CanBeRead(string)
  PROVE  Parsed(f, string)[Len(string)].database =
           Setting(string, "database", f.database)
<1> DEFINE p == Parsed(f, string)
           k == Last(string, {"database"})
           g == [i \in 0..Len(string) |-> p[i].database]
<1>1. IsString(string) /\ Len(string) \in Nat
  BY DEF CanBeRead, IsString
<1>2. k \in 0..Len(string) /\ (k # 0 => string[k].key \in {"database"})
  BY <1>1, LastFacts
<1>3. p[0] = f
  BY <1>1, ParsedSteps
<1>4. \A i \in 1..Len(string) : Effect(p[i - 1], string[i], p[i])
  BY ParsedEffects
<1> HIDE DEF p
<1>5. \A j \in 1..Len(string) : string[j].key \notin {"database"} => g[j] = g[j - 1]
  BY <1>1, <1>4 DEF Effect
<1>6. g[Len(string)] = g[k]
  <2> HIDE DEF g
  <2> QED
    BY <1>1, <1>5, LastCounts
<1> HIDE DEF k
<1>7. p[Len(string)].database = p[k].database
  BY <1>1, <1>2, <1>6
<1>8. k # 0 => p[k].database = string[k].value
  BY <1>1, <1>2, <1>4 DEF Effect
<1> QED
  BY <1>3, <1>7, <1>8 DEF p, k, Setting

(* The last TIMEOUT is the one that counts.                                *)
LEMMA LastTimeout ==
  ASSUME NEW f \in Fields, NEW string, CanBeRead(string)
  PROVE  Parsed(f, string)[Len(string)].timeout =
           Setting(string, "timeout", f.timeout)
<1> DEFINE p == Parsed(f, string)
           k == Last(string, {"timeout"})
           g == [i \in 0..Len(string) |-> p[i].timeout]
<1>1. IsString(string) /\ Len(string) \in Nat
  BY DEF CanBeRead, IsString
<1>2. k \in 0..Len(string) /\ (k # 0 => string[k].key \in {"timeout"})
  BY <1>1, LastFacts
<1>3. p[0] = f
  BY <1>1, ParsedSteps
<1>4. \A i \in 1..Len(string) : Effect(p[i - 1], string[i], p[i])
  BY ParsedEffects
<1> HIDE DEF p
<1>5. \A j \in 1..Len(string) : string[j].key \notin {"timeout"} => g[j] = g[j - 1]
  BY <1>1, <1>4 DEF Effect
<1>6. g[Len(string)] = g[k]
  <2> HIDE DEF g
  <2> QED
    BY <1>1, <1>5, LastCounts
<1> HIDE DEF k
<1>7. p[Len(string)].timeout = p[k].timeout
  BY <1>1, <1>2, <1>6
<1>8. k # 0 => p[k].timeout = string[k].value
  BY <1>1, <1>2, <1>4 DEF Effect
<1> QED
  BY <1>3, <1>7, <1>8 DEF p, k, Setting

(* The last TIMEOUT is the one that counts, for both timeouts.             *)
LEMMA LastConnectionTimeout ==
  ASSUME NEW f \in Fields, NEW string, CanBeRead(string)
  PROVE  Parsed(f, string)[Len(string)].connection_timeout =
           Setting(string, "timeout", f.connection_timeout)
<1> DEFINE p == Parsed(f, string)
           k == Last(string, {"timeout"})
           g == [i \in 0..Len(string) |-> p[i].connection_timeout]
<1>1. IsString(string) /\ Len(string) \in Nat
  BY DEF CanBeRead, IsString
<1>2. k \in 0..Len(string) /\ (k # 0 => string[k].key \in {"timeout"})
  BY <1>1, LastFacts
<1>3. p[0] = f
  BY <1>1, ParsedSteps
<1>4. \A i \in 1..Len(string) : Effect(p[i - 1], string[i], p[i])
  BY ParsedEffects
<1> HIDE DEF p
<1>5. \A j \in 1..Len(string) : string[j].key \notin {"timeout"} => g[j] = g[j - 1]
  BY <1>1, <1>4 DEF Effect
<1>6. g[Len(string)] = g[k]
  <2> HIDE DEF g
  <2> QED
    BY <1>1, <1>5, LastCounts
<1> HIDE DEF k
<1>7. p[Len(string)].connection_timeout = p[k].connection_timeout
  BY <1>1, <1>2, <1>6
<1>8. k # 0 => p[k].connection_timeout = string[k].value
  BY <1>1, <1>2, <1>4 DEF Effect
<1> QED
  BY <1>3, <1>7, <1>8 DEF p, k, Setting

(* The last PORT is the one that counts.                                   *)
LEMMA LastPort ==
  ASSUME NEW f \in Fields, NEW string, CanBeRead(string)
  PROVE  Parsed(f, string)[Len(string)].port =
           UInt16(Setting(string, "port", f.port))
<1> DEFINE p == Parsed(f, string)
           k == Last(string, {"port"})
           g == [i \in 0..Len(string) |-> p[i].port]
<1>1. IsString(string) /\ Len(string) \in Nat
  BY DEF CanBeRead, IsString
<1>2. k \in 0..Len(string) /\ (k # 0 => string[k].key \in {"port"})
  BY <1>1, LastFacts
<1>3. p[0] = f
  BY <1>1, ParsedSteps
<1>4. \A i \in 1..Len(string) : Effect(p[i - 1], string[i], p[i])
  BY ParsedEffects
<1> HIDE DEF p
<1>5. \A j \in 1..Len(string) : string[j].key \notin {"port"} => g[j] = g[j - 1]
  BY <1>1, <1>4 DEF Effect
<1>6. g[Len(string)] = g[k]
  <2> HIDE DEF g
  <2> QED
    BY <1>1, <1>5, LastCounts
<1> HIDE DEF k
<1>7. p[Len(string)].port = p[k].port
  BY <1>1, <1>2, <1>6
<1>8. k # 0 => p[k].port = UInt16(string[k].value)
  BY <1>1, <1>2, <1>4 DEF Effect
<1> QED
  BY <1>3, <1>7, <1>8, UInt16Facts DEF p, k, Setting, Fields

(* The last of PROTO and SSLMODE is the one that counts.                   *)
LEMMA LastProto ==
  ASSUME NEW f \in Fields, NEW string, CanBeRead(string)
  PROVE  Parsed(f, string)[Len(string)].proto =
           Said(string, f.proto)
<1> DEFINE p == Parsed(f, string)
           k == Last(string, {"proto", "sslmode"})
           g == [i \in 0..Len(string) |-> p[i].proto]
<1>1. IsString(string) /\ Len(string) \in Nat
  BY DEF CanBeRead, IsString
<1>2. k \in 0..Len(string) /\ (k # 0 => string[k].key \in {"proto", "sslmode"})
  BY <1>1, LastFacts
<1>3. p[0] = f
  BY <1>1, ParsedSteps
<1>4. \A i \in 1..Len(string) : Effect(p[i - 1], string[i], p[i])
  BY ParsedEffects
<1> HIDE DEF p
<1>5. \A j \in 1..Len(string) : string[j].key \notin {"proto", "sslmode"} => g[j] = g[j - 1]
  BY <1>1, <1>4 DEF Effect
<1>6. g[Len(string)] = g[k]
  <2> HIDE DEF g
  <2> QED
    BY <1>1, <1>5, LastCounts
<1> HIDE DEF k
<1>7. p[Len(string)].proto = p[k].proto
  BY <1>1, <1>2, <1>6
<1>8. k # 0 => p[k].proto = (IF string[k].key = "sslmode" THEN "https" ELSE string[k].value)
  BY <1>1, <1>2, <1>4 DEF Effect
<1> QED
  BY <1>3, <1>7, <1>8 DEF p, k, Said

-----------------------------------------------------------------------------
(* What the section of the data source adds.                               *)
SectionOf(f) == ini[Or(f.source, "ATSD")]
Loaded(f, s, g) ==
  /\ g.source = Or(f.source, "ATSD")
  /\ g.url = UrlOf(f, s)
  /\ g.server = Or(f.server, s.server)
  /\ g.user = Or(f.user, s.user)
  /\ g.database = Or(f.database, s.database)
  /\ g.path = f.path
  /\ g.port = OrNumber(f.port, UInt16(s.port))
  /\ g.timeout = OrNumber(f.timeout, s.timeout)
  /\ g.connection_timeout = IF f.timeout = 0 THEN s.timeout ELSE f.connection_timeout
  /\ g.proto = IF f.proto = NoText /\ (s.sslmode # NoText \/ g.port = 8443)
               THEN "https" ELSE f.proto

(* Every name of a data source has its section.                            *)
LEMMA SectionFacts ==
  ASSUME NEW f \in Fields, ini \in IniFiles
  PROVE  /\ Or(f.source, "ATSD") \in DataSources
         /\ SectionOf(f) \in Section
<1>1. f.source \in DataSources \cup {NoText}
  BY DEF Fields
<1>2. "ATSD" \in DataSources /\ ini \in [DataSources -> Section]
  BY ConnectionsAssumption DEF ConnectionsAssumption
<1>3. Or(f.source, "ATSD") \in DataSources
  BY <1>1, <1>2 DEF Or
<1> QED
  BY <1>2, <1>3 DEF SectionOf

(* Texts stay texts.                                                       *)
LEMMA OrTypes ==
  /\ \A a, b \in Texts : Or(a, b) \in Texts
  /\ \A a, b \in Times : OrNumber(a, b) \in Times
  /\ \A a, b \in Ports : OrNumber(a, b) \in Ports
BY DEF Or, OrNumber

(* A bad number is neither 0 nor a time.                                   *)
LEMMA NumberFacts ==
  ASSUME NEW n \in Numbers
  PROVE  n # BadNumber => n \in Times
BY DEF Numbers

(* loadConfiguration, whether it throws or not.                            *)
LEMMA Loading ==
  ASSUME NEW f \in Fields, ini \in IniFiles
  PROVE  /\ loadConfiguration(f).fields \in Fields
         /\ loadConfiguration(f).fields.session = f.session
         /\ loadConfiguration(f).ok \in BOOLEAN
         /\ loadConfiguration(f).ok <=>
              /\ ~(f.port = 0 /\ SectionOf(f).port = BadNumber)
              /\ ~(f.timeout = 0 /\ SectionOf(f).timeout = BadNumber)
         /\ loadConfiguration(f).ok => Loaded(f, SectionOf(f), loadConfiguration(f).fields)
<1> DEFINE s == SectionOf(f)
           source == Or(f.source, "ATSD")
           url == UrlOf(f, s)
           port == IF f.port = 0 THEN UInt16(s.port) ELSE f.port
           https == f.proto = NoText /\ (s.sslmode # NoText \/ port = 8443)
           server == Or(f.server, s.server)
           user == Or(f.user, s.user)
           database == Or(f.database, s.database)
           ported == [f EXCEPT !.source = source, !.url = url, !.port = port]
           timed == IF f.timeout # 0 THEN ported
                    ELSE [ported EXCEPT !.timeout = s.timeout, !.connection_timeout = s.timeout]
           badPort == f.port = 0 /\ s.port = BadNumber
           badTimeout == f.timeout = 0 /\ s.timeout = BadNumber
           none == 0
           unported == [ported EXCEPT !.port = none]
           final == [timed EXCEPT
                       !.server   = Or(@, s.server),
                       !.user     = Or(@, s.user),
                       !.database = Or(@, s.database),
                       !.proto    = IF https THEN "https" ELSE @,
                       !.check    = IF s.sslmode = "require" THEN "strict" ELSE @]
           r == loadConfiguration(f)
<1>1. r = CASE badPort -> [fields |-> unported, ok |-> FALSE]
            [] ~badPort /\ badTimeout -> [fields |-> ported, ok |-> FALSE]
            [] ~badPort /\ ~badTimeout -> [fields |-> final, ok |-> TRUE]
  BY DEF loadConfiguration, SectionOf
<1>2. s \in Section /\ source \in DataSources
  BY SectionFacts
<1>3. s.port \in Numbers /\ s.timeout \in Numbers /\ s.url \in Url
      /\ s.server \in Texts /\ s.user \in Texts /\ s.database \in Texts
  <2> HIDE DEF s
  <2> QED
    BY <1>2 DEF Section
<1>4. url \in Url /\ source \in DataSources \cup {NoText}
  <2> HIDE DEF s, source
  <2> QED
    BY <1>2, <1>3 DEF UrlOf, Fields
<1>5. ~badPort => port \in Ports
  <2> HIDE DEF s
  <2> QED
    BY <1>3, UInt16Facts, NumberFacts DEF Fields
<1>6. ~badTimeout => (f.timeout = 0 => s.timeout \in Times)
  <2> HIDE DEF s
  <2> QED
    BY <1>3, NumberFacts
<1>7. server \in Texts /\ user \in Texts /\ database \in Texts
  <2> HIDE DEF s
  <2> QED
    BY <1>3, OrTypes DEF Fields
<1>8. none \in Ports
  BY UInt16Facts
<1> HIDE DEF r
<1>9. CASE badPort
  <2>1. r.fields = unported /\ r.ok = FALSE
    <3> HIDE DEF unported, ported, final, badPort, badTimeout
    <3> QED
      BY <1>1, <1>9
  <2>2. unported = [f EXCEPT !.source = source, !.url = url, !.port = none]
    <3> HIDE DEF source, url, port, none
    <3> QED
      BY DEF Fields
  <2>3. unported \in Fields /\ unported.session = f.session
    <3> HIDE DEF source, url, none, unported
    <3> QED
      BY <2>2, <1>4, <1>8 DEF Fields
  <2> QED
    BY <2>1, <2>3, <1>9 DEF r
<1>10. CASE ~badPort
  <2> HIDE DEF source, url, port, none
  <2>1. ported \in Fields
    BY <1>4, <1>5, <1>10 DEF Fields
  <2>2. ported.source = source /\ ported.url = url /\ ported.port = port
    BY <1>4, <1>5, <1>10 DEF Fields
  <2>3. /\ ported.proto = f.proto /\ ported.server = f.server /\ ported.path = f.path
        /\ ported.user = f.user /\ ported.database = f.database /\ ported.timeout = f.timeout
        /\ ported.connection_timeout = f.connection_timeout
        /\ ported.check = f.check /\ ported.session = f.session
    BY <1>4, <1>5, <1>10 DEF Fields
  <2> HIDE DEF ported
  <2>4. CASE badTimeout
    <3>1. r.fields = ported /\ r.ok = FALSE
      <4> HIDE DEF unported, final, badPort, badTimeout
      <4> QED
        BY <1>1, <1>10, <2>4
    <3> QED
      BY <3>1, <2>1, <2>3, <2>4 DEF r
  <2>5. CASE ~badTimeout
    <3>1. r.fields = final /\ r.ok = TRUE
      <4> HIDE DEF unported, final, badPort, badTimeout
      <4> QED
        BY <1>1, <1>10, <2>5
    <3> DEFINE time == s.timeout
    <3>2. f.timeout = 0 => time \in Times
      BY <1>6, <2>5
    <3>3. /\ timed \in Fields
          /\ timed.timeout = OrNumber(f.timeout, time)
          /\ timed.connection_timeout = IF f.timeout = 0 THEN time ELSE f.connection_timeout
      <4> HIDE DEF time
      <4>1. CASE f.timeout # 0
        BY <4>1, <2>1, <2>3 DEF OrNumber
      <4>2. CASE f.timeout = 0
        <5>1. timed = [ported EXCEPT !.timeout = time, !.connection_timeout = time]
          BY <4>2 DEF time
        <5> HIDE DEF timed
        <5>2. timed \in Fields
          BY <5>1, <4>2, <3>2, <2>1 DEF Fields
        <5>3. timed.timeout = time /\ timed.connection_timeout = time
          BY <5>1, <4>2, <3>2, <2>1 DEF Fields
        <5> QED
          BY <5>2, <5>3, <4>2 DEF OrNumber
      <4> QED
        BY <4>1, <4>2
    <3>4. /\ timed.source = source /\ timed.url = url /\ timed.port = port
          /\ timed.proto = f.proto /\ timed.server = f.server /\ timed.path = f.path
          /\ timed.user = f.user /\ timed.database = f.database
          /\ timed.check = f.check /\ timed.session = f.session
      <4>1. CASE f.timeout # 0
        BY <4>1, <2>2, <2>3
      <4>2. CASE f.timeout = 0
        <5>1. timed = [ported EXCEPT !.timeout = time, !.connection_timeout = time]
          BY <4>2
        <5> HIDE DEF timed
        <5> QED
          BY <5>1, <2>1, <2>2, <2>3 DEF Fields
      <4> QED
        BY <4>1, <4>2
    <3> HIDE DEF timed
    <3> DEFINE proto == IF https THEN "https" ELSE f.proto
               check == IF s.sslmode = "require" THEN "strict" ELSE f.check
    <3>5. final = [timed EXCEPT !.server = server, !.user = user, !.database = database,
                                !.proto = proto, !.check = check]
      <4> HIDE DEF https, s
      <4> QED
        BY <3>3, <3>4 DEF Fields
    <3>6. proto \in Texts /\ check \in Checks
      <4> HIDE DEF https, s
      <4> QED
        BY KnownTexts DEF Fields, Checks
    <3> HIDE DEF final, proto, check, server, user, database
    <3>7. final \in Fields
      BY <3>3, <3>5, <3>6, <1>7 DEF Fields
    <3>8. /\ final.server = server /\ final.user = user /\ final.database = database
          /\ final.proto = proto
      BY <3>3, <3>5, <3>6, <1>7 DEF Fields
    <3>9. /\ final.source = timed.source /\ final.url = timed.url /\ final.port = timed.port
          /\ final.path = timed.path /\ final.timeout = timed.timeout
          /\ final.connection_timeout = timed.connection_timeout
          /\ final.session = timed.session
      BY <3>3, <3>5, <3>6, <1>7 DEF Fields
    <3>10. port = OrNumber(f.port, UInt16(s.port))
      BY DEF port, OrNumber
    <3>11. Loaded(f, s, final)
      <4>1. /\ final.source = Or(f.source, "ATSD") /\ final.url = UrlOf(f, s)
            /\ final.server = Or(f.server, s.server) /\ final.user = Or(f.user, s.user)
            /\ final.database = Or(f.database, s.database) /\ final.path = f.path
        BY <3>4, <3>8, <3>9 DEF source, url, server, user, database
      <4>2. /\ final.port = OrNumber(f.port, UInt16(s.port))
            /\ final.timeout = OrNumber(f.timeout, s.timeout)
            /\ final.connection_timeout = IF f.timeout = 0 THEN s.timeout ELSE f.connection_timeout
        BY <3>3, <3>4, <3>9, <3>10
      <4>3. final.proto = IF f.proto = NoText /\ (s.sslmode # NoText \/ final.port = 8443)
                          THEN "https" ELSE f.proto
        BY <3>4, <3>8, <3>9 DEF proto
      <4> HIDE DEF s
      <4> QED
        BY <4>1, <4>2, <4>3 DEF Loaded
    <3> QED
      BY <3>1, <3>4, <3>7, <3>9, <3>11, <2>5, <1>10 DEF r
  <2> QED
    BY <2>4, <2>5
<1> QED
  BY <1>9, <1>10

(* What the URL adds; without one nothing.                                 *)
Located(f, g) ==
  /\ g.source = f.source /\ g.database = f.database /\ g.session = f.session
  /\ g.timeout = f.timeout /\ g.connection_timeout = f.connection_timeout
  /\ g.proto = Or(f.proto, f.url.scheme)
  /\ g.server = Or(f.server, f.url.host)
  /\ g.path = Or(f.path, f.url.path)
  /\ g.user = Or(f.user, f.url.user)
  /\ g.port = OrNumber(f.port, IF f.url = NoUrl THEN 0 ELSE PortOf(f.url, g.proto))

(* Ports that are known.                                                   *)
LEMMA KnownPorts ==
  80 \in Ports /\ 443 \in Ports /\ 8443 \in Ports /\ 8088 \in Ports
BY DEF Ports, PortLimit

(* setDefaults, the part of the URL.                                       *)
LEMMA Locating ==
  ASSUME NEW f \in Fields, f.url # BadUrl
  PROVE  FromUrl(f) \in Fields /\ Located(f, FromUrl(f))
<1> DEFINE u == f.url
           proto == Or(f.proto, u.scheme)
           server == Or(f.server, u.host)
           port == OrNumber(f.port, PortOf(u, proto))
           path == Or(f.path, u.path)
           user == Or(f.user, u.user)
           g == FromUrl(f)
<1>1. u \in GoodUrl
  BY DEF Fields, Url
<1>2. u.scheme \in Texts /\ u.host \in Texts /\ u.path \in Texts /\ u.user \in Texts /\ u.port \in Ports
  <2> HIDE DEF u
  <2> QED
    BY <1>1, KnownTexts DEF GoodUrl
<1>3. proto \in Texts /\ server \in Texts /\ path \in Texts /\ user \in Texts
  <2> HIDE DEF u
  <2> QED
    BY <1>2, OrTypes DEF Fields
<1>4. port \in Ports
  <2> HIDE DEF u, proto
  <2>1. PortOf(u, proto) \in Ports
    BY <1>2, KnownPorts DEF PortOf
  <2>2. f.port \in Ports
    BY DEF Fields
  <2> QED
    BY <2>1, <2>2, OrTypes
<1>5. CASE u = NoUrl
  <2>1. g = f
    BY <1>5 DEF FromUrl
  <2> HIDE DEF g
  <2>2. /\ u.scheme = NoText /\ u.host = NoText /\ u.path = NoText /\ u.user = NoText
    <3> HIDE DEF u
    <3> QED
      BY <1>5 DEF NoUrl
  <2>3. \A a : Or(a, NoText) = a
    BY DEF Or
  <2>4. \A a : OrNumber(a, 0) = a
    BY DEF OrNumber
  <2> QED
    BY <2>1, <2>2, <2>3, <2>4, <1>5 DEF Located, g
<1>6. CASE u # NoUrl
  <2>1. g = [f EXCEPT !.proto  = proto,
                      !.server = Or(@, f.url.host),
                      !.port   = OrNumber(@, PortOf(f.url, proto)),
                      !.path   = Or(@, f.url.path),
                      !.user   = Or(@, f.url.user)]
    BY <1>6 DEF FromUrl
  <2> HIDE DEF g
  <2>2. g = [f EXCEPT !.proto = proto, !.server = server, !.port = port,
                      !.path = path, !.user = user]
    <3> HIDE DEF proto
    <3> QED
      BY <2>1 DEF Fields
  <2> HIDE DEF proto, server, port, path, user
  <2>3. g \in Fields
    BY <2>2, <1>3, <1>4 DEF Fields
  <2>4. g.proto = proto /\ g.server = server /\ g.port = port /\ g.path = path /\ g.user = user
    BY <2>2, <1>3, <1>4 DEF Fields
  <2>5. /\ g.source = f.source /\ g.database = f.database /\ g.session = f.session
        /\ g.timeout = f.timeout /\ g.connection_timeout = f.connection_timeout
    BY <2>2, <1>3, <1>4 DEF Fields
  <2>6. Located(f, g)
    BY <2>4, <2>5, <1>6 DEF Located, proto, server, port, path, user
  <2> QED
    BY <2>3, <2>6 DEF g
<1> QED
  BY <1>5, <1>6

(* What the constants add.                                                 *)
Completed(f, g) ==
  /\ g.source = f.source /\ g.user = f.user /\ g.session = f.session
  /\ g.proto = Or(f.proto, IF f.port \in {443, 8443} THEN "https" ELSE "http")
  /\ g.server = Or(f.server, "localhost")
  /\ g.port = OrNumber(f.port, IF g.proto = "https" THEN 8443 ELSE 8088)
  /\ g.path = Or(f.path, "/odbc")
  /\ g.database = Or(f.database, "default")
  /\ g.timeout = OrNumber(f.timeout, 30)
  /\ g.connection_timeout = OrNumber(f.connection_timeout, g.timeout)

(* setDefaults, the constants.                                             *)
LEMMA Completing ==
  ASSUME NEW f \in Fields
  PROVE  Defaults(f) \in Fields /\ Completed(f, Defaults(f))
<1> DEFINE proto == Or(f.proto, IF f.port \in {443, 8443} THEN "https" ELSE "http")
           server == Or(f.server, "localhost")
           port == OrNumber(f.port, IF proto = "https" THEN 8443 ELSE 8088)
           path == Or(f.path, "/odbc")
           database == Or(f.database, "default")
           timeout == OrNumber(f.timeout, 30)
           connecting == OrNumber(f.connection_timeout, timeout)
           g == Defaults(f)
<1>1. proto \in Texts
  <2> DEFINE other == IF f.port \in {443, 8443} THEN "https" ELSE "http"
  <2>1. other \in Texts
    BY KnownTexts
  <2>2. proto = Or(f.proto, other)
    OBVIOUS
  <2> HIDE DEF other, proto
  <2> QED
    BY <2>1, <2>2, OrTypes DEF Fields
<1>2. server \in Texts /\ path \in Texts /\ database \in Texts
  BY KnownTexts, OrTypes DEF Fields
<1>3. port \in Ports
  <2> HIDE DEF proto
  <2>1. f.port \in Ports
    BY DEF Fields
  <2> QED
    BY <2>1, KnownPorts, OrTypes
<1>4. timeout \in Times /\ 30 \in Times
  BY OrTypes DEF Fields, Times
<1>5. connecting \in Times
  <2> HIDE DEF timeout
  <2> QED
    BY <1>4, OrTypes DEF Fields
<1>6. g = [f EXCEPT !.proto    = proto,
                    !.server   = Or(@, "localhost"),
                    !.port     = OrNumber(@, IF proto = "https" THEN 8443 ELSE 8088),
                    !.path     = Or(@, "/odbc"),
                    !.database = Or(@, "default"),
                    !.timeout  = timeout,
                    !.connection_timeout = OrNumber(@, timeout)]
  BY DEF Defaults
<1> HIDE DEF g
<1>7. g = [f EXCEPT !.proto = proto, !.server = server, !.port = port, !.path = path,
                    !.database = database, !.timeout = timeout,
                    !.connection_timeout = connecting]
  <2> HIDE DEF proto, timeout
  <2> QED
    BY <1>6 DEF Fields
<1> HIDE DEF proto, server, port, path, database, timeout, connecting
<1>8. g \in Fields
  BY <1>1, <1>2, <1>3, <1>4, <1>5, <1>7 DEF Fields
<1>9. /\ g.proto = proto /\ g.server = server /\ g.port = port /\ g.path = path
      /\ g.database = database /\ g.timeout = timeout /\ g.connection_timeout = connecting
  BY <1>1, <1>2, <1>3, <1>4, <1>5, <1>7 DEF Fields
<1>10. g.source = f.source /\ g.user = f.user /\ g.session = f.session
  BY <1>1, <1>2, <1>3, <1>4, <1>5, <1>7 DEF Fields
<1>11. Completed(f, g)
  BY <1>9, <1>10 DEF Completed, proto, server, port, path, database, timeout, connecting
<1> QED
  BY <1>8, <1>11 DEF g

-----------------------------------------------------------------------------
(* What a connection string that can be read leaves of the fields.         *)
Read(f, string, g) ==
  /\ g.source = Setting(string, "dsn", f.source)
  /\ g.url = Setting(string, "url", f.url)
  /\ g.server = Setting(string, "server", f.server)
  /\ g.user = Setting(string, "uid", f.user)
  /\ g.database = Setting(string, "database", f.database)
  /\ g.path = f.path
  /\ g.port = UInt16(Setting(string, "port", f.port))
  /\ g.timeout = Setting(string, "timeout", f.timeout)
  /\ g.connection_timeout = Setting(string, "timeout", f.connection_timeout)
  /\ g.proto = Said(string, f.proto)

(* The loop over the settings, whether one throws or not.                  *)
LEMMA Reading ==
  ASSUME NEW f \in Fields, NEW string, IsString(string)
  PROVE  /\ ParseString(f, string).fields \in Fields
         /\ ParseString(f, string).fields.session = f.session
         /\ ParseString(f, string).ok <=> CanBeRead(string)
         /\ ParseString(f, string).ok => Read(f, string, ParseString(f, string).fields)
<1> DEFINE p == Parsed(f, string)[Len(string)]
           r == ParseString(f, string)
<1>1. r.fields = p
  BY DEF ParseString
<1>2. r.ok <=> CanBeRead(string)
  BY DEF ParseString, CanBeRead
<1>3. p \in Fields
  <2>1. Len(string) \in 0..Len(string)
    BY DEF IsString
  <2> QED
    BY <2>1, ParsedTypes
<1>4. p.session = f.session /\ p.path = f.path
  BY UntouchedFields
<1>5. ASSUME CanBeRead(string) PROVE Read(f, string, p)
  <2>1. p.source = Setting(string, "dsn", f.source)
    BY <1>5, LastSource
  <2>2. p.url = Setting(string, "url", f.url)
    BY <1>5, LastUrl
  <2>3. p.server = Setting(string, "server", f.server)
    BY <1>5, LastServer
  <2>4. p.user = Setting(string, "uid", f.user)
    BY <1>5, LastUser
  <2>5. p.database = Setting(string, "database", f.database)
    BY <1>5, LastDatabase
  <2>6. p.port = UInt16(Setting(string, "port", f.port))
    BY <1>5, LastPort
  <2>7. p.timeout = Setting(string, "timeout", f.timeout)
    BY <1>5, LastTimeout
  <2>8. p.connection_timeout = Setting(string, "timeout", f.connection_timeout)
    BY <1>5, LastConnectionTimeout
  <2>9. p.proto = Said(string, f.proto)
    BY <1>5, LastProto
  <2> HIDE DEF p
  <2> QED
    BY <2>1, <2>2, <2>3, <2>4, <2>5, <2>6, <2>7, <2>8, <2>9, <1>4 DEF Read
<1> HIDE DEF p, r
<1> QED
  BY <1>1, <1>2, <1>3, <1>4, <1>5 DEF r

(* The fields that Connection::init goes through.                          *)
Stages(f, string, p, l, u, g) ==
  /\ p \in Fields /\ Read(f, string, p)
  /\ l \in Fields /\ Loaded(p, SectionOf(p), l) /\ l.url # BadUrl
  /\ u \in Fields /\ Located(l, u)
  /\ g \in Fields /\ Completed(u, g)

(* When a connect gets through, when it does not, and what it leaves.      *)
LEMMA Resolving ==
  ASSUME NEW f \in Fields, NEW string, IsString(string), ini \in IniFiles
  PROVE  /\ Resolve(f, string).fields \in Fields
         /\ Resolve(f, string).fields.session = f.session
         /\ Resolve(f, string).ok \in BOOLEAN
         /\ Resolve(f, string).ok =>
              /\ CanBeRead(string)
              /\ Resolve(f, string).fields.user # BadUser
         /\ CanBeRead(string) =>
              \E p \in Fields :
                /\ Read(f, string, p)
                /\ Resolve(f, string).ok =>
                     \E l, u : Stages(f, string, p, l, u, Resolve(f, string).fields)
                /\ ~(p.port = 0 /\ SectionOf(p).port = BadNumber)
                   /\ ~(p.timeout = 0 /\ SectionOf(p).timeout = BadNumber)
                   /\ UrlOf(p, SectionOf(p)) # BadUrl =>
                     \E l, u : /\ Stages(f, string, p, l, u, Resolve(f, string).fields)
                               /\ Resolve(f, string).ok <=>
                                    Resolve(f, string).fields.user # BadUser
<1> DEFINE parsed == ParseString(f, string)
           p == parsed.fields
           loaded == loadConfiguration(p)
           l == loaded.fields
           u == FromUrl(l)
           g == Defaults(u)
           r == Resolve(f, string)
<1>1. r = IF ~parsed.ok THEN parsed
          ELSE IF ~loaded.ok THEN loaded
          ELSE IF l.url = BadUrl THEN [fields |-> l, ok |-> FALSE]
          ELSE [fields |-> g, ok |-> g.user # BadUser]
  BY DEF Resolve
<1>2. /\ p \in Fields /\ p.session = f.session /\ (parsed.ok <=> CanBeRead(string))
      /\ parsed.ok => Read(f, string, p)
  BY Reading
<1>3. parsed.ok \in BOOLEAN
  BY DEF ParseString
<1> HIDE DEF parsed
<1>4. /\ l \in Fields /\ l.session = p.session
      /\ loaded.ok <=> /\ ~(p.port = 0 /\ SectionOf(p).port = BadNumber)
                       /\ ~(p.timeout = 0 /\ SectionOf(p).timeout = BadNumber)
      /\ loaded.ok => Loaded(p, SectionOf(p), l)
  <2> HIDE DEF p
  <2> QED
    BY <1>2, Loading
<1>5. loaded.ok \in BOOLEAN
  <2> HIDE DEF p
  <2> QED
    BY <1>2, Loading
<1> HIDE DEF loaded
<1>6. l.url # BadUrl => u \in Fields /\ Located(l, u)
  <2> HIDE DEF l
  <2> QED
    BY <1>4, Locating
<1>7. l.url # BadUrl => g \in Fields /\ Completed(u, g)
  <2> HIDE DEF u
  <2> QED
    BY <1>6, Completing
<1>8. l.url # BadUrl => g.session = f.session
  BY <1>2, <1>4, <1>6, <1>7 DEF Located, Completed
<1> HIDE DEF u, g, r
<1>9. CASE ~parsed.ok
  <2>1. r = parsed
    BY <1>1, <1>9
  <2> QED
    BY <2>1, <1>2, <1>3, <1>9 DEF r
<1>10. CASE parsed.ok /\ ~loaded.ok
  <2>1. r = loaded
    BY <1>1, <1>10
  <2> QED
    BY <2>1, <1>2, <1>4, <1>5, <1>10 DEF r
<1>11. CASE parsed.ok /\ loaded.ok /\ l.url = BadUrl
  <2>1. r = [fields |-> l, ok |-> FALSE]
    BY <1>1, <1>11
  <2>2. r.fields = l /\ r.ok = FALSE
    BY <2>1
  <2>3. UrlOf(p, SectionOf(p)) = BadUrl
    BY <1>4, <1>11 DEF Loaded
  <2> HIDE DEF p, l
  <2> QED
    BY <2>2, <2>3, <1>2, <1>4, <1>11 DEF r
<1>12. CASE parsed.ok /\ loaded.ok /\ l.url # BadUrl
  <2>1. r = [fields |-> g, ok |-> g.user # BadUser]
    BY <1>1, <1>12
  <2>2. r.fields = g /\ r.ok = (g.user # BadUser)
    BY <2>1
  <2>3. Stages(f, string, p, l, u, g)
    BY <1>2, <1>4, <1>6, <1>7, <1>12 DEF Stages
  <2>4. \E a, b : Stages(f, string, p, a, b, g)
    BY <2>3
  <2> HIDE DEF p, l
  <2> QED
    BY <2>2, <2>3, <2>4, <1>2, <1>7, <1>8, <1>12 DEF r
<1> QED
  BY <1>9, <1>10, <1>11, <1>12, <1>3, <1>5

-----------------------------------------------------------------------------
(* A connection that was just allocated.                                   *)
LEMMA FreshFields ==
  ASSUME NEW catalog \in Texts
  PROVE  /\ Fresh(catalog) \in Fields
         /\ Fresh(catalog).session = NoSession
         /\ Fresh(catalog).database = catalog
<1>1. NoText \in Texts \ {BadUser} /\ 0 \in Ports /\ 0 \in Times
  BY ConnectionsAssumption, UInt16Facts DEF ConnectionsAssumption, Times
<1>2. NoUrl \in Url
  BY <1>1 DEF NoUrl, GoodUrl, Url
<1>3. NoSession \in Sessions
  BY <1>1 DEF NoSession, Sessions
<1>4. Connection \in Fields
  BY <1>1, <1>2, <1>3 DEF Connection, Fields, Checks
<1>5. Connection.session = NoSession
  BY DEF Connection
<1> QED
  BY <1>4, <1>5 DEF Fresh, Fields

(* The session of resolved fields.                                         *)
LEMMA SessionFields ==
  ASSUME NEW f \in Fields
  PROVE  /\ Session(f) \in Sessions
         /\ Session(f).proto = f.proto /\ Session(f).server = f.server /\ Session(f).port = f.port
         /\ Session(f).connecting = f.connection_timeout /\ Session(f).waiting = f.timeout
BY DEF Session, Sessions, Fields

(* The session is all that a connect adds to the resolved fields.          *)
LEMMA WithSession ==
  ASSUME NEW f \in Fields, NEW s \in Sessions
  PROVE  /\ [f EXCEPT !.session = s] \in Fields
         /\ [f EXCEPT !.session = s].session = s
         /\ [f EXCEPT !.session = s].source = f.source
         /\ [f EXCEPT !.session = s].proto = f.proto
         /\ [f EXCEPT !.session = s].server = f.server
         /\ [f EXCEPT !.session = s].path = f.path
         /\ [f EXCEPT !.session = s].user = f.user
         /\ [f EXCEPT !.session = s].database = f.database
         /\ [f EXCEPT !.session = s].port = f.port
         /\ [f EXCEPT !.session = s].timeout = f.timeout
         /\ [f EXCEPT !.session = s].connection_timeout = f.connection_timeout
<1> DEFINE g == [f EXCEPT !.session = s]
<1>1. g \in Fields /\ g.session = s
  BY DEF Fields
<1>2. /\ g.source = f.source /\ g.proto = f.proto /\ g.server = f.server /\ g.path = f.path
      /\ g.user = f.user /\ g.database = f.database /\ g.port = f.port
      /\ g.timeout = f.timeout /\ g.connection_timeout = f.connection_timeout
  BY DEF Fields
<1> QED
  BY <1>1, <1>2

(* SQL_ATTR_CURRENT_CATALOG changes the database only.                     *)
LEMMA WithDatabase ==
  ASSUME NEW f \in Fields, NEW d \in Texts
  PROVE  /\ [f EXCEPT !.database = d] \in Fields
         /\ [f EXCEPT !.database = d].database = d
         /\ [f EXCEPT !.database = d].session = f.session
         /\ [f EXCEPT !.database = d].source = f.source
         /\ [f EXCEPT !.database = d].proto = f.proto
         /\ [f EXCEPT !.database = d].server = f.server
         /\ [f EXCEPT !.database = d].path = f.path
         /\ [f EXCEPT !.database = d].user = f.user
         /\ [f EXCEPT !.database = d].port = f.port
         /\ [f EXCEPT !.database = d].timeout = f.timeout
         /\ [f EXCEPT !.database = d].connection_timeout = f.connection_timeout
<1> DEFINE g == [f EXCEPT !.database = d]
<1>1. g \in Fields /\ g.database = d
  BY DEF Fields
<1>2. /\ g.source = f.source /\ g.proto = f.proto /\ g.server = f.server /\ g.path = f.path
      /\ g.user = f.user /\ g.session = f.session /\ g.port = f.port
      /\ g.timeout = f.timeout /\ g.connection_timeout = f.connection_timeout
  BY DEF Fields
<1> QED
  BY <1>1, <1>2

(* SQL_ATTR_CONNECTION_TIMEOUT changes timeouts only.                      *)
LEMMA WithTimeout ==
  ASSUME NEW f \in Fields
  PROVE  /\ TimeoutSet(f) \in Fields
         /\ TimeoutSet(f).source = f.source /\ TimeoutSet(f).proto = f.proto
         /\ TimeoutSet(f).server = f.server /\ TimeoutSet(f).path = f.path
         /\ TimeoutSet(f).user = f.user /\ TimeoutSet(f).database = f.database
         /\ TimeoutSet(f).port = f.port /\ TimeoutSet(f).timeout = f.timeout
         /\ TimeoutSet(f).connection_timeout = f.timeout
         /\ TimeoutSet(f).session = IF f.session = NoSession THEN NoSession
                                    ELSE [f.session EXCEPT !.connecting = f.timeout,
                                                           !.waiting = f.timeout]
<1> DEFINE s == IF f.session = NoSession THEN NoSession
                ELSE [f.session EXCEPT !.connecting = f.timeout, !.waiting = f.timeout]
           time == f.timeout
           g == TimeoutSet(f)
<1>1. f.session \in Sessions /\ time \in Times
  BY DEF Fields
<1>2. s \in Sessions
  <2>1. [f.session EXCEPT !.connecting = time, !.waiting = time] \in Sessions
    <3> HIDE DEF time
    <3> QED
      BY <1>1 DEF Sessions
  <2> QED
    BY <1>1, <2>1
<1>3. g = [f EXCEPT !.connection_timeout = time, !.session = s]
  <2>1. CASE f.session = NoSession
    BY <2>1 DEF TimeoutSet, Fields
  <2>2. CASE f.session # NoSession
    BY <2>2 DEF TimeoutSet, Fields
  <2> QED
    BY <2>1, <2>2
<1> HIDE DEF g, s, time
<1>4. g \in Fields /\ g.session = s /\ g.connection_timeout = time
  BY <1>1, <1>2, <1>3 DEF Fields
<1>5. /\ g.source = f.source /\ g.proto = f.proto /\ g.server = f.server /\ g.path = f.path
      /\ g.user = f.user /\ g.database = f.database /\ g.port = f.port /\ g.timeout = f.timeout
  BY <1>1, <1>2, <1>3 DEF Fields
<1> QED
  BY <1>4, <1>5 DEF g, s, time

(* The strings of the application.                                         *)
LEMMA StringFacts ==
  \A string \in Strings : IsString(string)
BY ConnectionsAssumption DEF ConnectionsAssumption, IsString

(* Catalogs are texts that are not empty.                                  *)
LEMMA CatalogFacts ==
  Catalogs \cup {NoText} \subseteq Texts /\ \A k \in Catalogs : k # NoText
BY ConnectionsAssumption DEF ConnectionsAssumption

(* What the driver manager keeps has its type.                             *)
LEMMA KeptFields ==
  ASSUME TypeOK, NEW c \in Conns, NEW f \in Fields
  PROVE  Kept(c, f) \in Fields
<1>1. catalogs[c].before \in Texts
  BY CatalogFacts DEF TypeOK
<1>2. Fresh(catalogs[c].before) \in Fields
  BY <1>1, FreshFields
<1> QED
  BY <1>2 DEF Kept

(* A connect gets through, which needs settings that resolve, or throws.   *)
LEMMA ConnectOutcomes ==
  ASSUME NEW c \in Conns, NEW string \in Strings, Connect(c, string)
  PROVE  /\ \/ /\ Resolve(conn[c], string).ok
               /\ Through(c, string, Resolve(conn[c], string).fields)
            \/ Fails(c, Resolve(conn[c], string).fields)
         /\ ini' = ini /\ catalogs' = catalogs /\ ~connected[c]
BY Zenon DEF Connect

(* What every value of a connection resolves to.                           *)
LEMMA ResolvedFields ==
  ASSUME TypeOK, NEW c \in Conns, NEW string \in Strings
  PROVE  /\ Resolve(conn[c], string).fields \in Fields
         /\ Resolve(conn[c], string).fields.session = conn[c].session
BY StringFacts, Resolving DEF TypeOK

(* SSL is set up once and then stays.                                      *)
LEMMA SslTypes ==
  ASSUME TypeOK, NEW f \in Fields
  PROVE  /\ SSLInit(f) \in {"none", "strict", "relaxed"}
         /\ SSLInit(f) # "none"
<1>1. f.check \in Checks
  BY DEF Fields
<1> QED
  BY <1>1 DEF SSLInit, TypeOK, Checks

(* Every field has its type, for strings of any length and any data source.*)
THEOREM ConnectionsTyped == Spec => []TypeOK
<1>1. Init => TypeOK
  <2> SUFFICES ASSUME Init PROVE TypeOK
    OBVIOUS
  <2>1. NoText \in Texts
    BY KnownTexts
  <2>2. Connection = Fresh(NoText)
    BY DEF Connection, Fresh
  <2>3. Connection \in Fields
    BY <2>1, <2>2, FreshFields
  <2>4. connected \in [Conns -> BOOLEAN]
    BY DEF Init
  <2>5. connects \in 0..MaxConnects
    BY ConnectionsAssumption DEF Init, ConnectionsAssumption
  <2>6. conn \in [Conns -> Fields]
    BY <2>3 DEF Init
  <2>7. /\ asked \in [Conns -> Strings \cup {<<>>}] /\ ini \in IniFiles
        /\ ssl \in {"none", "strict", "relaxed"}
    BY DEF Init
  <2>8. catalogs \in [Conns -> [before : Catalogs \cup {NoText}, after : Catalogs \cup {NoText}]]
    BY DEF Init
  <2> QED
    BY <2>4, <2>5, <2>6, <2>7, <2>8 DEF TypeOK
<1>2. TypeOK /\ [Next]_vars => TypeOK'
  <2> SUFFICES ASSUME TypeOK, [Next]_vars PROVE TypeOK'
    OBVIOUS
  <2> USE DEF TypeOK
  <2>1. ASSUME NEW c \in Conns, NEW string \in Strings, Connect(c, string) PROVE TypeOK'
    <3> DEFINE f == Resolve(conn[c], string).fields
    <3>1. f \in Fields
      BY ResolvedFields
    <3> HIDE DEF f
    <3>2. connects' \in 0..MaxConnects
      BY <2>1, ConnectionsAssumption DEF Connect, ConnectionsAssumption
    <3>5. (Through(c, string, f) \/ Fails(c, f)) /\ ini' = ini /\ catalogs' = catalogs
      BY <2>1, ConnectOutcomes DEF f
    <3>3. CASE Through(c, string, f)
      <4>1. /\ connected' = [connected EXCEPT ![c] = TRUE]
            /\ conn' = [conn EXCEPT ![c] = [f EXCEPT !.session = Session(f)]]
            /\ asked' = [asked EXCEPT ![c] = string]
            /\ ssl' = IF NeedsSsl(f) THEN SSLInit(f) ELSE ssl
            /\ ini' = ini /\ catalogs' = catalogs
        BY <3>3, <3>5 DEF Through
      <4>2. [f EXCEPT !.session = Session(f)] \in Fields
        BY <3>1, SessionFields, WithSession
      <4>3. conn' \in [Conns -> Fields]
        BY <4>1, <4>2
      <4>4. ssl' \in {"none", "strict", "relaxed"}
        BY <4>1, <3>1, SslTypes
      <4>5. connected' \in [Conns -> BOOLEAN]
        BY <4>1
      <4>6. asked' \in [Conns -> Strings \cup {<<>>}] /\ ini' \in IniFiles
        BY <4>1
      <4> QED
        BY <4>1, <4>3, <4>4, <4>5, <4>6, <3>2
    <3>4. CASE Fails(c, f)
      <4>1. /\ conn' = [conn EXCEPT ![c] = Kept(c, f)]
            /\ ini' = ini /\ catalogs' = catalogs /\ asked' = asked
            /\ connected' = connected /\ ssl' = ssl
        BY <3>4, <3>5 DEF Fails
      <4>2. Kept(c, f) \in Fields
        BY <3>1, KeptFields
      <4> QED
        BY <4>1, <4>2, <3>2
    <3> QED
      BY <3>3, <3>4, <3>5
  <2>2. ASSUME NEW c \in Conns, Disconnect(c) PROVE TypeOK'
    <3>1. Kept(c, conn[c]) \in Fields
      BY KeptFields
    <3>2. conn' \in [Conns -> Fields]
      BY <2>2, <3>1 DEF Disconnect
    <3>3. connected' \in [Conns -> BOOLEAN]
      BY <2>2 DEF Disconnect
    <3>4. catalogs' \in [Conns -> [before : Catalogs \cup {NoText}, after : Catalogs \cup {NoText}]]
      <4> DEFINE K == Catalogs \cup {NoText}
      <4>1. NoText \in K
        OBVIOUS
      <4>2. catalogs' = [catalogs EXCEPT ![c] = [catalogs[c] EXCEPT !.after = NoText]]
        BY <2>2 DEF Disconnect
      <4> HIDE DEF K
      <4>3. catalogs \in [Conns -> [before : K, after : K]]
        BY DEF K
      <4>4. catalogs' \in [Conns -> [before : K, after : K]]
        BY <4>1, <4>2, <4>3
      <4> QED
        BY <4>4 DEF K
    <3>5. /\ asked' \in [Conns -> Strings \cup {<<>>}]
          /\ ini' = ini /\ ssl' = ssl /\ connects' = connects
      BY <2>2 DEF Disconnect
    <3> QED
      BY <3>2, <3>3, <3>4, <3>5
  <2>3. ASSUME NEW c \in Conns, SetConnectionTimeout(c) PROVE TypeOK'
    <3>1. TimeoutSet(conn[c]) \in Fields
      BY WithTimeout
    <3> QED
      BY <2>3, <3>1 DEF SetConnectionTimeout
  <2>4. ASSUME NEW c \in Conns, NEW catalog \in Catalogs, SetCurrentCatalog(c, catalog)
        PROVE  TypeOK'
    <3>1. [conn[c] EXCEPT !.database = catalog] \in Fields
      BY WithDatabase, CatalogFacts
    <3>2. conn' \in [Conns -> Fields]
      BY <2>4, <3>1 DEF SetCurrentCatalog
    <3>3. catalogs' \in [Conns -> [before : Catalogs \cup {NoText}, after : Catalogs \cup {NoText}]]
      <4> DEFINE K == Catalogs \cup {NoText}
      <4>1. catalog \in K
        OBVIOUS
      <4>2. catalogs' = IF connected[c]
                        THEN [catalogs EXCEPT ![c] = [catalogs[c] EXCEPT !.after = catalog]]
                        ELSE [catalogs EXCEPT ![c] = [catalogs[c] EXCEPT !.before = catalog]]
        BY <2>4 DEF SetCurrentCatalog
      <4> HIDE DEF K
      <4>3. catalogs \in [Conns -> [before : K, after : K]]
        BY DEF K
      <4>4. catalogs' \in [Conns -> [before : K, after : K]]
        BY <4>1, <4>2, <4>3
      <4> QED
        BY <4>4 DEF K
    <3> QED
      BY <2>4, <3>2, <3>3 DEF SetCurrentCatalog
  <2>5. CASE UNCHANGED vars
    BY <2>5 DEF vars
  <2> QED
    BY <2>1, <2>2, <2>3, <2>4, <2>5 DEF Next
<1> QED
  BY <1>1, <1>2, PTL DEF Spec

-----------------------------------------------------------------------------
(* What holds of the fields that a connect resolved.                       *)
Settled(config, g) ==
  /\ g.source \in DataSources
  /\ g.proto # NoText /\ g.server # NoText /\ g.database # NoText /\ g.port # 0
  /\ g.user # BadUser
  /\ g.user = NoText => config[g.source].user = NoText

(* After all stages nothing is left empty but the user.                    *)
LEMMA StagesSettle ==
  ASSUME ini \in IniFiles, NEW f, NEW string, NEW p, NEW l, NEW u, NEW g,
         Stages(f, string, p, l, u, g), g.user # BadUser
  PROVE  Settled(ini, g)
<1> USE DEF Stages
<1>1. g.source = Or(p.source, "ATSD") /\ g.source \in DataSources
  BY SectionFacts DEF Loaded, Located, Completed
<1>2. g.proto # NoText
  <2>1. "http" # NoText /\ "https" # NoText
    BY Zenon DEF NoText
  <2>2. g.proto = Or(u.proto, "http") \/ g.proto = Or(u.proto, "https")
    BY DEF Completed
  <2> QED
    BY <2>1, <2>2 DEF Or
<1>3. g.server # NoText
  <2>1. "localhost" # NoText
    BY Zenon DEF NoText
  <2> QED
    BY <2>1 DEF Completed, Or
<1>4. g.database # NoText
  <2>1. "default" # NoText
    BY Zenon DEF NoText
  <2> QED
    BY <2>1 DEF Completed, Or
<1>5. g.port # 0
  BY DEF Completed, OrNumber
<1>6. g.user = NoText => ini[g.source].user = NoText
  BY <1>1 DEF Completed, Located, Loaded, Or, SectionOf
<1> QED
  BY <1>1, <1>2, <1>3, <1>4, <1>5, <1>6 DEF Settled

(* A connect that gets through settles the fields.                         *)
LEMMA ConnectSettles ==
  ASSUME TypeOK, NEW c \in Conns, NEW string \in Strings, Resolve(conn[c], string).ok
  PROVE  Settled(ini, Resolve(conn[c], string).fields)
<1> DEFINE g == Resolve(conn[c], string).fields
<1>1. conn[c] \in Fields /\ ini \in IniFiles /\ IsString(string)
  BY StringFacts DEF TypeOK
<1>2. CanBeRead(string) /\ g.user # BadUser
  BY <1>1, Resolving
<1>3. \E p \in Fields : \E l, u : Stages(conn[c], string, p, l, u, g)
  BY <1>1, <1>2, Resolving
<1> HIDE DEF g
<1> QED
  BY <1>1, <1>2, <1>3, StagesSettle DEF g

(* A connection that is connected has the session of its fields, and SSL is*)
(* set up wherever a session needs it.                                     *)
Opened(c) ==
  /\ connected[c] =>
       /\ Settled(ini, conn[c])
       /\ conn[c].session.proto = conn[c].proto
       /\ conn[c].session.server = conn[c].server
       /\ conn[c].session.port = conn[c].port
  /\ conn[c].session.proto = "https" => ssl # "none"
OpenedInv == TypeOK /\ \A c \in Conns : Opened(c)

(* A connection that is not connected any more.                            *)
LEMMA KeptSession ==
  ASSUME TypeOK, NEW c \in Conns, NEW f
  PROVE  Kept(c, f).session.proto = "https" => Kept(c, f) = f
<1>1. catalogs[c].before \in Texts
  BY CatalogFacts DEF TypeOK
<1>2. Fresh(catalogs[c].before).session = NoSession
  BY <1>1, FreshFields
<1>3. NoSession.proto # "https"
  <2>1. "https" # NoText
    BY Zenon DEF NoText
  <2> QED
    BY <2>1 DEF NoSession
<1> QED
  BY <1>2, <1>3 DEF Kept

(* One connection changes, the others and what they share do not.          *)
LEMMA OthersStayOpened ==
  ASSUME TypeOK, NEW c \in Conns, NEW d \in Conns, d # c, NEW f, Opened(d),
         conn' = [conn EXCEPT ![c] = f], connected'[d] = connected[d],
         ini' = ini, ssl # "none" => ssl' # "none"
  PROVE  Opened(d)'
<1>1. conn'[d] = conn[d]
  BY DEF TypeOK
<1> QED
  BY <1>1 DEF Opened, Settled

(* The invariant of the sessions.                                          *)
LEMMA OpenedInvariant == Spec => []OpenedInv
<1>1. Init /\ TypeOK => OpenedInv
  <2> SUFFICES ASSUME Init, TypeOK, NEW c \in Conns PROVE Opened(c)
    BY DEF OpenedInv
  <2>1. ~connected[c] /\ conn[c] = Connection
    BY DEF Init
  <2>2. Connection.session.proto = NoText
    BY DEF Connection, NoSession
  <2>3. "https" # NoText
    BY Zenon DEF NoText
  <2> QED
    BY <2>1, <2>2, <2>3 DEF Opened
<1>2. OpenedInv /\ TypeOK' /\ [Next]_vars => OpenedInv'
  <2> SUFFICES ASSUME OpenedInv, TypeOK', [Next]_vars, NEW d \in Conns PROVE Opened(d)'
    BY DEF OpenedInv
  <2>1. TypeOK /\ Opened(d)
    BY DEF OpenedInv
  <2>2. ASSUME NEW c \in Conns, NEW string \in Strings, Connect(c, string) PROVE Opened(d)'
    <3> DEFINE f == Resolve(conn[c], string).fields
    <3>1. f \in Fields /\ f.session = conn[c].session
      BY <2>1, ResolvedFields
    <3>4. /\ (Resolve(conn[c], string).ok /\ Through(c, string, f)) \/ Fails(c, f)
          /\ ini' = ini /\ ~connected[c]
      BY <2>2, ConnectOutcomes
    <3>2. CASE Resolve(conn[c], string).ok /\ Through(c, string, f)
      <4>1. /\ connected' = [connected EXCEPT ![c] = TRUE]
            /\ conn' = [conn EXCEPT ![c] = [f EXCEPT !.session = Session(f)]]
            /\ ssl' = IF NeedsSsl(f) THEN SSLInit(f) ELSE ssl
            /\ ini' = ini
        <5> HIDE DEF f
        <5> QED
          BY <3>2, <3>4 DEF Through
      <4>2. Settled(ini, f)
        BY <2>1, <3>2, ConnectSettles
      <4> HIDE DEF f
      <4>3. ssl # "none" => ssl' # "none"
        BY <4>1 DEF SSLInit
      <4>4. CASE d = c
        <5> DEFINE s == Session(f)
                   g == [f EXCEPT !.session = s]
        <5>1. s \in Sessions /\ s.proto = f.proto /\ s.server = f.server /\ s.port = f.port
          BY <3>1, SessionFields
        <5>2. conn'[d] = g
          BY <4>1, <4>4, <2>1 DEF TypeOK
        <5> HIDE DEF s
        <5>3. /\ g.session = s /\ g.source = f.source /\ g.proto = f.proto
              /\ g.server = f.server /\ g.user = f.user /\ g.database = f.database
              /\ g.port = f.port
          BY <3>1, <5>1, WithSession
        <5> HIDE DEF g
        <5>4. Settled(ini', g)
          BY <4>1, <4>2, <5>2, <5>3 DEF Settled
        <5>5. s.proto = "https" => ssl' # "none"
          BY <4>1, <5>1, <3>1, <2>1, SslTypes DEF NeedsSsl
        <5> QED
          BY <5>1, <5>2, <5>3, <5>4, <5>5 DEF Opened, Settled
      <4>5. CASE d # c
        <5>1. connected'[d] = connected[d]
          BY <4>1, <4>5, <2>1 DEF TypeOK
        <5> QED
          BY <4>1, <4>3, <4>5, <5>1, <2>1, OthersStayOpened
      <4> QED
        BY <4>4, <4>5
    <3>3. CASE Fails(c, f)
      <4>1. /\ conn' = [conn EXCEPT ![c] = Kept(c, f)] /\ ini' = ini
            /\ connected' = connected /\ ssl' = ssl /\ ~connected[c]
        <5> HIDE DEF f
        <5> QED
          BY <3>3, <3>4 DEF Fails
      <4> HIDE DEF f
      <4>2. CASE d = c
        <5>1. conn'[d] = Kept(c, f) /\ ~connected'[d]
          BY <4>1, <4>2, <2>1 DEF TypeOK
        <5>2. Kept(c, f).session.proto = "https" => Kept(c, f) = f
          BY <2>1, KeptSession
        <5> QED
          BY <5>1, <5>2, <4>1, <4>2, <3>1, <2>1 DEF Opened
      <4>3. CASE d # c
        BY <4>1, <4>3, <2>1, OthersStayOpened
      <4> QED
        BY <4>2, <4>3
    <3> QED
      BY <3>2, <3>3, <3>4
  <2>3. ASSUME NEW c \in Conns, Disconnect(c) PROVE Opened(d)'
    <3>1. /\ conn' = [conn EXCEPT ![c] = Kept(c, conn[c])] /\ ini' = ini /\ ssl' = ssl
          /\ connected' = [connected EXCEPT ![c] = FALSE]
      BY <2>3 DEF Disconnect
    <3>2. CASE d = c
      <4>1. conn'[d] = Kept(c, conn[c]) /\ ~connected'[d]
        BY <3>1, <3>2, <2>1 DEF TypeOK
      <4>2. Kept(c, conn[c]).session.proto = "https" => Kept(c, conn[c]) = conn[c]
        BY <2>1, KeptSession
      <4> QED
        BY <4>1, <4>2, <3>1, <3>2, <2>1 DEF Opened
    <3>3. CASE d # c
      <4>1. connected'[d] = connected[d]
        BY <3>1, <3>3, <2>1 DEF TypeOK
      <4> QED
        BY <3>1, <3>3, <4>1, <2>1, OthersStayOpened
    <3> QED
      BY <3>2, <3>3
  <2>4. ASSUME NEW c \in Conns, SetConnectionTimeout(c) PROVE Opened(d)'
    <3> DEFINE g == TimeoutSet(conn[c])
    <3>1. /\ conn' = [conn EXCEPT ![c] = g] /\ ini' = ini /\ ssl' = ssl
          /\ connected' = connected
      BY <2>4 DEF SetConnectionTimeout
    <3>2. conn[c] \in Fields
      BY <2>1 DEF TypeOK
    <3>3. CASE d = c
      <4>1. conn'[d] = g
        BY <3>1, <3>3, <2>1 DEF TypeOK
      <4>2. /\ g.source = conn[c].source /\ g.proto = conn[c].proto
            /\ g.server = conn[c].server /\ g.user = conn[c].user
            /\ g.database = conn[c].database /\ g.port = conn[c].port
            /\ g.session = IF conn[c].session = NoSession THEN NoSession
                           ELSE [conn[c].session EXCEPT !.connecting = conn[c].timeout,
                                                        !.waiting = conn[c].timeout]
        BY <3>2, WithTimeout
      <4> HIDE DEF g
      <4>3. conn[c].session \in Sessions
        BY <3>2 DEF Fields
      <4>4. /\ g.session.proto = conn[c].session.proto
            /\ g.session.server = conn[c].session.server
            /\ g.session.port = conn[c].session.port
        BY <4>2, <4>3 DEF Sessions
      <4>5. Settled(ini, conn[c]) => Settled(ini', g)
        BY <3>1, <4>2 DEF Settled
      <4> QED
        BY <4>1, <4>2, <4>4, <4>5, <3>1, <3>3, <2>1 DEF Opened, Settled
    <3>4. CASE d # c
      BY <3>1, <3>4, <2>1, OthersStayOpened
    <3> QED
      BY <3>3, <3>4
  <2>5. ASSUME NEW c \in Conns, NEW catalog \in Catalogs, SetCurrentCatalog(c, catalog)
        PROVE  Opened(d)'
    <3> DEFINE g == [conn[c] EXCEPT !.database = catalog]
    <3>1. /\ conn' = [conn EXCEPT ![c] = g] /\ ini' = ini /\ ssl' = ssl
          /\ connected' = connected
      BY <2>5 DEF SetCurrentCatalog
    <3>2. conn[c] \in Fields /\ catalog \in Texts /\ catalog # NoText
      BY <2>1, CatalogFacts DEF TypeOK
    <3>3. CASE d = c
      <4>1. conn'[d] = g
        BY <3>1, <3>3, <2>1 DEF TypeOK
      <4>2. /\ g.source = conn[c].source /\ g.proto = conn[c].proto
            /\ g.server = conn[c].server /\ g.user = conn[c].user
            /\ g.database = catalog /\ g.port = conn[c].port
            /\ g.session = conn[c].session
        BY <3>2, WithDatabase
      <4> HIDE DEF g
      <4>3. Settled(ini, conn[c]) => Settled(ini', g)
        BY <3>1, <3>2, <4>2 DEF Settled
      <4> QED
        BY <4>1, <4>2, <4>3, <3>1, <3>3, <2>1 DEF Opened, Settled
    <3>4. CASE d # c
      BY <3>1, <3>4, <2>1, OthersStayOpened
    <3> QED
      BY <3>3, <3>4
  <2>6. CASE UNCHANGED vars
    BY <2>1, <2>6 DEF vars, Opened, Settled
  <2> QED
    BY <2>2, <2>3, <2>4, <2>5, <2>6 DEF Next
<1> QED
  BY <1>1, <1>2, ConnectionsTyped, PTL DEF Spec

(* A connection that is connected has a session, and SSL is set up before  *)
(* any session needs it (SQLDisconnect and the statements use it unasked). *)
THEOREM SessionsAreThere == Spec => []ConnectedHasSession
<1>1. OpenedInv => ConnectedHasSession
  <2> SUFFICES ASSUME OpenedInv, NEW c \in Conns
               PROVE  /\ connected[c] => conn[c].session # NoSession
                      /\ conn[c].session.proto = "https" => ssl # "none"
    BY DEF ConnectedHasSession
  <2>1. Opened(c)
    BY DEF OpenedInv
  <2>2. NoSession.port = 0
    BY DEF NoSession
  <2> QED
    BY <2>1, <2>2 DEF Opened, Settled
<1> QED
  BY <1>1, OpenedInvariant, PTL

-----------------------------------------------------------------------------
(* What the completed connection string says.                              *)
LEMMA CompletedString ==
  ASSUME NEW g \in Fields
  PROVE  /\ CanBeRead(connectionString(g)) /\ IsString(connectionString(g))
         /\ \A none : /\ Setting(connectionString(g), "dsn", none) = g.source
                      /\ Setting(connectionString(g), "database", none) = g.database
                      /\ Setting(connectionString(g), "server", none) = g.server
                      /\ Setting(connectionString(g), "port", none) = g.port
                      /\ Setting(connectionString(g), "uid", none) = g.user
                      /\ Setting(connectionString(g), "timeout", none) = none
                      /\ Setting(connectionString(g), "url", none) = none
                      /\ Said(connectionString(g), none) = g.proto
<1> DEFINE s == connectionString(g)
<1>1. /\ Len(s) = 6 /\ DOMAIN s = 1..6
      /\ s[1] = [key |-> "dsn", value |-> g.source]
      /\ s[2] = [key |-> "database", value |-> g.database]
      /\ s[3] = [key |-> "proto", value |-> g.proto]
      /\ s[4] = [key |-> "server", value |-> g.server]
      /\ s[5] = [key |-> "port", value |-> g.port]
      /\ s[6] = [key |-> "uid", value |-> g.user]
  BY DEF connectionString
<1> HIDE DEF s
<1>2. /\ s[1].key = "dsn" /\ s[1].value = g.source
      /\ s[2].key = "database" /\ s[2].value = g.database
      /\ s[3].key = "proto" /\ s[3].value = g.proto
      /\ s[4].key = "server" /\ s[4].value = g.server
      /\ s[5].key = "port" /\ s[5].value = g.port
      /\ s[6].key = "uid" /\ s[6].value = g.user
  BY <1>1
<1>3. /\ g.source \in DataSources \cup {NoText} /\ g.database \in Texts /\ g.proto \in Texts
      /\ g.server \in Texts /\ g.user \in Texts /\ g.port \in Numbers /\ g.port # BadNumber
  <2>1. g.port \in Ports
    BY DEF Fields
  <2>2. \A n \in Ports : n \in Numbers /\ n # BadNumber
    BY DEF Ports, Numbers, Times, BadNumber
  <2> QED
    BY <2>1, <2>2 DEF Fields
<1>4. /\ IsSetting(s[1]) /\ IsSetting(s[2]) /\ IsSetting(s[3])
      /\ IsSetting(s[4]) /\ IsSetting(s[5]) /\ IsSetting(s[6])
  BY <1>2, <1>3 DEF IsSetting
<1>5. /\ ~Throws(s[1]) /\ ~Throws(s[2]) /\ ~Throws(s[3])
      /\ ~Throws(s[4]) /\ ~Throws(s[5]) /\ ~Throws(s[6])
  BY <1>2, <1>3 DEF Throws
<1>6. \A i \in 1..6 : i = 1 \/ i = 2 \/ i = 3 \/ i = 4 \/ i = 5 \/ i = 6
  OBVIOUS
<1>7. IsString(s)
  BY <1>1, <1>4, <1>6 DEF IsString
<1>8. CanBeRead(s)
  BY <1>1, <1>5, <1>6, <1>7 DEF CanBeRead
<1>9. ASSUME NEW keys
      PROVE  /\ Last(s, keys) \in 0..6
             /\ Last(s, keys) # 0 => s[Last(s, keys)].key \in keys
             /\ \A j \in (Last(s, keys) + 1)..6 : s[j].key \notin keys
  BY <1>1, <1>7, LastFacts
<1>10. Last(s, {"dsn"}) = 1
  <2> DEFINE k == Last(s, {"dsn"})
  <2>1. k \in 0..6 /\ (k # 0 => s[k].key \in {"dsn"}) /\ \A j \in (k + 1)..6 : s[j].key \notin {"dsn"}
    BY <1>9
  <2> HIDE DEF k
  <2> QED
    BY <2>1, <1>2 DEF k
<1>11. Last(s, {"database"}) = 2
  <2> DEFINE k == Last(s, {"database"})
  <2>1. k \in 0..6 /\ (k # 0 => s[k].key \in {"database"})
        /\ \A j \in (k + 1)..6 : s[j].key \notin {"database"}
    BY <1>9
  <2> HIDE DEF k
  <2> QED
    BY <2>1, <1>2 DEF k
<1>12. Last(s, {"proto", "sslmode"}) = 3
  <2> DEFINE k == Last(s, {"proto", "sslmode"})
  <2>1. k \in 0..6 /\ (k # 0 => s[k].key \in {"proto", "sslmode"})
        /\ \A j \in (k + 1)..6 : s[j].key \notin {"proto", "sslmode"}
    BY <1>9
  <2> HIDE DEF k
  <2> QED
    BY <2>1, <1>2 DEF k
<1>13. Last(s, {"server"}) = 4
  <2> DEFINE k == Last(s, {"server"})
  <2>1. k \in 0..6 /\ (k # 0 => s[k].key \in {"server"})
        /\ \A j \in (k + 1)..6 : s[j].key \notin {"server"}
    BY <1>9
  <2> HIDE DEF k
  <2> QED
    BY <2>1, <1>2 DEF k
<1>14. Last(s, {"port"}) = 5
  <2> DEFINE k == Last(s, {"port"})
  <2>1. k \in 0..6 /\ (k # 0 => s[k].key \in {"port"})
        /\ \A j \in (k + 1)..6 : s[j].key \notin {"port"}
    BY <1>9
  <2> HIDE DEF k
  <2> QED
    BY <2>1, <1>2 DEF k
<1>15. Last(s, {"uid"}) = 6
  <2> DEFINE k == Last(s, {"uid"})
  <2>1. k \in 0..6 /\ (k # 0 => s[k].key \in {"uid"})
        /\ \A j \in (k + 1)..6 : s[j].key \notin {"uid"}
    BY <1>9
  <2> HIDE DEF k
  <2> QED
    BY <2>1, <1>2 DEF k
<1>16. Last(s, {"timeout"}) = 0
  <2> DEFINE k == Last(s, {"timeout"})
  <2>1. k \in 0..6 /\ (k # 0 => s[k].key \in {"timeout"})
    BY <1>9
  <2> HIDE DEF k
  <2> QED
    BY <2>1, <1>2 DEF k
<1>19. Last(s, {"url"}) = 0
  <2> DEFINE k == Last(s, {"url"})
  <2>1. k \in 0..6 /\ (k # 0 => s[k].key \in {"url"})
    BY <1>9
  <2> HIDE DEF k
  <2> QED
    BY <2>1, <1>2 DEF k
<1>17. \A none : /\ Setting(s, "dsn", none) = g.source
                 /\ Setting(s, "database", none) = g.database
                 /\ Setting(s, "server", none) = g.server
                 /\ Setting(s, "port", none) = g.port
                 /\ Setting(s, "uid", none) = g.user
                 /\ Setting(s, "timeout", none) = none
                 /\ Setting(s, "url", none) = none
  BY <1>2, <1>10, <1>11, <1>13, <1>14, <1>15, <1>16, <1>19 DEF Setting
<1>18. \A none : Said(s, none) = g.proto
  BY <1>2, <1>12 DEF Said
<1> QED
  BY <1>7, <1>8, <1>17, <1>18 DEF s

(* Without semicolons the string is read as it was written.                *)
LEMMA WrittenIsRead ==
  ASSUME NEW g \in Fields, \A text \in {g.proto, g.server, g.database, g.user} : Cut[text] = text
  PROVE  nextKeyValuePair(connectionString(g)) = connectionString(g)
<1> DEFINE s == connectionString(g)
<1>1. /\ DOMAIN s = 1..6
      /\ s[1] = [key |-> "dsn", value |-> g.source]
      /\ s[2] = [key |-> "database", value |-> g.database]
      /\ s[3] = [key |-> "proto", value |-> g.proto]
      /\ s[4] = [key |-> "server", value |-> g.server]
      /\ s[5] = [key |-> "port", value |-> g.port]
      /\ s[6] = [key |-> "uid", value |-> g.user]
      /\ s = [i \in 1..6 |-> s[i]]
  BY DEF connectionString
<1> HIDE DEF s
<1>2. /\ ~Torn(s[1]) /\ ~Torn(s[2]) /\ ~Torn(s[3])
      /\ ~Torn(s[4]) /\ ~Torn(s[5]) /\ ~Torn(s[6])
  BY <1>1 DEF Torn
<1>3. \A i \in 1..6 : ~Torn(s[i])
  <2>1. \A i \in 1..6 : i = 1 \/ i = 2 \/ i = 3 \/ i = 4 \/ i = 5 \/ i = 6
    OBVIOUS
  <2> QED
    BY <2>1, <1>2
<1>4. \A i \in 1..6 : s[i] = [key |-> s[i].key, value |-> s[i].value]
  <2>1. \A i \in 1..6 : i = 1 \/ i = 2 \/ i = 3 \/ i = 4 \/ i = 5 \/ i = 6
    OBVIOUS
  <2> QED
    BY <2>1, <1>1
<1>5. ASSUME NEW i \in 1..6 PROVE Reads(s, i) = s[i]
  <2>1. i > 1 => ~Torn(s[i - 1])
    <3>1. i > 1 => i - 1 \in 1..6
      OBVIOUS
    <3> QED
      BY <3>1, <1>3
  <2>2. Reads(s, i) = [key |-> s[i].key, value |-> s[i].value]
    BY <2>1, <1>3 DEF Reads
  <2> QED
    BY <2>2, <1>4
<1>6. nextKeyValuePair(s) = [i \in 1..6 |-> s[i]]
  BY <1>1, <1>5 DEF nextKeyValuePair
<1> QED
  BY <1>1, <1>6 DEF s

(* A connect with the completed string.                                    *)
LEMMA Reconnecting ==
  ASSUME ini \in IniFiles, NEW g \in Fields, Settled(ini, g),
         ini[g.source].timeout # BadNumber, ini[g.source].url # BadUrl
  PROVE  /\ Resolve(Connection, connectionString(g)).ok
         /\ Resolve(Connection, connectionString(g)).fields.proto = g.proto
         /\ Resolve(Connection, connectionString(g)).fields.server = g.server
         /\ Resolve(Connection, connectionString(g)).fields.port = g.port
         /\ Resolve(Connection, connectionString(g)).fields.database = g.database
         /\ Resolve(Connection, connectionString(g)).fields.user
              = Or(g.user, Resolve(Connection, connectionString(g)).fields.user)
<1> DEFINE s == connectionString(g)
           r == Resolve(Connection, s)
<1>1. Connection \in Fields
  <2>1. Connection = Fresh(NoText)
    BY DEF Connection, Fresh
  <2> QED
    BY <2>1, KnownTexts, FreshFields
<1>2. CanBeRead(s) /\ IsString(s)
  BY CompletedString
<1>3. PICK p \in Fields :
        /\ Read(Connection, s, p)
        /\ ~(p.port = 0 /\ SectionOf(p).port = BadNumber)
           /\ ~(p.timeout = 0 /\ SectionOf(p).timeout = BadNumber)
           /\ UrlOf(p, SectionOf(p)) # BadUrl =>
             \E l, u : /\ Stages(Connection, s, p, l, u, r.fields)
                       /\ r.ok <=> r.fields.user # BadUser
  <2> HIDE DEF s
  <2> QED
    BY <1>1, <1>2, Resolving
<1>4. /\ p.source = g.source /\ p.server = g.server /\ p.user = g.user
      /\ p.database = g.database /\ p.proto = g.proto /\ p.port = UInt16(g.port)
  BY <1>3, CompletedString DEF Read
<1>5. p.port = g.port
  BY <1>4, UInt16Facts DEF Fields
<1> HIDE DEF s, r
<1>6. g.source # NoText
  BY ConnectionsAssumption DEF Settled, ConnectionsAssumption
<1>7. SectionOf(p) = ini[g.source]
  BY <1>4, <1>6 DEF SectionOf, Or
<1>15. UrlOf(p, SectionOf(p)) # BadUrl
  <2>1. p.url = NoUrl
    BY <1>3, CompletedString DEF Read, Connection, s
  <2> QED
    BY <2>1, <1>7 DEF UrlOf
<1>8. PICK l, u : Stages(Connection, s, p, l, u, r.fields) /\ (r.ok <=> r.fields.user # BadUser)
  BY <1>3, <1>5, <1>7, <1>15 DEF Settled
<1>9. r.fields.proto = g.proto
  BY <1>4, <1>8 DEF Stages, Loaded, Located, Completed, Or, Settled
<1>10. r.fields.server = g.server /\ r.fields.database = g.database
  BY <1>4, <1>8 DEF Stages, Loaded, Located, Completed, Or, Settled
<1>11. r.fields.port = g.port
  BY <1>5, <1>8 DEF Stages, Loaded, Located, Completed, OrNumber, Settled
<1>12. r.fields.user = Or(g.user, l.url.user)
  BY <1>4, <1>7, <1>8 DEF Stages, Loaded, Located, Completed, Or, Settled
<1>13. l.url.user # BadUser
  BY <1>8 DEF Stages, Fields, Url, GoodUrl
<1>14. r.fields.user # BadUser /\ r.fields.user = Or(g.user, r.fields.user)
  BY <1>12, <1>13 DEF Or, Settled
<1> QED
  BY <1>8, <1>9, <1>10, <1>11, <1>14 DEF r, s

(* The string that SQLDriverConnect returns connects to the same server, by*)
(* the same protocol, to the same catalog and for the same user, for every *)
(* configuration, when the string says all that is needed.                 *)
THEOREM CompletedStringsReconnect == Spec => []CompletedStringReconnects
<1>1. OpenedInv => CompletedStringReconnects
  <2> SUFFICES ASSUME OpenedInv, NEW c \in Conns, connected[c], SaysAll(ini, conn[c])
               PROVE  LET again == Resolve(Connection, nextKeyValuePair(connectionString(conn[c])))
                      IN  /\ again.ok
                          /\ Target(again.fields) = Target(conn[c].session)
                          /\ again.fields.database = conn[c].database
                          /\ again.fields.user = Or(conn[c].user, again.fields.user)
    BY DEF CompletedStringReconnects
  <2> DEFINE again == Resolve(Connection, connectionString(conn[c]))
  <2>1. ini \in IniFiles /\ conn[c] \in Fields /\ Opened(c)
    BY DEF OpenedInv, TypeOK
  <2>2. Settled(ini, conn[c])
    BY <2>1 DEF Opened
  <2>3. /\ ini[conn[c].source].timeout # BadNumber /\ ini[conn[c].source].url # BadUrl
        /\ nextKeyValuePair(connectionString(conn[c])) = connectionString(conn[c])
    BY <2>1, WrittenIsRead DEF SaysAll
  <2>4. /\ again.ok
        /\ again.fields.proto = conn[c].proto
        /\ again.fields.server = conn[c].server
        /\ again.fields.port = conn[c].port
        /\ again.fields.database = conn[c].database
        /\ again.fields.user = Or(conn[c].user, again.fields.user)
    BY <2>1, <2>2, <2>3, Reconnecting
  <2>5. again = Resolve(Connection, nextKeyValuePair(connectionString(conn[c])))
    BY <2>3
  <2> HIDE DEF again
  <2>6. Target(again.fields) = Target(conn[c].session)
    BY <2>1, <2>4 DEF Target, Opened
  <2> QED
    BY <2>4, <2>5, <2>6
<1> QED
  BY <1>1, OpenedInvariant, PTL

-----------------------------------------------------------------------------
(* On a connection that was just allocated both timeouts are the same.     *)
LEMMA StagesWait ==
  ASSUME NEW catalog, NEW string, NEW p, NEW l, NEW u, NEW g,
         Stages(Fresh(catalog), string, p, l, u, g)
  PROVE  g.connection_timeout = g.timeout
<1> DEFINE f == Fresh(catalog)
<1>1. f.timeout = 0 /\ f.connection_timeout = 0
  BY DEF Fresh, Connection
<1> HIDE DEF f
<1>2. p.connection_timeout = p.timeout
  BY <1>1 DEF Stages, Read, f
<1>3. l.connection_timeout = l.timeout
  BY <1>2 DEF Stages, Loaded, OrNumber
<1>4. u.connection_timeout = u.timeout
  BY <1>3 DEF Stages, Located
<1> QED
  BY <1>4 DEF Stages, Completed, OrNumber

(* ... and the stages lead to what is wanted.                              *)
LEMMA StagesMeet ==
  ASSUME ini \in IniFiles, NEW set, set.before \in Texts, set.after = NoText,
         NEW string, CanBeRead(string), PortsFit(ini, string),
         NEW p, NEW l, NEW u, NEW g,
         Stages(Fresh(set.before), string, p, l, u, g)
  PROVE  /\ Session(g) = Wanted(ini, string).session
         /\ g.path = Wanted(ini, string).path
         /\ g.database = WantedDatabase(ini, string, set)
<1> DEFINE section == SectionAsked(ini, string)
           url     == IF Setting(string, "url", NoUrl) # NoUrl
                      THEN Setting(string, "url", NoUrl) ELSE section.url
           given   == OrNumber(Setting(string, "port", 0), section.port)
           timeout == OrNumber(Setting(string, "timeout", 0), OrNumber(section.timeout, 30))
           said    == Said(string, NoText)
           secure  == section.sslmode # NoText \/ given = 8443
           chosen  == Or(said, IF secure THEN "https" ELSE url.scheme)
           named   == OrNumber(given, IF url # NoUrl THEN PortOf(url, chosen) ELSE 0)
           proto   == Or(chosen, IF named \in {443, 8443} THEN "https" ELSE "http")
           server  == Or(Setting(string, "server", NoText),
                         Or(section.server, Or(url.host, "localhost")))
           port    == OrNumber(named, IF proto = "https" THEN 8443 ELSE 8088)
           path == Or(url.path, "/odbc")
           database == WantedDatabase(ini, string, set)
           w == Wanted(ini, string)
           f == Fresh(set.before)
<1>1. w = [session  |-> [proto |-> proto, server |-> server, port |-> port,
                         connecting |-> timeout, waiting |-> timeout],
           path     |-> path]
  BY DEF Wanted
<1>2. w.session = [proto |-> proto, server |-> server, port |-> port,
                   connecting |-> timeout, waiting |-> timeout]
      /\ w.path = path
  <2> HIDE DEF w, proto, server, port, timeout, path
  <2> QED
    BY <1>1
<1> HIDE DEF w
<1>3. /\ f.source = NoText /\ f.url = NoUrl /\ f.server = NoText /\ f.proto = NoText
      /\ f.path = NoText /\ f.port = 0 /\ f.timeout = 0 /\ f.connection_timeout = 0
      /\ f.database = set.before
  BY DEF Fresh, Connection
<1> HIDE DEF f
<1>4. /\ p \in Fields /\ Read(f, string, p) /\ l \in Fields /\ Loaded(p, SectionOf(p), l)
      /\ u \in Fields /\ Located(l, u) /\ g \in Fields /\ Completed(u, g)
  BY DEF Stages, f
<1>5. SectionOf(p) = section
  BY <1>3, <1>4 DEF SectionOf, SectionAsked, Read
<1>21. LET port0 == Setting(string, "port", 0)
       IN  port0 \in Ports /\ (port0 = 0 => section.port \in Ports)
  BY DEF PortsFit
<1> HIDE DEF section
<1>6. Or(NoText, NoText) = NoText /\ \A a, b, k : Or(Or(a, b), k) = Or(a, Or(b, k))
  BY DEF Or
<1>7. l.url = url
  BY <1>3, <1>4, <1>5 DEF Read, Loaded, UrlOf
<1>8. l.port = given
  <2>1. l.port = OrNumber(UInt16(Setting(string, "port", 0)), UInt16(section.port))
    BY <1>3, <1>4, <1>5 DEF Read, Loaded
  <2> DEFINE asking == Setting(string, "port", 0)
  <2>2. UInt16(asking) = asking /\ (asking = 0 => UInt16(section.port) = section.port)
    BY <1>21, UInt16Facts
  <2>3. l.port = OrNumber(UInt16(asking), UInt16(section.port)) /\ given = OrNumber(asking, section.port)
    BY <2>1
  <2> HIDE DEF asking, given
  <2> QED
    BY <2>2, <2>3 DEF OrNumber
<1>9. l.proto = IF said = NoText /\ secure THEN "https" ELSE said
  BY <1>3, <1>4, <1>5, <1>8 DEF Read, Loaded
<1>10. "https" # NoText
  BY Zenon DEF NoText
<1> HIDE DEF url, given, said
<1>11. u.proto = chosen
  <2>1. u.proto = Or(l.proto, url.scheme)
    BY <1>4, <1>7 DEF Located
  <2> HIDE DEF secure
  <2> QED
    BY <2>1, <1>9, <1>10 DEF Or
<1> HIDE DEF chosen
<1>12. u.port = named
  BY <1>4, <1>7, <1>8, <1>11 DEF Located
<1> HIDE DEF named
<1>13. g.proto = proto
  BY <1>4, <1>11, <1>12 DEF Completed
<1> HIDE DEF proto
<1>14. g.port = port
  BY <1>4, <1>12, <1>13 DEF Completed
<1>15. g.server = server
  <2>1. p.server = Setting(string, "server", NoText)
    BY <1>3, <1>4 DEF Read
  <2>2. g.server = Or(Or(Or(p.server, section.server), url.host), "localhost")
    BY <1>4, <1>5, <1>7 DEF Loaded, Located, Completed
  <2> QED
    BY <2>1, <2>2, <1>6
<1>16. g.path = path
  <2>1. g.path = Or(Or(NoText, url.path), "/odbc")
    BY <1>3, <1>4, <1>7 DEF Read, Loaded, Located, Completed
  <2> QED
    BY <2>1 DEF Or
<1>17. g.database = database
  <2>1. g.database = Or(Or(Setting(string, "database", set.before), section.database), "default")
    BY <1>3, <1>4, <1>5 DEF Read, Loaded, Located, Completed
  <2>2. database = Or(Setting(string, "database", set.before), Or(section.database, "default"))
    BY DEF WantedDatabase, section, Or
  <2> QED
    BY <2>1, <2>2, <1>6
<1>18. g.timeout = timeout
  <2>1. g.timeout = OrNumber(OrNumber(Setting(string, "timeout", 0), section.timeout), 30)
    BY <1>3, <1>4, <1>5 DEF Read, Loaded, Located, Completed
  <2> QED
    BY <2>1 DEF OrNumber
<1>19. g.connection_timeout = g.timeout
  BY StagesWait
<1> HIDE DEF timeout, server, port, path, database
<1>20. Session(g) = [proto |-> proto, server |-> server, port |-> port,
                     connecting |-> timeout, waiting |-> timeout]
  BY <1>13, <1>14, <1>15, <1>18, <1>19 DEF Session
<1> QED
  BY <1>2, <1>16, <1>17, <1>20 DEF w, database

(* Before a connect a connection is as it was allocated, with the catalog  *)
(* set so far; after it, it has what was asked for.                        *)
Before(f, set) == f = Fresh(set.before) /\ set.after = NoText
After(config, string, f, set) ==
  /\ PortsFit(config, string) =>
       /\ f.session = Wanted(config, string).session
       /\ f.path = Wanted(config, string).path
       /\ f.database = WantedDatabase(config, string, set)
  /\ f.session.connecting = f.timeout
  /\ f.session.waiting = f.timeout
Aimed(c) ==
  IF connected[c] THEN After(ini, asked[c], conn[c], catalogs[c]) ELSE Before(conn[c], catalogs[c])
AimedInv == TypeOK /\ \A c \in Conns : Aimed(c)

(* A connect that gets through.                                            *)
LEMMA ConnectMeets ==
  ASSUME TypeOK, NEW c \in Conns, NEW string \in Strings, Before(conn[c], catalogs[c]),
         Resolve(conn[c], string).ok
  PROVE  LET f == Resolve(conn[c], string).fields
         IN  After(ini, string, [f EXCEPT !.session = Session(f)], catalogs[c])
<1> DEFINE f == Resolve(conn[c], string).fields
           s == Session(f)
           g == [f EXCEPT !.session = s]
           set == catalogs[c]
<1>1. conn[c] \in Fields /\ ini \in IniFiles /\ IsString(string) /\ set.before \in Texts
  BY StringFacts, CatalogFacts DEF TypeOK
<1>2. CanBeRead(string) /\ f \in Fields
  BY <1>1, Resolving
<1>3. \E p \in Fields : \E l, u : Stages(conn[c], string, p, l, u, f)
  BY <1>1, <1>2, Resolving
<1> HIDE DEF f
<1>4. PICK p \in Fields : \E l, u : Stages(conn[c], string, p, l, u, f)
  BY <1>3
<1>5. PICK l, u : Stages(conn[c], string, p, l, u, f)
  BY <1>4
<1>6. conn[c] = Fresh(set.before) /\ set.after = NoText
  BY DEF Before
<1>7. /\ PortsFit(ini, string) =>
           /\ s = Wanted(ini, string).session
           /\ f.path = Wanted(ini, string).path
           /\ f.database = WantedDatabase(ini, string, set)
      /\ f.connection_timeout = f.timeout
  <2> HIDE DEF set
  <2>1. Stages(Fresh(set.before), string, p, l, u, f)
    BY <1>5, <1>6
  <2>2. f.connection_timeout = f.timeout
    BY <2>1, StagesWait
  <2> QED
    BY <1>1, <1>2, <1>6, <2>1, <2>2, StagesMeet
<1>8. s \in Sessions /\ s.connecting = f.connection_timeout /\ s.waiting = f.timeout
  BY <1>2, SessionFields
<1> HIDE DEF s
<1>9. /\ g.session = s /\ g.path = f.path /\ g.database = f.database /\ g.timeout = f.timeout
  BY <1>2, <1>8, WithSession
<1> HIDE DEF g
<1>10. After(ini, string, g, set)
  BY <1>7, <1>8, <1>9 DEF After
<1> QED
  BY <1>10 DEF f, g, s, set

(* One connection changes, the others do not.                              *)
LEMMA OthersStayAimed ==
  ASSUME NEW c \in Conns, NEW d \in Conns, d # c, Aimed(d), ini' = ini,
         conn'[d] = conn[d], connected'[d] = connected[d], asked'[d] = asked[d],
         catalogs'[d] = catalogs[d]
  PROVE  Aimed(d)'
BY DEF Aimed

(* The invariant behind TargetIsAsked.                                     *)
LEMMA AimedInvariant ==
  ASSUME FreshHandles
  PROVE  Spec => []AimedInv
<1>1. Init /\ TypeOK => AimedInv
  <2> SUFFICES ASSUME Init, TypeOK, NEW c \in Conns PROVE Aimed(c)
    BY DEF AimedInv
  <2>1. ~connected[c] /\ conn[c] = Connection /\ catalogs[c] = [before |-> NoText, after |-> NoText]
    BY DEF Init
  <2>2. Connection = Fresh(NoText)
    BY DEF Connection, Fresh
  <2> QED
    BY <2>1, <2>2 DEF Aimed, Before
<1>2. AimedInv /\ TypeOK' /\ [Next]_vars => AimedInv'
  <2> SUFFICES ASSUME AimedInv, TypeOK', [Next]_vars, NEW d \in Conns PROVE Aimed(d)'
    BY DEF AimedInv
  <2>1. TypeOK /\ Aimed(d)
    BY DEF AimedInv
  <2>2. ASSUME NEW c \in Conns, NEW string \in Strings, Connect(c, string) PROVE Aimed(d)'
    <3> DEFINE f == Resolve(conn[c], string).fields
               g == [f EXCEPT !.session = Session(f)]
    <3>3. /\ (Resolve(conn[c], string).ok /\ Through(c, string, f)) \/ Fails(c, f)
          /\ ini' = ini /\ catalogs' = catalogs /\ ~connected[c]
      BY <2>2, ConnectOutcomes
    <3>1. CASE Resolve(conn[c], string).ok /\ Through(c, string, f)
      <4>1. /\ connected' = [connected EXCEPT ![c] = TRUE]
            /\ conn' = [conn EXCEPT ![c] = g]
            /\ asked' = [asked EXCEPT ![c] = string]
            /\ ini' = ini /\ catalogs' = catalogs
        <5> HIDE DEF f
        <5> QED
          BY <3>1, <3>3 DEF Through
      <4>2. CASE d = c
        <5>1. ~connected[c]
          BY <2>2 DEF Connect
        <5>2. Before(conn[c], catalogs[c])
          BY <2>1, <4>2, <5>1 DEF Aimed
        <5>3. After(ini, string, g, catalogs[c])
          BY <2>1, <3>1, <5>2, ConnectMeets
        <5> HIDE DEF g
        <5>4. connected'[d] /\ conn'[d] = g /\ asked'[d] = string
          BY <4>1, <4>2, <2>1 DEF TypeOK
        <5> QED
          BY <4>1, <4>2, <5>3, <5>4 DEF Aimed
      <4>3. CASE d # c
        <5> HIDE DEF g
        <5>1. conn'[d] = conn[d] /\ connected'[d] = connected[d] /\ asked'[d] = asked[d]
          BY <4>1, <4>3, <2>1 DEF TypeOK
        <5> QED
          BY <4>1, <4>3, <5>1, <2>1, OthersStayAimed
      <4> QED
        BY <4>2, <4>3
    <3>2. CASE Fails(c, f)
      <4>1. /\ conn' = [conn EXCEPT ![c] = Kept(c, f)]
            /\ ini' = ini /\ catalogs' = catalogs /\ asked' = asked
            /\ connected' = connected /\ ~connected[c]
        <5> HIDE DEF f
        <5> QED
          BY <3>2, <3>3 DEF Fails
      <4>2. Kept(c, f) = Fresh(catalogs[c].before)
        BY DEF Kept
      <4> HIDE DEF f
      <4>3. CASE d = c
        <5>1. conn'[d] = Fresh(catalogs[d].before) /\ ~connected'[d]
          BY <4>1, <4>2, <4>3, <2>1 DEF TypeOK
        <5> QED
          BY <4>1, <4>3, <5>1, <2>1 DEF Aimed, Before
      <4>4. CASE d # c
        <5>1. conn'[d] = conn[d]
          BY <4>1, <4>4, <2>1 DEF TypeOK
        <5> QED
          BY <4>1, <4>4, <5>1, <2>1, OthersStayAimed
      <4> QED
        BY <4>3, <4>4
    <3> QED
      BY <3>1, <3>2, <3>3
  <2>3. ASSUME NEW c \in Conns, Disconnect(c) PROVE Aimed(d)'
    <3>1. /\ conn' = [conn EXCEPT ![c] = Fresh(catalogs[c].before)]
          /\ connected' = [connected EXCEPT ![c] = FALSE]
          /\ asked' = [asked EXCEPT ![c] = <<>>]
          /\ catalogs' = [catalogs EXCEPT ![c] = [catalogs[c] EXCEPT !.after = NoText]]
          /\ ini' = ini
      BY <2>3 DEF Disconnect, Kept
    <3>2. CASE d = c
      <4> DEFINE set == [catalogs[c] EXCEPT !.after = NoText]
      <4>1. ~connected'[d] /\ conn'[d] = Fresh(catalogs[c].before) /\ catalogs'[d] = set
        BY <3>1, <3>2, <2>1 DEF TypeOK
      <4>2. set.after = NoText /\ set.before = catalogs[c].before
        BY <2>1 DEF TypeOK
      <4> HIDE DEF set
      <4> QED
        BY <4>1, <4>2 DEF Aimed, Before
    <3>3. CASE d # c
      <4>1. /\ conn'[d] = conn[d] /\ connected'[d] = connected[d] /\ asked'[d] = asked[d]
            /\ catalogs'[d] = catalogs[d]
        BY <3>1, <3>3, <2>1 DEF TypeOK
      <4> QED
        BY <3>1, <3>3, <4>1, <2>1, OthersStayAimed
    <3> QED
      BY <3>2, <3>3
  <2>4. ASSUME NEW c \in Conns, SetConnectionTimeout(c) PROVE Aimed(d)'
    <3> DEFINE g == TimeoutSet(conn[c])
    <3>1. /\ conn' = [conn EXCEPT ![c] = g] /\ ini' = ini /\ asked' = asked
          /\ connected' = connected /\ catalogs' = catalogs
      BY <2>4 DEF SetConnectionTimeout
    <3>2. conn[c] \in Fields
      BY <2>1 DEF TypeOK
    <3>3. CASE d = c
      <4>1. conn'[d] = g
        BY <3>1, <3>3, <2>1 DEF TypeOK
      <4>2. CASE connected[c]
        <5> DEFINE s == conn[c].session
                   t == conn[c].timeout
        <5>1. After(ini, asked[c], conn[c], catalogs[c])
          BY <2>1, <3>3, <4>2 DEF Aimed
        <5>2. /\ g.path = conn[c].path /\ g.database = conn[c].database /\ g.timeout = t
              /\ g.session = IF s = NoSession THEN NoSession
                             ELSE [s EXCEPT !.connecting = t, !.waiting = t]
          BY <3>2, WithTimeout
        <5>3. s \in Sessions /\ s.connecting = t /\ s.waiting = t
          BY <3>2, <5>1 DEF Fields, After
        <5> HIDE DEF g, s, t
        <5>4. g.session = s
          BY <5>2, <5>3 DEF Sessions
        <5>5. After(ini, asked[c], g, catalogs[c])
          BY <5>1, <5>2, <5>3, <5>4 DEF After, s, t
        <5> QED
          BY <3>1, <3>3, <4>1, <4>2, <5>5 DEF Aimed
      <4>3. CASE ~connected[c]
        <5>1. conn[c] = Fresh(catalogs[c].before) /\ catalogs[c].after = NoText
          BY <2>1, <3>3, <4>3 DEF Aimed, Before
        <5>2. Fresh(catalogs[c].before) \in Fields
          BY <3>2, <5>1
        <5>3. conn[c].session = NoSession /\ conn[c].timeout = 0 /\ conn[c].connection_timeout = 0
          BY <5>1 DEF Fresh, Connection
        <5>4. g = [conn[c] EXCEPT !.connection_timeout = conn[c].timeout]
          BY <5>3 DEF TimeoutSet
        <5>5. g = conn[c]
          BY <3>2, <5>3, <5>4 DEF Fields
        <5> HIDE DEF g
        <5> QED
          BY <3>1, <3>3, <4>1, <4>3, <5>1, <5>5 DEF Aimed, Before
      <4> QED
        BY <4>2, <4>3
    <3>4. CASE d # c
      <4> HIDE DEF g
      <4>1. conn'[d] = conn[d]
        BY <3>1, <3>4, <2>1 DEF TypeOK
      <4> QED
        BY <3>1, <3>4, <4>1, <2>1, OthersStayAimed
    <3> QED
      BY <3>3, <3>4
  <2>5. ASSUME NEW c \in Conns, NEW catalog \in Catalogs, SetCurrentCatalog(c, catalog)
        PROVE  Aimed(d)'
    <3> DEFINE g == [conn[c] EXCEPT !.database = catalog]
    <3>1. /\ conn' = [conn EXCEPT ![c] = g] /\ ini' = ini /\ asked' = asked
          /\ connected' = connected
      BY <2>5 DEF SetCurrentCatalog
    <3>2. catalogs' = IF connected[c]
                      THEN [catalogs EXCEPT ![c] = [catalogs[c] EXCEPT !.after = catalog]]
                      ELSE [catalogs EXCEPT ![c] = [catalogs[c] EXCEPT !.before = catalog]]
      BY <2>5 DEF SetCurrentCatalog
    <3>3. conn[c] \in Fields /\ catalog \in Texts /\ catalog # NoText
      BY <2>1, CatalogFacts DEF TypeOK
    <3>4. CASE d = c /\ connected[c]
      <4> DEFINE set == [catalogs[c] EXCEPT !.after = catalog]
      <4>1. conn'[d] = g /\ catalogs'[d] = set
        BY <3>1, <3>2, <3>4, <2>1 DEF TypeOK
      <4>2. set.after = catalog
        BY <2>1 DEF TypeOK
      <4>3. /\ g.path = conn[c].path /\ g.database = catalog /\ g.timeout = conn[c].timeout
            /\ g.session = conn[c].session
        BY <3>3, WithDatabase
      <4>4. After(ini, asked[c], conn[c], catalogs[c])
        BY <2>1, <3>4 DEF Aimed
      <4> HIDE DEF set, g
      <4>5. WantedDatabase(ini, asked[c], set) = catalog
        BY <3>3, <4>2 DEF WantedDatabase, Or
      <4>6. After(ini, asked[c], g, set)
        BY <4>3, <4>4, <4>5 DEF After
      <4> QED
        BY <3>1, <3>4, <4>1, <4>6 DEF Aimed
    <3>5. CASE d = c /\ ~connected[c]
      <4> DEFINE set == [catalogs[c] EXCEPT !.before = catalog]
      <4>1. conn'[d] = g /\ catalogs'[d] = set
        BY <3>1, <3>2, <3>5, <2>1 DEF TypeOK
      <4>2. set.before = catalog /\ set.after = catalogs[c].after
        BY <2>1 DEF TypeOK
      <4>3. conn[c] = Fresh(catalogs[c].before) /\ catalogs[c].after = NoText
        BY <2>1, <3>5 DEF Aimed, Before
      <4>4. g = Fresh(catalog)
        BY <4>3 DEF Fresh, Connection
      <4> HIDE DEF set, g
      <4> QED
        BY <3>1, <3>5, <4>1, <4>2, <4>3, <4>4 DEF Aimed, Before
    <3>6. CASE d # c
      <4> HIDE DEF g
      <4>1. conn'[d] = conn[d] /\ catalogs'[d] = catalogs[d]
        BY <3>1, <3>2, <3>6, <2>1 DEF TypeOK
      <4> QED
        BY <3>1, <3>6, <4>1, <2>1, OthersStayAimed
    <3> QED
      BY <3>4, <3>5, <3>6
  <2>6. CASE UNCHANGED vars
    BY <2>1, <2>6 DEF vars, Aimed
  <2> QED
    BY <2>2, <2>3, <2>4, <2>5, <2>6 DEF Next
<1> QED
  BY <1>1, <1>2, ConnectionsTyped, PTL DEF Spec

(* On connections that were just allocated the session, its path and the   *)
(* catalog are what string, attribute, data source, URL and defaults say,  *)
(* in this order, for every configuration and every string whose port is   *)
(* one.                                                                    *)
THEOREM TargetsAreAsked ==
  ASSUME FreshHandles
  PROVE  Spec => []TargetIsAsked
<1>1. AimedInv => TargetIsAsked
  <2> SUFFICES ASSUME AimedInv, NEW c \in Conns, connected[c], PortsFit(ini, asked[c])
               PROVE  LET wanted == Wanted(ini, asked[c])
                      IN  /\ conn[c].session = wanted.session
                          /\ conn[c].path = wanted.path
                          /\ conn[c].database = WantedDatabase(ini, asked[c], catalogs[c])
    BY DEF TargetIsAsked
  <2>1. After(ini, asked[c], conn[c], catalogs[c])
    BY DEF AimedInv, Aimed
  <2> QED
    BY <2>1 DEF After
<1> QED
  BY <1>1, AimedInvariant, PTL
=============================================================================
