--------------------------- MODULE StartupProofs ---------------------------
(***************************************************************************)
(* Theorems about Startup, for any files, addresses, ports, limits and     *)
(* arguments.                                                              *)
(***************************************************************************)
EXTENDS Startup, SequenceTheorems, TLAPS

Places == {"args", "file", "server", "item", "db", "init", "start", "accept", "run",
           "exit", "down"}

\* The places before a server is started.
Early == {"args", "file", "server", "item", "db", "init"}

FieldsTyped ==
  fields \in [text : {"unread", "bad", "overflow", "object"},
              server : {"unread", "absent", "null", "wrong", "array"},
              db : {"unread", "absent", "null", "wrong", "object"}]

\* The configuration: the default until a file is read, then what was loaded.
ConfTyped ==
  /\ conf_file \in Files
  /\ FieldsTyped
  /\ items \in Seq(Item) /\ servers \in Seq(Server)
  /\ db_num \in 1 .. 255

ArgsTyped == argv \in Seq(Options) /\ at \in 1 .. Len(argv) + 1 /\ code \in {"none", "success", "failure"}

\* An entry for each server, and each server as its entry asks.
Matched ==
  /\ Len(servers) = Len(items)
  /\ \A i \in 1 .. Len(items) : Sound(items[i]) => servers[i] = Asked(items[i])

\* How far the file was read.
FileOrder ==
  /\ pc \in {"args", "file", "server"} => fields.server = "unread"
  /\ pc \in {"item", "db"} => fields.server # "unread"
  /\ pc \notin {"exit", "down"} => IF fields.server = "unread" THEN items = <<>> /\ servers = <<Default>>
                                   ELSE Matched
  /\ pc \notin {"args", "exit", "down"} /\ conf_file = "" => fields.server = "unread"
  /\ pc \in {"file", "server", "item", "db"} => conf_file # ""

\* How far the servers were started.
ServerOrder ==
  /\ dbs \in 0 .. 255
  /\ next \in 1 .. Len(servers) + 1
  /\ listening \in Seq(Server)
  /\ pc \in Early => next = 1 /\ listening = <<>> /\ served = {} /\ dbs = 0
  /\ pc \in {"start", "accept", "run"} => dbs = db_num
  /\ pc = "start" => Len(listening) = next - 1
  /\ pc = "accept" => Len(listening) = next /\ next <= Len(servers)
  /\ pc = "run" => Len(listening) = Len(servers)
  /\ Len(listening) <= Len(servers)
  /\ pc \in {"start", "accept", "run"} =>
       /\ \A i \in 1 .. Len(listening) : listening[i] = servers[i]
       /\ \A i, j \in 1 .. Len(listening) : listening[i] = listening[j] => i = j
  /\ served \subseteq 1 .. Len(listening)
  /\ served # {} => dbs = db_num

Ready == pc \in Places /\ ArgsTyped /\ ConfTyped /\ FileOrder /\ ServerOrder

-----------------------------------------------------------------------------
(* The entries of the file. *)

\* What an entry is loaded as is a server, or marks the end of the process.
LEMMA PortTyped ==
  ASSUME NEW sc \in Server, NEW item \in Item, NEW got \in PortLoaded(sc, item)
  PROVE  /\ got \in Server \/ (got = Ended /\ item.port = "absent")
         /\ item.port \in Ports => got = [sc EXCEPT !.port = item.port]
         /\ item.port = "null" => got = sc
<1>1. PICK port \in Found(item.port, Ports \cup {"null", "wrong", "outside"}) :
        got = IF port \in Ports THEN [sc EXCEPT !.port = port]
              ELSE IF port = "down" THEN Ended ELSE sc
  BY DEF PortLoaded
<1>2. /\ item.port = "absent" => port \in Ports \cup {"null", "wrong", "outside", "down"}
      /\ item.port # "absent" => port = item.port
  BY <1>1 DEF Found
<1>3. item.port \in Ports => item.port # "absent" /\ item.port # "null"
  BY StartupAssumption
<1>4. item.port \in Ports \cup {"absent", "null", "wrong", "outside"}
  BY DEF Item
<1>5. CASE port \in Ports
  <2>1. got = [sc EXCEPT !.port = port] /\ got \in Server BY <1>1, <1>5 DEF Server
  <2> QED BY <2>1, <1>2, <1>3, <1>5, StartupAssumption
<1>6. CASE port \notin Ports /\ port = "down"
  BY <1>1, <1>2, <1>3, <1>4, <1>6, StartupAssumption
<1>7. CASE port \notin Ports /\ port # "down"
  BY <1>1, <1>2, <1>3, <1>7
<1> QED BY <1>5, <1>6, <1>7

\* The same from the ip on.
LEMMA IpTyped ==
  ASSUME NEW sc \in Server, NEW item \in Item, NEW type \in {"null", "ipv4", "ipv6"},
         NEW got \in IpLoaded(sc, type, item)
  PROVE  /\ \/ got \in Server
            \/ /\ got = Ended
               /\ \/ item.ip = "absent"
                  \/ item.ip = "wrong" /\ type # "null"
                  \/ item.port = "absent" /\ (item.ip = "null" \/ type # "null")
         /\ item.ip \in Ips /\ type # "null" => got \in PortLoaded([sc EXCEPT !.ip = item.ip], item)
         /\ item.ip = "null" => got \in PortLoaded(sc, item)
<1> DEFINE Of(ip) == IF ip = "null" THEN PortLoaded(sc, item)
                     ELSE IF ip = "down" THEN {Ended}
                     ELSE IF type = "null" THEN {sc}
                     ELSE IF ip = "wrong" THEN {Ended}
                     ELSE PortLoaded([sc EXCEPT !.ip = ip], item)
<1>1. PICK ip \in Found(item.ip, Ips \cup {"null", "wrong"}) : got \in Of(ip)
  BY DEF IpLoaded
<1>2. /\ item.ip = "absent" => ip \in Ips \cup {"null", "wrong", "down"}
      /\ item.ip # "absent" => ip = item.ip
  BY <1>1 DEF Found
<1>3. item.ip \in Ips => item.ip \notin {"absent", "null", "wrong", "down"}
  BY StartupAssumption
<1>4. item.ip \in Ips \cup {"absent", "null", "wrong"}
  BY DEF Item
<1>5. CASE ip = "null"
  <2>1. got \in PortLoaded(sc, item) BY <1>1, <1>5
  <2>2. got \in Server \/ (got = Ended /\ item.port = "absent") BY <2>1, PortTyped
  <2> QED BY <2>1, <2>2, <1>2, <1>3, <1>5
<1>6. CASE ip # "null" /\ (ip = "down" \/ (type # "null" /\ ip = "wrong"))
  <2>1. got = Ended BY <1>1, <1>6
  <2> QED BY <2>1, <1>2, <1>3, <1>4, <1>6, StartupAssumption
<1>7. CASE ip \notin {"null", "down"} /\ type = "null"
  <2>1. got = sc BY <1>1, <1>7
  <2> QED BY <2>1, <1>2, <1>3, <1>7
<1>8. CASE ip \notin {"null", "down", "wrong"} /\ type # "null"
  <2>1. got \in PortLoaded([sc EXCEPT !.ip = ip], item) BY <1>1, <1>8
  <2>2. ip \in Ips BY <1>2, <1>4, <1>8
  <2>3. [sc EXCEPT !.ip = ip] \in Server BY <2>2 DEF Server
  <2>4. got \in Server \/ (got = Ended /\ item.port = "absent") BY <2>1, <2>3, PortTyped
  <2> QED BY <2>1, <2>4, <1>2, <1>3, <1>8
<1> QED BY <1>5, <1>6, <1>7, <1>8

\* The mark for the end of the process is no server.
LEMMA DefaultTyped == Default \in Server /\ Ended \notin Server
BY StartupAssumption DEF Default, Ended, Server, Ips

\* A sound entry is loaded as it asks, and the process ends only in a fatal one.
LEMMA EntryLoaded ==
  ASSUME NEW item \in Item, NEW got \in Loaded(Fresh, item)
  PROVE  /\ got \in Server \/ (got = Ended /\ Fatal(item))
         /\ Sound(item) => got = Asked(item)
<1> DEFINE Of(type) ==
      IF type = "down" THEN {Ended}
      ELSE IF type = "null" THEN IpLoaded(Fresh, type, item)
      ELSE IF type \in {"ipv4", "ipv6"} THEN IpLoaded([Fresh EXCEPT !.type = type], type, item)
      ELSE {Fresh}
<1>1. PICK type \in Found(item.type, {"null", "wrong", "ipv4", "ipv6", "other"}) : got \in Of(type)
  BY DEF Loaded
<1>2. /\ item.type = "absent" => type \in {"null", "wrong", "ipv4", "ipv6", "other", "down"}
      /\ item.type # "absent" => type = item.type
  BY <1>1 DEF Found
<1>3. Fresh \in Server /\ Fresh = Default BY DefaultTyped DEF Fresh
<1>4. item.type \in {"absent", "null", "wrong", "ipv4", "ipv6", "other"} BY DEF Item
<1>5. CASE type = "down"
  <2>1. got = Ended /\ item.type = "absent" BY <1>1, <1>2, <1>4, <1>5
  <2> QED BY <2>1 DEF Sound, Fatal
<1>6. CASE type \in {"null", "ipv4", "ipv6"}
  <2> DEFINE sc == IF type = "null" THEN Fresh ELSE [Fresh EXCEPT !.type = type]
  <2>1. got \in IpLoaded(sc, type, item) BY <1>1, <1>6
  <2>2. sc \in Server BY <1>3, <1>6 DEF Server
  <2> HIDE DEF sc
  <2>3. got \in Server \/ (got = Ended /\ Fatal(item))
    <3>1. item.type = "absent" \/ item.type = type BY <1>2
    <3> QED BY <2>1, <2>2, <3>1, <1>6, IpTyped DEF Fatal
  <2>4. ASSUME Sound(item) PROVE got = Asked(item)
    <3>1. type = item.type BY <1>2, <2>4 DEF Sound
    <3>2. sc = [Default EXCEPT !.type = IF item.type = "null" THEN "ipv4" ELSE item.type]
      BY <3>1, <1>3 DEF sc, Default
    <3> DEFINE with == IF item.ip = "null" THEN sc ELSE [sc EXCEPT !.ip = item.ip]
    <3>3. item.ip \in Ips \cup {"null"} /\ (item.ip # "null" => type # "null")
      BY <2>4, <3>1 DEF Sound
    <3>4. got \in PortLoaded(with, item) BY <2>1, <2>2, <3>3, <1>6, IpTyped
    <3>5. with \in Server BY <2>2, <3>3 DEF Server
    <3> HIDE DEF with
    <3>6. got = IF item.port = "null" THEN with ELSE [with EXCEPT !.port = item.port]
      BY <2>4, <3>4, <3>5, PortTyped, StartupAssumption DEF Sound
    <3> QED BY <3>2, <3>6 DEF with, Asked, Default
  <2> QED BY <2>3, <2>4
<1>7. CASE type \notin {"down", "null", "ipv4", "ipv6"}
  <2>1. got = Fresh BY <1>1, <1>7
  <2>2. ~Sound(item) BY <1>2, <1>4, <1>7 DEF Sound
  <2> QED BY <2>1, <2>2, <1>3
<1> QED BY <1>5, <1>6, <1>7

-----------------------------------------------------------------------------
(* The steps. *)

\* The facts of arithmetic that the steps below need of the constants.
LEMMA Bounds == MaxArgs \in Nat /\ \A n \in Numbers : n \in Int
BY StartupAssumption

\* A number that passes the test of the range is a number of databases.
LEMMA InRangeTyped == \A n \in Numbers : InRange(n) => n \in 1 .. 255
BY Bounds DEF InRange

\* So is every number that LoadDb sets.
LEMMA DbNumTyped ==
  ASSUME NEW x, NEW y \in 1 .. 255,
         x \in {16, y} \/ \E n \in Numbers : InRange(n) /\ x = n
  PROVE  x \in 1 .. 255
<1>1. CASE x = 16 BY <1>1
<1>2. CASE x = y BY <1>2
<1>3. CASE \E n \in Numbers : InRange(n) /\ x = n BY <1>3, InRangeTyped
<1> QED BY <1>1, <1>2, <1>3

\* The default configuration is one server.
LEMMA OneServer == <<Default>> \in Seq(Server) /\ Len(<<Default>>) = 1
BY DefaultTyped

\* Before the arguments are read.
LEMMA ReadyInit == Init => Ready
<1> SUFFICES ASSUME Init PROVE Ready
  OBVIOUS
<1>1. pc = "args" /\ conf_file = "" /\ items = <<>> /\ servers = <<Default>> /\ listening = <<>>
  BY DEF Init
<1>a. code = "none" /\ at = 1
  BY DEF Init
<1>b. fields = [text |-> "unread", server |-> "unread", db |-> "unread"] /\ db_num = 16
  BY DEF Init
<1>c. next = 1 /\ served = {} /\ dbs = 0
  BY DEF Init
<1>2. PICK n \in 0 .. MaxArgs : argv \in [1 .. n -> Options]
  BY DEF Init
<1>3. ArgsTyped
  <2>1. n \in Nat BY <1>2, Bounds
  <2>2. argv \in Seq(Options) BY <1>2, <2>1
  <2>3. Len(argv) \in Nat BY <2>2
  <2> QED BY <1>a, <2>2, <2>3 DEF ArgsTyped
<1>4. servers \in Seq(Server) /\ Len(servers) = 1
  BY <1>1, OneServer
<1>5. ConfTyped
  <2>1. conf_file \in Files BY <1>1, StartupAssumption
  <2>2. items \in Seq(Item) BY <1>1, EmptySeq
  <2>3. FieldsTyped BY <1>b DEF FieldsTyped
  <2>4. db_num \in 1 .. 255 BY <1>b
  <2> QED BY <1>4, <2>1, <2>2, <2>3, <2>4 DEF ConfTyped
<1>6. FileOrder BY <1>1, <1>b DEF FileOrder
<1>7. ServerOrder
  <2>1. listening \in Seq(Server) /\ Len(listening) = 0 BY <1>1, EmptySeq
  <2>2. next \in 1 .. Len(servers) + 1 BY <1>4, <1>c
  <2>3. dbs \in 0 .. 255 /\ served \subseteq 1 .. Len(listening) BY <1>c
  <2>4. pc \notin {"start", "accept", "run"} BY <1>1
  <2>5. listening = <<>> /\ next = 1 /\ served = {} /\ dbs = 0 BY <1>1, <1>c
  <2> QED BY <1>4, <2>1, <2>2, <2>3, <2>4, <2>5 DEF ServerOrder
<1> QED BY <1>1, <1>3, <1>5, <1>6, <1>7 DEF Ready, Places

\* No server is started yet, or none will be.
LEMMA Onwards ==
  ASSUME Ready, ArgsTyped', ConfTyped', FileOrder', UNCHANGED <<dbs, serverVars>>,
         pc \in Early, pc' \in Early \cup {"exit", "down"}
  PROVE  Ready'
<1>1. next = 1 /\ listening = <<>> /\ served = {} /\ dbs = 0
  BY DEF Ready, ServerOrder
<1>2. next' = 1 /\ listening' = <<>> /\ served' = {} /\ dbs' = 0
  BY <1>1 DEF serverVars
<1>3. Len(servers') \in Nat BY DEF ConfTyped
<1>4. ServerOrder'
  BY <1>2, <1>3 DEF ServerOrder, Early
<1> QED BY <1>4 DEF Ready, Places, Early

\* Arguments and the text of the file move no server and neither field.
LEMMA ArgsSteps ==
  ASSUME Ready, Help \/ BadOption \/ Option \/ ArgsEnd \/ FileFails \/ FileThrows \/ FileRead
  PROVE  Ready'
<1> USE DEF Ready, ArgsTyped, ConfTyped, confVars, Goto, Return
<1>1. Len(argv) \in Nat /\ Len(servers) \in Nat /\ next <= Len(servers) + 1
  BY DEF ServerOrder
<1>2. /\ UNCHANGED <<argv, items, servers, db_num, dbs, serverVars>> /\ pc \in {"args", "file"}
      /\ fields' = fields \/ \E text \in {"bad", "overflow", "object"} :
                              fields' = [fields EXCEPT !.text = text]
  BY DEF Help, BadOption, Option, ArgsEnd, FileFails, FileThrows, FileRead, Text
<1>3. /\ at' \in 1 .. Len(argv) + 1 /\ conf_file' \in Files
      /\ code' \in {"none", "success", "failure"}
  <2>1. CASE Option
    <3>1. argv[at] \in Options BY <1>1, <2>1 DEF Option
    <3>2. argv[at].opt = "config" => argv[at].file \in Files BY <3>1 DEF Options
    <3> QED BY <1>1, <2>1, <3>2 DEF Option
  <2>2. CASE ~Option BY <2>2 DEF Help, BadOption, ArgsEnd, FileFails, FileThrows, FileRead, Text
  <2> QED BY <2>1, <2>2
<1>4. pc \in Early /\ pc' \in Early \cup {"exit", "down"}
  BY <1>2 DEF Help, BadOption, Option, ArgsEnd, FileFails, FileThrows, FileRead, Text, Early
<1>5. FileOrder'
  <2>1. fields.server = "unread" /\ items = <<>> /\ servers = <<Default>>
    BY <1>2 DEF FileOrder
  <2>2. pc' \in {"args", "file", "server", "init", "exit", "down"}
    BY DEF Help, BadOption, Option, ArgsEnd, FileFails, FileThrows, FileRead, Text
  <2>3. pc' \in {"file", "server"} => conf_file' # ""
    BY DEF Help, BadOption, Option, ArgsEnd, FileFails, FileThrows, FileRead, Text, FileOrder
  <2>4. fields'.server = fields.server BY <1>2 DEF FieldsTyped
  <2> QED BY <1>2, <2>1, <2>2, <2>3, <2>4 DEF FileOrder
<1>6. ArgsTyped' /\ ConfTyped' BY <1>2, <1>3 DEF FieldsTyped
<1> QED BY <1>2, <1>4, <1>5, <1>6, Onwards

\* The field server is read once, and then no entry is loaded yet.
LEMMA LoadServersStep ==
  ASSUME Ready, NEW field \in {"absent", "null", "wrong", "array"}, LoadServers(field)
  PROVE  Ready'
<1> USE DEF Ready, ArgsTyped, ConfTyped, LoadServers, Goto, Return
<1>1. /\ fields' = [fields EXCEPT !.server = field] /\ fields'.server # "unread"
      /\ FieldsTyped'
  BY DEF FieldsTyped
<1>2. /\ pc' \in {"db", "item", "exit", "down"}
      /\ code' \in {"none", "success", "failure"}
      /\ pc' \in {"db", "item"} => servers' = <<>>
      /\ servers' \in {<<>>, servers}
  BY DEF Found
<1>3. servers' \in Seq(Server) BY <1>2, EmptySeq
<1>4. ArgsTyped' /\ ConfTyped' BY <1>1, <1>2, <1>3
<1>5. items' = <<>> /\ conf_file' # "" BY DEF FileOrder
<1>6. FileOrder'
  <2>1. ASSUME pc' \in {"db", "item"} PROVE Matched'
    <3>1. servers' = <<>> /\ items' = <<>> BY <1>2, <1>5, <2>1
    <3>2. Len(servers') = 0 /\ Len(items') = 0 BY <3>1
    <3> QED BY <3>2 DEF Matched
  <2> QED BY <1>1, <1>2, <1>5, <2>1 DEF FileOrder
<1>7. pc \in Early /\ pc' \in Early \cup {"exit", "down"} /\ UNCHANGED <<dbs, serverVars>>
  BY <1>2 DEF Early
<1> QED BY <1>4, <1>6, <1>7, Onwards

\* One entry more, and one server.
LEMMA LoadItemStep ==
  ASSUME Ready, NEW item \in Item, LoadItem(item)
  PROVE  Ready'
<1> USE DEF Ready, ArgsTyped, ConfTyped, Goto
<1>1. PICK sc \in Loaded(Fresh, item) :
        IF sc = Ended THEN pc' = "down" /\ UNCHANGED <<code, servers>>
        ELSE pc' = "item" /\ UNCHANGED code /\ servers' = Append(servers, sc)
  BY DEF LoadItem
<1>2. /\ pc = "item" /\ items' = Append(items, item)
      /\ UNCHANGED <<argv, at, conf_file, fields, db_num, dbs, serverVars>>
  BY DEF LoadItem
<1>3. sc # Ended => sc \in Server BY EntryLoaded
<1>4. items' \in Seq(Item) /\ servers' \in Seq(Server) /\ Len(servers') \in Nat
  <2>1. CASE sc = Ended BY <1>1, <1>2, <2>1
  <2>2. CASE sc # Ended
    <3>1. servers' = Append(servers, sc) /\ sc \in Server BY <1>1, <1>3, <2>2
    <3> QED BY <1>2, <3>1
  <2> QED BY <2>1, <2>2
<1>5. ArgsTyped' /\ ConfTyped' BY <1>1, <1>2, <1>4 DEF FieldsTyped
<1>6. FileOrder'
  <2>1. CASE sc = Ended BY <1>1, <1>2, <2>1 DEF FileOrder
  <2>2. CASE sc # Ended
    <3>1. Matched /\ fields.server # "unread" BY <1>2 DEF FileOrder
    <3>2. servers' = Append(servers, sc) BY <1>1, <2>2
    <3>3. Len(servers') = Len(items') BY <1>2, <3>1, <3>2 DEF Matched
    <3>4. ASSUME NEW i \in 1 .. Len(items'), Sound(items'[i])
          PROVE  servers'[i] = Asked(items'[i])
      <4>1. CASE i = Len(items) + 1
        <5>1. items'[i] = item /\ servers'[i] = sc BY <1>2, <3>1, <3>2, <4>1 DEF Matched
        <5> QED BY <5>1, <3>4, EntryLoaded
      <4>2. CASE i # Len(items) + 1
        <5>1. i \in 1 .. Len(items) /\ i \in 1 .. Len(servers)
          BY <1>2, <3>1, <4>2 DEF Matched
        <5>2. items'[i] = items[i] /\ servers'[i] = servers[i] BY <1>2, <3>2, <5>1
        <5> QED BY <3>1, <3>4, <5>1, <5>2 DEF Matched
      <4> QED BY <4>1, <4>2
    <3>5. Matched' BY <3>3, <3>4 DEF Matched
    <3> QED BY <1>1, <1>2, <2>2, <3>1, <3>5 DEF FileOrder
  <2> QED BY <2>1, <2>2
<1>7. pc \in Early /\ pc' \in Early \cup {"exit", "down"}
  BY <1>1, <1>2 DEF Early
<1> QED BY <1>2, <1>5, <1>6, <1>7, Onwards

\* The field db leaves the servers alone.
LEMMA LoadDbStep ==
  ASSUME Ready, ItemsEnd \/ \E field \in {"absent", "null", "wrong", "object"} : LoadDb(field)
  PROVE  Ready'
<1> USE DEF Ready, ArgsTyped, ConfTyped, Goto, Return
<1>1. /\ pc \in {"item", "db"} /\ UNCHANGED <<argv, at, conf_file, items, servers, dbs, serverVars>>
      /\ pc' \in {"db", "init", "exit", "down"}
      /\ code' \in {"none", "success", "failure"}
      /\ fields'.server = fields.server
  BY DEF ItemsEnd, LoadDb, confVars, FieldsTyped
<1>2. FieldsTyped' /\ db_num' \in 1 .. 255
  <2>1. CASE ItemsEnd BY <2>1 DEF ItemsEnd, confVars, FieldsTyped
  <2>2. ASSUME NEW field \in {"absent", "null", "wrong", "object"}, LoadDb(field)
        PROVE  /\ fields' = [fields EXCEPT !.db = field]
               /\ db_num' \in 1 .. 255
    <3>1. fields' = [fields EXCEPT !.db = field] BY <2>2 DEF LoadDb
    <3>2. db_num' \in {16, db_num} \/ \E n \in Numbers : InRange(n) /\ db_num' = n
      BY <2>2 DEF LoadDb
    <3>3. db_num \in 1 .. 255 OBVIOUS
    <3>4. db_num' \in 1 .. 255 BY <3>2, <3>3, DbNumTyped
    <3> QED BY <3>1, <3>4
  <2> QED BY <2>1, <2>2 DEF FieldsTyped
<1>3. ArgsTyped' /\ ConfTyped' BY <1>1, <1>2
<1>4. FileOrder'
  <2>1. Matched' <=> Matched BY <1>1 DEF Matched
  <2> QED BY <1>1, <2>1 DEF FileOrder
<1>5. pc \in Early /\ pc' \in Early \cup {"exit", "down"}
  BY <1>1 DEF Early
<1> QED BY <1>1, <1>3, <1>4, <1>5, Onwards

\* Servers are started in the order of the file, at end points not yet listened on.
LEMMA ServerSteps ==
  ASSUME Ready, InitInst \/ Listen \/ ListenFails \/ Accept \/ SessionEndsAll \/ Run
  PROVE  Ready'
<1> USE DEF Ready, Goto, Return
<1>1. UNCHANGED <<argv, at, conf_file, confVars>> /\ pc \in {"init", "start", "accept"}
  BY DEF InitInst, Listen, ListenFails, Accept, SessionEndsAll, Run
<1>2. /\ pc' \in {"start", "exit", "accept", "down", "run"}
      /\ code' \in {"none", "success", "failure"}
  BY DEF InitInst, Listen, ListenFails, Accept, SessionEndsAll, Run, ArgsTyped
<1>3. ArgsTyped' /\ ConfTyped' BY <1>1, <1>2 DEF ArgsTyped, ConfTyped, FieldsTyped, confVars
<1>4. FileOrder'
  <2>1. Matched' <=> Matched BY <1>1 DEF Matched, confVars
  <2> QED BY <1>1, <1>2, <2>1 DEF FileOrder, confVars
<1>5. Len(servers) \in Nat /\ Len(listening) \in Nat /\ db_num \in 1 .. 255 /\ dbs \in 0 .. 255
  BY DEF ConfTyped, ServerOrder
<1>6. ServerOrder'
  <2>1. CASE InitInst
    BY <1>5, <2>1 DEF InitInst, ServerOrder, Early, confVars, serverVars
  <2>2. CASE Listen
    <3>1. /\ pc = "start" /\ pc' = "accept" /\ next <= Len(servers) /\ Bindable(servers[next])
          /\ listening' = Append(listening, servers[next])
          /\ UNCHANGED <<confVars, dbs, next, served>>
      BY <2>2 DEF Listen
    <3>2. servers[next] \in Server /\ Len(listening) = next - 1
      BY <1>5, <3>1 DEF ServerOrder, ConfTyped
    <3>3. listening' \in Seq(Server) /\ Len(listening') = next
      BY <1>5, <3>1, <3>2 DEF ServerOrder
    <3>4. \A i \in 1 .. Len(listening') :
            listening'[i] = IF i = next THEN servers[next] ELSE listening[i]
      BY <1>5, <3>1, <3>2, <3>3 DEF ServerOrder
    <3>5. \A i \in 1 .. Len(listening) : listening[i] # servers[next]
      BY <3>1 DEF Bindable
    <3>6. \A i \in 1 .. Len(listening') : listening'[i] = servers'[i]
      BY <1>5, <3>1, <3>2, <3>3, <3>4 DEF ServerOrder, confVars
    <3>7. \A i, j \in 1 .. Len(listening') : listening'[i] = listening'[j] => i = j
      BY <1>5, <3>1, <3>2, <3>3, <3>4, <3>5 DEF ServerOrder
    <3>8. served' \subseteq 1 .. Len(listening') /\ Len(listening') <= Len(servers')
      BY <1>5, <3>1, <3>2, <3>3 DEF ServerOrder, confVars
    <3> QED BY <3>1, <3>3, <3>6, <3>7, <3>8 DEF ServerOrder, Early, confVars
  <2>3. CASE ListenFails
    BY <2>3 DEF ListenFails, ServerOrder, Early, confVars, serverVars
  <2>4. CASE Accept
    <3>1. /\ pc = "accept" /\ pc' = "start" /\ next' = next + 1
          /\ served' \in {served, served \cup {next}} /\ UNCHANGED <<confVars, dbs, listening>>
      BY <2>4 DEF Accept
    <3> QED BY <1>5, <3>1 DEF ServerOrder, Early, confVars
  <2>a. CASE SessionEndsAll
    <3>1. /\ pc = "accept" /\ pc' = "down"
          /\ served' = served \cup {next} /\ UNCHANGED <<confVars, dbs, next, listening>>
      BY <2>a DEF SessionEndsAll
    <3> QED BY <1>5, <3>1 DEF ServerOrder, Early, confVars
  <2>5. CASE Run
    BY <1>5, <2>5 DEF Run, ServerOrder, Early, confVars, serverVars
  <2> QED BY <2>1, <2>2, <2>3, <2>4, <2>a, <2>5
<1> QED BY <1>2, <1>3, <1>4, <1>6 DEF Places

\* Every step of main preserves Ready.
LEMMA ReadyStep == Ready /\ [Next]_vars => Ready'
<1> SUFFICES ASSUME Ready, [Next]_vars PROVE Ready'
  OBVIOUS
<1>1. CASE Help \/ BadOption \/ Option \/ ArgsEnd \/ FileFails \/ FileThrows \/ FileRead
  BY <1>1, ArgsSteps
<1>2. CASE \E field \in {"absent", "null", "wrong", "array"} : LoadServers(field)
  BY <1>2, LoadServersStep
<1>3. CASE \E item \in Item : LoadItem(item)
  BY <1>3, LoadItemStep
<1>4. CASE ItemsEnd \/ \E field \in {"absent", "null", "wrong", "object"} : LoadDb(field)
  BY <1>4, LoadDbStep
<1>5. CASE InitInst \/ Listen \/ ListenFails \/ Accept \/ SessionEndsAll \/ Run
  BY <1>5, ServerSteps
<1>6. CASE UNCHANGED vars
  <2>1. ArgsTyped' /\ ConfTyped' BY <1>6 DEF Ready, ArgsTyped, ConfTyped, FieldsTyped, vars, confVars
  <2>2. FileOrder' BY <1>6 DEF Ready, FileOrder, Matched, vars, confVars
  <2>3. ServerOrder' BY <1>6 DEF Ready, ServerOrder, vars, confVars, serverVars
  <2> QED BY <1>6, <2>1, <2>2, <2>3 DEF Ready, vars
<1> QED BY <1>1, <1>2, <1>3, <1>4, <1>5, <1>6 DEF Next

\* Ready is an inductive invariant.
THEOREM Prepared == Spec => []Ready
BY ReadyInit, ReadyStep, PTL DEF Spec

-----------------------------------------------------------------------------
(* The properties. *)

\* Whatever the arguments and the file are, the configuration has its types:
\* in particular 1 to 255 databases, and types, ips and ports that exist.
THEOREM StartupTypeCorrect == Spec => []TypeOK
<1>1. Ready => TypeOK
  <2> SUFFICES ASSUME Ready PROVE TypeOK
    OBVIOUS
  <2>1. /\ Len(servers) \in Nat /\ next \in 1 .. Len(servers) + 1 /\ Len(listening) \in Nat
        /\ served \subseteq 1 .. Len(listening) /\ Len(listening) <= Len(servers)
    BY DEF Ready, ConfTyped, ServerOrder
  <2>2. served \subseteq 1 .. Len(servers)
    BY <2>1
  <2> QED BY <2>1, <2>2 DEF Ready, Places, ArgsTyped, ConfTyped, FieldsTyped, ServerOrder, TypeOK
<1> QED BY <1>1, Prepared, PTL

\* No server, not even the first of several, meets a client before Inst::Init.
THEOREM ServedCorrect == Spec => []ServedWithDatabases
<1>1. Ready => ServedWithDatabases
  BY DEF Ready, ConfTyped, ServerOrder, ServedWithDatabases
<1> QED BY <1>1, Prepared, PTL

\* When the loop runs, every server listens, at an end point of its own, and
\* every sound entry of the file at the one that it asks for.
THEOREM ListensCorrect == Spec => []ListensAsAsked
<1>1. Ready => ListensAsAsked
  <2> SUFFICES ASSUME Ready, pc = "run" PROVE ListensAsAsked
    BY DEF ListensAsAsked
  <2>1. /\ servers \in Seq(Server) /\ listening \in Seq(Server)
        /\ Len(listening) = Len(servers)
        /\ \A i \in 1 .. Len(listening) : listening[i] = servers[i]
        /\ \A i, j \in 1 .. Len(listening) : listening[i] = listening[j] => i = j
    BY DEF Ready, ConfTyped, ServerOrder
  <2>2. listening = servers
    BY <2>1, SeqEqual
  <2>3. IF fields.server = "unread" THEN items = <<>> /\ servers = <<Default>> ELSE Matched
    BY DEF Ready, FileOrder
  <2>4. conf_file = "" => fields.server = "unread"
    BY DEF Ready, FileOrder
  <2>5. \A i \in 1 .. Len(items) : Sound(items[i]) => listening[i] = Asked(items[i])
    BY <2>2, <2>3 DEF Matched
  <2>6. fields.server = "array" => Len(listening) = Len(items)
    BY <2>2, <2>3 DEF Matched
  <2> QED BY <2>1, <2>2, <2>3, <2>4, <2>5, <2>6 DEF ListensAsAsked
<1> QED BY <1>1, Prepared, PTL

\* Before the databases only the file ends the process, and of its entries only
\* the last that was looked at; after that only a session of the server that is
\* being started.
THEOREM DownCorrect == Spec => []DownOnlyByFileOrSession
<1>1. Init => DownOnlyByFileOrSession
  BY DEF Init, DownOnlyByFileOrSession
<1>2. ASSUME Ready, DownOnlyByFileOrSession, [Next]_vars PROVE DownOnlyByFileOrSession'
  <2> USE <1>2
  <2> SUFFICES ASSUME pc' = "down" PROVE DownOnlyByFileOrSession'
    BY DEF DownOnlyByFileOrSession
  <2> USE DEF Goto, Return
  <2>0. pc \in {"file", "server", "item", "db"} => dbs = 0 /\ listening = <<>> /\ conf_file # ""
    BY DEF Ready, ServerOrder, FileOrder, Early
  <2>1. ASSUME NEW field \in {"absent", "null", "wrong", "array"}, LoadServers(field)
        PROVE  DownOnlyByFileOrSession'
    <3>1. field = "absent" BY <2>1 DEF LoadServers, Found
    <3>2. fields'.server = "absent"
      BY <2>1, <3>1 DEF LoadServers, Ready, ConfTyped, FieldsTyped
    <3>3. dbs' = 0 /\ listening' = <<>> /\ conf_file' # "" BY <2>0, <2>1 DEF LoadServers, serverVars
    <3> QED BY <3>2, <3>3 DEF DownOnlyByFileOrSession
  <2>2. ASSUME NEW item \in Item, LoadItem(item)
        PROVE  DownOnlyByFileOrSession'
    <3>1. Ended \in Loaded(Fresh, item) BY <2>2 DEF LoadItem
    <3>2. Fatal(item) BY <3>1, DefaultTyped, EntryLoaded
    <3>3. items' = Append(items, item) /\ items \in Seq(Item)
      BY <2>2 DEF LoadItem, Ready, ConfTyped
    <3>4. items' # <<>> /\ items'[Len(items')] = item BY <3>3
    <3>5. dbs' = 0 /\ listening' = <<>> /\ conf_file' # "" BY <2>0, <2>2 DEF LoadItem, serverVars
    <3> QED BY <3>2, <3>4, <3>5 DEF DownOnlyByFileOrSession
  <2>3. ASSUME NEW field \in {"absent", "null", "wrong", "object"}, LoadDb(field)
        PROVE  DownOnlyByFileOrSession'
    <3>1. field = "absent" BY <2>3 DEF LoadDb, Found
    <3>2. fields'.db = "absent" BY <2>3, <3>1 DEF LoadDb, Ready, ConfTyped, FieldsTyped
    <3>3. dbs' = 0 /\ listening' = <<>> /\ conf_file' # "" BY <2>0, <2>3 DEF LoadDb, serverVars
    <3> QED BY <3>2, <3>3 DEF DownOnlyByFileOrSession
  <2>4. CASE FileThrows
    <3>1. fields'.text = "overflow" BY <2>4 DEF FileThrows, Text, Ready, ConfTyped, FieldsTyped
    <3>2. dbs' = 0 /\ listening' = <<>> /\ conf_file' # ""
      BY <2>0, <2>4 DEF FileThrows, Text, serverVars
    <3> QED BY <3>1, <3>2 DEF DownOnlyByFileOrSession
  <2>5. CASE SessionEndsAll
    <3>1. /\ pc = "accept" /\ served' = served \cup {next}
          /\ UNCHANGED <<confVars, dbs, listening>>
      BY <2>5 DEF SessionEndsAll
    <3>2. dbs = db_num /\ Len(listening) = next BY <3>1 DEF Ready, ServerOrder
    <3> QED BY <3>1, <3>2 DEF DownOnlyByFileOrSession, confVars
  <2>6. CASE UNCHANGED vars
    BY <2>6 DEF DownOnlyByFileOrSession, vars, confVars, serverVars
  <2>7. CASE \/ Help \/ BadOption \/ Option \/ ArgsEnd \/ FileFails \/ FileRead
             \/ ItemsEnd \/ InitInst \/ Listen \/ ListenFails \/ Accept \/ Run
    BY <2>7 DEF Help, BadOption, Option, ArgsEnd, FileFails, FileRead, ItemsEnd,
                InitInst, Listen, ListenFails, Accept, Run
  <2> QED BY <2>1, <2>2, <2>3, <2>4, <2>5, <2>6, <2>7 DEF Next
<1> QED BY <1>1, <1>2, Prepared, PTL DEF Spec

-----------------------------------------------------------------------------
(* The arguments. *)

Known(option) == option.opt \in {"config", "word"}
Named(option) == option.opt = "config"

\* The options before the one that is read next are known, and the file is the
\* last that they name.
ArgsRead ==
  pc = "args" =>
    /\ \A j \in 1 .. at - 1 : Known(argv[j])
    /\ \/ conf_file = "" /\ \A j \in 1 .. at - 1 : ~Named(argv[j])
       \/ \E i \in 1 .. at - 1 :
            /\ Named(argv[i]) /\ conf_file = argv[i].file
            /\ \A j \in i + 1 .. at - 1 : ~Named(argv[j])

\* An option that the loop passes over keeps ArgsRead.
LEMMA ArgsReadStep ==
  ASSUME Ready, ArgsRead, [Next]_vars
  PROVE  ArgsRead'
<1> SUFFICES ASSUME pc' = "args" PROVE ArgsRead'
  BY DEF ArgsRead
<1>1. CASE Option
  <2>1. at \in Nat \ {0} /\ at' = at + 1 /\ argv' = argv
    BY <1>1 DEF Option, Ready, ArgsTyped
  <2>2. /\ pc = "args" /\ Known(argv[at])
        /\ conf_file' = IF Named(argv[at]) THEN argv[at].file ELSE conf_file
    BY <1>1 DEF Option, Known, Named
  <2>3. at' - 1 = at /\ \A j \in 1 .. at : j = at \/ j \in 1 .. at - 1
    BY <2>1
  <2>4. \A j \in 1 .. at' - 1 : Known(argv'[j])
    BY <2>1, <2>2, <2>3 DEF ArgsRead
  <2>5. CASE Named(argv[at])
    <3>1. at \in 1 .. at' - 1 /\ \A j \in at + 1 .. at' - 1 : FALSE
      BY <2>1
    <3>2. Named(argv'[at]) /\ conf_file' = argv'[at].file
      BY <2>1, <2>2, <2>5
    <3> QED BY <2>4, <3>1, <3>2 DEF ArgsRead
  <2>6. CASE ~Named(argv[at])
    <3>1. conf_file' = conf_file BY <2>2, <2>6
    <3>2. CASE conf_file = "" /\ \A j \in 1 .. at - 1 : ~Named(argv[j])
      <4>1. \A j \in 1 .. at' - 1 : ~Named(argv'[j])
        BY <2>1, <2>3, <2>6, <3>2
      <4> QED BY <2>4, <3>1, <3>2, <4>1 DEF ArgsRead
    <3>3. ASSUME NEW i \in 1 .. at - 1,
                 Named(argv[i]), conf_file = argv[i].file,
                 \A j \in i + 1 .. at - 1 : ~Named(argv[j])
          PROVE  ArgsRead'
      <4>1. i \in 1 .. at' - 1 /\ \A j \in i + 1 .. at : j = at \/ j \in i + 1 .. at - 1
        BY <2>1
      <4>2. \A j \in i + 1 .. at' - 1 : ~Named(argv'[j])
        BY <2>1, <2>3, <2>6, <3>3, <4>1
      <4>3. Named(argv'[i]) /\ conf_file' = argv'[i].file
        BY <2>1, <3>1, <3>3
      <4> QED BY <2>4, <4>1, <4>2, <4>3 DEF ArgsRead
    <3> QED BY <2>2, <3>2, <3>3 DEF ArgsRead
  <2> QED BY <2>5, <2>6
<1>2. CASE UNCHANGED vars
  BY <1>2 DEF ArgsRead, vars
<1>3. CASE Next /\ ~Option
  BY <1>3 DEF Next, Goto, Return, Help, BadOption, ArgsEnd, FileFails, FileThrows, FileRead, Text,
              LoadServers, LoadItem, ItemsEnd, LoadDb, InitInst, Listen, ListenFails, Accept, SessionEndsAll, Run
<1> QED BY <1>1, <1>2, <1>3

\* The arguments do what they say, however many there are.
THEOREM ArgsCorrect == Spec => ArgsObeyed
<1>1. Init => ArgsRead
  <2> SUFFICES ASSUME Init PROVE ArgsRead
    OBVIOUS
  <2>1. at = 1 BY DEF Init
  <2>2. at - 1 = 0 /\ \A j \in 1 .. at - 1 : FALSE BY <2>1
  <2>3. conf_file = "" BY DEF Init
  <2> QED BY <2>2, <2>3 DEF ArgsRead
<1>2. ASSUME Ready, ArgsRead, [Next]_vars PROVE [Obeyed]_vars
  <2> SUFFICES ASSUME Next, pc = "args", pc' # "args" PROVE Obeyed
    BY <1>2 DEF Obeyed
  <2> USE <1>2
  <2>1. at \in Nat \ {0} /\ at <= Len(argv) + 1 /\ Len(argv) \in Nat
    BY DEF Ready, ArgsTyped
  <2>2. \A j \in 1 .. at - 1 : Known(argv[j])
    BY DEF ArgsRead
  <2>3. CASE Help
    <3>1. at \in 1 .. Len(argv) BY <2>1, <2>3 DEF Help
    <3>2. argv[at].opt \in {"help", "version"} /\ code' = "success"
      BY <2>3 DEF Help, Return
    <3> QED BY <3>1, <3>2, <2>2 DEF Obeyed, Known
  <2>4. CASE BadOption
    <3>1. at \in 1 .. Len(argv) BY <2>1, <2>4 DEF BadOption
    <3>2. argv[at].opt = "bad" /\ code' = "failure"
      BY <2>4 DEF BadOption, Return
    <3> QED BY <3>1, <3>2, <2>2 DEF Obeyed, Known
  <2>5. CASE ArgsEnd
    <3> DEFINE named == {i \in 1 .. Len(argv) : argv[i].opt = "config"}
    <3> DEFINE file == IF named = {} THEN "" ELSE
                         argv[CHOOSE i \in named : \A j \in named : j <= i].file
    <3>1. conf_file' = conf_file /\ pc' = IF conf_file = "" THEN "init" ELSE "file"
      BY <2>5 DEF ArgsEnd, Goto
    <3>a. at > Len(argv) BY <2>5 DEF ArgsEnd
    <3>2. at - 1 = Len(argv) BY <2>1, <3>a
    <3>3. \A i \in 1 .. Len(argv) : Known(argv[i])
      BY <2>2, <3>2, Zenon
    <3>4. conf_file = file
      <4>1. CASE conf_file = "" /\ \A j \in 1 .. at - 1 : ~Named(argv[j])
        <5>1. named = {} BY <3>2, <4>1 DEF Named
        <5> QED BY <4>1, <5>1
      <4>2. ASSUME NEW i \in 1 .. at - 1,
                   Named(argv[i]), conf_file = argv[i].file,
                   \A j \in i + 1 .. at - 1 : ~Named(argv[j])
            PROVE  conf_file = file
        <5>1. named \subseteq 1 .. at - 1 /\ i \in named
          BY <3>2, <4>2 DEF Named
        <5>2. \A j \in named : j \notin i + 1 .. at - 1
          BY <4>2 DEF Named
        <5> HIDE DEF named
        <5>3. i \in Int /\ \A j \in named : j \in Int /\ j <= i
          BY <2>1, <5>1, <5>2
        <5>4. \A k \in named : (\A j \in named : j <= k) => k = i
          BY <5>1, <5>3
        <5>5. (CHOOSE k \in named : \A j \in named : j <= k) = i
          BY <5>1, <5>3, <5>4
        <5>6. named # {} BY <5>1
        <5>7. file = argv[CHOOSE k \in named : \A j \in named : j <= k].file
          BY <5>6
        <5>8. file = argv[i].file BY <5>5, <5>7
        <5> QED BY <4>2, <5>8
      <4> QED BY <2>5, <4>1, <4>2 DEF ArgsRead
    <3> HIDE DEF file
    <3>5. conf_file' = file /\ pc' = IF file = "" THEN "init" ELSE "file"
      BY <3>1, <3>4
    <3> QED BY <3>3, <3>5 DEF Obeyed, Known, file
  <2>6. CASE Next /\ ~Help /\ ~BadOption /\ ~ArgsEnd
    BY <2>6 DEF Next, Goto, Option, FileFails, FileThrows, FileRead, Text, LoadServers, LoadItem, ItemsEnd,
                LoadDb, InitInst, Listen, ListenFails, Accept, SessionEndsAll, Run
  <2> QED BY <2>3, <2>4, <2>5, <2>6
<1>3. Ready /\ ArgsRead /\ [Next]_vars => ArgsRead'
  BY ArgsReadStep
<1> QED BY <1>1, <1>2, <1>3, Prepared, PTL DEF Spec, ArgsObeyed

=============================================================================
