------------------------------ MODULE Startup ------------------------------
(***************************************************************************)
(* From main (src/src/main.cpp) to the event loop: the arguments           *)
(* (src/src/arg.cpp), the configuration file (src/src/config.cpp), the     *)
(* databases, and one server after the other, each of which serves clients *)
(* before the next one listens (src/src/server/server.cpp and              *)
(* Acceptor::Start of src/src/net/acceptor.cpp).                           *)
(*                                                                         *)
(* A field of the file is absent, null, of the wrong JSON type, or a       *)
(* value.  What the file and the kernel say is chosen when it is asked.    *)
(***************************************************************************)
EXTENDS Integers, Sequences

CONSTANTS
  Files,        \* the arguments of -c and --config; "" is one
  IPv4, IPv6,   \* texts that inet_pton takes for addresses
  OtherIps,     \* texts that it does not
  Ports,        \* numbers in 1 .. 65535
  DefaultIp, DefaultPort,
  Numbers,      \* the integers that db_num may be
  MaxArgs,      \* bound: arguments of the program
  MaxServers    \* bound: entries of the field server

Ips == IPv4 \cup IPv6 \cup OtherIps

ASSUME StartupAssumption ==
  /\ "" \in Files
  /\ Ips \cap {"absent", "null", "wrong", "down"} = {}
  /\ Ports \cap {"absent", "null", "wrong", "outside", "down"} = {}
  /\ DefaultIp \in IPv4 /\ DefaultPort \in Ports
  /\ Numbers \subseteq Int
  /\ MaxArgs \in Nat /\ MaxServers \in Nat

VARIABLES
  pc,        \* what main does next
  code,      \* what it returned
  argv,      \* the arguments
  at,        \* the one that getopt_long reads next
  conf_file, \* Arg::conf_file_
  fields,    \* the text of the file and its fields server and db (history)
  items,     \* the entries of server that were loaded (history)
  servers,   \* Config::server_
  db_num,    \* Config::db_
  dbs,       \* the databases of Inst; 0 before Inst::Init
  next,      \* the server that is started next
  listening, \* the end points that are listened on
  served     \* the servers that a session was started for

confVars == <<fields, items, servers, db_num>>
serverVars == <<next, listening, served>>
vars == <<pc, code, argv, at, conf_file, confVars, dbs, serverVars>>

Options == [opt : {"config"}, file : Files] \cup
           [opt : {"help", "version", "bad", "word"}, file : {""}]

Item == [type : {"absent", "null", "wrong", "ipv4", "ipv6", "other"},
         ip : Ips \cup {"absent", "null", "wrong"},
         port : Ports \cup {"absent", "null", "wrong", "outside"}]

Server == [type : {"ipv4", "ipv6"}, ip : Ips, port : Ports]
Default == [type |-> "ipv4", ip |-> DefaultIp, port |-> DefaultPort]

TypeOK ==
  /\ pc \in {"args", "file", "server", "item", "db", "init", "start", "accept", "run",
             "exit", "down"}
  /\ code \in {"none", "success", "failure"}
  /\ argv \in Seq(Options) /\ at \in 1 .. Len(argv) + 1
  /\ conf_file \in Files
  /\ fields \in [text : {"unread", "bad", "overflow", "object"},
                 server : {"unread", "absent", "null", "wrong", "array"},
                 db : {"unread", "absent", "null", "wrong", "object"}]
  /\ items \in Seq(Item)
  /\ servers \in Seq(Server)
  /\ db_num \in 1 .. 255 /\ dbs \in 0 .. 255
  /\ next \in 1 .. Len(servers) + 1
  /\ listening \in Seq(Server)
  /\ served \subseteq 1 .. Len(servers)

Init ==
  /\ pc = "args" /\ code = "none"
  /\ argv \in UNION {[1 .. n -> Options] : n \in 0 .. MaxArgs} /\ at = 1
  /\ conf_file = ""
  /\ fields = [text |-> "unread", server |-> "unread", db |-> "unread"] /\ items = <<>>
  /\ servers = <<Default>> /\ db_num = 16
  /\ dbs = 0
  /\ next = 1 /\ listening = <<>> /\ served = {}

Return(with) == pc' = "exit" /\ code' = with
Goto(where) == pc' = where /\ UNCHANGED code

-----------------------------------------------------------------------------
(* Arg::Parse.  "bad" is an unknown option, or one without its argument;   *)
(* "word" is no option, which getopt_long passes over.                     *)

\* Variant with a mistake: --help is one option among others.
HelpLater ==
  /\ pc = "args" /\ at <= Len(argv) /\ argv[at].opt \in {"help", "version"}
  /\ IF at = Len(argv) THEN Return("success") ELSE Goto("args")
  /\ at' = at + 1
  /\ UNCHANGED <<argv, conf_file, confVars, dbs, serverVars>>

\* Parse returns at once; main prints and returns.
Help ==
  /\ pc = "args" /\ at <= Len(argv) /\ argv[at].opt \in {"help", "version"}
  /\ Return("success")
  /\ UNCHANGED <<argv, at, conf_file, confVars, dbs, serverVars>>

BadOption ==
  /\ pc = "args" /\ at <= Len(argv) /\ argv[at].opt = "bad"
  /\ Return("failure")
  /\ UNCHANGED <<argv, at, conf_file, confVars, dbs, serverVars>>

Option ==
  /\ pc = "args" /\ at <= Len(argv) /\ argv[at].opt \in {"config", "word"}
  /\ conf_file' = IF argv[at].opt = "config" THEN argv[at].file ELSE conf_file
  /\ at' = at + 1
  /\ Goto("args")
  /\ UNCHANGED <<argv, confVars, dbs, serverVars>>

\* Variant with a mistake: only a configuration file leads to Inst::Init.
ArgsEndWithoutInst ==
  /\ pc = "args" /\ at > Len(argv)
  /\ Goto(IF conf_file = "" THEN "start" ELSE "file")
  /\ UNCHANGED <<argv, at, conf_file, confVars, dbs, serverVars>>

\* An empty name of a file is no name, and leaves the default configuration.
ArgsEnd ==
  /\ pc = "args" /\ at > Len(argv)
  /\ Goto(IF conf_file = "" THEN "init" ELSE "file")
  /\ UNCHANGED <<argv, at, conf_file, confVars, dbs, serverVars>>

-----------------------------------------------------------------------------
(* Config::Load. *)

\* What the file turns out to be.
Text(text) ==
  /\ pc = "file"
  /\ fields' = [fields EXCEPT !.text = text]
  /\ UNCHANGED <<argv, at, conf_file, items, servers, db_num, dbs, serverVars>>

\* ReadFile fails, or what it read is no JSON, or no object.
FileFails == Text("bad") /\ Return("failure")

\* json::parse throws parse_error for what is no JSON, which Load catches, and
\* out_of_range for a number that no double holds (1e999), which nobody does.
FileThrows == Text("overflow") /\ Goto("down")

FileRead == Text("object") /\ Goto("server")

\* A field is looked up in a const json, where the lookup of an absent key is
\* undefined: it finds anything, or ends the process.
Found(field, Values) == IF field = "absent" THEN Values \cup {"down"} ELSE {field}

\* ServerConfig::Load.  Null stands for no server, and not for the default.
LoadServers(field) ==
  /\ pc = "server"
  /\ fields' = [fields EXCEPT !.server = field]
  /\ \E found \in Found(field, {"null", "wrong", "array"}) :
       \/ found = "null" /\ Goto("db") /\ servers' = <<>>
       \/ found = "array" /\ Goto("item") /\ servers' = <<>>
       \/ found = "wrong" /\ Return("failure") /\ UNCHANGED servers
       \/ found = "down" /\ Goto("down") /\ UNCHANGED servers
  /\ UNCHANGED <<argv, at, conf_file, items, db_num, dbs, serverVars>>

\* What is left when the process ends in the middle of an entry.
Ended == [type |-> "down", ip |-> DefaultIp, port |-> DefaultPort]

\* Variant with a mistake: the type of the port is not looked at.
PortLoadedUnchecked(sc, item) ==
  {IF port \in Ports THEN [sc EXCEPT !.port = port]
   ELSE IF port \in {"down", "wrong"} THEN Ended ELSE sc :
     port \in Found(item.port, Ports \cup {"null", "wrong", "outside"})}

\* LoadServerItem from the port on.  Its status is ignored: after a mistake
\* the entry counts with the fields before it, and the default for the rest.
PortLoaded(sc, item) ==
  {IF port \in Ports THEN [sc EXCEPT !.port = port]
   ELSE IF port = "down" THEN Ended ELSE sc :
     port \in Found(item.port, Ports \cup {"null", "wrong", "outside"})}

\* From the ip on.  What is tested for being a string is the type: an entry
\* with an ip and no type ends here, and an ip that is no string throws.
IpLoaded(sc, type, item) ==
  UNION {IF ip = "null" THEN PortLoaded(sc, item)
         ELSE IF ip = "down" THEN {Ended}
         ELSE IF type = "null" THEN {sc}
         ELSE IF ip = "wrong" THEN {Ended}
         ELSE PortLoaded([sc EXCEPT !.ip = ip], item) :
           ip \in Found(item.ip, Ips \cup {"null", "wrong"})}

\* LoadServerItem.  An entry that is no object is like one of the wrong type.
Loaded(sc, item) ==
  UNION {IF type = "down" THEN {Ended}
         ELSE IF type = "null" THEN IpLoaded(sc, type, item)
         ELSE IF type \in {"ipv4", "ipv6"} THEN IpLoaded([sc EXCEPT !.type = type], type, item)
         ELSE {sc} :
           type \in Found(item.type, {"null", "wrong", "ipv4", "ipv6", "other"})}

\* Variant with a mistake: one ServerConfig for all entries.
FreshShared == IF servers = <<>> THEN Default ELSE servers[Len(servers)]

\* A ServerConfig of its own for each entry.
Fresh == Default

LoadItem(item) ==
  /\ pc = "item" /\ Len(items) < MaxServers
  /\ items' = Append(items, item)
  /\ \E sc \in Loaded(Fresh, item) :
       IF sc = Ended THEN Goto("down") /\ UNCHANGED servers
       ELSE Goto("item") /\ servers' = Append(servers, sc)
  /\ UNCHANGED <<argv, at, conf_file, fields, db_num, dbs, serverVars>>

ItemsEnd ==
  /\ pc = "item"
  /\ Goto("db")
  /\ UNCHANGED <<argv, at, conf_file, confVars, dbs, serverVars>>

\* Variant with a mistake: 0 passes.
InRangeFromZero(n) == n >= 0 /\ n <= 255

InRange(n) == n > 0 /\ n <= 255

\* DbConfig::Load: db is not an object, or db_num, which may be absent here,
\* is no integer or outside its range, or is one, or there is none.
LoadDb(field) ==
  /\ pc = "db"
  /\ fields' = [fields EXCEPT !.db = field]
  /\ \E found \in Found(field, {"null", "wrong", "object"}) :
       \/ found = "null" /\ Goto("init") /\ db_num' = 16
       \/ found = "wrong" /\ Return("failure") /\ UNCHANGED db_num
       \/ found = "down" /\ Goto("down") /\ UNCHANGED db_num
       \/ /\ found = "object"
          /\ \/ Goto("init") /\ db_num' = 16
             \/ Return("failure") /\ UNCHANGED db_num
             \/ \E n \in Numbers : IF InRange(n) THEN Goto("init") /\ db_num' = n
                                   ELSE Return("failure") /\ UNCHANGED db_num
  /\ UNCHANGED <<argv, at, conf_file, items, servers, dbs, serverVars>>

-----------------------------------------------------------------------------
(* The rest of main. *)

\* Inst::Init and Loop::New.
InitInst ==
  /\ pc = "init"
  /\ dbs' = db_num
  /\ Goto("start")
  /\ UNCHANGED <<argv, at, conf_file, confVars, serverVars>>

\* inet_pton and bind succeed only for an address of the type, at an end point
\* that is not listened on.
Bindable(sc) ==
  /\ sc.ip \in IF sc.type = "ipv4" THEN IPv4 ELSE IPv6
  /\ \A i \in 1 .. Len(listening) : listening[i] # sc

\* Acceptor::Start up to listen.
Listen ==
  /\ pc = "start" /\ next <= Len(servers)
  /\ Bindable(servers[next])
  /\ listening' = Append(listening, servers[next])
  /\ Goto("accept")
  /\ UNCHANGED <<argv, at, conf_file, confVars, dbs, next, served>>

\* Any of its calls may fail, and main returns, whoever is being served.
ListenFails ==
  /\ pc = "start" /\ next <= Len(servers)
  /\ Return("failure")
  /\ UNCHANGED <<argv, at, conf_file, confVars, dbs, serverVars>>

\* The first AsyncAccept starts a session for each client that has come already.
Accept ==
  /\ pc = "accept"
  /\ served' \in {served, served \cup {next}}
  /\ next' = next + 1
  /\ Goto("start")
  /\ UNCHANGED <<argv, at, conf_file, confVars, dbs, listening>>

\* One of these sessions ends the process: its read fails, because the client
\* has reset the connection or because the accept failed and there is none
\* (see Session and Acceptor), or its request throws (see Commands).
SessionEndsAll ==
  /\ pc = "accept"
  /\ served' = served \cup {next}
  /\ Goto("down")
  /\ UNCHANGED <<argv, at, conf_file, confVars, dbs, next, listening>>

\* Loop::Run, whether or not there is a server.
Run ==
  /\ pc = "start" /\ next > Len(servers)
  /\ Goto("run")
  /\ UNCHANGED <<argv, at, conf_file, confVars, dbs, serverVars>>

Next ==
  \/ Help \/ BadOption \/ Option \/ ArgsEnd
  \/ FileFails \/ FileThrows \/ FileRead
  \/ \E field \in {"absent", "null", "wrong", "array"} : LoadServers(field)
  \/ \E item \in Item : LoadItem(item)
  \/ ItemsEnd
  \/ \E field \in {"absent", "null", "wrong", "object"} : LoadDb(field)
  \/ InitInst \/ Listen \/ ListenFails \/ Accept \/ SessionEndsAll \/ Run

Spec == Init /\ [][Next]_vars

-----------------------------------------------------------------------------
(* Properties. *)

\* What the arguments ask for, in the order in which they are read.
Obeyed ==
  pc = "args" /\ pc' # "args" =>
    \/ /\ code' = "success"
       /\ \E i \in 1 .. Len(argv) :
            /\ argv[i].opt \in {"help", "version"}
            /\ \A j \in 1 .. i - 1 : argv[j].opt \in {"config", "word"}
    \/ /\ code' = "failure"
       /\ \E i \in 1 .. Len(argv) :
            /\ argv[i].opt = "bad"
            /\ \A j \in 1 .. i - 1 : argv[j].opt \in {"config", "word"}
    \/ /\ \A i \in 1 .. Len(argv) : argv[i].opt \in {"config", "word"}
       /\ LET named == {i \in 1 .. Len(argv) : argv[i].opt = "config"}
              file == IF named = {} THEN "" ELSE
                        argv[CHOOSE i \in named : \A j \in named : j <= i].file
          IN conf_file' = file /\ pc' = IF file = "" THEN "init" ELSE "file"

\* Success is returned only for --help or --version with nothing but options
\* that are known before it (arg.cpp:67 to 74); otherwise every option is known
\* and the file that is read is the last that the arguments name.
ArgsObeyed == [][Obeyed]_vars

\* An entry that LoadServerItem finds nothing to complain about.
Sound(item) ==
  /\ item.type \in {"null", "ipv4", "ipv6"}
  /\ item.ip \in Ips \cup {"null"} /\ (item.ip = "null" \/ item.type # "null")
  /\ item.port \in Ports \cup {"null"}

Asked(item) ==
  [type |-> IF item.type = "null" THEN "ipv4" ELSE item.type,
   ip |-> IF item.ip = "null" THEN DefaultIp ELSE item.ip,
   port |-> IF item.port = "null" THEN DefaultPort ELSE item.port]

\* When the loop runs, each server listens on an end point of its own, a sound
\* entry of the file on the one that it asks for, whatever the entries before
\* and after it are; without a file, on the default.
ListensAsAsked ==
  pc = "run" =>
    /\ listening = servers
    /\ \A i, j \in 1 .. Len(listening) : listening[i] = listening[j] => i = j
    /\ \A i \in 1 .. Len(items) : Sound(items[i]) => listening[i] = Asked(items[i])
    /\ conf_file = "" => listening = <<Default>>
    /\ fields.server = "array" => Len(listening) = Len(items)

\* No session is started, not even by the first server while the others are
\* still to be started, before there are databases, and as many as configured.
ServedWithDatabases ==
  served # {} => dbs = db_num /\ dbs \in 1 .. 255

\* An entry that may end the process: a field is absent where it is looked up,
\* or an ip that is no string is taken for one.
Fatal(item) ==
  \/ item.type = "absent"
  \/ /\ item.type \in {"null", "ipv4", "ipv6"}
     /\ \/ item.ip = "absent"
        \/ item.ip = "wrong" /\ item.type # "null"
        \/ item.port = "absent" /\ (item.ip = "null" \/ item.type # "null")

\* The process ends without returning only in one of two ways.  Before there
\* are databases it is the file: a number that overflows (config.cpp:101), an
\* absent field, or the last entry that was looked at.  After that it is a
\* session of the server that is being started: one whose read fails
\* (session.cpp:84), also after a failed accept, or whose command throws.
DownOnlyByFileOrSession ==
  pc = "down" =>
    \/ /\ dbs = 0 /\ listening = <<>> /\ conf_file # ""
       /\ \/ fields.text = "overflow"
          \/ "absent" \in {fields.server, fields.db}
          \/ items # <<>> /\ Fatal(items[Len(items)])
    \/ dbs = db_num /\ Len(listening) \in served

=============================================================================
