SPECIFICATION Spec
CONSTANTS
  Files = {"", "a.json", "b.json"}
  IPv4 = {"127.0.0.1"}
  IPv6 = {"::1"}
  OtherIps = {"localhost"}
  Ports = {"6379", "6380"}
  DefaultIp = "127.0.0.1"
  DefaultPort = "6379"
  Numbers <- MCNumbers
  MaxArgs = 3
  MaxServers = 2
VIEW StillRead
CHECK_DEADLOCK FALSE
INVARIANTS
  TypeOK
  ListensAsAsked
  ServedWithDatabases
  DownOnlyByFileOrSession
PROPERTIES
  ArgsObeyed
