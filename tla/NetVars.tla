------------------------------ MODULE NetVars ------------------------------
(***************************************************************************)
(* getvar ipv4-* and ipv6-* (variables.cpp): address, netmask, gateway,    *)
(* DNS servers and DHCP.  A query goes through its sources one by one:     *)
(* the kernel's own answer for each interface, then whatever commands are  *)
(* installed, each writing to a scratch file that is then read and parsed. *)
(* The file is opened without O_TRUNC, so what a longer earlier output     *)
(* left behind the new one is parsed with it.  Interfaces come and go and  *)
(* change while the query runs.                                            *)
(*                                                                         *)
(* An output is a sequence of lines of equal length; a line names an       *)
(* interface, an IP version and a value, or nothing of interest.           *)
(***************************************************************************)
EXTENDS Integers, Sequences, FiniteSetsExt

CONSTANTS
  NetKinds,    \* the variables asked for
  NetVals,     \* values: addresses; prefix lengths for "netmask"
  LinkLocal,   \* an fe80:: address
  NoVal,
  MaskBits,    \* bits of an IPv4 address: 32
  MaxChanges   \* bound: changes of the network

ASSUME NetVarsAssumption ==
  /\ NetKinds \subseteq {"address", "netmask", "gateway", "dns", "dhcp"}
  /\ NetVals \subseteq 0 .. MaskBits /\ MaskBits \in Nat /\ MaxChanges \in Nat
  /\ {LinkLocal, NoVal} \intersect NetVals = {} /\ LinkLocal # NoVal

VARIABLES
  nvKind,   \* the variable asked for
  tools,    \* the commands that are installed
  truth,    \* the value each interface has, by version
  leases,   \* interfaces and versions with a lease file
  scratch,  \* the scratch files
  nvAt,     \* the source the query is at, 0 between queries
  nvVer,    \* IpVersion
  nvSaid,   \* the answer: its form and value
  ever,     \* history: all values there ever were: <<interface, version, value>>
  during,   \* history: values held by some interface during the query
  steady,   \* history: interfaces whose value did not change during it
  fault,    \* history: a source of the kernel's failed during it
  changes

nvVars == <<nvKind, tools, truth, leases, scratch, nvAt, nvVer, nvSaid, ever, during, steady, fault, changes>>

kNetworkInterfaces == <<"end0", "eth0">>
NetIfaces == {"end0", "eth0"}
Versions == {4, 6}
Files == {0, 1, 2} \union Versions
Usable(v) == v # NoVal /\ v # LinkLocal
Ran(t) == {<<x[1], x[2], t[x]>> : x \in NetIfaces \X Versions}

NetInit ==
  /\ nvKind \in NetKinds
  /\ tools \in SUBSET {"ifconfig", "ip"}
  /\ truth = [x \in NetIfaces \X Versions |-> NoVal]
  /\ leases = {} /\ scratch = [f \in Files |-> <<>>] /\ nvAt = 0 /\ nvVer = 4 /\ nvSaid = <<"none", 0>>
  /\ ever = {} /\ during = {} /\ steady = {} /\ fault = FALSE /\ changes = 0
----------------------------------------------------------------------------
\* What the sources print (external).  A line: [iface, ver, val].
Filler == [iface |-> "", ver |-> 0, val |-> NoVal]
LineOf(i, v) ==
  IF truth[i, v] # NoVal THEN <<[iface |-> i, ver |-> v, val |-> truth[i, v]]>> ELSE <<>>
LinesOf(i) == LineOf(i, 4) \o LineOf(i, 6)
Prints(tool, i) ==
  CASE tool \in {"ifconfig", "nmcli"} -> <<Filler>> \o LinesOf(i)
    [] tool = "ip" -> <<Filler>> \o LineOf(i, nvVer)
    [] tool \in {"route", "netstat"} -> <<Filler>> \o LineOf("end0", nvVer) \o LineOf("eth0", nvVer)
    [] tool = "iproute" -> LineOf(i, nvVer)
    [] tool = "ps" -> <<Filler>> \o LinesOf("end0") \o LinesOf("eth0")

\* ExecuteCommandToFile: O_WRONLY | O_CREAT, from the start of the file.
OutputOf(old, out) == out \o SubSeq(old, Len(out) + 1, Len(old))
----------------------------------------------------------------------------
\* CidrToNetmask: the mask of a prefix length as a number.
CidrToNetmask(p) == IF p = 0 THEN 0 ELSE 2 ^ MaskBits - 2 ^ (MaskBits - p)

\* What the kernel holds for a prefix length: the highest bits set.
MaskOf(p) == SumSet({2 ^ (MaskBits - b) : b \in 1 .. p})

\* A netmask is answered as a mask for IPv4, DHCP as yes or no.
Answered(val) ==
  CASE nvKind = "netmask" /\ nvVer = 4 -> <<"mask", MaskOf(val)>>
    [] nvKind = "dhcp" -> <<"yes", 0>>
    [] OTHER -> <<"value", val>>

\* The parsers' conversions.  ParseIpv4Address takes the first word after "inet "
\* that has a dot, so the prefix length of ip and the "addr:" of older ifconfigs
\* stay with the address; only the ip command's netmask is converted.
Converted(tool, val) ==
  CASE nvKind = "address" /\ nvVer = 4 /\ tool = "ip" -> {<<"withPrefix", val>>}
    [] nvKind = "address" /\ nvVer = 4 /\ tool = "ifconfig" -> {<<"value", val>>, <<"withAddr", val>>}
    [] nvKind = "netmask" /\ nvVer = 4 /\ tool = "ip" -> {<<"mask", CidrToNetmask(val)>>}
    [] OTHER -> {Answered(val)}

\* Mutant of ParseIpAddress: the link-local address is not skipped.
ParseIpAddressAny(lines, i) == {l \in lines : l.ver = nvVer}

\* ParseIpv4Address, ParseIpv6Address: any line of the version but fe80::.
ParseIpAddress(lines, i) == {l \in lines : l.ver = nvVer /\ Usable(l.val)}

\* ParseNetmaskFromIfconfig, ParsePrefixFromIpOutput: the same lines.
ParseNetmask(lines, i) == {l \in lines : l.ver = nvVer /\ Usable(l.val)}

\* ParseGatewayFromRouteOutput: a default route that names the interface.
ParseGatewayFromRouteOutput(lines, i) == {l \in lines : l.iface = i /\ l.ver = nvVer}

\* IsIpVersion on every line of FindDnsServers.
ParseDns(lines, i) == {l \in lines : l.ver = nvVer /\ Usable(l.val)}

\* DetectDhcp: the ports are those of the version; a process is known by its
\* name, which dhclient has for both versions, and by the interface.
ParseNetstat(lines, i) == {l \in lines : l.ver = nvVer}
ParsePs(lines, i) == {l \in lines : l.iface = i}

\* The first line of the file the parser takes, and the forms it may take it in.
Parsed(tool, i, file) ==
  LET lines == {file[n] : n \in DOMAIN file}
      fit == CASE tool \in {"ifconfig", "ip"} /\ nvKind = "address" -> ParseIpAddress(lines, i)
               [] tool \in {"ifconfig", "ip"} /\ nvKind = "netmask" -> ParseNetmask(lines, i)
               [] tool = "route" -> ParseGatewayFromRouteOutput(lines, i)
               [] tool = "nmcli" -> ParseDns(lines, i)
               [] tool = "netstat" -> ParseNetstat(lines, i)
               [] tool = "ps" -> ParsePs(lines, i)
               [] tool = "iproute" -> {file[n] : n \in DOMAIN file \intersect {1}} \ {Filler}
      at == {n \in DOMAIN file : file[n] \in fit}
  IN UNION {Converted(tool, file[n].val) : n \in {m2 \in at : \A k \in at : m2 <= k}}
----------------------------------------------------------------------------
\* The sources of GetIpv4Address and its like, in their order: the kernel for each
\* interface, then, for each interface, the commands; of DHCP there is no kernel's.
Steps ==
  LET a(source) == <<source, kNetworkInterfaces[1]>>
      b(source) == <<source, kNetworkInterfaces[2]>>
  IN CASE nvKind \in {"address", "netmask"} ->
            <<a("native"), b("native"), a("ifconfig"), a("ip"), b("ifconfig"), b("ip")>>
       [] nvKind = "gateway" ->
            <<a("native"), b("native"), a("route"), a("iproute"), b("route"), b("iproute")>>
       [] nvKind = "dns" -> <<a("resolv.conf"), b("resolv.conf"), a("nmcli"), b("nmcli")>>
       [] nvKind = "dhcp" ->
            <<a("netstat"), a("ps"), a("lease"), b("netstat"), b("ps"), b("lease")>>

\* The file a command writes to: one for each variable and version, but for the
\* ones of DNS and DHCP, which both versions use.
FileOf(source) ==
  CASE source = "nmcli" -> 0 [] source = "netstat" -> 1 [] source = "ps" -> 2 [] OTHER -> nvVer

Tool(source) == CASE source \in {"ifconfig", "route", "netstat", "nmcli", "ps"} -> "ifconfig"
                  [] OTHER -> "ip"

GetVarNet(v) ==
  /\ nvAt = 0
  /\ nvAt' = 1 /\ nvVer' = v /\ nvSaid' = <<"none", 0>> /\ fault' = FALSE
  /\ during' = {truth[i, v] : i \in NetIfaces}
  /\ steady' = {i \in NetIfaces : Usable(truth[i, v])}
  /\ UNCHANGED <<nvKind, tools, truth, leases, scratch, ever, changes>>

NetAnswer(vals) ==
  IF vals # {} THEN nvSaid' \in vals /\ nvAt' = 0
  ELSE IF nvAt = Len(Steps) THEN nvSaid' = <<IF nvKind = "dhcp" THEN "no" ELSE "FAIL", 0>> /\ nvAt' = 0
  ELSE nvAt' = nvAt + 1 /\ UNCHANGED nvSaid

\* GetInterfaceInfoNative, GetIpv4GatewayNative, GetIpv6GatewayNative.
GetInterfaceInfoNative(i) == IF Usable(truth[i, nvVer]) THEN {Answered(truth[i, nvVer])} ELSE {}

\* The kernel's own answer, or resolv.conf; it may fail.
TryNative ==
  /\ nvAt # 0
  /\ LET s == Steps[nvAt]
     IN /\ s[1] \in {"native", "resolv.conf"}
        /\ \/ NetAnswer(GetInterfaceInfoNative(s[2])) /\ UNCHANGED fault
           \/ NetAnswer({}) /\ fault' = TRUE
  /\ UNCHANGED <<nvKind, tools, truth, leases, scratch, nvVer, ever, during, steady, changes>>

\* TryExecuteCommand: one that is not installed changes nothing; one that fails
\* has still written to the file.
TryExecuteCommand ==
  /\ nvAt # 0
  /\ LET s == Steps[nvAt]
     IN /\ s[1] \notin {"native", "resolv.conf", "lease"}
        /\ \/ /\ Tool(s[1]) \in tools
              /\ scratch' = [scratch EXCEPT ![FileOf(s[1])] = OutputOf(@, Prints(s[1], s[2]))]
              /\ NetAnswer(Parsed(s[1], s[2], scratch'[FileOf(s[1])])) \/ NetAnswer({})
           \/ Tool(s[1]) \notin tools /\ NetAnswer({}) /\ UNCHANGED scratch
  /\ UNCHANGED <<nvKind, tools, truth, leases, nvVer, ever, during, steady, fault, changes>>

\* A lease file is enough.
CheckLease ==
  /\ nvAt # 0
  /\ LET s == Steps[nvAt]
     IN /\ s[1] = "lease"
        /\ NetAnswer(IF <<s[2], nvVer>> \in leases THEN {<<"yes", 0>>} ELSE {})
  /\ UNCHANGED <<nvKind, tools, truth, leases, scratch, nvVer, ever, during, steady, fault, changes>>

\* An interface gains, changes or loses its value.
NetChange(i, v) ==
  /\ changes < MaxChanges /\ changes' = changes + 1
  /\ \E val \in NetVals \union {NoVal} \union (IF nvKind = "address" /\ v = 6 THEN {LinkLocal} ELSE {}) :
       truth' = [truth EXCEPT ![<<i, v>>] = val]
  /\ ever' = ever \union Ran(truth')
  /\ leases' = leases \union {x \in NetIfaces \X Versions : truth'[x] # NoVal}
  /\ during' = IF nvAt # 0 THEN during \union {truth'[i2, nvVer] : i2 \in NetIfaces} ELSE during
  /\ steady' = IF nvAt # 0 /\ v = nvVer THEN steady \ {i} ELSE steady
  /\ UNCHANGED <<nvKind, tools, scratch, nvAt, nvVer, nvSaid, fault>>

NetNext ==
  \/ \E v \in Versions : GetVarNet(v)
  \/ TryNative \/ TryExecuteCommand \/ CheckLease
  \/ \E i \in NetIfaces, v \in Versions : NetChange(i, v)

NetSpec == NetInit /\ [][NetNext]_nvVars
----------------------------------------------------------------------------
Spoken == nvAt = 0 /\ nvSaid[1] \notin {"none", "FAIL", "no"}

\* What is answered was true of one of the interfaces at some time, for the IP
\* version asked for, and is never a link-local address: whatever an earlier
\* query left in the scratch file, no source's lines are taken for another's.
\* DHCP is only held to some interface having had an address: a running dhclient
\* is taken for either version.
AnswerWasTrue ==
  Spoken => \E e \in ever :
     /\ e[2] = nvVer \/ nvKind = "dhcp"
     /\ Usable(e[3])
     /\ nvSaid[2] = Answered(e[3])[2]

\* While one interface keeps its value, and the kernel can be asked, the answer
\* is a value that some interface had during the query: not a failure, and not
\* one from an earlier query's output.
SteadyIsAnswered ==
  nvAt = 0 /\ nvSaid[1] # "none" /\ nvKind # "dhcp" /\ steady # {} /\ ~fault =>
     \E val \in during : Usable(val) /\ nvSaid = Answered(val)

\* getvar tells the truth about the network: never more than there was, and no
\* less than stayed.
NetworkAsTold == AnswerWasTrue /\ SteadyIsAnswered
============================================================================
