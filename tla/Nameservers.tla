---------------------------- MODULE Nameservers ----------------------------
(***************************************************************************)
(* The nameservers of a build VM, from the command line or the host's      *)
(* resolver settings to the guest's resolv.conf: vm_nameservers in         *)
(* src/main.rs, crates/vm-image-builder/src/dns.rs, the OPENSHELL_VM_DNS   *)
(* variable, and the lines of vm-build that turn it into a file.           *)
(*                                                                         *)
(* An address is a record: ip is 4 or 6, n its octets or its 16-bit        *)
(* segments.  A line of `scutil --dns` or of /etc/resolv.conf is the       *)
(* address that is parsed from it, or Junk when none is.                   *)
(***************************************************************************)
EXTENDS Naturals, Sequences, FiniteSets

CONSTANTS
  Inputs,      \* <<addresses given to --vm-dns, lines scutil prints, lines
               \*   of /etc/resolv.conf>> that are to be considered
  Junk,        \* a line with no address in it
  Unreadable   \* in place of a list: the source could not be read, or the
               \*   variable is not set

Octet == 0..255

Segment == 0..65535

Ipv4Addr == [ip : {4}, n : [1..4 -> Octet]]

Ipv6Addr == [ip : {6}, n : [1..8 -> Segment]]

Address == Ipv4Addr \cup Ipv6Addr

Line == Address \cup {Junk}

ASSUME JunkIsNoAddress == Junk \notin Address

ASSUME InputsAreLists ==
  \A input \in Inputs :
    /\ input[1] \in Seq(Address)
    /\ \A k \in 2..3 : input[k] = Unreadable \/ input[k] \in Seq(Line)

ASSUME UnreadableIsNoList == Unreadable \notin Seq(Address)

MAX_NAMESERVERS == 3

FALLBACK_NAMESERVER == [ip |-> 4, n |-> <<1, 1, 1, 1>>]

(***************************************************************************)
(* is_reachable_from_vm, with the classifications of std::net.             *)
(***************************************************************************)
IsAll(a, x) == \A i \in DOMAIN a.n : a.n[i] = x

IsUnspecified(a) == IsAll(a, 0)

IsLoopback(a) ==
  \/ a.ip = 4 /\ a.n[1] = 127
  \/ a.ip = 6 /\ a.n = <<0, 0, 0, 0, 0, 0, 0, 1>>

IsMulticast(a) ==
  \/ a.ip = 4 /\ a.n[1] \in 224..239
  \/ a.ip = 6 /\ a.n[1] \div 256 = 255

IsLinkLocal(a) ==
  \/ a.ip = 4 /\ a.n[1] = 169 /\ a.n[2] = 254
  \/ a.ip = 6 /\ a.n[1] \div 64 = 1018        \* segments()[0] & 0xffc0 = 0xfe80

IsBroadcast(a) == a.ip = 4 /\ IsAll(a, 255)

(* Mutant: forget that link-local addresses need a scope. *)
IsReachableIfScoped(a) ==
  ~(IsLoopback(a) \/ IsUnspecified(a) \/ IsMulticast(a) \/ IsBroadcast(a))

IsReachable(a) ==
  ~(IsLoopback(a) \/ IsUnspecified(a) \/ IsMulticast(a) \/ IsLinkLocal(a) \/ IsBroadcast(a))

VARIABLES
  pc,       \* where the resolution is
  user,     \* --vm-dns
  scutil,   \* the output of scutil --dns
  resolv,   \* the host's /etc/resolv.conf
  lines,    \* what sanitize has not read yet
  kept,     \* what sanitize has kept
  servers,  \* VmConfig::nameservers
  conf      \* the nameserver lines of the guest's /etc/resolv.conf

vars == <<pc, user, scutil, resolv, lines, kept, servers, conf>>

(* What make-rootfs.sh writes into the rootfs. *)
ShippedConf == <<FALLBACK_NAMESERVER>>

Init ==
  /\ pc = "vm_nameservers"
  /\ \E input \in Inputs : user = input[1] /\ scutil = input[2] /\ resolv = input[3]
  /\ lines = <<>> /\ kept = <<>> /\ servers = <<>> /\ conf = ShippedConf

(* vm_nameservers: what the user names is taken as it is or refused. *)
UserServers ==
  /\ pc = "vm_nameservers"
  /\ IF user = <<>> THEN pc' = "scutil" /\ UNCHANGED servers
     ELSE IF \E i \in DOMAIN user : ~IsReachable(user[i])
       THEN pc' = "rejected" /\ UNCHANGED servers
       ELSE pc' = "boot" /\ servers' = user
  /\ UNCHANGED <<user, scutil, resolv, lines, kept, conf>>

(* host_nameservers: scutil first. *)
ReadScutil ==
  /\ pc = "scutil"
  /\ IF scutil = Unreadable
       THEN pc' = "resolv" /\ UNCHANGED lines
       ELSE pc' = "sanitize_scutil" /\ lines' = scutil
  /\ UNCHANGED <<user, scutil, resolv, kept, servers, conf>>

ReadResolv ==
  /\ pc = "resolv"
  /\ IF resolv = Unreadable
       THEN pc' = "default" /\ UNCHANGED lines
       ELSE pc' = "sanitize_resolv" /\ lines' = resolv
  /\ UNCHANGED <<user, scutil, resolv, kept, servers, conf>>

(* parse_scutil and parse_resolv_conf pass over every line without one. *)
IsAddress(a) == a # Junk

Keeps(k, a) == IsAddress(a) /\ IsReachable(a) /\ a \notin {k[i] : i \in DOMAIN k}

(* sanitize: the lines in order, until there are enough addresses. *)
SanitizeNext ==
  /\ pc \in {"sanitize_scutil", "sanitize_resolv"}
  /\ lines # <<>>
  /\ kept' = IF Keeps(kept, Head(lines)) THEN Append(kept, Head(lines)) ELSE kept
  /\ lines' = IF Len(kept') = MAX_NAMESERVERS THEN <<>> ELSE Tail(lines)
  /\ UNCHANGED <<pc, user, scutil, resolv, servers, conf>>

(* Mutant: an unusable scutil output is not made good by resolv.conf. *)
SanitizeEndKeepsScutil ==
  /\ pc \in {"sanitize_scutil", "sanitize_resolv"}
  /\ lines = <<>>
  /\ pc' = "default"
  /\ UNCHANGED <<user, scutil, resolv, lines, kept, servers, conf>>

SanitizeEnd ==
  /\ pc \in {"sanitize_scutil", "sanitize_resolv"}
  /\ lines = <<>>
  /\ pc' = IF pc = "sanitize_scutil" /\ kept = <<>> THEN "resolv" ELSE "default"
  /\ UNCHANGED <<user, scutil, resolv, lines, kept, servers, conf>>

DefaultServers ==
  /\ pc = "default"
  /\ servers' = IF kept = <<>> THEN <<FALLBACK_NAMESERVER>> ELSE kept
  /\ pc' = "boot"
  /\ UNCHANGED <<user, scutil, resolv, lines, kept, conf>>

(* dns_env_value: OPENSHELL_VM_DNS is not set at all for an empty list. *)
DnsEnvValue(s) == IF s = <<>> THEN Unreadable ELSE s

(* vm-build: a file with one nameserver line for each address of
   OPENSHELL_VM_DNS and nothing else is mounted over the resolv.conf that the
   rootfs ships, which stays when the variable is not set. *)
WriteResolvConf ==
  /\ pc = "boot"
  /\ conf' = IF DnsEnvValue(servers) = Unreadable THEN conf
             ELSE DnsEnvValue(servers)
  /\ pc' = "running"
  /\ UNCHANGED <<user, scutil, resolv, lines, kept, servers>>

Done == pc \in {"rejected", "running"} /\ UNCHANGED vars

Next ==
  \/ UserServers \/ ReadScutil \/ ReadResolv \/ SanitizeNext \/ SanitizeEnd
  \/ DefaultServers \/ WriteResolvConf \/ Done

Spec == Init /\ [][Next]_vars

-----------------------------------------------------------------------------
(* The addresses that sanitize should keep of a source, stated without its
   loop: the first three of the reachable ones, each where it first occurs. *)
Fresh(s) ==
  {i \in DOMAIN s : /\ s[i] # Junk /\ IsReachable(s[i])
                    /\ \A j \in 1..(i - 1) : s[j] # s[i]}

Rank(s, i) == Cardinality(Fresh(s) \cap 1..i)

Wanted(s) ==
  IF s = Unreadable THEN {} ELSE {<<Rank(s, i), s[i]>> : i \in {j \in Fresh(s) : Rank(s, j) <= 3}}

AsPairs(s) == {<<i, s[i]>> : i \in DOMAIN s}

(* What the VM gets without --vm-dns: the first three usable addresses of the
   first source that has one, in that source's order; of the fallback only
   when neither source has any. *)
HostServersAreUsed ==
  pc = "running" /\ user = <<>> =>
    AsPairs(servers) = IF Wanted(scutil) # {} THEN Wanted(scutil)
                       ELSE IF Wanted(resolv) # {} THEN Wanted(resolv)
                       ELSE {<<1, FALLBACK_NAMESERVER>>}

(* An address that the guest itself answers to: 127.0.0.0/8 or ::1.  The
   first written as an IPv4-mapped IPv6 address is not seen by std's
   is_loopback, and not covered here. *)
MeansTheGuest(a) ==
  \/ a.ip = 4 /\ a.n[1] = 127
  \/ a.ip = 6 /\ a.n[8] = 1 /\ \A i \in 1..7 : a.n[i] = 0

NeedsAScope(a) == a.ip = 6 /\ a.n[1] \in 65152..65215     \* fe80::/10

(* A running guest always has a nameserver, and never one whose address
   means the guest itself or an interface of the host (README, DNS inside
   the VM: "A loopback address is rejected"). *)
GuestCanResolve ==
  pc = "running" =>
    /\ conf # <<>>
    /\ \A i \in DOMAIN conf : ~MeansTheGuest(conf[i]) /\ ~NeedsAScope(conf[i])
=============================================================================
