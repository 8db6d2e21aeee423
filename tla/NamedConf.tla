------------------------------ MODULE NamedConf ------------------------------
(***************************************************************************)
(* The zones of the name servers: pkcli/named_conf.py, which generates     *)
(* them on the build host, and component/named.py, which installs what was *)
(* generated.  Every name server is a primary: it serves what its host has *)
(* installed, and the next serial number is made from the one that         *)
(* servers[0] answers with.                                                *)
(***************************************************************************)
EXTENDS Naturals, Sequences

CONSTANTS
  Configs,   \* what may be in cfg_dir, and
  Content,   \* what it says
  Zones,     \* names of zones, and
  Nets,      \* blocks of addresses: each has a reverse zone
  Octets,    \* numbers in an address
  Rank,      \* the order of the files of zones and nets in zone_files
  Home,      \* the zone servers[0] is asked about
  Servers,   \* name servers
  Primary,   \* servers[0]
  PerDay,    \* 99 serial numbers a day
  MaxDay,    \* bound: days
  MaxGens,   \* bound: calls of gen
  NoZone     \* a zone file that is not there

Names == Zones \cup Nets

\* A zone file: its serial number, and the configuration its records are from
File == [serial : Nat, of : Configs]

(***************************************************************************)
(* A configuration is the zones and nets it has, and the entries           *)
(* zones.<zone>.ipv4.<net>.<key>: the host each names, and whether it asks  *)
(* to be in the PTR record of the address.  All that has to do with other  *)
(* kinds of records is left out.                                           *)
(***************************************************************************)
ASSUME NamedAssumption ==
  /\ Home \in Zones /\ Primary \in Servers
  /\ {PerDay, MaxDay, MaxGens} \subseteq Nat /\ PerDay <= 100 /\ MaxDay > 0
  /\ Rank \in [Names -> Nat] /\ \A m, n \in Names : Rank[m] = Rank[n] => m = n
  /\ \A n \in Nets : n.base \in [1..4 -> Octets] /\ n.prefixlen \in 0..32
  /\ Configs # {} /\ NoZone \notin File
  /\ \A c \in Configs :
       LET d == Content[c] IN
         /\ d.zones \subseteq Zones /\ d.nets \subseteq Nets /\ Home \in d.zones
         /\ \A e \in d.entries : e.zone \in d.zones /\ e.net \in Nets

VARIABLES
  day,      \* date.today()
  out,      \* out_dir: zone files, those that zones.conf lists, named.root
  at,       \* what gen writes next, "idle" if it is not running
  todo,     \* zone files it has not come to
  writing,  \* what it writes: its serial number and configuration
  serves,   \* what each server's host has installed
  gens,     \* calls of gen
  overtaken, \* history: a gen ran when servers[0] had not the last serial number
  cut       \* history: the first gen was cut short before named.root, see Cut

vars == <<day, out, at, todo, writing, serves, gens, overtaken, cut>>

-----------------------------------------------------------------------------
(* Zones and reverse zones, as functions of the configuration              *)

\* The octets of an address below its net, of which the last fully covered
\* ones are common to all addresses of the net.
Addresses(net) ==
  {a \in [1..4 -> Octets] : \A i \in 1..4 : 8 * i <= net.prefixlen => a[i] = net.base[i]}

\* Mutant: a net of more than 256 addresses is taken for one of fewer.
AddressToHostKey_24(net, a) ==
  SubSeq(a, IF net.prefixlen < 8 THEN 2 ELSE IF net.prefixlen < 16 THEN 3 ELSE 4, 4)

\* _address_to_host_key
AddressToHostKey(net, a) ==
  SubSeq(a, IF net.prefixlen < 8 THEN 2 ELSE IF net.prefixlen < 24 THEN 3 ELSE 4, 4)

\* _zone_a: the A records of a zone, with the cidr they are found under
ARecords(c, z) ==
  UNION {{[entry |-> e, address |-> a] :
            a \in {b \in Addresses(e.net) : AddressToHostKey(e.net, b) = e.key}} :
         e \in {f \in Content[c].entries : f.zone = z}}

\* Mutant: each zone makes a ptr_map of its own.
PtrMap_OfHome(c, net, a) == {r \in ARecords(c, Home) : r.entry.net = net /\ r.address = a}

\* ptr_map[cidr][ip], which all zones add to
PtrMap(c, net, a) ==
  {r \in UNION {ARecords(c, z) : z \in Content[c].zones} : r.entry.net = net /\ r.address = a}

Yes(c, net, a) == {r \in PtrMap(c, net, a) : r.entry.ptr}
No(c, net, a)  == PtrMap(c, net, a) \ Yes(c, net, a)

\* make_ptr: those that ask for it, or the only one; "no PTR records" and
\* "too many PTR records" are errors.
Chosen(c, net, a) ==
  IF Yes(c, net, a) = {} /\ \E r \in No(c, net, a) : No(c, net, a) = {r}
    THEN No(c, net, a) ELSE Yes(c, net, a)
PtrFails(c, net, a) ==
  PtrMap(c, net, a) # {} /\ ~\E r \in Chosen(c, net, a) : Chosen(c, net, a) = {r}

\* The PTR records of the reverse zone of net.  The owner of each is the key of
\* its address, whose octets are in the order of the address.
Ptr(c, net) ==
  UNION {{[owner |-> AddressToHostKey(net, a), names |-> r] : r \in Chosen(c, net, a)} :
         a \in Addresses(net)}

Failing == {c \in Configs :
  \E net \in Content[c].nets : \E a \in Addresses(net) : PtrFails(c, net, a)}

-----------------------------------------------------------------------------
(* gen                                                                     *)

Today == 100 * day

\* Mutant: a serial number that was made today is made again.
Serial_Again(curr) == IF curr > Today THEN curr + 1 ELSE Today

\* _serial: one more than the last, but not less than the first of today
Serial(curr) == IF curr >= Today THEN curr + 1 ELSE Today

FilesOf(c) == Content[c].zones \cup Content[c].nets

\* Everything is computed, and named.root fetched, before anything is written, and
\* all of that may fail.  cfg: what is in cfg_dir
Gen(cfg) ==
  /\ at = "idle" /\ gens < MaxGens /\ gens' = gens + 1
  /\ LET s == Serial(serves[Primary].file[Home].serial) IN
       /\ s < Today + PerDay /\ cfg \notin Failing
       /\ writing' = [serial |-> s, of |-> cfg]
  /\ at' = "zones" /\ todo' = FilesOf(cfg)
  /\ overtaken' = (overtaken \/ serves[Primary].file[Home].serial # writing.serial)
  /\ UNCHANGED <<day, out, serves, cut>>

\* _write of a zone file
WriteZone(name) ==
  /\ at = "zones" /\ name \in todo /\ \A n \in todo : Rank[name] <= Rank[n]
  /\ out' = [file |-> [out.file EXCEPT ![name] = writing],
             conf |-> out.conf, root |-> out.root]
  /\ todo' = todo \ {name}
  /\ UNCHANGED <<day, at, writing, serves, gens, overtaken, cut>>

\* Mutant: zones.conf is written before the zones.
WriteConf_First ==
  /\ at = "zones"
  /\ out' = [file |-> out.file, conf |-> FilesOf(writing.of), root |-> out.root]
  /\ at' = IF todo = {} THEN "root" ELSE "zones"
  /\ UNCHANGED <<day, todo, writing, serves, gens, overtaken, cut>>

\* _write of zones.conf, which comes after the zone files.  Those of zones that
\* are no longer configured stay.  It also lists named.root, as the zone ".".
WriteConf ==
  /\ at = "zones" /\ todo = {} /\ at' = "root"
  /\ out' = [file |-> out.file, conf |-> FilesOf(writing.of), root |-> out.root]
  /\ UNCHANGED <<day, todo, writing, serves, gens, overtaken, cut>>

\* _write of named.root, which comes last.
WriteRoot ==
  /\ at = "root" /\ at' = "idle"
  /\ out' = [file |-> out.file, conf |-> out.conf, root |-> TRUE]
  /\ UNCHANGED <<day, todo, writing, serves, gens, overtaken, cut>>

\* out_dir has the first zones.conf, but no named.root yet.
Cut == at = "root" /\ ~out.root

KillGen ==
  /\ at # "idle" /\ at' = "idle" /\ todo' = {} /\ cut' = (cut \/ Cut)
  /\ UNCHANGED <<day, out, writing, serves, gens, overtaken>>

-----------------------------------------------------------------------------
(* The build and the hosts                                                 *)

\* What a host has after it has installed what is in out_dir: files are added and
\* replaced, never removed.
Installed(old) ==
  [file |-> [n \in Names |-> IF out.file[n] = NoZone THEN old.file[n] ELSE out.file[n]],
   conf |-> IF out.conf = {} THEN old.conf ELSE out.conf,
   root |-> (out.root \/ old.root)]

\* What is in the directory is built (named.T.internal_build_write), and the
\* server's host updates; named is restarted.
Update(s) ==
  /\ serves[s] # Installed(serves[s])
  /\ serves' = [serves EXCEPT ![s] = Installed(serves[s])] /\ cut' = (cut \/ Cut)
  /\ UNCHANGED <<day, out, at, todo, writing, gens, overtaken>>

\* The clock of the build host goes on, and may be put back.
SetDay(d) ==
  /\ day # d /\ day' = d
  /\ UNCHANGED <<out, at, todo, writing, serves, gens, overtaken, cut>>

\* A directory before the first gen, or a host before its first build
Nothing == [file |-> [n \in Names |-> NoZone], conf |-> {}, root |-> FALSE]

\* All that gen makes from a configuration
Generated(cfg, s) ==
  [file |-> [n \in Names |-> IF n \in FilesOf(cfg) THEN [serial |-> s, of |-> cfg] ELSE NoZone],
   conf |-> FilesOf(cfg), root |-> TRUE]

\* servers[0] answers with zones made from some configuration: gen fails until it
\* does.  The other servers may have nothing yet, and out_dir may be empty.
Init ==
  /\ day = 1 /\ gens = 0 /\ overtaken = FALSE /\ cut = FALSE
  /\ \E cfg \in Configs \ Failing :
       /\ writing = [serial |-> 0, of |-> cfg]
       /\ out \in {Generated(cfg, 0), Nothing}
       /\ serves \in [Servers -> {Generated(cfg, 0), Nothing}]
       /\ serves[Primary] = Generated(cfg, 0)
  /\ at = "idle" /\ todo = {}

Next ==
  \/ WriteConf \/ WriteRoot \/ KillGen
  \/ \E n \in Names : WriteZone(n)
  \/ \E s \in Servers : Update(s)
  \/ \E c \in Configs : Gen(c)
  \/ \E d \in 1..MaxDay : SetDay(d)

Spec == Init /\ [][Next]_vars

-----------------------------------------------------------------------------
(* Properties                                                              *)

\* (conf is {} where there is no zones.conf: one that gen writes lists Home.)
Output == [file : [Names -> File \cup {NoZone}], conf : SUBSET Names, root : BOOLEAN]

\* Every variable has its type.
TypeOK ==
  /\ day \in 1..MaxDay /\ out \in Output
  /\ at \in {"idle", "zones", "root"} /\ todo \subseteq Names /\ writing \in File
  /\ serves \in [Servers -> Output] /\ gens \in 0..MaxGens
  /\ overtaken \in BOOLEAN /\ cut \in BOOLEAN

\* "too many updates today": a zone whose records change gets a greater serial
\* number on every server, however often it changes on a day and wherever the
\* clock is put, unless a gen ran before servers[0] answered with the last of them.
SerialsGrow ==
  [][\A s \in Servers : \A z \in serves[s].conf \cap serves'[s].conf :
       LET old == serves[s].file[z]  new == serves'[s].file[z]
       IN  new # old /\ ~overtaken => new.serial > old.serial]_vars

Rooted(o) == o.conf # {} => o.root

\* named starts: wherever gen was killed, each zone that zones.conf lists has
\* its file, on the build host and on every server.  So has the zone ".", unless
\* the first gen in out_dir was killed, or what it made was built, between
\* zones.conf and named.root, which it writes after it.
ListedHaveFiles ==
  /\ \A o \in {out} \cup {serves[s] : s \in Servers} : \A n \in o.conf : o.file[n] # NoZone
  /\ ~cut => /\ Rooted(out) \/ at = "root"
             /\ \A s \in Servers : Rooted(serves[s])

\* What WriteZone has come to is written, and every zones.conf has Home.
WrittenInv ==
  /\ at = "zones" =>
       /\ todo \subseteq FilesOf(writing.of) /\ writing.of \notin Failing
       /\ \A n \in FilesOf(writing.of) \ todo : out.file[n] = writing
  /\ at # "zones" => todo = {}
  /\ out.conf # {} => Home \in out.conf
  /\ Home \in serves[Primary].conf

\* No file is newer than the last serial number, nor, unless a gen ran too early,
\* than what is installed later: those that are still to be written are older.
SerialInv ==
  ~overtaken =>
    /\ \A o \in {out} \cup {serves[s] : s \in Servers} : \A n \in Names : o.file[n] # NoZone =>
         /\ o.file[n].serial <= writing.serial
         /\ n \in todo => o.file[n].serial < writing.serial
    /\ \A s \in Servers : \A n \in Names :
         {out.file[n], serves[s].file[n]} \subseteq File /\ out.file[n] # serves[s].file[n] =>
           out.file[n].serial > serves[s].file[n].serial

\* The inductive invariant
IInv == TypeOK /\ ListedHaveFiles /\ WrittenInv /\ SerialInv

Written == at = "zones" /\ todo = {}

\* The octets that the name of a reverse zone has, in the net's label
Fixed(net) == IF net.prefixlen = 32 THEN 3 ELSE net.prefixlen \div 8

\* The name under which the reverse zone is asked for an address: the other octets,
\* the last one first
ReverseName(net, a) == [i \in 1..(4 - Fixed(net)) |-> a[5 - i]]

\* What the reverse zone of net answers
ReverseLookup(c, net, a) ==
  {p.names : p \in {q \in Ptr(c, net) : q.owner = ReverseName(net, a)}}

\* Configurations in which the reverse lookup of each address that a zone has an
\* A record of, in a net with a reverse zone and at least three fixed octets, gives
\* one host, which has that address, and is the one that asks for it if any does
PtrsAnswer == {c \in Configs : \A z \in Content[c].zones : \A r \in ARecords(c, z) :
  r.entry.net \in Content[c].nets /\ r.entry.net.prefixlen >= 24 =>
    \E y \in Content[c].zones : \E t \in ARecords(c, y) :
      /\ ReverseLookup(c, r.entry.net, r.address) = {t}
      /\ t.address = r.address /\ (r.entry.ptr => t = r)}

\* Reverse lookup agrees with lookup in what gen has written, whichever zones
\* share an address, in nets with three fixed octets.  (In larger ones it does not:
\* the owner of a PTR record has two octets in the order of the address, where
\* in-addr.arpa has the last one first; see Backward in NamedConf_proofs.)
PtrsMatch == Written => writing.of \in PtrsAnswer

\* Configurations in which each entry has an A record, and one only, if its net
\* has at least two fixed octets
EntriesOnce == {c \in Configs : \A e \in Content[c].entries :
  e.net.prefixlen >= 16 => \E r \in ARecords(c, e.zone) :
    {t \in ARecords(c, e.zone) : t.entry = e} = {r}}

\* What is written serves each entry at one address: none is dropped (entries
\* that match no address are, without an error) and none stands for several.
\* (In nets with fewer fixed octets the key lacks one that differs, against
\* "Split after the last fully-covered octet boundary".)
EntryIsOneAddress == Written => writing.of \in EntriesOnce

\* The operator's part in it: the key of each entry is what follows the octets
\* that the net fixes, or the last one, in some address of the net (the keys of the
\* nets with fewer fixed octets do not matter).
KeysFit == \A c \in Configs : \A e \in Content[c].entries :
  e.net.prefixlen >= 16 => \E a \in Addresses(e.net) :
                             e.key = SubSeq(a, Fixed(e.net) + 1, 4)
=============================================================================
