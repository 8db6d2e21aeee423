--------------------------- MODULE NamedConf_proofs ---------------------------
(***************************************************************************)
(* The properties of NamedConf for any configurations, servers and days.   *)
(***************************************************************************)
EXTENDS NamedConf, SequenceTheorems, TLAPS

LEMMA HomeIsName == Home \in Names /\ Home \in Zones
  BY NamedAssumption DEF Names

LEMMA FilesAreNames ==
  ASSUME NEW c \in Configs
  PROVE  FilesOf(c) \subseteq Names /\ Home \in FilesOf(c)
  BY NamedAssumption DEF FilesOf, Names

\* _serial: greater than the last, wherever the clock is.
LEMMA SerialIsGreater ==
  ASSUME NEW curr \in Nat, day \in Nat
  PROVE  Serial(curr) \in Nat /\ Serial(curr) > curr
  BY DEF Serial, Today

\* What is in out_dir or on a server
LEMMA OutputsTyped ==
  ASSUME TypeOK, NEW o \in {out} \cup {serves[s] : s \in Servers}
  PROVE  /\ o \in Output
         /\ \A n \in Names : o.file[n] # NoZone => o.file[n] \in File /\ o.file[n].serial \in Nat
  BY DEF TypeOK, Output, File

LEMMA InitInv == Init => IInv
<1> SUFFICES ASSUME Init PROVE IInv
  OBVIOUS
<1>1. PICK cfg \in Configs \ Failing :
        /\ writing = [serial |-> 0, of |-> cfg]
        /\ out \in {Generated(cfg, 0), Nothing}
        /\ serves \in [Servers -> {Generated(cfg, 0), Nothing}]
        /\ serves[Primary] = Generated(cfg, 0)
  BY DEF Init
<1> DEFINE g == Generated(cfg, 0)
<1>2. writing \in File /\ writing # NoZone
  BY <1>1, NamedAssumption DEF File
<1>3. /\ \A n \in Names : g.file[n] = IF n \in FilesOf(cfg) THEN writing ELSE NoZone
      /\ g.conf = FilesOf(cfg) /\ g.root = TRUE
  BY <1>1 DEF Generated
<1>4. (\A n \in Names : Nothing.file[n] = NoZone) /\ Nothing.conf = {}
  BY DEF Nothing
<1>5. g \in Output /\ Nothing \in Output
  <2>1. g.file \in [Names -> File \cup {NoZone}]
    BY <1>1, <1>2 DEF Generated
  <2>2. g \in Output
    BY <2>1, FilesAreNames DEF Generated, Output
  <2>3. Nothing \in Output
    BY DEF Nothing, Output
  <2> QED
    BY <2>2, <2>3
<1>6. \A o \in {out} \cup {serves[s] : s \in Servers} : o \in {g, Nothing}
  BY <1>1
<1> HIDE DEF g
<1>7. TypeOK
  <2>1. day \in 1..MaxDay /\ gens \in 0..MaxGens
    BY NamedAssumption DEF Init
  <2>2. serves \in [Servers -> Output] /\ out \in Output
    BY <1>1, <1>5 DEF g
  <2> QED
    BY <1>2, <2>1, <2>2 DEF Init, TypeOK
<1>8. ListedHaveFiles
  BY <1>2, <1>3, <1>4, <1>6, FilesAreNames DEF ListedHaveFiles, Rooted
<1>9. WrittenInv
  BY <1>1, <1>3, <1>4, <1>6, FilesAreNames DEF WrittenInv, Init, g
<1>10. SerialInv
  <2>1. \A o \in {out} \cup {serves[s] : s \in Servers} : \A n \in Names :
          o.file[n] \in {writing, NoZone}
    BY <1>3, <1>4, <1>6
  <2>2. NoZone \notin File /\ todo = {} /\ writing.serial = 0
    BY <1>1, NamedAssumption DEF Init
  <2> QED
    BY <2>1, <2>2 DEF SerialInv
<1> QED
  BY <1>7, <1>8, <1>9, <1>10 DEF IInv

LEMMA InstalledHome ==
  ASSUME IInv
  PROVE  serves[Primary].file[Home] \in File
  BY HomeIsName, NamedAssumption DEF IInv, TypeOK, ListedHaveFiles, WrittenInv, Output

LEMMA GenInv == ASSUME IInv, NEW cfg \in Configs, Gen(cfg) PROVE IInv'
<1> DEFINE s == Serial(serves[Primary].file[Home].serial)
<1>1. serves[Primary].file[Home] \in File
  BY InstalledHome
<1>2. s \in Nat /\ s > serves[Primary].file[Home].serial
  BY <1>1, SerialIsGreater DEF IInv, TypeOK, File
<1>3. writing' = [serial |-> s, of |-> cfg] /\ cfg \notin Failing
  BY DEF Gen
<1>4. TypeOK'
  BY <1>2, <1>3, FilesAreNames, NamedAssumption DEF IInv, TypeOK, Gen, File
<1>5. ListedHaveFiles'
  BY DEF IInv, ListedHaveFiles, Rooted, Gen
<1>6. WrittenInv'
  BY <1>3 DEF IInv, WrittenInv, Gen
<1>7. SerialInv'
  <2> SUFFICES ASSUME ~overtaken' PROVE SerialInv'
    BY DEF SerialInv
  <2>1. ~overtaken /\ serves[Primary].file[Home].serial = writing.serial
    BY DEF Gen, IInv, TypeOK
  <2>2. writing.serial < writing'.serial /\ writing.serial \in Nat /\ writing'.serial \in Nat
    BY <1>2, <1>3, <2>1 DEF IInv, TypeOK, File
  <2>3. ASSUME NEW o \in {out} \cup {serves[t] : t \in Servers}, NEW n \in Names,
               o.file[n] # NoZone
        PROVE  o.file[n].serial < writing'.serial
    <3>1. o.file[n].serial \in Nat
      BY <2>3, OutputsTyped DEF IInv
    <3>2. o.file[n].serial <= writing.serial
      BY <2>1, <2>3 DEF SerialInv, IInv
    <3> QED
      BY <2>2, <3>1, <3>2
  <2>4. ASSUME NEW o \in {out} \cup {serves[t] : t \in Servers}, NEW n \in Names,
               o.file[n] # NoZone
        PROVE  o.file[n].serial <= writing'.serial
    <3>1. o.file[n].serial \in Nat
      BY <2>4, OutputsTyped DEF IInv
    <3> QED
      BY <2>2, <2>3, <2>4, <3>1
  <2> QED
    BY <2>1, <2>3, <2>4 DEF SerialInv, IInv, Gen
<1> QED
  BY <1>4, <1>5, <1>6, <1>7 DEF IInv

LEMMA WriteZoneInv == ASSUME IInv, NEW name \in Names, WriteZone(name) PROVE IInv'
<1>1. /\ \A n \in Names : out'.file[n] = IF n = name THEN writing ELSE out.file[n]
      /\ out'.conf = out.conf /\ out'.root = out.root
  BY DEF WriteZone, IInv, TypeOK, Output
<1>2. writing \in File /\ writing # NoZone /\ writing.serial \in Nat
  BY NamedAssumption DEF IInv, TypeOK, File
<1>3. TypeOK'
  <2>1. out' \in Output
    BY <1>2 DEF WriteZone, IInv, TypeOK, Output
  <2> QED
    BY <2>1 DEF WriteZone, IInv, TypeOK
<1>4. ListedHaveFiles'
  <2>1. \A n \in out'.conf : out'.file[n] # NoZone
    BY <1>1, <1>2 DEF IInv, TypeOK, Output, ListedHaveFiles
  <2>2. \A s \in Servers : \A n \in serves[s].conf : serves[s].file[n] # NoZone
    BY DEF IInv, ListedHaveFiles
  <2>3. ~cut => (Rooted(out') \/ at = "root") /\ \A s \in Servers : Rooted(serves[s])
    BY <1>1 DEF IInv, ListedHaveFiles, Rooted
  <2>4. serves' = serves /\ cut' = cut /\ at' = at
    BY DEF WriteZone
  <2> QED
    BY <2>1, <2>2, <2>3, <2>4 DEF ListedHaveFiles, Rooted
<1>5. WrittenInv'
  BY <1>1, FilesAreNames DEF IInv, TypeOK, File, WrittenInv, WriteZone
<1>6. SerialInv'
  <2> SUFFICES ASSUME ~overtaken PROVE SerialInv'
    BY DEF SerialInv, WriteZone
  <2>1. name \in todo /\ name \notin todo' /\ todo' \subseteq todo
    BY DEF WriteZone
  <2>2. ASSUME NEW o \in {out'} \cup {serves[t] : t \in Servers}, NEW n \in Names,
               o.file[n] # NoZone
        PROVE  o.file[n].serial <= writing.serial /\ (n \in todo' => o.file[n].serial < writing.serial)
    <3>1. CASE o \in {serves[t] : t \in Servers}
      BY <2>1, <2>2, <3>1 DEF IInv, SerialInv
    <3>2. CASE o = out' /\ n # name
      BY <1>1, <2>1, <2>2, <3>2 DEF IInv, SerialInv
    <3>3. CASE o = out' /\ n = name
      BY <1>1, <1>2, <2>1, <3>3
    <3> QED
      BY <2>2, <3>1, <3>2, <3>3
  <2>3. ASSUME NEW t \in Servers, NEW n \in Names,
               {out'.file[n], serves[t].file[n]} \subseteq File,
               out'.file[n] # serves[t].file[n]
        PROVE  out'.file[n].serial > serves[t].file[n].serial
    <3>1. CASE n # name
      BY <1>1, <2>3, <3>1 DEF IInv, SerialInv
    <3>2. CASE n = name
      <4>1. serves[t].file[n] # NoZone /\ serves[t].file[n].serial \in Nat
        BY <2>3, NamedAssumption DEF File
      <4>2. serves[t].file[n].serial < writing.serial
        BY <2>1, <3>2, <4>1 DEF IInv, SerialInv
      <4> QED
        BY <1>1, <1>2, <3>2, <4>1, <4>2
    <3> QED
      BY <3>1, <3>2
  <2> QED
    BY <2>2, <2>3 DEF SerialInv, WriteZone
<1> QED
  BY <1>3, <1>4, <1>5, <1>6 DEF IInv

LEMMA WriteConfInv == ASSUME IInv, WriteConf PROVE IInv'
<1>1. /\ out'.file = out.file /\ out'.conf = FilesOf(writing.of) /\ out'.root = out.root
      /\ writing.of \in Configs
  BY DEF WriteConf, IInv, TypeOK, File
<1>2. writing # NoZone
  BY NamedAssumption DEF IInv, TypeOK
<1>3. TypeOK'
  BY <1>1, FilesAreNames DEF WriteConf, IInv, TypeOK, Output
<1>4. \A n \in FilesOf(writing.of) : out.file[n] = writing
  BY DEF WriteConf, IInv, WrittenInv
<1>5. ListedHaveFiles'
  <2>1. \A n \in out'.conf : out'.file[n] # NoZone
    BY <1>1, <1>2, <1>4
  <2> QED
    BY <2>1 DEF IInv, ListedHaveFiles, Rooted, WriteConf
<1>6. WrittenInv'
  BY <1>1, FilesAreNames DEF IInv, WrittenInv, WriteConf
<1>7. SerialInv'
  BY <1>1 DEF IInv, SerialInv, WriteConf
<1> QED
  BY <1>3, <1>5, <1>6, <1>7 DEF IInv

LEMMA WriteRootInv == ASSUME IInv, WriteRoot PROVE IInv'
<1>1. out'.file = out.file /\ out'.conf = out.conf /\ out'.root = TRUE
  BY DEF WriteRoot
<1>2. TypeOK'
  BY <1>1 DEF WriteRoot, IInv, TypeOK, Output
<1>3. ListedHaveFiles'
  BY <1>1 DEF IInv, ListedHaveFiles, Rooted, WriteRoot
<1>4. WrittenInv'
  BY <1>1 DEF IInv, WrittenInv, WriteRoot
<1>5. SerialInv'
  BY <1>1 DEF IInv, SerialInv, WriteRoot
<1> QED
  BY <1>2, <1>3, <1>4, <1>5 DEF IInv

LEMMA KillGenInv == ASSUME IInv, KillGen PROVE IInv'
<1>1. ListedHaveFiles'
  BY DEF KillGen, Cut, IInv, TypeOK, Output, ListedHaveFiles, Rooted
<1> QED
  BY <1>1 DEF KillGen, IInv, TypeOK, WrittenInv, SerialInv

\* Installing keeps what is not in out_dir, and the two together are complete.
LEMMA UpdateInv == ASSUME IInv, NEW s \in Servers, Update(s) PROVE IInv'
<1> DEFINE new == Installed(serves[s])
<1>1. \A t \in Servers : serves'[t] = IF t = s THEN new ELSE serves[t]
  BY DEF Update, IInv, TypeOK
<1>2. /\ \A n \in Names : new.file[n] = IF out.file[n] = NoZone THEN serves[s].file[n] ELSE out.file[n]
      /\ new.conf = IF out.conf = {} THEN serves[s].conf ELSE out.conf
      /\ new.root = (out.root \/ serves[s].root)
  BY DEF Installed
<1>3. out \in Output /\ serves[s] \in Output /\ out.conf \subseteq Names /\ serves[s].conf \subseteq Names
  BY DEF IInv, TypeOK, Output
<1>4. new \in Output
  BY <1>3 DEF Installed, Output
<1> HIDE DEF new
<1>5. TypeOK'
  <2>1. serves' \in [Servers -> Output]
    BY <1>4 DEF Update, IInv, TypeOK, new
  <2> QED
    BY <2>1 DEF Update, IInv, TypeOK
<1>6. ListedHaveFiles'
  <2>1. \A n \in new.conf : new.file[n] # NoZone
    BY <1>2, <1>3 DEF IInv, ListedHaveFiles
  <2>2. ~cut' => Rooted(out)
    BY <1>3 DEF Update, Cut, IInv, ListedHaveFiles, Rooted, Output
  <2>3. ~cut' => Rooted(new)
    BY <1>2, <1>3, <2>2 DEF Update, IInv, ListedHaveFiles, Rooted, Output
  <2>4. \A n \in out'.conf : out'.file[n] # NoZone
    BY DEF Update, IInv, ListedHaveFiles
  <2>5. \A t \in Servers : \A n \in serves'[t].conf : serves'[t].file[n] # NoZone
    BY <1>1, <2>1 DEF IInv, ListedHaveFiles
  <2>6. ~cut' => Rooted(out') /\ \A t \in Servers : Rooted(serves'[t])
    BY <1>1, <2>2, <2>3 DEF Update, IInv, ListedHaveFiles, Rooted
  <2> QED
    BY <2>4, <2>5, <2>6 DEF ListedHaveFiles, Rooted
<1>7. WrittenInv'
  BY <1>1, <1>2, NamedAssumption DEF Update, IInv, WrittenInv
<1>8. SerialInv'
  <2> SUFFICES ASSUME ~overtaken PROVE SerialInv'
    BY DEF SerialInv, Update
  <2>1. ASSUME NEW n \in Names, new.file[n] # NoZone
        PROVE  new.file[n].serial <= writing.serial /\ (n \in todo => new.file[n].serial < writing.serial)
    BY <1>2, <2>1 DEF IInv, SerialInv
  <2>2. ASSUME NEW n \in Names, {out.file[n], new.file[n]} \subseteq File
        PROVE  out.file[n] = new.file[n]
    BY <1>2, <2>2, NamedAssumption
  <2>3. \A o \in {out'} \cup {serves'[t] : t \in Servers} :
          o = new \/ o \in {out} \cup {serves[t] : t \in Servers}
    BY <1>1 DEF Update
  <2> QED
    BY <1>1, <2>1, <2>2, <2>3 DEF Update, IInv, SerialInv
<1> QED
  BY <1>5, <1>6, <1>7, <1>8 DEF IInv

LEMMA SetDayInv == ASSUME IInv, NEW d \in 1..MaxDay, SetDay(d) PROVE IInv'
  BY DEF SetDay, IInv, TypeOK, ListedHaveFiles, Rooted, WrittenInv, SerialInv

LEMMA StepInv == IInv /\ [Next]_vars => IInv'
<1> SUFFICES ASSUME IInv, [Next]_vars PROVE IInv'
  OBVIOUS
<1>1. CASE UNCHANGED vars
  BY <1>1 DEF vars, IInv, TypeOK, ListedHaveFiles, Rooted, WrittenInv, SerialInv
<1> QED
  BY <1>1, GenInv, WriteZoneInv, WriteConfInv, WriteRootInv, KillGenInv, UpdateInv, SetDayInv DEF Next

THEOREM Invariant == Spec => []IInv
  BY InitInv, StepInv, PTL DEF Spec

\* Every variable has its type (pkcli/named_conf.py, component/named.py).
THEOREM Types == Spec => []TypeOK
  BY Invariant, PTL DEF IInv

\* Every zone that zones.conf lists has its file, wherever gen is killed; named.root,
\* which is written last, is there unless the first gen was cut short before it.
THEOREM FilesAreThere == Spec => []ListedHaveFiles
  BY Invariant, PTL DEF IInv

\* A zone that changes on a server gets a greater serial number.
THEOREM Grows == Spec => SerialsGrow
<1>1. ASSUME IInv, [Next]_vars
      PROVE  [\A s \in Servers : \A z \in serves[s].conf \cap serves'[s].conf :
                LET old == serves[s].file[z]  new == serves'[s].file[z]
                IN  new # old /\ ~overtaken => new.serial > old.serial]_vars
  <2> SUFFICES ASSUME NEW s \in Servers, NEW z \in serves[s].conf,
                      serves'[s].file[z] # serves[s].file[z], ~overtaken
               PROVE  serves'[s].file[z].serial > serves[s].file[z].serial
    BY DEF vars
  <2>1. PICK t \in Servers : Update(t)
    BY <1>1 DEF Next, vars, WriteConf, WriteRoot, KillGen, WriteZone, Gen, SetDay
  <2>2. serves'[s] = Installed(serves[s])
    BY <1>1, <2>1 DEF Update, IInv, TypeOK
  <2>3. z \in Names /\ serves[s].file[z] # NoZone
    BY <1>1 DEF IInv, TypeOK, Output, ListedHaveFiles
  <2>4. serves'[s].file[z] = out.file[z] /\ out.file[z] # NoZone
    BY <2>2, <2>3 DEF Installed
  <2>5. {out.file[z], serves[s].file[z]} \subseteq File
    BY <1>1, <2>3, <2>4 DEF IInv, TypeOK, Output
  <2> QED
    BY <1>1, <2>3, <2>4, <2>5 DEF IInv, SerialInv
<1> QED
  BY <1>1, Invariant, PTL DEF Spec, SerialsGrow

\* _address_to_host_key: no two addresses of a net with two fixed octets have the
\* same key.
THEOREM KeysDiffer ==
  ASSUME NEW net \in Nets, net.prefixlen >= 16,
         NEW a \in Addresses(net), NEW b \in Addresses(net),
         AddressToHostKey(net, a) = AddressToHostKey(net, b)
  PROVE  a = b
<1>1. net.prefixlen \in Nat /\ net.prefixlen <= 32
  BY NamedAssumption
<1>2. a \in [1..4 -> Octets] /\ b \in [1..4 -> Octets]
  BY DEF Addresses
<1>3. a[1] = b[1] /\ a[2] = b[2]
  BY <1>1 DEF Addresses
<1>4. \A i \in 1..4 : a[i] \in Octets /\ b[i] \in Octets
  BY <1>2
<1>5. CASE net.prefixlen < 24
  <2>1. SubSeq(a, 3, 4) = SubSeq(b, 3, 4)
    BY <1>1, <1>5 DEF AddressToHostKey
  <2>2. /\ SubSeq(a, 3, 4)[1] = a[3] /\ SubSeq(a, 3, 4)[2] = a[4]
        /\ SubSeq(b, 3, 4)[1] = b[3] /\ SubSeq(b, 3, 4)[2] = b[4]
    <3>1. /\ \A i \in 1..2 : SubSeq(a, 3, 4)[i] = a[i + 2]
          /\ \A i \in 1..2 : SubSeq(b, 3, 4)[i] = b[i + 2]
      BY <1>4, SubSeqProperties
    <3> QED
      BY <3>1
  <2>3. a[3] = b[3] /\ a[4] = b[4]
    BY <2>1, <2>2
  <2> QED
    BY <1>2, <1>3, <2>3
<1>6. CASE net.prefixlen >= 24
  <2>1. SubSeq(a, 4, 4) = SubSeq(b, 4, 4)
    BY <1>1, <1>6 DEF AddressToHostKey
  <2>2. SubSeq(a, 4, 4)[1] = a[4] /\ SubSeq(b, 4, 4)[1] = b[4]
    <3>1. /\ \A i \in 1..1 : SubSeq(a, 4, 4)[i] = a[i + 3]
          /\ \A i \in 1..1 : SubSeq(b, 4, 4)[i] = b[i + 3]
      BY <1>4, SubSeqProperties
    <3> QED
      BY <3>1
  <2>3. a[4] = b[4]
    BY <2>1, <2>2
  <2>4. a[3] = b[3]
    BY <1>1, <1>6 DEF Addresses
  <2> QED
    BY <1>2, <1>3, <2>3, <2>4
<1> QED
  BY <1>1, <1>5, <1>6

\* SubSeq up to the last octet, as a function
LEMMA SubSeqIsFunction ==
  ASSUME NEW S, NEW a \in [1..4 -> S], NEW k \in 1..4
  PROVE  SubSeq(a, k, 4) = [i \in 1..(5 - k) |-> a[k - 1 + i]]
<1> DEFINE s == SubSeq(a, k, 4)  t == [i \in 1..(5 - k) |-> a[k - 1 + i]]
<1>1. /\ s \in Seq(S) /\ Len(s) = 5 - k
      /\ \A i \in 1..(5 - k) : s[i] = a[k - 1 + i]
  BY SubSeqProperties
<1>2. t \in Seq(S) /\ Len(t) = 5 - k
  <2>1. t \in [1..(5 - k) -> S]
    OBVIOUS
  <2> QED
    BY <2>1, SeqDef
<1> HIDE DEF s, t
<1>3. \A i \in 1..(5 - k) : t[i] = a[k - 1 + i]
  BY DEF t
<1>4. s = t
  BY <1>1, <1>2, <1>3, SeqEqual
<1> QED
  BY <1>4 DEF s, t

\* A key of one octet is the same in either order.
LEMMA OneOctet ==
  ASSUME NEW net \in Nets, NEW a \in Addresses(net), net.prefixlen >= 24
  PROVE  AddressToHostKey(net, a) = ReverseName(net, a)
<1>1. net.prefixlen \in Nat /\ net.prefixlen <= 32
  BY NamedAssumption
<1>2. AddressToHostKey(net, a) = SubSeq(a, 4, 4)
  BY <1>1 DEF AddressToHostKey
<1>3. a \in [1..4 -> Octets]
  BY DEF Addresses
<1>4. SubSeq(a, 4, 4) = [i \in 1..(5 - 4) |-> a[4 - 1 + i]]
  BY <1>3, SubSeqIsFunction
<1>5. Fixed(net) = 3
  BY <1>1 DEF Fixed
<1>6. \A i \in 1..1 : a[4 - 1 + i] = a[5 - i]
  <2>1. \A i \in 1..1 : i = 1
    OBVIOUS
  <2> QED
    BY <2>1
<1> QED
  BY <1>2, <1>4, <1>5, <1>6 DEF ReverseName

\* make_ptr: in a net with two fixed octets but not three, the record of an address
\* is where the address with the last two octets exchanged is looked up.
THEOREM Backward ==
  ASSUME NEW net \in Nets, net.prefixlen >= 16, net.prefixlen < 24,
         NEW a \in Addresses(net), NEW b \in Addresses(net), b[3] = a[4], b[4] = a[3]
  PROVE  AddressToHostKey(net, a) = ReverseName(net, b)
<1>1. net.prefixlen \in Nat
  BY NamedAssumption
<1>2. AddressToHostKey(net, a) = SubSeq(a, 3, 4)
  BY <1>1 DEF AddressToHostKey
<1>3. a \in [1..4 -> Octets]
  BY DEF Addresses
<1>4. SubSeq(a, 3, 4) = [i \in 1..(5 - 3) |-> a[3 - 1 + i]]
  BY <1>3, SubSeqIsFunction
<1>5. Fixed(net) = 2
  BY <1>1 DEF Fixed
<1>6. \A i \in 1..2 : a[3 - 1 + i] = b[5 - i]
  <2>1. \A i \in 1..2 : i = 1 \/ i = 2
    OBVIOUS
  <2> QED
    BY <2>1
<1> QED
  BY <1>2, <1>4, <1>5, <1>6 DEF ReverseName

\* Reverse lookup agrees with lookup, in nets with three fixed octets: gen fails
\* rather than write a reverse zone where some address has no PTR record or several
\* (make_ptr), and no two addresses have the same owner (_address_to_host_key).
THEOREM Reverse == Spec => []PtrsMatch
<1>1. IInv => PtrsMatch
  <2> SUFFICES ASSUME IInv, Written PROVE writing.of \in PtrsAnswer
    BY DEF PtrsMatch
  <2> DEFINE c == writing.of
  <2>1. c \in Configs /\ c \notin Failing
    BY DEF IInv, TypeOK, File, WrittenInv, Written
  <2> SUFFICES ASSUME NEW z \in Content[c].zones, NEW r \in ARecords(c, z),
                      r.entry.net \in Content[c].nets, r.entry.net.prefixlen >= 24
               PROVE  \E y \in Content[c].zones : \E t \in ARecords(c, y) :
                        /\ ReverseLookup(c, r.entry.net, r.address) = {t}
                        /\ t.address = r.address /\ (r.entry.ptr => t = r)
    BY <2>1 DEF PtrsAnswer
  <2> DEFINE net == r.entry.net  a == r.address
  <2>2. a \in Addresses(net) /\ net \in Nets
    BY <2>1, NamedAssumption DEF ARecords
  <2>3. r \in PtrMap(c, net, a)
    BY DEF PtrMap
  <2>4. PICK t \in Chosen(c, net, a) : Chosen(c, net, a) = {t}
    BY <2>1, <2>2, <2>3 DEF Failing, PtrFails
  <2>5. t \in PtrMap(c, net, a)
    BY <2>4 DEF Chosen, Yes, No
  <2>6. r.entry.ptr => t = r
    BY <2>3, <2>4 DEF Chosen, Yes
  <2>7. AddressToHostKey(net, a) = ReverseName(net, a)
    BY <2>2, OneOctet
  <2>8. ReverseLookup(c, net, a) = {t}
    <3>1. ASSUME NEW q \in Ptr(c, net), q.owner = ReverseName(net, a)
          PROVE  q.names = t
      <4>1. PICK b \in Addresses(net) :
              \E u \in Chosen(c, net, b) : q = [owner |-> AddressToHostKey(net, b), names |-> u]
        BY DEF Ptr
      <4>2. b = a
        <5>1. AddressToHostKey(net, b) = AddressToHostKey(net, a)
          BY <2>7, <3>1, <4>1
        <5>2. net.prefixlen >= 16
          BY <2>2, NamedAssumption
        <5> QED
          BY <2>2, <5>1, <5>2, KeysDiffer
      <4> QED
        BY <2>4, <4>1, <4>2
    <3>2. [owner |-> AddressToHostKey(net, a), names |-> t] \in Ptr(c, net)
      BY <2>2, <2>4 DEF Ptr
    <3> QED
      BY <2>7, <3>1, <3>2 DEF ReverseLookup
  <2> QED
    BY <2>5, <2>6, <2>8 DEF PtrMap
<1> QED
  BY <1>1, Invariant, PTL

\* _zone_a: an entry of a net with two fixed octets has one A record at most,
\* whatever its key is.
THEOREM OneRecordAtMost ==
  ASSUME NEW c \in Configs, NEW e \in Content[c].entries, e.net.prefixlen >= 16,
         NEW r \in ARecords(c, e.zone), NEW t \in ARecords(c, e.zone),
         r.entry = e, t.entry = e
  PROVE  r = t
<1>1. PICK a \in Addresses(e.net) :
        r = [entry |-> e, address |-> a] /\ AddressToHostKey(e.net, a) = e.key
  BY DEF ARecords
<1>2. PICK b \in Addresses(e.net) :
        t = [entry |-> e, address |-> b] /\ AddressToHostKey(e.net, b) = e.key
  BY DEF ARecords
<1>3. e.net \in Nets
  BY NamedAssumption
<1>4. a = b
  BY <1>1, <1>2, <1>3, KeysDiffer
<1> QED
  BY <1>1, <1>2, <1>4

\* _address_to_host_key drops the octets that the net fixes, but the last.
LEMMA KeyOfAddress ==
  ASSUME NEW c \in Configs, NEW e \in Content[c].entries, e.net.prefixlen >= 16, NEW a
  PROVE  AddressToHostKey(e.net, a) =
           SubSeq(a, Fixed(e.net) + 1, 4)
<1> DEFINE n == e.net.prefixlen
<1>1. n \in Nat /\ n <= 32 /\ n >= 16
  BY NamedAssumption
<1>2. n < 24 => n \div 8 = 2
  BY <1>1
<1>3. n >= 24 /\ n # 32 => n \div 8 = 3
  BY <1>1
<1>4. Fixed(e.net) + 1 = IF n < 24 THEN 3 ELSE 4
  BY <1>1, <1>2, <1>3 DEF Fixed
<1>5. AddressToHostKey(e.net, a) = SubSeq(a, IF n < 24 THEN 3 ELSE 4, 4)
  BY <1>1 DEF AddressToHostKey
<1> QED
  BY <1>4, <1>5

\* What gen has written serves each entry at exactly one address, if the keys of
\* the entries are keys of addresses of their nets: those of others get no record
\* and no error.
THEOREM Serves == ASSUME KeysFit PROVE Spec => []EntryIsOneAddress
<1>1. IInv => EntryIsOneAddress
  <2> SUFFICES ASSUME IInv, Written PROVE writing.of \in EntriesOnce
    BY DEF EntryIsOneAddress
  <2> DEFINE c == writing.of
  <2>1. c \in Configs
    BY DEF IInv, TypeOK, File
  <2> SUFFICES ASSUME NEW e \in Content[c].entries, e.net.prefixlen >= 16
               PROVE  \E r \in ARecords(c, e.zone) :
                        {t \in ARecords(c, e.zone) : t.entry = e} = {r}
    BY <2>1 DEF EntriesOnce
  <2>2. PICK a \in Addresses(e.net) : AddressToHostKey(e.net, a) = e.key
    BY <2>1, KeyOfAddress DEF KeysFit
  <2> DEFINE r == [entry |-> e, address |-> a]
  <2>3. r \in ARecords(c, e.zone) /\ r.entry = e
    BY <2>2 DEF ARecords
  <2>4. \A t \in ARecords(c, e.zone) : t.entry = e => t = r
    BY <2>1, <2>3, OneRecordAtMost
  <2> HIDE DEF r
  <2> QED
    BY <2>3, <2>4
<1> QED
  BY <1>1, Invariant, PTL
=============================================================================
