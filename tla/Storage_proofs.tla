---------------------------- MODULE Storage_proofs ----------------------------
(***************************************************************************)
(* Three facts about the storage, for any devices, protocols and           *)
(* identifiers and whatever is scanned, paired, updated, removed, saved    *)
(* and loaded.  Each Settings object has the identifiers and the           *)
(* credentials of one device only (Inv).  The hash is that of the file     *)
(* (FileIsHash).  While scans find whole devices, every device has at most *)
(* one Settings object, which keeps what was paired (WholeInv).            *)
(*                                                                         *)
(* And one about DMAP, whose credentials it keeps: how calls that share a  *)
(* session are denied, repeated and served (DaapInv), and what is there    *)
(* when a handler is announced for pairing (Announcing).                   *)
(***************************************************************************)
EXTENDS Storage, Daap, SequenceTheorems, TLAPS

(* The types that the argument needs.                                       *)
Types ==
    /\ settings \in [Ref -> Settings]
    /\ stored \in Seq(Ref)
    /\ file \in {None, Torn} \/ file \in Seq(Settings)
    /\ saving \in Saving \cup {None}
    /\ config \in Config \cup {None}
    /\ pairing \in Pairing \cup {None}

(* The settings that a handler holds are of the device that it pairs: this  *)
(* is what makes DevicesApart inductive, as the handler writes to them      *)
(* long after it asked for them.  The configuration whose service it        *)
(* shares is of that device too.                                            *)
HandlerHasItsOwn ==
    pairing # None =>
        /\ up
        /\ OfDevice(settings[pairing.ref], pairing.device)
        /\ pairing.shares => config # None /\ config.device = pairing.device

Inv == Types /\ DevicesApart /\ HandlerHasItsOwn

(* A configuration whose credentials are those of its device.               *)
Owned(c) == c \in Config /\ \A p \in Protocol : c.credentials[p] \in {c.device, None}

-----------------------------------------------------------------------------
(* Settings and configurations                                             *)

(* Settings that one identifier of a device was found in are all its own.   *)
LEMMA MatchedIsOwn ==
    ASSUME NEW s \in Settings, OfOne(s), NEW d \in Device, NEW offers \in SUBSET Protocol,
           NEW p \in Protocol, s.id[p] \in Identifiers(d, offers)
    PROVE  OfDevice(s, d)
<1>1. PICK q \in Protocol : s.id[p] = Id[d][q] /\ s.id[p] # None
  BY DEF Identifiers
<1>2. PICK e \in Device : OfDevice(s, e)
  BY DEF OfOne
<1>3. PICK r \in Protocol : s.id[p] = Id[e][r]
  BY <1>1, <1>2 DEF OfDevice
<1>4. \A x, y \in Device, p1, q1 \in Protocol :
        Id[x][p1] = Id[y][q1] /\ Id[x][p1] # None => x = y
  BY StorageAssumption, Zenon
<1>5. Id[d][q] = Id[e][r] /\ Id[d][q] # None
  BY <1>1, <1>3, Zenon
<1>6. d = e
  BY <1>4, <1>5
<1> QED
  BY <1>2, <1>6

LEMMA BlankIsAnybodys ==
    Blank \in Settings /\ \A d \in Device : OfDevice(Blank, d)
BY DEF Blank, Settings, OfDevice

LEMMA FoundIsOwned ==
    ASSUME NEW d \in Device, NEW offers \in SUBSET Protocol
    PROVE  Owned(Found(d, offers)) /\ Found(d, offers).device = d
                                   /\ Found(d, offers).offers = offers
BY DEF Owned, Found, Config

LEMMA UpdatedIsOwn ==
    ASSUME NEW s \in Settings, NEW c, Owned(c), OfDevice(s, c.device)
    PROVE  Updated(s, c) \in Settings /\ OfDevice(Updated(s, c), c.device)
<1>1. c.device \in Device /\ \A p \in Protocol : c.credentials[p] \in {c.device, None}
  BY DEF Owned, Config
<1>2. \A p \in Protocol : Id[c.device][p] \in Identifier \cup {None}
  BY <1>1 DEF Identifier
<1>3. Updated(s, c) \in Settings
  BY <1>1, <1>2 DEF Updated, Settings
<1>4. OfDevice(Updated(s, c), c.device)
  BY <1>1 DEF Updated, Settings, OfDevice
<1> QED
  BY <1>3, <1>4

LEMMA AppliedIsOwned ==
    ASSUME NEW s \in Settings, NEW c, Owned(c), OfDevice(s, c.device)
    PROVE  Owned(Applied(c, s))
BY DEF Owned, Applied, Config, Settings, OfDevice

-----------------------------------------------------------------------------
(* The storage                                                             *)

(* What an action has to show about the storage.                            *)
StorageKept ==
    /\ settings' \in [Ref -> Settings]
    /\ stored' \in Seq(Ref)
    /\ \A x \in Ref : OfOne(settings'[x])

LEMMA GetSettingsIsOwn ==
    ASSUME Inv, NEW c, Owned(c), NEW r \in Ref, GetSettings(c, r)
    PROVE  /\ StorageKept
           /\ OfDevice(settings'[r], c.device)
           /\ \A x \in Held : settings'[x] = settings[x]
<1> USE DEF Inv, Types, DevicesApart
<1>1. c.device \in Device /\ c.offers \in SUBSET Protocol
  BY DEF Owned, Config
<1>2. CASE /\ \E i \in Matching(c.device, c.offers) : r = stored[i]
           /\ UNCHANGED memory
  <2>1. PICK i \in Matching(c.device, c.offers) : r = stored[i]
    BY <1>2
  <2>2. PICK p \in Protocol : settings[r].id[p] \in Identifiers(c.device, c.offers)
    BY <2>1 DEF Matching
  <2>3. OfDevice(settings[r], c.device)
    BY <1>1, <2>2, MatchedIsOwn
  <2> QED
    BY <1>2, <2>3 DEF StorageKept, memory
<1>3. CASE /\ r \notin Elements(stored) \cup Held
           /\ settings' = [settings EXCEPT ![r] = Updated(Blank, c)]
           /\ stored' = Append(stored, r)
  <2>1. Updated(Blank, c) \in Settings /\ OfDevice(Updated(Blank, c), c.device)
    BY <1>1, BlankIsAnybodys, UpdatedIsOwn
  <2> DEFINE new == Updated(Blank, c)
  <2>2. settings' \in [Ref -> Settings] /\ settings'[r] = new
        /\ \A x \in Ref \ {r} : settings'[x] = settings[x]
    BY <1>3, <2>1
  <2>3. stored' \in Seq(Ref)
    BY <1>3
  <2>4. \A x \in Ref : OfOne(settings'[x])
    BY <1>1, <2>1, <2>2 DEF OfOne
  <2>5. Held \subseteq Ref
    BY DEF Held, Pairing
  <2> QED
    BY <1>3, <2>1, <2>2, <2>3, <2>4, <2>5 DEF StorageKept
<1> QED
  BY <1>2, <1>3 DEF GetSettings

(* The configuration and the handler of the user, and the file.             *)
UserKept ==
    /\ config' \in Config \cup {None}
    /\ config' # None => \A p \in Protocol : config'.credentials[p] \in {config'.device, None}
    /\ pairing' \in Pairing \cup {None}
    /\ pairing' # None =>
        /\ up'
        /\ OfDevice(settings'[pairing'.ref], pairing'.device)
        /\ pairing'.shares => config' # None /\ config'.device = pairing'.device

DiskKept ==
    /\ file' \in {None, Torn} \/ file' \in Seq(Settings)
    /\ file' \notin {None, Torn} => AllOfOne(file')
    /\ saving' \in Saving \cup {None}
    /\ saving' # None => AllOfOne(saving'.data)

LEMMA KeptIsInv ==
    ASSUME StorageKept, UserKept, DiskKept
    PROVE  Inv'
<1>1. Types'
  BY DEF StorageKept, UserKept, DiskKept, Types
<1>2. DevicesApart'
  BY DEF StorageKept, UserKept, DiskKept, DevicesApart
<1>3. HandlerHasItsOwn'
  BY DEF UserKept, HandlerHasItsOwn
<1> QED BY <1>1, <1>2, <1>3 DEF Inv

LEMMA StorageStutters == Inv /\ UNCHANGED memory => StorageKept
BY DEF Inv, Types, DevicesApart, StorageKept, memory

LEMMA DiskStutters == Inv /\ UNCHANGED <<file, saving>> => DiskKept
BY DEF Inv, Types, DevicesApart, DiskKept

(* The configuration in use.                                                *)
LEMMA ConfigIsOwned == Inv /\ config # None => Owned(config)
BY DEF Inv, Types, DevicesApart, Owned

(* A handler without the service of the configuration is as good.           *)
LEMMA DetachedIsOwn ==
    ASSUME Inv, pairing' = Detached, \A x \in Held : settings'[x] = settings[x]
    PROVE  /\ pairing' \in Pairing \cup {None}
           /\ pairing' # None =>
                /\ OfDevice(settings'[pairing'.ref], pairing'.device)
                /\ ~ pairing'.shares
<1>1. CASE pairing = None
  BY <1>1 DEF Detached
<1>2. CASE pairing # None
  <2>1. pairing \in Pairing
    BY <1>2 DEF Inv, Types
  <2>2. pairing' \in Pairing /\ pairing'.ref = pairing.ref /\ pairing'.device = pairing.device
        /\ ~ pairing'.shares
    BY <1>2, <2>1 DEF Detached, Pairing
  <2>3. settings'[pairing.ref] = settings[pairing.ref]
    BY <1>2 DEF Held
  <2> QED
    BY <1>2, <2>2, <2>3 DEF Inv, HandlerHasItsOwn
<1> QED
  BY <1>1, <1>2

-----------------------------------------------------------------------------
(* The actions                                                             *)

LEMMA InitIsOwn ==
    ASSUME Init
    PROVE  Inv
<1>1. \A r \in Ref : settings[r] = Blank
  BY DEF Init
<1>2. Types
  BY BlankIsAnybodys DEF Init, Types
<1>3. DevicesApart
  BY <1>1, StorageAssumption, BlankIsAnybodys DEF Init, DevicesApart, OfOne
<1> QED
  BY <1>2, <1>3 DEF Inv, Init, HandlerHasItsOwn

(* With get_settings, the handler is kept or detached, and the              *)
(* configuration is kept or made.                                          *)
LEMMA ScanIsOwn ==
    ASSUME Inv, NEW d \in Device, NEW offers \in Seen[d], Scan(d, offers)
    PROVE  Inv'
<1>1. offers \in SUBSET Protocol
  BY StorageAssumption
<1> DEFINE c == Found(d, offers)
<1>2. Owned(c)
  BY <1>1, FoundIsOwned
<1>3. PICK r \in Ref : GetSettings(c, r) /\ config' = Applied(c, settings'[r])
  BY DEF Scan
<1>4. StorageKept /\ OfDevice(settings'[r], c.device)
      /\ \A x \in Held : settings'[x] = settings[x]
  BY <1>2, <1>3, GetSettingsIsOwn
<1>5. Owned(config')
  BY <1>2, <1>3, <1>4, AppliedIsOwned DEF StorageKept
<1>6. UserKept
  BY <1>4, <1>5, DetachedIsOwn DEF UserKept, Owned, Scan
<1>7. DiskKept
  BY DiskStutters DEF Scan, disk
<1> QED
  BY <1>4, <1>6, <1>7, KeptIsInv

LEMMA ConnectIsOwn ==
    ASSUME Inv, Connect
    PROVE  Inv'
<1>1. Owned(config)
  BY ConfigIsOwned DEF Connect
<1>2. PICK r \in Ref : GetSettings(config, r)
  BY DEF Connect
<1>3. StorageKept /\ \A x \in Held : settings'[x] = settings[x]
  BY <1>1, <1>2, GetSettingsIsOwn
<1>4. UserKept
  BY <1>1, <1>3 DEF Connect, UserKept, Owned, Held, Inv, Types, HandlerHasItsOwn
<1>5. DiskKept
  BY DiskStutters DEF Connect, disk
<1> QED
  BY <1>3, <1>4, <1>5, KeptIsInv

LEMMA UpdateSettingsIsOwn ==
    ASSUME Inv, UpdateSettings
    PROVE  Inv'
<1>1. Owned(config) /\ config.device \in Device /\ config.offers \in SUBSET Protocol
  BY ConfigIsOwned DEF UpdateSettings, Owned, Config
<1> DEFINE ids == Matching(config.device, config.offers)
<1>2. DiskKept
  BY DiskStutters DEF UpdateSettings, disk
<1>3. UNCHANGED <<up, config, pairing>>
  BY DEF UpdateSettings
<1>4. CASE \E i \in ids : /\ settings' = [settings EXCEPT ![stored[i]] = Updated(@, config)]
                         /\ UNCHANGED stored
  <2>1. PICK i \in ids : /\ settings' = [settings EXCEPT ![stored[i]] = Updated(@, config)]
                         /\ UNCHANGED stored
    BY <1>4
  <2> DEFINE r == stored[i]
  <2>2. r \in Ref /\ \E p \in Protocol :
            settings[r].id[p] \in Identifiers(config.device, config.offers)
    BY <2>1 DEF Matching, Inv, Types
  <2>3. OfDevice(settings[r], config.device) /\ settings[r] \in Settings
    BY <1>1, <2>2, MatchedIsOwn DEF Inv, Types, DevicesApart
  <2> DEFINE new == Updated(settings[r], config)
  <2>4. new \in Settings /\ OfDevice(new, config.device)
    BY <1>1, <2>3, UpdatedIsOwn
  <2> HIDE DEF r
  <2>5. /\ settings' \in [Ref -> Settings] /\ settings'[r] = new
        /\ \A x \in Ref \ {r} : settings'[x] = settings[x]
    BY <2>1, <2>2, <2>4 DEF Inv, Types, r
  <2> HIDE DEF new
  <2>6. StorageKept
    BY <1>1, <2>1, <2>4, <2>5 DEF StorageKept, Inv, Types, DevicesApart, OfOne
  <2>7. pairing # None => OfDevice(settings'[pairing.ref], pairing.device)
    <3> SUFFICES ASSUME pairing # None
                 PROVE  OfDevice(settings'[pairing.ref], pairing.device)
      OBVIOUS
    <3>1. pairing.ref \in Ref /\ pairing.device \in Device
          /\ OfDevice(settings[pairing.ref], pairing.device)
      BY DEF Inv, Types, Pairing, HandlerHasItsOwn
    <3>2. CASE pairing.ref # r
      BY <2>5, <3>1, <3>2
    <3>3. CASE pairing.ref = r
      <4>1. OfDevice(settings[r], pairing.device)
        BY <3>1, <3>3
      <4>2. pairing.device = config.device
        <5>1. PICK p \in Protocol : settings[r].id[p] \in Identifiers(config.device, config.offers)
          BY <2>2
        <5>2. PICK q \in Protocol : settings[r].id[p] = Id[config.device][q]
                                  /\ settings[r].id[p] # None
          BY <1>1, <5>1 DEF Identifiers
        <5>3. PICK t \in Protocol : settings[r].id[p] = Id[pairing.device][t]
          BY <4>1, <5>2 DEF OfDevice
        <5>4. \A x, y \in Device, p1, q1 \in Protocol :
                Id[x][p1] = Id[y][q1] /\ Id[x][p1] # None => x = y
          BY StorageAssumption, Zenon
        <5>5. Id[config.device][q] = Id[pairing.device][t] /\ Id[config.device][q] # None
          BY <5>2, <5>3, Zenon
        <5> QED
          BY <1>1, <3>1, <5>4, <5>5
      <4> QED
        BY <2>4, <2>5, <3>3, <4>2
    <3> QED
      BY <3>2, <3>3
  <2>8. UserKept
    BY <1>1, <1>3, <2>7 DEF UserKept, Owned, Inv, Types, HandlerHasItsOwn
  <2> QED
    BY <1>2, <2>6, <2>8, KeptIsInv
<1>5. CASE \E r \in Ref : GetSettings(config, r)
  <2>1. PICK r \in Ref : GetSettings(config, r)
    BY <1>5
  <2>2. StorageKept /\ \A x \in Held : settings'[x] = settings[x]
    BY <1>1, <2>1, GetSettingsIsOwn
  <2>3. UserKept
    BY <1>1, <1>3, <2>2 DEF UserKept, Owned, Held, Inv, Types, HandlerHasItsOwn
  <2> QED
    BY <1>2, <2>2, <2>3, KeptIsInv
<1> QED
  BY <1>4, <1>5 DEF UpdateSettings

LEMMA PairBeginsIsOwn ==
    ASSUME Inv, NEW p \in Protocol, PairBegins(p)
    PROVE  Inv'
<1>1. Owned(config) /\ config.device \in Device
  BY ConfigIsOwned DEF PairBegins, Owned, Config
<1>2. PICK r \in Ref :
        /\ GetSettings(config, r)
        /\ pairing' = [protocol |-> p, device |-> config.device, ref |-> r, shares |-> TRUE]
  BY DEF PairBegins
<1>3. StorageKept /\ OfDevice(settings'[r], config.device)
  BY <1>1, <1>2, GetSettingsIsOwn
<1>4. UserKept
  BY <1>1, <1>2, <1>3 DEF PairBegins, UserKept, Owned, Pairing
<1>5. DiskKept
  BY DiskStutters DEF PairBegins, disk
<1> QED
  BY <1>3, <1>4, <1>5, KeptIsInv

(* The handler writes its credentials where only its device's are.          *)
LEMMA PairFinishesIsOwn ==
    ASSUME Inv, PairFinishes
    PROVE  Inv'
<1> DEFINE d == pairing.device
           r == pairing.ref
           p == pairing.protocol
<1>1. d \in Device /\ r \in Ref /\ p \in Protocol /\ OfDevice(settings[r], d)
  BY DEF PairFinishes, Inv, Types, Pairing, HandlerHasItsOwn
<1>2. settings[r] \in Settings
  BY <1>1 DEF Inv, Types
<1> DEFINE new == [settings[r] EXCEPT !.credentials[p] = d]
<1>3. settings' = [settings EXCEPT ![r] = new]
  BY DEF PairFinishes
<1> HIDE DEF d, r, p
<1>4. new \in Settings /\ OfDevice(new, d)
  BY <1>1, <1>2 DEF Settings, OfDevice
<1> HIDE DEF new
<1>5. StorageKept
  BY <1>1, <1>3, <1>4 DEF PairFinishes, StorageKept, Inv, Types, DevicesApart, OfOne
<1>6. config' \in Config \cup {None}
      /\ (config' # None => \A q \in Protocol : config'.credentials[q] \in {config'.device, None})
  <2>1. CASE pairing.shares
    <3>1. config \in Config /\ config.device = d
          /\ \A q \in Protocol : config.credentials[q] \in {d, None}
      BY <2>1 DEF d, PairFinishes, Inv, Types, DevicesApart, HandlerHasItsOwn
    <3>2. config' = [config EXCEPT !.credentials[p] = d]
      BY <2>1 DEF PairFinishes, d, p
    <3> QED
      BY <1>1, <3>1, <3>2 DEF Config
  <2>2. CASE ~ pairing.shares
    BY <2>2 DEF PairFinishes, Inv, Types, DevicesApart
  <2> QED
    BY <2>1, <2>2
<1>7. UserKept
  BY <1>6 DEF PairFinishes, UserKept
<1>8. DiskKept
  BY DiskStutters DEF PairFinishes, disk
<1> QED
  BY <1>5, <1>7, <1>8, KeptIsInv

LEMMA PairEndsIsOwn ==
    ASSUME Inv, PairEnds
    PROVE  Inv'
<1>1. StorageKept /\ DiskKept
  BY StorageStutters, DiskStutters DEF PairEnds, disk
<1>2. UserKept
  BY DEF PairEnds, UserKept, Inv, Types, DevicesApart
<1> QED
  BY <1>1, <1>2, KeptIsInv

LEMMA RemoveSettingsIsOwn ==
    ASSUME Inv, NEW i \in 1..Len(stored), RemoveSettings(i)
    PROVE  Inv'
<1>1. stored \in Seq(Ref) /\ stored[i] \in Ref
  BY DEF Inv, Types
<1>2. SubSeq(stored, 1, i - 1) \in Seq(Ref) /\ SubSeq(stored, i + 1, Len(stored)) \in Seq(Ref)
  BY <1>1, SubSeqProperties
<1>3. stored' \in Seq(Ref)
  BY <1>2, ConcatProperties DEF RemoveSettings
<1>4. settings' \in [Ref -> Settings] /\ settings'[stored[i]] = Blank
      /\ \A x \in Ref \ {stored[i]} : settings'[x] = settings[x]
  BY <1>1, BlankIsAnybodys DEF RemoveSettings, Inv, Types
<1>5. \A x \in Ref : OfOne(settings'[x])
  BY <1>4, BlankIsAnybodys, StorageAssumption DEF Inv, DevicesApart, OfOne
<1>6. StorageKept
  BY <1>3, <1>4, <1>5 DEF StorageKept
<1>7. UserKept
  BY DEF RemoveSettings, UserKept, Inv, Types, DevicesApart
<1>8. DiskKept
  BY DiskStutters DEF RemoveSettings, disk
<1> QED
  BY <1>6, <1>7, <1>8, KeptIsInv

(* What save() writes is what the storage held when it was called.          *)
LEMMA SaveIsOwn ==
    ASSUME Inv, SaveBegins \/ FileOpens \/ FileWrites \/ SaveReturns
    PROVE  Inv'
<1>1. StorageKept
  BY StorageStutters DEF SaveBegins, FileOpens, FileWrites, SaveReturns
<1>2. UserKept
  BY DEF SaveBegins, FileOpens, FileWrites, SaveReturns, user, memory,
         UserKept, Inv, Types, DevicesApart, HandlerHasItsOwn
<1>3. CASE SaveBegins
  <2>1. Dump \in Seq(Settings) /\ AllOfOne(Dump)
    BY DEF Dump, AllOfOne, Inv, Types, DevicesApart
  <2>2. saving' \in Saving /\ saving'.data = Dump /\ UNCHANGED file
    BY <1>3, <2>1 DEF SaveBegins, Saving
  <2> QED
    BY <1>1, <1>2, <2>1, <2>2, KeptIsInv DEF DiskKept, Inv, Types, DevicesApart
<1>4. CASE FileOpens \/ FileWrites \/ SaveReturns
  <2>1. saving \in Saving /\ AllOfOne(saving.data)
    BY <1>4 DEF FileOpens, FileWrites, SaveReturns, Inv, Types, DevicesApart
  <2>2. DiskKept
    BY <1>4, <2>1 DEF FileOpens, FileWrites, SaveReturns, DiskKept, Saving,
                      Inv, Types, DevicesApart
  <2> QED
    BY <1>1, <1>2, <2>2, KeptIsInv
<1> QED
  BY <1>3, <1>4

LEMMA CrashIsOwn ==
    ASSUME Inv, Crash
    PROVE  Inv'
<1>1. \A r \in Ref : settings'[r] = Blank
  BY DEF Crash
<1>2. StorageKept
  BY <1>1, BlankIsAnybodys, StorageAssumption DEF Crash, StorageKept, OfOne
<1>3. UserKept /\ DiskKept
  BY DEF Crash, UserKept, DiskKept, Inv, Types, DevicesApart
<1> QED
  BY <1>2, <1>3, KeptIsInv

LEMMA LoadIsOwn ==
    ASSUME Inv, Load
    PROVE  Inv'
<1>1. DiskKept
  BY DiskStutters DEF Load
<1>2. CASE file = None
  <2>1. UNCHANGED memory
    BY <1>2 DEF Load
  <2>2. StorageKept
    BY <2>1, StorageStutters
  <2>3. UserKept
    BY <2>1 DEF Load, memory, UserKept, Inv, Types, DevicesApart, HandlerHasItsOwn
  <2> QED
    BY <1>1, <2>2, <2>3, KeptIsInv
<1>3. CASE file # None
  <2>1. file \in Seq(Settings) /\ AllOfOne(file)
    BY <1>3 DEF Load, Inv, Types, DevicesApart
  <2>2. PICK refs \in [1..Len(file) -> Ref] :
          /\ stored' = refs
          /\ settings' = [r \in Ref |->
               IF r \in Elements(refs)
               THEN file[CHOOSE i \in 1..Len(file) : refs[i] = r] ELSE Blank]
    BY <1>3 DEF Load
  <2>3. stored' \in Seq(Ref) /\ Len(refs) = Len(file)
    BY <2>1, <2>2
  <2>4. ASSUME NEW r \in Ref
        PROVE  settings'[r] \in Settings /\ OfOne(settings'[r])
    <3>1. CASE r \in Elements(refs)
      <4>1. \E i \in 1..Len(file) : refs[i] = r
        BY <2>3, <3>1 DEF Elements
      <4> DEFINE i == CHOOSE j \in 1..Len(file) : refs[j] = r
      <4>2. i \in 1..Len(file)
        BY <4>1
      <4>3. settings'[r] = file[i]
        BY <2>2, <3>1
      <4> QED
        BY <2>1, <4>2, <4>3 DEF AllOfOne
    <3>2. CASE r \notin Elements(refs)
      BY <2>2, <3>2, BlankIsAnybodys, StorageAssumption DEF OfOne
    <3> QED
      BY <3>1, <3>2
  <2>5. StorageKept
    BY <2>2, <2>3, <2>4 DEF StorageKept
  <2>6. UserKept
    BY DEF Load, UserKept, Inv, Types, DevicesApart, HandlerHasItsOwn
  <2> QED
    BY <1>1, <2>5, <2>6, KeptIsInv
<1> QED
  BY <1>2, <1>3

-----------------------------------------------------------------------------
(* The theorems                                                            *)

(* The strengthened invariant is preserved by every action.                *)
THEOREM InvAlways == Spec => []Inv
<1>1. Inv /\ [Next]_vars => Inv'
  <2> SUFFICES ASSUME Inv, [Next]_vars PROVE Inv'
    OBVIOUS
  <2>1. CASE \E d \in Device : \E offers \in Seen[d] : Scan(d, offers)
    BY <2>1, ScanIsOwn
  <2>2. CASE \E p \in Protocol : PairBegins(p)
    BY <2>2, PairBeginsIsOwn
  <2>3. CASE Connect \/ UpdateSettings
    BY <2>3, ConnectIsOwn, UpdateSettingsIsOwn
  <2>4. CASE PairFinishes \/ PairEnds
    BY <2>4, PairFinishesIsOwn, PairEndsIsOwn
  <2>5. CASE \E i \in 1..Len(stored) : RemoveSettings(i)
    BY <2>5, RemoveSettingsIsOwn
  <2>6. CASE SaveBegins \/ FileOpens \/ FileWrites \/ SaveReturns
    BY <2>6, SaveIsOwn
  <2>7. CASE Crash \/ Load
    BY <2>7, CrashIsOwn, LoadIsOwn
  <2>8. CASE UNCHANGED vars
    <3>1. StorageKept /\ DiskKept
      BY <2>8, StorageStutters, DiskStutters DEF vars, disk
    <3>2. UserKept
      BY <2>8 DEF vars, user, memory, UserKept, Inv, Types, DevicesApart, HandlerHasItsOwn
    <3> QED
      BY <3>1, <3>2, KeptIsInv
  <2> QED
    BY <2>1, <2>2, <2>3, <2>4, <2>5, <2>6, <2>7, <2>8 DEF Next
<1> QED
  BY <1>1, InitIsOwn, PTL DEF Spec

(* Whatever is scanned, paired, updated, removed, saved and loaded, no      *)
(* settings, no file and no configuration mixes two devices.                *)
THEOREM NothingIsMixedUp == Spec => []DevicesApart
<1>1. Inv => DevicesApart
  BY DEF Inv
<1> QED
  BY <1>1, InvAlways, PTL

-----------------------------------------------------------------------------
(* The file and the hash                                                   *)

(* When no save() is under way, the hash is that of the file; a save() that *)
(* wrote the file will take the hash of what it wrote, not of what the      *)
(* storage holds by then.                                                  *)
FileIsHash ==
    /\ ~ up => hash = None /\ saving = None
    /\ up /\ saving = None => file = hash
    /\ saving # None /\ saving.pc = "written" => file = saving.data

LEMMA FileIsHashKept ==
    ASSUME Inv, FileIsHash, [Next]_vars
    PROVE  FileIsHash'
<1>1. CASE UNCHANGED <<up, file, hash, saving>>
  BY <1>1 DEF FileIsHash
<1>2. CASE SaveBegins
  BY <1>2, NoneAssumption DEF SaveBegins, FileIsHash
<1>3. CASE FileOpens \/ FileWrites
  <2>1. saving \in Saving
    BY <1>3 DEF FileOpens, FileWrites, Inv, Types
  <2>2. saving' \in Saving /\ saving'.data = saving.data
        /\ saving'.pc = (IF FileOpens THEN "opened" ELSE "written")
    BY <1>3, <2>1 DEF FileOpens, FileWrites, Saving
  <2>3. saving' # None
    BY <2>2, NoneAssumption
  <2> QED
    BY <1>3, <2>2, <2>3 DEF FileOpens, FileWrites, FileIsHash
<1>4. CASE SaveReturns
  BY <1>4 DEF SaveReturns, FileIsHash
<1>5. CASE Crash
  BY <1>5 DEF Crash, FileIsHash
<1>6. CASE Load
  BY <1>6 DEF Load, FileIsHash
<1> QED
  BY <1>1, <1>2, <1>3, <1>4, <1>5, <1>6
  DEF Next, vars, disk, Scan, Connect, UpdateSettings, PairBegins, PairFinishes, PairEnds,
      RemoveSettings

(* has_changed() never hides a change: whenever it says that nothing        *)
(* changed, the file has what the storage holds.                           *)
THEOREM HashTellsTheTruth == Spec => []HashIsHonest
<1>1. Init => FileIsHash
  BY DEF Init, FileIsHash
<1>2. FileIsHash => HashIsHonest
  BY DEF FileIsHash, HashIsHonest
<1> QED
  BY <1>1, <1>2, FileIsHashKept, InvAlways, PTL DEF Spec

-----------------------------------------------------------------------------
(* Settings of whole devices.  While every scan finds all services, each    *)
(* stored settings object has the identifiers of all services of a device,  *)
(* and no two objects those of the same device.                            *)

Named == {d \in Device : Identifiers(d, Protocol) # {}}

Whole(s, d) == \A p \in Protocol : s.id[p] = Id[d][p]

WholeOnes(data) ==
    /\ \A i \in 1..Len(data) : \E d \in Named : Whole(data[i], d)
    /\ \A i, j \in 1..Len(data), d \in Named :
          Whole(data[i], d) /\ Whole(data[j], d) => i = j

Has(data, d, p) ==
    \E i \in 1..Len(data) : Whole(data[i], d) /\ data[i].credentials[p] = d

(* Whatever one had for a device, the other has.                            *)
KeepsAll(data, new) == \A d \in Device, p \in Protocol : Has(data, d, p) => Has(new, d, p)

DiskIsWhole ==
    /\ file \notin {None, Torn} => WholeOnes(file)
    /\ saving # None => WholeOnes(saving.data)

ConfigIsWhole == config # None => config.offers = Protocol /\ config.device \in Named

(* The object that a handler holds is still in the storage.                 *)
PairingIsWhole ==
    pairing # None =>
        /\ pairing.ref \in Elements(stored)
        /\ pairing.device \in Named
        /\ Whole(settings[pairing.ref], pairing.device)

PairedIsHeld ==
    \A pair \in paired : /\ pair \in Named \X Protocol
                         /\ Has(Dump, pair[1], pair[2])

WholeInv ==
    ~ partly =>
        WholeOnes(Dump) /\ DiskIsWhole /\ ConfigIsWhole /\ PairingIsWhole /\ PairedIsHeld

LEMMA SameDevice ==
    ASSUME NEW d \in Device, NEW e \in Device, NEW p \in Protocol, NEW q \in Protocol,
           Id[d][p] = Id[e][q], Id[d][p] # None
    PROVE  d = e
<1>1. \A x, y \in Device, p1, q1 \in Protocol :
        Id[x][p1] = Id[y][q1] /\ Id[x][p1] # None => x = y
  BY StorageAssumption, Zenon
<1> QED
  BY <1>1

(* Whole settings are found for their device, and for no other.             *)
LEMMA WholeIsFound ==
    ASSUME NEW s, NEW d \in Named, Whole(s, d)
    PROVE  \E p \in Protocol : s.id[p] \in Identifiers(d, Protocol)
BY DEF Named, Whole, Identifiers

LEMMA FoundIsWhole ==
    ASSUME NEW s, NEW e \in Named, Whole(s, e), NEW d \in Device,
           NEW p \in Protocol, s.id[p] \in Identifiers(d, Protocol)
    PROVE  d = e
<1>1. PICK q \in Protocol : s.id[p] = Id[d][q] /\ s.id[p] # None
  BY DEF Identifiers
<1>2. Id[e][p] = Id[d][q] /\ Id[e][p] # None
  BY <1>1 DEF Whole
<1>3. e \in Device
  BY DEF Named
<1> QED
  BY <1>2, <1>3, SameDevice

LEMMA DumpIsContent ==
    ASSUME Inv
    PROVE  /\ Dump \in Seq(Settings) /\ Len(Dump) = Len(stored)
           /\ \A i \in 1..Len(stored) : Dump[i] = settings[stored[i]]
BY DEF Inv, Types, Dump

(* Settings that are added for a device that has none.                      *)
LEMMA AddedIsWhole ==
    ASSUME NEW data \in Seq(Settings), WholeOnes(data), NEW s \in Settings,
           NEW d \in Named, Whole(s, d), \A i \in 1..Len(data) : ~ Whole(data[i], d)
    PROVE  WholeOnes(Append(data, s)) /\ KeepsAll(data, Append(data, s))
<1> DEFINE new == Append(data, s)
           n == Len(data)
<1>1. n \in Nat /\ Len(new) = n + 1 /\ new[n + 1] = s
      /\ \A i \in 1..n : new[i] = data[i]
  OBVIOUS
<1> HIDE DEF new, n
<1>2. \A i \in 1..n + 1 : i \in 1..n \/ i = n + 1
  BY <1>1
<1>3. \A i \in 1..n : i \in 1..n + 1
  BY <1>1
<1>4. n + 1 \in 1..n + 1
  BY <1>1
<1>5. \A i \in 1..Len(new) : \E e \in Named : Whole(new[i], e)
  BY <1>1, <1>2 DEF WholeOnes, n
<1>6. ASSUME NEW i \in 1..Len(new), NEW j \in 1..Len(new), NEW e \in Named,
             Whole(new[i], e), Whole(new[j], e)
      PROVE  i = j
  <2>1. ASSUME NEW k \in 1..n, Whole(data[k], e), Whole(s, e)
        PROVE  FALSE
    <3>1. PICK p \in Protocol : s.id[p] \in Identifiers(e, Protocol)
      BY <2>1, WholeIsFound
    <3>2. e = d
      BY <3>1, FoundIsWhole DEF Named
    <3> QED
      BY <2>1, <3>2 DEF n
  <2> QED
    BY <1>1, <1>2, <1>6, <2>1 DEF WholeOnes, n
<1>7. KeepsAll(data, new)
  BY <1>1, <1>3 DEF KeepsAll, Has, n
<1> QED
  BY <1>5, <1>6, <1>7 DEF WholeOnes, new

(* Settings whose identifiers stay and that lose no credentials.            *)
LEMMA ChangedIsWhole ==
    ASSUME NEW data \in Seq(Settings), NEW new \in Seq(Settings), WholeOnes(data),
           Len(new) = Len(data),
           \A i \in 1..Len(data), d \in Device : Whole(data[i], d) <=> Whole(new[i], d)
    PROVE  /\ WholeOnes(new)
           /\ (\A i \in 1..Len(data), d \in Device, p \in Protocol :
                 Whole(data[i], d) /\ data[i].credentials[p] = d => new[i].credentials[p] = d)
              => KeepsAll(data, new)
BY DEF WholeOnes, Named, KeepsAll, Has

(* Settings that are removed: nothing else is lost.                         *)
LEMMA RemovedIsWhole ==
    ASSUME NEW data \in Seq(Settings), NEW new \in Seq(Settings), WholeOnes(data),
           NEW i \in 1..Len(data), Len(new) = Len(data) - 1,
           \A k \in 1..Len(new) : new[k] = data[IF k < i THEN k ELSE k + 1]
    PROVE  /\ WholeOnes(new)
           /\ \A d \in Device, p \in Protocol :
                Has(data, d, p) /\ data[i].credentials[p] # d => Has(new, d, p)
<1> DEFINE n == Len(data)
           old(k) == IF k < i THEN k ELSE k + 1
<1>1. n \in Nat /\ Len(new) = n - 1 /\ i \in 1..n
  OBVIOUS
<1> HIDE DEF n
<1>2. /\ \A k \in 1..(n - 1) : old(k) \in 1..n
      /\ \A k, l \in 1..(n - 1) : old(k) = old(l) => k = l
      /\ \A j \in 1..n : j # i => \E k \in 1..(n - 1) : old(k) = j
  <2>1. /\ \A k \in 1..(n - 1) : old(k) \in 1..n
        /\ \A k, l \in 1..(n - 1) : old(k) = old(l) => k = l
    BY <1>1
  <2>2. ASSUME NEW j \in 1..n, j # i
        PROVE  \E k \in 1..(n - 1) : old(k) = j
    <3>1. CASE j < i
      <4>1. j \in 1..(n - 1) /\ old(j) = j
        BY <1>1, <3>1
      <4> QED
        BY <4>1
    <3>2. CASE j > i
      <4>1. j - 1 \in 1..(n - 1) /\ old(j - 1) = j
        BY <1>1, <3>2
      <4> QED
        BY <4>1
    <3> QED
      BY <1>1, <2>2, <3>1, <3>2
  <2> QED
    BY <2>1, <2>2
<1>3. \A k \in 1..(n - 1) : new[k] = data[old(k)]
  BY <1>1
<1> HIDE DEF old
<1>4. WholeOnes(new)
  BY <1>1, <1>2, <1>3 DEF WholeOnes, n
<1>5. ASSUME NEW d \in Device, NEW p \in Protocol,
             Has(data, d, p), data[i].credentials[p] # d
      PROVE  Has(new, d, p)
  <2>1. PICK j \in 1..n : Whole(data[j], d) /\ data[j].credentials[p] = d
    BY <1>5 DEF Has, n
  <2>2. PICK k \in 1..(n - 1) : old(k) = j
    BY <1>2, <1>5, <2>1
  <2> QED
    BY <1>1, <1>3, <2>1, <2>2 DEF Has
<1> QED
  BY <1>4, <1>5

LEMMA NamedHasSettings ==
    ASSUME Inv, NEW c, Owned(c), c.offers = Protocol, c.device \in Named
    PROVE  Updated(Blank, c) \in Settings /\ Whole(Updated(Blank, c), c.device)
<1>1. Updated(Blank, c) \in Settings
  BY BlankIsAnybodys, UpdatedIsOwn DEF Named
<1>2. Whole(Updated(Blank, c), c.device)
  BY DEF Updated, Whole
<1> QED
  BY <1>1, <1>2

(* get_settings with a whole configuration returns whole settings.          *)
LEMMA GetSettingsIsWhole ==
    ASSUME Inv, Inv', WholeOnes(Dump), NEW c, Owned(c), c.offers = Protocol,
           c.device \in Named, NEW r \in Ref, GetSettings(c, r)
    PROVE  /\ WholeOnes(Dump') /\ KeepsAll(Dump, Dump')
           /\ r \in Elements(stored') /\ Whole(settings'[r], c.device)
           /\ Elements(stored) \subseteq Elements(stored')
           /\ \A x \in Held : settings'[x] = settings[x]
<1>1. Dump \in Seq(Settings) /\ Len(Dump) = Len(stored)
      /\ \A i \in 1..Len(stored) : Dump[i] = settings[stored[i]]
  BY DumpIsContent
<1>2. \A x \in Held : settings'[x] = settings[x]
  BY GetSettingsIsOwn
<1>3. CASE /\ \E i \in Matching(c.device, c.offers) : r = stored[i]
           /\ UNCHANGED memory
  <2>1. PICK i \in 1..Len(stored), p \in Protocol :
          r = stored[i] /\ settings[r].id[p] \in Identifiers(c.device, Protocol)
    BY <1>3 DEF Matching
  <2>2. PICK e \in Named : Whole(settings[r], e)
    BY <1>1, <2>1 DEF WholeOnes
  <2>3. e = c.device
    BY <2>1, <2>2, FoundIsWhole DEF Named
  <2>4. UNCHANGED <<settings, stored>> /\ Dump' = Dump
    BY <1>3 DEF memory, Dump
  <2> QED
    BY <1>2, <2>1, <2>2, <2>3, <2>4 DEF KeepsAll, Elements
<1>4. CASE /\ Matching(c.device, c.offers) = {}
           /\ r \notin Elements(stored) \cup Held
           /\ settings' = [settings EXCEPT ![r] = Updated(Blank, c)]
           /\ stored' = Append(stored, r)
  <2> DEFINE new == Updated(Blank, c)
  <2>1. new \in Settings /\ Whole(new, c.device)
    BY NamedHasSettings
  <2>2. ASSUME NEW i \in 1..Len(Dump), Whole(Dump[i], c.device)
        PROVE  FALSE
    <3>1. PICK p \in Protocol : Dump[i].id[p] \in Identifiers(c.device, Protocol)
      BY <2>2, WholeIsFound
    <3> QED
      BY <1>1, <1>4, <3>1 DEF Matching
  <2> HIDE DEF new
  <2>3. settings'[r] = new /\ \A x \in Ref \ {r} : settings'[x] = settings[x]
    BY <1>4, <2>1 DEF new, Inv, Types
  <2>4. Dump' = Append(Dump, new)
    <3>1. stored \in Seq(Ref) /\ stored' = Append(stored, r)
      BY <1>4 DEF Inv, Types
    <3>2. Len(stored') = Len(stored) + 1 /\ stored'[Len(stored) + 1] = r
          /\ \A i \in 1..Len(stored) : stored'[i] = stored[i] /\ stored[i] \in Ref
      BY <3>1
    <3>3. \A i \in 1..Len(stored) : stored[i] # r
      BY <1>4 DEF Elements
    <3>4. Len(stored) \in Nat /\ DOMAIN Append(Dump, new) = 1..(Len(stored) + 1)
          /\ \A i \in 1..Len(stored) : Append(Dump, new)[i] = Dump[i]
          /\ Append(Dump, new)[Len(stored) + 1] = new
      BY <1>1, <2>1, <3>1
    <3>5. Dump' = [i \in 1..(Len(stored) + 1) |-> settings'[stored'[i]]]
      BY <3>2 DEF Dump
    <3>6. \A i \in 1..(Len(stored) + 1) : i \in 1..Len(stored) \/ i = Len(stored) + 1
      BY <3>4
    <3>7. ASSUME NEW i \in 1..(Len(stored) + 1)
          PROVE  settings'[stored'[i]] = Append(Dump, new)[i]
      BY <1>1, <2>3, <3>2, <3>3, <3>4, <3>6
    <3>8. Append(Dump, new) \in Seq(Settings)
      BY <1>1, <2>1
    <3>9. Append(Dump, new) = [i \in 1..(Len(stored) + 1) |-> Append(Dump, new)[i]]
      <4>1. Append(Dump, new) \in [1..Len(Append(Dump, new)) -> Settings]
        BY <3>8, LenProperties
      <4>2. Len(Append(Dump, new)) = Len(stored) + 1
        BY <1>1, <2>1
      <4> QED
        BY <4>1, <4>2, Zenon
    <3> QED
      BY <3>5, <3>7, <3>9
  <2>5. WholeOnes(Dump') /\ KeepsAll(Dump, Dump')
    BY <1>1, <2>1, <2>2, <2>4, AddedIsWhole
  <2>6. r \in Elements(stored') /\ Elements(stored) \subseteq Elements(stored')
    BY <1>4 DEF Inv, Types, Elements
  <2> QED
    BY <1>2, <2>1, <2>3, <2>5, <2>6
<1> QED
  BY <1>3, <1>4 DEF GetSettings

(* What the steps have to show about the rest.                              *)
LEMMA HeldStays ==
    ASSUME PairedIsHeld, paired' \subseteq paired, KeepsAll(Dump, Dump')
    PROVE  PairedIsHeld'
BY DEF PairedIsHeld, KeepsAll, Named

LEMMA PairingStays ==
    ASSUME Inv, PairingIsWhole, pairing' \in {pairing, Detached},
           Elements(stored) \subseteq Elements(stored'),
           \A x \in Held : settings'[x] = settings[x]
    PROVE  PairingIsWhole'
<1>1. CASE pairing = None
  BY <1>1 DEF PairingIsWhole, Detached
<1>2. CASE pairing # None
  <2>1. pairing \in Pairing
    BY <1>2 DEF Inv, Types
  <2>2. pairing'.ref = pairing.ref /\ pairing'.device = pairing.device
    BY <1>2, <2>1 DEF Detached, Pairing
  <2>3. settings'[pairing.ref] = settings[pairing.ref]
    BY <1>2 DEF Held
  <2> QED
    BY <1>2, <2>2, <2>3 DEF PairingIsWhole
<1> QED
  BY <1>1, <1>2

LEMMA ScanIsWhole ==
    ASSUME Inv, Inv', WholeInv, NEW d \in Device, NEW offers \in Seen[d], Scan(d, offers)
    PROVE  WholeInv'
<1> SUFFICES ASSUME ~ partly'
             PROVE  (WholeOnes(Dump) /\ DiskIsWhole /\ ConfigIsWhole /\ PairingIsWhole
                     /\ PairedIsHeld)'
  BY DEF WholeInv
<1> DEFINE c == Found(d, offers)
<1>1. offers \in SUBSET Protocol
  BY StorageAssumption
<1>2. Owned(c) /\ c.device = d /\ c.offers = offers
  BY <1>1, FoundIsOwned
<1> HIDE DEF c
<1>3. Uses(c)
  BY DEF Scan, c
<1>4. ~ partly /\ c.offers = Protocol
  BY <1>3, Zenon DEF Uses
<1>5. c.device \in Named
  BY <1>2, <1>4 DEF Scan, Named
<1>6. PICK r \in Ref : GetSettings(c, r) /\ config' = Applied(c, settings'[r])
  BY DEF Scan, c
<1>7. /\ WholeOnes(Dump') /\ KeepsAll(Dump, Dump')
      /\ Elements(stored) \subseteq Elements(stored')
      /\ \A x \in Held : settings'[x] = settings[x]
  BY <1>2, <1>4, <1>5, <1>6, GetSettingsIsWhole DEF WholeInv
<1>8. ConfigIsWhole'
  <2>1. c \in Config
    BY <1>2 DEF Owned
  <2>2. config'.offers = c.offers /\ config'.device = c.device
    BY <1>6, <2>1 DEF Applied, Config
  <2> QED
    BY <1>4, <1>5, <2>2 DEF ConfigIsWhole
<1>9. PairingIsWhole' /\ PairedIsHeld'
  BY <1>4, <1>7, PairingStays, HeldStays DEF Scan, WholeInv
<1>10. DiskIsWhole'
  BY <1>4 DEF Scan, disk, WholeInv, DiskIsWhole
<1> QED
  BY <1>7, <1>8, <1>9, <1>10

(* What a step that uses the configuration of the user can rely on.         *)
LEMMA UsedIsWhole ==
    ASSUME Inv, WholeInv, config # None, Uses(config), ~ partly'
    PROVE  /\ ~ partly /\ Owned(config)
           /\ config.offers = Protocol /\ config.device \in Named
<1>1. ~ partly
  BY Zenon DEF Uses
<1> QED
  BY <1>1, ConfigIsOwned DEF WholeInv, ConfigIsWhole

LEMMA ConnectIsWhole ==
    ASSUME Inv, Inv', WholeInv, Connect
    PROVE  WholeInv'
<1> SUFFICES ASSUME ~ partly'
             PROVE  (WholeOnes(Dump) /\ DiskIsWhole /\ ConfigIsWhole /\ PairingIsWhole
                     /\ PairedIsHeld)'
  BY DEF WholeInv
<1>1. ~ partly /\ Owned(config) /\ config.offers = Protocol /\ config.device \in Named
  BY UsedIsWhole DEF Connect
<1>2. PICK r \in Ref : GetSettings(config, r)
  BY DEF Connect
<1>3. /\ WholeOnes(Dump') /\ KeepsAll(Dump, Dump')
      /\ Elements(stored) \subseteq Elements(stored')
      /\ \A x \in Held : settings'[x] = settings[x]
  BY <1>1, <1>2, GetSettingsIsWhole DEF WholeInv
<1>4. PairingIsWhole' /\ PairedIsHeld'
  BY <1>1, <1>3, PairingStays, HeldStays DEF Connect, WholeInv
<1>5. DiskIsWhole' /\ ConfigIsWhole'
  BY <1>1 DEF Connect, disk, WholeInv, DiskIsWhole, ConfigIsWhole
<1> QED
  BY <1>3, <1>4, <1>5

(* New data for settings that are there: identifiers stay as they are, and  *)
(* credentials can only become those of the device.                        *)
LEMMA UpdateSettingsIsWhole ==
    ASSUME Inv, Inv', WholeInv, UpdateSettings
    PROVE  WholeInv'
<1> SUFFICES ASSUME ~ partly'
             PROVE  (WholeOnes(Dump) /\ DiskIsWhole /\ ConfigIsWhole /\ PairingIsWhole
                     /\ PairedIsHeld)'
  BY DEF WholeInv
<1>1. ~ partly /\ Owned(config) /\ config.offers = Protocol /\ config.device \in Named
  BY UsedIsWhole DEF UpdateSettings
<1>2. WholeOnes(Dump) /\ PairingIsWhole /\ PairedIsHeld
  BY <1>1 DEF WholeInv
<1>3. DiskIsWhole' /\ ConfigIsWhole'
  BY <1>1 DEF UpdateSettings, disk, WholeInv, DiskIsWhole, ConfigIsWhole
<1>4. UNCHANGED <<pairing, paired>>
  BY DEF UpdateSettings
<1>5. CASE \E i \in Matching(config.device, config.offers) :
             /\ settings' = [settings EXCEPT ![stored[i]] = Updated(@, config)]
             /\ UNCHANGED stored
  <2>1. PICK i \in Matching(config.device, config.offers) :
             /\ settings' = [settings EXCEPT ![stored[i]] = Updated(@, config)]
             /\ UNCHANGED stored
    BY <1>5
  <2> DEFINE t == stored[i]
             new == Updated(settings[t], config)
  <2>2. t \in Ref /\ t \in Elements(stored)
    BY <2>1 DEF Matching, Inv, Types, Elements
  <2>3. settings[t] \in Settings /\ OfOne(settings[t])
    BY <2>2 DEF Inv, Types, DevicesApart
  <2>4. PICK p \in Protocol : settings[t].id[p] \in Identifiers(config.device, Protocol)
    BY <1>1, <2>1 DEF Matching
  <2>5. PICK e \in Named : Whole(settings[t], e)
    BY <1>2, <2>1, DumpIsContent DEF WholeOnes, Matching
  <2>6. e = config.device
    BY <1>1, <2>4, <2>5, FoundIsWhole DEF Named
  <2>7. \A q \in Protocol : /\ new.id[q] = settings[t].id[q]
                            /\ settings[t].credentials[q] = e => new.credentials[q] = e
    BY <1>1, <2>5, <2>6 DEF Updated, Whole, Owned
  <2> HIDE DEF t, new
  <2>8. /\ settings'[t] = new
        /\ \A x \in Ref \ {t} : settings'[x] = settings[x]
    BY <2>1, <2>2, <2>3 DEF Inv, Types, t, new
  <2>9. \A x \in Ref, d \in Device : Whole(settings[x], d) <=> Whole(settings'[x], d)
    BY <2>7, <2>8 DEF Whole
  <2>10. \A x \in Ref, d \in Device, q \in Protocol :
            Whole(settings[x], d) /\ settings[x].credentials[q] = d
              => settings'[x].credentials[q] = d
    <3> SUFFICES ASSUME NEW d \in Device, NEW q \in Protocol, Whole(settings[t], d),
                        settings[t].credentials[q] = d
                 PROVE  new.credentials[q] = d
      BY <2>8
    <3>1. d = e
      <4>1. PICK p1 \in Protocol : settings[t].id[p1] \in Identifiers(e, Protocol)
        BY <2>5, WholeIsFound
      <4>2. PICK q1 \in Protocol : settings[t].id[p1] = Id[e][q1] /\ settings[t].id[p1] # None
        BY <4>1 DEF Identifiers
      <4>3. Id[d][p1] = Id[e][q1] /\ Id[d][p1] # None
        BY <4>2 DEF Whole
      <4> QED
        BY <4>3, SameDevice DEF Named
    <3> QED
      BY <2>7, <3>1
  <2>11. /\ Dump \in Seq(Settings) /\ Dump' \in Seq(Settings)
         /\ Len(Dump) = Len(stored) /\ Len(Dump') = Len(stored)
         /\ \A k \in 1..Len(stored) : /\ stored[k] \in Ref
                                      /\ Dump[k] = settings[stored[k]]
                                      /\ Dump'[k] = settings'[stored[k]]
    BY <2>1 DEF Dump, Inv, Types
  <2>12. WholeOnes(Dump') /\ KeepsAll(Dump, Dump')
    BY <1>2, <2>9, <2>10, <2>11, ChangedIsWhole
  <2>13. PairingIsWhole'
    BY <1>2, <1>4, <2>1, <2>9 DEF PairingIsWhole, Inv, Types, Pairing, Named
  <2>14. PairedIsHeld'
    BY <1>2, <1>4, <2>12, HeldStays
  <2> QED
    BY <1>3, <2>12, <2>13, <2>14
<1>6. CASE \E r \in Ref : GetSettings(config, r)
  <2>1. PICK r \in Ref : GetSettings(config, r)
    BY <1>6
  <2>2. /\ WholeOnes(Dump') /\ KeepsAll(Dump, Dump')
        /\ Elements(stored) \subseteq Elements(stored')
        /\ \A x \in Held : settings'[x] = settings[x]
    BY <1>1, <1>2, <2>1, GetSettingsIsWhole
  <2>3. PairingIsWhole' /\ PairedIsHeld'
    BY <1>2, <1>4, <2>2, PairingStays, HeldStays
  <2> QED
    BY <1>3, <2>2, <2>3
<1> QED
  BY <1>5, <1>6 DEF UpdateSettings

LEMMA PairBeginsIsWhole ==
    ASSUME Inv, Inv', WholeInv, NEW p \in Protocol, PairBegins(p)
    PROVE  WholeInv'
<1> SUFFICES ASSUME ~ partly'
             PROVE  (WholeOnes(Dump) /\ DiskIsWhole /\ ConfigIsWhole /\ PairingIsWhole
                     /\ PairedIsHeld)'
  BY DEF WholeInv
<1>1. ~ partly /\ Owned(config) /\ config.offers = Protocol /\ config.device \in Named
  BY UsedIsWhole DEF PairBegins
<1>2. PICK r \in Ref :
        /\ GetSettings(config, r)
        /\ pairing' = [protocol |-> p, device |-> config.device, ref |-> r, shares |-> TRUE]
  BY DEF PairBegins
<1>3. /\ WholeOnes(Dump') /\ KeepsAll(Dump, Dump')
      /\ r \in Elements(stored') /\ Whole(settings'[r], config.device)
  BY <1>1, <1>2, GetSettingsIsWhole DEF WholeInv
<1>4. PairingIsWhole'
  BY <1>1, <1>2, <1>3 DEF PairingIsWhole
<1>5. PairedIsHeld'
  BY <1>1, <1>3, HeldStays DEF PairBegins, WholeInv
<1>6. DiskIsWhole' /\ ConfigIsWhole'
  BY <1>1 DEF PairBegins, disk, WholeInv, DiskIsWhole, ConfigIsWhole
<1> QED
  BY <1>3, <1>4, <1>5, <1>6

(* The handler finds its settings where it left them: in the storage, and   *)
(* as those of its device.                                                  *)
LEMMA PairFinishesIsWhole ==
    ASSUME Inv, Inv', WholeInv, PairFinishes
    PROVE  WholeInv'
<1> SUFFICES ASSUME ~ partly'
             PROVE  (WholeOnes(Dump) /\ DiskIsWhole /\ ConfigIsWhole /\ PairingIsWhole
                     /\ PairedIsHeld)'
  BY DEF WholeInv
<1>1. ~ partly /\ WholeOnes(Dump) /\ ConfigIsWhole /\ PairedIsHeld
  BY DEF PairFinishes, WholeInv
<1> DEFINE d == pairing.device
           t == pairing.ref
           p == pairing.protocol
           new == [settings[t] EXCEPT !.credentials[p] = d]
<1>2. /\ d \in Named /\ t \in Ref /\ p \in Protocol
      /\ t \in Elements(stored) /\ Whole(settings[t], d)
  BY <1>1 DEF PairFinishes, WholeInv, PairingIsWhole, Inv, Types, Pairing
<1>3. settings[t] \in Settings /\ OfDevice(settings[t], d)
  BY <1>2 DEF PairFinishes, Inv, Types, HandlerHasItsOwn
<1>4. settings' = [settings EXCEPT ![t] = new] /\ UNCHANGED stored
      /\ paired' = paired \cup {<<d, p>>}
  BY DEF PairFinishes
<1> HIDE DEF d, t, p
<1>5. /\ new.id = settings[t].id /\ new.credentials[p] = d
      /\ \A q \in Protocol \ {p} : new.credentials[q] = settings[t].credentials[q]
  BY <1>2, <1>3 DEF Settings
<1> HIDE DEF new
<1>6. /\ settings'[t] = new
      /\ \A x \in Ref \ {t} : settings'[x] = settings[x]
  BY <1>2, <1>4 DEF Inv, Types
<1>7. \A x \in Ref, e \in Device : Whole(settings[x], e) <=> Whole(settings'[x], e)
  BY <1>5, <1>6 DEF Whole
<1>8. \A x \in Ref, e \in Device, q \in Protocol :
         Whole(settings[x], e) /\ settings[x].credentials[q] = e
           => settings'[x].credentials[q] = e
  <2> SUFFICES ASSUME NEW e \in Device, settings[t].credentials[p] = e
               PROVE  e = d
    BY <1>5, <1>6
  <2> QED
    BY <1>2, <1>3, StorageAssumption DEF OfDevice
<1>9. /\ Dump \in Seq(Settings) /\ Dump' \in Seq(Settings)
      /\ Len(Dump) = Len(stored) /\ Len(Dump') = Len(stored)
      /\ \A k \in 1..Len(stored) : /\ stored[k] \in Ref
                                   /\ Dump[k] = settings[stored[k]]
                                   /\ Dump'[k] = settings'[stored[k]]
  BY <1>4 DEF Dump, Inv, Types
<1>10. WholeOnes(Dump') /\ KeepsAll(Dump, Dump')
  BY <1>1, <1>7, <1>8, <1>9, ChangedIsWhole
<1>11. Has(Dump', d, p)
  <2>1. PICK k \in 1..Len(stored) : stored[k] = t
    BY <1>2 DEF Elements
  <2>2. Dump'[k] = new
    BY <1>6, <1>9, <2>1
  <2>3. Whole(new, d)
    BY <1>2, <1>5 DEF Whole
  <2> QED
    BY <1>5, <1>9, <2>2, <2>3 DEF Has
<1>12. PairedIsHeld'
  BY <1>1, <1>2, <1>4, <1>10, <1>11 DEF PairedIsHeld, KeepsAll, Named
<1>13. ConfigIsWhole'
  <2>1. CASE pairing.shares
    <3>1. config \in Config /\ config' = [config EXCEPT !.credentials[pairing.protocol] = pairing.device]
      BY <2>1 DEF PairFinishes, Inv, Types, HandlerHasItsOwn
    <3>2. config'.offers = config.offers /\ config'.device = config.device
      BY <3>1 DEF Config
    <3>3. config # None
      BY <3>1, NoneAssumption
    <3> QED
      BY <1>1, <3>2, <3>3 DEF ConfigIsWhole
  <2>2. CASE ~ pairing.shares
    BY <1>1, <2>2 DEF PairFinishes, ConfigIsWhole
  <2> QED
    BY <2>1, <2>2
<1>14. PairingIsWhole' /\ DiskIsWhole'
  BY <1>1 DEF PairFinishes, disk, PairingIsWhole, WholeInv, DiskIsWhole
<1> QED
  BY <1>10, <1>12, <1>13, <1>14

(* Removed settings take the credentials of their own device with them.     *)
LEMMA RemoveSettingsIsWhole ==
    ASSUME Inv, Inv', WholeInv, NEW i \in 1..Len(stored), RemoveSettings(i)
    PROVE  WholeInv'
<1> SUFFICES ASSUME ~ partly'
             PROVE  (WholeOnes(Dump) /\ DiskIsWhole /\ ConfigIsWhole /\ PairingIsWhole
                     /\ PairedIsHeld)'
  BY DEF WholeInv
<1>1. ~ partly /\ WholeOnes(Dump) /\ PairedIsHeld
  BY DEF RemoveSettings, WholeInv
<1>2. Dump \in Seq(Settings) /\ Len(Dump) = Len(stored)
      /\ \A k \in 1..Len(stored) : Dump[k] = settings[stored[k]]
  BY DumpIsContent
<1>3. stored \in Seq(Ref) /\ stored' \in Seq(Ref) /\ settings \in [Ref -> Settings]
      /\ settings' = [settings EXCEPT ![stored[i]] = Blank]
      /\ Len(stored) \in Nat /\ stored[i] \in Ref
  BY DEF RemoveSettings, Inv, Types
<1> DEFINE left == SubSeq(stored, 1, i - 1)
           right == SubSeq(stored, i + 1, Len(stored))
<1>4. /\ left \in Seq(Ref) /\ Len(left) = i - 1
      /\ \A k \in 1..(i - 1) : left[k] = stored[k]
  BY <1>3, SubSeqProperties
<1>5. /\ right \in Seq(Ref) /\ Len(right) = Len(stored) - i
      /\ \A k \in 1..(Len(stored) - i) : right[k] = stored[k + i]
  BY <1>3, SubSeqProperties
<1>6. stored' = left \o right
  BY DEF RemoveSettings
<1> HIDE DEF left, right
<1>7. /\ Len(left \o right) = Len(left) + Len(right)
      /\ \A k \in 1..(Len(left) + Len(right)) :
            (left \o right)[k] = IF k <= Len(left) THEN left[k] ELSE right[k - Len(left)]
  BY <1>4, <1>5, ConcatProperties, Zenon
<1>8. /\ Len(stored') = Len(stored) - 1
      /\ \A k \in 1..(Len(stored) - 1) : stored'[k] = stored[IF k < i THEN k ELSE k + 1]
  <2>1. Len(stored') = Len(stored) - 1
    BY <1>3, <1>4, <1>5, <1>6, <1>7
  <2>2. ASSUME NEW k \in 1..(Len(stored) - 1)
        PROVE  stored'[k] = stored[IF k < i THEN k ELSE k + 1]
    <3>1. stored'[k] = IF k <= i - 1 THEN left[k] ELSE right[k - (i - 1)]
      <4>1. Len(left) + Len(right) = Len(stored) - 1
        BY <1>3, <1>4, <1>5
      <4>2. k \in 1..(Len(left) + Len(right))
        BY <4>1
      <4>3. stored'[k] = IF k <= Len(left) THEN left[k] ELSE right[k - Len(left)]
        BY <1>6, <1>7, <4>2, Zenon
      <4> QED
        BY <1>4, <4>3
    <3>2. CASE k < i
      <4>1. k \in 1..(i - 1) /\ k <= i - 1
        BY <3>2
      <4> QED
        BY <1>4, <3>1, <3>2, <4>1
    <3>3. CASE ~ (k < i)
      <4>1. ~ (k <= i - 1) /\ k - (i - 1) \in 1..(Len(stored) - i)
            /\ (k - (i - 1)) + i = k + 1
        BY <1>3, <3>3
      <4> QED
        BY <1>5, <3>1, <3>3, <4>1
    <3> QED
      BY <3>2, <3>3
  <2> QED
    BY <2>1, <2>2
<1>9. \A k, l \in 1..Len(stored) : stored[k] = stored[l] => k = l
  BY <1>1, <1>2 DEF WholeOnes
<1>10. Dump' \in Seq(Settings) /\ Len(Dump') = Len(Dump) - 1
      /\ \A k \in 1..Len(Dump') : Dump'[k] = settings'[stored'[k]]
  <2>1. Dump' \in Seq(Settings) /\ Len(Dump') = Len(stored')
        /\ \A k \in 1..Len(stored') : Dump'[k] = settings'[stored'[k]]
    BY DEF Dump, Inv, Types
  <2> QED
    BY <1>2, <1>8, <2>1
<1>11. ASSUME NEW k \in 1..Len(Dump')
       PROVE  Dump'[k] = Dump[IF k < i THEN k ELSE k + 1]
  <2> DEFINE j == IF k < i THEN k ELSE k + 1
  <2>1. j \in 1..Len(stored) /\ j # i /\ k \in 1..(Len(stored) - 1)
    BY <1>2, <1>3, <1>10
  <2>2. stored'[k] = stored[j]
    BY <1>8, <2>1
  <2> HIDE DEF j
  <2>3. stored[j] \in Ref /\ stored[j] # stored[i]
    BY <1>3, <1>9, <2>1
  <2>4. Dump'[k] = settings[stored[j]]
    BY <1>3, <1>10, <2>2, <2>3
  <2>5. Dump'[k] = Dump[j]
    BY <1>2, <2>1, <2>4
  <2> QED
    BY <2>5 DEF j
<1>12. /\ WholeOnes(Dump')
       /\ \A d \in Device, p \in Protocol :
            Has(Dump, d, p) /\ Dump[i].credentials[p] # d => Has(Dump', d, p)
  BY <1>1, <1>2, <1>10, <1>11, RemovedIsWhole
<1>13. PairedIsHeld'
  BY <1>1, <1>2, <1>12 DEF RemoveSettings, PairedIsHeld, Named
<1>14. DiskIsWhole' /\ ConfigIsWhole' /\ PairingIsWhole'
  BY <1>1 DEF RemoveSettings, disk, WholeInv, DiskIsWhole, ConfigIsWhole, PairingIsWhole
<1> QED
  BY <1>12, <1>13, <1>14

(* What a load() finds is what a save() wrote of whole settings, and the    *)
(* credentials in it are those of the device that they name.                *)
LEMMA LoadIsWhole ==
    ASSUME Inv, Inv', WholeInv, Load
    PROVE  WholeInv'
<1> SUFFICES ASSUME ~ partly'
             PROVE  (WholeOnes(Dump) /\ DiskIsWhole /\ ConfigIsWhole /\ PairingIsWhole
                     /\ PairedIsHeld)'
  BY DEF WholeInv
<1>1. ~ partly /\ WholeOnes(Dump) /\ DiskIsWhole /\ PairingIsWhole /\ PairedIsHeld
  BY DEF Load, WholeInv
<1>2. DiskIsWhole' /\ ConfigIsWhole'
  BY <1>1 DEF Load, WholeInv, DiskIsWhole, ConfigIsWhole
<1>3. CASE file = None
  <2>1. UNCHANGED <<memory, paired, pairing>>
    BY <1>3 DEF Load
  <2>2. Dump' = Dump
    BY <2>1 DEF memory, Dump
  <2> QED
    BY <1>1, <1>2, <2>1, <2>2 DEF memory, PairingIsWhole, PairedIsHeld
<1>4. CASE file # None
  <2>1. file \in Seq(Settings) /\ AllOfOne(file) /\ WholeOnes(file)
    BY <1>1, <1>4 DEF Load, Inv, Types, DevicesApart, DiskIsWhole
  <2>2. PICK refs \in [1..Len(file) -> Ref] :
          /\ \A i, j \in 1..Len(file) : refs[i] = refs[j] => i = j
          /\ stored' = refs
          /\ settings' = [r \in Ref |->
               IF r \in Elements(refs)
               THEN file[CHOOSE i \in 1..Len(file) : refs[i] = r] ELSE Blank]
    BY <1>4 DEF Load
  <2>3. Len(file) \in Nat /\ Len(refs) = Len(file)
    BY <2>1, <2>2
  <2>4. ASSUME NEW k \in 1..Len(file)
        PROVE  settings'[refs[k]] = file[k]
    <3>1. refs[k] \in Ref /\ refs[k] \in Elements(refs)
      BY <2>3 DEF Elements
    <3>2. (CHOOSE i \in 1..Len(file) : refs[i] = refs[k]) = k
      BY <2>2
    <3> QED
      BY <2>2, <3>1, <3>2
  <2>5. Dump' = [k \in 1..Len(file) |-> file[k]]
    <3>1. Dump' = [k \in 1..Len(file) |-> settings'[refs[k]]]
      BY <2>2, <2>3 DEF Dump
    <3> QED
      BY <2>4, <3>1
  <2>6. Dump' = file
    <3>1. file \in [1..Len(file) -> Settings]
      BY <2>1, LenProperties
    <3> QED
      BY <2>5, <3>1, Zenon
  <2>7. PairedIsHeld'
    <3> SUFFICES ASSUME NEW d \in Device, NEW p \in Protocol, NEW i \in 1..Len(file),
                        file[i].credentials[p] = d
                 PROVE  d \in Named /\ Has(file, d, p)
      BY <1>4, <2>6 DEF Load, PairedIsHeld
    <3>1. PICK e \in Device : OfDevice(file[i], e)
      BY <2>1 DEF AllOfOne, OfOne
    <3>2. d = e
      BY <3>1, StorageAssumption DEF OfDevice
    <3>3. PICK w \in Named : Whole(file[i], w)
      BY <2>1 DEF WholeOnes
    <3>4. PICK q \in Protocol : Id[w][q] # None
      BY DEF Named, Identifiers
    <3>5. file[i].id[q] = Id[w][q]
      BY <3>3 DEF Whole
    <3>6. PICK q2 \in Protocol : Id[w][q] = Id[e][q2]
      BY <3>1, <3>4, <3>5 DEF OfDevice
    <3>7. w = e
      BY <3>4, <3>6, SameDevice DEF Named
    <3> QED
      BY <3>2, <3>3, <3>7 DEF Has
  <2>8. PairingIsWhole'
    BY DEF Load, PairingIsWhole, Inv, HandlerHasItsOwn
  <2> QED
    BY <1>2, <2>1, <2>6, <2>7, <2>8
<1> QED
  BY <1>3, <1>4

(* The other steps leave the settings, or all but the file, behind.         *)
LEMMA OthersAreWhole ==
    ASSUME Inv, Inv', WholeInv,
           PairEnds \/ SaveBegins \/ FileOpens \/ FileWrites \/ SaveReturns
           \/ Crash \/ UNCHANGED vars
    PROVE  WholeInv'
<1> SUFFICES ASSUME ~ partly'
             PROVE  (WholeOnes(Dump) /\ DiskIsWhole /\ ConfigIsWhole /\ PairingIsWhole
                     /\ PairedIsHeld)'
  BY DEF WholeInv
<1>1. ~ partly
  BY DEF PairEnds, SaveBegins, FileOpens, FileWrites, SaveReturns, Crash, vars, user
<1>2. WholeOnes(Dump) /\ DiskIsWhole /\ ConfigIsWhole /\ PairingIsWhole /\ PairedIsHeld
  BY <1>1 DEF WholeInv
<1>3. CASE Crash
  <2>1. Len(stored') = 0 /\ Len(Dump') = 0
    BY <1>3 DEF Crash, Dump
  <2>2. WholeOnes(Dump')
    BY <2>1 DEF WholeOnes
  <2> QED
    BY <1>2, <1>3, <2>2 DEF Crash, DiskIsWhole, ConfigIsWhole, PairingIsWhole, PairedIsHeld
<1>4. CASE PairEnds \/ SaveBegins \/ FileOpens \/ FileWrites \/ SaveReturns \/ UNCHANGED vars
  <2>1. UNCHANGED <<settings, stored, config, paired>> /\ Dump' = Dump
        /\ pairing' \in {pairing, None}
    BY <1>4 DEF PairEnds, SaveBegins, FileOpens, FileWrites, SaveReturns, vars, memory, user, Dump
  <2>2. PairingIsWhole' /\ ConfigIsWhole' /\ PairedIsHeld'
    BY <1>2, <2>1 DEF PairingIsWhole, ConfigIsWhole, PairedIsHeld
  <2>3. CASE PairEnds \/ UNCHANGED vars
    BY <1>2, <2>1, <2>2, <2>3 DEF PairEnds, disk, vars, DiskIsWhole
  <2>4. CASE SaveBegins
    BY <1>2, <2>1, <2>2, <2>4 DEF SaveBegins, DiskIsWhole
  <2>5. CASE FileOpens \/ FileWrites \/ SaveReturns
    <3>1. saving \in Saving /\ WholeOnes(saving.data)
      BY <1>2, <2>5 DEF FileOpens, FileWrites, SaveReturns, Inv, Types, DiskIsWhole
    <3>2. DiskIsWhole'
      BY <1>2, <2>5, <3>1 DEF FileOpens, FileWrites, SaveReturns, DiskIsWhole, Saving
    <3> QED
      BY <1>2, <2>1, <2>2, <3>2
  <2> QED
    BY <1>4, <2>3, <2>4, <2>5
<1> QED
  BY <1>3, <1>4

LEMMA InitIsWhole == Init => WholeInv
<1> SUFFICES ASSUME Init PROVE WholeInv
  OBVIOUS
<1>1. Len(Dump) = 0
  BY DEF Init, Dump
<1>2. WholeOnes(Dump)
  BY <1>1 DEF WholeOnes
<1> QED
  BY <1>2 DEF Init, WholeInv, DiskIsWhole, ConfigIsWhole, PairingIsWhole, PairedIsHeld

LEMMA WholeInvKept ==
    ASSUME Inv, Inv', WholeInv, [Next]_vars
    PROVE  WholeInv'
<1>1. CASE \E d \in Device : \E offers \in Seen[d] : Scan(d, offers)
  BY <1>1, ScanIsWhole
<1>2. CASE \E p \in Protocol : PairBegins(p)
  BY <1>2, PairBeginsIsWhole
<1>3. CASE Connect \/ UpdateSettings
  BY <1>3, ConnectIsWhole, UpdateSettingsIsWhole
<1>4. CASE PairFinishes
  BY <1>4, PairFinishesIsWhole
<1>5. CASE \E i \in 1..Len(stored) : RemoveSettings(i)
  BY <1>5, RemoveSettingsIsWhole
<1>6. CASE Load
  BY <1>6, LoadIsWhole
<1>7. CASE PairEnds \/ SaveBegins \/ FileOpens \/ FileWrites \/ SaveReturns
           \/ Crash \/ UNCHANGED vars
  BY <1>7, OthersAreWhole
<1> QED
  BY <1>1, <1>2, <1>3, <1>4, <1>5, <1>6, <1>7 DEF Next

(* Settings that are whole and in the storage are those that get_settings   *)
(* finds for their device.                                                  *)
LEMMA HeldIsKnown ==
    ASSUME Inv, WholeInv
    PROVE  PairedIsKnown
<1> SUFFICES ASSUME ~ partly, NEW pair \in paired
             PROVE  Known(pair[1], Protocol, pair[2])
  BY DEF PairedIsKnown
<1> DEFINE d == pair[1]
           p == pair[2]
<1>1. WholeOnes(Dump) /\ d \in Named /\ p \in Protocol /\ Has(Dump, d, p)
  BY DEF WholeInv, PairedIsHeld
<1>2. Len(Dump) = Len(stored) /\ \A i \in 1..Len(stored) : Dump[i] = settings[stored[i]]
  BY DumpIsContent
<1> HIDE DEF d, p
<1>3. PICK i \in 1..Len(stored) :
        Whole(settings[stored[i]], d) /\ settings[stored[i]].credentials[p] = d
  BY <1>1, <1>2 DEF Has
<1>4. i \in Matching(d, Protocol)
  BY <1>1, <1>3, WholeIsFound DEF Matching
<1>5. ASSUME NEW j \in Matching(d, Protocol)
      PROVE  i = j
  <2>1. j \in 1..Len(stored)
    BY DEF Matching
  <2>2. PICK e \in Named : Whole(settings[stored[j]], e)
    BY <1>1, <1>2, <2>1 DEF WholeOnes
  <2>3. PICK q \in Protocol : settings[stored[j]].id[q] \in Identifiers(d, Protocol)
    BY DEF Matching
  <2>4. d = e
    BY <1>1, <2>2, <2>3, FoundIsWhole DEF Named
  <2> QED
    BY <1>1, <1>2, <1>3, <2>1, <2>2, <2>4 DEF WholeOnes
<1>6. d # None
  BY <1>1, StorageAssumption DEF Named
<1>7. \A j \in Matching(d, Protocol) : i <= j
  BY <1>5
<1> QED
  BY <1>3, <1>4, <1>6, <1>7 DEF Known, d, p

(* While every scan finds all services of a device, what was paired is      *)
(* found again, for any number of devices and protocols, whatever else is   *)
(* scanned, paired, updated, removed, saved and loaded.                     *)
THEOREM PairedStaysKnown == Spec => []PairedIsKnown
<1> QED
  BY InitIsWhole, WholeInvKept, HeldIsKnown, InvAlways, PTL DEF Spec

-----------------------------------------------------------------------------
(* Requests of DMAP                                                         *)

Stage == [does : {"login", "playstatus", "command", "position", "identify", "artwork", "touch"},
          n : Int]

Call ==
    [todo : Seq(Stage), awaits : {"nothing", "login", "request"}, retry : BOOLEAN,
     again : BOOLEAN, carries : Int, granted : Int, own : Int,
     status : {"none", "ok", "bad"}, id : {{}} \cup Artwork, touched : Seq(Int),
     denied : BOOLEAN, blamed : BOOLEAN]

(* Who has to be blamed already: a call that was denied, one whose login     *)
(* was refused, and one whose repetition was.  A repetition carries the      *)
(* session that its own call logged in for.                                 *)
Blames(r) ==
    /\ r.denied => r.blamed
    /\ r.awaits = "login" /\ r.status = "bad" => r.blamed
    /\ r.awaits = "login" /\ ~ r.retry /\ r.carries # NoSession => r.blamed
    /\ r.awaits = "request" /\ ~ r.retry => r.carries = r.own
    /\ r.awaits = "request" /\ ~ r.retry /\ r.status = "bad" => r.blamed

(* What is left of a swipe is its last touches, and those before them have   *)
(* arrived; that of the request itself has when it was answered.            *)
Swipes(r) == Len(r.todo) > 0 /\ r.todo[1].does = "touch"

Done(r) == IF r.awaits = "request" /\ r.status = "ok" THEN 1 ELSE 0

Touches(r) ==
    /\ Swipes(r) =>
        /\ \A i \in 1..Len(r.todo) : r.todo[i] = Move(Moves - Len(r.todo) + i)
        /\ Len(r.touched) = Moves - Len(r.todo) + Done(r)
        /\ \A i \in 1..Len(r.touched) : r.touched[i] = i
    /\ ~ Swipes(r) =>
        /\ \A i \in 1..Len(r.todo) : r.todo[i].does # "touch"
        /\ r.touched = <<>>

Goes(r) ==
    /\ r \in Call
    /\ r.todo # <<>> \/ r.awaits = "nothing"
    /\ Blames(r) /\ Touches(r)

DaapInv ==
    /\ call \in [DaapTask -> Call]
    /\ sessionId \in Int /\ issued \in Int
    /\ \A c \in DaapTask : Goes(call[c])

LEMMA FreshGoes == Goes(Fresh)
<1>1. Fresh \in Call
  BY DEF Fresh, Call, NoSession, Session
<1>2. Blames(Fresh)
  BY DEF Fresh, Blames
<1>3. Touches(Fresh)
  BY DEF Fresh, Touches, Swipes, Done
<1> QED
  BY <1>1, <1>2, <1>3 DEF Goes, Fresh

(* A login, or a request, instead of what the call awaited, while no touch   *)
(* is answered.                                                             *)
LEMMA LogsIsCall ==
    ASSUME NEW r \in Call, NEW again \in BOOLEAN
    PROVE  Logs(r, again) \in Call
<1> DEFINE r1 == [r EXCEPT !.awaits = "login"]
           r2 == [r1 EXCEPT !.again = again]
           r3 == [r2 EXCEPT !.status = "none"]
           r4 == [r3 EXCEPT !.granted = NoSession]
<1>1. r1 \in Call
  BY DEF Call
<1> HIDE DEF r1
<1>2. r2 \in Call
  BY <1>1 DEF Call
<1> HIDE DEF r2
<1>3. r3 \in Call
  BY <1>2 DEF Call
<1> HIDE DEF r3
<1>4. r4 \in Call
  <2>1. NoSession \in Int
    BY DEF NoSession
  <2> QED
    BY <1>3, <2>1 DEF Call
<1> QED
  BY <1>4 DEF Logs, r4, r3, r2, r1

LEMMA SendsIsCall ==
    ASSUME NEW r \in Call, NEW session \in Int
    PROVE  Sends(r, session) \in Call
<1> DEFINE r1 == [r EXCEPT !.awaits = "request"]
           r2 == [r1 EXCEPT !.carries = session]
           r3 == [r2 EXCEPT !.status = "none"]
           r4 == [r3 EXCEPT !.granted = NoSession]
<1>1. r1 \in Call
  BY DEF Call
<1> HIDE DEF r1
<1>2. r2 \in Call
  BY <1>1 DEF Call
<1> HIDE DEF r2
<1>3. r3 \in Call
  BY <1>2 DEF Call
<1> HIDE DEF r3
<1>4. r4 \in Call
  <2>1. NoSession \in Int
    BY DEF NoSession
  <2> QED
    BY <1>3, <2>1 DEF Call
<1> QED
  BY <1>4 DEF Sends, Carries, r4, r3, r2, r1

LEMMA LogsGoes ==
    ASSUME NEW r \in Call, r.todo # <<>>, Blames(r), Touches(r), NEW again \in BOOLEAN,
           ~ (r.awaits = "request" /\ r.status = "ok"),
           ~ r.retry /\ r.carries # NoSession => r.blamed
    PROVE  Goes(Logs(r, again))
<1> DEFINE s == Logs(r, again)
<1>1. s \in Call
  BY LogsIsCall
<1>2. /\ s.todo = r.todo /\ s.retry = r.retry /\ s.carries = r.carries /\ s.blamed = r.blamed
      /\ s.denied = r.denied /\ s.touched = r.touched
      /\ s.awaits = "login" /\ s.status = "none"
  BY DEF Logs, Call
<1> HIDE DEF s
<1>3. Blames(s)
  BY <1>2 DEF Blames
<1>4. Touches(s)
  BY <1>2 DEF Touches, Swipes, Done
<1> QED
  BY <1>1, <1>2, <1>3, <1>4 DEF Goes, s

LEMMA SendsGoes ==
    ASSUME NEW r \in Call, r.todo # <<>>, Blames(r), Touches(r), NEW session \in Int,
           ~ (r.awaits = "request" /\ r.status = "ok"),
           r.retry \/ session = r.own
    PROVE  Goes(Sends(r, session))
<1> DEFINE s == Sends(r, session)
<1>1. s \in Call
  BY SendsIsCall
<1>2. /\ s.todo = r.todo /\ s.retry = r.retry /\ s.carries = session /\ s.blamed = r.blamed
      /\ s.denied = r.denied /\ s.touched = r.touched /\ s.own = r.own
      /\ s.awaits = "request" /\ s.status = "none"
  BY DEF Sends, Carries, Call
<1> HIDE DEF s
<1>3. Blames(s)
  BY <1>2 DEF Blames
<1>4. Touches(s)
  BY <1>2 DEF Touches, Swipes, Done
<1> QED
  BY <1>1, <1>2, <1>3, <1>4 DEF Goes, s

(* The first request of what is left.                                       *)
LEMMA AsksGoes ==
    ASSUME NEW r \in Call, r.todo # <<>>, r.denied => r.blamed, NEW session \in Int,
           Touches([r EXCEPT !.status = "none"])
    PROVE  Goes(Asks(r, session))
<1> DEFINE s == Asks(r, session)
<1>1. s \in Call
  <2>1. Logs(r, TRUE) \in Call /\ Sends(r, session) \in Call
    BY LogsIsCall, SendsIsCall
  <2>2. [Logs(r, TRUE) EXCEPT !.retry = TRUE] \in Call
        /\ [Sends(r, session) EXCEPT !.retry = TRUE] \in Call
    BY <2>1 DEF Call
  <2> QED
    BY <2>2 DEF Asks
<1>2. /\ s.todo = r.todo /\ s.retry = TRUE /\ s.blamed = r.blamed
      /\ s.denied = r.denied /\ s.touched = r.touched
      /\ s.status = "none"
  BY DEF Asks, Logs, Sends, Call
<1>3. [r EXCEPT !.status = "none"].todo = r.todo
      /\ [r EXCEPT !.status = "none"].touched = r.touched
      /\ [r EXCEPT !.status = "none"].status = "none"
  BY DEF Call
<1> HIDE DEF s
<1>4. Blames(s)
  BY <1>2 DEF Blames
<1>5. Touches(s)
  BY <1>2, <1>3 DEF Touches, Swipes, Done
<1> QED
  BY <1>1, <1>2, <1>4, <1>5 DEF Goes, s

LEMMA DeniedGoes ==
    ASSUME NEW r \in Call, r.blamed
    PROVE  Goes(Denied(r))
<1>1. Denied(r) \in Call
  BY FreshGoes DEF Goes, Denied, Call
<1>2. Denied(r).blamed /\ Denied(r).awaits = "nothing" /\ Denied(r).todo = <<>>
      /\ Denied(r).touched = <<>>
  BY DEF Denied, Fresh, Call
<1>3. Blames(Denied(r))
  BY <1>2 DEF Blames
<1>4. Touches(Denied(r))
  BY <1>2 DEF Touches, Swipes, Done
<1> QED
  BY <1>1, <1>2, <1>3, <1>4 DEF Goes

(* A request was served: what follows it is asked for.                      *)
LEMMA GoesOn ==
    ASSUME NEW r, Goes(r), r.todo # <<>>, NEW session \in Int,
           (r.awaits = "request" /\ r.status = "ok") \/ r.todo[1].does # "touch"
    PROVE  Goes(GoesOnWith(r, session))
<1>1. r \in Call /\ r.todo \in Seq(Stage) /\ Len(r.todo) \in Nat /\ Len(r.todo) > 0
  BY DEF Goes, Call
<1>2. CASE Len(r.todo) = 1
  BY <1>2, FreshGoes DEF GoesOnWith
<1>3. CASE Len(r.todo) # 1
  <2> DEFINE s == [r EXCEPT !.todo = Tail(@)]
             t == [s EXCEPT !.status = "none"]
             n == Len(r.todo)
  <2>1. /\ Tail(r.todo) \in Seq(Stage) /\ Len(Tail(r.todo)) = n - 1
        /\ \A i \in 1..(n - 1) : Tail(r.todo)[i] = r.todo[i + 1]
    BY <1>1
  <2>2. s \in Call /\ s.todo = Tail(r.todo) /\ s.touched = r.touched
        /\ s.denied = r.denied /\ s.blamed = r.blamed
    BY <1>1, <2>1 DEF Call
  <2>3. t.todo = Tail(r.todo) /\ t.touched = r.touched /\ t.status = "none"
    BY <2>2 DEF Call
  <2>4. n \in Nat /\ n > 1
    <3>1. \A m \in Nat : m > 0 /\ m # 1 => m > 1
      OBVIOUS
    <3> QED
      BY ONLY <1>1, <1>3, <3>1, Zenon
  <2>5. s.todo # <<>>
    <3>1. Len(s.todo) > 0
      BY <2>1, <2>2, <2>4
    <3>2. s.todo \in Seq(Stage)
      BY <2>1, <2>2
    <3> HIDE DEF s
    <3> QED
      BY <3>1, <3>2
  <2> HIDE DEF s, t, n
  <2>9. n - 1 \in 1..(n - 1) /\ 1 \in 1..(n - 1)
    BY <2>4
  <2>6. Touches(t)
    <3>0. Touches(r) /\ Moves \in Nat
      BY DaapAssumption DEF Goes
    <3>1. CASE r.todo[1].does = "touch"
      <4>1. /\ \A i \in 1..n : r.todo[i] = Move(Moves - n + i)
            /\ Len(r.touched) = Moves - n + 1
            /\ \A i \in 1..Len(r.touched) : r.touched[i] = i
        <5>1. Swipes(r) /\ Done(r) = 1
          BY <1>1, <3>1 DEF Swipes, Done
        <5> QED
          BY <3>0, <5>1, Zenon DEF Touches, n
      <4>2. \A i \in 1..(n - 1) : i + 1 \in 1..n /\ Moves - n + (i + 1) = Moves - (n - 1) + i
        BY <2>4, <3>0
      <4>3. \A i \in 1..(n - 1) : t.todo[i] = Move(Moves - (n - 1) + i)
        BY <2>1, <2>3, <4>1, <4>2 DEF n
      <4>4. t.todo[1].does = "touch"
        <5>1. t.todo[1] = Move(Moves - (n - 1) + 1)
          BY <2>9, <4>3, Zenon
        <5> QED
          BY <5>1 DEF Move
      <4>5. Len(t.todo) = n - 1 /\ Len(t.touched) = Moves - (n - 1)
        BY <2>1, <2>3, <2>4, <3>0, <4>1 DEF n
      <4> QED
        <5>1. Swipes(t) /\ Done(t) = 0
          BY <2>3, <2>4, <4>4, <4>5 DEF Swipes, Done
        <5>2. Moves - (n - 1) = Moves - (n - 1) + 0
          BY <2>4, <3>0
        <5> QED
          BY <2>3, <4>1, <4>3, <4>5, <5>1, <5>2, Zenon DEF Touches
    <3>2. CASE r.todo[1].does # "touch"
      <4>1. /\ \A i \in 1..n : r.todo[i].does # "touch"
            /\ r.touched = <<>>
        BY <3>0, <3>2 DEF Touches, Swipes, Done, n
      <4>2. \A i \in 1..(n - 1) : i + 1 \in 1..n
        BY <2>4
      <4>3. \A i \in 1..(n - 1) : t.todo[i].does # "touch"
        BY <2>1, <2>3, <4>1, <4>2 DEF n
      <4>4. Len(t.todo) = n - 1
        BY <2>1, <2>3 DEF n
      <4> QED
        BY <2>3, <2>4, <4>1, <4>3, <4>4 DEF Touches, Swipes, Done
    <3> QED
      BY <3>1, <3>2
  <2>7. s.denied => s.blamed
    BY <2>2 DEF Goes, Blames
  <2>8. Goes(Asks(s, session))
    BY <2>2, <2>5, <2>6, <2>7, AsksGoes DEF t
  <2> QED
    BY <1>3, <2>8 DEF GoesOnWith, s
<1> QED
  BY <1>2, <1>3

LEMMA ProgramsGo ==
    ASSUME NEW program \in Programs
    PROVE  /\ program \in Seq(Stage) /\ Len(program) > 0
           /\ \/ program = Swipe
              \/ \A i \in 1..Len(program) : program[i].does # "touch"
<1>1. CASE program = Swipe
  <2>1. Moves \in Nat /\ Moves > 0
    BY DaapAssumption
  <2>2. \A i \in 1..Moves : Move(i) \in Stage
    BY <2>1 DEF Move, Stage
  <2>3. Swipe \in Seq(Stage) /\ Len(Swipe) = Moves
    BY <2>1, <2>2 DEF Swipe
  <2> QED
    BY <1>1, <2>1, <2>3
<1>2. CASE program # Swipe
  <2>1. \A x \in {"login", "playstatus", "command", "position", "identify", "artwork"} :
          Request(x) \in Stage /\ Request(x).does # "touch"
    BY DEF Request, Stage
  <2>2. CASE program = <<Request("command")>>
    BY <2>1, <2>2
  <2>3. ASSUME NEW x \in {"login", "playstatus", "identify"},
               NEW y \in {"playstatus", "position", "artwork"},
               program = <<Request(x), Request(y)>>
        PROVE  /\ program \in Seq(Stage) /\ Len(program) > 0
               /\ \A i \in 1..Len(program) : program[i].does # "touch"
    BY <2>1, <2>3
  <2> QED
    BY <1>2, <2>2, <2>3 DEF Programs, Hello, Command, Skip, GetArtwork
<1> QED
  BY <1>1, <1>2

(* A step changes one call.                                                 *)
LEMMA OneGoes ==
    ASSUME DaapInv, NEW c \in DaapTask, NEW r, Now(c, r), Goes(r),
           sessionId' \in Int, issued' \in Int
    PROVE  DaapInv'
<1>1. /\ call' \in [DaapTask -> Call] /\ call'[c] = r
      /\ \A x \in DaapTask \ {c} : call'[x] = call[x]
  BY DEF DaapInv, Now, Goes
<1>2. \A x \in DaapTask : Goes(call'[x])
  BY <1>1, Zenon DEF DaapInv
<1> QED
  BY <1>1, <1>2 DEF DaapInv

LEMMA CallsDaapGoes ==
    ASSUME DaapInv, NEW c \in DaapTask, NEW program \in Programs, CallsDaap(c, program)
    PROVE  DaapInv'
<1> DEFINE r == [Fresh EXCEPT !.todo = program]
           t == [r EXCEPT !.status = "none"]
<1>1. program \in Seq(Stage) /\ Len(program) > 0 /\ program # <<>>
      /\ (program = Swipe \/ \A i \in 1..Len(program) : program[i].does # "touch")
  BY ProgramsGo
<1>2. Fresh \in Call
  BY FreshGoes DEF Goes
<1>3. r \in Call /\ r.todo = program /\ r.denied = FALSE
  BY <1>1, <1>2 DEF Call, Fresh
<1>4. /\ t.todo = program /\ t.touched = <<>> /\ t.status = "none"
  BY <1>1 DEF Fresh
<1> HIDE DEF r, t
<1>5. Touches(t)
  <2>1. CASE program = Swipe
    <3>1. Moves \in Nat /\ Moves > 0
      BY DaapAssumption
    <3>2. Len(Swipe) = Moves /\ \A i \in 1..Moves : Swipe[i] = Move(i)
      BY <3>1 DEF Swipe
    <3>3. \A i \in 1..Moves : Moves - Moves + i = i
      BY <3>1
    <3>4. Swipes(t) /\ Done(t) = 0
      BY <1>1, <1>4, <2>1, <3>1, <3>2 DEF Swipes, Done, Move
    <3>5. Len(t.touched) = Moves - Moves + 0 /\ \A i \in 1..Len(t.touched) : t.touched[i] = i
      BY <1>4, <3>1
    <3>6. \A i \in 1..Len(t.todo) : t.todo[i] = Move(Moves - Len(t.todo) + i)
      BY <1>4, <2>1, <3>2, <3>3
    <3>7. Len(t.todo) = Moves
      BY <1>4, <2>1, <3>2
    <3> QED
      BY <3>4, <3>5, <3>6, <3>7, Zenon DEF Touches
  <2>2. CASE \A i \in 1..Len(program) : program[i].does # "touch"
    BY <1>1, <1>4, <2>2 DEF Touches, Swipes
  <2> QED
    BY <1>1, <2>1, <2>2
<1>6. Goes(Asks(r, sessionId))
  BY <1>1, <1>3, <1>5, AsksGoes DEF t, DaapInv
<1> QED
  BY <1>6, OneGoes DEF CallsDaap, r, sessionVars, DaapInv

LEMMA DeviceGoes ==
    ASSUME DaapInv, NEW c \in DaapTask, Grants(c) \/ Refuses(c) \/ Serves(c)
    PROVE  DaapInv'
<1> DEFINE r == call[c]
<1>1. r \in Call /\ Goes(r) /\ sessionId \in Int /\ issued \in Int
  BY DEF DaapInv
<1>2. r.awaits # "nothing" /\ r.status = "none" /\ r.todo # <<>>
  BY <1>1 DEF Grants, Refuses, Serves, Unanswered, Goes
<1>3. Blames(r) /\ Touches(r)
  BY <1>1 DEF Goes
<1>4. CASE Grants(c)
  <2> DEFINE s == [r EXCEPT !.status = "ok", !.granted = issued']
  <2>1. issued' \in Int /\ r.awaits = "login"
    BY <1>1, <1>4 DEF Grants
  <2>2. [r EXCEPT !.status = "ok"] \in Call
    BY <1>1 DEF Call
  <2>3. s \in Call
    BY <2>1, <2>2 DEF Call
  <2>4. /\ s.todo = r.todo /\ s.retry = r.retry /\ s.carries = r.carries /\ s.blamed = r.blamed
        /\ s.denied = r.denied /\ s.touched = r.touched /\ s.own = r.own
        /\ s.awaits = "login" /\ s.status = "ok"
    BY <1>1, <2>1 DEF Call
  <2>5. Now(c, s)
    BY <1>4 DEF Grants
  <2> HIDE DEF s, r
  <2>6. Blames(s)
    BY <1>3, <2>1, <2>4 DEF Blames
  <2>7. Touches(s)
    BY <1>2, <1>3, <2>1, <2>4 DEF Touches, Swipes, Done
  <2>8. Goes(s)
    BY <1>2, <2>3, <2>4, <2>6, <2>7 DEF Goes
  <2> QED
    BY <1>1, <1>4, <2>1, <2>5, <2>8, OneGoes DEF Grants
<1>5. CASE Refuses(c)
  <2> DEFINE expired == r.awaits = "request" /\ r.carries \notin valid
             blame == r.blamed \/ ~ expired \/ r.carries = r.own
             s == [r EXCEPT !.status = "bad", !.blamed = blame]
  <2>1. Now(c, s)
    BY <1>5, Zenon DEF Refuses
  <2>2. blame \in BOOLEAN /\ (r.blamed => blame) /\ (~ expired => blame)
        /\ (r.carries = r.own => blame)
    BY <1>1 DEF Call
  <2> HIDE DEF blame
  <2>3. [r EXCEPT !.status = "bad"] \in Call
    BY <1>1 DEF Call
  <2>4. s \in Call
    BY <2>2, <2>3 DEF Call
  <2>5. /\ s.todo = r.todo /\ s.retry = r.retry /\ s.carries = r.carries /\ s.blamed = blame
        /\ s.denied = r.denied /\ s.touched = r.touched /\ s.own = r.own
        /\ s.awaits = r.awaits /\ s.status = "bad"
    BY <1>1 DEF Call
  <2> HIDE DEF s, r
  <2>6. Blames(s)
    BY <1>3, <2>2, <2>5, Zenon DEF Blames
  <2>7. Touches(s)
    BY <1>2, <1>3, <2>5 DEF Touches, Swipes, Done
  <2>8. Goes(s)
    BY <1>2, <2>4, <2>5, <2>6, <2>7 DEF Goes
  <2> QED
    BY <1>1, <1>5, <2>1, <2>8, OneGoes DEF Refuses
<1>6. CASE Serves(c)
  <2> DEFINE touch == Head(r.todo).does = "touch"
             touched == IF touch THEN Append(r.touched, Head(r.todo).n) ELSE r.touched
             s == [r EXCEPT !.status = "ok", !.touched = touched]
  <2>1. Now(c, s) /\ r.awaits = "request"
    BY <1>6 DEF Serves
  <2>2. r.todo \in Seq(Stage) /\ Len(r.todo) \in Nat /\ Len(r.todo) > 0
        /\ Head(r.todo) = r.todo[1] /\ r.todo[1] \in Stage /\ r.touched \in Seq(Int)
    BY <1>1, <1>2 DEF Call
  <2>3. touched \in Seq(Int)
    BY <2>2 DEF Stage
  <2>4. [r EXCEPT !.status = "ok"] \in Call
    BY <1>1 DEF Call
  <2> HIDE DEF touched
  <2>5. s \in Call
    BY <2>3, <2>4 DEF Call
  <2>6. /\ s.todo = r.todo /\ s.retry = r.retry /\ s.carries = r.carries /\ s.blamed = r.blamed
        /\ s.denied = r.denied /\ s.touched = touched /\ s.own = r.own
        /\ s.awaits = "request" /\ s.status = "ok"
    BY <1>1, <2>1 DEF Call
  <2> HIDE DEF s, r
  <2>7. Blames(s)
    BY <1>3, <2>1, <2>6 DEF Blames
  <2>8. Touches(s)
    <3>1. Swipes(s) <=> Swipes(r)
      BY <2>6 DEF Swipes
    <3>2. CASE Swipes(r)
      <4> DEFINE n == Len(r.todo)
      <4>1. /\ \A i \in 1..n : r.todo[i] = Move(Moves - n + i)
            /\ Len(r.touched) = Moves - n
            /\ \A i \in 1..Len(r.touched) : r.touched[i] = i
        BY <1>2, <1>3, <2>2, <3>2, DaapAssumption DEF Touches, Done
      <4>2. 1 \in 1..n /\ Moves \in Nat /\ n \in Nat
        BY <2>2, DaapAssumption
      <4>3. r.todo[1] = Move(Moves - n + 1)
        BY <4>1, <4>2, Zenon
      <4>4. touch /\ Head(r.todo).n = Moves - n + 1
        BY <2>2, <4>3 DEF Move
      <4>5. touched = Append(r.touched, Moves - n + 1)
        BY <4>4 DEF touched
      <4> HIDE DEF n, touch
      <4>6. Len(touched) = Moves - n + 1
            /\ \A i \in 1..Len(touched) : touched[i] = i
        BY <2>2, <4>1, <4>2, <4>5
      <4>7. Done(s) = 1
        BY <2>6 DEF Done
      <4> QED
        BY <2>6, <3>1, <3>2, <4>1, <4>6, <4>7, Zenon DEF Touches, n
    <3>3. CASE ~ Swipes(r)
      <4>1. ~ touch
        BY <2>2, <3>3 DEF Swipes
      <4> QED
        BY <1>3, <2>6, <3>1, <3>3, <4>1 DEF Touches, touched
    <3> QED
      BY <3>2, <3>3
  <2>9. Goes(s)
    BY <1>2, <2>5, <2>6, <2>7, <2>8 DEF Goes
  <2> QED
    BY <1>1, <1>6, <2>1, <2>9, OneGoes DEF Serves, sessionVars
<1> QED
  BY <1>4, <1>5, <1>6

LEMMA AnswerGoes ==
    ASSUME DaapInv, NEW c \in DaapTask,
           Succeeds(c) \/ HasNothing(c) \/ LogsInAgain(c) \/ LoggedIn(c) \/ LoginRefused(c)
           \/ RequestFails(c)
    PROVE  DaapInv'
<1> DEFINE r == call[c]
<1>1. r \in Call /\ Goes(r) /\ sessionId \in Int /\ issued \in Int
      /\ Blames(r) /\ Touches(r)
  BY DEF DaapInv, Goes
<1>2. r.awaits # "nothing"
  BY DEF Succeeds, HasNothing, LogsInAgain, LoggedIn, LoginRefused, RequestFails, Answered
<1>3. r.todo # <<>> /\ r.todo \in Seq(Stage) /\ Len(r.todo) > 0 /\ Head(r.todo) = r.todo[1]
  BY <1>1, <1>2 DEF Goes, Call
<1> HIDE DEF r
<1>4. CASE Succeeds(c)
  <2>1. r.awaits = "request" /\ r.status = "ok"
    BY <1>4 DEF Succeeds, Answered, r
  <2>2. ASSUME NEW t, Now(c, t), Goes(t)
        PROVE  DaapInv'
    BY <1>1, <1>4, <2>2, OneGoes DEF Succeeds, sessionVars
  <2>3. ASSUME NEW id \in Artwork
        PROVE  Goes(GoesOnWith([r EXCEPT !.id = id], sessionId))
    <3> DEFINE s == [r EXCEPT !.id = id]
    <3>1. s \in Call
      BY <1>1 DEF Call
    <3>2. /\ s.todo = r.todo /\ s.retry = r.retry /\ s.carries = r.carries /\ s.blamed = r.blamed
          /\ s.denied = r.denied /\ s.touched = r.touched /\ s.own = r.own
          /\ s.awaits = "request" /\ s.status = "ok"
      BY <1>1, <2>1 DEF Call
    <3> HIDE DEF s
    <3>3. Blames(s) /\ Touches(s)
      BY <1>1, <2>1, <3>2 DEF Blames, Touches, Swipes, Done
    <3>4. Goes(s)
      BY <1>3, <3>1, <3>2, <3>3 DEF Goes
    <3>5. Goes(GoesOnWith(s, sessionId))
      BY <1>1, <1>3, <3>2, <3>4, GoesOn
    <3> QED
      BY <3>5 DEF s
  <2>4. Goes(GoesOnWith(r, sessionId))
    BY <1>1, <1>3, <2>1, GoesOn
  <2> QED
    BY <1>4, <2>2, <2>3, <2>4, FreshGoes DEF Succeeds, r
<1>5. CASE HasNothing(c) \/ RequestFails(c)
  BY <1>1, <1>5, FreshGoes, OneGoes DEF HasNothing, RequestFails, sessionVars
<1>6. CASE LogsInAgain(c)
  <2> DEFINE carries == IF r.retry THEN NoSession ELSE r.carries
             s == [r EXCEPT !.carries = carries, !.retry = FALSE]
  <2>1. Now(c, Logs(s, TRUE)) /\ r.awaits = "request" /\ r.status = "bad"
    BY <1>6 DEF LogsInAgain, Answered, r
  <2>2. carries \in Int /\ (r.retry => carries = NoSession)
        /\ (~ r.retry => carries = r.carries)
    <3>1. NoSession \in Int
      BY DEF NoSession
    <3>2. r.retry \in BOOLEAN /\ r.carries \in Int
      BY <1>1 DEF Call
    <3> QED
      BY <3>1, <3>2
  <2> HIDE DEF carries
  <2>3. [r EXCEPT !.carries = carries] \in Call
    BY <1>1, <2>2 DEF Call
  <2>4. s \in Call
    BY <2>3 DEF Call
  <2>5. /\ s.todo = r.todo /\ s.retry = FALSE /\ s.carries = carries /\ s.blamed = r.blamed
        /\ s.denied = r.denied /\ s.touched = r.touched /\ s.own = r.own
        /\ s.awaits = "request" /\ s.status = "bad"
    BY <1>1, <2>1, <2>2 DEF Call
  <2> HIDE DEF s
  <2>6. ~ r.retry => r.blamed /\ r.carries = r.own
    BY <1>1, <2>1 DEF Blames
  <2>7. Touches(s)
    BY <1>1, <2>1, <2>5 DEF Touches, Swipes, Done
  <2>8. Goes(Logs(s, TRUE))
    <3> DEFINE t == Logs(s, TRUE)
    <3>1. t \in Call
      BY <2>4, LogsIsCall
    <3>2. /\ t.todo = r.todo /\ t.retry = FALSE /\ t.carries = carries /\ t.blamed = r.blamed
          /\ t.denied = r.denied /\ t.touched = r.touched
          /\ t.awaits = "login" /\ t.status = "none"
      BY <2>4, <2>5 DEF Logs, Call
    <3> HIDE DEF t
    <3>3. Blames(t)
      BY <1>1, <2>2, <2>6, <3>2 DEF Blames
    <3>4. Touches(t)
      BY <2>5, <2>7, <3>2 DEF Touches, Swipes, Done
    <3>5. Goes(t)
      BY <1>3, <3>1, <3>2, <3>3, <3>4 DEF Goes
    <3> QED
      BY <3>5 DEF t
  <2> QED
    BY <1>1, <1>6, <2>1, <2>8, OneGoes DEF LogsInAgain, sessionVars
<1>7. CASE LoggedIn(c)
  <2> DEFINE s == [r EXCEPT !.own = r.granted]
  <2>1. r.awaits = "login" /\ r.status = "ok" /\ sessionId' = s.own
        /\ Now(c, IF Head(s.todo).does = "login" THEN GoesOnWith(s, s.own)
                  ELSE IF s.carries # NoSession /\ ~ s.retry THEN Denied(s)
                  ELSE Sends(s, s.own))
    BY <1>7 DEF LoggedIn, Answered, r
  <2>2. s \in Call
    BY <1>1 DEF Call
  <2>3. /\ s.todo = r.todo /\ s.retry = r.retry /\ s.carries = r.carries /\ s.blamed = r.blamed
        /\ s.denied = r.denied /\ s.touched = r.touched /\ s.own \in Int
        /\ s.awaits = "login" /\ s.status = "ok"
    BY <1>1, <2>1 DEF Call
  <2> HIDE DEF s
  <2>4. Blames(s) /\ Touches(s)
    BY <1>1, <2>1, <2>3 DEF Blames, Touches, Swipes, Done
  <2>5. Goes(s)
    BY <1>3, <2>2, <2>3, <2>4 DEF Goes
  <2>6. CASE Head(s.todo).does = "login"
    <3>1. Goes(GoesOnWith(s, s.own))
      BY <1>3, <2>3, <2>5, <2>6, GoesOn
    <3> QED
      BY <1>1, <1>7, <2>1, <2>3, <2>6, <3>1, OneGoes DEF LoggedIn, sessionVars
  <2>7. CASE Head(s.todo).does # "login" /\ s.carries # NoSession /\ ~ s.retry
    <3>1. Goes(Denied(s))
      BY <2>2, <2>3, <2>4, <2>7, DeniedGoes DEF Blames
    <3> QED
      BY <1>1, <1>7, <2>1, <2>3, <2>7, <3>1, OneGoes DEF LoggedIn, sessionVars
  <2>8. CASE Head(s.todo).does # "login" /\ ~ (s.carries # NoSession /\ ~ s.retry)
    <3>1. Goes(Sends(s, s.own))
      BY <1>3, <2>2, <2>3, <2>4, SendsGoes
    <3> QED
      BY <1>1, <1>7, <2>1, <2>3, <2>8, <3>1, OneGoes DEF LoggedIn, sessionVars
  <2> QED
    BY <2>6, <2>7, <2>8
<1>8. CASE LoginRefused(c)
  <2>1. r.awaits = "login" /\ r.status = "bad"
        /\ Now(c, IF r.again THEN Logs(r, FALSE) ELSE Denied(r))
    BY <1>8 DEF LoginRefused, Answered, r
  <2>2. r.blamed
    BY <1>1, <2>1 DEF Blames
  <2>3. Goes(Logs(r, FALSE)) /\ Goes(Denied(r))
    BY <1>1, <1>3, <2>1, <2>2, LogsGoes, DeniedGoes
  <2> QED
    BY <1>1, <1>8, <2>1, <2>3, OneGoes DEF LoginRefused, sessionVars
<1> QED
  BY <1>4, <1>5, <1>6, <1>7, <1>8

LEMMA DaapInvKept ==
    ASSUME DaapInv, [DaapNext]_daapVars
    PROVE  DaapInv'
<1>1. ASSUME NEW c \in DaapTask, NEW program \in Programs, CallsDaap(c, program)
      PROVE  DaapInv'
  BY <1>1, CallsDaapGoes
<1>2. ASSUME NEW c \in DaapTask, Grants(c) \/ Refuses(c) \/ Serves(c)
      PROVE  DaapInv'
  BY <1>2, DeviceGoes
<1>3. ASSUME NEW c \in DaapTask,
             Succeeds(c) \/ HasNothing(c) \/ LogsInAgain(c) \/ LoggedIn(c) \/ LoginRefused(c)
             \/ RequestFails(c)
      PROVE  DaapInv'
  BY <1>3, AnswerGoes
<1>4. CASE Expires \/ UNCHANGED daapVars
  BY <1>4 DEF Expires, daapVars, sessionVars, DaapInv
<1> QED
  BY <1>1, <1>2, <1>3, <1>4 DEF DaapNext

-----------------------------------------------------------------------------
(* Pairing of DMAP: what is announced is there, as the server is started     *)
(* before and withdrawn after it.                                           *)
Announcing ==
    /\ zeroconf => closing = "no"
    /\ zeroconf /\ begun = "announces" => server
    /\ announced # {} => zeroconf /\ server

LEMMA AnnouncingKept ==
    ASSUME Announcing, [PairingNext]_pairingVars
    PROVE  Announcing'
<1>1. CASE Begin \/ Starts \/ Pin \/ Finish \/ UNCHANGED pairingVars
  BY <1>1 DEF Begin, Starts, Pin, Finish, pairingVars, Announcing
<1>2. CASE Publish
  BY <1>2 DEF Publish, Announcing
<1>3. CASE CloseHandler \/ Cleanup
  BY <1>3 DEF CloseHandler, Cleanup, Announcing
<1>4. CASE \E matches \in BOOLEAN : HandleRequest(matches)
  BY <1>4 DEF HandleRequest, Announcing
<1> QED
  BY <1>1, <1>2, <1>3, <1>4 DEF PairingNext

(* For any number of calls, sessions, refusals and touches: a call is denied *)
(* only when the device is to blame, the touches of a swipe arrive in order  *)
(* and once each, and what is announced for pairing is there.               *)
THEOREM CallsAreServed ==
    DaapSpec /\ PairingInit /\ [][PairingNext]_pairingVars => []ServedAsAsked
<1>1. DaapInit => DaapInv
  BY FreshGoes DEF DaapInit, DaapInv, NoSession, Goes
<1>2. PairingInit => Announcing
  BY DEF PairingInit, Announcing
<1>3. DaapInv /\ Announcing => ServedAsAsked
  <2> SUFFICES ASSUME DaapInv, Announcing PROVE ServedAsAsked
    OBVIOUS
  <2>1. ASSUME NEW c \in DaapTask
        PROVE  /\ call[c].denied => call[c].blamed
               /\ \A i \in DOMAIN call[c].touched : call[c].touched[i] = i
               /\ Answered(c, "request", "ok") /\ Head(call[c].todo).does = "touch" =>
                     Len(call[c].touched) = Head(call[c].todo).n
    <3> DEFINE r == call[c]
    <3>1. Blames(r) /\ Touches(r) /\ r.todo \in Seq(Stage) /\ r.touched \in Seq(Int)
          /\ (r.todo # <<>> \/ r.awaits = "nothing")
      BY DEF DaapInv, Goes, Call
    <3> HIDE DEF r
    <3>2. \A i \in 1..Len(r.touched) : r.touched[i] = i
      BY <3>1 DEF Touches
    <3>3. ASSUME r.awaits = "request", r.status = "ok", Head(r.todo).does = "touch"
          PROVE  Len(r.touched) = Head(r.todo).n
      <4> DEFINE n == Len(r.todo)
      <4>1. n \in Nat /\ n > 0 /\ Head(r.todo) = r.todo[1] /\ Moves \in Nat
        BY <3>1, <3>3, DaapAssumption
      <4>2. Swipes(r) /\ Done(r) = 1 /\ 1 \in 1..n
        BY <3>3, <4>1 DEF Swipes, Done
      <4>3. r.todo[1] = Move(Moves - n + 1) /\ Len(r.touched) = Moves - n + 1
        BY <3>1, <4>2, Zenon DEF Touches
      <4>4. r.todo[1].n = Moves - n + 1
        BY <4>3 DEF Move
      <4> QED
        BY <4>1, <4>3, <4>4
    <3>4. DOMAIN r.touched = 1..Len(r.touched)
      BY <3>1
    <3> QED
      BY <3>1, <3>2, <3>3, <3>4 DEF Blames, Answered, r
  <2> QED
    BY <2>1 DEF ServedAsAsked, Announcing
<1> QED
  BY <1>1, <1>2, <1>3, DaapInvKept, AnnouncingKept, PTL DEF DaapSpec

=============================================================================
