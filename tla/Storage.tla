------------------------------- MODULE Storage -------------------------------
(***************************************************************************)
(* The settings of devices and where they are kept: AbstractStorage and    *)
(* FileStorage (storage/), the configurations that scan() returns and      *)
(* pair() and connect() are given (__init__.py, conf.py, interface.py).    *)
(*                                                                         *)
(* A configuration names its device by the identifiers of the services     *)
(* that a scan found: all of the device, or some, when the user asked for  *)
(* some protocols only or answers were lost.  get_settings returns the     *)
(* first stored settings that have one of these identifiers, or makes new  *)
(* ones.  Pairing holds on to the settings object while the user types a   *)
(* PIN, save() writes in a thread, and the process may end at any moment.  *)
(*                                                                         *)
(* What settings contain is reduced to the identifier and the credentials  *)
(* of each protocol.  Credentials are the device that issued them.         *)
(***************************************************************************)
EXTENDS Naturals, Sequences, FiniteSets

CONSTANTS
    Device,      \* the devices on the network
    Protocol,    \* the protocols
    Id,          \* the identifier of each service of each device, or None
    Secured,     \* the services that ask for credentials
    Seen,        \* bound: the sets of services that scans find of a device
    Ref,         \* bound: objects of class Settings
    None,        \* None, also a file that does not exist
    Torn,        \* a file that was opened for writing and not written
    MaxSaves,    \* bound: calls of save() that write
    MaxCrashes   \* bound: times that the process ends

ASSUME StorageAssumption ==
    /\ Device # {} /\ None \notin Device \cup Ref
    /\ DOMAIN Id = Device /\ \A d \in Device : DOMAIN Id[d] = Protocol
    /\ \A d, e \in Device, p, q \in Protocol :
          Id[d][p] = Id[e][q] /\ Id[d][p] # None => d = e
    /\ Secured \subseteq Device \X Protocol
    /\ Seen \in [Device -> SUBSET SUBSET Protocol]
    /\ MaxSaves \in Nat /\ MaxCrashes \in Nat

VARIABLES
    up,        \* the storage was loaded
    settings,  \* the content of each settings object
    stored,    \* _settings: the objects of the storage, in order
    hash,      \* _hash: the data it was taken of, or None before the first
    file,      \* the content of the file
    saving,    \* save() in progress: where it is and what it writes, or None
    config,    \* the configuration that the user has, or None
    pairing,   \* the pairing handler that the user has, or None
    paired,    \* devices and protocols whose credentials should be in storage
    partly,    \* a configuration that lacks services was used
    saves, crashes

memory == <<settings, stored>>
disk == <<file, hash, saving, saves>>
user == <<config, pairing, paired, partly>>
vars == <<up, memory, disk, user, crashes>>

Identifier == {Id[d][p] : d \in Device, p \in Protocol} \ {None}
Settings ==
    [id : [Protocol -> Identifier \cup {None}], credentials : [Protocol -> Device \cup {None}]]
Blank == [id |-> [p \in Protocol |-> None], credentials |-> [p \in Protocol |-> None]]
Config ==
    [device : Device, offers : SUBSET Protocol, credentials : [Protocol -> Device \cup {None}]]
Saving == [pc : {"dumped", "opened", "written"}, data : Seq(Settings)]
Pairing == [protocol : Protocol, device : Device, ref : Ref, shares : BOOLEAN]

(* None is none of the records that it stands in for.                       *)
ASSUME NoneAssumption == None \notin Saving \cup Config \cup Pairing

Elements(s) == {s[i] : i \in 1..Len(s)}
Held == IF pairing = None THEN {} ELSE {pairing.ref}

(* What dict(storage) returns.  Devices with nothing but defaults would be  *)
(* left out; there are none, as settings are made with an identifier.      *)
Dump == [i \in 1..Len(stored) |-> settings[stored[i]]]

TypeOK ==
    /\ up \in BOOLEAN /\ partly \in BOOLEAN
    /\ settings \in [Ref -> Settings]
    /\ stored \in Seq(Ref) /\ Len(stored) = Cardinality(Elements(stored))
    /\ \A r \in Ref : settings[r] = Blank <=> r \notin Elements(stored) \cup Held
    /\ hash = None \/ hash \in Seq(Settings)
    /\ file \in {None, Torn} \/ file \in Seq(Settings)
    /\ saving \in Saving \cup {None}
    /\ config \in Config \cup {None}
    /\ pairing \in Pairing \cup {None}
    /\ paired \subseteq Device \X Protocol
    /\ saves \in 0..MaxSaves /\ crashes \in 0..MaxCrashes

Init ==
    /\ up = FALSE
    /\ settings = [r \in Ref |-> Blank]
    /\ stored = <<>>
    /\ hash = None /\ file = None /\ saving = None
    /\ config = None /\ pairing = None
    /\ paired = {} /\ partly = FALSE
    /\ saves = 0 /\ crashes = 0

-----------------------------------------------------------------------------
(* Configurations and their settings                                       *)

(* BaseConfig.all_identifiers.                                              *)
Identifiers(d, offers) == {Id[d][p] : p \in offers} \ {None}

(* A device as a scan found it: nothing is known but what it announces.     *)
Found(d, offers) ==
    [device |-> d, offers |-> offers, credentials |-> [p \in Protocol |-> None]]

Matching(d, offers) ==
    {i \in 1..Len(stored) : \E p \in Protocol :
        settings[stored[i]].id[p] \in Identifiers(d, offers)}

(* Mutant: fields that are None are copied as well.                         *)
UpdatedByAll(s, c) ==
    [id |-> [p \in Protocol |-> IF p \in c.offers THEN Id[c.device][p] ELSE s.id[p]],
     credentials |-> [p \in Protocol |->
        IF p \in c.offers THEN c.credentials[p] ELSE s.credentials[p]]]

(* _update_settings_from_config: model_copy leaves out what is None.        *)
Updated(s, c) ==
    [id |-> [p \in Protocol |-> IF p \in c.offers THEN Id[c.device][p] ELSE s.id[p]],
     credentials |-> [p \in Protocol |->
        IF p \in c.offers /\ c.credentials[p] # None
        THEN c.credentials[p] ELSE s.credentials[p]]]

(* get_settings returns the object r.                                       *)
GetSettings(c, r) ==
    LET ids == Matching(c.device, c.offers)
    IN  \/ /\ \E i \in ids : r = stored[i] /\ \A j \in ids : i <= j
           /\ UNCHANGED memory
        \/ /\ ids = {}
           /\ r \notin Elements(stored) \cup Held
           /\ settings' = [settings EXCEPT ![r] = Updated(Blank, c)]
           /\ stored' = Append(stored, r)

(* BaseConfig.apply: what the settings do not have stays as it is.          *)
Applied(c, s) ==
    [c EXCEPT !.credentials = [p \in Protocol |->
        IF p \in c.offers /\ s.credentials[p] # None
        THEN s.credentials[p] ELSE c.credentials[p]]]

(* The configuration is used with the storage.                              *)
Uses(c) == partly' = (partly \/ c.offers # Protocol)

(* A pairing handler goes on with the configuration it was made for.        *)
Detached == IF pairing = None THEN None ELSE [pairing EXCEPT !.shares = FALSE]

-----------------------------------------------------------------------------
(* What the user does                                                      *)

(* scan(): devices without identifiers are left out.                        *)
Scan(d, offers) ==
    /\ up
    /\ Identifiers(d, offers) # {}
    /\ \E r \in Ref :
        /\ GetSettings(Found(d, offers), r)
        /\ config' = Applied(Found(d, offers), settings'[r])
    /\ Uses(Found(d, offers))
    /\ pairing' = Detached
    /\ UNCHANGED <<up, disk, paired, crashes>>

(* connect(): the settings are applied to a copy of the configuration.      *)
Connect ==
    /\ up
    /\ config # None
    /\ \E r \in Ref : GetSettings(config, r)
    /\ Uses(config)
    /\ UNCHANGED <<up, disk, config, pairing, paired, crashes>>

(* update_settings(): new settings are updated twice, to the same effect.   *)
UpdateSettings ==
    /\ up
    /\ config # None
    /\ LET ids == Matching(config.device, config.offers)
       IN  \/ \E i \in ids :
                /\ \A j \in ids : i <= j
                /\ settings' = [settings EXCEPT ![stored[i]] = Updated(@, config)]
                /\ UNCHANGED stored
           \/ \E r \in Ref : ids = {} /\ GetSettings(config, r)
    /\ Uses(config)
    /\ UNCHANGED <<up, disk, config, pairing, paired, crashes>>

(* pair() hands the settings object to the handler, and the service of the  *)
(* user's own configuration.                                               *)
PairBegins(p) ==
    /\ up
    /\ config # None
    /\ pairing = None
    /\ p \in config.offers /\ <<config.device, p>> \in Secured
    /\ \E r \in Ref :
        /\ GetSettings(config, r)
        /\ pairing' = [protocol |-> p, device |-> config.device, ref |-> r, shares |-> TRUE]
    /\ Uses(config)
    /\ UNCHANGED <<up, disk, config, paired, crashes>>

(* finish() of a handler, when the procedure succeeds.                      *)
PairFinishes ==
    /\ pairing # None
    /\ settings' =
        [settings EXCEPT ![pairing.ref].credentials[pairing.protocol] = pairing.device]
    /\ config' = IF pairing.shares
                 THEN [config EXCEPT !.credentials[pairing.protocol] = pairing.device]
                 ELSE config
    /\ paired' = paired \cup {<<pairing.device, pairing.protocol>>}
    /\ pairing' = None
    /\ UNCHANGED <<up, stored, disk, partly, crashes>>

(* close() of a handler that did not finish.                                *)
PairEnds ==
    /\ pairing # None
    /\ pairing' = None
    /\ UNCHANGED <<up, memory, disk, config, paired, partly, crashes>>

(* remove_settings().  A program does not remove what it pairs.             *)
RemoveSettings(i) ==
    /\ up
    /\ pairing = None
    /\ i \in 1..Len(stored)
    /\ stored' = SubSeq(stored, 1, i - 1) \o SubSeq(stored, i + 1, Len(stored))
    /\ settings' = [settings EXCEPT ![stored[i]] = Blank]
    /\ paired' = {pair \in paired : settings[stored[i]].credentials[pair[2]] # pair[1]}
    /\ UNCHANGED <<up, disk, config, pairing, partly, crashes>>

-----------------------------------------------------------------------------
(* FileStorage                                                             *)

(* save() returns at once when the data is that of the hash.                *)
SaveBegins ==
    /\ up
    /\ saving = None
    /\ hash # Dump
    /\ saves < MaxSaves
    /\ saving' = [pc |-> "dumped", data |-> Dump]
    /\ saves' = saves + 1
    /\ UNCHANGED <<up, memory, file, hash, user, crashes>>

(* _save_file, in a thread: open() truncates the file.                      *)
FileOpens ==
    /\ saving # None /\ saving.pc = "dumped"
    /\ file' = Torn
    /\ saving' = [saving EXCEPT !.pc = "opened"]
    /\ UNCHANGED <<up, memory, hash, saves, user, crashes>>

FileWrites ==
    /\ saving # None /\ saving.pc = "opened"
    /\ file' = saving.data
    /\ saving' = [saving EXCEPT !.pc = "written"]
    /\ UNCHANGED <<up, memory, hash, saves, user, crashes>>

(* Mutant: the hash is taken of what the storage holds now.                 *)
SaveReturnsWithCurrent ==
    /\ saving # None /\ saving.pc = "written"
    /\ hash' = Dump
    /\ saving' = None
    /\ UNCHANGED <<up, memory, file, saves, user, crashes>>

SaveReturns ==
    /\ saving # None /\ saving.pc = "written"
    /\ hash' = saving.data
    /\ saving' = None
    /\ UNCHANGED <<up, memory, file, saves, user, crashes>>

(* The process ends, whatever it was about to do.                           *)
Crash ==
    /\ up
    /\ crashes < MaxCrashes
    /\ up' = FALSE
    /\ settings' = [r \in Ref |-> Blank]
    /\ stored' = <<>>
    /\ hash' = None /\ saving' = None
    /\ config' = None /\ pairing' = None /\ paired' = {}
    /\ crashes' = crashes + 1
    /\ UNCHANGED <<file, saves, partly>>

(* load() of a new process.  It raises when the file is torn.               *)
Load ==
    /\ ~ up
    /\ file # Torn
    /\ up' = TRUE
    /\ IF file = None
       THEN UNCHANGED <<memory, hash, paired>>
       ELSE /\ \E refs \in [1..Len(file) -> Ref] :
                /\ \A i, j \in 1..Len(file) : refs[i] = refs[j] => i = j
                /\ stored' = refs
                /\ settings' = [r \in Ref |->
                     IF r \in Elements(refs)
                     THEN file[CHOOSE i \in 1..Len(file) : refs[i] = r] ELSE Blank]
            /\ hash' = file
            /\ paired' = {pair \in Device \X Protocol :
                    \E i \in 1..Len(file) : file[i].credentials[pair[2]] = pair[1]}
    /\ UNCHANGED <<file, saving, saves, config, pairing, partly, crashes>>

Next ==
    \/ \E d \in Device : \E offers \in Seen[d] : Scan(d, offers)
    \/ \E p \in Protocol : PairBegins(p)
    \/ Connect \/ UpdateSettings \/ PairFinishes \/ PairEnds
    \/ \E i \in 1..Len(stored) : RemoveSettings(i)
    \/ SaveBegins \/ FileOpens \/ FileWrites \/ SaveReturns
    \/ Crash \/ Load

Spec == Init /\ [][Next]_vars

-----------------------------------------------------------------------------
(* These settings are those of device d.                                    *)
OfDevice(s, d) ==
    \A p \in Protocol :
        /\ s.id[p] \in {Id[d][q] : q \in Protocol} \cup {None}
        /\ s.credentials[p] \in {d, None}

OfOne(s) == \E d \in Device : OfDevice(s, d)

AllOfOne(data) == \A i \in 1..Len(data) : OfOne(data[i])

(* No credentials of one device are ever sent to another: the identifiers   *)
(* and credentials in each settings object, in memory, on disk and on the   *)
(* way there, are those of one device, and so are a configuration's.        *)
DevicesApart ==
    /\ \A r \in Ref : OfOne(settings[r])
    /\ file \notin {None, Torn} => AllOfOne(file)
    /\ saving # None => AllOfOne(saving.data)
    /\ config # None => \A p \in Protocol : config.credentials[p] \in {config.device, None}

(* has_changed() tells the truth: when it finds no change, and no save() is *)
(* under way, the file has what the storage holds, also when settings       *)
(* changed while the file was written.                                     *)
HashIsHonest == up /\ saving = None /\ hash = Dump => file = Dump

(* What the storage has for a device that is seen with these services.      *)
Known(d, offers, p) ==
    \E i \in Matching(d, offers) :
        /\ \A j \in Matching(d, offers) : i <= j
        /\ settings[stored[i]].credentials[p] # None

(* As long as every scan finds all services, the credentials of a protocol  *)
(* that was paired are found for the device, whatever is updated, removed   *)
(* of other devices, paired, saved and loaded since.  After a scan that     *)
(* found some services only they may not be: get_settings does not record   *)
(* the identifiers of services that were missing when the settings were     *)
(* made, so that the device may get a second Settings.                      *)
PairedIsKnown ==
    ~ partly => \A pair \in paired : Known(pair[1], Protocol, pair[2])

=============================================================================
