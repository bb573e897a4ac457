------------------------------ MODULE HapPairing ------------------------------
(***************************************************************************)
(* Pairing and verification: the pairing handlers and the procedures of    *)
(* MRP, Companion and AirPlay (HAP, transient and legacy), SRPAuthHandler, *)
(* and the server side that the fake devices and atvproxy use.             *)
(*                                                                         *)
(* Cryptography is symbolic: an SRP key is the PIN and the two sides it    *)
(* was made from, a shared secret of a verification is the two keys, what  *)
(* is encrypted carries its key, and only that key reads it.  A message is *)
(* named after the source: M1 to M6 pair, V1 to V4 verify, T1 to T4 do a   *)
(* transient pairing, L1 to L6 a legacy one, D and R are what follows.     *)
(***************************************************************************)
EXTENDS Integers, Sequences

CONSTANTS
    PIN_CODE,     \* the one the device shows
    Pins,         \* what a user may type
    MaxBegins, MaxFinishes, MaxConnects

ASSUME PinAssumption == PIN_CODE \in Pins

Protos == {"mrp", "companion", "airplay", "legacy"}
(* The device, the same after a reset (identifier kept, keys new), and     *)
(* another one that got its address.                                       *)
Devices == {"own", "reset", "other"}
Nil == "none"

VARIABLES
    proto,     \* the protocol the handler pairs
    hnd,       \* the handler: pairing_procedure, pin_code, has_paired, keys,
               \* and whether a finish() ran out of time
    cred,      \* service.credentials, and the PIN they were made with
    call,      \* the operation of the library that awaits an answer
    link,      \* the client's end of the connection
    srv,       \* the device's end: its SRP session, keys and ciphers
    toDevice, toClient,    \* messages under way
    garbled,   \* a message of a session could not be read
    begins, finishes, connects

hapVars == <<proto, hnd, cred, call, link, srv, toDevice, toClient, garbled, begins, finishes, connects>>

NoCall == [op |-> Nil, at |-> Nil]
Plain == <<>>
NoCredentials == [dev |-> Nil, pin |-> Nil]
Fresh(kind, d) == [kind |-> kind, dev |-> d, out |-> Plain, in |-> Plain]
NoLink == Fresh(Nil, Nil)
NoServer == [key |-> <<>>, secret |-> <<>>, mode |-> "setup", out |-> Plain, in |-> Plain, on |-> FALSE]

HapInit ==
    /\ proto \in Protos
    /\ hnd = [started |-> FALSE, begun |-> FALSE, pin |-> Nil, paired |-> FALSE, keys |-> 0,
              expired |-> FALSE]
    /\ cred = NoCredentials /\ call = NoCall /\ link = NoLink /\ srv = NoServer
    /\ toDevice = <<>> /\ toClient = <<>>
    /\ garbled = FALSE /\ begins = 0 /\ finishes = 0 /\ connects = 0

NoKey == <<Nil, 0>>
(* initialize: the public half of a new pair of keys, and what a device     *)
(* signs with its own.                                                     *)
Public(keys) == <<"public", keys>>
Signature(d) == <<d, 0>>
(* SRPAuthHandler.step1 and step2, and new_server_session: both sides have *)
(* the same key when they have the same PIN.                               *)
SrpKey(pin, keys) == <<pin, keys>>
(* The secret of a verification: X25519 of the client's and device's keys. *)
Shared(keys, d) == <<d, keys>>
(* The session of a server, with the PIN it shows. *)
NewServerSession(keys) == SrpKey(PIN_CODE, keys)
(* hkdf_expand: one key for each info. *)
Expand(info, secret) == <<info, secret>>

(* Who may call a device its own: the signature is made with its keys.     *)
Identifier(d) == IF d = "other" THEN "another" ELSE "identifier"
(* SRPAuthHandler.verify1: identifier, then signature. *)
Verify1(c, d) == Identifier(d) = Identifier(c.dev) /\ d = c.dev

(* verify2, and encryption_keys of the transient procedure: what the client *)
(* writes and reads with.                                                  *)
ClientWrites == IF proto = "companion" THEN "ClientEncrypt-main" ELSE "Write"
ClientReads == IF proto = "companion" THEN "ServerEncrypt-main" ELSE "Read"
(* enable_encryption(output_key, input_key) as each server calls it.       *)
ServerEnables(p, secret) ==
    CASE p = "companion" -> [out |-> Expand("ServerEncrypt-main", secret), in |-> Expand("ClientEncrypt-main", secret)]
      [] OTHER -> [out |-> Expand("Read", secret), in |-> Expand("Write", secret)]

Request(k, key) == [k |-> k, key |-> key, enc |-> link.out]
Sends(k, key) == toDevice' = Append(toDevice, Request(k, key))
Awaits(op, k, key) == call' = [op |-> op, at |-> k] /\ Sends(k, key)
Raises == call' = NoCall /\ UNCHANGED toDevice
OpensLink(kind, d) == link' = Fresh(kind, d) /\ srv' = NoServer
Closes == link' = NoLink /\ srv' = NoServer /\ toDevice' = <<>> /\ toClient' = <<>>

(* ------------------------------ the handlers ----------------------------- *)
(* begin of the three handlers: MRP and Companion have one protocol object, *)
(* which starts once, AirPlay connects again and forgets has_paired.       *)
StartsAgain == proto \in {"mrp", "companion"} /\ hnd.started

BeginAgain ==
    /\ call.op = Nil /\ begins < MaxBegins /\ StartsAgain
    /\ hnd' = [hnd EXCEPT !.keys = @ + 1]
    /\ begins' = begins + 1
    /\ UNCHANGED <<proto, cred, call, link, srv, toDevice, toClient, garbled, finishes, connects>>

Begin ==
    /\ call.op = Nil /\ begins < MaxBegins /\ ~StartsAgain
    /\ begins' = begins + 1
    /\ hnd' = [hnd EXCEPT !.started = TRUE, !.begun = FALSE, !.keys = @ + 1,
                          !.paired = IF proto \in {"airplay", "legacy"} THEN FALSE ELSE @]
    /\ OpensLink("pairing", "own")
    /\ call' = [op |-> "begin", at |-> IF proto = "legacy" THEN "pin" ELSE "M1"]
    /\ toDevice' = <<[k |-> call'.at, key |-> NoKey, enc |-> Plain]>> /\ toClient' = <<>>
    /\ UNCHANGED <<proto, cred, garbled, finishes, connects>>

Pin(p) ==
    /\ call.op = Nil /\ hnd.pin # p
    /\ hnd' = [hnd EXCEPT !.pin = p]
    /\ UNCHANGED <<proto, cred, call, link, srv, toDevice, toClient, garbled, begins, finishes, connects>>

(* SRPAuthHandler.step2, the proof of M3, and step3, what M5 encrypts. *)
Step2 == Awaits("finish", "M3", SrpKey(hnd.pin, hnd.keys))
Step3 == Awaits("finish", "M5", SrpKey(hnd.pin, hnd.keys))

(* finish: without a PIN, or before begin had its answer, it raises.       *)
Finish ==
    /\ call.op = Nil /\ finishes < MaxFinishes
    /\ finishes' = finishes + 1
    /\ IF hnd.pin # Nil /\ hnd.begun /\ link.kind = "pairing"
       THEN IF proto = "legacy" THEN Awaits("finish", "L1", Public(hnd.keys))
                                ELSE Step2
       ELSE UNCHANGED <<call, toDevice>>
    /\ UNCHANGED <<proto, hnd, cred, link, srv, toClient, garbled, begins, connects>>

(* close of a handler, also while an answer is awaited. *)
HandlerClose ==
    /\ link.kind = "pairing" /\ Closes
    /\ UNCHANGED <<proto, hnd, cred, call, garbled, begins, finishes, connects>>

(* What arrives answers the request that is awaited, whatever it is: the   *)
(* three protocols match crypto messages by their type or by their order.  *)
Message == Head(toClient)
Readable(m, key) == m.enc = key
Takes(op, at) == toClient # <<>> /\ Readable(Message, link.in) /\ call.op = op /\ call.at = at /\ toClient' = Tail(toClient)
Refused == Message.k = "500" \/ (Message.k = "Error" /\ proto # "airplay")

(* The answer to M1 has the salt and the public key of the device. *)
Begun ==
    /\ Takes("begin", "M1") /\ Raises
    /\ hnd' = [hnd EXCEPT !.begun = Message.k = "M2"]
    /\ UNCHANGED <<proto, cred, link, srv, garbled, begins, finishes, connects>>
LegacyBegun ==
    /\ Takes("begin", "pin") /\ Raises
    /\ hnd' = [hnd EXCEPT !.begun = Message.k = "pin-started"]
    /\ UNCHANGED <<proto, cred, link, srv, garbled, begins, finishes, connects>>

(* M4: MRP and Companion want a proof and no TlvValue.Error, AirPlay reads *)
(* nothing.                                                                *)
GoesOnAfterM3 == ~Refused /\ (Message.k = "M4" \/ proto = "airplay")
GotM4Stores ==      \* mutant: credentials are kept when the last message is sent
    /\ Takes("finish", "M3")
    /\ IF GoesOnAfterM3 THEN Step3 ELSE Raises
    /\ cred' = IF GoesOnAfterM3 THEN [dev |-> "own", pin |-> hnd.pin] ELSE cred
    /\ UNCHANGED <<proto, hnd, link, srv, garbled, begins, finishes, connects>>
GotM4 ==
    /\ Takes("finish", "M3")
    /\ IF GoesOnAfterM3 THEN Step3 ELSE Raises
    /\ UNCHANGED <<proto, hnd, cred, link, srv, garbled, begins, finishes, connects>>

(* has_paired, and the credentials in the service and the settings. *)
Stores == /\ cred' = [dev |-> "own", pin |-> hnd.pin]
          /\ hnd' = [hnd EXCEPT !.paired = TRUE]

(* SRPAuthHandler.step4: what M6 holds is read with the key of this finish. *)
Step4 == ~Refused /\ Message.k = "M6" /\ Message.key = SrpKey(hnd.pin, hnd.keys)

(* MRP verifies the new credentials before it stores them, on the same     *)
(* connection and with new keys.                                           *)
GotM6 ==
    /\ Takes("finish", "M5")
    /\ \/ ~Step4 /\ Raises /\ UNCHANGED <<hnd, cred>>
       \/ /\ Step4 /\ proto = "mrp" /\ Awaits("finish", "V1", Public(hnd.keys + 1))
          /\ hnd' = [hnd EXCEPT !.keys = @ + 1] /\ UNCHANGED cred
       \/ Step4 /\ proto # "mrp" /\ Raises /\ Stores
    /\ UNCHANGED <<proto, link, srv, garbled, begins, finishes, connects>>

(* LegacySRPAuthHandler.step2 and step3. *)
LegacyStep2 == Awaits("finish", "L3", SrpKey(hnd.pin, hnd.keys))
LegacyStep3 == Awaits("finish", "L5", SrpKey(hnd.pin, hnd.keys))

(* The three requests of the legacy procedure, to a device that refuses a  *)
(* wrong proof; only the first answer is read.                             *)
LegacyGoesOn ==
    /\ \/ /\ Takes("finish", "L1") /\ UNCHANGED <<hnd, cred>>
          /\ IF Message.k = "L2" THEN LegacyStep2 ELSE Raises
       \/ /\ Takes("finish", "L3") /\ UNCHANGED <<hnd, cred>>
          /\ IF Refused THEN Raises ELSE LegacyStep3
       \/ Takes("finish", "L5") /\ Raises /\ IF Refused THEN UNCHANGED <<hnd, cred>> ELSE Stores
    /\ UNCHANGED <<proto, link, srv, garbled, begins, finishes, connects>>

(* -------------------------------- sessions ------------------------------- *)
(* extract_credentials and pair_verify: which procedure a session begins.  *)
(* MRP and Companion without credentials speak in the clear.               *)
Procedures ==
    CASE cred # NoCredentials -> IF proto = "legacy" THEN {"LV1"} ELSE {"V1"}
      [] cred = NoCredentials /\ proto \in {"airplay", "legacy"} -> {"T1", Nil}
      [] OTHER -> {Nil}

ConnectTo(d) ==
    /\ call.op = Nil /\ connects < MaxConnects
    /\ connects' = connects + 1
    /\ OpensLink("session", d)
    /\ hnd' = [hnd EXCEPT !.keys = @ + 1, !.begun = FALSE]
    /\ toClient' = <<>>
    /\ \E k \in Procedures :
         IF k = Nil THEN call' = NoCall /\ toDevice' = <<>>
         ELSE /\ call' = [op |-> "connect", at |-> k]
              /\ toDevice' = <<[k |-> k, key |-> Public(hnd.keys + 1), enc |-> Plain]>>
    /\ UNCHANGED <<proto, cred, garbled, begins, finishes>>

(* V2 of the verification in MrpPairingHandler.finish. *)
PairingGotV2 ==
    /\ Takes("finish", "V1")
    /\ IF Message.k = "V2" /\ Verify1([dev |-> "own"], Message.key[1]) THEN Awaits("finish", "V3", Public(hnd.keys)) ELSE Raises
    /\ UNCHANGED <<proto, hnd, cred, link, srv, garbled, begins, finishes, connects>>
(* The handler of MRP has proved its credentials and encrypts nothing. *)
PairingGotV4 ==
    /\ Takes("finish", "V3") /\ Raises
    /\ IF Refused THEN UNCHANGED <<hnd, cred>> ELSE Stores
    /\ UNCHANGED <<proto, link, srv, garbled, begins, finishes, connects>>

(* A session whose procedure fails is closed by who connects. *)
GotV2 ==
    /\ toClient # <<>> /\ Readable(Message, link.in) /\ call = [op |-> "connect", at |-> "V1"]
    /\ IF Message.k = "V2" /\ Verify1(cred, Message.key[1])
       THEN Takes("connect", "V1") /\ Awaits("connect", "V3", Public(hnd.keys)) /\ UNCHANGED <<link, srv>>
       ELSE call' = NoCall /\ Closes
    /\ UNCHANGED <<proto, hnd, cred, garbled, begins, finishes, connects>>
Verified(secret) ==
    link' = [link EXCEPT !.out = Expand(ClientWrites, secret), !.in = Expand(ClientReads, secret)]
GotV4 ==
    /\ Takes("connect", "V3") /\ Raises /\ Verified(Shared(hnd.keys, link.dev))
    /\ UNCHANGED <<proto, hnd, cred, srv, garbled, begins, finishes, connects>>

(* AirPlayHapTransientPairVerifyProcedure: a pairing with a known PIN, the *)
(* keys of the session come from the SRP key.                              *)
GotT2 ==
    /\ Takes("connect", "T1") /\ Awaits("connect", "T3", SrpKey(Nil, hnd.keys))
    /\ UNCHANGED <<proto, hnd, cred, link, srv, garbled, begins, finishes, connects>>
GotT4 ==
    /\ Takes("connect", "T3") /\ Raises /\ Verified(SrpKey(Nil, hnd.keys))
    /\ UNCHANGED <<proto, hnd, cred, srv, garbled, begins, finishes, connects>>

(* Legacy verification gives no keys. *)
GotLegacyVerified ==
    /\ \/ Takes("connect", "LV1") /\ Awaits("connect", "LV3", NoKey)
       \/ Takes("connect", "LV3") /\ Raises
    /\ UNCHANGED <<proto, hnd, cred, link, srv, garbled, begins, finishes, connects>>

(* A session that is set up is used: send_processor, receive_processor.    *)
Use ==
    /\ call.op = Nil /\ link.kind = "session"
    /\ Awaits("use", "D", NoKey)
    /\ UNCHANGED <<proto, hnd, cred, link, srv, toClient, garbled, begins, finishes, connects>>
Used ==
    /\ Takes("use", "D") /\ Raises
    /\ UNCHANGED <<proto, hnd, cred, link, srv, garbled, begins, finishes, connects>>
(* An answer after the time was up, or of a call that failed, or one that  *)
(* cannot be read.                                                         *)
Late ==
    /\ toClient # <<>> /\ (call.op = Nil \/ ~Readable(Message, link.in))
    /\ toClient' = Tail(toClient)
    /\ garbled' = (garbled \/ (link.kind = "session" /\ ~Readable(Message, link.in)))
    /\ UNCHANGED <<proto, hnd, cred, call, link, srv, toDevice, begins, finishes, connects>>

(* The time is up: error_handler maps it.  A session that is not verified  *)
(* is closed, a pairing may be finished again on its connection, where the *)
(* answers that are late are taken for those to come.                      *)
TimesOut ==
    /\ call.op # Nil /\ call' = NoCall
    /\ IF call.op \in {"connect", "use"} THEN Closes ELSE UNCHANGED <<link, srv, toDevice, toClient>>
    /\ hnd' = [hnd EXCEPT !.expired = @ \/ (call.op = "finish" /\ link.kind = "pairing")]
    /\ UNCHANGED <<proto, cred, garbled, begins, finishes, connects>>
Lose ==
    /\ link.kind # Nil /\ Closes
    /\ UNCHANGED <<proto, hnd, cred, call, garbled, begins, finishes, connects>>

(* ------------------------------- the device ------------------------------ *)
(* process_received of the AirPlay server: encryption starts with what comes *)
(* in after it was enabled.                                                *)
Receives == [srv EXCEPT !.on = @ \/ srv.in # Plain]
Asked == Head(toDevice)
Reads(k) == toDevice # <<>> /\ Asked.k = k /\ Readable(Asked, srv.in) /\ toDevice' = Tail(toDevice)
Says(s, k, key) ==
    /\ toClient' = Append(toClient, [k |-> k, key |-> key, enc |-> IF s.on THEN s.out ELSE Plain])
    /\ UNCHANGED <<proto, hnd, cred, call, link, garbled, begins, finishes, connects>>
(* An exception: an error of HTTP, or nothing. *)
ServerFails(s) == IF proto = "airplay" THEN Says(s, "500", NoKey)
            ELSE UNCHANGED <<proto, hnd, cred, call, link, toClient, garbled, begins, finishes, connects>>

M1Setup ==
    /\ Reads("M1")
    /\ srv' = [Receives EXCEPT !.mode = "setup"]
    /\ Says(srv', "M2", NoKey)

(* The proof of the client against the session of the server. *)
M3Setup ==
    /\ srv.mode = "setup" /\ Reads("M3")
    /\ srv' = [Receives EXCEPT !.key = NewServerSession(Asked.key[2])]
    /\ Says(srv', IF Asked.key = srv'.key THEN "M4" ELSE "Error", NoKey)

(* Companion and AirPlay decrypt what M5 holds, MRP does not look at it. *)
M5Setup ==
    /\ srv.mode = "setup" /\ proto # "mrp" /\ Reads("M5")
    /\ srv' = Receives
    /\ IF Asked.key = srv.key THEN Says(srv', "M6", srv.key) ELSE ServerFails(srv')
MrpM5Setup ==
    /\ srv.mode = "setup" /\ proto = "mrp" /\ Reads("M5")
    /\ srv' = Receives
    /\ Says(srv', "M6", srv.key)

M1Verify ==
    /\ Reads("V1")
    /\ srv' = [Receives EXCEPT !.mode = "verify", !.secret = Shared(Asked.key[2], link.dev)]
    /\ Says(srv', "V2", Signature(link.dev))

(* Keys are enabled when M4 is written or about to be, M4 itself is plain: *)
(* MRP and Companion send it before, AirPlay encrypts from the next request. *)
Enable(ks) == [srv EXCEPT !.out = ks.out, !.in = ks.in]

(* handle_crypto_pairing of MRP goes by has_paired: M3 of a pairing that is *)
(* finished again after the verification is taken for that of the latter.  *)
M3Verify ==
    /\ srv.mode = "verify" /\ Reads("V3")
    /\ srv' = Enable(ServerEnables(proto, srv.secret))
    /\ Says(srv', "V4", NoKey)
M3TakenForVerify ==
    /\ srv.mode = "verify" /\ Reads("M3")
    /\ srv' = Enable(ServerEnables(proto, srv.secret))
    /\ Says(srv', "V4", NoKey)

TransientM1 == Reads("T1") /\ srv' = Receives /\ Says(srv', "T2", NoKey)
TransientM3 ==
    /\ Reads("T3")
    /\ srv' = Enable(ServerEnables(proto, SrpKey(Nil, Asked.key[2])))
    /\ Says(srv', "T4", NoKey)

LegacyDevice ==
    /\ UNCHANGED srv
    /\ \/ Reads("pin") /\ Says(srv, "pin-started", NoKey)
       \/ Reads("L1") /\ Says(srv, "L2", NoKey)
       \/ Reads("L3") /\ Says(srv, IF Asked.key[1] = PIN_CODE THEN "L4" ELSE "500", NoKey)
       \/ Reads("L5") /\ Says(srv, "L6", NoKey)
       \/ Reads("LV1") /\ Says(srv, "LV2", NoKey)
       \/ Reads("LV3") /\ Says(srv, "LV4", NoKey)

Serve ==
    /\ Reads("D")
    /\ srv' = Receives
    /\ Says(srv', "R", NoKey)

(* A request that cannot be read: the device encrypts by now. *)
Unread ==
    /\ toDevice # <<>> /\ ~Readable(Asked, srv.in)
    /\ toDevice' = Tail(toDevice)
    /\ srv' = Receives
    /\ garbled' = (garbled \/ link.kind = "session")
    /\ UNCHANGED <<proto, hnd, cred, call, link, toClient, begins, finishes, connects>>

ClientStep ==
    \/ Begun \/ LegacyBegun \/ GotM4 \/ GotM6 \/ LegacyGoesOn \/ PairingGotV2 \/ PairingGotV4
    \/ GotV2 \/ GotV4 \/ GotT2 \/ GotT4 \/ GotLegacyVerified \/ Used \/ Late \/ TimesOut
DeviceStep ==
    \/ M1Setup \/ M3Setup \/ M5Setup \/ MrpM5Setup \/ M1Verify \/ M3Verify \/ M3TakenForVerify
    \/ TransientM1 \/ TransientM3 \/ LegacyDevice \/ Serve \/ Unread
HapNext ==
    \/ Begin \/ BeginAgain \/ Finish \/ HandlerClose \/ Use \/ Lose \/ ClientStep \/ DeviceStep
    \/ \E p \in Pins : Pin(p)
    \/ \E d \in Devices : ConnectTo(d)

(***************************************************************************)
(* Properties.                                                             *)
(***************************************************************************)
(* Credentials that are stored were made with the PIN the device showed,   *)
(* and a handler that says has_paired has some: whatever was retyped,      *)
(* begun again, lost or closed on the way.  The legacy procedure reads no  *)
(* answer but the first, so there the time of no finish() may have run out: *)
(* with two late answers a third finish() stores whatever was typed.       *)
PairedIsProven ==
    /\ cred # NoCredentials /\ (proto = "legacy" => ~hnd.expired) => cred.pin = PIN_CODE
    /\ hnd.paired => cred # NoCredentials

(* A session with credentials is encrypted only with the device they are   *)
(* of, not with one that was reset or that got its address.                *)
OnlyOurDevice ==
    link.kind = "session" /\ link.out # Plain /\ cred # NoCredentials => link.dev = cred.dev

(* What one end of a session writes the other reads: both have switched to *)
(* the complementary keys, at the same message, when a request or an       *)
(* answer arrives; and the other end is the device that the credentials    *)
(* are of.                                                                 *)
EndsMeet == ~garbled /\ OnlyOurDevice

(* Both: what pairing leaves behind is good, and what is built on it works. *)
PairingHolds == PairedIsProven /\ EndsMeet
=============================================================================
