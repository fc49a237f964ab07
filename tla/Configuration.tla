--------------------------- MODULE Configuration ---------------------------
(***************************************************************************)
(* config.toml (config.py), edited one value at a time, and what a tool    *)
(* call is given from it: config.load parses and refuses, policy.py picks  *)
(* the target the call names and looks at it a second time.                *)
(*                                                                         *)
(* Abstractions: a file holds one of the sections, with at most MaxTables  *)
(* tables; a value is what the rules tell apart ("bad" stands for any of   *)
(* the wrong type or form, a credential for where it is kept); the three   *)
(* HTTP services, which are parsed and picked by the same rules, are one,  *)
(* and what a table lists of theirs (buckets, nodes, annotations) too.     *)
(* A call works on the file it read (ToolCalls has edits during a call).   *)
(***************************************************************************)
EXTENDS Naturals, Sequences, FiniteSets, TLC

CONSTANTS
    Local, Far,   \* hosts: loopback names, and others
    Names,        \* of targets
    Levels,       \* of MQTT topics; a "$" level is in Reserved
    Reserved,
    Ranges,       \* of Modbus addresses
    MaxTables,    \* bound: tables of a section
    MaxEdits      \* bound: edits before the file is as it was

ASSUME HostsDiffer == Local \cap Far = {}
ASSUME WildcardsAreNoLevels == Levels \cap {"+", "#"} = {} /\ Reserved \subseteq Levels

\* Modbus ranges: LB bits, LW and RW words.
ModbusRange == [area : {"LB", "LW", "RW"}, start : Nat, count : Nat]

ASSUME RangesAreRanges == Ranges \subseteq ModbusRange

VARIABLES
    file,         \* config.toml: its status, and its section
    edits,        \* how often it was edited
    loaded,       \* the configuration the call works on, if any
    given         \* what the call was given from it, if anything

configVars == <<file, edits, loaded, given>>

-----------------------------------------------------------------------------
(* MQTT topic filters *)

Filters == UNION {[1..n -> Levels \cup {"+", "#"}] : n \in 1..2}
Topics  == UNION {[1..n -> Levels] : n \in 1..3}

\* A filter, "#" alone and last.
ValidFilter(filter) == filter \in Filters /\ \A i \in 1..Len(filter) : filter[i] = "#" => i = Len(filter)

\* The levels of a filter before its "#".
Fixed(filter) == {i \in 1..Len(filter) : filter[i] # "#"}
Open(filter)  == \E i \in 1..Len(filter) : filter[i] = "#"

\* 4.7.2: a leading wildcard never matches a "$" topic.
Hidden(filter, topic) == topic[1] \in Reserved /\ filter[1] \in {"+", "#"}

\* topic_matches
Matches(filter, topic) ==
    /\ ~Hidden(filter, topic)
    /\ \A i \in Fixed(filter) : i <= Len(topic) /\ filter[i] \in {"+", topic[i]}
    /\ Open(filter) \/ Len(filter) = Len(topic)

\* Mutant: the rule for "$" topics is forgotten.
CoversReserved(allowed, requested) ==
    /\ \A i \in Fixed(allowed) :
         i <= Len(requested) /\ requested[i] # "#" /\ allowed[i] \in {"+", requested[i]}
    /\ Open(allowed) \/ Len(allowed) = Len(requested)

\* filter_covers: is every topic that requested matches matched by allowed?
Covers(allowed, requested) ==
    /\ ~Hidden(allowed, requested)
    /\ \A i \in Fixed(allowed) :
         i <= Len(requested) /\ requested[i] # "#" /\ allowed[i] \in {"+", requested[i]}
    /\ Open(allowed) \/ Len(allowed) = Len(requested)

-----------------------------------------------------------------------------
(* Modbus ranges *)

\* Behind the last LB bit, LW or RW word.
Size(area) == CASE area = "LB" -> 12800 [] area = "LW" -> 9999 [] area = "RW" -> 55536

ValidRange(r) == r \in ModbusRange /\ r.count >= 1 /\ r.start + r.count <= Size(r.area)

\* ModbusRange.covers
RangeCovers(r, ask) ==
    /\ ask.area = r.area /\ r.start <= ask.start
    /\ ask.start + ask.count <= r.start + r.count

\* modbus_address: LB is read as coils, LW as registers, RW as those behind them.
Table(area) == IF area = "LB" THEN "coils" ELSE "registers"
Base(area)  == IF area = "RW" THEN 9999 ELSE 0

Addresses(r) == {<<Table(r.area), Base(r.area) + r.start + k>> : k \in 0..r.count - 1}

-----------------------------------------------------------------------------
(* The tables of a section, and the values a user may write in them *)

Flag   == {"yes", "no", "bad"}
Host   == Local \cup Far \cup {"bad"}
Paths  == SUBSET {"certificate", "key", "trust"}
Secret == SUBSET {"env", "file"}
Items  == {"first", "second"}   \* nodes, topics and buckets a table lists
Some(S) == {{x, y} : x, y \in S}

Fields ==
    [mqtt     |-> [name |-> Names \cup {"bad"}, host |-> Host, tls |-> Flag, waiver |-> Flag,
                   paths |-> Paths, user |-> BOOLEAN, secrets |-> Secret,
                   subscribe |-> {{}} \cup Some(Filters), publish |-> SUBSET (Levels \cup {"+"})],
     http     |-> [name |-> Names \cup {"bad"}, host |-> Host, tls |-> Flag, waiver |-> Flag,
                   secrets |-> Secret, grants |-> SUBSET Items],
     opcua    |-> [host |-> Host, port |-> {"unset", "4840", "4841"}, policy |-> Flag,
                   mode |-> Flag, waiver |-> Flag, paths |-> Paths, user |-> BOOLEAN,
                   secrets |-> Secret, grants |-> SUBSET Items],
     hmi_mqtt |-> [host |-> Host, port |-> {"unset", "1883", "8883", "bad"}, tls |-> Flag,
                   waiver |-> Flag, paths |-> Paths, user |-> BOOLEAN, secrets |-> Secret,
                   grants |-> SUBSET Items],
     modbus   |-> [host |-> Host, port |-> {"unset", "502", "503", "bad"}, waiver |-> Flag,
                   unit |-> {"ok", "bad"}, read |-> {{}} \cup Some(Ranges)],
     hosts    |-> [pi |-> SUBSET Host, jetson |-> SUBSET Host, pins |-> {"ok", "bad"},
                   numbers |-> {"ok", "bad"}, flash |-> Flag, roots |-> BOOLEAN]]

Kinds == DOMAIN Fields
Ming    == {"mqtt", "http"}
Weintek == {"opcua", "hmi_mqtt", "modbus"}

\* A table that loads, for a start.
Plain(kind) ==
    LET far == CHOOSE h \in Far : TRUE
        secured == [host |-> far, tls |-> "yes", waiver |-> "no", secrets |-> {},
                    grants |-> {"first"}]
        named == secured @@ [name |-> CHOOSE n \in Names : TRUE]
        client == [paths |-> {}, user |-> FALSE]
        all == CASE kind = "mqtt"     -> named @@ client @@ [subscribe |-> {<<"#">>}, publish |-> {}]
                 [] kind = "http"     -> named
                 [] kind = "opcua"    -> [paths |-> {"certificate", "key", "trust"}, policy |-> "yes",
                                          mode |-> "yes", port |-> "unset"] @@ client @@ secured
                 [] kind = "hmi_mqtt" -> secured @@ client @@ [port |-> "unset"]
                 [] kind = "modbus"   -> [host |-> far, port |-> "unset", waiver |-> "yes", unit |-> "ok",
                                          read |-> {CHOOSE r \in Ranges : ValidRange(r)}]
                 [] kind = "hosts"    -> [pi |-> {far}, jetson |-> {}, pins |-> "ok", numbers |-> "ok",
                                          flash |-> "no", roots |-> FALSE]
    IN [field \in DOMAIN Fields[kind] |-> all[field]]

-----------------------------------------------------------------------------
(* config.load *)

\* A user name goes with a password, and a password is kept in one place.
Credentials(t) == Cardinality(t.secrets) <= 1 /\ (t.user <=> t.secrets # {})

\* Mutant: any name that begins like a loopback name is one.
LoopbackByPrefix(host) == TRUE

\* is_loopback: cleartext to it never crosses a wire.
IsLoopback(host) == host \in Local

\* _mqtt_security
MqttSecurity(t, loopback) ==
    /\ t.tls # "bad" /\ t.waiver # "bad"
    /\ t.tls = "yes" \/ t.waiver = "yes" \/ loopback
    /\ "certificate" \in t.paths <=> "key" \in t.paths
    /\ Credentials(t)

\* _http_url and _http_security
HttpSecurity(t) ==
    /\ t.tls # "bad" /\ t.waiver # "bad"
    /\ t.tls = "yes" \/ t.waiver = "yes" \/ IsLoopback(t.host)
    /\ Cardinality(t.secrets) <= 1

\* Mutant: the server's certificate need not be pinned.
OpcUaSecurityUnpinned(t) ==
    /\ t.policy # "bad" /\ t.mode # "bad" /\ t.waiver # "bad"
    /\ (t.policy = "no") = (t.mode = "no")
    /\ IF t.mode = "no" THEN t.waiver = "yes" ELSE {"certificate", "key"} \subseteq t.paths
    /\ Credentials(t)

\* _opcua_security; policy and mode are both None, or neither.
OpcUaSecurity(t) ==
    /\ t.policy # "bad" /\ t.mode # "bad" /\ t.waiver # "bad"
    /\ (t.policy = "no") = (t.mode = "no")
    /\ IF t.mode = "no" THEN t.waiver = "yes" ELSE {"certificate", "key", "trust"} \subseteq t.paths
    /\ Credentials(t)

\* _parse_ming
MingLoads(kind, t) ==
    /\ t.name # "bad" /\ t.host # "bad"
    /\ kind = "http" => HttpSecurity(t)
    /\ kind = "mqtt" => /\ \A filter \in t.subscribe : ValidFilter(filter)
                        /\ t.publish \cap (Reserved \cup {"+"}) = {}
                        /\ MqttSecurity(t, IsLoopback(t.host))

\* _parse_weintek
HmiLoads(kind, t) ==
    /\ t.host # "bad" /\ t.port # "bad" /\ t.grants # {}
    /\ IF kind = "opcua" THEN OpcUaSecurity(t) ELSE MqttSecurity(t, FALSE)

\* _parse_weintek_modbus
ModbusLoads(t) ==
    /\ t.host # "bad" /\ t.port # "bad" /\ t.waiver = "yes" /\ t.unit = "ok"
    /\ t.read # {} /\ \A r \in t.read : ValidRange(r)

\* The sections [pi], [jetson], [serial] and [flash].
HostsLoad(t) ==
    /\ "bad" \notin t.pi \cup t.jetson /\ t.pi \cap t.jetson = {}
    /\ t.pins = "ok" /\ t.numbers = "ok" /\ t.flash # "bad"
    /\ t.flash = "yes" => t.roots

TableLoads(kind, t) ==
    CASE kind \in Ming                -> MingLoads(kind, t)
      [] kind \in {"opcua", "hmi_mqtt"} -> HmiLoads(kind, t)
      [] kind = "modbus"              -> ModbusLoads(t)
      [] kind = "hosts"               -> HostsLoad(t)

\* The port a table leaves out follows its transport.
Port(kind, t) ==
    IF t.port # "unset" THEN t.port
    ELSE CASE kind = "opcua"    -> "4840"
           [] kind = "modbus"   -> "502"
           [] kind = "hmi_mqtt" -> IF t.tls = "yes" THEN "8883" ELSE "1883"

\* What a tool names a target by.
Key(kind, t) == IF kind \in Ming THEN t.name ELSE <<t.host, Port(kind, t)>>

\* read_raw, load: the file is the user's own and private, its rules hold, and
\* no two targets of a section have the same key.  Without a file nothing is
\* allowed.
Loads(f) ==
    /\ f.status = "private" /\ f.allow # "bad"
    /\ \A i \in DOMAIN f.tables : TableLoads(f.kind, f.tables[i])
    /\ f.kind # "hosts" =>
         \A i, j \in DOMAIN f.tables :
           Key(f.kind, f.tables[i]) = Key(f.kind, f.tables[j]) => i = j

-----------------------------------------------------------------------------
(* policy.py *)

\* _require_secure_http, ming_mqtt
SecureMing(t) == t.tls = "yes" \/ t.waiver = "yes" \/ IsLoopback(t.host)

\* _require_secure_opcua
SecureOpcUa(t) ==
    IF t.mode = "no" THEN t.waiver = "yes" ELSE {"certificate", "key", "trust"} \subseteq t.paths

\* The second look at a target, at call time.
Secure(kind, t) ==
    CASE kind \in Ming       -> SecureMing(t)
      [] kind = "opcua"      -> SecureOpcUa(t)
      [] kind = "hmi_mqtt"   -> t.tls = "yes" \/ t.waiver = "yes"
      [] OTHER               -> TRUE

\* Mutant: a call that names no target gets the first.
PickFirst(c, key) ==
    {i \in DOMAIN c.tables : IF key = "none" THEN i = 1 ELSE Key(c.kind, c.tables[i]) = key}

\* _pick: a name, or none if there is one target only.
Pick(c, key) ==
    {i \in DOMAIN c.tables :
        IF key = "none" THEN Len(c.tables) = 1 ELSE Key(c.kind, c.tables[i]) = key}

\* check_weintek_opcua, check_weintek_mqtt, check_weintek_modbus: by address.
Listed(c, key) == {i \in DOMAIN c.tables : Key(c.kind, c.tables[i]) = key}

\* What the calls of a kind name a target by, and ask of it.  A call may name no
\* host; the one that identifies an HMI names no node.
Asks(kind) ==
    LET at(ports) == (Local \cup Far) \X ports IN
    CASE kind = "mqtt"     -> [key : Names \cup {"none"}, item : Filters]
                              \cup [key : Names \cup {"none"}, topic : Levels \cup {"+"}]
      [] kind = "http"     -> [key : Names \cup {"none"}, item : Items]
      [] kind = "opcua"    -> [key : at({"4840", "4841"}), item : Items \cup {"identity"}]
      [] kind = "hmi_mqtt" -> [key : at({"1883", "8883"}), item : Items]
      [] kind = "modbus"   -> [key : at({"502", "503"}), item : Ranges]
      [] kind = "hosts"    -> [on : {"pi", "jetson"}, key : Local \cup Far \cup {"none"}]

\* _resolve_host, _resolve_jetson_host: the host named, or the only one.
HostGiven(hosts, host) == IF host = "none" THEN Cardinality(hosts) = 1 ELSE host \in hosts

\* check_ming_subscribe, _publish, _bucket and _inject; covers; check_host
Grants(kind, t, ask) ==
    CASE kind = "mqtt"   -> IF "topic" \in DOMAIN ask THEN ask.topic \in t.publish
                            ELSE /\ ValidFilter(ask.item)
                                 /\ \E allowed \in t.subscribe : Covers(allowed, ask.item)
      [] kind = "modbus" -> \E allowed \in t.read : RangeCovers(allowed, ask.item)
      [] kind = "hosts"  -> HostGiven(t[ask.on], ask.key)
      [] OTHER           -> ask.item \in t.grants \cup {"identity"}

\* The section's own switch.
Enabled(c) == c.kind \in Ming \cup Weintek => c.allow = "yes"

\* The target a call is given: the first of those it may mean.
Candidates(c, ask) ==
    CASE c.kind \in Ming    -> Pick(c, ask.key)
      [] c.kind \in Weintek -> Listed(c, ask.key)
      [] c.kind = "hosts"   -> {1}

-----------------------------------------------------------------------------
ConfigInit ==
    /\ file \in {[status |-> "private", allow |-> "yes", kind |-> kind,
                  tables |-> <<Plain(kind)>>] : kind \in Kinds}
    /\ edits = 0
    /\ loaded = << >>
    /\ given = << >>

\* One value of one table is another.
Rewritten(f) ==
    UNION {UNION {{[f EXCEPT !.tables[i][field] = value] : value \in Fields[f.kind][field]} :
                      field \in DOMAIN Fields[f.kind]} : i \in DOMAIN f.tables}

\* One more table; there is only one of hosts.
Extended(f) ==
    IF Len(f.tables) < MaxTables /\ f.kind # "hosts"
    THEN {[f EXCEPT !.tables = Append(@, Plain(f.kind))]} ELSE {}

\* The user changes the file's mode, its switch or one value, or adds a table.
Changes(f) ==
    {[f EXCEPT !.status = s] : s \in {"private", "shared", "linked", "broken"}}
    \cup {[f EXCEPT !.allow = a] : a \in Flag} \cup Rewritten(f) \cup Extended(f)

Edit ==
    /\ loaded = << >> /\ edits < MaxEdits
    /\ file' \in Changes(file)
    /\ edits' = edits + 1
    /\ UNCHANGED <<loaded, given>>

\* A call reads the file; one that does not load ends the call.
Load ==
    /\ loaded = << >> /\ Loads(file)
    /\ loaded' = <<file>>
    /\ UNCHANGED <<file, edits, given>>

\* The policy gives it the target it names, or refuses.
Check ==
    /\ loaded # << >> /\ given = << >>
    /\ Enabled(loaded[1])
    /\ \E ask \in Asks(loaded[1].kind) :
         \E i \in Candidates(loaded[1], ask) :
           /\ \A j \in Candidates(loaded[1], ask) : i <= j
           /\ Secure(loaded[1].kind, loaded[1].tables[i])
           /\ Grants(loaded[1].kind, loaded[1].tables[i], ask)
           /\ given' = <<[target |-> loaded[1].tables[i], ask |-> ask]>>
    /\ UNCHANGED <<file, edits, loaded>>

\* The call returns.
Answer ==
    /\ loaded # << >>
    /\ loaded' = << >> /\ given' = << >>
    /\ UNCHANGED <<file, edits>>

ConfigNext == Edit \/ Load \/ Check \/ Answer

ConfigSpec == ConfigInit /\ [][ConfigNext]_configVars

-----------------------------------------------------------------------------
(* Properties *)

\* "config.load already refuses this": no target of a configuration that loads
\* is refused by the second look for its transport or credentials, and no host
\* is a Raspberry Pi and a Jetson, so that nothing that was accepted fails when
\* it is used.
SecondLookAgrees ==
    loaded # << >> =>
        \A i \in DOMAIN loaded[1].tables :
            LET t == loaded[1].tables[i] IN
            /\ Secure(loaded[1].kind, t)
            /\ loaded[1].kind = "hosts" => t.pi \cap t.jetson = {}

\* Nothing is reached in cleartext over a wire, or over a channel to a server
\* that is not pinned, unless the user waived it beside that very target, and
\* nothing of a section is reached that is not switched on.
CleartextIsWaived ==
    given # << >> =>
        LET t == given[1].target  kind == loaded[1].kind IN
        /\ kind \in Ming \cup Weintek => loaded[1].allow = "yes"
        /\ kind = "modbus" => t.waiver = "yes"
        /\ kind \in {"mqtt", "http"} => t.tls = "yes" \/ t.waiver = "yes" \/ t.host \in Local
        /\ kind = "hmi_mqtt" => t.tls = "yes" \/ t.waiver = "yes"
        /\ kind = "opcua" =>
             IF t.mode = "no" THEN t.waiver = "yes" ELSE {"certificate", "key", "trust"} \subseteq t.paths

\* A call is given the target it named, or the only one there is: never one of
\* several that it may have meant, and no Jetson for a Raspberry Pi.
NeverAGuess ==
    given # << >> =>
        LET c == loaded[1]  ask == given[1].ask  t == given[1].target IN
        /\ c.kind # "hosts" =>
             \A i \in DOMAIN c.tables :
               c.tables[i] # t =>
                 Key(c.kind, c.tables[i]) # ask.key /\ (c.kind \in Ming => ask.key # "none")
        /\ c.kind = "hosts" =>
             IF ask.key = "none" THEN Cardinality(t[ask.on]) = 1
             ELSE ask.key \notin t[IF ask.on = "pi" THEN "jetson" ELSE "pi"]

\* What a call may listen to, publish or read is never wider than what the user
\* allowed: every topic its filter matches is matched by an allowed filter, the
\* topic it publishes is one topic and no reserved one, and every address it
\* reads is of an allowed range, in the 16 bits of the protocol and not behind
\* the end of its area.
NeverWidened ==
    given # << >> =>
        LET t == given[1].target  kind == loaded[1].kind  ask == given[1].ask IN
        /\ kind = "mqtt" =>
             IF "topic" \in DOMAIN ask THEN ask.topic \in Levels \ Reserved
             ELSE \A topic \in Topics :
                    Matches(ask.item, topic) => \E allowed \in t.subscribe : Matches(allowed, topic)
        /\ kind = "modbus" =>
             /\ Addresses(ask.item) \subseteq UNION {Addresses(allowed) : allowed \in t.read}
             /\ \A address \in Addresses(ask.item) :
                  IF ask.item.area = "RW" THEN 9999 <= address[2] /\ address[2] <= 65535
                  ELSE address[2] \in 0..Size(ask.item.area) - 1
=============================================================================
