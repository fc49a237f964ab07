------------------------------- MODULE Tools -------------------------------
(***************************************************************************)
(* The tools of the MCP server (server.py) as data: each is the sequence   *)
(* of the stages its function goes through, in the order of the code.      *)
(* ToolCalls says what a stage does.  The stages are                       *)
(*                                                                         *)
(*   confirm  the call says confirm=true            (_require_confirm)     *)
(*   config   config.toml is read                            (_config)     *)
(*   args     an argument has a legal value                                *)
(*   target   the configuration read last allows the target     (policy)   *)
(*   session  the call's session is open                (sessions.get)     *)
(*   bridge   no bridge reads its port             (_require_unbridged)    *)
(*   board    the board is attached and is what the tool needs             *)
(*   port     the port is one a user may open   (resolve_port, readable)   *)
(*   charge   the rolling budget of the target                             *)
(*   record   the audit record before the operation    (audit.require)     *)
(*   value    the operation itself judges what it was given, by its own    *)
(*            rules or by what the service answered                        *)
(*   look     a credential, a file or an answer is examined                *)
(*   ask      a question to the device or service                          *)
(*   probe    a question whose failure is part of the result               *)
(*   act      a command that changes what the device or service does       *)
(*   outcome  the audit record after the operation     (_note_outcome)     *)
(*                                                                         *)
(* upload_sketch, firmware_restore and the bridge tools, which have state  *)
(* of their own, are in FlashBoard, BridgeRegistry and BridgeLoop.         *)
(***************************************************************************)
EXTENDS Sequences

\* The checks, made before anything is spent, written or touched.
Checks == {"confirm", "config", "args", "target", "session", "bridge", "board", "port"}

Stages == Checks \cup {"charge", "record", "value", "look", "ask", "probe", "act", "outcome"}

\* _audited: nothing moves unless it is written, and the outcome is noted.
Audited(operation) == <<"record">> \o operation \o <<"outcome">>

-----------------------------------------------------------------------------
(* Boards and serial sessions *)

AuditStatus      == <<"look">>
HardwareReport   == <<"config", "look">>
ConnectedBoard   == <<"board">>
DescribeBoard    == ConnectedBoard \o <<"look">>
BoardProfile     == <<"args">> \o ConnectedBoard \o <<"look">>
BoardHistory     == ConnectedBoard \o <<"look">>
PartsInventory   == <<"args", "look">>
DecodeCrash      == ConnectedBoard \o <<"args", "look", "look", "look">>

\* A session is opened, read for three seconds and closed.
FingerprintBoard == ConnectedBoard \o <<"port", "bridge", "session", "ask", "look">>

SerialOpen       == <<"args", "port", "board", "config", "ask">>
SerialStatus     == <<"session">>
SerialRead       == <<"session", "bridge", "ask">>
SerialExpect     == <<"args", "session", "bridge", "ask">>
SerialClear      == <<"session", "bridge", "ask">>
SerialClose      == <<"session", "ask">>

SerialWrite ==
    <<"confirm", "config", "session", "bridge", "board", "args", "charge">>
    \o Audited(<<"act">>)

SerialQuery ==
    <<"confirm", "config", "session", "bridge", "board", "args", "charge">>
    \o Audited(<<"act", "ask">>)

\* Ctrl-C and Ctrl-A, then the banner of the raw REPL.
EnterRaw == <<"act", "ask">>

\* run: the code goes out, and what it prints comes back.
RunCode == EnterRaw \o <<"act", "ask">>

\* Code of the caller's own is refused here, inside the operation, if it has a
\* control character; the programs of the server's own have none.
RunCallersCode == <<"value">> \o RunCode

\* _micropython: everything between the tool's own checks and its result.
Micropython(code) == <<"config", "session", "board", "bridge", "charge">> \o Audited(code)

MpyExec == <<"confirm", "config", "args">> \o Micropython(RunCallersCode)
MpyList == <<"args">> \o Micropython(RunCode) \o <<"look">>

\* A file of two chunks: each is a program that prints the new size.
PutPrograms == RunCode \o <<"look">> \o RunCode \o <<"look">>

MpyPut ==
    <<"confirm", "config", "session", "board", "bridge", "args", "charge">>
    \o Audited(PutPrograms)

CompileSketch == <<"config", "target", "board", "args", "look">>

-----------------------------------------------------------------------------
(* Raspberry Pi and Jetson hosts, over ssh *)

\* gpio_ssh._run: the host is looked for in the allowlist before every command.
Ssh(stage) == <<"target", stage>>

\* The command words of a host are asked for once; a Jetson is refused.
ProbeTools    == Ssh("ask")
DetectBackend == <<"target">> \o ProbeTools

ReadPin  == DetectBackend \o Ssh("ask") \o <<"look">>
SetMode  == DetectBackend \o Ssh("act") \o ReadPin
WritePin == DetectBackend \o ReadPin \o Ssh("act") \o ReadPin

PiState     == Ssh("ask") \o DetectBackend
PiReport    == <<"target">> \o Ssh("ask") \o DetectBackend \o Ssh("ask")
JetsonState  == Ssh("ask") \o <<"look">>
JetsonReport == Ssh("ask") \o <<"look">> \o Ssh("ask")

PiDiscover      == <<"config", "look">>
PiStatus        == <<"config", "target">> \o PiState
PiInventory     == <<"config", "target">> \o PiReport
JetsonStatus    == <<"config", "target">> \o JetsonState
JetsonInventory == <<"config", "target">> \o JetsonReport
GpioListPins    == <<"config", "target">> \o DetectBackend \o Ssh("ask")
GpioReadPin     == <<"config", "target", "target">> \o ReadPin

\* Mutant: the mode is looked at only after the charge.
GpioSetModeLateCheck ==
    <<"confirm", "config", "target", "target", "charge", "args">> \o Audited(SetMode)

GpioSetMode ==
    <<"confirm", "config", "target", "target", "args", "charge">> \o Audited(SetMode)

\* Mutant: the pin is driven, and then the record is written.
GpioWritePinRecordedAfter ==
    <<"confirm", "config", "target", "target", "args", "charge">>
    \o WritePin \o <<"record", "outcome">>

GpioWritePin ==
    <<"confirm", "config", "target", "target", "args", "charge">> \o Audited(WritePin)

-----------------------------------------------------------------------------
(* MQTT and HTTP clients *)

\* A credential named by the configuration: an environment variable or a file.
Secret == <<"look">>

\* CONNECT and CONNACK, over TLS if the target says so.
MqttConnect == <<"ask">>

\* The packet, and at QoS 1 the wait for its acknowledgement.
PublishPacket(qos) == <<"act">> \o IF qos = 1 THEN <<"ask">> ELSE << >>

\* SUBSCRIBE and its SUBACK, then what arrives.
Listen == <<"ask">>

\* One request; what it may change, it changes even when the answer is lost.
Http(stage) == Secret \o <<stage>>

-----------------------------------------------------------------------------
(* The Weintek HMI: OPC UA, MQTT and Modbus *)

OpcUaSession  == Secret \o <<"ask">>
OpcUaIdentify == OpcUaSession \o <<"look">>
OpcUaRead     == OpcUaSession \o <<"ask">>

\* The node is read first: one that is no scalar, a text that is no value of
\* its type or one out of its range is refused here, inside the operation.
OpcUaWrite == OpcUaRead \o <<"value", "act", "ask">>

HmiPublish(qos) == Secret \o MqttConnect \o PublishPacket(qos)
HmiListen       == Secret \o MqttConnect \o Listen
ModbusRead      == <<"ask", "look">>

WeintekHmiIdentify   == <<"config", "target">> \o OpcUaIdentify
WeintekOpcUaRead     == <<"config", "target">> \o OpcUaRead
WeintekMqttSubscribe == <<"config", "target", "args">> \o HmiListen
WeintekModbusRead    == <<"args", "config", "target">> \o ModbusRead

WeintekOpcUaWrite ==
    <<"confirm", "config", "target", "args", "charge">> \o Audited(OpcUaWrite)

WeintekMqttPublish(qos) ==
    <<"confirm", "config", "target", "args", "charge">> \o Audited(HmiPublish(qos))

-----------------------------------------------------------------------------
(* The MING services *)

BrokerPublish(qos) == Secret \o MqttConnect \o PublishPacket(qos)
BrokerListen       == Secret \o MqttConnect \o Listen

\* A query built from typed parameters; the CSV of the answer is parsed.
FluxQuery == <<"args">>
FluxSchema == <<"args">>
Flux == Http("ask") \o <<"look">>

\* One point, one line: a legal measurement, tags, fields and time.
InfluxLine     == <<"args">>
InfluxPoint    == Http("act")
FlowSummary    == Http("ask") \o <<"look">>
InjectNode     == Http("act")
Dashboards     == Http("ask") \o <<"look">>
AnnotationBody == <<"args">>
Annotation     == Http("act") \o <<"look">>

\* Every service of the configuration is probed beside the others.
MingStatus        == <<"config", "args", "probe", "probe">>
MqttSubscribe     == <<"config", "target", "args", "target", "args">> \o BrokerListen
InfluxSchema      == <<"config", "target", "target">> \o FluxSchema \o Flux
InfluxQuery       == <<"config", "target", "target", "args">> \o FluxQuery \o Flux
NodeRedFlows      == <<"config", "target">> \o FlowSummary
GrafanaDashboards == <<"config", "target", "args">> \o Dashboards

MqttPublish(qos) ==
    <<"confirm", "config", "target", "target", "args", "charge">> \o Audited(BrokerPublish(qos))

InfluxWrite ==
    <<"confirm", "config", "target", "target">> \o InfluxLine
    \o <<"args", "charge">> \o Audited(InfluxPoint)

NodeRedInject ==
    <<"confirm", "config", "target", "target", "charge">> \o Audited(InjectNode)

GrafanaAnnotate ==
    <<"confirm", "config", "target">> \o AnnotationBody \o <<"charge">> \o Audited(Annotation)

-----------------------------------------------------------------------------
Reads ==
    {AuditStatus, HardwareReport, DescribeBoard, BoardProfile, BoardHistory, PartsInventory,
     DecodeCrash, FingerprintBoard, SerialOpen, SerialStatus, SerialRead, SerialExpect,
     SerialClear, SerialClose, CompileSketch,
     PiDiscover, PiStatus, PiInventory, JetsonStatus, JetsonInventory, GpioListPins, GpioReadPin,
     WeintekHmiIdentify, WeintekOpcUaRead, WeintekMqttSubscribe, WeintekModbusRead,
     MingStatus, MqttSubscribe, InfluxSchema, InfluxQuery, NodeRedFlows, GrafanaDashboards}

Changes ==
    {SerialWrite, SerialQuery, MpyExec, MpyList, MpyPut, GpioSetMode, GpioWritePin,
     WeintekOpcUaWrite, WeintekMqttPublish(0), WeintekMqttPublish(1),
     MqttPublish(0), MqttPublish(1), InfluxWrite, NodeRedInject, GrafanaAnnotate}

Tools == Reads \cup Changes

\* The tools whose operation has the last word on what the caller asked for.
Judges == {MpyExec, WeintekOpcUaWrite}
=============================================================================
