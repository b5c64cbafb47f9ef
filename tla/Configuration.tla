--------------------------- MODULE Configuration ---------------------------
(***************************************************************************)
(* configuration::load and what follows from it: the file is read, parsed  *)
(* (JsonReader) and its settings are taken over one by one; a setting that *)
(* cannot be converted throws, one that is asked of the wrong kind of      *)
(* value fails an assertion of jsoncpp.                                    *)
(*                                                                         *)
(* A file is a sequence of tokens with the ends of its lines.  Numbers     *)
(* keep their widths (IntBits and the two words, scaled down); 64 bit      *)
(* integers and size_t have the same width.                                *)
(***************************************************************************)
EXTENDS JsonReader

CONSTANTS
    Files,      \* records of the tokens of a file and the values it was written from
    PortWord,   \* the number of values of unsigned short
    SizeWord    \* the number of values of size_t

\* Files are sequences of tokens, whose strings and numbers are such or broken.
ASSUME FilesAssumption ==
    \A f \in Files :
        /\ f.tokens \in Seq(Range(f.tokens))
        /\ \A t \in Range(f.tokens) :
              /\ t.type = "string" => t.value = Null \/ t.value = StrValue(t.value.str)
              /\ t.type = "number" =>
                    t.value = Null \/ (Type(t.value) \in {"int", "real"} /\ Content(t.value) \in Int)

Megabyte == 1048576

\* The widths; every port the constructor sets fits.
ASSUME WidthsAssumption ==
    /\ PortWord \in Nat /\ SizeWord \in Nat
    /\ \E n \in 1 .. IntBits : PortWord = 2^n
    /\ \E n \in IntBits .. SizeWord : SizeWord = 2^n
    /\ PortWord > 5556 /\ SizeWord > Megabyte

VARIABLES
    file,       \* the file at the path, a set: empty when there is none to open
    written,    \* the value that was written to the document, a set
    status,     \* where load is, or how it ended
    next,       \* the next setting or service
    config,     \* the fields of configuration
    services    \* services_list_

loadVars == <<file, written, status, next, config, services>>
vars == <<readerVars, loadVars>>

Loading == {"opening", "parsing", "settings", "services", "loaded", "showing"}
Ends == {"shown", "thrown", "aborted"}

LoggerTypes == {"STDOUT_LOGGER", "FILE_LOGGER", "SYSLOG_LOGGER"}
Flags == {"PLOG_INFO", "PLOG_DEBUG", "PLOG_WARNING", "PLOG_ERROR", "PLOG_MSG_TYPES", "PLOG_MSG_TIME"}
PLOG_NONE == {}
PLOG_ALL == {"PLOG_MSG_TIME", "PLOG_INFO", "PLOG_DEBUG", "PLOG_WARNING", "PLOG_ERROR"}

Ports == 0 .. PortWord - 1

\* What the texts of the settings are when there is nothing to say.
NoText == ""

\* The fields the constructor sets; message_cache_type_ is not among them.
Defaults ==
    [version |-> 0, message_timeout |-> 10, socket_poll_timeout |-> 2000,
     logger_type |-> "STDOUT_LOGGER", logger_flags |-> PLOG_NONE,
     logger_file_path |-> NoText, logger_syslog_name |-> NoText,
     max_message_cache_size |-> 512, message_cache_type |-> "uninitialized",
     eblob_path |-> "/tmp/pmq_eblob", eblob_log_path |-> "/var/log/pmq_eblob.log",
     eblob_log_flags |-> 0, eblob_sync_interval |-> 1,
     autodiscovery_type |-> "HTTP", multicast_ip |-> "226.1.1.1", multicast_port |-> 5556,
     is_statistics_enabled |-> FALSE, is_remote_statistics_enabled |-> FALSE,
     remote_statistics_port |-> 3333]

Init ==
    /\ ReaderInit
    /\ file \in {{f} : f \in Files} \cup {{}}
    /\ written = {}
    /\ status = "opening"
    /\ next = 1
    /\ config = Defaults
    /\ services = <<>>

-----------------------------------------------------------------------------
(* Opening and parsing                                                     *)

Throw ==
    /\ status' = "thrown"
    /\ UNCHANGED <<readerVars, file, written, next, config, services>>

Abort ==
    /\ status' = "aborted"
    /\ UNCHANGED <<readerVars, file, written, next, config, services>>

OpenNothing == status = "opening" /\ file = {} /\ Throw

\* getline drops the ends of the lines and load does not put them back: a line
\* comment goes on to the end of the file.
Joined(tokens) ==
    LET config_data[n \in 0 .. Len(tokens)] ==
            IF n = 0 THEN <<>>
            ELSE IF tokens[n] = EndOfLine THEN config_data[n - 1]
            ELSE Append(config_data[n - 1], tokens[n])
    IN config_data[Len(tokens)]

Open ==
    /\ status = "opening"
    /\ \E f \in file : Parse(Joined(f.tokens)) /\ written' = f.values
    /\ status' = "parsing"
    /\ UNCHANGED <<file, next, config, services>>

ReadOn == ReaderStep /\ UNCHANGED loadVars

ReadDocument == status = "parsing" /\ ReadOn

NotParsed == status = "parsing" /\ nodes = <<>> /\ parsed = "no" /\ Throw

\* root["lsd_config"] of what is neither an object nor null
NoRoot == status = "parsing" /\ nodes = <<>> /\ parsed = "yes" /\ ~HasMembers(root) /\ Abort

Parsed ==
    /\ status = "parsing"
    /\ nodes = <<>> /\ parsed = "yes" /\ HasMembers(root)
    /\ status' = "settings"
    /\ UNCHANGED <<readerVars, file, written, next, config, services>>

config_value == Member(root, "lsd_config")

-----------------------------------------------------------------------------
(* The settings, in the order the code reads them                          *)

Setting(section, key, kind, default, field) ==
    [section |-> section, key |-> key, kind |-> kind, default |-> default, field |-> field]

Settings == <<
    Setting("lsd_config", "config_version", "uint", IntValue(0), "version"),
    Setting("lsd_config", "message_timeout", "int", IntValue(10), "message_timeout"),
    Setting("lsd_config", "socket_poll_timeout", "int", IntValue(2000), "socket_poll_timeout"),
    Setting("logger", "type", "text", StrValue("STDOUT_LOGGER"), "logger_type"),
    Setting("logger", "flags", "text", StrValue("PLOG_NONE"), "logger_flags"),
    Setting("logger", "file", "text", StrValue(NoText), "logger_file_path"),
    Setting("logger", "syslog_name", "text", StrValue(NoText), "logger_syslog_name"),
    Setting("message_cache", "max_ram_limit", "int", IntValue(512), "max_message_cache_size"),
    Setting("message_cache", "type", "text", StrValue("RAM_ONLY"), "message_cache_type"),
    Setting("persistent_storage", "eblob_path", "text", StrValue(NoText), "eblob_path"),
    Setting("persistent_storage", "eblob_log_path", "text", StrValue(NoText), "eblob_log_path"),
    Setting("persistent_storage", "eblob_log_flags", "uint", IntValue(0), "eblob_log_flags"),
    Setting("persistent_storage", "eblob_sync_interval", "int", IntValue(1), "eblob_sync_interval"),
    Setting("autodiscovery", "type", "text", StrValue("HTTP"), "autodiscovery_type"),
    Setting("autodiscovery", "multicast_ip", "text", StrValue("226.1.1.1"), "multicast_ip"),
    Setting("autodiscovery", "multicast_port", "uint", IntValue(5556), "multicast_port"),
    Setting("statistics", "enabled", "bool", BoolValue(FALSE), "is_statistics_enabled"),
    Setting("statistics", "remote_access", "bool", BoolValue(FALSE), "is_remote_statistics_enabled"),
    Setting("statistics", "remote_port", "uint", IntValue(3333), "remote_statistics_port") >>

Convertible(kind, v) == CASE kind = "text" -> IsText(v)
                          [] kind = "int" -> IsInt(v)
                          [] kind = "uint" -> IsUInt(v)
                          [] OTHER -> TRUE

As(kind, v) == CASE kind = "text" -> asString(v)
                 [] kind = "bool" -> asBool(v)
                 [] OTHER -> asNumber(v)

\* The names between the bars of a flags text; unknown names are skipped.
Named(text) ==
    CASE text = "PLOG_INFO | PLOG_MSG_TIME" -> {"PLOG_INFO", "PLOG_MSG_TIME"}
      [] text = "PLOG_ALL" -> PLOG_ALL
      [] OTHER -> {text} \cap Flags

ShortFields == {"multicast_port", "remote_statistics_port"}
LongFields == {"message_timeout", "socket_poll_timeout"}

\* A bug that could be made in the next one: the port of the statistics is kept
\* as wide as it is read.
StoredWide(field, x) ==
    CASE field = "multicast_port" -> x % PortWord
      [] field \in LongFields -> x % SizeWord
      [] field = "max_message_cache_size" -> (x % (SizeWord \div Megabyte)) * Megabyte
      [] field = "logger_flags" -> config.logger_flags \cup Named(x)
      [] field = "logger_type" /\ x \notin LoggerTypes -> config.logger_type
      [] field = "autodiscovery_type" /\ x \notin {"HTTP", "MULTICAST"} -> config.autodiscovery_type
      [] OTHER -> x

\* What a setting makes of its field: narrowed, widened, or a known name only.
Stored(field, x) ==
    CASE field \in ShortFields -> x % PortWord
      [] field \in LongFields -> x % SizeWord
      [] field = "max_message_cache_size" -> (x % (SizeWord \div Megabyte)) * Megabyte
      [] field = "logger_flags" -> config.logger_flags \cup Named(x)
      [] field = "logger_type" /\ x \notin LoggerTypes -> config.logger_type
      [] field = "autodiscovery_type" /\ x \notin {"HTTP", "MULTICAST"} -> config.autodiscovery_type
      [] OTHER -> x

UnknownCacheType(field, x) == field = "message_cache_type" /\ x \notin {"RAM_ONLY", "PERSISTANT"}

\* One setting of one of the parse_*_settings.
ReadSetting ==
    LET s == Settings[next]
        section == IF s.section = "lsd_config" THEN config_value ELSE Member(config_value, s.section)
        value == get(section, s.key, s.default)
    IN
    /\ status = "settings"
    /\ next <= Len(Settings)
    /\ \/ ~(HasMembers(config_value) /\ HasMembers(section)) /\ Abort
       \/ /\ HasMembers(config_value) /\ HasMembers(section)
          /\ \/ ~Convertible(s.kind, value) /\ Throw
             \/ /\ Convertible(s.kind, value)
                /\ UnknownCacheType(s.field, As(s.kind, value))
                /\ Throw
             \/ /\ Convertible(s.kind, value)
                /\ ~UnknownCacheType(s.field, As(s.kind, value))
                /\ config' = [config EXCEPT ![s.field] = Stored(s.field, As(s.kind, value))]
                /\ next' = next + 1
                /\ UNCHANGED <<readerVars, file, written, status, services>>

EndSettings ==
    /\ status = "settings"
    /\ next > Len(Settings)
    /\ status' = "services"
    /\ next' = 1
    /\ UNCHANGED <<readerVars, file, written, config, services>>

-----------------------------------------------------------------------------
(* parse_services_settings                                                 *)

services_value == Member(config_value, "services")

TextKeys == {"description", "name", "app_name", "instance", "hosts_url"}

control_port(v) == get(v, "control_port", IntValue(5555))

\* What is asked of service_value can be converted.
ServiceConvertible(v) ==
    /\ \A k \in TextKeys : IsText(get(v, k, StrValue("")))
    /\ IsUInt(control_port(v))

\* The service_info made of service_value.
ServiceInfo(v) ==
    [k \in TextKeys \cup {"control_port"} |->
        IF k = "control_port" THEN asNumber(control_port(v)) % PortWord
        ELSE asString(get(v, k, StrValue("")))]

Invalid(si) ==
    \/ \E k \in TextKeys \ {"description"} : si[k] = ""
    \/ si["control_port"] = 0

\* A bug that could be made in the next one: only a service that is equal in
\* everything is found.
DuplicateInAll(si) == \E name \in DOMAIN services : services[name] = si

\* Services are found by name; operator== compares the name too, so that the
\* second check never finds what the first has not.
Duplicate(si) == \E name \in DOMAIN services : services[name]["name"] = si["name"]

ReadService ==
    LET v == Element(services_value, next)
        si == ServiceInfo(v)
    IN
    /\ status = "services"
    /\ next <= Size(services_value)
    /\ \/ ~(HasElements(services_value) /\ HasMembers(v)) /\ Abort
       \/ /\ HasElements(services_value) /\ HasMembers(v)
          /\ \/ ~ServiceConvertible(v) /\ Throw
             \/ /\ ServiceConvertible(v)
                /\ Invalid(si) \/ Duplicate(si)
                /\ Throw
             \/ /\ ServiceConvertible(v)
                /\ ~Invalid(si) /\ ~Duplicate(si)
                /\ services' = [name \in DOMAIN services \cup {si["name"]} |->
                                   IF name = si["name"] THEN si ELSE services[name]]
                /\ next' = next + 1
                /\ UNCHANGED <<readerVars, file, written, status, config>>

EndServices ==
    /\ status = "services"
    /\ next > Size(services_value)
    /\ status' = "loaded"
    /\ UNCHANGED <<readerVars, file, written, next, config, services>>

LoadNext ==
    \/ OpenNothing \/ Open \/ ReadDocument \/ NotParsed \/ NoRoot \/ Parsed
    \/ ReadSetting \/ EndSettings \/ ReadService \/ EndServices

LoadSpec == Init /\ [][LoadNext]_vars

-----------------------------------------------------------------------------
(* Properties                                                              *)

LoadingTypeOK ==
    /\ ReaderTypeOK
    /\ status \in Loading \cup Ends
    /\ DOMAIN config = DOMAIN Defaults
    /\ config.logger_flags \subseteq Flags
    /\ config.message_timeout \in Nat /\ config.socket_poll_timeout \in Nat
    /\ config.multicast_port \in Ports /\ config.remote_statistics_port \in Ports
    /\ status \in {"services", "loaded", "showing", "shown"} =>
           config.message_cache_type \in {"RAM_ONLY", "PERSISTANT"}
    /\ \A name \in DOMAIN services : services[name]["control_port"] \in Ports \ {0}

\* A load that succeeds has every service of the file, each once, under its
\* name and usable: no entry has silently replaced another or been dropped
\* (parse_services_settings).
EveryServiceLoaded ==
    status = "loaded" =>
        /\ Cardinality(DOMAIN services) = Size(services_value)
        /\ \A i \in 1 .. Size(services_value) :
              \E name \in DOMAIN services :
                 /\ services[name] = ServiceInfo(Element(services_value, i))
                 /\ asString(Member(Element(services_value, i), "name")) = name
        /\ \A name \in DOMAIN services :
              /\ services[name]["control_port"] # 0
              /\ \A k \in TextKeys \ {"description"} : services[name][k] # ""
=============================================================================
