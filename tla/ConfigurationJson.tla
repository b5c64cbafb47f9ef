-------------------------- MODULE ConfigurationJson --------------------------
(***************************************************************************)
(* configuration::as_json: a configuration that was loaded is shown to a   *)
(* client of the statistics, who reads the answer back.                    *)
(***************************************************************************)
EXTENDS Configuration, JsonWriter, TLC

Text(s) == StrValue(s)

\* PLOG_MSG_TIME is read, and not shown.
FlagsText(flags) ==
    IF flags = PLOG_NONE THEN "PLOG_NONE"
    ELSE IF flags = PLOG_ALL THEN "PLOG_ALL"
    ELSE FoldLeft(LAMBDA text, f : IF f \in flags THEN text \o f \o " " ELSE text, "",
                  <<"PLOG_INFO", "PLOG_DEBUG", "PLOG_WARNING", "PLOG_ERROR", "PLOG_MSG_TYPES">>)

ServiceJson(si) ==
    ObjValue([k \in {"1 - app name", "2 - instance", "3 - description", "4 - hosts url"} |->
                Text(si[CASE k = "1 - app name" -> "app_name"
                          [] k = "2 - instance" -> "instance"
                          [] k = "3 - description" -> "description"
                          [] OTHER -> "hosts_url"])]
             @@ ("5 - control port" :> IntValue(si["control_port"])))

\* The services are numbered in the order of the map, in which the number
\* comes before the name.
ServicesJson ==
    LET names == MemberNames(ObjValue(services))
        member == [i \in DOMAIN names |-> ToString(i) \o " - " \o names[i]]
    IN IF services = <<>> THEN Null
       ELSE ObjValue([m \in {member[i] : i \in DOMAIN names} |->
                ServiceJson(services[names[CHOOSE i \in DOMAIN names : member[i] = m]])])

as_json == ObjValue(
    "1 - basic settings" :> ObjValue(
        "1 - config version" :> UIntValue(config.version)
     @@ "2 - message timeout" :> UIntValue(config.message_timeout % 2^IntBits)
     @@ "3 - socket poll timeout" :> UIntValue(config.socket_poll_timeout % 2^IntBits))
 @@ "2 - logger" :> ObjValue(
        "1 - type" :> Text(config.logger_type)
     @@ "2 - flags" :> Text(FlagsText(config.logger_flags))
     @@ "3 - file path" :> Text(config.logger_file_path)
     @@ "4 - syslog name" :> Text(config.logger_syslog_name))
 @@ "3 - message cache" :> ObjValue(
        "1 - max ram limit" :> Text(ToString(config.max_message_cache_size \div Megabyte) \o " Mb")
     @@ "2 - type" :> Text(config.message_cache_type))
 @@ "4 - persistant storage" :> ObjValue(
        "1 - eblob path" :> Text(config.eblob_path)
     @@ "2 - eblob log path" :> Text(config.eblob_log_path)
     @@ "3 - eblob log flags" :> UIntValue(config.eblob_log_flags)
     @@ "4 - eblob sync interval" :> IntValue(config.eblob_sync_interval))
 @@ "5 - autodiscovery" :> ObjValue(
        "1 - type" :> Text(config.autodiscovery_type)
     @@ "2 - multicast ip" :> Text(config.multicast_ip)
     @@ "3 - multicast port" :> IntValue(config.multicast_port))
 @@ "6 - statistics" :> ObjValue(
        "1 - is statistics enabled" :> BoolValue(config.is_statistics_enabled)
     @@ "2 - is remote statistics_enabled" :> BoolValue(config.is_remote_statistics_enabled)
     @@ "3 - remote statistics port" :> IntValue(config.remote_statistics_port))
 @@ "7 - services" :> ServicesJson)

\* A client of the statistics asks for the configuration and reads the answer.
Show ==
    /\ status = "loaded"
    /\ Parse(Written(as_json))
    /\ written' = {as_json}
    /\ status' = "showing"
    /\ UNCHANGED <<file, next, config, services>>

EndShow ==
    /\ status = "showing"
    /\ nodes = <<>>
    /\ status' = "shown"
    /\ UNCHANGED <<readerVars, file, written, next, config, services>>

ReadAnswer == status = "showing" /\ ReadOn

\* The only states without another step: the reader and load always go on to an end.
Done == status \in Ends /\ UNCHANGED vars

Next == LoadNext \/ Show \/ ReadAnswer \/ EndShow \/ Done

Spec == Init /\ [][Next]_vars

-----------------------------------------------------------------------------
(* Properties                                                              *)

\* What FastWriter writes of a value the reader reads back as the same value,
\* up to the kind of its numbers, whatever comments stand between its tokens:
\* they can make the reader fail, and never read another value
\* (reader.parse(...) in load and in the clients of as_json).
ReadsWhatIsWritten ==
    (nodes = <<>> /\ status \in {"parsing", "showing"}) =>
        \A v \in written :
            /\ parsed = "yes" => SameValue(v, root)
            /\ (\A i \in DOMAIN document : document[i] \notin {Comment, LineComment}) => parsed = "yes"
=============================================================================
