--------------------------- MODULE MCProvisioning ---------------------------
EXTENDS Provisioning, TLC

W(w) == <<"word", w>>
N(n) == <<"int", n>>

MCSchemas == (W("s.json") :>
    [svc |-> [required |-> {"mode"},
              keys |-> [mode  |-> [type |-> "str", pattern |-> "modes"],
                        level |-> [type |-> "int", min |-> 1, max |-> 9,
                                   default |-> N(3)],
                        gain  |-> [type |-> "float", max |-> 2]]]])
MCPatterns == [modes |-> {W("slow"), W("fast")}]
MCLowerCase == [Level |-> "level"]
Pct == <<"pct", "device">>
Ref == <<"ref", "asctime">>
Esc(t) == <<"esc", t>>
Pad(t) == <<"pad", t>>
\* The format with its percent signs doubled, and the empty one, which
\* stands for the default; a log that opens with and without a suffix.
MCFormats == {Ref, W("")}
MCLogFiles == {<<W("log"), W("")>>, <<W("log"), W("configfile")>>}

On == [httpconfprov |-> W("prov")]
Prov == [url |-> W("http"), timeout_s |-> N(10)]
Bus == [schema_file |-> W("s.json"), heartbeat_interval_s |-> N(5)]
Svc == [mode |-> W("slow"), level |-> N(3)]

\* Bootstrap files: the least that provisions, the documented url, a file
\* that no service accepts, and one that leaves a default to be filled in.
Boot == [DEFAULT |-> <<>>, middleware |-> On, prov |-> Prov]
BootDoc == [Boot EXCEPT !.prov.url = Pct]
BootBad == [Boot EXCEPT !.DEFAULT = [loglevel |-> W("loud")]]
BootSvc == [DEFAULT |-> [logfile |-> W("log")], middleware |-> On,
            prov |-> Prov, dbus |-> Bus,
            svc |-> [mode |-> W("fast"), gain |-> <<"half", 1>>]]
MCFiles == {Boot, BootDoc, BootBad, BootSvc}

Full == [middleware |-> On, prov |-> Prov, dbus |-> Bus, svc |-> Svc]
\* Sound documents, and documents that do not read back as they are.
Fast == [Full EXCEPT !.svc = [mode |-> W("fast"), level |-> N(9)]]
Number == [Full EXCEPT !.svc = [mode |-> W("slow"), Level |-> <<"json", 3>>]]
Doubled == [Full EXCEPT !.svc = [mode |-> W("slow"), level |-> N(3),
                                 Level |-> N(3)]]
Padded == [Full EXCEPT !.svc.mode = Pad(W("slow"))]
Template == [Full EXCEPT !.prov.url = Esc(Pct), !.svc = [mode |-> W("slow")]]
Single == [Full EXCEPT !.prov.url = Pct]
Reference == [Full EXCEPT !.prov.url = Ref]
Invalid == [Full EXCEPT !.svc.level = N(12)]
WithDefault == [DEFAULT |-> [loglevel |-> W("INFO")], middleware |-> On,
                prov |-> Prov, dbus |-> Bus, svc |-> Svc]
MCDocs == {Full, Fast, Number, Doubled, Padded, Template, Single, Reference,
           Invalid, WithDefault}

\* One that no service accepts, and one that it does.
MCEdits == {<<"svc", "level", Pad(N(0))>>, <<"svc", "mode", Pad(W("fast"))>>}

Half(n) == <<"half", n>>
At(s, k, values) == {<<s, k, v>> : v \in values}
MCProbes ==
    At("dbus", "heartbeat_interval_s", {N(4), N(5), N(3600), N(3601), Half(9)})
    \cup At("dbus", "drain_timeout_ms", {N(-1), N(0), Pct})
    \cup At("dbus", "bus_type", {W("session"), W("bus")})
    \cup At("dbus", "contract_health", {N(1), N(2), W("on")})
    \cup At("dbus", "validate_user_schema", {W("no"), W("maybe")})
    \cup At("dbus", "schema_file", {W(""), W("lost.json")})
    \cup At("DEFAULT", "logmaxsize", {N(0), N(1)})
    \cup At("DEFAULT", "logmaxcount", {N(-1), N(0)})
    \cup At("DEFAULT", "loglevel", {W("warn"), Pct})
    \cup At("DEFAULT", "logformat", {W(""), W("plain"), Ref, Esc(Ref), Esc(Pct)})
    \cup At("DEFAULT", "logdate", {W("today"), Pct, Esc(Pct)})
    \cup At("DEFAULT", "logfile", {W(""), W("log"), W("directory"), Pct})
    \cup At("DEFAULT", "logfilesuffix", {W("configfile"), Pct})
    \cup At("rt", "nice", {N(5), Pct})
    \cup At("svc", "level", {N(0), N(1), N(9), N(10), Half(3), W("x"), Pct})
    \cup At("svc", "gain", {N(2), Half(1), Half(2), N(3), NaN, W("x")})
    \cup At("svc", "mode", {W("fast"), W("off")})
=============================================================================
