------------------------------ MODULE MCSettings ------------------------------
(* Settings files near the sample of src/etc/dev.settings.json: at most one   *)
(* section differs from it, and in that section at most two settings do (one  *)
(* in each of two loggers).                                                   *)
EXTENDS Settings

Console == [name |-> "a", level |-> "info", output |-> "console",
            output_path |-> Absent, pattern |-> "p", max_size |-> Absent,
            max_files |-> Absent, restart_time |-> Absent]
Rotating == [Console EXCEPT !.output = "rotating-file", !.output_path = "log",
                            !.max_size = 1, !.max_files = 1]
Daily == [Console EXCEPT !.name = "b", !.output = "daily-file",
                         !.output_path = "log", !.restart_time = "00:00"]

\* A section in which setting f has one of the values vs, among them the ones
\* no field of its type accepts.
Varied(s, f, vs) == {[s EXCEPT ![f] = v] : v \in vs \cup {Absent, Malformed}}

Loggers(l) ==
  Varied(l, "name", {"b"}) \cup Varied(l, "level", {"critical", "loud"})
    \cup Varied(l, "output", {"console", "syslog"})
    \cup Varied(l, "output_path", {}) \cup Varied(l, "pattern", {})
    \cup Varied(l, "max_size", {-1, 0}) \cup Varied(l, "max_files", {-1, 0, 200000, 200001})
    \cup Varied(l, "restart_time", {})

AllLoggers == UNION {Loggers(l) \cup {l} : l \in {Console, Rotating, Daily}}

Identity == [node_id |-> "n", operator_id |-> "o", type |-> "ed25519",
             public_key_path |-> "pub", private_key_path |-> "key",
             use_tls |-> FALSE, ca_path |-> "id_ca", cert_path |-> "id_cert",
             key_path |-> "id_key"]
Database == [engine |-> "mysql", host |-> "h", port |-> 3306, database |-> "d",
             username |-> "u", password |-> "p", use_tls |-> TRUE,
             ca_path |-> "db_ca", cert_path |-> "db_cert", key_path |-> "db_key"]
Grpc == [address |-> "0.0.0.0", port |-> 50051, max_thread_count |-> Absent,
         use_tls |-> TRUE, cert_path |-> "grpc_cert", key_path |-> "grpc_key"]

Sections(s, vs) == UNION {Varied(s, f, IF f \in DOMAIN vs THEN vs[f] ELSE {}) :
                            f \in DOMAIN s}

Identities ==
  LET values == [type |-> {"rsa", "dsa"}]
  IN Sections(Identity, values)
       \cup Sections([Identity EXCEPT !.use_tls = TRUE], values)

Databases ==
  LET values == [engine |-> {"sqlite3", "postgresql", "oracle"}, port |-> {-1, 0},
                host |-> {"a b"}, password |-> {"a b", "a'b"}, ca_path |-> {"a b"}]
  IN Sections(Database, values)
       \cup Sections([Database EXCEPT !.use_tls = FALSE], values)

Grpcs ==
  LET values == [max_thread_count |-> {-1, 10}]
  IN Sections(Grpc, values) \cup Sections([Grpc EXCEPT !.use_tls = FALSE], values)

\* The mysql backend takes the string as it is, sqlite3 passes over what it does
\* not know, and libpq knows neither db nor sslca nor ssl_mode.
MCKnownOptions ==
  LET libpq == {"host", "port", "user", "password", "sslcert", "sslkey"}
      all == libpq \cup {"db", "sslca", "ssl_mode"}
  IN [mysql |-> all, postgresql |-> libpq, sqlite3 |-> all]

Sample == [logging |-> <<Console, Daily>>, identity |-> Identity,
           database |-> Database, grpc |-> Grpc]

MCConfigurations ==
  {[Sample EXCEPT !.logging = l] :
     l \in {<<>>} \cup {<<k>> : k \in AllLoggers} \cup (AllLoggers \X {Daily, Rotating})}
  \cup {[Sample EXCEPT !.identity = s] : s \in Identities}
  \cup {[Sample EXCEPT !.database = s] : s \in Databases}
  \cup {[Sample EXCEPT !.grpc = s] : s \in Grpcs}

MCUnusableFiles ==
  {{}} \cup {{p} : p \in {"log", "id_ca", "id_cert", "id_key", "db_ca", "db_cert",
                          "db_key", "grpc_cert", "grpc_key"}}
=============================================================================
