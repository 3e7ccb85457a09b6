------------------------------- MODULE Config -------------------------------
(***************************************************************************)
(* backend/internal/config/config.go: what Load makes of an environment.   *)
(* A variable's text is reduced to what the loader tells apart:            *)
(*   "unset"  not set, or only white space                                 *)
(*   "good"   a value of the right form (of a *_FILE: a secret in a file)  *)
(*   "bad"    of the wrong form, not positive, or a file that is not there *)
(*   "blank"  of a *_FILE: a file that holds line ends only                *)
(*   "path"   of the public endpoint: an absolute URL with a path          *)
(***************************************************************************)

\* The variables by how they are read.
Optional == {"HTTP_ADDR", "CORS_ALLOWED_ORIGIN", "DB_SSLMODE", "S3_REGION", "N8N_WEBHOOK_URL"}
Required == {"DB_HOST", "DB_NAME", "DB_USER", "S3_ENDPOINT", "S3_BUCKET"}
Url == "S3_PUBLIC_ENDPOINT"
Parsed == {"SHUTDOWN_TIMEOUT", "S3_URL_EXPIRY", "DB_PORT", "S3_MAX_UPLOAD_BYTES", "S3_USE_SSL"}

File == [DB_PASSWORD   |-> "DB_PASSWORD_FILE",
         S3_ACCESS_KEY |-> "S3_ACCESS_KEY_FILE",
         S3_SECRET_KEY |-> "S3_SECRET_KEY_FILE"]
Secret == DOMAIN File
Files == {File[k] : k \in Secret}

Settings == Optional \cup Required \cup {Url} \cup Parsed \cup Secret
Names == Settings \cup Files

Kinds(name) ==
    CASE name \in Files -> {"unset", "good", "bad", "blank"}
      [] name \in Parsed -> {"unset", "good", "bad"}
      [] name = Url -> {"unset", "good", "bad", "path"}
      [] OTHER -> {"unset", "good"}

\* One reader per kind: the value taken ("" if none, "fallback" for the
\* default) and the variables found wrong.
Read(value, errs) == [value |-> value, errs |-> errs]

str(env, key) == Read(IF env[key] = "unset" THEN "fallback" ELSE "given", {})

required(env, key) ==
    IF env[key] = "unset" THEN Read("", {key}) ELSE Read("given", {})

\* Mutant: a secret that cannot be read is left empty.
secretUnread(env, key) ==
    IF env[File[key]] \in {"bad", "blank"} THEN Read("", {})
    ELSE IF env[File[key]] = "good" THEN Read("given", {})
    ELSE required(env, key)

secret(env, key) ==
    CASE env[File[key]] = "unset" -> required(env, key)
      [] env[File[key]] = "bad"   -> Read("", {File[key]})
      [] env[File[key]] = "blank" -> Read("", {})
      [] env[File[key]] = "good"  -> Read("given", {})

\* integer, boolean and duration.
parsed(env, key) ==
    CASE env[key] = "unset" -> Read("fallback", {})
      [] env[key] = "bad"   -> Read("fallback", {key})
      [] OTHER              -> Read("given", {})

publicEndpoint(env) ==
    CASE env[Url] = "bad"  -> Read("", {Url})
      [] env[Url] = "path" -> Read("path", {})
      [] OTHER             -> required(env, Url)

read(env, key) ==
    CASE key \in Optional -> str(env, key)
      [] key \in Required -> required(env, key)
      [] key \in Parsed   -> parsed(env, key)
      [] key \in Secret   -> secret(env, key)
      [] key = Url        -> publicEndpoint(env)

\* Mutant: Load stops at the secrets if anything before them is wrong.
LoadFirst(env) ==
    LET all == [key \in Settings |-> read(env, key)]
        early == UNION {all[key].errs : key \in Settings \ Secret}
    IN  [cfg |-> [key \in Settings |-> all[key].value],
         errs |-> IF early # {} THEN early ELSE UNION {all[key].errs : key \in Secret}]

\* Every setting is read, and every error reported.
Load(env) ==
    LET all == [key \in Settings |-> read(env, key)]
    IN  [cfg |-> [key \in Settings |-> all[key].value],
         errs |-> UNION {all[key].errs : key \in Settings}]
=============================================================================
