----------------------------- MODULE KMSConfig -----------------------------
(***************************************************************************)
(* The settings of a KMS plugin that its start depends on, from the YAML     *)
(* file or the environment (internal/kms/config.go, internal/openbao/        *)
(* config.go).  "" is a setting that was left out.                           *)
(***************************************************************************)

TransitTypes == {"aes128-gcm96", "aes256-gcm96", "chacha20-poly1305"}
KeyTypes == TransitTypes \cup {"kuznyechik"}
Providers == {"transit", "kuznyechik"}

OrElse(value, default) == IF value = "" THEN default ELSE value

\* setDefaults; names, paths and intervals always get a value.
WithDefaults(c) ==
    [c EXCEPT !.encryptionProvider = OrElse(@, "kuznyechik"),
              !.keyType = OrElse(@, "kuznyechik")]

\* getEnvBool: what is neither absent nor a yes is a no.
EnvBool(value, default) ==
    IF value = "" THEN default ELSE value \in {"true", "1", "yes"}

\* LoadConfigFromEnv: an empty variable is an absent one.
FromEnvironment(env) ==
    WithDefaults([encryptionProvider |-> env.encryptionProvider,
                  keyType |-> env.keyType,
                  create |-> EnvBool(env.create, TRUE),
                  token |-> env.token, role |-> env.role])

\* openbao.Config.Validate: a token, or a Kubernetes login with a role.  Without
\* a role LoadConfigFromEnv sets up no Kubernetes login.
ValidOpenBao(c) == c.token \/ c.role

\* Validate.  The combination of provider and key type is looked at for
\* Kuznyechik only.
ValidKeyType(c) ==
    /\ c.keyType \in KeyTypes
    /\ c.encryptionProvider = "kuznyechik" => c.keyType = "kuznyechik"

Valid(c) ==
    /\ c.encryptionProvider \in Providers
    /\ ValidKeyType(c)
    /\ ValidOpenBao(c)

=============================================================================
