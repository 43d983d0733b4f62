----------------------------- MODULE MCTransit -----------------------------
(* Values for the constants of TransitServer.                               *)
EXTENDS TransitServer

CONSTANTS c1, t1, t2

MCCallers == {c1, Loop}

Environment(provider, keyType, create, given, role) ==
    [encryptionProvider |-> provider, keyType |-> keyType, create |-> create,
     token |-> given, role |-> role]

\* A login and a given token; the default key type, which Transit has not; a
\* plugin that may not create the key; settings that Validate refuses.
MCSettings ==
    {Environment("transit", "aes256-gcm96", "", FALSE, TRUE),
     Environment("transit", "", "yes", TRUE, TRUE),
     Environment("transit", "aes256-gcm96", "false", TRUE, FALSE),
     Environment("transit", "aes256-gcm96", "", FALSE, FALSE)}

=============================================================================
