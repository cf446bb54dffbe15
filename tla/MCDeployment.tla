--------------------------- MODULE MCDeployment ---------------------------
(***************************************************************************)
(* The instance of Deployment that TLC checks.                             *)
(***************************************************************************)
EXTENDS Deployment

Env(dsn, dsnFile, key, keyFile, rest) ==
    [DSN |-> dsn, DSN_FILE |-> dsnFile, KEY |-> key, KEY_FILE |-> keyFile,
     rest |-> rest]

\* Production with both secrets in files; the same with the DSN also given;
\* everything in the environment; development without a database; a key too
\* short that hides a good one in a file; no key; settings that are refused.
MCEnvirons ==
    {Env("", TRUE, "", TRUE, TRUE), Env("db", TRUE, "", TRUE, TRUE),
     Env("db", FALSE, "good", FALSE, TRUE), Env("", FALSE, "good", FALSE, TRUE),
     Env("db", FALSE, "short", TRUE, TRUE), Env("", TRUE, "", FALSE, TRUE),
     Env("db", FALSE, "good", FALSE, FALSE)}
===========================================================================
