------------------------------- MODULE Config -------------------------------
(***************************************************************************)
(* The configuration of a process: what it reads from its environment and  *)
(* from the files a secrets agent writes, and what Validate refuses.       *)
(*                                                                         *)
(* A value is kept as what the code tells apart: the DSN is "" or "db",    *)
(* the seal key "", "short" (below 32 bytes) or "good".  The settings with *)
(* a default or a library's own validation are one flag, valid or not.     *)
(***************************************************************************)

CONSTANT
    Environs        \* the environments the service is deployed with

EnvironType ==
    [DSN : {"", "db"}, DSN_FILE : BOOLEAN,
     KEY : {"", "short", "good"}, KEY_FILE : BOOLEAN, rest : BOOLEAN]

ASSUME ConfigAssumption == Environs \subseteq EnvironType

VARIABLES
    environ,        \* the environment of this deployment, which never changes
    files,          \* the secret files: "missing", "blank" or "written"
    conf            \* what the process has read: [key, dsn]

configVars == <<environ, files, conf>>

NewConfiguration == [key |-> "", dsn |-> ""]

ConfigTypeOK ==
    /\ environ \in Environs
    /\ files \in [{"DSN", "KEY"} -> {"missing", "blank", "written"}]
    /\ conf \in [key : {"", "short", "good"}, dsn : {"", "db"}]

ConfigInit ==
    /\ environ \in Environs
    /\ files = [f \in {"DSN", "KEY"} |-> "missing"]
    /\ conf = NewConfiguration

-----------------------------------------------------------------------------
\* The agent creates a file and fills it, one after the other.
AgentWrites(f) ==
    /\ files[f] # "written"
    /\ files' = [files EXCEPT ![f] = IF @ = "missing" THEN "blank" ELSE "written"]
    /\ UNCHANGED <<environ, conf>>

\* LoadRemoteSecret: a file that is missing, or blank once trimmed, gives "".
LoadRemoteSecret(f, named, value) ==
    IF named /\ files[f] = "written" THEN value ELSE ""

\* The key, from the environment or else from its file.
BindKey ==
    /\ conf' = [conf EXCEPT !.key =
                  IF environ.KEY # "" THEN environ.KEY
                  ELSE LoadRemoteSecret("KEY", environ.KEY_FILE, "good")]
    /\ UNCHANGED <<environ, files>>

\* The DSN, likewise; the agent may write between the two reads.
BindDSN ==
    /\ conf' = [conf EXCEPT !.dsn =
                  IF environ.DSN # "" THEN environ.DSN
                  ELSE LoadRemoteSecret("DSN", environ.DSN_FILE, "db")]
    /\ UNCHANGED <<environ, files>>

\* The DSN is named as a file and there is none yet.
refuseEmptyFileSecret == environ.DSN_FILE /\ conf.dsn = ""

\* Mutant of Validate: the unwritten file is taken for "no database".
Validate_NoRefusal ==
    /\ environ.rest
    /\ conf.key = "good"

Validate ==
    /\ ~refuseEmptyFileSecret
    /\ environ.rest
    /\ conf.key = "good"

StoreBackend == IF conf.dsn # "" THEN "postgres" ELSE "memory"
=============================================================================
