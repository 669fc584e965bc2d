---------------------------- MODULE Configuration ----------------------------
(***************************************************************************)
(* What the server is started with, and what it makes of it: readConfig,   *)
(* parse and Settings of core/NemesisConfig.h, and the choice of a core in *)
(* Server::run.                                                            *)
(*                                                                         *)
(* The command line is a record: `parsed', boost accepts it; `help';       *)
(* `config', the file --config names; `loadPath' and `loadName', the       *)
(* options that ask for a load.  The configuration file is what parse      *)
(* tells apart of it: `wrong', the parameters that are missing or of       *)
(* another type, and the values it compares.                               *)
(***************************************************************************)
EXTENDS Integers

\* NEMESIS_CONFIG_VERSION, NEMESIS_MINPAYLOAD and NEMESIS_MAXPAYLOAD.
ConfigVersion == 6
MinPayload == 64
MaxPayload == 32 * 1024

\* The parameters parse requires.  `core' may be absent, but not of another type.
Parameter ==
  {"persist", "arrays", "lists", "version", "core", "ip", "port", "maxPayload",
   "persist.path", "persist.enabled", "arrays.maxCapacity", "arrays.maxResponseSize",
   "lists.maxResponseSize"}

NoCore == -1

\* What is at a path: the empty path names nothing either.
PathKind == {"empty", "nothing", "file", "unwritable", "directory"}

IsThere(path) == path \notin {"empty", "nothing"}

\* parse answers true.
Accepts(file) ==
  /\ file.json
  /\ file.wrong = {}
  /\ file.version = ConfigVersion
  /\ file.maxPayload \in MinPayload..MaxPayload
  /\ file.enabled => file.path # "empty"

AsksForLoad(args) == args.loadPath # "none" \/ args.loadName

LoadPath(args, file) == IF args.loadPath = "none" THEN file.path ELSE args.loadPath

\* readConfig: the settings are valid or not, or their constructor throws, for it
\* reads `core' whether it is there or not, and nothing catches that.
ReadSettings(args, file) ==
  IF \/ ~args.parsed \/ args.help
     \/ ~IsThere(args.config)
     \/ ~Accepts(file)
     \/ AsksForLoad(args) /\ ~IsThere(LoadPath(args, file))
  THEN "invalid"
  ELSE IF file.core = NoCore THEN "throws" ELSE "valid"

\* Server::init: the path is a directory, and a file can be written there.
PersistUsable(file) == file.enabled => file.path = "directory"

\* (Plausible bug: a core above those there are is taken as it is.)
CorePreferred(file, cores) == file.core

\* The core for the loop's thread.  hardware_concurrency, a number of cores, is
\* compared with the number of a core, which counts from 0; it is 0 if unknown.
CoreFor(file, cores) == IF cores = 0 \/ file.core > cores THEN 0 ELSE file.core
=============================================================================
