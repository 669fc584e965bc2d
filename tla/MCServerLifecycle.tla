------------------------- MODULE MCServerLifecycle -------------------------
(* A few clients of one server process, and what it may be started with.   *)
EXTENDS Startup

\* The default configuration, and all it needs.
Plain ==
  [args |-> [parsed |-> TRUE, help |-> FALSE, config |-> "file", loadPath |-> "none",
             loadName |-> FALSE],
   file |-> [json |-> TRUE, wrong |-> {}, version |-> 6, core |-> 0,
             maxPayload |-> 8192, enabled |-> FALSE, path |-> "nothing"],
   saved |-> "refused", portFree |-> TRUE, cores |-> 2, allowed |-> {0, 1}]

\* The default one, started otherwise.
OfArgs ==
  {[Plain EXCEPT !.args.parsed = FALSE], [Plain EXCEPT !.args.help = TRUE],
   [Plain EXCEPT !.args.config = "nothing"]}

OfFile ==
  {[Plain EXCEPT !.file.json = FALSE], [Plain EXCEPT !.file.version = 5]}
    \cup {[Plain EXCEPT !.file.wrong = {p}] : p \in Parameter}
    \cup {[Plain EXCEPT !.file.maxPayload = n] : n \in {MinPayload - 1, MaxPayload + 1}}
    \cup {[Plain EXCEPT !.file.core = n] : n \in {NoCore, 1, 2, 3}}

OfPersist ==
  {[Plain EXCEPT !.file.enabled = TRUE, !.file.path = path] :
     path \in PathKind \ {"directory"}}

OfLoad ==
  {[Plain EXCEPT !.args.loadName = TRUE, !.args.loadPath = path, !.saved = saved,
                 !.file.enabled = (path = "none"), !.file.path = "directory"] :
     path \in {"none", "nothing", "directory"}, saved \in {"complete", "refused", "throws"}}
    \cup {[Plain EXCEPT !.args.loadName = TRUE]}

\* The process may not run on core 0, as in a container; hardware_concurrency is
\* not known.
OfMachine ==
  {[Plain EXCEPT !.portFree = FALSE], [Plain EXCEPT !.allowed = {1}],
   [Plain EXCEPT !.cores = 0], [Plain EXCEPT !.cores = 0, !.file.core = 1]}

EveryStart == {Plain} \cup OfArgs \cup OfFile \cup OfPersist \cup OfLoad \cup OfMachine

\* One start that goes well and one that fails when clients may have come.
TwoStarts == {Plain, [Plain EXCEPT !.file.core = 2]}
=============================================================================
