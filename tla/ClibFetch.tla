----------------------------- MODULE ClibFetch -----------------------------
(***************************************************************************)
(* The threads that fetch the files of a package, for ClibInstall:         *)
(* fetch_package_file and its thread in src/hw8/clib/src/common/           *)
(* clib-package.c, the files they write and the reference count that keeps *)
(* the package object alive.  A thread takes the directory and the package *)
(* by pointer from the call of clib_package_install that started it.       *)
(*                                                                         *)
(* A call of clib_package_install is named by the number of the package    *)
(* object it installs; a place is where a copy lives: a directory of       *)
(* dependencies and the package.                                           *)
(***************************************************************************)
EXTENDS Integers, Sequences, SequencesExt, FiniteSets

CONSTANTS
  Packages,     \* packages of the registry
  Describe,     \* what the manifest of each says
  MaxFiles,     \* bound: source files of a package
  Concurrency,  \* opts.concurrency
  Here, File,   \* arguments that are no slugs: ".", "./clib.json"
  Setups        \* command line and faults of a run

Makefile == 0
Names == 0..MaxFiles     \* the makefile and the sources, in the order listed

ASSUME ClibFetchAssumption ==
  /\ MaxFiles \in Nat /\ Concurrency \in Nat
  /\ IsFiniteSet(Packages) /\ {Here, File} \cap Packages = {}
  /\ \A p \in Packages :
       /\ Describe[p].sources \in -1..MaxFiles     \* -1: no src in the manifest
       /\ {Describe[p].makefile, Describe[p].configure, Describe[p].install} \subseteq BOOLEAN
       /\ {Describe[p].dependencies, Describe[p].development} \subseteq Seq(Packages)
  /\ \A s \in Setups :
       /\ s.cmd \in {"install", "update", "upgrade"}
       /\ {s.force, s.skipCache, s.global, s.dev, s.save} \subseteq BOOLEAN
       /\ s.args \in Seq(Packages \cup {Here, File})   \* none: what ./ needs
       /\ File \in Range(s.args) => "clib.json" \in s.manifests
       /\ s.manifests \subseteq {"clib.json", "package.json"}
       /\ {s.dependencies, s.development} \subseteq Seq(Packages)   \* what ./ needs
       /\ s.manifests = {} => s.dependencies = <<>> /\ s.development = <<>>
       /\ s.cmd = "upgrade" => Len(s.args) = 1 /\ Head(s.args) \in Packages
       /\ s.faults \subseteq {"get", "lookup", "thread", "command", "disk"}

VARIABLES
  setup,    \* the setup of this run
  disk,     \* the files at each place: "absent", "cut" or "whole"
  refs,     \* pkg->refs of each package object
  freed,    \* the package objects that were freed
  fetch,    \* the threads: <<call, file>> -> where it is
  damaged   \* packages a fetch of which failed or was cut by a kill

fetchVars == <<disk, refs, freed, fetch, damaged>>

\* What main of clib install, clib update and clib upgrade makes of the command
\* line, for clib_package_set_opts.
InstallOptions ==
  [force |-> setup.force, skipCache |-> setup.skipCache, global |-> setup.global,
   dev |-> setup.dev, save |-> setup.save]
UpdateOptions ==
  [force |-> TRUE, skipCache |-> TRUE, global |-> FALSE, dev |-> setup.dev, save |-> FALSE]
UpgradeOptions ==
  [force |-> setup.force, skipCache |-> TRUE, global |-> TRUE, dev |-> FALSE, save |-> FALSE]
Options ==
  [install |-> InstallOptions, update |-> UpdateOptions, upgrade |-> UpgradeOptions][setup.cmd]
Faulty(what) == what \in setup.faults

\* The packages with a file that is being written, and stays cut when the
\* process ends now.
Arriving == {fetch[t].place[2] : t \in {x \in DOMAIN fetch : fetch[x].pc = "get"}}

NoFiles == [f \in Names |-> "absent"]
OnDisk(place) == IF place \in DOMAIN disk THEN disk[place] ELSE NoFiles
Write(place, files) ==
  [x \in DOMAIN disk \cup {place} |-> IF x = place THEN files ELSE disk[x]]

\* fetch_package_file: pkg->refs++, with the value read a step before, and a
\* thread for the file, whose data goes to a slot of fetchs (-1: the makefile).
Start(c, file, place, slot, read) ==
  /\ refs' = [refs EXCEPT ![c] = read + 1]
  /\ fetch' = [t \in DOMAIN fetch \cup {<<c, file>>} |->
                 IF t = <<c, file>>
                 THEN [place |-> place, slot |-> slot, pc |-> "look", read |-> 0]
                 ELSE fetch[t]]
  /\ UNCHANGED <<disk, freed, damaged>>
\* pthread_create fails: the count stays raised.
StartFails(c, read) ==
  /\ Faulty("thread")
  /\ refs' = [refs EXCEPT ![c] = read + 1]
  /\ UNCHANGED <<disk, freed, fetch, damaged>>

\* pthread_join returns and the data of the thread is freed.
JoinThread(t) ==
  /\ fetch[t].pc = "ended"
  /\ fetch' = [x \in DOMAIN fetch \ {t} |-> fetch[x]]
  /\ UNCHANGED <<disk, refs, freed, damaged>>

\* Under the lock the thread decides from the file alone.
Look(t) ==
  /\ fetch[t].pc = "look"
  /\ fetch' = [fetch EXCEPT ![t].pc =
                 IF Options.force \/ OnDisk(fetch[t].place)[t[2]] = "absent" THEN "open" ELSE "count"]
  /\ UNCHANGED <<disk, refs, freed, damaged>>

\* http_get_file_shared opens the file and empties it,
Open(t) ==
  /\ fetch[t].pc = "open"
  /\ disk' = Write(fetch[t].place, [OnDisk(fetch[t].place) EXCEPT ![t[2]] = "cut"])
  /\ fetch' = [fetch EXCEPT ![t].pc = "get"]
  /\ UNCHANGED <<refs, freed, damaged>>

\* and writes what arrives.  After a failure the file stays as it is.
Got(t) ==
  /\ fetch[t].pc = "get"
  /\ \/ /\ disk' = Write(fetch[t].place, [OnDisk(fetch[t].place) EXCEPT ![t[2]] = "whole"])
        /\ UNCHANGED damaged
     \/ Faulty("get") /\ damaged' = damaged \cup {fetch[t].place[2]} /\ UNCHANGED disk
  /\ fetch' = [fetch EXCEPT ![t].pc = "count"]
  /\ UNCHANGED <<refs, freed>>

\* pkg->refs-- reads,
Count(t) ==
  /\ fetch[t].pc = "count"
  /\ fetch' = [fetch EXCEPT ![t].pc = "end", ![t].read = refs[t[1]]]
  /\ UNCHANGED <<disk, refs, freed, damaged>>

\* and writes, and the thread ends; it stays until somebody joins it.
End(t) ==
  /\ fetch[t].pc = "end"
  /\ refs' = [refs EXCEPT ![t[1]] = fetch[t].read - 1]
  /\ fetch' = [fetch EXCEPT ![t].pc = "ended", ![t].read = 0]
  /\ UNCHANGED <<disk, freed, damaged>>

FetchStep(t) == Look(t) \/ Open(t) \/ Got(t) \/ Count(t) \/ End(t)
=============================================================================
