---------------------------- MODULE CommandLine ----------------------------
(***************************************************************************)
(* The kernel command line (threads/init.c): options, the block devices    *)
(* they choose (devices/block.c), actions, and how the machine ends up     *)
(* (devices/shutdown.c, debug_panic).                                      *)
(*                                                                         *)
(* A word is a record.  A word with a dash is an option, which strtok_r    *)
(* splits at the `=' into a name and a value, NULL if there is none.       *)
(*                                                                         *)
(* k is the state of the machine:                                          *)
(*   fate      "runs", or how it ended: "off", "reboot", "halted", "idle"  *)
(*   panicked  debug_panic was called                                      *)
(*   how, format, filesys, scratch, seed, mlfqs, ul   what options set     *)
(*   role      the block device of each role                               *)
(*   done      the actions carried out, each with its arguments            *)
(***************************************************************************)
EXTENDS Integers, FiniteSets, SequencesExt

CONSTANTS
  Device,   \* the block devices in probe order, each with a name and a type
  Fails(_)  \* an action with its arguments that panics

NULL == "NULL"

Initially ==
  [fate |-> "runs", panicked |-> FALSE, how |-> "none", format |-> FALSE,
   filesys |-> NULL, scratch |-> NULL, seed |-> NULL, mlfqs |-> FALSE, ul |-> NULL,
   role |-> [filesys |-> NULL, scratch |-> NULL], done |-> <<>>]

\* shutdown, when configured, does not return; otherwise the caller goes on.
shutdown(k, otherwise) == [k EXCEPT !.fate = IF k.how = "none" THEN otherwise ELSE k.how]
shutdown_configure(k, type) == [k EXCEPT !.how = type]
debug_panic(k) == shutdown([k EXCEPT !.panicked = TRUE], "halted")
usage(k) == [k EXCEPT !.fate = "off"]

random_init(k, seed) == [k EXCEPT !.seed = seed]

\* atoi asserts that there is a value.
ApplyOption(k, w) ==
  CASE w.name = "-h" -> usage(k)
    [] w.name = "-q" -> shutdown_configure(k, "off")
    [] w.name = "-r" -> shutdown_configure(k, "reboot")
    [] w.name = "-f" -> [k EXCEPT !.format = TRUE]
    [] w.name = "-filesys" -> [k EXCEPT !.filesys = w.value]
    [] w.name = "-scratch" -> [k EXCEPT !.scratch = w.value]
    [] w.name = "-mlfqs" -> [k EXCEPT !.mlfqs = TRUE]
    [] w.name = "-rs" /\ w.value # NULL -> random_init(k, w.value)
    [] w.name = "-ul" /\ w.value # NULL -> [k EXCEPT !.ul = w.value]
    [] OTHER -> debug_panic(k)

\* The machine after the options, and the words that are left.  The generator
\* is seeded with the time of day whatever the options said.
RECURSIVE parse_options(_, _)
parse_options(k, argv) ==
  IF k.fate # "runs" THEN [k |-> k, argv |-> argv]
  ELSE IF argv # <<>> /\ Head(argv).dash
    THEN parse_options(ApplyOption(k, Head(argv)), Tail(argv))
  ELSE [k |-> random_init(k, "time"), argv |-> argv]

block_get_by_name(name) == SelectSeq(Device, LAMBDA b : b.name = name)
BlocksOfType(type) == SelectSeq(Device, LAMBDA b : b.type = type)
block_set_role(k, role, blocks) ==
  IF blocks = <<>> THEN k ELSE [k EXCEPT !.role[role] = blocks[1]]

locate_block_device(k, role, name) ==
  CASE k.fate # "runs" -> k
    [] name = NULL -> block_set_role(k, role, BlocksOfType(role))
    [] block_get_by_name(name) = <<>> -> debug_panic(k)
    [] OTHER -> block_set_role(k, role, block_get_by_name(name))

locate_block_devices(k) ==
  locate_block_device(locate_block_device(k, "filesys", k.filesys), "scratch", k.scratch)

\* The number of words of each action.
actions == [run |-> 2, ls |-> 1, cat |-> 2, rm |-> 2, extract |-> 1, append |-> 2]

RECURSIVE run_actions(_, _)
run_actions(k, argv) ==
  IF k.fate # "runs" \/ argv = <<>> THEN k
  ELSE IF argv[1].name \notin DOMAIN actions \/ Len(argv) < actions[argv[1].name]
    THEN debug_panic(k)
  ELSE LET argc == actions[argv[1].name]
           words == SubSeq(argv, 1, argc)
       IN  IF Fails(words) THEN debug_panic(k)
           ELSE run_actions([k EXCEPT !.done = Append(@, words)],
                            SubSeq(argv, argc + 1, Len(argv)))

main(argv) ==
  LET p == parse_options(Initially, argv)
      k == run_actions(locate_block_devices(p.k), p.argv)
  IN  IF k.fate = "runs" THEN shutdown(k, "idle") ELSE k

-----------------------------------------------------------------------------
\* What is carried out is what the command line says from its first word
\* without a dash on, in order and with nothing skipped, and all of it unless
\* the machine panics or help is asked for.  A panic has a reason: the next
\* words are no action, or one that fails, or an option or a device is wrong.
\* Whether the actions succeed or the kernel panics, -q and -r before that
\* point decide how the machine ends, the last one given.
CommandLineOK(argv) ==
  LET r == main(argv)
      plain == {i \in DOMAIN argv : ~argv[i].dash}
      n == IF plain = {} THEN Len(argv) ELSE (CHOOSE i \in plain : \A j \in plain : i <= j) - 1
      Given(names) == SelectSeq(SubSeq(argv, 1, n), LAMBDA w : w.name \in names)
      Decisive(names) == IF Given(names) = <<>> THEN [name |-> NULL, value |-> NULL]
                         ELSE Last(Given(names))
      sound == /\ Given({"-bad"}) = <<>>
               /\ \A w \in Range(Given({"-rs", "-ul"})) : w.value # NULL
      disk == Decisive({"-filesys"}).value
      found == disk \in {NULL} \cup {b.name : b \in Range(Device)}
      end == Decisive({"-q", "-r"}).name
      words == SubSeq(argv, n + 1, Len(argv))
      did == FlattenSeq(r.done)
      rest == SubSeq(words, Len(did) + 1, Len(words))
      Wrong == /\ rest # <<>>
               /\ rest[1].name \in DOMAIN actions /\ Len(rest) >= actions[rest[1].name] =>
                    Fails(SubSeq(rest, 1, actions[rest[1].name]))
  IN  /\ IsPrefix(did, words)
      /\ did # <<>> => sound /\ found /\ Given({"-h"}) = <<>>
      /\ Given({"-h"}) = <<>> =>
           /\ r.panicked <=> ~sound \/ ~found \/ Wrong
           /\ ~r.panicked => did = words
           /\ sound => r.fate = CASE end = "-q" -> "off" [] end = "-r" -> "reboot"
                                  [] OTHER -> IF r.panicked THEN "halted" ELSE "idle"
           /\ sound /\ found /\ disk # NULL => r.role.filesys.name = disk
=============================================================================
