--------------------------------- MODULE Runner --------------------------------
(***************************************************************************)
(* The two run loops of main.rs: xv6-boot, which steps every hart in turn  *)
(* until one fails or the limit is reached, and xv6-time-to-shell, which   *)
(* steps one hart and looks for the shell's prompt at the end of what it   *)
(* has printed, but only every Period instructions.  An instruction is     *)
(* what it does to the loop: it prints at most one byte, or it fails.      *)
(* (bare_count, which is only reported, is left out.)                      *)
(***************************************************************************)
EXTENDS Integers

CONSTANTS
    CountSpace,  \* 2^64: count is a u64
    Period,      \* 4096
    NCPU,        \* the harts of xv6-boot
    Limits       \* the limits a command line gives; 0 is none

ASSUME CountAssumption == /\ CountSpace \in Nat /\ Period \in Nat \ {0} /\ CountSpace % Period = 0
                          /\ NCPU \in Nat \ {0}
                          /\ Limits \subseteq 0 .. (CountSpace - 1)

VARIABLES
    mode,      \* "boot" or "time"
    limit,
    turn,      \* the hart to step next
    executed,  \* per hart: the instructions it has completed, modulo CountSpace
    count,
    tail,      \* how the output ends: "other", "$" or "$ "
    exit       \* "no", "error", "limit" or "prompt"

run_vars == <<mode, limit, turn, executed, count, tail, exit>>

Harts == 0 .. (IF mode = "boot" THEN NCPU - 1 ELSE 0)

RunInit == /\ mode \in {"boot", "time"} /\ limit \in Limits
           /\ turn = 0 /\ executed = [h \in Harts |-> 0]
           /\ count = 0 /\ tail = "other" /\ exit = "no"

increment(n) == (n + 1) % CountSpace

\* The output after an instruction that prints a byte, or none.
Outputs == {tail, "other", "$"} \cup (IF tail = "$" THEN {"$ "} ELSE {})

\* What hart turn's instruction may do when it does not fail.
Executes == /\ executed' = [executed EXCEPT ![turn] = increment(@)]
            /\ tail' \in Outputs

Fails == /\ exit' = "error"
         /\ UNCHANGED <<executed, tail, count, turn>>

-----------------------------------------------------------------------------

AtLimit == limit # 0 /\ count' >= limit

\* A mutant, for the checks of the properties: every instruction is counted.
BootStep_counts_all ==
    /\ mode = "boot" /\ exit = "no"
    /\ Executes
    /\ turn' = (turn + 1) % NCPU
    /\ count' = increment(count)
    /\ exit' = IF AtLimit THEN "limit" ELSE exit
    /\ UNCHANGED <<mode, limit>>

\* run_xv6_boot: one hart's instruction, and the end of the round after the last.
BootStep ==
    /\ mode = "boot" /\ exit = "no"
    /\ \/ Fails
       \/ /\ Executes
          /\ turn' = (turn + 1) % NCPU
          /\ count' = IF turn' = 0 THEN increment(count) ELSE count
          /\ exit' = IF turn' = 0 /\ AtLimit THEN "limit" ELSE exit
    /\ UNCHANGED <<mode, limit>>

\* A mutant, for the checks of the properties: only a prompt just printed counts.
Verdict_on_change == IF count' % Period = 0 /\ tail' = "$ " /\ tail # "$ " THEN "prompt"
                     ELSE IF AtLimit THEN "limit" ELSE "no"

Verdict == IF count' % Period = 0 /\ tail' = "$ " THEN "prompt"
           ELSE IF AtLimit THEN "limit" ELSE "no"

\* run_xv6_time_to_shell
TimeStep ==
    /\ mode = "time" /\ exit = "no"
    /\ \/ Fails
       \/ /\ Executes
          /\ count' = increment(count)
          /\ exit' = Verdict
          /\ UNCHANGED turn
    /\ UNCHANGED <<mode, limit>>

RunNext == BootStep \/ TimeStep

\* The loops never wait.
RunSpec == RunInit /\ [][RunNext]_run_vars /\ WF_run_vars(RunNext)

-----------------------------------------------------------------------------

\* count is what the messages call it, rounds and instructions per hart: in the
\* middle of a round, and when an instruction fails there, the harts before the
\* one at turn have done one more.  And the limit is exact: when it stops the
\* machine every hart has done so many instructions, and none ever does more.
CountIsExact ==
    /\ \A h \in Harts : executed[h] = IF h < turn THEN increment(count) ELSE count
    /\ limit # 0 => /\ \A h \in Harts : executed[h] <= limit
                    /\ exit = "limit" => \A h \in Harts : executed[h] = limit

\* A run ends: one with a limit whatever the guest does, and xv6-time-to-shell
\* when the prompt has come to stay, though it looks only now and then.
RunsEnd == (limit # 0 \/ (mode = "time" /\ <>[](tail = "$ "))) => <>(exit # "no")

=============================================================================
