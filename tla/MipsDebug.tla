------------------------------ MODULE MipsDebug ------------------------------
(* The diagnostics of the CPU API: a client that opens streams, points        *)
(* mips_cpu_set_debug_level at them and closes them while it calls the CPU,   *)
(* or has the test program's -d and -f options do the first two.  What counts *)
(* is which call writes where: all the lines of a call go to the same stream, *)
(* and what they say is left out.                                             *)
EXTENDS MipsCpu, Sequences

CONSTANTS
  Files,             \* what can be opened besides stdout and stderr
  Levels,            \* debug levels the client asks for
  Arguments,         \* argv without the program's name
  atoi               \* their numbers

Streams == {"stdout", "stderr"} \cup Files
Wild == "wild"                     \* an uninitialised FILE *

ASSUME StreamAssumption ==
  /\ Files \subseteq STRING \ {"stdout", "stderr", NULL, Wild}
  /\ 0 \in Levels /\ Levels \subseteq Nat
  /\ Arguments \subseteq Seq(STRING)
  /\ \A argv \in Arguments : Len(argv) >= 2 => argv[2] \in DOMAIN atoi
  /\ atoi \in [DOMAIN atoi -> Levels]

VARIABLES
  debugLevel, debugDest,           \* the rest of struct mips_cpu_impl
  open,        \* the streams that can be written
  attached,    \* the stream the client last asked for reports on, or NULL
  wrote        \* the streams the last call wrote to

debug == << debugLevel, debugDest, open, attached, wrote >>

DebugInit ==
  /\ Init
  /\ debugLevel = 0
  /\ debugDest = NULL
  /\ open = {"stdout", "stderr"}
  /\ attached = NULL
  /\ wrote = {}

(* The call writes to the stream of the CPU under some condition, or never.   *)
WritesIf(condition) == wrote' = IF condition THEN {debugDest} ELSE {}
Quiet == wrote' = {} /\ UNCHANGED << debugLevel, debugDest, open, attached >>

(* A CPU begins and ends without a level or a stream.                         *)
CreateOrFree ==
  /\ mips_cpu_create \/ mips_cpu_free
  /\ debugLevel' = 0
  /\ debugDest' = NULL
  /\ attached' = NULL
  /\ wrote' = {}
  /\ UNCHANGED open

(* A reset reports at level 2 alone.                                          *)
ResetReports ==
  /\ mips_cpu_reset
  /\ WritesIf(handle # NULL /\ debugLevel = 2)
  /\ UNCHANGED << debugLevel, debugDest, open, attached >>

(* A step reports once it has fetched, also if it then fails or is killed.    *)
Fetches == mips_mem_read_write(state.mem, CbMem, state.pc, 4) = Success
StepReports ==
  /\ mips_cpu_step
  /\ WritesIf(handle # NULL /\ debugLevel # 0 /\ Fetches)
  /\ UNCHANGED << debugLevel, debugDest, open, attached >>

LevelAfter_NeverZero(level) == IF level > 0 THEN level ELSE debugLevel
LevelAfter(level) == level

(* dest is required if level > 0 (mips_cpu.h).                                *)
SetDebugLevel(level, dest) ==
  /\ handle # NULL
  /\ Reply("mips_cpu_set_debug_level", Success)
  /\ debugLevel' = LevelAfter(level)
  /\ debugDest' = IF dest = NULL THEN "stderr" ELSE dest
  /\ wrote' = IF level > 0 THEN {dest} ELSE {}
  /\ attached' = IF level > 0 THEN dest ELSE NULL
  /\ UNCHANGED << process, handle, state, data, taken >>

mips_cpu_set_debug_level(level, dest) ==
  \/ OnNull("mips_cpu_set_debug_level") /\ Quiet
  \/ SetDebugLevel(level, dest) /\ UNCHANGED open

(* set_debug_level of the test program reads its options.                     *)
HasD(argv) == argv[1] = "-d"
HasF(argv) == HasD(argv) /\ Len(argv) > 3 /\ argv[3] = "-f"
(* stderr takes the place of a file that cannot be opened.                    *)
Opened(name) ==
  ({name} \cap Streams) \cup (IF name \in {"stdout", "stderr"} THEN {} ELSE {"stderr"})
Destination(argv) ==
  IF HasF(argv) THEN Opened(argv[4]) ELSE IF HasD(argv) THEN {"stdout"} ELSE {Wild, "stderr"}

(* Without -d the stream it passes on with level 0 is uninitialised, as is    *)
(* without -f the file name it prints.                                        *)
OptionsRead(argv) ==
  \E dest \in Destination(argv) :
    /\ SetDebugLevel(IF HasD(argv) THEN atoi[argv[2]] ELSE 0, dest)
    /\ open' = open \cup ({dest} \cap Files)

NameKills(argv) ==
  /\ handle # NULL
  /\ ~HasF(argv)
  /\ process = "running"
  /\ process' = "killed"
  /\ wrote' = {}
  /\ UNCHANGED << handle, state, data, call, err, taken >>
  /\ UNCHANGED << debugLevel, debugDest, open, attached >>

set_debug_level(argv) == Len(argv) >= 2 /\ (OptionsRead(argv) \/ NameKills(argv))

(* The client closes what it has opened, after detaching it from the CPU.     *)
fopen(file) ==
  /\ process = "running"
  /\ open' = open \cup {file}
  /\ wrote' = {}
  /\ UNCHANGED << vars, debugLevel, debugDest, attached >>

fclose(file) ==
  /\ process = "running"
  /\ attached # file
  /\ open' = open \ {file}
  /\ wrote' = {}
  /\ UNCHANGED << vars, debugLevel, debugDest, attached >>

DebugNext ==
  \/ CreateOrFree
  \/ ResetReports
  \/ StepReports
  \/ \E pc \in ClientPCs : mips_cpu_set_pc(pc) /\ Quiet
  \/ \E index \in ClientRegs, value \in ClientValues :
       mips_cpu_set_register(index, value) /\ Quiet
  \/ \E dest \in open : \E level \in Levels : mips_cpu_set_debug_level(level, dest)
  \/ mips_cpu_set_debug_level(0, NULL)
  \/ \E argv \in Arguments : set_debug_level(argv)
  \/ \E file \in Files : fopen(file) \/ fclose(file)

DebugSpec == DebugInit /\ [][DebugNext]_<< vars, debug >>
----------------------------------------------------------------------------
(* A report goes to the stream the client asked for last, and that is open:   *)
(* the CPU keeps the streams it was once given, also after they are closed,   *)
(* and a level of 0 is all that stops it from writing to one.                 *)
ReportsReachTheClient == \A dest \in wrote : dest = attached /\ dest \in open
=============================================================================
